----------------------------- MODULE PageStore -----------------------------
(***************************************************************************)
(* What the buffer pool promises to the threads that use it, without a     *)
(* cache: every page has one content.  A thread gets a page, alone or with *)
(* other readers, sees the content until it puts the page back, and only a *)
(* thread that has the page alone changes it.                              *)
(*                                                                         *)
(* The promise of __memp_fget, __memp_dirty, __memp_shared and __memp_fput *)
(* of mp/.                                                                 *)
(***************************************************************************)
CONSTANTS Threads, Pages, NoPage, Versions

VARIABLES
    content,   \* the content of every page
    view       \* what a thread has: a page, how, and what it sees there

vars == <<content, view>>

Away == [page |-> NoPage, mode |-> "none", val |-> 0]

Holders(p) == {t \in Threads : view[t].page = p}
Writers(p) == {t \in Holders(p) : view[t].mode = "write"}

Init ==
    /\ content = [p \in Pages |-> 0]
    /\ view = [t \in Threads |-> Away]

\* A thread takes a page to read it, or has it alone to write it.
Take(t, p, m) ==
    /\ view[t] = Away
    /\ IF m = "write" THEN Holders(p) = {} ELSE Writers(p) = {}
    /\ view' = [view EXCEPT ![t] = [page |-> p, mode |-> m, val |-> content[p]]]
    /\ UNCHANGED content

Write(t, v) ==
    /\ view[t].mode = "write"
    /\ content' = [content EXCEPT ![view[t].page] = v]
    /\ view' = [view EXCEPT ![t].val = v]

\* A thread puts its page back, for good or to take it in another mode.
Leave(t) ==
    /\ view[t] # Away
    /\ view' = [view EXCEPT ![t] = Away]
    /\ UNCHANGED content

Next ==
    \E t \in Threads :
        \/ \E p \in Pages, m \in {"read", "write"} : Take(t, p, m)
        \/ \E v \in Versions : Write(t, v)
        \/ Leave(t)

Spec == Init /\ [][Next]_vars
=============================================================================
