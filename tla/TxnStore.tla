------------------------------ MODULE TxnStore ------------------------------
(***************************************************************************)
(* What transactions promise, without a log: a transaction takes effect    *)
(* all at once when it commits, in the order of the commits, and a crash   *)
(* keeps a beginning of that order which has every commit that a caller    *)
(* was told is durable.  A prepared transaction survives until it is       *)
(* resolved.                                                               *)
(*                                                                         *)
(* The promise of doc: __txn_commit, __txn_abort and __txn_prepare of      *)
(* txn/txn.c, and __db_apprec of env/env_recover.c.                        *)
(***************************************************************************)
EXTENDS SequencesExt

CONSTANTS Txns, Pages, Items

VARIABLES
    outcome,   \* what became of a transaction
    puts,      \* the items it puts on each page
    order,     \* the committed transactions, in order
    voted,     \* the transactions that were prepared
    promised,  \* the commits that are durable
    store      \* the pages without the work in progress

vars == <<outcome, puts, order, voted, promised, store>>

Outcomes == {"unborn", "running", "prepared", "committed", "ended"}
Nothing == [p \in Pages |-> <<>>]

\* The pages after the transactions of s, one after the other.
Content(s, work) ==
    [p \in Pages |-> FoldLeft(LAMBDA val, h : val \o work[h][p], <<>>, s)]

Init ==
    /\ outcome = [h \in Txns |-> "unborn"]
    /\ puts = [h \in Txns |-> Nothing]
    /\ order = <<>> /\ voted = {} /\ promised = {}
    /\ store = Nothing

Begin(h) ==
    /\ outcome[h] = "unborn"
    /\ outcome' = [outcome EXCEPT ![h] = "running"]
    /\ UNCHANGED <<puts, order, voted, promised, store>>

Put(h, p, i) ==
    /\ outcome[h] = "running"
    /\ puts' = [puts EXCEPT ![h][p] = Append(@, i)]
    /\ UNCHANGED <<outcome, order, voted, promised, store>>

\* A nested transaction commits: its work becomes its parent's.
Merge(h, parent) ==
    /\ h # parent /\ outcome[h] = "running" /\ outcome[parent] = "running"
    /\ outcome' = [outcome EXCEPT ![h] = "ended"]
    /\ puts' = [puts EXCEPT ![h] = Nothing,
                            ![parent] = [p \in Pages |-> @[p] \o puts[h][p]]]
    /\ UNCHANGED <<order, voted, promised, store>>

Prepare(h) ==
    /\ outcome[h] = "running"
    /\ outcome' = [outcome EXCEPT ![h] = "prepared"]
    /\ voted' = voted \cup {h}
    /\ UNCHANGED <<puts, order, promised, store>>

Commit(h) ==
    /\ outcome[h] \in {"running", "prepared"}
    /\ outcome' = [outcome EXCEPT ![h] = "committed"]
    /\ order' = Append(order, h)
    /\ store' = [p \in Pages |-> store[p] \o puts[h][p]]
    /\ UNCHANGED <<puts, voted, promised>>

Promise(h) ==
    /\ outcome[h] = "committed"
    /\ promised' = promised \cup {h}
    /\ UNCHANGED <<outcome, puts, order, voted, store>>

Abort(h) ==
    /\ outcome[h] \in {"running", "prepared"}
    /\ outcome' = [outcome EXCEPT ![h] = "ended"]
    /\ puts' = [puts EXCEPT ![h] = IF h \in voted THEN @ ELSE Nothing]
    /\ UNCHANGED <<order, voted, promised, store>>

\* What is left of a transaction when a crash keeps the commits of kept.  Only
\* the abort of a prepared transaction can be forgotten.
Left(h, kept) ==
    IF outcome[h] = "unborn" THEN {"unborn"}
    ELSE IF h \in ToSet(kept) THEN {"committed"}
    ELSE IF h \notin voted THEN {"ended"}
    ELSE IF outcome[h] = "ended" THEN {"ended", "prepared"}
    ELSE {"prepared"}

Crash(kept) ==
    /\ kept \in Prefixes(order) /\ promised \subseteq ToSet(kept)
    /\ order' = kept
    /\ outcome' \in [Txns -> Outcomes]
    /\ \A h \in Txns : outcome'[h] \in Left(h, kept)
    /\ puts' = [h \in Txns |-> IF outcome'[h] = "ended" /\ h \notin voted
                               THEN Nothing ELSE puts[h]]
    /\ store' = Content(kept, puts)
    /\ UNCHANGED <<voted, promised>>

Next == \/ \E h \in Txns :
              \/ Begin(h) \/ Prepare(h) \/ Commit(h) \/ Promise(h) \/ Abort(h)
              \/ \E p \in Pages, i \in Items : Put(h, p, i)
              \/ \E parent \in Txns : Merge(h, parent)
        \/ \E kept \in Prefixes(order) : Crash(kept)

Spec == Init /\ [][Next]_vars
=============================================================================
