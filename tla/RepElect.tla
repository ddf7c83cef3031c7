----------------------------- MODULE RepElect -----------------------------
(***************************************************************************)
(* Elections and master leases of a replication group whose sites are run   *)
(* by the Replication Manager (src/rep/rep_elect.c, rep_lease.c, the        *)
(* message dispatch of rep_record.c, rep_start and __rep_new_master).       *)
(*                                                                          *)
(* An election has a generation number of its own, the egen.  A site that   *)
(* wants a master broadcasts a VOTE1 holding the generation and the LSN of  *)
(* its data; a site that has heard from every site, or whose wait has       *)
(* ended with enough of them, sends a VOTE2 to the best one; a site with    *)
(* nvotes VOTE2s has won and becomes master at a new generation.            *)
(*                                                                          *)
(* With leases, a client that applies a permanent record promises the       *)
(* master not to take part in an election nor to follow another master      *)
(* until the promise expires.                                               *)
(*                                                                          *)
(* Messages are only ever added to msgs: a message never received is lost,  *)
(* one received twice is duplicated, and any order is possible.             *)
(***************************************************************************)
EXTENDS Integers, FiniteSets

CONSTANTS
  Site,        \* the sites, numbered: the number is the random tiebreaker
  NoSite,      \* DB_EID_INVALID
  Priority,    \* the configured priority of each site, all electable
  FirstMaster, \* the site that is master in the initial states
  FormerMaster, \* the one that was before
  FirstData,   \* what the votes would say of each site's log then
  MayCrash,    \* bound: the sites that may crash
  MaxEgen,     \* bound: no site calls an election above this egen
  MaxVotes,    \* bound: different VOTE1 messages in a behaviour
  MaxFaults    \* bound: crashes and threads overtaken in a behaviour

ASSUME SiteAssumption == Site \subseteq Nat /\ IsFiniteSet(Site) /\ NoSite \notin Site
ASSUME PriorityAssumption == Priority \in [Site -> Nat \ {0}]
ASSUME FirstAssumption ==
  /\ FirstMaster \in Site /\ FormerMaster \in Site \ {FirstMaster}
  /\ FirstData \in [Site -> [datagen : {1, 3}, lsn : Nat]]
  /\ FirstData[FirstMaster].datagen = 3
ASSUME BoundAssumption == MayCrash \subseteq Site /\ {MaxEgen, MaxVotes, MaxFaults} \subseteq Nat

VARIABLES
  rep,      \* the REP region of each site
  disk,     \* the generation and election generation files of each site
  data,     \* what the votes say of each site's log: datagen and last LSN
  msgs,     \* every message sent
  grants,   \* the sites whose last lease grant has not expired
  lease,    \* the valid entries of each site's lease table
  won,      \* history: every <<egen, site>> that __rep_elect_master saw win
  faults    \* crashes and threads overtaken so far

vars == <<rep, disk, data, msgs, grants, lease, won, faults>>

nsites == Cardinality(Site)
nvotes == nsites \div 2 + 1

NoVote == [site |-> NoSite, datagen |-> 0, lsn |-> 0, priority |-> 0]

(* The region of a site that has just been created or recovered.  sites and *)
(* votes are the tallies of phase 1 and 2, spent the egen of the last VOTE1  *)
(* sent; casting holds the egens of the threads that had every VOTE1 when   *)
(* they sent their own, and have not come back to vote yet.                 *)
Fresh(gen, egen) ==
  [role |-> "client", gen |-> gen, egen |-> egen, spent |-> 0,
   phase |-> "none", sites |-> {}, votes |-> {}, winner |-> NoVote, casting |-> {},
   elected |-> FALSE, master |-> NoSite, synced |-> TRUE]

Down == [Fresh(0, 0) EXCEPT !.role = "down"]

(* A group that has held one election: at egen 2 the clients of an          *)
(* appointed master that was cut off elected FirstMaster, at generation 3,  *)
(* and the former master follows it now.  It has never voted, and its egen  *)
(* file holds the first egen; it may have records of generation 1 that were *)
(* never replicated, and is synchronised only if it has none.  FirstMaster  *)
(* has announced itself; a master repeats its NEWMASTER to whoever asks.    *)
Init ==
  /\ rep = [s \in Site |->
       [Fresh(3, 4) EXCEPT !.role = IF s = FirstMaster THEN "master" ELSE "client",
                           !.master = FirstMaster,
                           !.synced = FirstData[s] = FirstData[FirstMaster]]]
  /\ disk = [s \in Site |-> [gen |-> 3, egen |-> IF s = FormerMaster THEN 1 ELSE 3]]
  /\ data = FirstData
  /\ msgs = {[type |-> "newmaster", from |-> FirstMaster, gen |-> 3]}
  /\ grants = {}
  /\ lease = [s \in Site |-> {}]
  /\ won = {}
  /\ faults = 0

----------------------------------------------------------------------------
(* Operators on one site's region *)

Up(s) == rep[s].role # "down"
Client(s) == rep[s].role = "client"
Master(s) == rep[s].role = "master"

InElection(r) == r.phase \in {"phase1", "phase2"}

(* __rep_elect_done: forget the tallies; a site that was in the election    *)
(* moves to the next egen.  Who was best is left in the region, where only  *)
(* a thread in casting reads it before it is set again.                     *)
ElectDone(r) ==
  [r EXCEPT !.phase = "none", !.sites = {}, !.votes = {},
            !.winner = IF r.casting = {} THEN NoVote ELSE @,
            !.egen = IF InElection(r) THEN @ + 1 ELSE @]

(* A mutant of Better: the LSNs are compared before the generations of the data. *)
BetterByLsn(v, w) ==
  \/ v.lsn > w.lsn
  \/ v.lsn = w.lsn /\ v.datagen > w.datagen
  \/ v.lsn = w.lsn /\ v.datagen = w.datagen /\ v.site > w.site

(* The order of candidates in __rep_cmp_vote: data generation, LSN,         *)
(* priority, tiebreaker.                                                    *)
Better(v, w) ==
  \/ v.datagen > w.datagen
  \/ /\ v.datagen = w.datagen
     /\ \/ v.lsn > w.lsn
        \/ /\ v.lsn = w.lsn
           /\ \/ v.priority > w.priority
              \/ v.priority = w.priority /\ v.site > w.site

(* __rep_tally and __rep_cmp_vote for a VOTE1 not counted yet. *)
CountSite(r, v) ==
  [r EXCEPT !.sites = @ \cup {v.site},
            !.winner = IF r.sites = {} \/ Better(v, @) THEN v ELSE @]

(* __rep_tally for a VOTE2. *)
CountVote(r, s) == [r EXCEPT !.votes = @ \cup {s}]

(* IS_PHASE1_DONE: every site has been heard of. *)
AllSites(r) == Cardinality(r.sites) >= nsites

(* When the wait ends it is enough to have heard of a majority. *)
EnoughSites(r) == Cardinality(r.sites) >= nvotes

IHaveWon(r, s) == Cardinality(r.votes) >= nvotes /\ r.winner.site = s

(* __rep_elect_master and the event that makes repmgr claim the victory. *)
ElectMaster(r, s) == IF IHaveWon(r, s) THEN [r EXCEPT !.elected = TRUE] ELSE r

Won(r, s) == won \cup (IF IHaveWon(r, s) THEN {<<r.egen, s>>} ELSE {})

(* The vote of phase 2: a site that finds itself the best counts its own    *)
(* vote, any other sends a VOTE2 to the best.  The VOTE2 is for the egen e  *)
(* of the thread that votes.                                                *)
ToPhase2(r, s) ==
  LET p == [r EXCEPT !.phase = "phase2"]
  IN  IF r.winner.site = s THEN CountVote(p, s) ELSE p

Vote2Msg(r, s, e) ==
  IF r.winner.site = s THEN {}
  ELSE {[type |-> "vote2", from |-> s, to |-> r.winner.site, gen |-> r.gen, egen |-> e]}

(* A client's first look at a message of a later generation: it takes the   *)
(* generation of an election message, and has no master.                    *)
SetGen(r, m) == IF m.gen > r.gen THEN [r EXCEPT !.gen = m.gen, !.master = NoSite] ELSE r

(* __rep_lease_check: enough other sites have granted this master. *)
LeaseCheck(s) == Cardinality(lease[s]) >= (nsites - 1) \div 2

SetRep(s, r) == rep' = [rep EXCEPT ![s] = r]
Send(m) == msgs' = msgs \cup m

----------------------------------------------------------------------------
(* The election thread: __rep_elect_int *)

(* A mutant of NextEgen: the egen of the vote itself. *)
NextEgenSame(r) == r.egen

(* What the egen file holds from the moment this egen is voted in. *)
NextEgen(r) == r.egen + 1

(* A client begins an election at its egen, once per egen and not while a   *)
(* grant of its own stands (phase 0).  The next egen reaches the disk       *)
(* before the vote is sent.  The region is unlocked for the sending.  When  *)
(* every other VOTE1 is in already the thread does not wait, and votes as   *)
(* soon as it has the region again: at once, or after others have had it.   *)
Elect(s) ==
  LET r == rep[s]
      v == [site |-> s, datagen |-> data[s].datagen, lsn |-> data[s].lsn,
            priority |-> Priority[s]]
      m == [type |-> "vote1", from |-> s, gen |-> r.gen, egen |-> r.egen, vote |-> v]
      p == IF r.phase = "phase2" THEN "phase2" ELSE "phase1"
      c == CountSite([r EXCEPT !.spent = r.egen, !.phase = p], v)
  IN  /\ Client(s) /\ r.spent # r.egen /\ r.egen <= MaxEgen
      /\ m \in msgs \/ Cardinality({x \in msgs : x.type = "vote1"}) < MaxVotes
      /\ s \notin grants
      /\ disk' = [disk EXCEPT ![s].egen = NextEgen(r)]
      /\ \/ ~AllSites(c) /\ SetRep(s, c) /\ Send({m}) /\ UNCHANGED faults
         \/ /\ AllSites(c)
            /\ SetRep(s, ToPhase2(c, s))
            /\ Send({m} \cup Vote2Msg(c, s, r.egen))
            /\ UNCHANGED faults
         \/ /\ AllSites(c) /\ faults < MaxFaults
            /\ SetRep(s, [c EXCEPT !.casting = @ \cup {r.egen}])
            /\ Send({m})
            /\ faults' = faults + 1
      /\ UNCHANGED <<data, grants, lease, won>>

(* The thread of the site's egen is in one of its two waits. *)
Waits(r) == r.spent = r.egen /\ r.egen \notin r.casting

(* The wait of phase 1 is over and enough VOTE1s are in: vote. *)
CastVote(s) ==
  LET r == rep[s]
  IN  /\ Client(s) /\ Waits(r) /\ r.phase = "phase1" /\ EnoughSites(r)
      /\ SetRep(s, ToPhase2(r, s))
      /\ Send(Vote2Msg(r, s, r.egen))
      /\ UNCHANGED <<disk, data, grants, lease, won, faults>>

(* A thread that had every VOTE1 comes back to vote, for whoever is the     *)
(* best by now: it does not look whether the site is still at its egen, in  *)
(* an election or a client.  If the site is not at its egen, the thread     *)
(* leaves, unless it finds that the site has won.                           *)
CastLate(s) ==
  \E e \in rep[s].casting :
    LET r == [rep[s] EXCEPT !.casting = @ \ {e}]
        p == ToPhase2(r, s)
        ends == e # r.egen /\ IHaveWon(p, s)
    IN  /\ SetRep(s, IF ends THEN ElectDone(ElectMaster(p, s)) ELSE p)
        /\ Send(Vote2Msg(r, s, e))
        /\ won' = IF ends THEN Won(p, s) ELSE won
        /\ UNCHANGED <<disk, data, grants, lease, faults>>

(* The wait of phase 1 is over with too few VOTE1s, or that of phase 2      *)
(* without a winner: the election has failed.                               *)
GiveUp(s) ==
  LET r == rep[s]
  IN  /\ Client(s) /\ Waits(r)
      /\ \/ r.phase = "phase1" /\ ~EnoughSites(r)
         \/ r.phase = "phase2" /\ ~IHaveWon(r, s)
      /\ SetRep(s, ElectDone(r))
      /\ UNCHANGED <<disk, data, msgs, grants, lease, won, faults>>

(* The thread finds itself the winner and leaves the election. *)
IWon(s) ==
  LET r == rep[s]
  IN  /\ Client(s) /\ Waits(r) /\ r.phase = "phase2" /\ IHaveWon(r, s)
      /\ SetRep(s, ElectDone(ElectMaster(r, s)))
      /\ won' = Won(r, s)
      /\ UNCHANGED <<disk, data, msgs, grants, lease, faults>>

----------------------------------------------------------------------------
(* Messages at a client, where __rep_process_message_int lets them in. *)

(* __rep_vote1.  An old vote is answered with this site's egen; a vote of a *)
(* later egen ends the election at the current one. *)
Vote1(s, m) ==
  LET r == SetGen(rep[s], m)
      e == IF m.egen > r.egen THEN [ElectDone(r) EXCEPT !.egen = m.egen] ELSE r
      t == IF e.phase = "none" THEN [e EXCEPT !.phase = "tally"] ELSE e
      c == IF t.phase = "phase2" \/ m.from \in t.sites THEN t ELSE CountSite(t, m.vote)
      done == c # t /\ c.phase = "phase1" /\ AllSites(c)
      p == IF done THEN ToPhase2(c, s) ELSE c
  IN  /\ m.from # s
      /\ IF m.egen < r.egen
         THEN /\ SetRep(s, r)
              /\ Send({[type |-> "alive", from |-> s, to |-> m.from,
                        gen |-> r.gen, egen |-> r.egen]})
              /\ UNCHANGED won
         ELSE /\ SetRep(s, IF done THEN ElectMaster(p, s) ELSE p)
              /\ Send(IF done THEN Vote2Msg(c, s, c.egen) ELSE {})
              /\ won' = IF done THEN Won(p, s) ELSE won
      /\ UNCHANGED <<disk, data, grants, lease, faults>>

(* __rep_vote2: counted while this site tallies this egen. *)
Vote2(s, m) ==
  LET r == SetGen(rep[s], m)
      c == CountVote(r, m.from)
      counts == r.phase # "none" /\ m.egen = r.egen /\ m.from \notin r.votes
  IN  /\ m.to = s /\ m.gen >= rep[s].gen
      /\ SetRep(s, IF counts THEN ElectMaster(c, s) ELSE r)
      /\ won' = IF counts THEN Won(c, s) ELSE won
      /\ UNCHANGED <<disk, data, msgs, grants, lease, faults>>

(* REP_ALIVE: an egen this site had not heard of. *)
Alive(s, m) ==
  LET r == SetGen(rep[s], m)
  IN  /\ m.to = s /\ m.gen >= rep[s].gen
      /\ SetRep(s, IF m.egen > r.egen THEN [ElectDone(r) EXCEPT !.egen = m.egen] ELSE r)
      /\ UNCHANGED <<disk, data, msgs, grants, lease, won, faults>>

(* A mutant of MayChangeMaster: whatever has been promised to the old master. *)
MayChangeMasterAlways(s) == s \in Site

(* Until the promise to the last master ends, no other is accepted. *)
MayChangeMaster(s) == s \notin grants

(* __rep_new_master: a new master is accepted only when this site's grant   *)
(* to another has expired; the log must be verified against its own.        *)
NewMaster(s, m) ==
  LET r == rep[s]
      change == r.gen # m.gen \/ r.master # m.from
      d == ElectDone(r)
  IN  /\ m.from # s /\ m.gen >= r.gen
      /\ IF change
         THEN /\ MayChangeMaster(s)
              /\ SetRep(s, [d EXCEPT !.gen = m.gen,
                                     !.egen = IF @ <= m.gen THEN m.gen + 1 ELSE @,
                                     !.master = m.from, !.synced = FALSE])
              /\ disk' = [disk EXCEPT ![s].gen = m.gen]
         ELSE SetRep(s, d) /\ UNCHANGED disk
      /\ UNCHANGED <<data, msgs, grants, lease, won, faults>>

----------------------------------------------------------------------------
(* The master *)

(* __repmgr_claim_victory and rep_start(DB_REP_MASTER): the generation      *)
(* becomes the egen, the lease table is emptied, and the LSN history record *)
(* of the new generation is the first this master writes.                   *)
NewGen(r) == IF r.egen > r.gen THEN r.egen ELSE r.gen + 1

Claim(s) ==
  LET r == ElectDone(rep[s])
      g == NewGen(rep[s])
  IN  /\ Client(s) /\ rep[s].elected /\ s \notin grants
      /\ SetRep(s, [r EXCEPT !.role = "master", !.gen = g, !.elected = FALSE,
                             !.egen = IF @ <= g THEN g + 1 ELSE @,
                             !.master = s, !.synced = TRUE])
      /\ disk' = [disk EXCEPT ![s].gen = g]
      /\ data' = [data EXCEPT ![s] = [datagen |-> g, lsn |-> @.lsn + 1]]
      /\ lease' = [lease EXCEPT ![s] = {}]
      /\ Send({[type |-> "newmaster", from |-> s, gen |-> g]})
      /\ UNCHANGED <<grants, won, faults>>

(* rep_start refuses a site whose own grant stands, when the generation has *)
(* reached the disk; the thread that called it fails, and the environment   *)
(* with it.                                                                 *)
ClaimRefused(s) ==
  /\ Client(s) /\ rep[s].elected /\ s \in grants
  /\ SetRep(s, Down)
  /\ disk' = [disk EXCEPT ![s].gen = NewGen(rep[s])]
  /\ UNCHANGED <<data, msgs, grants, lease, won, faults>>

(* A master that gets a message of a later generation, or another site's    *)
(* NEWMASTER of its own, is a duplicate and restarts as a client.           *)
Outdated(s, m) ==
  /\ m.from # s
  /\ m.type \in {"vote2", "alive"} => m.to = s
  /\ \/ m.gen > rep[s].gen
     \/ m.type = "newmaster" /\ m.gen = rep[s].gen

StepDown(s, m) ==
  /\ Outdated(s, m)
  /\ SetRep(s, [rep[s] EXCEPT !.role = "client", !.master = NoSite, !.elected = FALSE])
  /\ UNCHANGED <<disk, data, msgs, grants, lease, won, faults>>

----------------------------------------------------------------------------
(* A client and its master *)

Follows(c, t) ==
  /\ rep[c].master = t /\ rep[t].gen = rep[c].gen

(* The client has verified its log against the master's, has dropped what   *)
(* the master does not have, and has applied the rest.  Nothing is applied  *)
(* during an election.                                                      *)
Sync(c, t) ==
  /\ Follows(c, t) /\ ~rep[c].synced /\ ~InElection(rep[c])
  /\ SetRep(c, [rep[c] EXCEPT !.synced = TRUE])
  /\ data' = [data EXCEPT ![c] = data[t]]
  /\ UNCHANGED <<disk, msgs, grants, lease, won, faults>>

(* __rep_update_grant after a permanent record of the master; the grant may *)
(* be lost on the way, or reach it and be recorded (__rep_lease_grant).     *)
Grant(c, t) ==
  /\ Follows(c, t) /\ rep[c].synced /\ ~InElection(rep[c]) /\ data[c] = data[t]
  /\ grants' = grants \cup {c}
  /\ \E arrives \in BOOLEAN :
       lease' = IF arrives THEN [lease EXCEPT ![t] = @ \cup {c}] ELSE lease
  /\ UNCHANGED <<rep, disk, data, msgs, won, faults>>

(* Time passes.  The lease at the master began no later than the grant and  *)
(* is no longer than it, by the skew both sides allow for.                  *)
GrantExpires(c) ==
  /\ c \in grants
  /\ grants' = grants \ {c}
  /\ lease' = [t \in Site |-> lease[t] \ {c}]
  /\ UNCHANGED <<rep, disk, data, msgs, won, faults>>

----------------------------------------------------------------------------
Crash(s) ==
  /\ Up(s) /\ s \in MayCrash /\ faults < MaxFaults
  /\ SetRep(s, Down)
  /\ faults' = faults + 1
  /\ UNCHANGED <<disk, data, msgs, grants, lease, won>>

(* The region is created again from the files.  A restarted site does not   *)
(* know whether a grant of its former self stands, and waits a full lease   *)
(* before an election or a new master: grants keeps it for that time.       *)
Restart(s) ==
  /\ ~Up(s)
  /\ SetRep(s, Fresh(disk[s].gen, disk[s].egen))
  /\ lease' = [lease EXCEPT ![s] = {}]
  /\ UNCHANGED <<disk, data, msgs, grants, won, faults>>

Sent(type) == {m \in msgs : m.type = type}
Clients == {s \in Site : Client(s)}
Masters == {s \in Site : Master(s)}

Next ==
  \/ \E s \in Site :
       \/ Elect(s) \/ CastVote(s) \/ CastLate(s) \/ GiveUp(s) \/ IWon(s)
       \/ Claim(s) \/ ClaimRefused(s)
       \/ GrantExpires(s) \/ Crash(s) \/ Restart(s)
  \/ \E s \in Clients :
       \/ \E m \in Sent("vote1") : Vote1(s, m)
       \/ \E m \in Sent("vote2") : Vote2(s, m)
       \/ \E m \in Sent("alive") : Alive(s, m)
       \/ \E m \in Sent("newmaster") : NewMaster(s, m)
  \/ \E s \in Masters, m \in msgs : StepDown(s, m)
  \/ \E c \in Clients, t \in Masters : Sync(c, t) \/ Grant(c, t)

Spec == Init /\ [][Next]_vars

----------------------------------------------------------------------------
(* Properties *)

(* An egen has one winner.  Every site votes at most once in an egen, over  *)
(* its crashes too: the egen file is ahead of the vote.                     *)
OneWinner == \A w, x \in won : w[1] = x[1] => w[2] = x[2]

VotesAt(e) == {m \in msgs : m.type = "vote1" /\ m.egen = e}

(* What an application can lose: a log is behind another by the generation  *)
(* of its data first, by its length then.                                   *)
Behind(v, w) ==
  \/ v.datagen < w.datagen
  \/ v.datagen = w.datagen /\ v.lsn < w.lsn

(* Whoever wins an egen had voted in it, and a majority of the sites (the   *)
(* winner among them) voted with a log that is not ahead of the winner's:   *)
(* what a majority has is not lost by the election.                         *)
ElectedIsBest ==
  \A w \in won :
    \E mine \in VotesAt(w[1]) :
      /\ mine.from = w[2]
      /\ Cardinality({m.from : m \in {v \in VotesAt(w[1]) :
                                      ~Behind(mine.vote, v.vote)}}) >= nvotes

(* Two masters never hold valid leases at once: a read that checks its      *)
(* leases is never answered by a master that has been replaced.             *)
LeaseExclusive ==
  \A s, t \in Masters : LeaseCheck(s) /\ LeaseCheck(t) => s = t
=============================================================================
