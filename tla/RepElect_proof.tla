-------------------------- MODULE RepElect_proof --------------------------
(* Theorems about RepElect: an egen has one winner, the winner's log is not *)
(* behind those of a majority, and in a group of an odd number of sites no  *)
(* two masters hold valid leases at once.                                   *)
EXTENDS RepElect, FiniteSetTheorems, TLAPS

(***************************************************************************)
(* Shape: what each variable holds.                                         *)
(***************************************************************************)

Candidate == [site : Site \cup {NoSite}, datagen : Nat, lsn : Nat, priority : Nat]

Region ==
  [role : {"client", "master", "down"}, gen : Nat, egen : Nat, spent : Nat,
   phase : {"none", "tally", "phase1", "phase2"},
   sites : SUBSET Site, votes : SUBSET Site, winner : Candidate, casting : SUBSET Nat,
   elected : BOOLEAN, master : Site \cup {NoSite}, synced : BOOLEAN]

Votes1 == [type : {"vote1"}, from : Site, gen : Nat, egen : Nat, vote : Candidate]
Votes2 == [type : {"vote2"}, from : Site, to : Site, gen : Nat, egen : Nat]
Alives == [type : {"alive"}, from : Site, to : Site, gen : Nat, egen : Nat]
Masterships == [type : {"newmaster"}, from : Site, gen : Nat]

Shape ==
  /\ rep \in [Site -> Region]
  /\ disk \in [Site -> [gen : Nat, egen : Nat]]
  /\ data \in [Site -> [datagen : Nat, lsn : Nat]]
  /\ msgs \subseteq Votes1 \cup Votes2 \cup Alives \cup Masterships
  /\ grants \subseteq Site
  /\ lease \in [Site -> SUBSET Site]
  /\ won \subseteq Nat \X Site

(***************************************************************************)
(* The inductive invariant of the votes.                                    *)
(***************************************************************************)

(* The region r of site s is consistent with itself and with the egen e of  *)
(* the site's egen file, which is ahead of the region's exactly during an   *)
(* election of its own.  A site can be in phase 2 without one, put there by *)
(* a thread of an earlier egen; it then has no vote of phase 1 to send.     *)
Sound(s, r, e) ==
  /\ r.role = "down" => (r.phase = "none" /\ r.casting = {})
  /\ r.phase = "none" => (r.votes = {} /\ r.sites = {})
  /\ r.phase = "phase1" => (r.spent = r.egen /\ s \in r.sites /\ e = r.egen + 1)
  /\ (r.role # "down" /\ e > r.egen)
       => (InElection(r) /\ r.spent = r.egen /\ e = r.egen + 1)
  /\ s \in r.votes => (r.phase = "phase2" /\ r.winner.site = s)
  /\ \A x \in r.casting : x < e /\ (x = r.egen => (r.spent = x /\ AllSites(r)))

IsVote1(m, x, e) == m.type = "vote1" /\ m.from = x /\ m.egen = e
IsVote2(m, x, s, e) == m.type = "vote2" /\ m.from = x /\ m.to = s /\ m.egen = e

(* What the region r of site s has counted was sent, in M, and its winner   *)
(* is the best of it.                                                       *)
Tallied(s, r, M) ==
  /\ \A x \in r.sites :
       \E m \in M : IsVote1(m, x, r.egen) /\ ~Better(m.vote, r.winner)
  /\ r.sites # {} =>
       \E m \in M : IsVote1(m, r.winner.site, r.egen) /\ m.vote = r.winner
  /\ \A x \in r.votes \ {s} : \E m \in M : IsVote2(m, x, s, r.egen)

(* Site s will send no VOTE1 of egen e any more, and no VOTE2. *)
Called(s, e) ==
  /\ e < disk[s].egen
  /\ Up(s) => (rep[s].egen > e \/ (rep[s].egen = e /\ rep[s].spent = e))

Passed(s, e) ==
  /\ e < disk[s].egen
  /\ Up(s) => (rep[s].egen > e \/ (rep[s].egen = e /\ rep[s].phase = "phase2"))

(* Site s has sent a VOTE2 of egen e.  While it is at e it is in phase 2 of *)
(* its own election, and finds another site the best.                       *)
Spoken(s, e) ==
  /\ Passed(s, e)
  /\ (Up(s) /\ rep[s].egen = e) => (rep[s].spent = e /\ rep[s].winner.site # s)

(* Site s will never be at egen e again: it counts no VOTE2 of e.           *)
Beyond(s, e) ==
  /\ e < disk[s].egen
  /\ Up(s) => rep[s].egen > e

(* Site s won egen e with its own vote.  A thread that comes back late may  *)
(* have sent a VOTE2 of e since, to a site that can no more count it.       *)
Kept(s, e) ==
  /\ Passed(s, e)
  /\ \A m \in msgs : (m.type = "vote2" /\ m.from = s /\ m.egen = e)
                       => (<<e, m.to>> \notin won /\ Beyond(m.to, e))

(* The log that w speaks of is not behind that of some VOTE1 of x. *)
Backs(x, w, e) == \E v \in msgs : IsVote1(v, x, e) /\ ~Behind(w, v.vote)

(* In egen e, site x's log is not ahead of site s's. *)
BestFor(x, s, e) == \E w \in msgs : IsVote1(w, s, e) /\ Backs(x, w.vote, e)

(* The vote of x that made s the winner of egen e. *)
Voted(x, s, e) ==
  IF x = s THEN Kept(s, e)
           ELSE (\E m \in msgs : IsVote2(m, x, s, e)) /\ BestFor(x, s, e)

(* What the thread of egen e that is still to vote for site s finds: it is  *)
(* the only one to send this VOTE2, and the best it will see is the best of *)
(* its own egen or a site that is beyond it.                                *)
Late(s, e) ==
  /\ \A m \in msgs : (m.type = "vote2" /\ m.from = s) => m.egen # e
  /\ rep[s].winner.site \in Site
  /\ Beyond(rep[s].winner.site, e) \/ BestFor(s, rep[s].winner.site, e)
  /\ <<e, s>> \in won => (rep[s].winner.site = s \/ Beyond(rep[s].winner.site, e))

Regions == \A s \in Site : Sound(s, rep[s], disk[s].egen) /\ Tallied(s, rep[s], msgs)

Lates == \A s \in Site : \A e \in rep[s].casting : Late(s, e)

Vote1Inv ==
  \A m \in msgs : m.type = "vote1" => (m.vote.site = m.from /\ Called(m.from, m.egen))

Vote1Once ==
  \A m, n \in msgs :
    (m.type = "vote1" /\ n.type = "vote1" /\ m.from = n.from /\ m.egen = n.egen)
      => m.vote = n.vote

Vote2Inv ==
  \A m \in msgs : m.type = "vote2" =>
    /\ m.to # m.from /\ Spoken(m.from, m.egen)
    /\ BestFor(m.from, m.to, m.egen) \/ Beyond(m.to, m.egen)

Vote2Once ==
  \A m, n \in msgs :
    (m.type = "vote2" /\ n.type = "vote2" /\ m.from = n.from /\ m.egen = n.egen)
      => m.to = n.to

(* The majority that made s the winner of egen e. *)
Majority(s, e) ==
  /\ \E m \in msgs : IsVote1(m, s, e)
  /\ \E Q \in SUBSET Site :
       Cardinality(Q) >= nvotes /\ \A x \in Q : Voted(x, s, e)

WonInv == \A w \in won : Majority(w[2], w[1])

Voting ==
  Regions /\ Lates /\ Vote1Inv /\ Vote1Once /\ Vote2Inv /\ Vote2Once /\ WonInv

(***************************************************************************)
(* The inductive invariant of the leases: a valid lease stands on a grant,  *)
(* and a site that granted one follows nobody else.                         *)
(***************************************************************************)
Leases ==
  /\ \A s \in Site : lease[s] \subseteq grants
  /\ \A s \in Site : Master(s) => s \notin grants
  /\ \A s \in Site : \A c \in lease[s] : rep[c].master \in {s, NoSite}
  /\ \A s, t \in Site : lease[s] \cap lease[t] # {} => s = t

IInv == Shape /\ Voting /\ Leases

(***************************************************************************)
(* The operators on a region                                                *)
(***************************************************************************)

(* What elections read of a region is the same in q as in r, and so is the  *)
(* role of the site.                                                        *)
Alike(q, r) ==
  /\ q.egen = r.egen /\ q.spent = r.spent /\ q.phase = r.phase
  /\ q.sites = r.sites /\ q.votes = r.votes /\ q.winner = r.winner
  /\ q.casting = r.casting /\ (q.role = "down" <=> r.role = "down")

Same(q, r) == Alike(q, r) /\ q.role = r.role

LEMMA ConstFacts ==
  /\ NoVote \in Candidate /\ NoSite \notin Site
  /\ nsites \in Nat /\ nvotes \in Nat /\ nvotes >= 2 /\ nvotes + nvotes > nsites
<1>1. NoVote \in Candidate  BY DEF NoVote, Candidate
<1>2. NoSite \notin Site /\ IsFiniteSet(Site)  BY SiteAssumption
<1>3. nsites \in Nat  BY <1>2, FS_CardinalityType DEF nsites
<1>4. nsites >= 2
  <2> DEFINE P == {FirstMaster} \cup {FormerMaster}
  <2>1. P \subseteq Site /\ FormerMaster \notin {FirstMaster}  BY FirstAssumption
  <2>2. IsFiniteSet({FirstMaster}) /\ Cardinality({FirstMaster}) = 1  BY FS_Singleton
  <2>3. Cardinality(P) = 2  BY <2>1, <2>2, FS_AddElement
  <2>4. Cardinality(P) <= nsites  BY <1>2, <2>1, FS_Subset DEF nsites
  <2> QED  BY <1>3, <2>3, <2>4
<1>5. nvotes \in Nat /\ nvotes >= 2 /\ nvotes + nvotes > nsites  BY <1>3, <1>4 DEF nvotes
<1> QED  BY <1>1, <1>2, <1>3, <1>5

LEMMA DoneIs ==
  ASSUME NEW r \in Region
  PROVE  /\ ElectDone(r) \in Region
         /\ ElectDone(r).phase = "none" /\ ElectDone(r).sites = {}
         /\ ElectDone(r).votes = {} /\ ElectDone(r).casting = r.casting
         /\ r.casting # {} => ElectDone(r).winner = r.winner
         /\ ElectDone(r).egen = IF InElection(r) THEN r.egen + 1 ELSE r.egen
         /\ ElectDone(r).role = r.role /\ ElectDone(r).spent = r.spent
         /\ ElectDone(r).gen = r.gen /\ ElectDone(r).elected = r.elected
         /\ ElectDone(r).master = r.master /\ ElectDone(r).synced = r.synced
<1> DEFINE e == IF InElection(r) THEN r.egen + 1 ELSE r.egen
           w == IF r.casting = {} THEN NoVote ELSE r.winner
<1>1. e \in Nat /\ w \in Candidate  BY ConstFacts DEF Region
<1>2. ElectDone(r) = [r EXCEPT !.phase = "none", !.sites = {}, !.votes = {},
                               !.winner = w, !.egen = e]
  BY DEF ElectDone
<1>3. r.casting # {} => w = r.winner  OBVIOUS
<1> HIDE DEF e, w
<1>4. [r EXCEPT !.phase = "none", !.sites = {}, !.votes = {},
                !.winner = w, !.egen = e] \in Region
  BY <1>1 DEF Region
<1>5. /\ ElectDone(r).phase = "none" /\ ElectDone(r).sites = {}
      /\ ElectDone(r).votes = {} /\ ElectDone(r).winner = w
      /\ ElectDone(r).casting = r.casting
      /\ ElectDone(r).egen = e
      /\ ElectDone(r).role = r.role /\ ElectDone(r).spent = r.spent
      /\ ElectDone(r).gen = r.gen /\ ElectDone(r).elected = r.elected
      /\ ElectDone(r).master = r.master /\ ElectDone(r).synced = r.synced
  BY <1>2 DEF Region
<1> QED  BY <1>2, <1>4, <1>5, <1>3 DEF e

LEMMA SetGenIs ==
  ASSUME NEW r \in Region, NEW m, m.gen \in Nat
  PROVE  /\ SetGen(r, m) \in Region /\ Same(SetGen(r, m), r)
         /\ SetGen(r, m).master \in {r.master, NoSite}
         /\ SetGen(r, m).gen >= m.gen
         /\ SetGen(r, m).elected = r.elected /\ SetGen(r, m).synced = r.synced
<1> DEFINE g == m.gen
           q == [r EXCEPT !.gen = g, !.master = NoSite]
<1>1. SetGen(r, m) = IF g > r.gen THEN q ELSE r  BY DEF SetGen
<1>2. g \in Nat /\ r.gen \in Nat  BY DEF Region
<1> HIDE DEF g
<1>3. /\ q \in Region /\ Same(q, r) /\ q.master = NoSite /\ q.gen = g
      /\ q.elected = r.elected /\ q.synced = r.synced
  BY <1>2 DEF Region, Same, Alike
<1>4. Same(r, r)  BY DEF Same, Alike
<1> HIDE DEF q
<1>5. SetGen(r, m).gen >= g  BY <1>1, <1>2, <1>3
<1> QED  BY <1>1, <1>3, <1>4, <1>5 DEF g

LEMMA ElectMasterIs ==
  ASSUME NEW r \in Region, NEW s \in Site
  PROVE  /\ ElectMaster(r, s) \in Region /\ Same(ElectMaster(r, s), r)
         /\ ElectMaster(r, s).gen = r.gen
         /\ ElectMaster(r, s).master = r.master /\ ElectMaster(r, s).synced = r.synced
BY DEF ElectMaster, Region, Same, Alike

LEMMA CountVoteIs ==
  ASSUME NEW r \in Region, NEW s \in Site
  PROVE  /\ CountVote(r, s) \in Region
         /\ CountVote(r, s).votes = r.votes \cup {s}
         /\ CountVote(r, s).phase = r.phase /\ CountVote(r, s).sites = r.sites
         /\ CountVote(r, s).casting = r.casting
         /\ CountVote(r, s).winner = r.winner /\ CountVote(r, s).egen = r.egen
         /\ CountVote(r, s).role = r.role /\ CountVote(r, s).spent = r.spent
         /\ CountVote(r, s).gen = r.gen /\ CountVote(r, s).master = r.master
BY DEF CountVote, Region

LEMMA CountSiteIs ==
  ASSUME NEW r \in Region, NEW v \in Candidate, v.site \in Site
  PROVE  /\ CountSite(r, v) \in Region
         /\ CountSite(r, v).sites = r.sites \cup {v.site}
         /\ CountSite(r, v).winner =
              IF r.sites = {} \/ Better(v, r.winner) THEN v ELSE r.winner
         /\ CountSite(r, v).phase = r.phase /\ CountSite(r, v).votes = r.votes
         /\ CountSite(r, v).casting = r.casting
         /\ CountSite(r, v).egen = r.egen /\ CountSite(r, v).role = r.role
         /\ CountSite(r, v).spent = r.spent /\ CountSite(r, v).gen = r.gen
         /\ CountSite(r, v).master = r.master
<1> DEFINE w == IF r.sites = {} \/ Better(v, r.winner) THEN v ELSE r.winner
<1>1. w \in Candidate  BY DEF Region
<1>2. CountSite(r, v) = [r EXCEPT !.sites = r.sites \cup {v.site}, !.winner = w]
  BY DEF CountSite, Region
<1> HIDE DEF w
<1>3. r.sites \cup {v.site} \in SUBSET Site  BY DEF Region
<1>4. [r EXCEPT !.sites = r.sites \cup {v.site}, !.winner = w] \in Region
  BY <1>1, <1>3 DEF Region
<1>5. /\ CountSite(r, v).sites = r.sites \cup {v.site} /\ CountSite(r, v).winner = w
      /\ CountSite(r, v).phase = r.phase /\ CountSite(r, v).votes = r.votes
      /\ CountSite(r, v).casting = r.casting
      /\ CountSite(r, v).egen = r.egen /\ CountSite(r, v).role = r.role
      /\ CountSite(r, v).spent = r.spent /\ CountSite(r, v).gen = r.gen
      /\ CountSite(r, v).master = r.master
  BY <1>2 DEF Region
<1> QED  BY <1>2, <1>4, <1>5 DEF w

LEMMA ToPhase2Is ==
  ASSUME NEW r \in Region, NEW s \in Site
  PROVE  /\ ToPhase2(r, s) \in Region
         /\ ToPhase2(r, s).phase = "phase2" /\ ToPhase2(r, s).sites = r.sites
         /\ ToPhase2(r, s).casting = r.casting
         /\ ToPhase2(r, s).votes = IF r.winner.site = s THEN r.votes \cup {s} ELSE r.votes
         /\ ToPhase2(r, s).winner = r.winner /\ ToPhase2(r, s).egen = r.egen
         /\ ToPhase2(r, s).role = r.role /\ ToPhase2(r, s).spent = r.spent
         /\ ToPhase2(r, s).gen = r.gen /\ ToPhase2(r, s).master = r.master
<1> DEFINE p == [r EXCEPT !.phase = "phase2"]
<1>1. /\ p \in Region /\ p.phase = "phase2" /\ p.sites = r.sites /\ p.votes = r.votes
      /\ p.casting = r.casting
      /\ p.winner = r.winner /\ p.egen = r.egen /\ p.role = r.role /\ p.spent = r.spent
      /\ p.gen = r.gen /\ p.master = r.master
  BY DEF Region
<1>2. ToPhase2(r, s) = IF r.winner.site = s THEN CountVote(p, s) ELSE p
  BY DEF ToPhase2
<1> HIDE DEF p
<1>3. /\ CountVote(p, s) \in Region
      /\ CountVote(p, s).votes = p.votes \cup {s}
      /\ CountVote(p, s).phase = p.phase /\ CountVote(p, s).sites = p.sites
      /\ CountVote(p, s).casting = p.casting
      /\ CountVote(p, s).winner = p.winner /\ CountVote(p, s).egen = p.egen
      /\ CountVote(p, s).role = p.role /\ CountVote(p, s).spent = p.spent
      /\ CountVote(p, s).gen = p.gen /\ CountVote(p, s).master = p.master
  BY <1>1, CountVoteIs
<1> HIDE DEF Region
<1> QED  BY <1>1, <1>2, <1>3

LEMMA FreshIs ==
  ASSUME NEW g \in Nat, NEW e \in Nat
  PROVE  /\ Fresh(g, e) \in Region
         /\ Fresh(g, e).role = "client" /\ Fresh(g, e).egen = e /\ Fresh(g, e).phase = "none"
         /\ Fresh(g, e).sites = {} /\ Fresh(g, e).votes = {} /\ Fresh(g, e).winner = NoVote
         /\ Fresh(g, e).master = NoSite /\ Fresh(g, e).casting = {}
BY ConstFacts DEF Fresh, Region

LEMMA DownIs ==
  /\ Down \in Region
  /\ Down.role = "down" /\ Down.phase = "none" /\ Down.sites = {} /\ Down.votes = {}
  /\ Down.master = NoSite /\ Down.casting = {}
<1> DEFINE f == Fresh(0, 0)
<1>1. /\ f \in Region /\ f.phase = "none" /\ f.sites = {} /\ f.votes = {}
      /\ f.casting = {} /\ f.master = NoSite
  BY FreshIs
<1>2. Down = [f EXCEPT !.role = "down"]  BY DEF Down
<1> HIDE DEF f
<1> QED  BY <1>1, <1>2 DEF Region

(* Better is a strict order of candidates, and who is not better has a log  *)
(* that is not ahead.                                                       *)
LEMMA BetterOrder ==
  ASSUME NEW u \in Candidate, NEW v \in Candidate, NEW w \in Candidate,
         u.site \in Nat, v.site \in Nat, w.site \in Nat
  PROVE  /\ ~Better(u, u)
         /\ (~Better(u, w) /\ Better(v, w)) => ~Better(u, v)
         /\ ~Better(v, w) => ~Behind(w, v)
BY DEF Better, Behind, Candidate

LEMMA SoundSame ==
  ASSUME NEW s, NEW q, NEW r, NEW e, NEW M, Alike(q, r)
  PROVE  /\ Sound(s, q, e) <=> Sound(s, r, e)
         /\ Tallied(s, q, M) <=> Tallied(s, r, M)
         /\ IHaveWon(q, s) <=> IHaveWon(r, s)
BY DEF Alike, Sound, Tallied, IHaveWon, InElection, AllSites

(***************************************************************************)
(* Majorities                                                               *)
(***************************************************************************)

LEMMA SitesFinite ==
  ASSUME NEW Q \in SUBSET Site
  PROVE  IsFiniteSet(Q) /\ Cardinality(Q) \in Nat /\ Cardinality(Q) <= nsites
BY SiteAssumption, FS_Subset, FS_CardinalityType DEF nsites

LEMMA QuorumsMeet ==
  ASSUME NEW Q \in SUBSET Site, NEW R \in SUBSET Site,
         Cardinality(Q) + Cardinality(R) > nsites
  PROVE  \E x \in Site : x \in Q /\ x \in R
<1>1. Q \cap R # {}  BY SiteAssumption, FS_MajoritiesIntersect DEF nsites
<1> QED  BY <1>1

(* An egen that two sites had won would have a site that voted for both.    *)
LEMMA VotingOneWinner == (Shape /\ Voting) => OneWinner
<1> SUFFICES ASSUME Shape, Voting, NEW w \in won, NEW y \in won, w[1] = y[1], w[2] # y[2]
             PROVE  FALSE
  BY DEF OneWinner
<1>1. /\ w[1] \in Nat /\ w[2] \in Site /\ y[2] \in Site
      /\ w = <<w[1], w[2]>> /\ y = <<w[1], y[2]>>
  BY DEF Shape
<1>2. Majority(w[2], w[1]) /\ Majority(y[2], w[1])  BY DEF Voting, WonInv
<1>3. PICK Q \in SUBSET Site : Cardinality(Q) >= nvotes /\ \A x \in Q : Voted(x, w[2], w[1])
  BY <1>2 DEF Majority
<1>4. PICK R \in SUBSET Site : Cardinality(R) >= nvotes /\ \A x \in R : Voted(x, y[2], w[1])
  BY <1>2 DEF Majority
<1>5. Cardinality(Q) + Cardinality(R) > nsites  BY <1>3, <1>4, ConstFacts, SitesFinite
<1>6. PICK x \in Site : Voted(x, w[2], w[1]) /\ Voted(x, y[2], w[1])
  BY <1>3, <1>4, <1>5, QuorumsMeet
(* The site they share voted once: by one VOTE2, or by counting its own.    *)
<1>7. CASE x = w[2]
  <2>1. Kept(x, w[1])  BY <1>6, <1>7 DEF Voted
  <2>2. PICK m \in msgs : IsVote2(m, x, y[2], w[1])  BY <1>6, <1>7 DEF Voted
  <2>3. <<w[1], y[2]>> \notin won  BY <2>1, <2>2 DEF Kept, IsVote2
  <2> QED  BY <2>3, <1>1
<1>8. CASE x = y[2]
  <2>1. Kept(x, w[1])  BY <1>6, <1>8 DEF Voted
  <2>2. PICK m \in msgs : IsVote2(m, x, w[2], w[1])  BY <1>6, <1>8 DEF Voted
  <2>3. <<w[1], w[2]>> \notin won  BY <2>1, <2>2 DEF Kept, IsVote2
  <2> QED  BY <2>3, <1>1
<1>9. CASE x # w[2] /\ x # y[2]
  <2>1. PICK m \in msgs : IsVote2(m, x, w[2], w[1])  BY <1>6, <1>9 DEF Voted
  <2>2. PICK n \in msgs : IsVote2(n, x, y[2], w[1])  BY <1>6, <1>9 DEF Voted
  <2> QED  BY <2>1, <2>2 DEF Voting, Vote2Once, IsVote2
<1> QED  BY <1>7, <1>8, <1>9

(***************************************************************************)
(* A step, as the votes see it                                              *)
(***************************************************************************)

(* The egen of a site, on disk and in its region, never goes back, and what *)
(* it has done in its egen it has done for good.                            *)
Later(s) ==
  /\ disk[s].egen <= disk'[s].egen
  /\ (Up(s)' /\ Up(s)) =>
       \/ rep'[s].egen > rep[s].egen
       \/ /\ rep'[s].egen = rep[s].egen
          /\ rep[s].spent = rep[s].egen => rep'[s].spent = rep[s].egen
          /\ rep[s].phase = "phase2" => rep'[s].phase = "phase2"
          /\ (rep[s].phase = "phase2" /\ rep[s].spent = rep[s].egen)
               => rep'[s].winner = rep[s].winner
  /\ (Up(s)' /\ ~Up(s)) => disk[s].egen <= rep'[s].egen

(* A VOTE1 that site s sends: the first of its egen. *)
NewVote1(s, m) ==
  /\ m.from = s /\ m.vote.site = s /\ Up(s)
  /\ m.egen = rep[s].egen /\ rep[s].spent # m.egen
  /\ rep'[s].egen = m.egen /\ rep'[s].spent = m.egen /\ m.egen < disk'[s].egen

(* A VOTE2 that site s sends: it ends phase 1, or comes from a thread that  *)
(* is late.  It is the first of its egen, and if the site it is for is not  *)
(* the best of the egen for s, or s has won the egen itself, that site      *)
(* cannot count it.                                                         *)
NewVote2(s, m) ==
  /\ m.from = s /\ m.to # s /\ Up(s) /\ m.egen < disk'[s].egen
  /\ \A n \in msgs : (n.type = "vote2" /\ n.from = s) => n.egen # m.egen
  /\ \/ rep'[s].egen > m.egen
     \/ /\ rep'[s].egen = m.egen /\ rep'[s].phase = "phase2"
        /\ rep'[s].spent = m.egen /\ rep'[s].winner.site # s
  /\ BestFor(s, m.to, m.egen)' \/ Beyond(m.to, m.egen)
  /\ (<<m.egen, s>> \in won /\ Passed(s, m.egen)) => Beyond(m.to, m.egen)

(* Site s wins its egen by the votes of V.  If its own is one of them, it   *)
(* has sent none to another site.                                           *)
WinsBy(s, V) ==
  /\ Cardinality(V) >= nvotes
  /\ \A x \in V \ {s} : \E m \in msgs : IsVote2(m, x, s, rep[s].egen)
  /\ s \in V =>
       /\ \/ rep'[s].egen > rep[s].egen
          \/ rep'[s].egen = rep[s].egen /\ rep'[s].phase = "phase2"
       /\ \A m \in msgs' : (m.type = "vote2" /\ m.from = s) => m.egen # rep[s].egen

StepOf(s) ==
  /\ \A x \in Site \ {s} : rep'[x] = rep[x] /\ disk'[x] = disk[x]
  /\ Sound(s, rep'[s], disk'[s].egen) /\ Tallied(s, rep'[s], msgs')
  /\ Later(s)
  /\ msgs \subseteq msgs'
  /\ \A m, n \in msgs' \ msgs : m.type = n.type => m = n
  /\ \A m \in msgs' \ msgs : m.type = "vote1" => NewVote1(s, m)
  /\ \A m \in msgs' \ msgs : m.type = "vote2" => NewVote2(s, m)
  /\ \A e \in rep'[s].casting : Late(s, e)'
  /\ won \subseteq won'
  /\ \A w \in won' \ won :
       /\ w = <<rep[s].egen, s>> /\ Up(s)
       /\ \E V \in SUBSET Site : WinsBy(s, V)

LEMMA StepVoting ==
  ASSUME NEW s \in Site, Shape, Shape', Voting, StepOf(s)
  PROVE  Voting'
<1>t. /\ rep \in [Site -> Region] /\ rep' \in [Site -> Region]
      /\ disk \in [Site -> [gen : Nat, egen : Nat]]
      /\ disk' \in [Site -> [gen : Nat, egen : Nat]]
  BY DEF Shape
<1>n. \A x \in Site : /\ rep[x].egen \in Nat /\ rep'[x].egen \in Nat
                      /\ disk[x].egen \in Nat /\ disk'[x].egen \in Nat
                      /\ rep[x].casting \subseteq Nat
  BY <1>t DEF Region
<1>m. \A m \in msgs' : /\ m.type \in {"vote1", "vote2"} => m.from \in Site /\ m.egen \in Nat
                       /\ m.type = "vote2" => m.to \in Site
  BY DEF Shape, Votes1, Votes2, Alives, Masterships
<1>o. \A x \in Site \ {s} : rep'[x] = rep[x] /\ disk'[x] = disk[x]  BY DEF StepOf
<1>u. msgs \subseteq msgs'  BY DEF StepOf
<1>1. Regions'
  <2> SUFFICES ASSUME NEW x \in Site
               PROVE  Sound(x, rep'[x], disk'[x].egen) /\ Tallied(x, rep'[x], msgs')
    BY DEF Regions
  <2>1. CASE x = s  BY <2>1 DEF StepOf
  <2>2. CASE x # s
    <3>1. Sound(x, rep[x], disk[x].egen) /\ Tallied(x, rep[x], msgs)
      BY DEF Voting, Regions
    <3>2. Tallied(x, rep[x], msgs')  BY <3>1, <1>u DEF Tallied
    <3> QED  BY <3>1, <3>2, <1>o, <2>2
  <2> QED  BY <2>1, <2>2
<1>2. ASSUME NEW x \in Site, NEW e \in Nat, Called(x, e)
      PROVE  Called(x, e)'
  <2>1. CASE x = s  BY <2>1, <1>2, <1>n DEF StepOf, Later, Called
  <2>2. CASE x # s  BY <2>2, <1>2, <1>o DEF Called, Up
  <2> QED  BY <2>1, <2>2
<1>3. ASSUME NEW x \in Site, NEW e \in Nat, Passed(x, e)
      PROVE  Passed(x, e)'
  <2>1. CASE x = s  BY <2>1, <1>3, <1>n DEF StepOf, Later, Passed
  <2>2. CASE x # s  BY <2>2, <1>3, <1>o DEF Passed, Up
  <2> QED  BY <2>1, <2>2
<1>4. ASSUME NEW x \in Site, NEW e \in Nat, Beyond(x, e)
      PROVE  Beyond(x, e)'
  <2>1. CASE x = s  BY <2>1, <1>4, <1>n DEF StepOf, Later, Beyond
  <2>2. CASE x # s  BY <2>2, <1>4, <1>o DEF Beyond, Up
  <2> QED  BY <2>1, <2>2
<1>5. ASSUME NEW x \in Site, NEW e \in Nat, Spoken(x, e)
      PROVE  Spoken(x, e)'
  <2>1. Passed(x, e)'  BY <1>3, <1>5 DEF Spoken
  <2>2. CASE x = s
    <3> SUFFICES ASSUME Up(s)', rep'[s].egen = e
                 PROVE  rep'[s].spent = e /\ rep'[s].winner.site # s
      BY <2>1, <2>2 DEF Spoken
    <3>1. Later(s) /\ Passed(s, e)  BY <2>2, <1>5 DEF StepOf, Spoken
    <3>2. Up(s) /\ rep[s].egen = e /\ rep[s].phase = "phase2"
      BY <3>1, <1>n DEF Later, Passed
    <3>3. rep[s].spent = e /\ rep[s].winner.site # s  BY <3>2, <2>2, <1>5 DEF Spoken
    <3> QED  BY <3>1, <3>2, <3>3, <1>n DEF Later
  <2>3. CASE x # s  BY <2>1, <2>3, <1>5, <1>o DEF Spoken, Up
  <2> QED  BY <2>2, <2>3
<1>6. ASSUME NEW x, NEW t, NEW e, BestFor(x, t, e)
      PROVE  BestFor(x, t, e)'
  BY <1>6, <1>u DEF BestFor, Backs
<1>7. Lates'
  <2> SUFFICES ASSUME NEW x \in Site, NEW e \in rep'[x].casting
               PROVE  Late(x, e)'
    BY DEF Lates
  <2>1. CASE x = s  BY <2>1 DEF StepOf
  <2>2. CASE x # s
    <3>1. rep'[x] = rep[x] /\ e \in rep[x].casting /\ e \in Nat  BY <2>2, <1>o, <1>n
    <3>2. Late(x, e)  BY <3>1 DEF Voting, Lates
    <3>3. PICK w \in Site : w = rep[x].winner.site  BY <3>2 DEF Late
    <3>4. Beyond(w, e) \/ BestFor(x, w, e)  BY <3>2, <3>3 DEF Late
    <3>5. Beyond(w, e)' \/ BestFor(x, w, e)'  BY <3>1, <3>4, <1>4, <1>6
    <3>6. \A m \in msgs' : (m.type = "vote2" /\ m.from = x) => m.egen # e
      BY <3>2, <2>2 DEF Late, StepOf, NewVote2
    <3>7. <<e, x>> \in won' => <<e, x>> \in won  BY <2>2 DEF StepOf
    <3>8. <<e, x>> \in won => (w = x \/ Beyond(w, e))  BY <3>2, <3>3 DEF Late
    <3>9. <<e, x>> \in won' => (w = x \/ Beyond(w, e)')  BY <3>1, <3>7, <3>8, <1>4
    <3>10. rep'[x].winner.site = w  BY <3>1, <3>3
    <3>11. /\ Beyond(w, e)' => Beyond(rep[x].winner.site, e)'
           /\ BestFor(x, w, e)' => BestFor(x, rep[x].winner.site, e)'
      BY <3>10 DEF Beyond, Up, BestFor, IsVote1
    <3> QED  BY <3>5, <3>6, <3>9, <3>10, <3>11 DEF Late
  <2> QED  BY <2>1, <2>2
<1>8. Vote1Inv'
  <2> SUFFICES ASSUME NEW m \in msgs', m.type = "vote1"
               PROVE  m.vote.site = m.from /\ Called(m.from, m.egen)'
    BY DEF Vote1Inv
  <2>1. CASE m \in msgs
    BY <2>1, <1>2, <1>m DEF Voting, Vote1Inv
  <2>2. CASE m \notin msgs
    <3>1. NewVote1(s, m)  BY <2>2 DEF StepOf
    <3> QED  BY <3>1, <1>n DEF NewVote1, Called
  <2> QED  BY <2>1, <2>2
<1>9. Vote1Once'
  <2> SUFFICES ASSUME NEW m \in msgs', NEW n \in msgs', m.type = "vote1", n.type = "vote1",
                      m.from = n.from, m.egen = n.egen
               PROVE  m.vote = n.vote
    BY DEF Vote1Once
  <2>1. ASSUME NEW a \in msgs, NEW b \in msgs' \ msgs, a.type = "vote1", b.type = "vote1",
               a.from = b.from, a.egen = b.egen
        PROVE  FALSE
    <3>1. NewVote1(s, b)  BY <2>1 DEF StepOf
    <3>2. Called(a.from, a.egen)  BY <2>1 DEF Voting, Vote1Inv
    <3> QED  BY <3>1, <3>2, <2>1, <1>n DEF NewVote1, Called
  <2>2. CASE m \in msgs /\ n \in msgs  BY <2>2 DEF Voting, Vote1Once
  <2>3. CASE m \notin msgs /\ n \notin msgs  BY <2>3 DEF StepOf
  <2> QED  BY <2>1, <2>2, <2>3
<1>10. Vote2Inv'
  <2> SUFFICES ASSUME NEW m \in msgs', m.type = "vote2"
               PROVE  /\ m.to # m.from /\ Spoken(m.from, m.egen)'
                      /\ BestFor(m.from, m.to, m.egen)' \/ Beyond(m.to, m.egen)'
    BY DEF Vote2Inv
  <2>1. m.from \in Site /\ m.to \in Site /\ m.egen \in Nat  BY <1>m
  <2>2. CASE m \in msgs
    <3>1. /\ m.to # m.from /\ Spoken(m.from, m.egen)
          /\ BestFor(m.from, m.to, m.egen) \/ Beyond(m.to, m.egen)
      BY <2>2 DEF Voting, Vote2Inv
    <3> QED  BY <3>1, <2>1, <1>4, <1>5, <1>6
  <2>3. CASE m \notin msgs
    <3>1. NewVote2(s, m)  BY <2>3 DEF StepOf
    <3>2. m.from = s /\ m.to # s  BY <3>1 DEF NewVote2
    <3>3. Spoken(s, m.egen)'  BY <3>1, <2>1, <1>n DEF NewVote2, Spoken, Passed
    <3>4. BestFor(s, m.to, m.egen)' \/ Beyond(m.to, m.egen)'
      BY <3>1, <2>1, <1>4 DEF NewVote2
    <3> QED  BY <3>2, <3>3, <3>4
  <2> QED  BY <2>2, <2>3
<1>11. Vote2Once'
  <2> SUFFICES ASSUME NEW m \in msgs', NEW n \in msgs', m.type = "vote2", n.type = "vote2",
                      m.from = n.from, m.egen = n.egen
               PROVE  m.to = n.to
    BY DEF Vote2Once
  <2>1. ASSUME NEW a \in msgs, NEW b \in msgs' \ msgs, a.type = "vote2", b.type = "vote2",
               a.from = b.from, a.egen = b.egen
        PROVE  FALSE
    <3>1. NewVote2(s, b)  BY <2>1 DEF StepOf
    <3> QED  BY <3>1, <2>1 DEF NewVote2
  <2>2. CASE m \in msgs /\ n \in msgs  BY <2>2 DEF Voting, Vote2Once
  <2>3. CASE m \notin msgs /\ n \notin msgs  BY <2>3 DEF StepOf
  <2> QED  BY <2>1, <2>2, <2>3
<1>12. ASSUME NEW x \in Site, NEW e \in Nat, Kept(x, e), <<e, x>> \in won
       PROVE  Kept(x, e)'
  <2>1. Passed(x, e) /\ Passed(x, e)'  BY <1>3, <1>12 DEF Kept
  <2> SUFFICES ASSUME NEW m \in msgs', m.type = "vote2", m.from = x, m.egen = e
               PROVE  <<e, m.to>> \notin won' /\ Beyond(m.to, e)'
    BY <2>1 DEF Kept
  <2>2. m.to \in Site  BY <1>m
  <2>3. Beyond(m.to, e) /\ <<e, m.to>> \notin won
    <3>1. CASE m \in msgs  BY <3>1, <1>12 DEF Kept
    <3>2. CASE m \notin msgs
      <4>1. NewVote2(s, m)  BY <3>2 DEF StepOf
      <4>2. x = s /\ m.to # x /\ Beyond(m.to, e)  BY <4>1, <2>1, <1>12 DEF NewVote2
      <4>3. OneWinner  BY VotingOneWinner
      <4>4. <<e, m.to>> \notin won
        <5> SUFFICES ASSUME <<e, m.to>> \in won  PROVE FALSE  OBVIOUS
        <5>1. <<e, m.to>>[1] = <<e, x>>[1] => <<e, m.to>>[2] = <<e, x>>[2]
          BY <4>3, <1>12 DEF OneWinner
        <5> QED  BY <5>1, <4>2
      <4> QED  BY <4>2, <4>4
    <3> QED  BY <3>1, <3>2
  <2>4. <<e, m.to>> \notin won'
    <3> SUFFICES ASSUME <<e, m.to>> \in won'  PROVE FALSE  OBVIOUS
    <3>1. <<e, m.to>> = <<rep[s].egen, s>> /\ Up(s)  BY <2>3 DEF StepOf
    <3>2. e = rep[s].egen /\ m.to = s  BY <3>1
    <3> QED  BY <3>1, <3>2, <2>3, <1>n DEF Beyond
  <2> QED  BY <2>2, <2>3, <2>4, <1>4
<1>13. ASSUME NEW t \in Site, NEW e \in Nat, Majority(t, e), <<e, t>> \in won
       PROVE  Majority(t, e)'
  <2>1. PICK Q \in SUBSET Site : Cardinality(Q) >= nvotes /\ \A x \in Q : Voted(x, t, e)
    BY <1>13 DEF Majority
  <2>2. ASSUME NEW x \in Q  PROVE Voted(x, t, e)'
    <3>1. CASE x = t  BY <3>1, <2>1, <1>12, <1>13 DEF Voted
    <3>2. CASE x # t
      <4>1. (\E m \in msgs : IsVote2(m, x, t, e)) /\ BestFor(x, t, e)
        BY <3>2, <2>1 DEF Voted
      <4> QED  BY <4>1, <3>2, <1>u, <1>6 DEF Voted
    <3> QED  BY <3>1, <3>2
  <2>3. \E m \in msgs' : IsVote1(m, t, e)  BY <1>13, <1>u DEF Majority
  <2> QED  BY <2>1, <2>2, <2>3 DEF Majority
(* The winner of a new victory is at the egen it has won, so the VOTE2s it  *)
(* counted were for the best of that egen.                                  *)
<1>14. ASSUME NEW V \in SUBSET Site, WinsBy(s, V), Up(s), NEW e \in Nat, e = rep[s].egen
       PROVE  Majority(s, e)'
  <2>1. Cardinality(V) >= 2
    BY <1>14, ConstFacts, SitesFinite DEF WinsBy
  <2>2. PICK y \in V : y # s
    <3> SUFFICES ASSUME \A y \in V : y = s  PROVE FALSE  OBVIOUS
    <3>1. V \subseteq {s}  OBVIOUS
    <3>2. IsFiniteSet({s}) /\ Cardinality({s}) = 1  BY FS_Singleton
    <3>3. Cardinality(V) <= 1  BY <3>1, <3>2, FS_Subset
    <3> QED  BY <2>1, <3>3, SitesFinite
  <2>3. ASSUME NEW x \in V \ {s}
        PROVE  (\E m \in msgs : IsVote2(m, x, s, e)) /\ BestFor(x, s, e)
    <3>1. PICK m \in msgs : IsVote2(m, x, s, e)  BY <1>14 DEF WinsBy
    <3>2. BestFor(x, s, e) \/ Beyond(s, e)
      BY <3>1 DEF Voting, Vote2Inv, IsVote2
    <3>3. ~Beyond(s, e)  BY <1>14, <1>n DEF Beyond
    <3> QED  BY <3>1, <3>2, <3>3
  <2>4. PICK w \in msgs : IsVote1(w, s, e)  BY <2>2, <2>3 DEF BestFor
  <2>5. Called(s, e)  BY <2>4 DEF Voting, Vote1Inv, IsVote1
  <2>6. e < disk'[s].egen  BY <2>5, <1>2 DEF Called
  <2>7. s \in V => Kept(s, e)'
    BY <1>14, <2>6, <1>n DEF WinsBy, Kept, Passed
  <2>8. \A x \in V : Voted(x, s, e)'
    BY <2>3, <2>7, <1>u, <1>6 DEF Voted
  <2> QED  BY <1>14, <2>4, <2>8, <1>u DEF Majority, WinsBy
<1>15. WonInv'
  <2> SUFFICES ASSUME NEW w \in won'
               PROVE  Majority(w[2], w[1])'
    BY DEF WonInv
  <2>1. CASE w \in won
    <3>1. w[1] \in Nat /\ w[2] \in Site /\ w = <<w[1], w[2]>>  BY <2>1 DEF Shape
    <3>2. Majority(w[2], w[1])  BY <2>1 DEF Voting, WonInv
    <3> QED  BY <3>1, <3>2, <2>1, <1>13
  <2>2. CASE w \notin won
    <3>1. PICK V \in SUBSET Site : w = <<rep[s].egen, s>> /\ Up(s) /\ WinsBy(s, V)
      BY <2>2 DEF StepOf
    <3>2. PICK e \in Nat : e = rep[s].egen  BY <1>n
    <3>3. Majority(s, e)'  BY <3>1, <3>2, <1>14
    <3>4. w[1] = e /\ w[2] = s  BY <3>1, <3>2
    <3> QED  BY <3>3, <3>4
  <2> QED  BY <2>1, <2>2
<1> QED  BY <1>1, <1>7, <1>8, <1>9, <1>10, <1>11, <1>15 DEF Voting

(***************************************************************************)
(* Counting                                                                 *)
(***************************************************************************)

LEMMA VoteTypes ==
  ASSUME Shape
  PROVE  \A m \in msgs :
           /\ m.type \in {"vote1", "vote2", "alive", "newmaster"}
           /\ m.from \in Site /\ m.gen \in Nat
           /\ m.type = "vote1" => (m.egen \in Nat /\ m.vote \in Candidate)
           /\ m.type = "vote2" => (m.egen \in Nat /\ m.to \in Site)
           /\ m.type = "alive" => (m.egen \in Nat /\ m.to \in Site)
BY DEF Shape, Votes1, Votes2, Alives, Masterships

(* The VOTE1s of M are candidates of the sites that sent them. *)
Heard(M) ==
  \A m \in M : m.type = "vote1" =>
    (m.vote \in Candidate /\ m.vote.site = m.from /\ m.from \in Site)

LEMMA MsgsHeard == (Shape /\ Voting) => Heard(msgs)
BY VoteTypes DEF Heard, Voting, Vote1Inv

LEMMA WinnerIs ==
  ASSUME NEW s \in Site, NEW r \in Region, NEW M, Heard(M), Tallied(s, r, M), r.sites # {}
  PROVE  r.winner.site \in Site /\ r.winner.site \in Nat /\ r.winner \in Candidate
<1>1. PICK m \in M : IsVote1(m, r.winner.site, r.egen) /\ m.vote = r.winner
  BY DEF Tallied
<1>2. r.winner.site \in Site /\ r.winner \in Candidate  BY <1>1 DEF Heard, IsVote1
<1> QED  BY <1>2, SiteAssumption

LEMMA CountSiteTallied ==
  ASSUME NEW s \in Site, NEW r \in Region, NEW M, NEW m \in M,
         Heard(M), Tallied(s, r, M), m.type = "vote1", m.egen = r.egen
  PROVE  Tallied(s, CountSite(r, m.vote), M)
<1> DEFINE v == m.vote
           c == CountSite(r, v)
<1>1. v \in Candidate /\ v.site = m.from /\ m.from \in Site /\ v.site \in Nat
  BY SiteAssumption DEF Heard
<1>2. /\ c.sites = r.sites \cup {v.site}
      /\ c.winner = IF r.sites = {} \/ Better(v, r.winner) THEN v ELSE r.winner
      /\ c.phase = r.phase /\ c.votes = r.votes
      /\ c.egen = r.egen /\ c.role = r.role /\ c.spent = r.spent
  BY <1>1, CountSiteIs
<1>3. PICK f \in Site : f = m.from  BY <1>1
<1>4. IsVote1(m, f, r.egen) /\ v.site = f  BY <1>1, <1>3 DEF IsVote1
<1>6. ~Better(v, v)  BY <1>1, BetterOrder
<1>7. r.sites # {} => (r.winner.site \in Nat /\ r.winner \in Candidate)  BY WinnerIs
<1>8. \A x \in c.sites : \E n \in M : IsVote1(n, x, c.egen) /\ ~Better(n.vote, c.winner)
  <2> SUFFICES ASSUME NEW x \in c.sites
               PROVE  \E n \in M : IsVote1(n, x, r.egen) /\ ~Better(n.vote, c.winner)
    BY <1>2
  <2>1. CASE r.sites = {}
    <3>1. c.winner = v /\ x = f  BY <2>1, <1>2, <1>4
    <3> QED  BY <3>1, <1>4, <1>6
  <2>2. CASE r.sites # {} /\ x \in r.sites
    <3>1. PICK n \in M : IsVote1(n, x, r.egen) /\ ~Better(n.vote, r.winner)
      BY <2>2 DEF Tallied
    <3>2. n.vote \in Candidate /\ n.vote.site \in Nat
      BY <3>1, SiteAssumption DEF Heard, IsVote1
    <3>3. Better(v, r.winner) => ~Better(n.vote, v)
      BY <3>1, <3>2, <1>1, <1>7, <2>2, BetterOrder
    <3> QED  BY <3>1, <3>3, <1>2, <2>2
  <2>3. CASE r.sites # {} /\ x \notin r.sites
    <3>1. x = f  BY <2>3, <1>2, <1>4
    <3>2. ~Better(v, c.winner)  BY <1>2, <1>6, <2>3
    <3> QED  BY <3>1, <3>2, <1>4
  <2> QED  BY <2>1, <2>2, <2>3
<1>9. \E n \in M : IsVote1(n, c.winner.site, c.egen) /\ n.vote = c.winner
  <2>1. CASE c.winner = v
    <3>1. c.winner.site = f  BY <2>1, <1>4
    <3> QED  BY <3>1, <2>1, <1>2, <1>4
  <2>2. CASE c.winner # v
    <3>1. c.winner = r.winner /\ r.sites # {}  BY <2>2, <1>2
    <3>2. PICK n \in M : IsVote1(n, r.winner.site, r.egen) /\ n.vote = r.winner
      BY <3>1 DEF Tallied
    <3> QED  BY <3>1, <3>2, <1>2
  <2> QED  BY <2>1, <2>2
<1>10. \A x \in c.votes \ {s} : \E n \in M : IsVote2(n, x, s, c.egen)
  BY <1>2 DEF Tallied
<1> HIDE DEF c
<1>11. Tallied(s, c, M)  BY <1>8, <1>9, <1>10 DEF Tallied
<1> QED  BY <1>11 DEF c

LEMMA AllHeard ==
  ASSUME NEW r \in Region, AllSites(r)
  PROVE  r.sites = Site
<1>1. r.sites \in SUBSET Site  BY DEF Region
<1>2. Cardinality(r.sites) = nsites
  BY <1>1, SitesFinite, ConstFacts DEF AllSites
<1> QED  BY <1>1, <1>2, SiteAssumption, FS_Subset DEF nsites

LEMMA CountSiteSound ==
  ASSUME NEW s \in Site, NEW r \in Region, NEW e, NEW v \in Candidate, v.site \in Site,
         Sound(s, r, e), r.phase \notin {"none", "phase2"}
  PROVE  Sound(s, CountSite(r, v), e)
<1> DEFINE c == CountSite(r, v)
<1>1. /\ c \in Region /\ c.sites = r.sites \cup {v.site}
      /\ c.phase = r.phase /\ c.votes = r.votes /\ c.casting = r.casting
      /\ c.egen = r.egen /\ c.role = r.role /\ c.spent = r.spent
  BY CountSiteIs
<1>2. AllSites(r) => AllSites(c)
  <2>1. SUFFICES ASSUME AllSites(r)  PROVE AllSites(c)  OBVIOUS
  <2>2. r.sites = Site  BY <2>1, AllHeard
  <2>3. c.sites = r.sites  BY <1>1, <2>2
  <2> QED  BY <2>1, <2>3 DEF AllSites
<1> HIDE DEF c
<1>3. Sound(s, c, e)  BY <1>1, <1>2 DEF Sound, InElection
<1> QED  BY <1>3 DEF c

(* The vote of phase 2 is for a candidate the voter's own log is not ahead  *)
(* of.                                                                      *)
LEMMA PhaseEnds ==
  ASSUME NEW s \in Site, NEW r \in Region, NEW e, NEW M,
         Heard(M), Sound(s, r, e), Tallied(s, r, M),
         InElection(r), r.spent = r.egen, s \in r.sites, e = r.egen + 1
  PROVE  /\ Sound(s, ToPhase2(r, s), e)
         /\ Tallied(s, ToPhase2(r, s), M)
         /\ r.winner.site \in Site
         /\ \E w \in M : /\ IsVote1(w, r.winner.site, r.egen)
                         /\ \E v \in M : IsVote1(v, s, r.egen) /\ ~Behind(w.vote, v.vote)
<1> DEFINE p == ToPhase2(r, s)
<1>1. /\ p.phase = "phase2" /\ p.sites = r.sites /\ p.casting = r.casting
      /\ p.votes = IF r.winner.site = s THEN r.votes \cup {s} ELSE r.votes
      /\ p.winner = r.winner /\ p.egen = r.egen
      /\ p.role = r.role /\ p.spent = r.spent
  BY ToPhase2Is
<1>2. AllSites(p) <=> AllSites(r)  BY <1>1 DEF AllSites
<1> HIDE DEF p
<1>3. Sound(s, p, e)  BY <1>1, <1>2 DEF Sound, InElection
<1>4. p.votes \ {s} = r.votes \ {s}  BY <1>1
<1>5. Tallied(s, p, M)  BY <1>1, <1>4 DEF Tallied
<1>6. r.winner.site \in Site /\ r.winner.site \in Nat /\ r.winner \in Candidate
  BY WinnerIs
<1>7. PICK w \in M : IsVote1(w, r.winner.site, r.egen) /\ w.vote = r.winner
  BY DEF Tallied
<1>8. PICK v \in M : IsVote1(v, s, r.egen) /\ ~Better(v.vote, r.winner)
  BY DEF Tallied
<1>9. v.vote \in Candidate /\ v.vote.site \in Nat
  BY <1>8, SiteAssumption DEF Heard, IsVote1
<1>10. ~Behind(r.winner, v.vote)  BY <1>6, <1>8, <1>9, BetterOrder
<1> QED  BY <1>3, <1>5, <1>6, <1>7, <1>8, <1>10 DEF p

(***************************************************************************)
(* Steps of four kinds                                                      *)
(***************************************************************************)

LEMMA SetRepIs ==
  ASSUME NEW s \in Site, NEW q \in Region, Shape, SetRep(s, q)
  PROVE  /\ rep' \in [Site -> Region] /\ rep'[s] = q
         /\ \A x \in Site \ {s} : rep'[x] = rep[x]
BY DEF Shape, SetRep

LEMMA EgenTypes ==
  ASSUME Shape
  PROVE  \A x \in Site : /\ rep[x] \in Region /\ rep[x].egen \in Nat /\ rep[x].gen \in Nat
                         /\ disk[x].egen \in Nat /\ disk[x].gen \in Nat
BY DEF Shape, Region

(* A site's own vote is in its tally in phase 2 only. *)
LEMMA KeptPhase ==
  ASSUME NEW s \in Site, Shape, Voting, s \in rep[s].votes
  PROVE  Up(s) /\ rep[s].phase = "phase2" /\ rep[s].winner.site = s
<1>1. Sound(s, rep[s], disk[s].egen)  BY DEF Voting, Regions
<1> QED  BY <1>1 DEF Sound, Up

(* A site that is not in phase 2 of an election of its own, or finds itself *)
(* the best there, has sent no VOTE2 of its egen.                           *)
LEMMA Unsent ==
  ASSUME NEW s \in Site, Shape, Voting, Up(s),
         \/ disk[s].egen <= rep[s].egen
         \/ rep[s].phase # "phase2"
         \/ rep[s].winner.site = s,
         NEW m \in msgs, m.type = "vote2", m.from = s
  PROVE  m.egen # rep[s].egen
<1>1. Spoken(s, m.egen)  BY DEF Voting, Vote2Inv
<1>2. rep[s].egen \in Nat /\ disk[s].egen \in Nat  BY EgenTypes
<1> QED  BY <1>1, <1>2 DEF Spoken, Passed

LEMMA WonCalled ==
  ASSUME NEW s \in Site, Voting, NEW e, <<e, s>> \in won
  PROVE  Called(s, e)
<1>1. Majority(<<e, s>>[2], <<e, s>>[1])  BY DEF Voting, WonInv
<1>2. PICK m \in msgs : IsVote1(m, s, e)  BY <1>1 DEF Majority
<1> QED  BY <1>2 DEF Voting, Vote1Inv, IsVote1

(* The votes by which a tally q of site s has won are those of a majority. *)
LEMMA WonBy ==
  ASSUME NEW s \in Site, NEW q \in Region, Shape, Voting, Up(s),
         q.egen = rep[s].egen, Tallied(s, q, msgs), IHaveWon(q, s),
         \A m \in msgs' \ msgs : m.type # "vote2",
         s \in q.votes =>
           /\ rep[s].phase # "phase2" \/ rep[s].winner.site = s
           /\ \/ rep'[s].egen > rep[s].egen
              \/ rep'[s].egen = rep[s].egen /\ rep'[s].phase = "phase2"
  PROVE  \E V \in SUBSET Site : WinsBy(s, V)
<1>1. q.votes \in SUBSET Site  BY DEF Region
<1>2. Cardinality(q.votes) >= nvotes  BY DEF IHaveWon
<1>3. \A x \in q.votes \ {s} : \E m \in msgs : IsVote2(m, x, s, rep[s].egen)
  BY DEF Tallied
<1>4. s \in q.votes =>
        \A m \in msgs' : (m.type = "vote2" /\ m.from = s) => m.egen # rep[s].egen
  BY Unsent
<1>5. WinsBy(s, q.votes)  BY <1>2, <1>3, <1>4 DEF WinsBy
<1> QED  BY <1>1, <1>5

(* What a late thread will find after a step: the best is who it was, or a  *)
(* site that is beyond the egen of the thread.                              *)
LEMMA LateKept ==
  ASSUME NEW s \in Site, NEW e \in rep[s].casting, Shape, Voting, Up(s),
         \A x \in Site \ {s} : rep'[x] = rep[x] /\ disk'[x] = disk[x],
         rep'[s] \in Region, disk'[s].egen \in Nat, Later(s), msgs \subseteq msgs',
         \A m \in msgs' \ msgs : (m.type = "vote2" /\ m.from = s) => m.egen # e,
         \/ rep'[s].winner = rep[s].winner
         \/ /\ rep'[s].winner.site \in Site
            /\ Beyond(rep'[s].winner.site, e),
         <<e, s>> \in won' => (<<e, s>> \in won \/ rep'[s].winner.site = s)
  PROVE  Late(s, e)'
<1> DEFINE w == rep'[s].winner.site
<1>1. /\ Late(s, e) /\ e \in Nat
      /\ \A x \in Site : rep[x].egen \in Nat /\ disk[x].egen \in Nat
      /\ rep'[s].egen \in Nat
  BY EgenTypes DEF Voting, Lates, Region
<1>2. ASSUME NEW x \in Site, Beyond(x, e)  PROVE Beyond(x, e)'
  <2>1. CASE x = s  BY <2>1, <1>2, <1>1 DEF Later, Beyond
  <2>2. CASE x # s  BY <2>2, <1>2 DEF Beyond, Up
  <2> QED  BY <2>1, <2>2
<1>3. \A m \in msgs' : (m.type = "vote2" /\ m.from = s) => m.egen # e
  BY <1>1 DEF Late
<1>4. w \in Site /\ (Beyond(w, e) \/ BestFor(s, w, e))  BY <1>1 DEF Late
<1>5. <<e, s>> \in won' => (w = s \/ Beyond(w, e))  BY <1>1 DEF Late
<1>6. BestFor(s, w, e) => \E v \in msgs' : IsVote1(v, w, e) /\ Backs(s, v.vote, e)'
  BY DEF BestFor, Backs
<1>7. PICK y \in Site : y = w  BY <1>4
<1>8. Beyond(y, e) => Beyond(y, e)'  BY <1>2
<1>9. Beyond(y, e)' <=> Beyond(rep[s].winner.site, e)'  BY <1>7 DEF Beyond, Up
<1>10. (\E v \in msgs' : IsVote1(v, w, e) /\ Backs(s, v.vote, e)')
          => BestFor(s, rep[s].winner.site, e)'
  BY DEF BestFor, IsVote1
<1>11. w = y /\ (rep[s].winner.site)' = y  BY <1>7
<1> HIDE DEF w
<1> QED  BY <1>3, <1>4, <1>5, <1>6, <1>8, <1>9, <1>10, <1>11 DEF Late

(* A site leaves the election, or was in none. *)
LEMMA ResetStep ==
  ASSUME NEW s \in Site, NEW q \in Region, Shape, Voting, SetRep(s, q),
         q.phase = "none", q.votes = {}, q.sites = {},
         q.casting \subseteq rep[s].casting, q.casting # {} => q.winner = rep[s].winner,
         q.role = "down" => q.casting = {},
         (q.role # "down" /\ Up(s)) =>
           (q.egen >= ElectDone(rep[s]).egen /\ q.spent = rep[s].spent),
         (q.role # "down" /\ ~Up(s)) => disk[s].egen <= q.egen,
         \A x \in Site \ {s} : disk'[x] = disk[x], disk'[s].egen = disk[s].egen,
         msgs \subseteq msgs', \A m, n \in msgs' \ msgs : m = n,
         \A m \in msgs' \ msgs : m.type \notin {"vote1", "vote2"},
         won \subseteq won',
         \A w \in won' \ won : /\ w = <<rep[s].egen, s>> /\ Up(s)
                               /\ rep[s].winner.site = s
                               /\ \E V \in SUBSET Site : WinsBy(s, V)
  PROVE  StepOf(s)
<1>1. rep'[s] = q /\ \A x \in Site \ {s} : rep'[x] = rep[x]  BY SetRepIs
<1>2. rep[s] \in Region /\ rep[s].egen \in Nat /\ disk[s].egen \in Nat  BY EgenTypes
<1>3. q.egen \in Nat  BY DEF Region
<1>4. Sound(s, rep[s], disk[s].egen)  BY DEF Voting, Regions
<1>5. ElectDone(rep[s]).egen = IF InElection(rep[s]) THEN rep[s].egen + 1 ELSE rep[s].egen
  BY <1>2, DoneIs
<1>6. Up(s) => (/\ ElectDone(rep[s]).egen >= disk[s].egen
                /\ ElectDone(rep[s]).egen >= rep[s].egen
                /\ rep[s].phase = "phase2" => ElectDone(rep[s]).egen > rep[s].egen)
  BY <1>2, <1>4, <1>5 DEF Sound, Up, InElection
<1>7. ElectDone(rep[s]).egen \in Nat  BY <1>2, <1>5
<1>8. q.role # "down" => disk[s].egen <= q.egen  BY <1>2, <1>3, <1>6, <1>7
<1>9. rep[s].casting \subseteq Nat /\ \A x \in rep[s].casting : x < disk[s].egen
  BY <1>2, <1>4 DEF Sound, Region
<1>10. \A x \in q.casting : x < disk[s].egen /\ x # q.egen
  BY <1>2, <1>3, <1>8, <1>9
<1>11. Sound(s, q, disk'[s].egen)  BY <1>2, <1>3, <1>8, <1>10 DEF Sound, InElection
<1>12. Tallied(s, q, msgs')  BY DEF Tallied
<1>13. Later(s)
  <2>1. Up(s)' <=> q.role # "down"  BY <1>1 DEF Up
  <2>2. CASE q.role # "down" /\ Up(s)
    <3>1. q.egen > rep[s].egen \/ (q.egen = rep[s].egen /\ rep[s].phase # "phase2")
      BY <2>2, <1>2, <1>3, <1>6, <1>7
    <3> QED  BY <3>1, <2>1, <2>2, <1>1, <1>2 DEF Later
  <2>3. CASE ~(q.role # "down" /\ Up(s))  BY <2>1, <2>3, <1>1, <1>2, <1>8 DEF Later
  <2> QED  BY <2>2, <2>3
<1>14. /\ \A m \in msgs' \ msgs : m.type = "vote1" => NewVote1(s, m)
       /\ \A m \in msgs' \ msgs : m.type = "vote2" => NewVote2(s, m)
  OBVIOUS
<1>15. ASSUME NEW x \in q.casting  PROVE Late(s, x)'
  <2>1. x \in rep[s].casting /\ rep'[s].winner = rep[s].winner  BY <1>1
  <2>2. Up(s)  BY <2>1, <1>4 DEF Sound, Up
  <2>3. <<x, s>> \in won' => (<<x, s>> \in won \/ rep'[s].winner.site = s)  BY <2>1
  <2> QED  BY <1>1, <1>2, <1>13, <2>1, <2>2, <2>3, LateKept
<1> QED  BY <1>1, <1>11, <1>12, <1>13, <1>14, <1>15 DEF StepOf

(* The election is where it was. *)
LEMMA SameStep ==
  ASSUME NEW s \in Site, NEW q \in Region, Shape, Voting, SetRep(s, q),
         Alike(q, rep[s]), disk' = disk, won' = won,
         msgs \subseteq msgs', \A m, n \in msgs' \ msgs : m = n,
         \A m \in msgs' \ msgs : m.type \notin {"vote1", "vote2"}
  PROVE  StepOf(s)
<1>1. rep'[s] = q /\ \A x \in Site \ {s} : rep'[x] = rep[x]  BY SetRepIs
<1>2. rep[s] \in Region /\ rep[s].egen \in Nat /\ disk[s].egen \in Nat  BY EgenTypes
<1>3. Sound(s, rep[s], disk[s].egen) /\ Tallied(s, rep[s], msgs)  BY DEF Voting, Regions
<1>4. Tallied(s, rep[s], msgs')  BY <1>3 DEF Tallied
<1>5. Sound(s, q, disk'[s].egen) /\ Tallied(s, q, msgs')  BY <1>3, <1>4, SoundSame
<1>6. Later(s)  BY <1>1, <1>2 DEF Later, Alike, Up
<1>7. /\ \A m \in msgs' \ msgs : m.type = "vote1" => NewVote1(s, m)
      /\ \A m \in msgs' \ msgs : m.type = "vote2" => NewVote2(s, m)
  OBVIOUS
<1>8. ASSUME NEW x \in q.casting  PROVE Late(s, x)'
  <2>1. x \in rep[s].casting /\ rep'[s].winner = rep[s].winner  BY <1>1 DEF Alike
  <2>2. Up(s)  BY <2>1, <1>3 DEF Sound, Up
  <2> QED  BY <1>1, <1>2, <1>6, <2>1, <2>2, LateKept
<1> QED  BY <1>1, <1>5, <1>6, <1>7, <1>8 DEF StepOf

(***************************************************************************)
(* The actions                                                              *)
(***************************************************************************)

Message == Votes1 \cup Votes2 \cup Alives \cup Masterships

(* Site s does not become a master in the step, and has no master it had    *)
(* not before.                                                              *)
Loyal(s) ==
  /\ rep'[s].role = "master" => Master(s)
  /\ rep'[s].master \in {rep[s].master, NoSite}

LEMMA Vote2MsgIs ==
  ASSUME NEW s \in Site, NEW r \in Region, NEW e \in Nat, r.winner.site \in Site,
         NEW m \in Vote2Msg(r, s, e)
  PROVE  /\ r.winner.site # s /\ m \in Votes2 /\ m.type = "vote2" /\ m.from = s
         /\ m.to = r.winner.site /\ m.egen = e
         /\ \A n \in Vote2Msg(r, s, e) : n = m
BY DEF Vote2Msg, Votes2, Region

(* The election of an egen begins: c is the region with the own VOTE1       *)
(* counted, q what it is after the step, U the VOTE2 sent at once.          *)
LEMMA BeginsStep ==
  ASSUME NEW s \in Site, Shape, Voting, Client(s), rep[s].spent # rep[s].egen,
         disk' = [disk EXCEPT ![s].egen = rep[s].egen + 1],
         UNCHANGED <<data, grants, lease, won>>,
         NEW m \in Votes1, m.from = s, m.egen = rep[s].egen, m.vote.site = s,
         NEW U \in SUBSET Votes2, msgs' = msgs \cup {m} \cup U,
         \A n \in U : NewVote2(s, n) /\ n.egen = rep[s].egen,
         \A n, k \in U : n = k,
         NEW q \in Region, SetRep(s, q),
         q.egen = rep[s].egen, q.spent = rep[s].egen,
         q.role = rep[s].role, q.master = rep[s].master,
         rep[s].phase = "phase2" => q.phase = "phase2",
         q.winner = rep[s].winner \/ q.winner = m.vote,
         Sound(s, q, rep[s].egen + 1), Tallied(s, q, msgs'),
         \A e \in q.casting : e \in rep[s].casting \/ Late(s, e)'
  PROVE  StepOf(s) /\ Shape' /\ Loyal(s)
<1>1. /\ rep[s] \in Region /\ rep[s].egen \in Nat /\ disk[s].egen \in Nat
      /\ Sound(s, rep[s], disk[s].egen) /\ Up(s) /\ rep[s].role = "client"
      /\ rep[s].casting \subseteq Nat
  BY EgenTypes DEF Voting, Regions, Client, Up, Region
<1>2. disk[s].egen <= rep[s].egen  BY <1>1 DEF Sound, Up
<1>3. /\ disk'[s].egen = rep[s].egen + 1 /\ \A x \in Site \ {s} : disk'[x] = disk[x]
      /\ disk' \in [Site -> [gen : Nat, egen : Nat]]
  BY <1>1 DEF Shape
<1>4. /\ rep' \in [Site -> Region] /\ rep'[s] = q
      /\ \A x \in Site \ {s} : rep'[x] = rep[x]
  BY SetRepIs
<1>5. Later(s)  BY <1>1, <1>2, <1>3, <1>4 DEF Later, Up
<1>6. m.type = "vote1" /\ \A n \in U : n.type = "vote2"  BY DEF Votes1, Votes2
<1>7. NewVote1(s, m)  BY <1>1, <1>3, <1>4 DEF NewVote1
<1>8. ASSUME NEW e \in q.casting  PROVE Late(s, e)'
  <2>1. SUFFICES ASSUME e \in rep[s].casting  PROVE Late(s, e)'  OBVIOUS
  <2>2. e < disk[s].egen /\ e < rep[s].egen /\ e \in Nat
    BY <2>1, <1>1, <1>2 DEF Sound
  <2>3. Beyond(s, e)  BY <2>2 DEF Beyond
  <2>4. \/ rep'[s].winner = rep[s].winner
        \/ rep'[s].winner.site \in Site /\ Beyond(rep'[s].winner.site, e)
    <3>1. CASE q.winner = rep[s].winner  BY <3>1, <1>4
    <3>2. CASE q.winner = m.vote
      <4>1. rep'[s].winner.site = s  BY <3>2, <1>4
      <4> QED  BY <4>1, <2>3
    <3> QED  BY <3>1, <3>2
  <2>5. \A n \in msgs' \ msgs : (n.type = "vote2" /\ n.from = s) => n.egen # e
    BY <2>2, <1>1, <1>6
  <2>6. rep'[s] \in Region /\ disk'[s].egen \in Nat  BY <1>1, <1>3, <1>4
  <2>7. msgs \subseteq msgs' /\ won' = won  OBVIOUS
  <2>8. \A x \in Site \ {s} : rep'[x] = rep[x] /\ disk'[x] = disk[x]  BY <1>3, <1>4
  <2>9. <<e, s>> \in won' => (<<e, s>> \in won \/ rep'[s].winner.site = s)  BY <2>7
  <2>10. e \in rep[s].casting /\ Up(s) /\ Later(s)  BY <2>1, <1>1, <1>5
  <2> QED  BY <2>4, <2>5, <2>6, <2>7, <2>8, <2>9, <2>10, LateKept
<1>9. StepOf(s)
  <2>1. \A n, k \in msgs' \ msgs : n.type = k.type => n = k  BY <1>6
  <2>2. \A n \in msgs' \ msgs : n.type = "vote1" => NewVote1(s, n)  BY <1>6, <1>7
  <2>3. \A n \in msgs' \ msgs : n.type = "vote2" => NewVote2(s, n)  BY <1>6
  <2> QED  BY <1>3, <1>4, <1>5, <1>8, <2>1, <2>2, <2>3 DEF StepOf
<1>10. Shape'  BY <1>3, <1>4 DEF Shape
<1>11. Loyal(s)  BY <1>1, <1>4 DEF Loyal
<1> QED  BY <1>9, <1>10, <1>11

LEMMA ElectStep ==
  ASSUME NEW s \in Site, Shape, Voting, Elect(s)
  PROVE  StepOf(s) /\ Shape' /\ Loyal(s)
<1> DEFINE r == rep[s]
           v == [site |-> s, datagen |-> data[s].datagen, lsn |-> data[s].lsn,
                 priority |-> Priority[s]]
           m == [type |-> "vote1", from |-> s, gen |-> r.gen, egen |-> r.egen, vote |-> v]
           h == IF r.phase = "phase2" THEN "phase2" ELSE "phase1"
           a == [r EXCEPT !.spent = r.egen, !.phase = h]
           c == CountSite(a, v)
           l == [c EXCEPT !.casting = c.casting \cup {r.egen}]
           M == msgs \cup {m}
<1>1. /\ Client(s) /\ r.spent # r.egen
      /\ disk' = [disk EXCEPT ![s].egen = r.egen + 1]
      /\ \/ SetRep(s, c) /\ Send({m})
         \/ /\ AllSites(c) /\ SetRep(s, ToPhase2(c, s))
            /\ Send({m} \cup Vote2Msg(c, s, r.egen))
         \/ AllSites(c) /\ SetRep(s, l) /\ Send({m})
      /\ UNCHANGED <<data, grants, lease, won>>
  BY DEF Elect, NextEgen
<1>2. /\ r \in Region /\ r.egen \in Nat /\ r.gen \in Nat /\ disk[s].egen \in Nat
      /\ Sound(s, r, disk[s].egen) /\ Tallied(s, r, msgs)
  BY EgenTypes DEF Voting, Regions
<1>3. /\ a \in Region /\ a.spent = r.egen /\ a.phase = h /\ a.egen = r.egen
      /\ a.sites = r.sites /\ a.votes = r.votes /\ a.winner = r.winner /\ a.role = r.role
      /\ a.casting = r.casting /\ a.master = r.master
  BY <1>2 DEF Region
<1>4. v \in Candidate /\ v.site = s
  BY PriorityAssumption DEF Shape, Candidate
<1>5. m \in Votes1 /\ m.type = "vote1" /\ m.from = s /\ m.egen = r.egen /\ m.vote = v
  BY <1>2, <1>4 DEF Votes1
<1>6. h \in {"phase1", "phase2"} /\ (r.phase = "phase2" => h = "phase2")  OBVIOUS
<1> HIDE DEF a, v, m, h, c, l
<1>7. /\ disk[s].egen <= r.egen /\ Up(s) /\ r.role = "client"
  <2>1. Up(s) /\ r.role = "client"  BY <1>1 DEF Client, Up
  <2>2. disk[s].egen <= r.egen  BY <1>1, <1>2, <2>1 DEF Sound
  <2> QED  BY <2>1, <2>2
<1>8. /\ c \in Region /\ c.sites = r.sites \cup {s}
      /\ c.winner = (IF r.sites = {} \/ Better(v, r.winner) THEN v ELSE r.winner)
      /\ c.phase = h /\ c.votes = r.votes /\ c.egen = r.egen /\ c.role = r.role
      /\ c.spent = r.egen /\ c.casting = r.casting /\ c.master = r.master
  BY <1>3, <1>4, CountSiteIs DEF c
<1>9. Heard(M)  BY <1>4, <1>5, MsgsHeard DEF Heard
<1>10. Tallied(s, c, M)
  <2>1. Tallied(s, a, M)  BY <1>2, <1>3 DEF Tallied
  <2> QED  BY <2>1, <1>3, <1>5, <1>9, CountSiteTallied DEF c
<1>11. \A e \in r.casting : e < r.egen /\ e # r.egen
  BY <1>1, <1>2, <1>7 DEF Sound, Region
<1>12. Sound(s, c, r.egen + 1)
  <2>1. \A e \in c.casting : e < r.egen + 1 /\ e # c.egen
    <3>1. r.casting \subseteq Nat  BY <1>2 DEF Region
    <3> QED  BY <3>1, <1>2, <1>8, <1>11
  <2>2. s \in c.votes => (c.phase = "phase2" /\ c.winner.site = s)
    BY <1>2, <1>4, <1>6, <1>8 DEF Sound
  <2> QED  BY <2>1, <2>2, <1>6, <1>7, <1>8 DEF Sound, InElection
<1>13. c.winner = r.winner \/ c.winner = m.vote  BY <1>5, <1>8
<1>14. /\ Sound(s, ToPhase2(c, s), r.egen + 1) /\ Tallied(s, ToPhase2(c, s), M)
       /\ c.winner.site \in Site
       /\ \E w \in M : /\ IsVote1(w, c.winner.site, r.egen)
                       /\ \E b \in M : IsVote1(b, s, r.egen) /\ ~Behind(w.vote, b.vote)
  BY <1>6, <1>8, <1>9, <1>10, <1>12, PhaseEnds DEF InElection
(* No VOTE2 of this egen has been sent, and the site has not won it. *)
<1>15. \A n \in msgs : (n.type = "vote2" /\ n.from = s) => n.egen # r.egen
  BY <1>7, Unsent
<1>16. ~Passed(s, r.egen) /\ <<r.egen, s>> \notin won
  <2>1. ~(r.egen < disk[s].egen)  BY <1>2, <1>7
  <2> QED  BY <2>1, WonCalled DEF Passed, Called
<1>17. PICK b \in Site, g \in Nat : b = c.winner.site /\ g = r.egen  BY <1>2, <1>14
<1>18. M \subseteq msgs' => BestFor(s, b, g)'
  <2>1. PICK w \in M, k \in M : /\ IsVote1(w, b, g)
                                /\ IsVote1(k, s, g) /\ ~Behind(w.vote, k.vote)
    BY <1>14, <1>17
  <2> QED  BY <2>1 DEF BestFor, Backs
<1>19. disk'[s].egen = g + 1  BY <1>1, <1>17 DEF Shape
<1>20. /\ Client(s) /\ r.spent # r.egen /\ disk' = [disk EXCEPT ![s].egen = r.egen + 1]
       /\ UNCHANGED <<data, grants, lease, won>>
       /\ m \in Votes1 /\ m.from = s /\ m.egen = r.egen /\ m.vote.site = s
  BY <1>1, <1>4, <1>5
<1>21. CASE SetRep(s, c) /\ Send({m})
  <2> DEFINE U == {}
  <2>1. msgs' = msgs \cup {m} \cup U /\ msgs' = M  BY <1>21 DEF Send
  <2>2. U \in SUBSET Votes2 /\ \A n \in U : FALSE  OBVIOUS
  <2> HIDE DEF U, M
  <2>3. c.phase = "phase2" \/ r.phase # "phase2"  BY <1>6, <1>8
  <2> QED
    BY <1>8, <1>10, <1>12, <1>13, <1>21, <1>20, <2>1, <2>2, <2>3, BeginsStep
<1>22. CASE /\ AllSites(c) /\ SetRep(s, ToPhase2(c, s))
            /\ Send({m} \cup Vote2Msg(c, s, r.egen))
  <2> DEFINE U == Vote2Msg(c, s, r.egen)
             q == ToPhase2(c, s)
  <2>1. msgs' = msgs \cup {m} \cup U /\ M \subseteq msgs'  BY <1>22 DEF Send
  <2>2. /\ q \in Region /\ q.phase = "phase2" /\ q.winner = c.winner /\ q.egen = r.egen
        /\ q.role = r.role /\ q.spent = r.egen /\ q.master = r.master
        /\ q.casting = r.casting
    <3>1. c \in Region  BY <1>8
    <3>2. /\ q \in Region /\ q.phase = "phase2" /\ q.winner = c.winner
          /\ q.egen = c.egen /\ q.role = c.role /\ q.spent = c.spent
          /\ q.master = c.master /\ q.casting = c.casting
      BY <3>1, ToPhase2Is
    <3> QED  BY <3>2, <1>8
  <2>3. ASSUME NEW n \in U
        PROVE  /\ b # s /\ n \in Votes2 /\ n.from = s /\ n.to = b /\ n.egen = g
               /\ \A k \in U : k = n
    BY <1>2, <1>8, <1>14, <1>17, Vote2MsgIs
  <2>4. rep'[s] = q  BY <1>22, <2>2, SetRepIs
  <2> HIDE DEF U, q, M
  <2>5. ASSUME NEW n \in U  PROVE NewVote2(s, n)
    <3>1. n.from = s /\ n.to = b /\ n.egen = g /\ b # s  BY <2>3
    <3>2. /\ rep'[s].egen = g /\ rep'[s].phase = "phase2" /\ rep'[s].spent = g
          /\ rep'[s].winner.site # s
      BY <2>2, <2>4, <3>1, <1>17
    <3>3. BestFor(s, n.to, n.egen)'  BY <3>1, <2>1, <1>18
    <3>4. \A k \in msgs : (k.type = "vote2" /\ k.from = s) => k.egen # g
      BY <1>15, <1>17
    <3>5. ~Passed(s, g) /\ g < disk'[s].egen  BY <1>16, <1>17, <1>19
    <3> QED  BY <3>1, <3>2, <3>3, <3>4, <3>5, <1>7 DEF NewVote2
  <2>6. Tallied(s, q, msgs')  BY <1>14, <2>1 DEF Tallied, q
  <2>7. U \in SUBSET Votes2 /\ \A n, k \in U : n = k  BY <2>3
  <2>8. Sound(s, q, r.egen + 1)  BY <1>14 DEF q
  <2>9. SetRep(s, q)  BY <1>22 DEF q
  <2>10. \A n \in U : NewVote2(s, n) /\ n.egen = r.egen  BY <1>17, <2>3, <2>5
  <2>11. q.winner = r.winner \/ q.winner = m.vote  BY <1>13, <2>2
  <2>12. msgs' = msgs \cup {m} \cup U  BY <2>1
  <2> QED
    BY <1>20, <2>2, <2>6, <2>7, <2>8, <2>9, <2>10, <2>11, <2>12, BeginsStep
<1>23. CASE AllSites(c) /\ SetRep(s, l) /\ Send({m})
  <2> DEFINE U == {}
  <2>1. msgs' = msgs \cup {m} \cup U /\ msgs' = M  BY <1>23 DEF Send
  <2>2. U \in SUBSET Votes2 /\ \A n \in U : FALSE  OBVIOUS
  <2> HIDE DEF U, M
  <2>3. /\ l \in Region /\ l.casting = c.casting \cup {r.egen} /\ l.phase = h
        /\ l.sites = c.sites /\ l.votes = c.votes /\ l.winner = c.winner
        /\ l.egen = r.egen /\ l.spent = r.egen /\ l.role = r.role /\ l.master = r.master
    <3>1. c.casting \cup {r.egen} \in SUBSET Nat  BY <1>2, <1>8 DEF Region
    <3> QED  BY <3>1, <1>8 DEF Region, l
  <2>4. rep'[s] = l  BY <1>23, <2>3, SetRepIs
  <2>5. Sound(s, l, r.egen + 1)
    <3>1. AllSites(l)  BY <1>23, <2>3 DEF AllSites
    <3>2. \A e \in l.casting : e < r.egen + 1  BY <1>2, <1>12, <2>3 DEF Sound
    <3>3. l.role = c.role /\ l.egen = c.egen /\ l.spent = c.spent /\ l.phase = c.phase
      BY <2>3, <1>8
    <3> QED  BY <1>7, <1>12, <2>3, <3>1, <3>2, <3>3 DEF Sound, InElection
  <2>6. Tallied(s, l, msgs')  BY <1>8, <1>10, <2>1, <2>3 DEF Tallied
  <2>7. Late(s, g)'
    <3>1. rep'[s].winner.site = b  BY <1>17, <2>3, <2>4
    <3>2. \A n \in msgs' : (n.type = "vote2" /\ n.from = s) => n.egen # g
      BY <1>5, <1>15, <1>17, <2>1, <2>2
    <3>3. BestFor(s, b, g)'  BY <2>1, <1>18
    <3>4. BestFor(s, rep[s].winner.site, g)'  BY <3>1, <3>3 DEF BestFor, IsVote1
    <3>5. <<g, s>> \notin won'  BY <1>1, <1>16, <1>17
    <3> QED  BY <3>1, <3>2, <3>4, <3>5 DEF Late
  <2>8. \A e \in l.casting : e \in r.casting \/ Late(s, e)'  BY <1>8, <1>17, <2>3, <2>7
  <2>9. r.phase = "phase2" => l.phase = "phase2"  BY <1>6, <2>3
  <2> QED
    BY <1>13, <1>23, <1>20, <2>1, <2>2, <2>3, <2>5, <2>6, <2>8, <2>9, BeginsStep
<1> QED  BY <1>1, <1>21, <1>22, <1>23

(* A VOTE2 of the site's own egen: it leaves phase 1, in the same region    *)
(* but for r, what has been counted last.                                   *)
LEMMA PhaseVote2 ==
  ASSUME NEW s \in Site, Shape, Voting, NEW r \in Region, Up(s),
         rep[s].phase = "phase1", r.phase = "phase1",
         r.egen = rep[s].egen, r.spent = r.egen, disk[s].egen = r.egen + 1,
         r.winner.site \in Site,
         \E w \in msgs : /\ IsVote1(w, r.winner.site, r.egen)
                         /\ \E v \in msgs : IsVote1(v, s, r.egen) /\ ~Behind(w.vote, v.vote),
         disk' = disk, msgs \subseteq msgs',
         rep'[s].egen = r.egen, rep'[s].phase = "phase2", rep'[s].spent = r.spent,
         rep'[s].winner = r.winner,
         NEW m \in Vote2Msg(r, s, r.egen)
  PROVE  NewVote2(s, m) /\ m.egen = rep[s].egen
<1>1. rep[s].egen \in Nat /\ disk[s].egen \in Nat  BY EgenTypes
<1>2. PICK b \in Site, g \in Nat : b = r.winner.site /\ g = rep[s].egen  BY <1>1
<1>3. b # s /\ m.type = "vote2" /\ m.from = s /\ m.to = b /\ m.egen = g
  BY <1>2, Vote2MsgIs
<1>4. BestFor(s, b, g)'
  <2>1. PICK w \in msgs, v \in msgs :
          IsVote1(w, b, g) /\ IsVote1(v, s, g) /\ ~Behind(w.vote, v.vote)
    BY <1>2
  <2> QED  BY <2>1 DEF BestFor, Backs
<1>5. BestFor(s, m.to, m.egen)'  BY <1>3, <1>4
<1>6. \A n \in msgs : (n.type = "vote2" /\ n.from = s) => n.egen # g  BY <1>2, Unsent
<1>7. ~Passed(s, g)  BY <1>1, <1>2 DEF Passed
<1> QED  BY <1>1, <1>2, <1>3, <1>5, <1>6, <1>7 DEF NewVote2

LEMMA CastVoteStep ==
  ASSUME NEW s \in Site, Shape, Voting, CastVote(s)
  PROVE  StepOf(s) /\ Shape' /\ Loyal(s)
<1> DEFINE r == rep[s]
           p == ToPhase2(r, s)
           U == Vote2Msg(r, s, r.egen)
<1>1. /\ r.phase = "phase1" /\ r.egen \notin r.casting /\ r.role = "client"
      /\ SetRep(s, p) /\ msgs' = msgs \cup U
      /\ UNCHANGED <<disk, data, grants, lease, won>>
  BY DEF CastVote, Waits, Client, Send
<1>2. /\ r \in Region /\ r.egen \in Nat /\ r.gen \in Nat /\ disk[s].egen \in Nat
      /\ Sound(s, r, disk[s].egen) /\ Tallied(s, r, msgs) /\ Up(s)
  BY <1>1, EgenTypes DEF Voting, Regions, Up
<1>3. /\ p \in Region /\ p.phase = "phase2" /\ p.casting = r.casting
      /\ p.egen = r.egen /\ p.role = r.role /\ p.spent = r.spent
      /\ p.winner = r.winner /\ p.master = r.master
  BY <1>2, ToPhase2Is
<1>4. r.spent = r.egen /\ s \in r.sites /\ disk[s].egen = r.egen + 1
  BY <1>1, <1>2 DEF Sound
<1>5. /\ Sound(s, p, disk[s].egen) /\ Tallied(s, p, msgs)
      /\ r.winner.site \in Site
      /\ \E w \in msgs : /\ IsVote1(w, r.winner.site, r.egen)
                         /\ \E v \in msgs : IsVote1(v, s, r.egen) /\ ~Behind(w.vote, v.vote)
  BY <1>1, <1>2, <1>4, MsgsHeard, PhaseEnds DEF InElection
<1>7. rep' \in [Site -> Region] /\ rep'[s] = p /\ \A x \in Site \ {s} : rep'[x] = rep[x]
  BY <1>1, <1>3, SetRepIs
<1> HIDE DEF p
<1>8. ASSUME NEW m \in U  PROVE NewVote2(s, m) /\ m.egen = r.egen
  BY <1>1, <1>2, <1>3, <1>4, <1>5, <1>7, PhaseVote2
<1>9. ASSUME NEW m \in U
      PROVE  m \in Votes2 /\ m.type = "vote2" /\ \A n \in U : n = m
  BY <1>2, <1>5, Vote2MsgIs
<1> HIDE DEF U
<1>10. Later(s)  BY <1>1, <1>2, <1>3, <1>7 DEF Later
<1>11. Tallied(s, p, msgs')  BY <1>1, <1>5 DEF Tallied
<1>12. ASSUME NEW e \in p.casting  PROVE Late(s, e)'
  <2>1. \A m \in msgs' \ msgs : m.egen # e  BY <1>1, <1>3, <1>8
  <2> QED  BY <1>1, <1>2, <1>3, <1>7, <1>10, <2>1, LateKept
<1>13. StepOf(s)
  <2>1. /\ \A m, n \in msgs' \ msgs : m.type = n.type => m = n
        /\ \A m \in msgs' \ msgs : m.type = "vote1" => NewVote1(s, m)
        /\ \A m \in msgs' \ msgs : m.type = "vote2" => NewVote2(s, m)
    BY <1>1, <1>8, <1>9
  <2> QED  BY <1>1, <1>5, <1>7, <1>10, <1>11, <1>12, <2>1 DEF StepOf
<1>14. Shape'  BY <1>1, <1>7, <1>9 DEF Shape
<1>15. Loyal(s)  BY <1>1, <1>3, <1>7 DEF Loyal
<1> QED  BY <1>13, <1>14, <1>15

LEMMA CastLateStep ==
  ASSUME NEW s \in Site, Shape, Voting, CastLate(s)
  PROVE  StepOf(s) /\ Shape' /\ Loyal(s)
<1>1. PICK e \in rep[s].casting :
        LET r == [rep[s] EXCEPT !.casting = @ \ {e}]
            p == ToPhase2(r, s)
            ends == e # r.egen /\ IHaveWon(p, s)
        IN  /\ SetRep(s, IF ends THEN ElectDone(ElectMaster(p, s)) ELSE p)
            /\ Send(Vote2Msg(r, s, e))
            /\ won' = IF ends THEN Won(p, s) ELSE won
            /\ UNCHANGED <<disk, data, grants, lease, faults>>
  BY DEF CastLate
<1> DEFINE C == rep[s].casting \ {e}
           r == [rep[s] EXCEPT !.casting = C]
           p == ToPhase2(r, s)
           k == ElectMaster(p, s)
           d == ElectDone(k)
           U == Vote2Msg(r, s, e)
           ends == e # r.egen /\ IHaveWon(p, s)
<1>2. /\ SetRep(s, IF ends THEN d ELSE p) /\ msgs' = msgs \cup U
      /\ won' = (IF ends THEN Won(p, s) ELSE won)
      /\ UNCHANGED <<disk, data, grants, lease>>
  BY <1>1 DEF Send
<1>3. /\ rep[s] \in Region /\ rep[s].egen \in Nat /\ rep[s].gen \in Nat
      /\ disk[s].egen \in Nat /\ rep[s].casting \subseteq Nat /\ e \in Nat
      /\ Sound(s, rep[s], disk[s].egen) /\ Tallied(s, rep[s], msgs)
  BY EgenTypes DEF Voting, Regions, Region
<1>4. /\ Up(s) /\ e < disk[s].egen /\ e <= rep[s].egen
      /\ e = rep[s].egen => rep[s].spent = e
  BY <1>3 DEF Sound, Up
<1>5. /\ r \in Region /\ r.casting = C /\ r.egen = rep[s].egen /\ r.role = rep[s].role
      /\ r.spent = rep[s].spent /\ r.phase = rep[s].phase /\ r.sites = rep[s].sites
      /\ r.votes = rep[s].votes /\ r.winner = rep[s].winner /\ r.master = rep[s].master
  BY <1>3 DEF Region
<1>6. /\ Late(s, e) /\ r.winner.site \in Site  BY <1>5 DEF Voting, Lates, Late
<1> HIDE DEF r
<1>7. ASSUME NEW m \in U
      PROVE  /\ r.winner.site # s /\ m \in Votes2 /\ m.type = "vote2" /\ m.from = s
             /\ m.to = r.winner.site /\ m.egen = e /\ \A n \in U : n = m
  BY <1>3, <1>5, <1>6, Vote2MsgIs
<1> HIDE DEF U
<1>8. /\ p \in Region /\ p.phase = "phase2" /\ p.sites = r.sites /\ p.casting = C
      /\ p.votes = (IF r.winner.site = s THEN r.votes \cup {s} ELSE r.votes)
      /\ p.egen = r.egen /\ p.role = r.role /\ p.spent = r.spent
      /\ p.winner = r.winner /\ p.master = r.master
  BY <1>5, ToPhase2Is
<1> HIDE DEF p
<1>9. Tallied(s, p, msgs)
  <2>1. p.votes \ {s} = rep[s].votes \ {s}  BY <1>5, <1>8
  <2> QED  BY <1>3, <1>5, <1>8, <2>1 DEF Tallied
<1>10. CASE ends
  <2>1. /\ SetRep(s, d) /\ won' = Won(p, s) /\ IHaveWon(p, s) /\ p.winner.site = s
    BY <1>2, <1>10 DEF IHaveWon
  <2>2. U = {}  BY <1>7, <1>8, <2>1
  <2>3. k \in Region /\ Same(k, p) /\ k.master = p.master  BY <1>8, ElectMasterIs
  <2> HIDE DEF k
  <2>4. /\ d \in Region /\ d.phase = "none" /\ d.votes = {} /\ d.sites = {}
        /\ d.casting = k.casting /\ (k.casting # {} => d.winner = k.winner)
        /\ d.egen = (IF InElection(k) THEN k.egen + 1 ELSE k.egen)
        /\ d.role = k.role /\ d.spent = k.spent /\ d.master = k.master
    BY <2>3, DoneIs
  <2> HIDE DEF d
  <2>5. /\ d.casting = C /\ (C # {} => d.winner = rep[s].winner)
        /\ d.egen = rep[s].egen + 1 /\ d.role = rep[s].role
        /\ d.spent = rep[s].spent /\ d.master = rep[s].master
    BY <1>5, <1>8, <2>3, <2>4 DEF Same, Alike, InElection
  <2>6. rep'[s] = d /\ msgs' = msgs  BY <1>2, <2>1, <2>2, <2>4, SetRepIs
  <2>7. \E V \in SUBSET Site : WinsBy(s, V)
    BY <1>3, <1>4, <1>5, <1>8, <1>9, <2>1, <2>5, <2>6, WonBy
  <2>8. /\ won \subseteq won'
        /\ \A w \in won' \ won : /\ w = <<rep[s].egen, s>> /\ Up(s)
                                 /\ rep[s].winner.site = s
                                 /\ \E V \in SUBSET Site : WinsBy(s, V)
    BY <1>4, <1>5, <1>8, <2>1, <2>7 DEF Won
  <2>9. d.egen >= ElectDone(rep[s]).egen  BY <1>3, <2>5, DoneIs
  <2>10. rep[s].role # "down"  BY <1>4 DEF Up
  <2>11. StepOf(s)
    BY <1>2, <1>4, <2>1, <2>4, <2>5, <2>6, <2>8, <2>9, <2>10, ResetStep
  <2>12. won' \subseteq Nat \X Site  BY <1>3, <1>5, <1>8, <2>1 DEF Won, Shape
  <2>13. Shape'  BY <1>2, <2>1, <2>4, <2>6, <2>12, SetRepIs DEF Shape
  <2>14. Loyal(s)  BY <2>5, <2>6 DEF Loyal, Master
  <2> QED  BY <2>11, <2>13, <2>14
<1>11. CASE ~ends
  <2>1. SetRep(s, p) /\ won' = won  BY <1>2, <1>11
  <2>2. /\ rep' \in [Site -> Region] /\ rep'[s] = p
        /\ \A x \in Site \ {s} : rep'[x] = rep[x]
    BY <1>8, <2>1, SetRepIs
  <2>3. Sound(s, p, disk'[s].egen)
    <3>1. AllSites(p) <=> AllSites(rep[s])  BY <1>5, <1>8 DEF AllSites
    <3>2. rep[s].role # "down"  BY <1>4 DEF Up
    <3> QED  BY <1>2, <1>3, <1>5, <1>8, <3>1, <3>2 DEF Sound, InElection
  <2>4. Later(s)  BY <1>2, <1>3, <1>4, <1>5, <1>8, <2>2 DEF Later
  <2>5. ASSUME NEW m \in msgs' \ msgs  PROVE NewVote2(s, m)
    <3>1. m \in U  BY <1>2
    <3>2. PICK b \in Site : b = r.winner.site  BY <1>6
    <3>3. m.from = s /\ m.to = b /\ m.egen = e /\ b # s  BY <1>7, <3>1, <3>2
    <3>4. b = rep[s].winner.site /\ rep'[s].winner.site = b  BY <1>5, <1>8, <2>2, <3>2
    <3>5. Beyond(b, e) \/ BestFor(s, b, e)  BY <1>6, <3>4 DEF Late
    <3>6. BestFor(s, b, e) => BestFor(s, b, e)'  BY <1>2 DEF BestFor, Backs
    <3>7. BestFor(s, m.to, m.egen)' \/ Beyond(m.to, m.egen)  BY <3>3, <3>5, <3>6
    <3>8. <<e, s>> \in won => Beyond(b, e)  BY <1>6, <3>3, <3>4 DEF Late
    <3>9. \A n \in msgs : (n.type = "vote2" /\ n.from = s) => n.egen # e
      BY <1>6 DEF Late
    <3>10. rep'[s].egen > e \/ (rep'[s].egen = e /\ rep'[s].spent = e)
      BY <1>3, <1>4, <1>5, <1>8, <2>2
    <3>11. rep'[s].phase = "phase2" /\ e < disk'[s].egen  BY <1>2, <1>4, <1>8, <2>2
    <3> QED
      BY <1>4, <3>3, <3>4, <3>7, <3>8, <3>9, <3>10, <3>11 DEF NewVote2
  <2>6. Tallied(s, p, msgs')  BY <1>2, <1>9 DEF Tallied
  <2>7. ASSUME NEW x \in p.casting  PROVE Late(s, x)'
    <3>1. x \in rep[s].casting /\ x # e  BY <1>8
    <3>2. \A m \in msgs' \ msgs : m.egen # x  BY <1>2, <1>7, <3>1
    <3>3. rep'[s] \in Region /\ disk'[s].egen \in Nat  BY <1>2, <1>3, <1>8, <2>2
    <3> QED
      BY <1>2, <1>4, <1>5, <1>8, <2>1, <2>2, <2>4, <3>1, <3>2, <3>3, LateKept
  <2>8. StepOf(s)
    <3>1. /\ \A m, n \in msgs' \ msgs : m = n
          /\ \A m \in msgs' \ msgs : m.type = "vote2"
      BY <1>2, <1>7
    <3> QED  BY <1>2, <2>1, <2>2, <2>3, <2>4, <2>5, <2>6, <2>7, <3>1 DEF StepOf
  <2>9. Shape'  BY <1>2, <1>7, <2>1, <2>2 DEF Shape
  <2>10. Loyal(s)  BY <1>5, <1>8, <2>2 DEF Loyal, Master
  <2> QED  BY <2>8, <2>9, <2>10
<1> QED  BY <1>10, <1>11

LEMMA GiveUpStep ==
  ASSUME NEW s \in Site, Shape, Voting, GiveUp(s)
  PROVE  StepOf(s) /\ Shape' /\ Loyal(s)
<1> DEFINE q == ElectDone(rep[s])
<1>1. SetRep(s, q) /\ UNCHANGED <<disk, data, msgs, grants, lease, won>>  BY DEF GiveUp
<1>2. rep[s] \in Region /\ rep[s].role = "client" /\ Up(s)
  BY EgenTypes DEF GiveUp, Client, Up
<1>3. q.role = rep[s].role /\ q.master = rep[s].master  BY <1>2, DoneIs
<1>4. /\ q \in Region /\ q.phase = "none" /\ q.votes = {} /\ q.sites = {}
      /\ q.casting = rep[s].casting /\ (q.casting # {} => q.winner = rep[s].winner)
      /\ q.spent = rep[s].spent /\ q.egen \in Nat
  BY <1>2, DoneIs DEF Region
<1>5. q.egen >= ElectDone(rep[s]).egen  BY <1>4
<1> HIDE DEF q
<1>6. StepOf(s)  BY <1>1, <1>2, <1>4, <1>5, <1>3, ResetStep
<1>7. Shape'  BY <1>1, <1>4, SetRepIs DEF Shape
<1>8. Loyal(s)  BY <1>1, <1>2, <1>4, <1>3, SetRepIs DEF Loyal
<1> QED  BY <1>6, <1>7, <1>8

LEMMA IWonStep ==
  ASSUME NEW s \in Site, Shape, Voting, IWon(s)
  PROVE  StepOf(s) /\ Shape' /\ Loyal(s)
<1> DEFINE k == ElectMaster(rep[s], s)
           q == ElectDone(k)
<1>1. /\ SetRep(s, q) /\ UNCHANGED <<disk, data, msgs, grants, lease>>
      /\ won' = Won(rep[s], s) /\ IHaveWon(rep[s], s)
      /\ rep[s].phase = "phase2" /\ rep[s].role = "client"
  BY DEF IWon, Client
<1>2. /\ rep[s] \in Region /\ rep[s].egen \in Nat /\ Up(s)
      /\ rep[s].winner.site = s /\ Tallied(s, rep[s], msgs)
  BY <1>1, EgenTypes DEF Up, IHaveWon, Voting, Regions
<1>3. k \in Region /\ Same(k, rep[s]) /\ k.master = rep[s].master  BY <1>2, ElectMasterIs
<1> HIDE DEF k
<1>4. /\ q \in Region /\ q.phase = "none" /\ q.votes = {} /\ q.sites = {}
      /\ q.casting = k.casting /\ (k.casting # {} => q.winner = k.winner)
      /\ q.spent = k.spent /\ q.egen = (IF InElection(k) THEN k.egen + 1 ELSE k.egen)
      /\ q.role = k.role /\ q.master = k.master
  BY <1>3, DoneIs
<1> HIDE DEF q
<1>5. /\ q.casting = rep[s].casting /\ (q.casting # {} => q.winner = rep[s].winner)
      /\ q.spent = rep[s].spent /\ q.egen = rep[s].egen + 1
      /\ q.role = rep[s].role /\ q.master = rep[s].master
  BY <1>1, <1>3, <1>4 DEF Same, Alike, InElection
<1>6. q.egen >= ElectDone(rep[s]).egen  BY <1>2, <1>5, DoneIs
<1>7. rep'[s] = q  BY <1>1, <1>4, SetRepIs
<1>8. \E V \in SUBSET Site : WinsBy(s, V)
  <2>1. rep'[s].egen > rep[s].egen  BY <1>2, <1>5, <1>7
  <2> QED  BY <1>1, <1>2, <2>1, WonBy
<1>9. /\ won \subseteq won'
      /\ \A w \in won' \ won : /\ w = <<rep[s].egen, s>> /\ Up(s)
                               /\ rep[s].winner.site = s
                               /\ \E V \in SUBSET Site : WinsBy(s, V)
  BY <1>1, <1>2, <1>8 DEF Won
<1>10. StepOf(s)  BY <1>1, <1>2, <1>4, <1>5, <1>6, <1>9, ResetStep
<1>11. won' \subseteq Nat \X Site  BY <1>1, <1>2 DEF Won, Shape
<1>12. Shape'  BY <1>1, <1>4, <1>11, SetRepIs DEF Shape
<1>13. Loyal(s)  BY <1>1, <1>5, <1>7 DEF Loyal
<1> QED  BY <1>10, <1>12, <1>13

LEMMA NewGenIs ==
  ASSUME NEW r \in Region
  PROVE  NewGen(r) \in Nat
BY DEF NewGen, Region

LEMMA ClaimStep ==
  ASSUME NEW s \in Site, Shape, Voting, Claim(s)
  PROVE  StepOf(s) /\ Shape'
<1> DEFINE r == ElectDone(rep[s])
           g == NewGen(rep[s])
           e == IF r.egen <= g THEN g + 1 ELSE r.egen
           q == [r EXCEPT !.role = "master", !.gen = g, !.elected = FALSE,
                          !.egen = e, !.master = s, !.synced = TRUE]
           m == [type |-> "newmaster", from |-> s, gen |-> g]
<1>1. /\ Client(s) /\ SetRep(s, q) /\ disk' = [disk EXCEPT ![s].gen = g]
      /\ data' = [data EXCEPT ![s] = [datagen |-> g, lsn |-> data[s].lsn + 1]]
      /\ lease' = [lease EXCEPT ![s] = {}] /\ Send({m})
      /\ UNCHANGED <<grants, won>>
  BY DEF Claim, Shape
<1>2. rep[s] \in Region /\ rep[s].egen \in Nat /\ Up(s)  BY <1>1, EgenTypes DEF Client, Up
<1>3. /\ r \in Region /\ r.phase = "none" /\ r.votes = {} /\ r.sites = {}
      /\ r.casting = rep[s].casting /\ (r.casting # {} => r.winner = rep[s].winner)
      /\ r.spent = rep[s].spent /\ r.egen \in Nat
  BY <1>2, DoneIs DEF Region
<1>4. g \in Nat  BY <1>2, NewGenIs
<1>5. m \in Masterships /\ m.type = "newmaster"  BY <1>4 DEF Masterships
<1>6. r = ElectDone(rep[s])  OBVIOUS
<1> HIDE DEF g, r, m
<1>7. e \in Nat /\ e >= r.egen  BY <1>3, <1>4
<1> HIDE DEF e
<1>8. /\ q \in Region /\ q.phase = r.phase /\ q.votes = r.votes /\ q.sites = r.sites
      /\ q.winner = r.winner /\ q.spent = r.spent /\ q.egen = e
      /\ q.casting = r.casting /\ q.role = "master"
  BY <1>3, <1>4, <1>7 DEF Region
<1> HIDE DEF q
<1>9. /\ \A x \in Site \ {s} : disk'[x] = disk[x]
      /\ disk'[s].egen = disk[s].egen /\ disk' \in [Site -> [gen : Nat, egen : Nat]]
  BY <1>1, <1>4 DEF Shape
<1>10. msgs' = msgs \cup {m}  BY <1>1 DEF Send
<1>11. /\ q.egen >= ElectDone(rep[s]).egen /\ q.spent = rep[s].spent
       /\ q.phase = "none" /\ q.votes = {} /\ q.sites = {} /\ q.role # "down"
       /\ q.casting = rep[s].casting /\ (q.casting # {} => q.winner = rep[s].winner)
  BY <1>3, <1>6, <1>7, <1>8
<1>12. /\ msgs \subseteq msgs' /\ \A a, b \in msgs' \ msgs : a = b
       /\ \A n \in msgs' \ msgs : n.type \notin {"vote1", "vote2"}
  BY <1>5, <1>10
<1>13. StepOf(s)  BY <1>1, <1>2, <1>8, <1>9, <1>11, <1>12, ResetStep
<1>14. data' \in [Site -> [datagen : Nat, lsn : Nat]]  BY <1>1, <1>4 DEF Shape
<1>15. Shape'  BY <1>1, <1>5, <1>8, <1>9, <1>10, <1>14, SetRepIs DEF Shape
<1> QED  BY <1>13, <1>15

(* The site is gone; its generation file may have been written before.      *)
LEMMA GoesDownStep ==
  ASSUME NEW s \in Site, Shape, Voting, SetRep(s, Down),
         disk' = disk \/ disk' = [disk EXCEPT ![s].gen = NewGen(rep[s])],
         UNCHANGED <<data, msgs, grants, lease, won>>
  PROVE  StepOf(s) /\ Shape' /\ Loyal(s)
<1>1. /\ \A x \in Site \ {s} : disk'[x] = disk[x]
      /\ disk'[s].egen = disk[s].egen /\ disk' \in [Site -> [gen : Nat, egen : Nat]]
  <2>1. NewGen(rep[s]) \in Nat  BY EgenTypes, NewGenIs
  <2> QED  BY <2>1 DEF Shape
<1>2. StepOf(s)  BY <1>1, DownIs, ResetStep
<1>3. Shape'  BY <1>1, DownIs, SetRepIs DEF Shape
<1>4. Loyal(s)  BY DownIs, SetRepIs DEF Loyal
<1> QED  BY <1>2, <1>3, <1>4

LEMMA RestartStep ==
  ASSUME NEW s \in Site, Shape, Voting, Restart(s)
  PROVE  StepOf(s) /\ Shape'
<1> DEFINE q == Fresh(disk[s].gen, disk[s].egen)
<1>1. /\ ~Up(s) /\ SetRep(s, q) /\ lease' = [lease EXCEPT ![s] = {}]
      /\ UNCHANGED <<disk, data, msgs, grants, won>>
  BY DEF Restart
<1>2. disk[s].gen \in Nat /\ disk[s].egen \in Nat  BY EgenTypes
<1>3. /\ q \in Region /\ q.egen = disk[s].egen /\ q.phase = "none"
      /\ q.sites = {} /\ q.votes = {} /\ q.casting = {}
  BY <1>2, FreshIs
<1>4. disk[s].egen <= q.egen  BY <1>2, <1>3
<1> HIDE DEF q
<1>5. StepOf(s)  BY <1>1, <1>3, <1>4, ResetStep
<1>6. Shape'  BY <1>1, <1>3, SetRepIs DEF Shape
<1> QED  BY <1>5, <1>6

LEMMA NewMasterStep ==
  ASSUME NEW s \in Site, NEW m \in msgs, m.type = "newmaster", Client(s),
         Shape, Voting, NewMaster(s, m)
  PROVE  StepOf(s) /\ Shape' /\ rep'[s].role = "client" /\ (Loyal(s) \/ s \notin grants)
<1> DEFINE d == ElectDone(rep[s])
           e == IF d.egen <= m.gen THEN m.gen + 1 ELSE d.egen
           q == [d EXCEPT !.gen = m.gen, !.egen = e, !.master = m.from, !.synced = FALSE]
<1>1. /\ \/ SetRep(s, q) /\ disk' = [disk EXCEPT ![s].gen = m.gen] /\ s \notin grants
         \/ SetRep(s, d) /\ disk' = disk
      /\ UNCHANGED <<data, msgs, grants, lease, won>>
  BY DEF NewMaster, MayChangeMaster
<1>2. rep[s] \in Region /\ Up(s) /\ rep[s].role = "client"  BY EgenTypes DEF Client, Up
<1>3. /\ d \in Region /\ d.phase = "none" /\ d.votes = {} /\ d.sites = {}
      /\ d.casting = rep[s].casting /\ (d.casting # {} => d.winner = rep[s].winner)
      /\ d.spent = rep[s].spent /\ d.egen \in Nat
      /\ d.role = rep[s].role /\ d.master = rep[s].master
  BY <1>2, DoneIs DEF Region
<1>4. m.gen \in Nat /\ m.from \in Site  BY VoteTypes
<1>5. d = ElectDone(rep[s])  OBVIOUS
<1> HIDE DEF d
<1>6. e \in Nat /\ e >= d.egen  BY <1>3, <1>4
<1> HIDE DEF e
<1>7. /\ q \in Region /\ q.phase = d.phase /\ q.votes = d.votes /\ q.sites = d.sites
      /\ q.winner = d.winner /\ q.spent = d.spent /\ q.egen = e
      /\ q.role = d.role /\ q.casting = d.casting
  BY <1>3, <1>4, <1>6 DEF Region
<1> HIDE DEF q
<1>8. /\ \A x \in Site \ {s} : disk'[x] = disk[x]
      /\ disk'[s].egen = disk[s].egen /\ disk' \in [Site -> [gen : Nat, egen : Nat]]
  BY <1>1, <1>4 DEF Shape
<1>9. PICK z \in {q, d} : SetRep(s, z) /\ (z = d \/ s \notin grants)  BY <1>1
<1>10. /\ z \in Region /\ z.phase = "none" /\ z.votes = {} /\ z.sites = {}
       /\ z.casting = rep[s].casting /\ (z.casting # {} => z.winner = rep[s].winner)
       /\ z.spent = rep[s].spent /\ z.role = "client"
       /\ z.egen >= ElectDone(rep[s]).egen
  BY <1>2, <1>3, <1>5, <1>6, <1>7, <1>9
<1>11. StepOf(s)  BY <1>1, <1>2, <1>8, <1>9, <1>10, ResetStep
<1>12. Shape'  BY <1>1, <1>8, <1>9, <1>10, SetRepIs DEF Shape
<1>13. rep'[s].role = "client"  BY <1>9, <1>10, SetRepIs
<1>14. Loyal(s) \/ s \notin grants
  BY <1>3, <1>9, <1>10, <1>13, SetRepIs DEF Loyal
<1> QED  BY <1>11, <1>12, <1>13, <1>14

LEMMA AliveStep ==
  ASSUME NEW s \in Site, NEW m \in msgs, m.type = "alive", Client(s),
         Shape, Voting, Alive(s, m)
  PROVE  StepOf(s) /\ Shape' /\ Loyal(s)
<1> DEFINE r == SetGen(rep[s], m)
           d == ElectDone(r)
           q == [d EXCEPT !.egen = m.egen]
<1>1. /\ SetRep(s, IF m.egen > r.egen THEN q ELSE r)
      /\ UNCHANGED <<disk, data, msgs, grants, lease, won>>
  BY DEF Alive
<1>2. rep[s] \in Region /\ rep[s].egen \in Nat /\ Up(s) /\ rep[s].role = "client"
  BY EgenTypes DEF Client, Up
<1>3. m.gen \in Nat /\ m.egen \in Nat  BY VoteTypes
<1>4. r \in Region /\ Same(r, rep[s]) /\ r.master \in {rep[s].master, NoSite}
  BY <1>2, <1>3, SetGenIs
<1>5. CASE m.egen > r.egen
  <2>1. /\ d \in Region /\ d.phase = "none" /\ d.votes = {} /\ d.sites = {}
        /\ d.casting = r.casting /\ (r.casting # {} => d.winner = r.winner)
        /\ d.spent = r.spent
        /\ d.role = r.role /\ d.master = r.master
    BY <1>4, DoneIs
  <2>2. ElectDone(rep[s]).egen =
          IF InElection(rep[s]) THEN rep[s].egen + 1 ELSE rep[s].egen
    BY <1>2, DoneIs
  <2>3. m.egen >= ElectDone(rep[s]).egen  BY <1>2, <1>3, <1>4, <1>5, <2>2 DEF Same, Alike
  <2>4. SetRep(s, q)  BY <1>1, <1>5
  <2> HIDE DEF d
  <2>5. /\ q \in Region /\ q.phase = d.phase /\ q.votes = d.votes /\ q.sites = d.sites
        /\ q.winner = d.winner /\ q.spent = d.spent /\ q.egen = m.egen
        /\ q.role = d.role /\ q.master = d.master /\ q.casting = d.casting
    BY <1>3, <2>1 DEF Region
  <2> HIDE DEF q
  <2>6. /\ q.phase = "none" /\ q.votes = {} /\ q.sites = {} /\ q.role = "client"
        /\ q.casting = rep[s].casting /\ (q.casting # {} => q.winner = rep[s].winner)
        /\ q.spent = rep[s].spent /\ q.egen >= ElectDone(rep[s]).egen
    BY <1>2, <1>4, <2>1, <2>3, <2>5 DEF Same, Alike
  <2>7. StepOf(s)  BY <1>1, <1>2, <2>4, <2>5, <2>6, ResetStep
  <2>8. Shape'  BY <1>1, <2>4, <2>5, SetRepIs DEF Shape
  <2>9. Loyal(s)  BY <1>2, <1>4, <2>1, <2>4, <2>5, SetRepIs DEF Loyal, Same, Alike
  <2> QED  BY <2>7, <2>8, <2>9
<1>6. CASE ~(m.egen > r.egen)
  <2>1. SetRep(s, r)  BY <1>1, <1>6
  <2> HIDE DEF r
  <2>2. StepOf(s)  BY <1>1, <1>4, <2>1, SameStep DEF Same
  <2>3. Shape'  BY <1>1, <1>4, <2>1, SetRepIs DEF Shape
  <2>4. Loyal(s)  BY <1>2, <1>4, <2>1, SetRepIs DEF Loyal, Same, Alike
  <2> QED  BY <2>2, <2>3, <2>4
<1> QED  BY <1>5, <1>6

LEMMA StepDownStep ==
  ASSUME NEW s \in Site, NEW m \in msgs, Master(s), Shape, Voting, StepDown(s, m)
  PROVE  StepOf(s) /\ Shape' /\ Loyal(s)
<1> DEFINE q == [rep[s] EXCEPT !.role = "client", !.master = NoSite, !.elected = FALSE]
<1>1. SetRep(s, q) /\ UNCHANGED <<disk, data, msgs, grants, lease, won>>  BY DEF StepDown
<1>2. rep[s] \in Region /\ rep[s].role = "master"  BY EgenTypes DEF Master
<1>3. /\ q \in Region /\ q.role = "client" /\ q.master = NoSite
      /\ q.egen = rep[s].egen /\ q.spent = rep[s].spent /\ q.phase = rep[s].phase
      /\ q.sites = rep[s].sites /\ q.votes = rep[s].votes
      /\ q.winner = rep[s].winner /\ q.casting = rep[s].casting
  BY <1>2 DEF Region
<1> HIDE DEF q
<1>4. Alike(q, rep[s])  BY <1>2, <1>3 DEF Alike
<1>5. StepOf(s)  BY <1>1, <1>3, <1>4, SameStep
<1>6. Shape'  BY <1>1, <1>3, SetRepIs DEF Shape
<1>7. Loyal(s)  BY <1>1, <1>3, SetRepIs DEF Loyal
<1> QED  BY <1>5, <1>6, <1>7

LEMMA SyncStep ==
  ASSUME NEW c \in Site, NEW t \in Site, Client(c), Shape, Voting, Sync(c, t)
  PROVE  StepOf(c) /\ Shape' /\ Loyal(c)
<1> DEFINE q == [rep[c] EXCEPT !.synced = TRUE]
<1>1. /\ SetRep(c, q) /\ data' = [data EXCEPT ![c] = data[t]]
      /\ UNCHANGED <<disk, msgs, grants, lease, won>>
  BY DEF Sync
<1>2. q \in Region /\ Same(q, rep[c]) /\ q.master = rep[c].master
  BY EgenTypes DEF Region, Same, Alike
<1> HIDE DEF q
<1>3. StepOf(c)  BY <1>1, <1>2, SameStep DEF Same
<1>4. Shape'  BY <1>1, <1>2, SetRepIs DEF Shape
<1>5. Loyal(c)  BY <1>1, <1>2, SetRepIs DEF Loyal, Same, Alike, Client
<1> QED  BY <1>3, <1>4, <1>5

(* A step that leaves every region and file alone. *)
LEMMA LeaseStep ==
  ASSUME NEW s \in Site, Shape, Voting, UNCHANGED <<rep, disk, msgs, won>>
  PROVE  StepOf(s)
<1> DEFINE q == rep[s]
<1>1. q \in Region /\ Same(q, rep[s]) /\ SetRep(s, q)
  BY EgenTypes DEF Same, Alike, SetRep, Shape
<1> QED  BY <1>1, SameStep DEF Same

LEMMA Vote2Step ==
  ASSUME NEW s \in Site, NEW m \in msgs, m.type = "vote2", Client(s),
         Shape, Voting, Vote2(s, m)
  PROVE  StepOf(s) /\ Shape' /\ Loyal(s)
<1> DEFINE r == SetGen(rep[s], m)
           c == CountVote(r, m.from)
           q == ElectMaster(c, s)
           counts == r.phase # "none" /\ m.egen = r.egen /\ m.from \notin r.votes
<1>1. /\ m.to = s /\ SetRep(s, IF counts THEN q ELSE r)
      /\ won' = (IF counts THEN Won(c, s) ELSE won)
      /\ UNCHANGED <<disk, data, msgs, grants, lease>>
  BY DEF Vote2
<1>2. /\ rep[s] \in Region /\ rep[s].egen \in Nat /\ Up(s) /\ disk[s].egen \in Nat
      /\ rep[s].role = "client"
      /\ Sound(s, rep[s], disk[s].egen) /\ Tallied(s, rep[s], msgs)
  BY EgenTypes DEF Client, Up, Voting, Regions
<1>3. /\ m.gen \in Nat /\ m.egen \in Nat /\ m.from \in Site /\ m.from # s
  BY <1>1, VoteTypes DEF Voting, Vote2Inv
<1>4. r \in Region /\ Same(r, rep[s]) /\ r.master \in {rep[s].master, NoSite}
  BY <1>2, <1>3, SetGenIs
<1>5. CASE ~counts
  <2>1. SetRep(s, r) /\ won' = won  BY <1>1, <1>5
  <2> HIDE DEF r
  <2>2. StepOf(s)  BY <1>1, <1>4, <2>1, SameStep DEF Same
  <2>3. Shape'  BY <1>1, <1>4, <2>1, SetRepIs DEF Shape
  <2>4. Loyal(s)  BY <1>2, <1>4, <2>1, SetRepIs DEF Loyal, Same, Alike
  <2> QED  BY <2>2, <2>3, <2>4
<1>6. CASE counts
  <2>1. /\ SetRep(s, q) /\ won' = Won(c, s)
        /\ r.phase # "none" /\ m.egen = r.egen
    BY <1>1, <1>6
  <2>2. Sound(s, r, disk[s].egen) /\ Tallied(s, r, msgs)
    BY <1>2, <1>4, SoundSame DEF Same
  <2> HIDE DEF r
  <2>3. /\ c \in Region /\ c.votes = r.votes \cup {m.from}
        /\ c.phase = r.phase /\ c.sites = r.sites /\ c.winner = r.winner
        /\ c.egen = r.egen /\ c.role = r.role /\ c.spent = r.spent
        /\ c.master = r.master /\ c.casting = r.casting
    BY <1>3, <1>4, CountVoteIs
  <2> HIDE DEF c
  <2>4. Sound(s, c, disk[s].egen)
    <3>1. AllSites(c) <=> AllSites(r)  BY <2>3 DEF AllSites
    <3>2. s \in c.votes => s \in r.votes  BY <1>3, <2>3
    <3> QED  BY <2>1, <2>2, <2>3, <3>1, <3>2 DEF Sound, InElection
  <2>5. Tallied(s, c, msgs)
    <3>1. IsVote2(m, m.from, s, c.egen)  BY <1>1, <2>1, <2>3 DEF IsVote2
    <3>2. \A x \in c.votes \ {s} : \E n \in msgs : IsVote2(n, x, s, c.egen)
      BY <3>1, <2>2, <2>3 DEF Tallied
    <3> QED  BY <3>2, <2>2, <2>3 DEF Tallied
  <2>6. q \in Region /\ Same(q, c) /\ q.master = c.master  BY <2>3, ElectMasterIs
  <2> HIDE DEF q
  <2>7. /\ rep' \in [Site -> Region] /\ rep'[s] = q
        /\ \A x \in Site \ {s} : rep'[x] = rep[x]
    BY <2>1, <2>6, SetRepIs
  <2>8. Sound(s, q, disk'[s].egen) /\ Tallied(s, q, msgs')
    BY <1>1, <2>4, <2>5, <2>6, SoundSame DEF Same
  <2>9. /\ q.egen = rep[s].egen /\ q.phase = rep[s].phase /\ q.spent = rep[s].spent
        /\ q.casting = rep[s].casting /\ q.winner = rep[s].winner
        /\ c.egen = rep[s].egen /\ c.winner = rep[s].winner
        /\ c.votes = rep[s].votes \cup {m.from}
    BY <1>4, <2>3, <2>6 DEF Same, Alike
  <2>10. Later(s)  BY <1>1, <1>2, <2>7, <2>9 DEF Later
  <2>11. s \in c.votes => (rep[s].winner.site = s /\ rep[s].phase = "phase2")
    BY <1>3, <2>9, KeptPhase
  <2>12. \A w \in won' \ won : /\ w = <<rep[s].egen, s>> /\ rep[s].winner.site = s
                               /\ \E V \in SUBSET Site : WinsBy(s, V)
    <3>1. CASE IHaveWon(c, s)
      <4>1. \A w \in won' \ won : w = <<c.egen, s>>  BY <2>1 DEF Won
      <4>2. c.winner.site = s  BY <3>1 DEF IHaveWon
      <4>3. s \in c.votes => (rep'[s].egen = rep[s].egen /\ rep'[s].phase = "phase2")
        BY <2>7, <2>9, <2>11
      <4>4. \E V \in SUBSET Site : WinsBy(s, V)
        BY <3>1, <1>1, <1>2, <2>3, <2>5, <2>9, <2>11, <4>3, WonBy
      <4> QED  BY <4>1, <4>2, <4>4, <2>9
    <3>2. CASE ~IHaveWon(c, s)  BY <3>2, <2>1 DEF Won
    <3> QED  BY <3>1, <3>2
  <2>13. ASSUME NEW e \in q.casting  PROVE Late(s, e)'
    <3>1. e \in rep[s].casting /\ rep'[s].winner = rep[s].winner  BY <2>7, <2>9
    <3>2. <<e, s>> \in won' => (<<e, s>> \in won \/ rep'[s].winner.site = s)
      BY <2>12, <3>1
    <3> QED  BY <1>1, <1>2, <2>6, <2>7, <2>10, <3>1, <3>2, LateKept
  <2>14. won \subseteq won'  BY <2>1 DEF Won
  <2>15. StepOf(s)
    BY <1>1, <1>2, <2>7, <2>8, <2>10, <2>12, <2>13, <2>14 DEF StepOf
  <2>16. won' \subseteq Nat \X Site
    BY <2>1, <2>9, <1>2 DEF Won, Shape
  <2>17. Shape'  BY <1>1, <2>7, <2>16 DEF Shape
  <2>18. Loyal(s)  BY <1>2, <1>4, <2>3, <2>6, <2>7 DEF Loyal, Same, Alike
  <2> QED  BY <2>15, <2>17, <2>18
<1> QED  BY <1>5, <1>6

LEMMA Vote1Step ==
  ASSUME NEW s \in Site, NEW m \in msgs, m.type = "vote1", Client(s),
         Shape, Voting, Vote1(s, m)
  PROVE  StepOf(s) /\ Shape' /\ Loyal(s)
<1> DEFINE r == SetGen(rep[s], m)
           d == ElectDone(r)
           e == IF m.egen > r.egen THEN [d EXCEPT !.egen = m.egen] ELSE r
           t == IF e.phase = "none" THEN [e EXCEPT !.phase = "tally"] ELSE e
           c == IF t.phase = "phase2" \/ m.from \in t.sites THEN t ELSE CountSite(t, m.vote)
           done == c # t /\ c.phase = "phase1" /\ AllSites(c)
           p == IF done THEN ToPhase2(c, s) ELSE c
           z == IF done THEN ElectMaster(p, s) ELSE p
           a == [type |-> "alive", from |-> s, to |-> m.from, gen |-> r.gen, egen |-> r.egen]
           u == IF done THEN Vote2Msg(c, s, c.egen) ELSE {}
<1>1. /\ m.from # s /\ UNCHANGED <<disk, data, grants, lease>>
      /\ \/ m.egen < r.egen /\ SetRep(s, r) /\ Send({a}) /\ won' = won
         \/ /\ ~(m.egen < r.egen) /\ SetRep(s, z) /\ Send(u)
            /\ won' = (IF done THEN Won(p, s) ELSE won)
  BY DEF Vote1
<1>2. /\ rep[s] \in Region /\ rep[s].egen \in Nat /\ Up(s) /\ rep[s].role = "client"
      /\ disk[s].egen \in Nat
      /\ Sound(s, rep[s], disk[s].egen) /\ Tallied(s, rep[s], msgs)
  BY EgenTypes DEF Client, Up, Voting, Regions
<1>3. m.gen \in Nat /\ m.egen \in Nat /\ m.from \in Site /\ m.vote \in Candidate
  BY VoteTypes
<1>4. /\ r \in Region /\ Same(r, rep[s]) /\ r.egen \in Nat /\ r.gen \in Nat
      /\ r.master \in {rep[s].master, NoSite}
  BY <1>2, <1>3, SetGenIs DEF Region
<1>5. Heard(msgs) /\ m.vote.site = m.from  BY MsgsHeard DEF Voting, Vote1Inv
<1>6. CASE m.egen < r.egen
  <2>1. SetRep(s, r) /\ Send({a}) /\ won' = won  BY <1>1, <1>6
  <2>2. a \in Alives /\ a.type = "alive"  BY <1>3, <1>4 DEF Alives
  <2> HIDE DEF r, a
  <2>3. /\ msgs' = msgs \cup {a} /\ \A x, y \in msgs' \ msgs : x = y
        /\ \A x \in msgs' \ msgs : x.type \notin {"vote1", "vote2"}
    BY <2>1, <2>2 DEF Send
  <2>4. StepOf(s)  BY <1>1, <1>4, <2>1, <2>3, SameStep DEF Same
  <2>5. msgs' \subseteq Message  BY <2>2, <2>3 DEF Shape, Message
  <2>6. Shape'  BY <1>1, <1>4, <2>1, <2>5, SetRepIs DEF Shape, Message
  <2>7. Loyal(s)  BY <1>2, <1>4, <2>1, SetRepIs DEF Loyal, Same, Alike
  <2> QED  BY <2>4, <2>6, <2>7
<1>7. CASE ~(m.egen < r.egen)
  <2>1. /\ SetRep(s, z) /\ Send(u)
        /\ won' = (IF done THEN Won(p, s) ELSE won)
    BY <1>1, <1>7
  <2>2. /\ d \in Region /\ d.phase = "none" /\ d.sites = {} /\ d.votes = {}
        /\ d.casting = r.casting /\ (r.casting # {} => d.winner = r.winner)
        /\ d.role = r.role /\ d.spent = r.spent /\ d.gen = r.gen /\ d.master = r.master
    BY <1>4, DoneIs
  <2>3. Sound(s, r, disk[s].egen) /\ Tallied(s, r, msgs)
    BY <1>2, <1>4, SoundSame DEF Same
  (* What the region keeps from before: everything, or the election is new. *)
  <2> DEFINE Fits(x) == /\ x \in Region /\ x.egen = m.egen /\ x.role = "client"
                        /\ x.gen = r.gen /\ x.master = r.master
                        /\ x.casting = r.casting
                        /\ \/ /\ m.egen > r.egen
                              /\ x.sites = {} /\ x.votes = {}
                              /\ x.casting # {} => x.winner = r.winner
                           \/ /\ m.egen = r.egen /\ x.spent = r.spent
                              /\ x.sites = r.sites /\ x.votes = r.votes
                              /\ x.winner = r.winner
  <2>4. Fits(e) /\ e.phase = (IF m.egen > r.egen THEN "none" ELSE r.phase)
    <3>1. CASE m.egen > r.egen
      <4> DEFINE w == [d EXCEPT !.egen = m.egen]
      <4>1. e = w  BY <3>1
      <4> HIDE DEF d, e
      <4>2. /\ w \in Region /\ w.egen = m.egen /\ w.role = d.role /\ w.sites = d.sites
            /\ w.votes = d.votes /\ w.winner = d.winner /\ w.phase = d.phase /\ w.gen = d.gen
            /\ w.master = d.master /\ w.casting = d.casting
        BY <2>2, <1>3 DEF Region
      <4> QED  BY <4>1, <4>2, <3>1, <2>2, <1>2, <1>4 DEF Same, Alike
    <3>2. CASE ~(m.egen > r.egen)
      <4>1. e = r /\ m.egen = r.egen  BY <3>2, <1>3, <1>4, <1>7
      <4> HIDE DEF e
      <4> QED  BY <4>1, <3>2, <1>2, <1>4 DEF Same, Alike
    <3> QED  BY <3>1, <3>2
  <2> HIDE DEF e
  <2>5. Fits(t) /\ t.phase = (IF e.phase = "none" THEN "tally" ELSE e.phase)
    <3> DEFINE w == [e EXCEPT !.phase = "tally"]
    <3>1. t = (IF e.phase = "none" THEN w ELSE e)  OBVIOUS
    <3>2. /\ w \in Region /\ w.egen = e.egen /\ w.role = e.role /\ w.sites = e.sites
          /\ w.votes = e.votes /\ w.winner = e.winner /\ w.phase = "tally"
          /\ w.spent = e.spent /\ w.gen = e.gen /\ w.master = e.master
          /\ w.casting = e.casting
      BY <2>4 DEF Region
    <3> HIDE DEF w, t
    <3> QED  BY <3>1, <3>2, <2>4
  <2> HIDE DEF t, r, d
  <2>6. t.phase # "none" /\ m.egen = t.egen  BY <2>4, <2>5
  <2>7. /\ Sound(s, t, disk[s].egen) /\ Tallied(s, t, msgs)
    <3>1. CASE m.egen > r.egen
      <4>1. /\ t.phase = "tally" /\ t.sites = {} /\ t.votes = {}
            /\ t.casting = r.casting /\ t.role = "client" /\ t.egen = m.egen
        BY <3>1, <2>4, <2>5, <1>3, <1>4
      <4>2. disk[s].egen <= m.egen
        BY <3>1, <2>3, <1>2, <1>3, <1>4 DEF Sound, Same, Alike, InElection
      <4>3. \A x \in t.casting : x < disk[s].egen /\ x # m.egen
        <5>1. r.casting \subseteq Nat /\ \A x \in r.casting : x < disk[s].egen
          BY <2>3, <1>4 DEF Sound, Region
        <5> QED  BY <5>1, <4>1, <4>2, <1>2, <1>3
      <4>4. Sound(s, t, disk[s].egen)  BY <4>1, <4>2, <4>3, <1>2, <1>3 DEF Sound
      <4> QED  BY <4>1, <4>4 DEF Tallied
    <3>2. CASE ~(m.egen > r.egen)
      <4>1. /\ t.egen = r.egen /\ t.spent = r.spent /\ t.sites = r.sites
            /\ t.votes = r.votes /\ t.winner = r.winner /\ t.role = r.role
            /\ t.casting = r.casting
            /\ t.phase = (IF r.phase = "none" THEN "tally" ELSE r.phase)
        BY <3>2, <2>4, <2>5, <1>2, <1>3, <1>4, <1>7 DEF Same, Alike
      <4>2. Tallied(s, t, msgs)  BY <4>1, <2>3 DEF Tallied
      <4>3. t.role = "client" /\ t.phase # "none"  BY <2>5, <2>6
      <4>4. (InElection(t) <=> InElection(r)) /\ (AllSites(t) <=> AllSites(r))
        BY <4>1 DEF InElection, AllSites
      <4>5. r.role # "down" /\ r.role = "client"  BY <4>1, <4>3
      <4>6. Sound(s, t, disk[s].egen)
        BY <4>1, <4>3, <4>4, <4>5, <2>3 DEF Sound
      <4> QED  BY <4>2, <4>6
    <3> QED  BY <3>1, <3>2
  <2>8. m.vote.site \in Site  BY <1>3, <1>5
  <2>9. /\ Sound(s, c, disk[s].egen) /\ Tallied(s, c, msgs)
    <3>1. CASE c = t  BY <3>1, <2>7
    <3>2. CASE c # t
      <4>1. c = CountSite(t, m.vote) /\ t.phase # "phase2"  BY <3>2
      <4> HIDE DEF c
      <4>2. Sound(s, CountSite(t, m.vote), disk[s].egen)
        BY <4>1, <2>5, <2>6, <2>7, <2>8, <1>3, CountSiteSound
      <4>3. Tallied(s, CountSite(t, m.vote), msgs)
        BY <2>5, <2>6, <2>7, <1>5, CountSiteTallied
      <4> QED  BY <4>1, <4>2, <4>3
    <3> QED  BY <3>1, <3>2
  <2>10. /\ c \in Region /\ c.egen = m.egen /\ c.role = "client" /\ c.phase = t.phase
         /\ c.votes = t.votes /\ c.spent = t.spent /\ c.gen = r.gen /\ c.master = r.master
         /\ c.casting = r.casting
         /\ c.winner = t.winner \/ c.winner = m.vote
         /\ c # t => (t.phase # "phase2" /\ m.from \notin t.sites)
    <3>1. CASE c = t  BY <3>1, <2>5
    <3>2. CASE c # t
      <4>1. c = CountSite(t, m.vote) /\ t.phase # "phase2" /\ m.from \notin t.sites
        BY <3>2
      <4> HIDE DEF c
      <4> QED  BY <4>1, <2>5, <2>8, <1>3, CountSiteIs
    <3> QED  BY <3>1, <3>2
  <2> HIDE DEF c
  (* Phase 1 is this site's own, so the egen has not changed in it. *)
  <2>11. /\ c.phase \in {"phase1", "phase2"} =>
              (c.phase = rep[s].phase /\ c.egen = rep[s].egen)
         /\ rep[s].egen <= c.egen
         /\ c.egen = rep[s].egen =>
              /\ c.votes = rep[s].votes /\ c.spent = rep[s].spent
              /\ rep[s].phase = "phase2" => c.phase = "phase2"
              /\ c.phase = "phase2" => c.winner = rep[s].winner
         /\ c.egen # rep[s].egen => c.votes = {}
         /\ c.casting = rep[s].casting
    BY <2>4, <2>5, <2>10, <1>2, <1>3, <1>4, <1>7 DEF Same, Alike
  (* A site heard of now is beyond the egen of any thread that is late, for *)
  (* such a thread had every VOTE1 of its egen.                             *)
  <2>12. ASSUME NEW x \in rep[s].casting
         PROVE  /\ x < c.egen \/ c = t
                /\ \/ c.winner = rep[s].winner
                   \/ c.winner.site \in Site /\ Beyond(c.winner.site, x)
    <3>1. /\ x \in Nat /\ x < disk[s].egen /\ x <= rep[s].egen
          /\ x = rep[s].egen => AllSites(rep[s])
      BY <1>2 DEF Sound, Up, Region
    <3>2. t.winner = rep[s].winner
      BY <2>5, <1>3, <1>4 DEF Same, Alike
    <3>3. CASE c = t  BY <3>2, <3>3
    <3>4. CASE c # t
      <4>1. x < m.egen
        <5> SUFFICES ASSUME ~(x < m.egen)  PROVE FALSE  OBVIOUS
        <5>1. x = rep[s].egen /\ m.egen = r.egen
          BY <3>1, <1>2, <1>3, <1>4, <1>7 DEF Same, Alike
        <5>2. rep[s].sites = Site  BY <5>1, <3>1, <1>2, AllHeard
        <5>3. t.sites = Site  BY <5>1, <5>2, <2>5, <1>3, <1>4 DEF Same, Alike
        <5> QED  BY <5>3, <3>4, <2>10, <1>3
      <4>2. Called(m.from, m.egen)  BY DEF Voting, Vote1Inv
      <4>3. rep[m.from].egen \in Nat /\ disk[m.from].egen \in Nat  BY <1>3, EgenTypes
      <4>4. Beyond(m.from, x)  BY <4>1, <4>2, <4>3, <3>1, <1>3 DEF Called, Beyond
      <4> QED  BY <4>1, <4>4, <3>2, <2>10, <1>3, <1>5
    <3> QED  BY <3>3, <3>4
  <2>13. CASE ~done
    <3>1. SetRep(s, c) /\ msgs' = msgs /\ won' = won
      BY <2>1, <2>13 DEF Send
    <3>2. /\ rep' \in [Site -> Region] /\ rep'[s] = c
          /\ \A x \in Site \ {s} : rep'[x] = rep[x]
      BY <3>1, <2>10, SetRepIs
    <3>3. Later(s)
      <4>1. c.egen > rep[s].egen \/ c.egen = rep[s].egen  BY <2>10, <2>11, <1>2, <1>3
      <4> QED  BY <4>1, <3>2, <2>11, <1>1, <1>2 DEF Later
    <3>4. ASSUME NEW x \in rep'[s].casting  PROVE Late(s, x)'
      <4>1. x \in rep[s].casting  BY <3>2, <2>11
      <4>2. disk'[s].egen \in Nat /\ rep'[s] \in Region  BY <1>1, <1>2, <2>10, <3>2
      <4> QED  BY <4>1, <4>2, <3>1, <3>2, <3>3, <2>12, <1>1, <1>2, LateKept
    <3>5. StepOf(s)  BY <1>1, <1>2, <2>9, <3>1, <3>2, <3>3, <3>4 DEF StepOf
    <3>6. Shape'  BY <1>1, <3>1, <3>2 DEF Shape
    <3>7. Loyal(s)  BY <1>4, <2>10, <3>2 DEF Loyal
    <3> QED  BY <3>5, <3>6, <3>7
  <2>14. CASE done
    <3> DEFINE U == Vote2Msg(c, s, c.egen)
    <3>1. /\ c.phase = "phase1" /\ p = ToPhase2(c, s) /\ z = ElectMaster(p, s)
          /\ u = U /\ won' = Won(p, s) /\ c # t
      BY <2>1, <2>14
    <3> HIDE DEF done, z, p, u
    <3>2. /\ p \in Region /\ p.phase = "phase2" /\ p.casting = c.casting
          /\ p.winner = c.winner
          /\ p.egen = c.egen /\ p.spent = c.spent /\ p.role = c.role /\ p.master = c.master
      BY <3>1, <2>10, ToPhase2Is
    <3>3. z \in Region /\ Same(z, p) /\ z.master = p.master  BY <3>1, <3>2, ElectMasterIs
    <3>4. c.spent = c.egen /\ s \in c.sites /\ disk[s].egen = c.egen + 1
      BY <3>1, <2>9 DEF Sound
    <3>5. /\ Sound(s, p, disk[s].egen) /\ Tallied(s, p, msgs)
          /\ c.winner.site \in Site
          /\ \E w \in msgs : /\ IsVote1(w, c.winner.site, c.egen)
                             /\ \E v \in msgs : IsVote1(v, s, c.egen) /\ ~Behind(w.vote, v.vote)
      BY <3>1, <3>4, <2>9, <2>10, <1>5, PhaseEnds DEF InElection
    <3>6. /\ rep' \in [Site -> Region] /\ rep'[s] = z
          /\ \A x \in Site \ {s} : rep'[x] = rep[x]
      BY <2>1, <3>3, SetRepIs
    <3>7. rep[s].phase = "phase1" /\ c.egen = rep[s].egen  BY <3>1, <2>11
    <3>8. /\ z.egen = c.egen /\ z.phase = "phase2" /\ z.spent = c.spent
          /\ z.casting = rep[s].casting /\ z.winner = c.winner /\ z.role = c.role
      BY <3>2, <3>3, <2>11 DEF Same, Alike
    <3>9. Later(s)  BY <3>4, <3>6, <3>7, <3>8, <2>11, <1>1, <1>2 DEF Later
    <3>10. msgs' = msgs \cup U  BY <2>1, <3>1 DEF Send
    <3>11. ASSUME NEW n \in U
           PROVE  n \in Votes2 /\ n.type = "vote2" /\ \A k \in U : k = n
      BY <3>5, <2>10, <1>3, Vote2MsgIs
    <3>12. ASSUME NEW n \in U  PROVE NewVote2(s, n) /\ n.egen = rep[s].egen
      BY <1>1, <1>2, <2>10, <3>1, <3>4, <3>5, <3>6, <3>7, <3>8, <3>10, PhaseVote2
    <3>13. c.winner.site = s => U = {}  BY DEF Vote2Msg
    <3> HIDE DEF U
    <3>14. Sound(s, z, disk'[s].egen) /\ Tallied(s, z, msgs')
      <4>1. Tallied(s, p, msgs')  BY <3>5, <3>10 DEF Tallied
      <4> QED  BY <4>1, <3>3, <3>5, <1>1, SoundSame DEF Same
    <3>15. \A w \in won' \ won : /\ w = <<rep[s].egen, s>> /\ Up(s)
                                 /\ \E V \in SUBSET Site : WinsBy(s, V)
      <4>1. CASE IHaveWon(p, s)
        <5>1. \A w \in won' \ won : w = <<p.egen, s>>  BY <3>1 DEF Won
        <5>2. \A n \in msgs' \ msgs : n.type # "vote2"
          BY <4>1, <3>2, <3>10, <3>13 DEF IHaveWon
        <5>3. p.egen = rep[s].egen /\ rep'[s].egen = rep[s].egen /\ rep'[s].phase = "phase2"
          BY <3>2, <3>6, <3>7, <3>8
        <5>4. \E V \in SUBSET Site : WinsBy(s, V)
          BY <4>1, <5>2, <5>3, <3>2, <3>5, <3>7, <1>2, WonBy
        <5> QED  BY <5>1, <5>3, <5>4, <1>2
      <4>2. CASE ~IHaveWon(p, s)  BY <4>2, <3>1 DEF Won
      <4> QED  BY <4>1, <4>2
    <3>16. ASSUME NEW x \in rep'[s].casting  PROVE Late(s, x)'
      <4>1. x \in rep[s].casting /\ x < rep[s].egen
        BY <3>1, <3>6, <3>7, <3>8, <2>12
      <4>2. disk'[s].egen \in Nat /\ rep'[s] \in Region /\ x \in Nat
        BY <4>1, <1>1, <1>2, <3>3, <3>6 DEF Region
      <4>3. \A n \in msgs' \ msgs : n.egen # x
        BY <4>1, <4>2, <3>10, <3>12, <1>2
      <4>4. <<x, s>> \in won' => <<x, s>> \in won  BY <4>1, <4>2, <3>15, <1>2
      <4>5. \/ rep'[s].winner = rep[s].winner
            \/ rep'[s].winner.site \in Site /\ Beyond(rep'[s].winner.site, x)
        BY <4>1, <2>12, <3>6, <3>8
      <4> QED
        BY <4>1, <4>2, <4>3, <4>4, <4>5, <3>6, <3>9, <3>10, <1>1, <1>2, LateKept
    <3>17. StepOf(s)
      <4>1. /\ \A x, y \in msgs' \ msgs : x.type = y.type => x = y
            /\ \A x \in msgs' \ msgs : x.type = "vote1" => NewVote1(s, x)
            /\ \A x \in msgs' \ msgs : x.type = "vote2" => NewVote2(s, x)
        BY <3>10, <3>11, <3>12
      <4>2. won \subseteq won' /\ msgs \subseteq msgs'  BY <3>1, <3>10 DEF Won
      <4> QED  BY <1>1, <3>6, <3>9, <3>14, <3>15, <3>16, <4>1, <4>2 DEF StepOf
    <3>19. won' \subseteq Nat \X Site
      BY <3>1, <3>2, <2>10, <1>3 DEF Won, Shape
    <3>20. msgs' \subseteq Message  BY <3>10, <3>11 DEF Shape, Message
    <3>21. Shape'  BY <1>1, <3>6, <3>19, <3>20 DEF Shape, Message
    <3>22. Loyal(s)  BY <1>4, <2>10, <3>2, <3>3, <3>6, <3>8 DEF Loyal
    <3> QED  BY <3>17, <3>21, <3>22
  <2> QED  BY <2>13, <2>14
<1> QED  BY <1>6, <1>7

(***************************************************************************)
(* The leases                                                               *)
(***************************************************************************)

LEMMA LeasesKept ==
  ASSUME NEW s \in Site, Shape, Shape', Leases, StepOf(s), UNCHANGED <<grants, lease>>,
         rep'[s].role = "master" => Master(s), Loyal(s) \/ s \notin grants
  PROVE  Leases'
<1>1. \A x \in Site \ {s} : rep'[x] = rep[x]  BY DEF StepOf
<1>2. \A t \in Site : lease'[t] \subseteq grants'  BY DEF Leases
<1>3. ASSUME NEW t \in Site, Master(t)'  PROVE t \notin grants'
  <2>1. Master(t)  BY <1>1, <1>3 DEF Master
  <2> QED  BY <2>1 DEF Leases
<1>4. ASSUME NEW t \in Site, NEW c \in lease'[t]  PROVE rep'[c].master \in {t, NoSite}
  <2>1. c \in Site /\ c \in lease[t]  BY DEF Shape
  <2>2. rep[c].master \in {t, NoSite} /\ c \in grants  BY <2>1 DEF Leases
  <2>3. CASE c = s  BY <2>2, <2>3 DEF Loyal
  <2>4. CASE c # s  BY <1>1, <2>1, <2>2, <2>4
  <2> QED  BY <2>3, <2>4
<1>5. \A t, u \in Site : lease'[t] \cap lease'[u] # {} => t = u  BY DEF Leases
<1> QED  BY <1>2, <1>3, <1>4, <1>5 DEF Leases

LEMMA ClaimLeases ==
  ASSUME NEW s \in Site, Shape, Shape', Leases, StepOf(s), Claim(s)
  PROVE  Leases'
<1>1. /\ s \notin grants /\ grants' = grants /\ lease' = [lease EXCEPT ![s] = {}]
      /\ \A x \in Site \ {s} : rep'[x] = rep[x]
  BY DEF Claim, StepOf
<1>2. lease'[s] = {} /\ \A t \in Site \ {s} : lease'[t] = lease[t]
  BY <1>1 DEF Shape
<1>3. \A t \in Site : lease'[t] \subseteq lease[t]  BY <1>2
<1>4. \A t \in Site : lease'[t] \subseteq grants'  BY <1>1, <1>3 DEF Leases
<1>5. \A t \in Site : Master(t)' => t \notin grants'  BY <1>1 DEF Leases, Master
<1>6. ASSUME NEW t \in Site, NEW c \in lease'[t]  PROVE rep'[c].master \in {t, NoSite}
  <2>1. c \in lease[t] /\ c \in Site  BY <1>3 DEF Shape
  <2>2. rep[c].master \in {t, NoSite} /\ c \in grants  BY <2>1 DEF Leases
  <2> QED  BY <1>1, <2>1, <2>2
<1>7. \A t, u \in Site : lease'[t] \cap lease'[u] # {} => t = u  BY <1>3 DEF Leases
<1> QED  BY <1>4, <1>5, <1>6, <1>7 DEF Leases

LEMMA RestartLeases ==
  ASSUME NEW s \in Site, Shape, Shape', Leases, StepOf(s), Restart(s)
  PROVE  Leases'
<1>1. /\ SetRep(s, Fresh(disk[s].gen, disk[s].egen)) /\ grants' = grants
      /\ lease' = [lease EXCEPT ![s] = {}] /\ \A x \in Site \ {s} : rep'[x] = rep[x]
  BY DEF Restart, StepOf
<1>2. rep'[s].role = "client" /\ rep'[s].master = NoSite
  BY <1>1, EgenTypes, FreshIs, SetRepIs
<1>3. \A t \in Site : lease'[t] \subseteq lease[t]  BY <1>1 DEF Shape
<1>4. \A t \in Site : lease'[t] \subseteq grants'  BY <1>1, <1>3 DEF Leases
<1>5. \A t \in Site : Master(t)' => t \notin grants'  BY <1>1, <1>2 DEF Leases, Master
<1>6. ASSUME NEW t \in Site, NEW c \in lease'[t]  PROVE rep'[c].master \in {t, NoSite}
  <2>1. c \in lease[t] /\ c \in Site  BY <1>3 DEF Shape
  <2>2. rep[c].master \in {t, NoSite}  BY <2>1 DEF Leases
  <2> QED  BY <1>1, <1>2, <2>1, <2>2
<1>7. \A t, u \in Site : lease'[t] \cap lease'[u] # {} => t = u  BY <1>3 DEF Leases
<1> QED  BY <1>4, <1>5, <1>6, <1>7 DEF Leases

LEMMA ExpiresLeases ==
  ASSUME NEW s \in Site, Shape, Leases, GrantExpires(s)
  PROVE  Leases' /\ (Voting => StepOf(s)) /\ Shape'
<1>1. /\ rep' = rep /\ grants' = grants \ {s} /\ lease' = [t \in Site |-> lease[t] \ {s}]
      /\ UNCHANGED <<disk, data, msgs, won>>
  BY DEF GrantExpires
<1>2. \A t \in Site : lease'[t] = lease[t] \ {s}  BY <1>1
<1>3. \A t \in Site : lease'[t] \subseteq grants'  BY <1>1, <1>2 DEF Leases
<1>4. \A t \in Site : Master(t)' => t \notin grants'  BY <1>1 DEF Leases, Master
<1>5. \A t \in Site : \A c \in lease'[t] : rep'[c].master \in {t, NoSite}
  BY <1>1, <1>2 DEF Leases
<1>6. \A t, u \in Site : lease'[t] \cap lease'[u] # {} => t = u  BY <1>2 DEF Leases
<1>7. Leases'  BY <1>3, <1>4, <1>5, <1>6 DEF Leases
<1>8. Voting => StepOf(s)  BY <1>1, LeaseStep
<1>9. Shape'  BY <1>1 DEF Shape
<1> QED  BY <1>7, <1>8, <1>9

LEMMA GrantLeases ==
  ASSUME NEW c \in Site, NEW t \in Site, Client(c), Shape, Leases, Grant(c, t)
  PROVE  Leases' /\ (Voting => StepOf(c)) /\ Shape'
<1>1. /\ rep[c].master = t /\ rep' = rep /\ grants' = grants \cup {c}
      /\ UNCHANGED <<disk, data, msgs, won>>
      /\ lease' = lease \/ lease' = [lease EXCEPT ![t] = lease[t] \cup {c}]
  BY DEF Grant, Follows
<1>2. /\ \A x \in Site : lease'[x] \subseteq lease[x] \cup {c}
      /\ \A x \in Site \ {t} : lease'[x] = lease[x]
      /\ lease' \in [Site -> SUBSET Site]
  <2>1. lease \in [Site -> SUBSET Site]  BY DEF Shape
  <2>2. CASE lease' = lease  BY <2>1, <2>2
  <2>3. CASE lease' = [lease EXCEPT ![t] = lease[t] \cup {c}]
    <3>1. /\ lease'[t] = lease[t] \cup {c} /\ lease' \in [Site -> SUBSET Site]
          /\ \A x \in Site \ {t} : lease'[x] = lease[x]
      BY <2>1, <2>3
    <3> QED  BY <3>1
  <2> QED  BY <1>1, <2>2, <2>3
<1>3. \A x \in Site : lease'[x] \subseteq grants'  BY <1>1, <1>2 DEF Leases
<1>4. \A x \in Site : Master(x)' => x \notin grants'  BY <1>1 DEF Leases, Master, Client
(* Whoever else held a lease of this site would be its master, or have none. *)
<1>5. \A x \in Site : c \in lease[x] => x = t
  BY <1>1, ConstFacts DEF Leases
<1>6. ASSUME NEW x \in Site, NEW d \in lease'[x]  PROVE rep'[d].master \in {x, NoSite}
  <2>1. CASE d \in lease[x]  BY <1>1, <2>1 DEF Leases
  <2>2. CASE d \notin lease[x]
    <3>1. d = c /\ x = t  BY <1>2, <2>2
    <3> QED  BY <3>1, <1>1
  <2> QED  BY <2>1, <2>2
<1>7. ASSUME NEW x \in Site, NEW u \in Site, NEW d \in lease'[x] \cap lease'[u]
      PROVE  x = u
  <2>1. CASE d = c
    <3>1. \A y \in Site : c \in lease'[y] => y = t  BY <1>2, <1>5
    <3> QED  BY <2>1, <3>1
  <2>2. CASE d # c
    <3>1. d \in lease[x] /\ d \in lease[u]  BY <1>2, <2>2
    <3> QED  BY <3>1 DEF Leases
  <2> QED  BY <2>1, <2>2
<1>8. Leases'  BY <1>3, <1>4, <1>6, <1>7 DEF Leases
<1>9. Voting => StepOf(c)  BY <1>1, LeaseStep
<1>10. Shape'  BY <1>1, <1>2 DEF Shape
<1> QED  BY <1>8, <1>9, <1>10

(***************************************************************************)
(* The invariant                                                            *)
(***************************************************************************)

LEMMA InitIInv == Init => IInv
<1> SUFFICES ASSUME Init PROVE IInv  OBVIOUS
<1> DEFINE f(s) == [Fresh(3, 4) EXCEPT !.role = IF s = FirstMaster THEN "master" ELSE "client",
                                       !.master = FirstMaster,
                                       !.synced = FirstData[s] = FirstData[FirstMaster]]
<1>1. /\ rep = [s \in Site |-> f(s)]
      /\ disk = [s \in Site |-> [gen |-> 3, egen |-> IF s = FormerMaster THEN 1 ELSE 3]]
      /\ data = FirstData /\ msgs = {[type |-> "newmaster", from |-> FirstMaster, gen |-> 3]}
      /\ grants = {} /\ lease = [s \in Site |-> {}] /\ won = {}
  BY DEF Init
<1>2. ASSUME NEW s \in Site
      PROVE  /\ f(s) \in Region /\ f(s).phase = "none" /\ f(s).sites = {} /\ f(s).votes = {}
             /\ f(s).casting = {} /\ f(s).egen = 4
  <2> DEFINE b == Fresh(3, 4)
             o == IF s = FirstMaster THEN "master" ELSE "client"
             y == (FirstData[s] = FirstData[FirstMaster])
  <2>1. /\ b \in Region /\ b.phase = "none" /\ b.sites = {} /\ b.votes = {}
        /\ b.casting = {} /\ b.egen = 4
    BY FreshIs
  <2>2. o \in {"master", "client"} /\ y \in BOOLEAN  OBVIOUS
  <2>3. f(s) = [b EXCEPT !.role = o, !.master = FirstMaster, !.synced = y]
    OBVIOUS
  <2> HIDE DEF b, o, y, f
  <2> QED  BY <2>1, <2>2, <2>3, FirstAssumption DEF Region
<1> HIDE DEF f
<1>3. Shape
  <2>1. rep \in [Site -> Region] /\ disk \in [Site -> [gen : Nat, egen : Nat]]
    BY <1>1, <1>2
  <2>2. data \in [Site -> [datagen : Nat, lsn : Nat]]
    BY <1>1, FirstAssumption
  <2>3. msgs \subseteq Masterships  BY <1>1, FirstAssumption DEF Masterships
  <2> QED  BY <1>1, <2>1, <2>2, <2>3 DEF Shape
<1>4. \A m \in msgs : m.type = "newmaster"  BY <1>1
<1>5. ASSUME NEW s \in Site
      PROVE  /\ rep[s] = f(s) /\ disk[s].egen <= 3 /\ disk[s].egen \in Nat
             /\ lease[s] = {}
  BY <1>1
<1>6. Regions
  <2> SUFFICES ASSUME NEW s \in Site
               PROVE  Sound(s, rep[s], disk[s].egen) /\ Tallied(s, rep[s], msgs)
    BY DEF Regions
  <2>1. disk[s].egen <= rep[s].egen  BY <1>2, <1>5
  <2> QED  BY <1>2, <1>5, <2>1 DEF Sound, Tallied, InElection
<1>7. Lates  BY <1>2, <1>5 DEF Lates
<1>8. Vote1Inv /\ Vote1Once /\ Vote2Inv /\ Vote2Once
  BY <1>4 DEF Vote1Inv, Vote1Once, Vote2Inv, Vote2Once
<1>9. WonInv  BY <1>1 DEF WonInv
<1>10. Leases  BY <1>1, <1>5 DEF Leases
<1> QED  BY <1>3, <1>6, <1>7, <1>8, <1>9, <1>10 DEF IInv, Voting

LEMMA NextIInv == (IInv /\ [Next]_vars) => IInv'
<1> SUFFICES ASSUME IInv, [Next]_vars PROVE IInv'  OBVIOUS
<1> USE DEF IInv
<1>1. ASSUME NEW s \in Site, StepOf(s), Shape'  PROVE Voting'
  BY <1>1, StepVoting
<1>2. ASSUME NEW s \in Site, StepOf(s), Shape', Loyal(s), UNCHANGED <<grants, lease>>
      PROVE  IInv'
  <2>1. Leases'  BY <1>2, LeasesKept DEF Loyal
  <2> QED  BY <1>2, <2>1, <1>1
<1>3. ASSUME NEW s \in Site, Elect(s)  PROVE IInv'
  BY <1>3, <1>2, ElectStep DEF Elect
<1>4. ASSUME NEW s \in Site, CastVote(s)  PROVE IInv'
  BY <1>4, <1>2, CastVoteStep DEF CastVote
<1>5. ASSUME NEW s \in Site, CastLate(s)  PROVE IInv'
  <2>1. UNCHANGED <<grants, lease>>  BY <1>5 DEF CastLate
  <2> QED  BY <1>5, <2>1, <1>2, CastLateStep
<1>6. ASSUME NEW s \in Site, GiveUp(s)  PROVE IInv'
  BY <1>6, <1>2, GiveUpStep DEF GiveUp
<1>7. ASSUME NEW s \in Site, IWon(s)  PROVE IInv'
  BY <1>7, <1>2, IWonStep DEF IWon
<1>8. ASSUME NEW s \in Site, Claim(s)  PROVE IInv'
  BY <1>8, <1>1, ClaimStep, ClaimLeases
<1>9. ASSUME NEW s \in Site, ClaimRefused(s) \/ Crash(s)  PROVE IInv'
  <2>1. /\ SetRep(s, Down) /\ UNCHANGED <<data, msgs, grants, lease, won>>
        /\ disk' = disk \/ disk' = [disk EXCEPT ![s].gen = NewGen(rep[s])]
    BY <1>9 DEF ClaimRefused, Crash
  <2> QED  BY <2>1, <1>2, GoesDownStep
<1>10. ASSUME NEW s \in Site, GrantExpires(s)  PROVE IInv'
  BY <1>10, <1>1, ExpiresLeases
<1>11. ASSUME NEW s \in Site, Restart(s)  PROVE IInv'
  BY <1>11, <1>1, RestartStep, RestartLeases
<1>12. ASSUME NEW s \in Site, Client(s), NEW m \in msgs, m.type = "vote1", Vote1(s, m)
       PROVE  IInv'
  BY <1>12, <1>2, Vote1Step DEF Vote1
<1>13. ASSUME NEW s \in Site, Client(s), NEW m \in msgs, m.type = "vote2", Vote2(s, m)
       PROVE  IInv'
  BY <1>13, <1>2, Vote2Step DEF Vote2
<1>14. ASSUME NEW s \in Site, Client(s), NEW m \in msgs, m.type = "alive", Alive(s, m)
       PROVE  IInv'
  BY <1>14, <1>2, AliveStep DEF Alive
<1>15. ASSUME NEW s \in Site, Client(s), NEW m \in msgs, m.type = "newmaster", NewMaster(s, m)
       PROVE  IInv'
  <2>1. /\ StepOf(s) /\ Shape' /\ rep'[s].role = "client" /\ (Loyal(s) \/ s \notin grants)
        /\ UNCHANGED <<grants, lease>>
    BY <1>15, NewMasterStep DEF NewMaster
  <2>2. Leases'  BY <2>1, LeasesKept
  <2> QED  BY <2>1, <2>2, <1>1
<1>16. ASSUME NEW s \in Site, Master(s), NEW m \in msgs, StepDown(s, m)  PROVE IInv'
  BY <1>16, <1>2, StepDownStep DEF StepDown
<1>17. ASSUME NEW c \in Site, Client(c), NEW t \in Site, Sync(c, t)  PROVE IInv'
  BY <1>17, <1>2, SyncStep DEF Sync
<1>18. ASSUME NEW c \in Site, Client(c), NEW t \in Site, Grant(c, t)  PROVE IInv'
  BY <1>18, <1>1, GrantLeases
<1>19. CASE UNCHANGED vars
  <2>1. FirstMaster \in Site  BY FirstAssumption
  <2>2. UNCHANGED <<rep, disk, data, msgs, grants, lease, won>>  BY <1>19 DEF vars
  <2>3. Shape' /\ Leases'  BY <2>2 DEF Shape, Leases, Master
  <2>4. StepOf(FirstMaster)  BY <2>1, <2>2, LeaseStep
  <2> QED  BY <2>1, <2>3, <2>4, <1>1
<1>20. CASE Next
  BY <1>3, <1>4, <1>6, <1>7, <1>8, <1>9, <1>10, <1>11, <1>12, <1>13, <1>14, <1>15, <1>16,
     <1>17, <1>18, <1>20, <1>5 DEF Next, Sent, Clients, Masters
<1> QED  BY <1>19, <1>20

(* In every reachable state the election records agree with each other: a   *)
(* site votes once in an egen, over its crashes too, because the egen file  *)
(* is ahead of the vote; a tally counts votes that were sent; and a valid   *)
(* lease stands on a grant whose giver follows nobody else.                 *)
THEOREM Invariant == Spec => []IInv
BY InitIInv, NextIInv, PTL DEF Spec

(* An egen never has two winners, whatever messages are lost, duplicated or *)
(* late, and whichever sites crash and come back during the election.       *)
THEOREM OneWinnerAnEgen == Spec => []OneWinner
<1>1. IInv => OneWinner  BY VotingOneWinner DEF IInv
<1> QED  BY <1>1, Invariant, PTL

LEMMA IInvElectedIsBest == IInv => ElectedIsBest
<1> SUFFICES ASSUME IInv, NEW w \in won
             PROVE  \E mine \in VotesAt(w[1]) :
                      /\ mine.from = w[2]
                      /\ Cardinality({m.from : m \in {v \in VotesAt(w[1]) :
                                        ~Behind(mine.vote, v.vote)}}) >= nvotes
  BY DEF ElectedIsBest
<1> DEFINE e == w[1]
           t == w[2]
<1>1. e \in Nat /\ t \in Site  BY DEF IInv, Shape
<1>2. Majority(t, e)  BY DEF IInv, Voting, WonInv
<1> HIDE DEF e, t
<1>3. PICK mine \in msgs : IsVote1(mine, t, e)  BY <1>2 DEF Majority
<1>4. PICK Q \in SUBSET Site : Cardinality(Q) >= nvotes /\ \A x \in Q : Voted(x, t, e)
  BY <1>2 DEF Majority
<1> DEFINE B == {m.from : m \in {v \in VotesAt(e) : ~Behind(mine.vote, v.vote)}}
<1>5. B \subseteq Site  BY VoteTypes DEF IInv, VotesAt
<1>6. ASSUME NEW x \in Q  PROVE x \in B
  <2>1. CASE x = t
    <3>1. mine.vote \in Candidate  BY <1>3, VoteTypes DEF IInv, IsVote1
    <3>2. ~Behind(mine.vote, mine.vote)  BY <3>1 DEF Behind, Candidate
    <3> QED  BY <2>1, <3>2, <1>3 DEF VotesAt, IsVote1
  <2>2. CASE x # t
    <3>1. BestFor(x, t, e)  BY <2>2, <1>4 DEF Voted
    <3>2. PICK u \in msgs : IsVote1(u, t, e) /\ Backs(x, u.vote, e)  BY <3>1 DEF BestFor
    <3>3. u.vote = mine.vote
      BY <1>3, <3>2 DEF IInv, Voting, Vote1Once, IsVote1
    <3>4. PICK v \in msgs : IsVote1(v, x, e) /\ ~Behind(mine.vote, v.vote)
      BY <3>2, <3>3 DEF Backs
    <3> QED  BY <3>4 DEF VotesAt, IsVote1
  <2> QED  BY <2>1, <2>2
<1>7. Cardinality(B) >= nvotes
  <2>1. Q \subseteq B  BY <1>6
  <2>2. IsFiniteSet(B)  BY <1>5, SitesFinite
  <2> HIDE DEF B
  <2>3. Cardinality(Q) <= Cardinality(B)  BY <2>1, <2>2, FS_Subset
  <2> QED  BY <2>3, <1>4, <1>5, SitesFinite, ConstFacts
<1>8. mine \in VotesAt(e) /\ mine.from = t  BY <1>3 DEF VotesAt, IsVote1
<1> QED  BY <1>7, <1>8 DEF e, t

(* Whoever wins has votes of a majority whose logs are not ahead of its     *)
(* own, so the election loses nothing that a majority had.                  *)
THEOREM WinnerIsBest == Spec => []ElectedIsBest
BY Invariant, IInvElectedIsBest, PTL

LEMMA IInvLeaseExclusive ==
  ASSUME nsites % 2 = 1
  PROVE  IInv => LeaseExclusive
<1> SUFFICES ASSUME IInv, NEW s \in Masters, NEW t \in Masters,
                    LeaseCheck(s), LeaseCheck(t), s # t
             PROVE  FALSE
  BY DEF LeaseExclusive
<1>1. s \in Site /\ t \in Site /\ s \notin grants /\ t \notin grants
  BY DEF Masters, IInv, Leases
<1> DEFINE Q == lease[s] \cup {s}
           R == lease[t] \cup {t}
<1>2. /\ lease[s] \in SUBSET Site /\ lease[t] \in SUBSET Site
      /\ lease[s] \subseteq grants /\ lease[t] \subseteq grants
  BY <1>1 DEF IInv, Shape, Leases
<1>3. Cardinality(Q) = Cardinality(lease[s]) + 1 /\ Cardinality(R) = Cardinality(lease[t]) + 1
  BY <1>1, <1>2, SitesFinite, FS_AddElement
<1>4. Cardinality(lease[s]) \in Nat /\ Cardinality(lease[t]) \in Nat
  BY <1>2, SitesFinite
<1>5. (nsites - 1) \div 2 + (nsites - 1) \div 2 + 2 > nsites
  BY ConstFacts
<1>6. Cardinality(Q) + Cardinality(R) > nsites
  BY <1>3, <1>4, <1>5, ConstFacts DEF LeaseCheck
<1>7. Q \in SUBSET Site /\ R \in SUBSET Site  BY <1>1, <1>2
<1>8. PICK x \in Site : x \in Q /\ x \in R  BY <1>6, <1>7, QuorumsMeet
<1>9. x \in lease[s] \cap lease[t]  BY <1>1, <1>2, <1>8
<1> QED  BY <1>1, <1>9 DEF IInv, Leases

(* In a group of an odd number of sites two masters never hold valid leases *)
(* at once: the sites that granted them, with the masters themselves, are   *)
(* majorities.  In an even group (nsites - 1) \div 2 leases and the master  *)
(* are half of the sites, and the property does not hold.                   *)
THEOREM LeasesExclude ==
  ASSUME nsites % 2 = 1
  PROVE  Spec => []LeaseExclusive
<1>1. IInv => LeaseExclusive  BY IInvLeaseExclusive
<1> QED  BY <1>1, Invariant, PTL
=============================================================================
