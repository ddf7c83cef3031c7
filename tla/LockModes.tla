----------------------------- MODULE LockModes -----------------------------
(***************************************************************************)
(* Lock modes and the two conflict arrays the lock region is created with  *)
(* (lock/lock_region.c).  An array is given as the set of its <<held,      *)
(* wanted>> pairs that hold a 1.                                           *)
(*                                                                         *)
(*   N  not granted                                                       *)
(*   R  read            IW intent write     DR read uncommitted            *)
(*   W  write           IR intent read      WW was written                 *)
(*   WT wait            RIW intent to read and write                       *)
(***************************************************************************)

AllModes == {"N", "R", "W", "WT", "IW", "IR", "RIW", "DR", "WW"}

\* Transactional environments: read, intent, dirty-read and was-write locks.
RiwConflicts ==
    [h \in AllModes |->
        CASE h = "N"   -> {}
          [] h = "R"   -> {"W", "IW", "RIW", "WW"}
          [] h = "W"   -> {"R", "W", "WT", "IW", "IR", "RIW", "DR", "WW"}
          [] h = "WT"  -> {}
          [] h = "IW"  -> {"R", "W", "DR", "WW"}
          [] h = "IR"  -> {"W", "WW"}
          [] h = "RIW" -> {"R", "W", "DR", "WW"}
          [] h = "DR"  -> {"W", "IW", "RIW"}
          [] h = "WW"  -> {"R", "W", "IW", "IR", "RIW", "WW"}]

\* Concurrent Data Store: a write cursor holds IW and upgrades it to W.
CdbConflicts ==
    [h \in {"N", "R", "W", "WT", "IW"} |->
        CASE h = "N"  -> {}
          [] h = "R"  -> {"W"}
          [] h = "W"  -> {"R", "W", "WT", "IW"}
          [] h = "WT" -> {}
          [] h = "IW" -> {"W", "IW"}]

\* IS_WRITELOCK: the modes counted in a locker's nwrites.
WriteModes == {"W", "WW", "IW", "RIW"}

\* The modes DB_LOCK_PUT_READ and DB_LOCK_UPGRADE_WRITE release.
ReadModes == {"R", "DR"}
=============================================================================
