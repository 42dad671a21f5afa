---------------------------- MODULE DurableFile ----------------------------
(***************************************************************************)
(* What a local POSIX file holds, as far as the grant store and the ledger *)
(* depend on it: `now` is the value every process reads, `disk` the set of *)
(* values one of which a power loss leaves behind.  A write makes a value  *)
(* visible at once; only an fsync leaves a single possible value.          *)
(***************************************************************************)
Synced(v) == [now |-> v, disk |-> {v}]

\* os.replace: until the directory is synced the entry is any it had since.
Renamed(f, v) == [now |-> v, disk |-> f.disk \cup {v}]

\* A write that is not synced yet; `others` are its partial results.
Written(f, v, others) == [now |-> v, disk |-> f.disk \cup {v} \cup others]

AfterPowerLoss(f) == {Synced(v) : v \in f.disk}

\* The same for many files: each unsettled one is left with one of its values.
SurvivingFiles(files) ==
  LET unsettled == {n \in DOMAIN files : files[n].disk # {files[n].now}}
      outcomes == {left \in [unsettled -> UNION {files[n].disk : n \in unsettled}] :
                     \A n \in unsettled : left[n] \in files[n].disk}
  IN {[n \in DOMAIN files |->
         Synced(IF n \in unsettled THEN left[n] ELSE files[n].now)] : left \in outcomes}
=============================================================================
