------------------------- MODULE AudienceSnapshots -------------------------
(***************************************************************************)
(* What the target audience endpoints promise: an audience is a snapshot   *)
(* that exists entirely or not at all.  It is saved by one step, never     *)
(* changes, is removed by one step together with its members, and its id   *)
(* is not used again.  TargetAudience is shown to implement this module.   *)
(***************************************************************************)
CONSTANTS
  Ids,          \* audience ids
  Results,      \* what a target query returns: sets of member rows
  None,         \* an id that was not given out
  Gone          \* an audience that was removed

VARIABLE store  \* id -> the member rows, None or Gone

SnapshotInit == store = [a \in Ids |-> None]

SaveSnapshot(a) ==
  /\ store[a] = None
  /\ \E result \in Results : store' = [store EXCEPT ![a] = result]

RemoveSnapshots(ids) ==
  /\ \A a \in ids : store[a] \in Results
  /\ store' = [a \in Ids |-> IF a \in ids THEN Gone ELSE store[a]]

SnapshotNext ==
  \/ \E a \in Ids : SaveSnapshot(a)
  \/ \E ids \in SUBSET Ids : RemoveSnapshots(ids)

SnapshotSpec == SnapshotInit /\ [][SnapshotNext]_store
------------------------------------------------------------------------------
(* What follows for every program that implements the snapshots.            *)

\* The rows of an audience are those of one result for as long as it is there, and
\* an audience that was removed never comes back under its id.
SnapshotsLast ==
  [][\A a \in Ids :
       /\ store[a] \in Results => store'[a] \in {store[a], Gone}
       /\ store[a] = Gone => store'[a] = Gone]_store
=============================================================================
