----------------------- MODULE ExperimentSerial_proofs -----------------------
(***************************************************************************)
(* The row locks of ExperimentAssignment: they serialise the runs of an    *)
(* experiment, which explains every 409 a rerun gets and makes each        *)
(* accepted request one step of CampaignLedger, with what the ledger       *)
(* guarantees; and they let no request wait or go on for ever.             *)
(***************************************************************************)
EXTENDS ExperimentAssignment_proofs, FiniteSetTheorems

\* Where each kind of request can be.
KindInv ==
  \A r \in Requests :
    /\ pc[r] \in {"lookup", "refresh"} => input[r].kind = "run"
    /\ pc[r] = "insert" => input[r].kind \in {"run", "create"}
    /\ pc[r] \in {"load", "assign"} => input[r].kind \in {"run", "assign"}

\* The experiment is inserted by one open transaction and only into an empty
\* table; variant rows are held by one transaction each, and exist.
LockInv ==
  \A r \in Requests :
    /\ fresh[r] => experiment = None /\ \A q \in Requests \ {r} : ~fresh[q]
    /\ holds[r] # {} => /\ pc[r] \in {"refresh", "load", "assign", "commit"}
                        /\ fresh[r] \/ experiment # None
    /\ \A q \in Requests \ {r} : holds[r] \cap holds[q] = {}

\* A run past its variants holds all of them, and they are the experiment's; a
\* creation holds the ones it inserted; an assignments call holds none.
HoldsInv ==
  \A r \in Requests :
    /\ pc[r] = "refresh" => /\ experiment # None /\ SameExperiment(input[r])
                            /\ holds[r] \subseteq input[r].codes
    /\ pc[r] \in {"load", "assign", "commit"} /\ input[r].kind = "run" =>
         /\ holds[r] = input[r].codes
         /\ fresh[r] \/ (experiment # None /\ SameExperiment(input[r]))
    /\ pc[r] = "commit" /\ input[r].kind = "create" =>
         fresh[r] /\ holds[r] = input[r].codes /\ created[r] = {}
    /\ pc[r] \in {"load", "assign", "commit"} /\ input[r].kind = "assign" =>
         ~fresh[r] /\ holds[r] = {}

SerialInv == KindInv /\ LockInv /\ HoldsInv

LEMMA SerialInvInit == Init => SerialInv
  BY DEF Init, SerialInv, KindInv, LockInv, HoldsInv

LEMMA SerialRollback ==
  ASSUME RowsInv, SerialInv, NEW r \in Requests, NEW why, Rollback(r, why)
  PROVE  SerialInv'
<1>1. /\ pc'[r] = "done" /\ fresh'[r] = FALSE /\ holds'[r] = {} /\ created'[r] = {}
      /\ \A q \in Requests \ {r} :
           /\ pc'[q] = pc[q] /\ fresh'[q] = fresh[q]
           /\ holds'[q] = holds[q] /\ created'[q] = created[q]
      /\ UNCHANGED <<experiment, input>>
  BY DEF Rollback, RowsInv, TypeInv, TypeOK
<1>2. KindInv'
  BY <1>1 DEF SerialInv, KindInv
<1>3. LockInv'
  BY <1>1 DEF SerialInv, LockInv
<1>4. HoldsInv'
  BY <1>1 DEF SerialInv, HoldsInv, SameExperiment
<1>5. QED
  BY <1>2, <1>3, <1>4 DEF SerialInv

\* A step of the loop: nothing but the lists and the position change.
LEMMA SerialLoop ==
  ASSUME RowsInv, SerialInv, NEW r \in Requests, pc[r] = "assign", NextUser(r),
         \A q \in Requests \ {r} : created'[q] = created[q],
         UNCHANGED <<experiment, input, fresh, holds>>
  PROVE  SerialInv'
<1>1. /\ pc'[r] \in {"assign", "commit"}
      /\ \A q \in Requests \ {r} : pc'[q] = pc[q]
  BY DEF NextUser, RowsInv, TypeInv, TypeOK
<1>2. input[r].kind \in {"run", "assign"}
  BY DEF SerialInv, KindInv
<1>3. KindInv'
  BY <1>1, <1>2 DEF SerialInv, KindInv
<1>4. LockInv'
  BY <1>1 DEF SerialInv, LockInv
<1>5. HoldsInv'
  BY <1>1, <1>2 DEF SerialInv, HoldsInv, SameExperiment
<1>6. QED
  BY <1>3, <1>4, <1>5 DEF SerialInv

LEMMA SerialInvNext == RowsInv /\ SerialInv /\ [Next]_vars => SerialInv'
<1> SUFFICES ASSUME RowsInv, SerialInv, [Next]_vars PROVE SerialInv'
  OBVIOUS
<1>1. CASE UNCHANGED vars
  BY <1>1 DEF vars, SerialInv, KindInv, LockInv, HoldsInv, SameExperiment
<1>2. ASSUME NEW r \in Requests, NEW in \in Inputs, Arrive(r, in)
      PROVE  SerialInv'
  <2>1. /\ input'[r] = in /\ pc[r] = "idle"
        /\ in.kind \in {"run", "create", "assign"}
        /\ pc'[r] = CASE in.kind = "run"    -> "lookup"
                      [] in.kind = "create" -> "insert"
                      [] in.kind = "assign" -> "load"
        /\ \A q \in Requests \ {r} : input'[q] = input[q] /\ pc'[q] = pc[q]
        /\ UNCHANGED <<experiment, fresh, holds, created>>
    BY <1>2, InputsAssumption DEF Arrive, RowsInv, TypeInv, TypeOK
  <2>2. \/ pc'[r] = "lookup" /\ in.kind = "run"
        \/ pc'[r] = "insert" /\ in.kind = "create"
        \/ pc'[r] = "load" /\ in.kind = "assign"
    BY <2>1
  <2>3. holds[r] = {} /\ fresh[r] = FALSE
    BY <2>1 DEF SerialInv, LockInv, RowsInv, TypeInv, FreshGiven, TypeOK
  <2>4. KindInv'
    BY <2>1, <2>2 DEF SerialInv, KindInv
  <2>5. LockInv'
    BY <2>1, <2>2, <2>3 DEF SerialInv, LockInv
  <2>6. HoldsInv'
    BY <2>1, <2>2, <2>3 DEF SerialInv, HoldsInv, SameExperiment
  <2>7. QED
    BY <2>4, <2>5, <2>6 DEF SerialInv
<1>3. ASSUME NEW r \in Requests, LookupExperiment(r)
      PROVE  SerialInv'
  <2>1. CASE experiment # None /\ ~SameExperiment(input[r])
    BY <1>3, <2>1, SerialRollback DEF LookupExperiment
  <2>2. CASE experiment = None \/ SameExperiment(input[r])
    <3>1. /\ pc[r] = "lookup"
          /\ \/ pc'[r] = "insert"
             \/ pc'[r] = "refresh" /\ experiment # None /\ SameExperiment(input[r])
          /\ \A q \in Requests \ {r} : pc'[q] = pc[q]
          /\ UNCHANGED <<experiment, input, fresh, holds, created>>
      BY <1>3, <2>2
      DEF LookupExperiment, BeginRefresh, dbVars, loopVars, RowsInv, TypeInv, TypeOK
    <3>2. holds[r] = {} /\ input[r].kind = "run"
      BY <3>1 DEF SerialInv, LockInv, KindInv
    <3>3. KindInv'
      BY <3>1, <3>2 DEF SerialInv, KindInv
    <3>4. LockInv'
      BY <3>1, <3>2 DEF SerialInv, LockInv
    <3>5. HoldsInv'
      BY <3>1, <3>2 DEF SerialInv, HoldsInv, SameExperiment
    <3>6. QED
      BY <3>3, <3>4, <3>5 DEF SerialInv
  <2>3. QED
    BY <2>1, <2>2
<1>4. ASSUME NEW r \in Requests, InsertExperiment(r)
      PROVE  SerialInv'
  <2>1. CASE experiment # None
    BY <1>4, <2>1, SerialRollback DEF InsertExperiment
  <2>2. CASE experiment = None
    <3>1. /\ pc[r] = "insert"
          /\ fresh'[r] = TRUE /\ holds'[r] = input[r].codes
          /\ pc'[r] = IF input[r].kind = "create" THEN "commit" ELSE "load"
          /\ \A q \in Requests \ {r} :
               pc'[q] = pc[q] /\ fresh'[q] = fresh[q] /\ holds'[q] = holds[q]
          /\ UNCHANGED <<experiment, input, created>>
      BY <1>4, <2>2 DEF InsertExperiment, dbVars, loopVars, RowsInv, TypeInv, TypeOK
    <3>2. \A q \in Requests \ {r} : ~fresh[q]
      BY <1>4 DEF InsertExperiment, WaitsFor, InTransaction, RowsInv, TypeInv, FreshGiven
    <3>3. \A q \in Requests \ {r} : holds[q] = {}
      BY <2>2, <3>2 DEF SerialInv, LockInv
    <3>4. input[r].kind \in {"run", "create"} /\ created[r] = {}
      BY <3>1 DEF SerialInv, KindInv, RowsInv, LoopInv, BeforeLoop
    <3>5. KindInv'
      BY <3>1, <3>4 DEF SerialInv, KindInv
    <3>6. LockInv'
      BY <2>2, <3>1, <3>2, <3>3 DEF LockInv
    <3>7. HoldsInv'
      BY <2>2, <3>1, <3>2, <3>4 DEF SerialInv, HoldsInv, SameExperiment
    <3>8. QED
      BY <3>5, <3>6, <3>7 DEF SerialInv
  <2>3. QED
    BY <2>1, <2>2
<1>5. ASSUME NEW r \in Requests, RefreshVariant(r)
      PROVE  SerialInv'
  <2>1. /\ pc[r] = "refresh" /\ holds'[r] = holds[r] \cup {at[r]}
        /\ \/ pc'[r] = "load" /\ input[r].codes \ holds'[r] = {}
           \/ pc'[r] = "refresh"
        /\ \A q \in Requests \ {r} : pc'[q] = pc[q] /\ holds'[q] = holds[q]
        /\ UNCHANGED <<experiment, input, fresh, created>>
    BY <1>5 DEF RefreshVariant, dbVars, loopVars, RowsInv, TypeInv, TypeOK
  <2>2. \A q \in Requests \ {r} : at[r] \notin holds[q]
    BY <1>5 DEF RefreshVariant, WaitsFor, InTransaction, SerialInv, LockInv
  <2>3. /\ at[r] \in input[r].codes /\ input[r].kind = "run"
        /\ experiment # None /\ SameExperiment(input[r])
        /\ holds[r] \subseteq input[r].codes
    BY <2>1 DEF RowsInv, TypeInv, InputGiven, SerialInv, KindInv, HoldsInv
  <2>4. KindInv'
    BY <2>1, <2>3 DEF SerialInv, KindInv
  <2>5. LockInv'
    BY <2>1, <2>2, <2>3 DEF SerialInv, LockInv
  <2>6. /\ holds'[r] \subseteq input[r].codes
        /\ pc'[r] = "load" => holds'[r] = input[r].codes
    BY <2>1, <2>3
  <2>7. HoldsInv'
    <3>1. \A q \in Requests : SameExperiment(input[q])' = SameExperiment(input[q])
      BY <2>1 DEF SameExperiment
    <3>2. pc'[r] \in {"load", "refresh"}
      BY <2>1
    <3>3. QED
      BY <2>1, <2>3, <2>6, <3>1, <3>2 DEF SerialInv, HoldsInv
  <2>8. QED
    BY <2>4, <2>5, <2>7 DEF SerialInv
<1>6. ASSUME NEW r \in Requests, LoadAssignments(r)
      PROVE  SerialInv'
  <2>1. CASE Rollback(r, "not_found") \/ Rollback(r, "empty")
    BY <2>1, SerialRollback
  <2>2. CASE ~(Rollback(r, "not_found") \/ Rollback(r, "empty"))
    <3>1. /\ pc[r] = "load" /\ pc'[r] = "assign"
          /\ \A q \in Requests \ {r} : pc'[q] = pc[q]
          /\ UNCHANGED <<experiment, input, fresh, holds, created>>
      BY <1>6, <2>2 DEF LoadAssignments, dbVars, RowsInv, TypeInv, TypeOK
    <3>2. KindInv'
      BY <3>1 DEF SerialInv, KindInv
    <3>3. LockInv'
      BY <3>1 DEF SerialInv, LockInv
    <3>4. HoldsInv'
      BY <3>1 DEF SerialInv, HoldsInv, SameExperiment
    <3>5. QED
      BY <3>2, <3>3, <3>4 DEF SerialInv
  <2>3. QED
    BY <2>1, <2>2
<1>7. ASSUME NEW r \in Requests, SkipUser(r) \/ ReuseAssignment(r)
      PROVE  SerialInv'
  BY <1>7, SerialLoop DEF SkipUser, ReuseAssignment, dbVars
<1>8. ASSUME NEW r \in Requests, InsertDelivery(r)
      PROVE  SerialInv'
  <2>1. CASE at[r] \in UsersOf(deliveries)
    BY <1>8, <2>1, SerialRollback DEF InsertDelivery
  <2>2. CASE at[r] \notin UsersOf(deliveries)
    <3>1. /\ pc[r] = "assign" /\ NextUser(r)
          /\ \A q \in Requests \ {r} : created'[q] = created[q]
          /\ UNCHANGED <<experiment, input, fresh, holds>>
      BY <1>8, <2>2 DEF InsertDelivery, NeedsInsert, dbVars, RowsInv, TypeInv, TypeOK
    <3>2. QED
      BY <3>1, SerialLoop
  <2>3. QED
    BY <2>1, <2>2
<1>9. ASSUME NEW r \in Requests, Commit(r)
      PROVE  SerialInv'
  <2>1. /\ pc[r] = "commit" /\ pc'[r] = "done"
        /\ fresh'[r] = FALSE /\ holds'[r] = {}
        /\ \A q \in Requests \ {r} :
             pc'[q] = pc[q] /\ fresh'[q] = fresh[q] /\ holds'[q] = holds[q]
        /\ experiment' = experiment \/ (fresh[r] /\ experiment' # None)
        /\ UNCHANGED <<input, created>>
    <3>1. input[r].channel \in Channels /\ input[r].codes \subseteq Codes
      BY <1>9, InputsAssumption DEF Commit, RowsInv, TypeInv, InputGiven
    <3>2. [channel |-> input[r].channel, codes |-> input[r].codes] # None
      BY <3>1, NoneAssumption
    <3>3. QED
      BY <1>9, <3>2 DEF Commit, RowsInv, TypeInv, TypeOK
  <2>2. KindInv'
    BY <2>1 DEF SerialInv, KindInv
  <2>3. LockInv'
    BY <2>1 DEF SerialInv, LockInv
  <2>4. HoldsInv'
    <3>1. CASE experiment' = experiment
      BY <2>1, <3>1 DEF SerialInv, HoldsInv, SameExperiment
    <3>2. CASE fresh[r]
      <4>1. experiment = None /\ \A q \in Requests \ {r} : ~fresh[q]
        BY <3>2 DEF SerialInv, LockInv
      <4>2. QED
        BY <2>1, <4>1 DEF SerialInv, HoldsInv
    <3>3. QED
      BY <2>1, <3>1, <3>2
  <2>5. QED
    BY <2>2, <2>3, <2>4 DEF SerialInv
<1>10. ASSUME NEW r \in Requests, Fail(r) \/ AbortDeadlock(r)
       PROVE  SerialInv'
  BY <1>10, SerialRollback DEF Fail, AbortDeadlock
<1>11. QED
  BY <1>1, <1>2, <1>3, <1>4, <1>5, <1>6, <1>7, <1>8, <1>9, <1>10 DEF Next, Statement

Runs(r) == input[r].kind = "run" /\ pc[r] \in {"load", "assign", "commit"}

\* One run at a time is past its variants: two of them would hold the same,
\* non-empty set of variant rows.
LEMMA OneRunAtATime ==
  ASSUME RowsInv, SerialInv, NEW r \in Requests, NEW q \in Requests \ {r}, Runs(r), Runs(q)
  PROVE  FALSE
<1>1. /\ holds[r] = input[r].codes /\ holds[q] = input[q].codes
      /\ holds[r] \cap holds[q] = {}
      /\ fresh[r] \/ (experiment # None /\ SameExperiment(input[r]))
      /\ fresh[q] \/ (experiment # None /\ SameExperiment(input[q]))
  BY DEF Runs, SerialInv, LockInv, HoldsInv
<1>2. input[r].codes # {}
  BY InputsAssumption DEF Runs, RowsInv, TypeInv, InputGiven
<1>3. ~fresh[r] /\ ~fresh[q]
  BY <1>1 DEF SerialInv, LockInv
<1>4. input[r].codes = input[q].codes
  BY <1>1, <1>3 DEF SameExperiment
<1>5. QED
  BY <1>1, <1>2, <1>4

(***************************************************************************)
(* The 409 of a rerun.                                                     *)
(***************************************************************************)

\* Rows know their request, and committed rows belong to accepted ones.
OriginInv ==
  /\ \A r \in Requests : \A d \in created[r] :
       d.by = r /\ input[r].kind \in {"run", "assign"}
  /\ \A d \in deliveries :
       d.by \in Requests /\ outcome[d.by] = "ok" /\ d \in created[d.by]

\* What a run has not seen of its users was committed by assignments calls.
UnseenInv ==
  \A r \in Requests : input[r].kind = "run" /\ pc[r] \in {"assign", "commit"} =>
    \A d \in deliveries :
      d.user \in input[r].users /\ d \notin seen[r] => input[d.by].kind = "assign"

DisturbInv == OriginInv /\ UnseenInv /\ RerunDisturbedOnlyByAssign

Inv == RowsInv /\ AnswerInv /\ SerialInv

\* A request with a statement to execute has no outcome yet.
LEMMA OpenHasNoOutcome ==
  ASSUME Inv, NEW r \in Requests, pc[r] # "done"
  PROVE  outcome[r] = None /\ outcome[r] # "ok"
  BY NoneAssumption DEF Inv, AnswerInv, DoneInv

LEMMA DisturbInvInit == Init => DisturbInv
<1> SUFFICES ASSUME Init PROVE DisturbInv
  OBVIOUS
<1>1. None # "duplicate_row"
  BY NoneAssumption
<1>2. OriginInv /\ UnseenInv
  BY DEF Init, OriginInv, UnseenInv
<1>3. RerunDisturbedOnlyByAssign
  BY <1>1 DEF Init, RerunDisturbedOnlyByAssign
<1>4. QED
  BY <1>2, <1>3 DEF DisturbInv

\* The accepted requests, their bodies and their rows never change.
LEMMA DisturbKept ==
  ASSUME RerunDisturbedOnlyByAssign,
         \A q \in Requests : outcome[q] = "ok" =>
           outcome'[q] = "ok" /\ input'[q] = input[q] /\ created'[q] = created[q],
         \A q \in Requests : outcome'[q] = "duplicate_row" =>
           outcome[q] = "duplicate_row" /\ input'[q] = input[q]
  PROVE  RerunDisturbedOnlyByAssign'
  BY DEF RerunDisturbedOnlyByAssign, UsersOf

LEMMA DisturbQuiet ==
  ASSUME Inv, DisturbInv, NEW r \in Requests, NEW next, pc[r] # "done",
         pc' = [pc EXCEPT ![r] = next],
         next = "commit" => input[r].kind = "create" \/ pc[r] = "assign",
         next = "assign" => pc[r] = "assign",
         UNCHANGED <<deliveries, input, seen, created, outcome>>
  PROVE  DisturbInv'
<1>1. pc'[r] = next /\ \A q \in Requests \ {r} : pc'[q] = pc[q]
  BY DEF Inv, RowsInv, TypeInv, TypeOK
<1>2. OriginInv'
  BY DEF DisturbInv, OriginInv
<1>3. UnseenInv'
  BY <1>1 DEF DisturbInv, UnseenInv
<1>4. RerunDisturbedOnlyByAssign'
  BY DisturbKept DEF DisturbInv
<1>5. QED
  BY <1>2, <1>3, <1>4 DEF DisturbInv

\* A rollback takes back rows nobody else has seen.
LEMMA DisturbRollback ==
  ASSUME Inv, DisturbInv, NEW r \in Requests, pc[r] # "done", NEW why \in Refusals,
         Rollback(r, why),
         why = "duplicate_row" /\ input[r].kind = "run" =>
           \E q \in Requests : /\ outcome[q] = "ok" /\ input[q].kind = "assign"
                              /\ UsersOf(created[q]) \cap input[r].users # {}
  PROVE  DisturbInv'
<1>1. outcome[r] # "ok"
  BY OpenHasNoOutcome
<1>2. /\ pc'[r] = "done" /\ outcome'[r] = why /\ created'[r] = {}
      /\ \A q \in Requests \ {r} : /\ pc'[q] = pc[q] /\ outcome'[q] = outcome[q]
                                   /\ seen'[q] = seen[q] /\ created'[q] = created[q]
      /\ UNCHANGED <<deliveries, input>>
  BY DEF Rollback, Refusals, Inv, RowsInv, TypeInv, TypeOK
<1>3. OriginInv'
  BY <1>1, <1>2 DEF DisturbInv, OriginInv
<1>4. UnseenInv'
  BY <1>2 DEF DisturbInv, UnseenInv
<1>5. RerunDisturbedOnlyByAssign'
  <2> SUFFICES ASSUME NEW p \in Requests, outcome'[p] = "duplicate_row", input[p].kind = "run"
               PROVE  \E q \in Requests : /\ outcome'[q] = "ok" /\ input[q].kind = "assign"
                                         /\ UsersOf(created'[q]) \cap input[p].users # {}
    BY <1>2 DEF RerunDisturbedOnlyByAssign, UsersOf
  <2>1. PICK q \in Requests : /\ outcome[q] = "ok" /\ input[q].kind = "assign"
                             /\ UsersOf(created[q]) \cap input[p].users # {}
    BY <1>2 DEF DisturbInv, RerunDisturbedOnlyByAssign
  <2>2. q # r
    BY <1>1, <2>1
  <2>3. QED
    BY <1>2, <2>1, <2>2
<1>6. QED
  BY <1>3, <1>4, <1>5 DEF DisturbInv

LEMMA DisturbInvNext == Inv /\ DisturbInv /\ [Next]_vars => DisturbInv'
<1> SUFFICES ASSUME Inv, DisturbInv, [Next]_vars PROVE DisturbInv'
  OBVIOUS
<1>1. CASE UNCHANGED vars
  BY <1>1, DisturbKept DEF vars, DisturbInv, OriginInv, UnseenInv
<1>2. ASSUME NEW r \in Requests, NEW in \in Inputs, Arrive(r, in)
      PROVE  DisturbInv'
  <2>1. outcome[r] = None /\ outcome[r] # "ok" /\ outcome[r] # "duplicate_row" /\ created[r] = {}
    BY <1>2, OpenHasNoOutcome, NoneAssumption
    DEF Arrive, Inv, RowsInv, LoopInv, BeforeLoop
  <2>2. /\ pc'[r] \notin {"assign", "commit"}
        /\ \A q \in Requests \ {r} : input'[q] = input[q] /\ pc'[q] = pc[q]
        /\ UNCHANGED <<deliveries, seen, created, outcome>>
    <3>1. pc'[r] \notin {"assign", "commit"}
      BY <1>2, InputsAssumption DEF Arrive, Inv, RowsInv, TypeInv, TypeOK
    <3>2. QED
      BY <1>2, <3>1 DEF Arrive, Inv, RowsInv, TypeInv, TypeOK
  <2>3. OriginInv'
    BY <2>1, <2>2 DEF DisturbInv, OriginInv
  <2>4. UnseenInv'
    BY <2>1, <2>2 DEF DisturbInv, UnseenInv, OriginInv
  <2>5. RerunDisturbedOnlyByAssign'
    BY <2>1, <2>2, DisturbKept DEF DisturbInv
  <2>6. QED
    BY <2>3, <2>4, <2>5 DEF DisturbInv
<1>3. ASSUME NEW r \in Requests, LookupExperiment(r)
      PROVE  DisturbInv'
  <2>1. CASE experiment # None /\ ~SameExperiment(input[r])
    BY <1>3, <2>1, DisturbRollback DEF LookupExperiment, Refusals
  <2>2. CASE experiment = None \/ SameExperiment(input[r])
    <3>1. PICK next \in {"insert", "refresh"} : pc' = [pc EXCEPT ![r] = next]
      BY <1>3, <2>2 DEF LookupExperiment, BeginRefresh
    <3>2. /\ pc[r] # "done"
          /\ UNCHANGED <<deliveries, input, seen, created, outcome>>
      BY <1>3, <2>2 DEF LookupExperiment, dbVars, loopVars
    <3>3. QED
      BY <3>1, <3>2, DisturbQuiet
  <2>3. QED
    BY <2>1, <2>2
<1>4. ASSUME NEW r \in Requests, InsertExperiment(r)
      PROVE  DisturbInv'
  <2>1. CASE experiment # None
    BY <1>4, <2>1, DisturbRollback DEF InsertExperiment, Refusals
  <2>2. CASE experiment = None
    <3> DEFINE next == IF input[r].kind = "create" THEN "commit" ELSE "load"
    <3>1. /\ pc' = [pc EXCEPT ![r] = next] /\ pc[r] # "done"
          /\ UNCHANGED <<deliveries, input, seen, created, outcome>>
      BY <1>4, <2>2 DEF InsertExperiment, dbVars, loopVars
    <3>2. next # "assign" /\ (next = "commit" => input[r].kind = "create")
      OBVIOUS
    <3> HIDE DEF next
    <3>3. QED
      BY <3>1, <3>2, DisturbQuiet
  <2>3. QED
    BY <2>1, <2>2
<1>5. ASSUME NEW r \in Requests, RefreshVariant(r)
      PROVE  DisturbInv'
  <2>1. PICK next \in {"refresh", "load"} : pc' = [pc EXCEPT ![r] = next]
    BY <1>5 DEF RefreshVariant, Inv, RowsInv, TypeInv, TypeOK
  <2>2. /\ pc[r] # "done"
        /\ UNCHANGED <<deliveries, input, seen, created, outcome>>
    BY <1>5 DEF RefreshVariant, dbVars, loopVars
  <2>3. QED
    BY <2>1, <2>2, DisturbQuiet
<1>6. ASSUME NEW r \in Requests, LoadAssignments(r)
      PROVE  DisturbInv'
  <2>1. CASE Rollback(r, "not_found") \/ Rollback(r, "empty")
    BY <1>6, <2>1, DisturbRollback DEF LoadAssignments, Refusals
  <2>2. CASE ~(Rollback(r, "not_found") \/ Rollback(r, "empty"))
    <3>1. /\ pc[r] = "load"
          /\ seen'[r] = {d \in deliveries : d.user \in input[r].users}
          /\ \A q \in Requests \ {r} : pc'[q] = pc[q] /\ seen'[q] = seen[q]
          /\ UNCHANGED <<deliveries, input, created, outcome>>
      BY <1>6, <2>2 DEF LoadAssignments, dbVars, Inv, RowsInv, TypeInv, TypeOK
    <3>2. OriginInv'
      BY <3>1 DEF DisturbInv, OriginInv
    <3>3. UnseenInv'
      BY <3>1 DEF DisturbInv, UnseenInv
    <3>4. QED
      BY <3>1, <3>2, <3>3, DisturbKept DEF DisturbInv
  <2>3. QED
    BY <2>1, <2>2
<1>7. ASSUME NEW r \in Requests, SkipUser(r) \/ ReuseAssignment(r)
      PROVE  DisturbInv'
  <2>1. PICK next \in {"assign", "commit"} : pc' = [pc EXCEPT ![r] = next]
    BY <1>7 DEF SkipUser, ReuseAssignment, NextUser, Inv, RowsInv, TypeInv, TypeOK
  <2>2. /\ pc[r] = "assign"
        /\ UNCHANGED <<deliveries, input, seen, created, outcome>>
    BY <1>7 DEF SkipUser, ReuseAssignment, dbVars
  <2>3. QED
    BY <2>1, <2>2, DisturbQuiet
<1>8. ASSUME NEW r \in Requests, InsertDelivery(r)
      PROVE  DisturbInv'
  <2>1. pc[r] = "assign" /\ at[r] \notin UsersOf(seen[r]) /\ at[r] \in input[r].users
    BY <1>8 DEF InsertDelivery, NeedsInsert, Inv, RowsInv, TypeInv, InputGiven
  <2>2. CASE at[r] \in UsersOf(deliveries)
    <3>1. PICK d \in deliveries : d.user = at[r]
      BY <2>2 DEF UsersOf
    <3>2. d \notin seen[r]
      BY <2>1, <3>1 DEF UsersOf
    <3>3. input[r].kind = "run" => input[d.by].kind = "assign"
      BY <2>1, <3>1, <3>2 DEF DisturbInv, UnseenInv
    <3>4. d.by \in Requests /\ outcome[d.by] = "ok" /\ d \in created[d.by]
      BY <3>1 DEF DisturbInv, OriginInv
    <3>5. UsersOf(created[d.by]) \cap input[r].users # {}
      BY <2>1, <3>1, <3>4 DEF UsersOf
    <3>6. QED
      BY <1>8, <2>1, <2>2, <3>3, <3>4, <3>5, DisturbRollback DEF InsertDelivery, Refusals
  <2>3. CASE at[r] \notin UsersOf(deliveries)
    <3>1. PICK row : /\ row.by = r
                     /\ created' = [created EXCEPT ![r] = @ \cup {row}]
      BY <1>8, <2>3 DEF InsertDelivery
    <3>2. /\ created'[r] = created[r] \cup {row}
          /\ pc'[r] \in {"assign", "commit"}
          /\ \A q \in Requests \ {r} : created'[q] = created[q] /\ pc'[q] = pc[q]
          /\ UNCHANGED <<deliveries, input, outcome, seen>>
      <4>1. NextUser(r) /\ UNCHANGED <<deliveries, input, outcome, seen>>
        BY <1>8, <2>3 DEF InsertDelivery, dbVars
      <4>2. /\ pc'[r] \in {"assign", "commit"}
            /\ \A q \in Requests \ {r} : pc'[q] = pc[q]
        BY <2>1, <4>1 DEF NextUser, Inv, RowsInv, TypeInv, TypeOK
      <4>3. QED
        BY <3>1, <4>1, <4>2 DEF Inv, RowsInv, TypeInv, TypeOK
    <3>3. input[r].kind \in {"run", "assign"} /\ outcome[r] # "ok"
      BY <2>1, OpenHasNoOutcome DEF Inv, SerialInv, KindInv
    <3>4. OriginInv'
      BY <3>1, <3>2, <3>3 DEF DisturbInv, OriginInv
    <3>5. UnseenInv'
      BY <2>1, <3>2 DEF DisturbInv, UnseenInv
    <3>6. QED
      BY <3>2, <3>3, <3>4, <3>5, DisturbKept DEF DisturbInv
  <2>4. QED
    BY <2>2, <2>3
<1>9. ASSUME NEW r \in Requests, Commit(r)
      PROVE  DisturbInv'
  <2>1. /\ pc[r] = "commit" /\ pc'[r] = "done"
        /\ outcome'[r] = "ok" /\ deliveries' = deliveries \cup created[r]
        /\ \A q \in Requests \ {r} : pc'[q] = pc[q] /\ outcome'[q] = outcome[q]
        /\ UNCHANGED <<input, seen, created>>
    BY <1>9 DEF Commit, Inv, RowsInv, TypeInv, TypeOK
  <2>2. OriginInv'
    BY <2>1 DEF DisturbInv, OriginInv
  <2>3. UnseenInv'
    <3> SUFFICES ASSUME NEW q \in Requests, input[q].kind = "run",
                        pc'[q] \in {"assign", "commit"}, NEW d \in deliveries',
                        d.user \in input[q].users, d \notin seen[q]
                 PROVE  input[d.by].kind = "assign"
      BY <2>1 DEF UnseenInv
    <3>1. q # r /\ pc[q] \in {"assign", "commit"}
      BY <2>1
    <3>2. CASE d \in deliveries
      BY <3>1, <3>2 DEF DisturbInv, UnseenInv
    <3>3. CASE d \in created[r]
      <4>1. d.by = r /\ input[r].kind \in {"run", "assign"}
        BY <3>3 DEF DisturbInv, OriginInv
      <4>2. ~Runs(r)
        BY <3>1, OneRunAtATime DEF Runs, Inv
      <4>3. QED
        BY <2>1, <4>1, <4>2 DEF Runs
    <3>4. QED
      BY <2>1, <3>2, <3>3
  <2>4. outcome[r] # "ok"
    BY <2>1, OpenHasNoOutcome
  <2>5. RerunDisturbedOnlyByAssign'
    BY <2>1, <2>4, DisturbKept DEF DisturbInv
  <2>6. QED
    BY <2>2, <2>3, <2>5 DEF DisturbInv
<1>10. ASSUME NEW r \in Requests, Fail(r) \/ AbortDeadlock(r)
       PROVE  DisturbInv'
  <2>1. pc[r] # "done"
    BY <1>10 DEF Fail, AbortDeadlock, InTransaction, InDeadlock, WaitsFor, NeedsInsert
  <2>2. QED
    BY <1>10, <2>1, DisturbRollback DEF Fail, AbortDeadlock, Refusals
<1>11. QED
  BY <1>1, <1>2, <1>3, <1>4, <1>5, <1>6, <1>7, <1>8, <1>9, <1>10 DEF Next, Statement

LEMMA InvCorrect == Spec => [](Inv /\ DisturbInv)
<1>1. Init => Inv /\ DisturbInv
  BY RowsInvInit, AnswerInvInit, SerialInvInit, DisturbInvInit DEF Inv
<1>2. Inv /\ DisturbInv /\ [Next]_vars => (Inv /\ DisturbInv)'
  BY RowsInvNext, AnswerInvNext, SerialInvNext, DisturbInvNext DEF Inv
<1>3. QED
  BY <1>1, <1>2, PTL DEF Spec

\* Runs of one experiment never fail each other: a 409 for a delivery row in a
\* run names an accepted assignments call that took one of its users.
THEOREM RerunsDoNotDisturbEachOther == Spec => []RerunDisturbedOnlyByAssign
<1>1. Inv /\ DisturbInv => RerunDisturbedOnlyByAssign
  BY DEF DisturbInv
<1>2. QED
  BY InvCorrect, <1>1, PTL

(***************************************************************************)
(* The refinement of CampaignLedger: only a commit moves the ledger, and   *)
(* it moves it by the whole request.                                       *)
(***************************************************************************)

\* The rows of the loop are for known users and of the experiment's variants.
CodesInv ==
  \A r \in Requests : pc[r] \in {"assign", "commit"} =>
    \A d \in created[r] : d.user \in KnownUsers /\ d.code \in VisibleCodes(r)

LEMMA CodesInvInit == Init => CodesInv
  BY DEF Init, CodesInv

LEMMA CodesInvNext == Inv /\ CodesInv /\ [Next]_vars => CodesInv'
<1> SUFFICES ASSUME Inv, CodesInv, [Next]_vars,
                    NEW q \in Requests, pc'[q] \in {"assign", "commit"}, NEW d \in created'[q]
             PROVE  d.user \in KnownUsers /\ d.code \in VisibleCodes(q)'
  BY DEF CodesInv
<1>1. CASE UNCHANGED vars
  BY <1>1 DEF vars, CodesInv, VisibleCodes
<1>2. ASSUME NEW r \in Requests, Rollback(r, "error") \/ Rollback(r, "not_found")
        \/ Rollback(r, "empty") \/ Rollback(r, "name_conflict")
        \/ Rollback(r, "duplicate_row") \/ Rollback(r, "duplicate_name")
      PROVE  d.user \in KnownUsers /\ d.code \in VisibleCodes(q)'
  <2>1. /\ pc'[r] = "done" /\ UNCHANGED <<experiment, input>>
        /\ \A p \in Requests \ {r} :
             pc'[p] = pc[p] /\ created'[p] = created[p] /\ fresh'[p] = fresh[p]
    BY <1>2 DEF Rollback, Inv, RowsInv, TypeInv, TypeOK
  <2>2. QED
    BY <2>1 DEF CodesInv, VisibleCodes
\* A statement before the loop: the request itself has no rows.
<1>3. ASSUME NEW r \in Requests, pc[r] \in BeforeLoop, UNCHANGED <<experiment, created>>,
             \A p \in Requests \ {r} :
               pc'[p] = pc[p] /\ fresh'[p] = fresh[p] /\ input'[p] = input[p]
      PROVE  d.user \in KnownUsers /\ d.code \in VisibleCodes(q)'
  BY <1>3 DEF Inv, RowsInv, LoopInv, CodesInv, VisibleCodes
<1>4. ASSUME NEW r \in Requests, NEW in \in Inputs, Arrive(r, in)
      PROVE  d.user \in KnownUsers /\ d.code \in VisibleCodes(q)'
  <2>1. /\ pc[r] \in BeforeLoop /\ UNCHANGED <<experiment, created>>
        /\ \A p \in Requests \ {r} :
             pc'[p] = pc[p] /\ fresh'[p] = fresh[p] /\ input'[p] = input[p]
    BY <1>4 DEF Arrive, BeforeLoop, Inv, RowsInv, TypeInv, TypeOK
  <2>2. QED
    BY <1>3, <2>1
<1>5. ASSUME NEW r \in Requests, LookupExperiment(r) \/ RefreshVariant(r)
      PROVE  d.user \in KnownUsers /\ d.code \in VisibleCodes(q)'
  <2>1. CASE Rollback(r, "name_conflict")
    BY <1>2, <2>1
  <2>2. CASE ~Rollback(r, "name_conflict")
    <3>1. /\ pc[r] \in BeforeLoop /\ UNCHANGED <<experiment, created, fresh, input>>
          /\ \A p \in Requests \ {r} : pc'[p] = pc[p]
      BY <1>5, <2>2 DEF LookupExperiment, RefreshVariant, BeginRefresh, BeforeLoop,
                        dbVars, loopVars, Inv, RowsInv, TypeInv, TypeOK
    <3>2. QED
      BY <1>3, <3>1
  <2>3. QED
    BY <2>1, <2>2
<1>6. ASSUME NEW r \in Requests, InsertExperiment(r)
      PROVE  d.user \in KnownUsers /\ d.code \in VisibleCodes(q)'
  <2>1. CASE Rollback(r, "duplicate_name")
    BY <1>2, <2>1
  <2>2. CASE ~Rollback(r, "duplicate_name")
    <3>1. /\ pc[r] \in BeforeLoop /\ UNCHANGED <<experiment, created, input>>
          /\ \A p \in Requests \ {r} : pc'[p] = pc[p] /\ fresh'[p] = fresh[p]
      BY <1>6, <2>2 DEF InsertExperiment, BeforeLoop,
                        dbVars, loopVars, Inv, RowsInv, TypeInv, TypeOK
    <3>2. QED
      BY <1>3, <3>1
  <2>3. QED
    BY <2>1, <2>2
<1>7. ASSUME NEW r \in Requests, LoadAssignments(r)
      PROVE  d.user \in KnownUsers /\ d.code \in VisibleCodes(q)'
  <2>1. CASE Rollback(r, "not_found") \/ Rollback(r, "empty")
    BY <1>2, <2>1
  <2>2. CASE ~(Rollback(r, "not_found") \/ Rollback(r, "empty"))
    <3>1. /\ pc[r] \in BeforeLoop /\ UNCHANGED <<experiment, created, input, fresh>>
          /\ \A p \in Requests \ {r} : pc'[p] = pc[p]
      BY <1>7, <2>2 DEF LoadAssignments, BeforeLoop, dbVars, Inv, RowsInv, TypeInv, TypeOK
    <3>2. QED
      BY <1>3, <3>1
  <2>3. QED
    BY <2>1, <2>2
<1>8. ASSUME NEW r \in Requests, SkipUser(r) \/ ReuseAssignment(r)
      PROVE  d.user \in KnownUsers /\ d.code \in VisibleCodes(q)'
  <2>1. /\ pc[r] = "assign" /\ UNCHANGED <<experiment, created, input, fresh>>
        /\ \A p \in Requests \ {r} : pc'[p] = pc[p]
    BY <1>8 DEF SkipUser, ReuseAssignment, NextUser, dbVars, Inv, RowsInv, TypeInv, TypeOK
  <2>2. QED
    BY <2>1 DEF CodesInv, VisibleCodes
<1>9. ASSUME NEW r \in Requests, InsertDelivery(r)
      PROVE  d.user \in KnownUsers /\ d.code \in VisibleCodes(q)'
  <2>1. CASE Rollback(r, "duplicate_row")
    BY <1>2, <2>1
  <2>2. CASE ~Rollback(r, "duplicate_row")
    <3>1. PICK row : /\ row.user = at[r] /\ row.code \in VisibleCodes(r)
                     /\ created' = [created EXCEPT ![r] = @ \cup {row}]
      BY <1>9, <2>2 DEF InsertDelivery
    <3>2. /\ pc[r] = "assign" /\ at[r] \in KnownUsers /\ NextUser(r)
          /\ UNCHANGED <<experiment, input, fresh>>
      BY <1>9, <2>2 DEF InsertDelivery, NeedsInsert, dbVars
    <3>3. \A p \in Requests \ {r} : pc'[p] = pc[p]
      BY <3>2 DEF NextUser, Inv, RowsInv, TypeInv, TypeOK
    <3>4. /\ created'[r] = created[r] \cup {row}
          /\ \A p \in Requests \ {r} : created'[p] = created[p]
      BY <3>1 DEF Inv, RowsInv, TypeInv, TypeOK
    <3>5. QED
      BY <3>1, <3>2, <3>3, <3>4 DEF CodesInv, VisibleCodes
  <2>3. QED
    BY <2>1, <2>2
<1>10. ASSUME NEW r \in Requests, Commit(r)
       PROVE  d.user \in KnownUsers /\ d.code \in VisibleCodes(q)'
  <2>1. /\ pc'[r] = "done" /\ UNCHANGED <<input, created>>
        /\ \A p \in Requests \ {r} : pc'[p] = pc[p] /\ fresh'[p] = fresh[p]
        /\ experiment' = experiment \/ fresh[r]
    BY <1>10 DEF Commit, Inv, RowsInv, TypeInv, TypeOK
  <2>2. q # r /\ pc[q] \in {"assign", "commit"}
    BY <2>1
  <2>3. fresh[q] \/ experiment' = experiment
    <3>1. fresh[r] => experiment = None /\ ~fresh[q]
      BY <2>2 DEF Inv, SerialInv, LockInv
    <3>2. fresh[q] \/ experiment # None
      BY <2>2 DEF Inv, RowsInv, TypeInv, ExperimentGiven
    <3>3. QED
      BY <2>1, <3>1, <3>2
  <2>4. QED
    BY <2>1, <2>2, <2>3 DEF CodesInv, VisibleCodes
<1>11. ASSUME NEW r \in Requests, Fail(r) \/ AbortDeadlock(r)
       PROVE  d.user \in KnownUsers /\ d.code \in VisibleCodes(q)'
  BY <1>2, <1>11 DEF Fail, AbortDeadlock
<1>12. QED
  BY <1>1, <1>4, <1>5, <1>6, <1>7, <1>8, <1>9, <1>10, <1>11 DEF Next, Statement

\* What the rows of distinct users assign.
LEMMA AssignedInRows ==
  ASSUME NEW rows \in SUBSET Delivery, OneRowPerUser(rows)
  PROVE  /\ \A d \in rows : d.user \in Users /\ AssignedIn(rows)[d.user] = d.code
         /\ \A u \in Users : u \notin UsersOf(rows) => AssignedIn(rows)[u] = None
         /\ \A u \in Users : u \in UsersOf(rows) => AssignedIn(rows)[u] \in Codes
<1>1. ASSUME NEW d \in rows
      PROVE  d.user \in Users /\ d.code \in Codes /\ AssignedIn(rows)[d.user] = d.code
  <2> DEFINE e == CHOOSE x \in rows : x.user = d.user
  <2>1. d.user \in Users /\ d.code \in Codes /\ d.user \in UsersOf(rows)
    BY DEF Delivery, UsersOf
  <2>2. e \in rows /\ e.user = d.user
    BY Zenon
  <2>3. e = d
    BY <2>2 DEF OneRowPerUser
  <2>4. AssignedIn(rows)[d.user] = e.code
    BY <2>1 DEF AssignedIn
  <2>5. QED
    BY <2>1, <2>3, <2>4
<1>2. \A u \in Users : u \notin UsersOf(rows) => AssignedIn(rows)[u] = None
  BY DEF AssignedIn
<1>3. \A u \in UsersOf(rows) : AssignedIn(rows)[u] \in Codes
  BY <1>1 DEF UsersOf
<1>4. QED
  BY <1>1, <1>2, <1>3

\* The users a commit newly assigns are the known users of its request who had
\* no variant.
LEMMA Newcomers ==
  ASSUME Inv, CodesInv, NEW r \in Requests, pc[r] = "commit", input[r].kind # "create"
  PROVE  \A u \in Users : u \in UsersOf(created[r]) <=>
           u \in input[r].users \cap KnownUsers /\ u \notin UsersOf(deliveries)
<1>1. input[r].users = Handled(r)
  BY DEF Inv, AnswerInv, DoneInv, Accounted
<1>2. UsersOf(reused[r]) \subseteq UsersOf(deliveries)
  BY DEF Inv, AnswerInv, ReadInv, UsersOf
<1>3. skipped[r] \cap KnownUsers \subseteq UsersOf(deliveries)
  BY DEF Inv, AnswerInv, ReadInv, UsersOf
<1>4. UsersOf(created[r]) \cap UsersOf(deliveries) = {}
  BY DEF Inv, RowsInv, OpenRowsInv, InTransaction, Disjoint, UsersOf
<1>5. UsersOf(created[r]) \subseteq KnownUsers
  BY DEF CodesInv, UsersOf
<1>6. QED
  BY <1>1, <1>2, <1>3, <1>4, <1>5 DEF Handled

LEMMA CommitAssigns ==
  ASSUME Inv, CodesInv, NEW r \in Requests, Commit(r), input[r].kind # "create",
         OneAssignmentPerUser'
  PROVE  Ledger!AssignNewcomers(input[r], VisibleCodes(r))
<1> DEFINE before == AssignedIn(deliveries)
           after  == AssignedIn(deliveries')
           own    == AssignedIn(created[r])
           codes  == VisibleCodes(r)
<1>1. /\ pc[r] = "commit" /\ deliveries' = deliveries \cup created[r]
      /\ created[r] \subseteq Delivery /\ deliveries \subseteq Delivery
      /\ deliveries' \subseteq Delivery
      /\ input[r] \in Inputs
  BY DEF Commit, Inv, RowsInv, TypeInv, TypeOK, InputGiven
<1>2. OneRowPerUser(deliveries') /\ OneRowPerUser(deliveries) /\ OneRowPerUser(created[r])
  BY <1>1 DEF OneRowPerUser, OneAssignmentPerUser, Inv, RowsInv, OpenRowsInv, InTransaction
<1>3. \A u \in Users : u \in UsersOf(created[r]) <=>
        u \in input[r].users \cap KnownUsers /\ u \notin UsersOf(deliveries)
  BY <1>1, Newcomers
<1>4. PICK anyone \in codes : TRUE
  <2>1. fresh[r] \/ experiment # None
    BY <1>1 DEF Inv, RowsInv, TypeInv, ExperimentGiven
  <2>2. experiment # None => experiment.codes # {}
    BY DEF Inv, RowsInv, TypeInv, TypeOK
  <2>3. input[r].codes # {}
    BY <1>1, InputsAssumption
  <2>4. QED
    BY <2>1, <2>2, <2>3 DEF VisibleCodes
<1> DEFINE choice == [u \in Users |-> IF u \in UsersOf(created[r]) THEN own[u] ELSE anyone]
<1>5. choice \in [Users -> codes]
  <2>1. ASSUME NEW u \in Users, u \in UsersOf(created[r]) PROVE own[u] \in codes
    <3>1. PICK d \in created[r] : d.user = u
      BY <2>1 DEF UsersOf
    <3>2. own[u] = d.code
      BY <1>1, <1>2, <3>1, AssignedInRows
    <3>3. d.code \in codes
      BY <1>1, <3>1 DEF CodesInv
    <3>4. QED
      BY <3>2, <3>3
  <2>2. QED
    BY <1>4, <2>1
<1>6. ASSUME NEW u \in Users
      PROVE  after[u] = IF u \in UsersOf(created[r]) THEN own[u] ELSE before[u]
  <2>1. CASE u \in UsersOf(created[r])
    <3>1. PICK d \in created[r] : d.user = u
      BY <2>1 DEF UsersOf
    <3>2. after[u] = d.code /\ own[u] = d.code
      BY <1>1, <1>2, <3>1, AssignedInRows
    <3>3. QED
      BY <2>1, <3>2
  <2>2. CASE u \notin UsersOf(created[r]) /\ u \in UsersOf(deliveries)
    <3>1. PICK d \in deliveries : d.user = u
      BY <2>2 DEF UsersOf
    <3>2. after[u] = d.code /\ before[u] = d.code
      BY <1>1, <1>2, <3>1, AssignedInRows
    <3>3. QED
      BY <2>2, <3>2
  <2>3. CASE u \notin UsersOf(created[r]) /\ u \notin UsersOf(deliveries)
    <3>1. u \notin UsersOf(deliveries')
      BY <1>1, <2>3 DEF UsersOf
    <3>2. after[u] = None /\ before[u] = None
      BY <1>1, <1>2, <2>3, <3>1, AssignedInRows
    <3>3. QED
      BY <2>3, <3>2
  <2>4. QED
    BY <2>1, <2>2, <2>3
<1>7. ASSUME NEW u \in Users
      PROVE  before[u] = None <=> u \notin UsersOf(deliveries)
  BY <1>1, <1>2, AssignedInRows, NoneAssumption
<1>8. after = [u \in Users |-> IF u \in input[r].users \cap KnownUsers /\ before[u] = None
                            THEN choice[u] ELSE before[u]]
  <2>1. after = [u \in Users |-> after[u]]
    BY DEF AssignedIn
  <2> HIDE DEF after, before, own
  <2>2. \A u \in Users : after[u] = IF u \in input[r].users \cap KnownUsers /\ before[u] = None
                                   THEN choice[u] ELSE before[u]
    BY <1>3, <1>6, <1>7
  <2>3. QED
    BY <2>1, <2>2, Zenon
<1>9. QED
  BY <1>5, <1>8 DEF Ledger!AssignNewcomers

LEMMA CommitMovesLedger ==
  ASSUME Inv, CodesInv, NEW r \in Requests, Commit(r), OneAssignmentPerUser'
  PROVE  Ledger!LedgerNext
<1> DEFINE in == input[r]
<1>1. /\ pc[r] = "commit" /\ in \in Inputs
      /\ in.kind \in {"run", "create", "assign"} /\ in.codes \subseteq Codes
      /\ fresh[r] \in BOOLEAN
  BY InputsAssumption DEF Commit, Inv, RowsInv, TypeInv, TypeOK, InputGiven
<1>2. /\ experiment' = IF fresh[r] THEN [channel |-> in.channel, codes |-> in.codes]
                       ELSE experiment
      /\ message' = [c \in Codes |-> IF c \in holds[r] THEN r ELSE message[c]]
      /\ deliveries' = deliveries \cup created[r]
  BY DEF Commit
<1>3. fresh[r] => experiment = None
  BY DEF Inv, SerialInv, LockInv
<1>4. CASE in.kind = "create"
  <2>1. fresh[r] /\ holds[r] = in.codes /\ created[r] = {}
    BY <1>1, <1>4 DEF Inv, SerialInv, HoldsInv
  <2>2. deliveries' = deliveries
    BY <1>2, <2>1
  <2>3. AssignedIn(deliveries)' = AssignedIn(deliveries)
    BY <2>2 DEF AssignedIn
  <2>4. Ledger!WriteMessages(r, in)
    BY <1>2, <2>1 DEF Ledger!WriteMessages
  <2>5. Ledger!CreateExperiment(r, in)
    BY <1>2, <1>3, <1>4, <2>1, <2>3, <2>4 DEF Ledger!CreateExperiment
  <2>6. QED
    BY <1>1, <2>5 DEF Ledger!LedgerNext
<1>5. CASE in.kind = "run"
  <2>1. /\ holds[r] = in.codes
        /\ fresh[r] \/ (experiment # None /\ SameExperiment(in))
    BY <1>1, <1>5 DEF Inv, SerialInv, HoldsInv
  <2>2. VisibleCodes(r) = in.codes
    BY <2>1 DEF VisibleCodes, SameExperiment
  <2>3. Ledger!AssignNewcomers(in, in.codes)
    BY <1>5, <2>2, CommitAssigns
  <2>4. Ledger!WriteMessages(r, in)
    BY <1>2, <2>1 DEF Ledger!WriteMessages
  <2>5. Ledger!CreateExperiment(r, in) \/ Ledger!RerunExperiment(r, in)
    BY <1>1, <1>2, <1>3, <1>5, <2>1, <2>3, <2>4
    DEF Ledger!CreateExperiment, Ledger!RerunExperiment, SameExperiment
  <2>6. QED
    BY <1>1, <2>5 DEF Ledger!LedgerNext
<1>6. CASE in.kind = "assign"
  <2>1. ~fresh[r] /\ holds[r] = {}
    BY <1>1, <1>6 DEF Inv, SerialInv, HoldsInv
  <2>2. experiment # None
    BY <1>1, <2>1 DEF Inv, RowsInv, TypeInv, ExperimentGiven
  <2>3. message' = message
    BY <1>2, <2>1 DEF Inv, RowsInv, TypeInv, TypeOK
  <2>4. Ledger!AssignNewcomers(in, experiment.codes)
    BY <1>6, <2>1, CommitAssigns DEF VisibleCodes
  <2>5. Ledger!AssignUsers(in)
    BY <1>2, <1>6, <2>1, <2>2, <2>3, <2>4 DEF Ledger!AssignUsers
  <2>6. QED
    BY <1>1, <2>5 DEF Ledger!LedgerNext
<1>7. QED
  BY <1>1, <1>4, <1>5, <1>6

\* Every other statement leaves the committed tables as they are.
LEMMA OnlyCommitMoves ==
  ASSUME [Next]_vars, \A r \in Requests : ~Commit(r)
  PROVE  UNCHANGED Ledger!ledgerVars
<1>1. UNCHANGED <<experiment, message, deliveries>>
  BY DEF Next, vars, Statement, Arrive, LookupExperiment, InsertExperiment, RefreshVariant,
         LoadAssignments, SkipUser, ReuseAssignment, InsertDelivery, AbortDeadlock, Fail,
         Rollback, dbVars
<1>2. AssignedIn(deliveries)' = AssignedIn(deliveries)
  BY <1>1 DEF AssignedIn
<1>3. QED
  BY <1>1, <1>2 DEF Ledger!ledgerVars

LEMMA InitIsLedgerInit == Init => Ledger!LedgerInit
<1> SUFFICES ASSUME Init PROVE Ledger!LedgerInit
  OBVIOUS
<1>1. AssignedIn(deliveries) = [u \in Users |-> None]
  BY DEF Init, AssignedIn, UsersOf
<1>2. QED
  BY <1>1 DEF Init, Ledger!LedgerInit

\* Each accepted request is one atomic step of the ledger, for any number of
\* requests, users, variants and bodies, and everything else is invisible.
THEOREM ImplementsTheLedger == Spec => ImplementsLedger
<1>1. Init => Ledger!LedgerInit /\ CodesInv
  BY InitIsLedgerInit, CodesInvInit
<1>2. Inv /\ CodesInv /\ [Next]_vars => CodesInv'
  BY CodesInvNext
<1>3. Inv /\ CodesInv /\ [Next]_vars => [Ledger!LedgerNext]_(Ledger!ledgerVars)
  <2> SUFFICES ASSUME Inv, CodesInv, [Next]_vars
               PROVE  Ledger!LedgerNext \/ UNCHANGED Ledger!ledgerVars
    OBVIOUS
  <2>1. CASE \A r \in Requests : ~Commit(r)
    BY <2>1, OnlyCommitMoves
  <2>2. ASSUME NEW r \in Requests, Commit(r)
        PROVE  Ledger!LedgerNext
    <3>1. OneAssignmentPerUser'
      BY RowsInvNext DEF Inv, RowsInv
    <3>2. QED
      BY <2>2, <3>1, CommitMovesLedger
  <2>3. QED
    BY <2>1, <2>2
<1>4. Spec => [](Inv /\ DisturbInv)
  BY InvCorrect
<1>5. QED
  BY <1>1, <1>2, <1>3, <1>4, PTL DEF Spec, ImplementsLedger, Ledger!LedgerSpec

(***************************************************************************)
(* What the ledger guarantees holds of the statements.                      *)
(***************************************************************************)

LEMMA LedgerKeepsAuthor ==
  ASSUME Ledger!OneAuthor, [Ledger!LedgerNext]_(Ledger!ledgerVars)
  PROVE  Ledger!OneAuthor'
<1>1. CASE UNCHANGED Ledger!ledgerVars
  BY <1>1 DEF Ledger!ledgerVars, Ledger!OneAuthor
<1>2. ASSUME NEW r \in Requests, NEW in \in Inputs,
             Ledger!CreateExperiment(r, in) \/ Ledger!RerunExperiment(r, in)
      PROVE  Ledger!OneAuthor'
  <2>1. in.codes \subseteq Codes
    BY InputsAssumption
  <2>2. experiment' = [channel |-> in.channel, codes |-> in.codes]
        /\ Ledger!WriteMessages(r, in)
    BY <1>2 DEF Ledger!CreateExperiment, Ledger!RerunExperiment
  <2>3. experiment'.codes = in.codes /\ \A c \in in.codes : message'[c] = r
    BY <2>1, <2>2 DEF Ledger!WriteMessages
  <2>4. QED
    BY <2>3 DEF Ledger!OneAuthor
<1>3. ASSUME NEW in \in Inputs, Ledger!AssignUsers(in)
      PROVE  Ledger!OneAuthor'
  BY <1>3 DEF Ledger!AssignUsers, Ledger!OneAuthor
<1>4. QED
  BY <1>1, <1>2, <1>3 DEF Ledger!LedgerNext

\* However reruns and creations interleave, the texts of an experiment's variants
\* are those of one request.
THEOREM MessagesHaveOneAuthor == Spec => []Ledger!OneAuthor
<1>1. Ledger!LedgerInit => Ledger!OneAuthor
  BY DEF Ledger!LedgerInit, Ledger!OneAuthor
<1>2. QED
  BY <1>1, LedgerKeepsAuthor, ImplementsTheLedger, PTL
  DEF ImplementsLedger, Ledger!LedgerSpec

\* What a step of the ledger assigns: the variants of an experiment that is there
\* afterwards, to known users who had none.
LEMMA LedgerAssigns ==
  ASSUME Ledger!LedgerNext
  PROVE  /\ experiment # None => experiment' = experiment
         /\ \A u \in Users :
              \/ AssignedIn(deliveries)'[u] = AssignedIn(deliveries)[u]
              \/ /\ AssignedIn(deliveries)[u] = None /\ u \in KnownUsers
                 /\ experiment' # None
                 /\ AssignedIn(deliveries)'[u] \in experiment'.codes
<1> DEFINE Assigns(codes) ==
             \A u \in Users :
               \/ AssignedIn(deliveries)'[u] = AssignedIn(deliveries)[u]
               \/ /\ AssignedIn(deliveries)[u] = None /\ u \in KnownUsers
                  /\ AssignedIn(deliveries)'[u] \in codes
<1>1. ASSUME NEW in \in Inputs, NEW CONSTANT codes, Ledger!AssignNewcomers(in, codes)
      PROVE  Assigns(codes)
  <2>1. PICK choice \in [Users -> codes] :
          AssignedIn(deliveries)' =
            [u \in Users |-> IF u \in in.users \cap KnownUsers /\ AssignedIn(deliveries)[u] = None
                             THEN choice[u] ELSE AssignedIn(deliveries)[u]]
    BY <1>1 DEF Ledger!AssignNewcomers
  <2>2. QED
    BY <2>1
<1>2. \A in \in Inputs : [channel |-> in.channel, codes |-> in.codes] # None
  BY InputsAssumption, NoneAssumption
<1>3. ASSUME NEW r \in Requests, NEW in \in Inputs,
             Ledger!CreateExperiment(r, in) \/ Ledger!RerunExperiment(r, in)
      PROVE  /\ experiment # None => experiment' = experiment
             /\ experiment' # None
             /\ experiment'.codes = in.codes
             /\ Ledger!AssignNewcomers(in, in.codes)
                \/ AssignedIn(deliveries)' = AssignedIn(deliveries)
  BY <1>2, <1>3 DEF Ledger!CreateExperiment, Ledger!RerunExperiment
<1>4. QED
  BY <1>1, <1>3 DEF Ledger!LedgerNext, Ledger!AssignUsers

\* A user who has a variant is in table users and has a variant of the experiment,
\* also when a rerun and an assignments call meet.
THEOREM VariantsAreTheExperiments == Spec => []Ledger!AssignedWithin
<1>1. Ledger!LedgerInit => Ledger!AssignedWithin
  BY DEF Ledger!LedgerInit, Ledger!AssignedWithin
<1>2. Ledger!AssignedWithin /\ [Ledger!LedgerNext]_(Ledger!ledgerVars) => Ledger!AssignedWithin'
  <2> SUFFICES ASSUME Ledger!AssignedWithin, [Ledger!LedgerNext]_(Ledger!ledgerVars)
               PROVE  Ledger!AssignedWithin'
    OBVIOUS
  <2>1. CASE UNCHANGED Ledger!ledgerVars
    BY <2>1 DEF Ledger!ledgerVars, Ledger!AssignedWithin
  <2>2. CASE Ledger!LedgerNext
    BY <2>2, LedgerAssigns DEF Ledger!AssignedWithin
  <2>3. QED
    BY <2>1, <2>2
<1>3. QED
  BY <1>1, <1>2, ImplementsTheLedger, PTL DEF ImplementsLedger, Ledger!LedgerSpec

\* No request ever moves a user to another variant or changes an experiment.
THEOREM VariantsAreForLife == Spec => Ledger!AssignedForLife
<1> DEFINE Kept == /\ experiment # None => experiment' = experiment
                   /\ \A u \in Users : AssignedIn(deliveries)[u] # None =>
                        AssignedIn(deliveries)'[u] = AssignedIn(deliveries)[u]
<1>1. [Ledger!LedgerNext]_(Ledger!ledgerVars) => [Kept]_(Ledger!ledgerVars)
  BY LedgerAssigns
<1>2. QED
  BY <1>1, ImplementsTheLedger, PTL
  DEF ImplementsLedger, Ledger!LedgerSpec, Ledger!AssignedForLife

(***************************************************************************)
(* What the end of every request rests on, besides fairness: whoever waits *)
(* can go on after others or is found by the deadlock detector, and no     *)
(* statement is repeated.                                                  *)
(***************************************************************************)

\* A statement waits for at most one transaction, so a deadlock is a cycle and
\* aborting one of its members breaks it.
WaitsForOne == \A r \in Requests : \A p, q \in WaitsFor(r) : p = q

\* Open transactions never all wait without a cycle PostgreSQL detects: either
\* one of them can execute its next statement or one of them is in a deadlock.
StallIsDetected ==
  (\E r \in Requests : InTransaction(r)) =>
    \E r \in Requests : InTransaction(r) /\ (WaitsFor(r) = {} \/ InDeadlock(r))

\* The experiment row has one inserter, a variant row one holder and a user one
\* open delivery row.
THEOREM RequestsWaitForOne == Spec => []WaitsForOne
<1>1. Inv => WaitsForOne
  <2> SUFFICES ASSUME Inv, NEW r \in Requests, NEW p \in WaitsFor(r), NEW q \in WaitsFor(r),
                      p # q
               PROVE  FALSE
    BY DEF WaitsForOne
  <2>1. p \in Requests /\ q \in Requests /\ InTransaction(p) /\ InTransaction(q)
    BY DEF WaitsFor
  <2>2. CASE pc[r] = "insert"
    <3>1. fresh[p] /\ fresh[q]
      BY <2>2 DEF WaitsFor, NeedsInsert
    <3>2. QED
      BY <2>1, <3>1 DEF Inv, SerialInv, LockInv
  <2>3. CASE pc[r] = "refresh"
    <3>1. at[r] \in holds[p] \cap holds[q]
      BY <2>3 DEF WaitsFor, NeedsInsert
    <3>2. QED
      BY <2>1, <3>1 DEF Inv, SerialInv, LockInv
  <2>4. CASE NeedsInsert(r)
    <3>1. at[r] \in UsersOf(created[p]) /\ at[r] \in UsersOf(created[q])
      BY <2>4 DEF WaitsFor, NeedsInsert
    <3>2. QED
      BY <2>1, <3>1 DEF Inv, RowsInv, OpenRowsInv, Disjoint, UsersOf
  <2>5. QED
    BY <2>2, <2>3, <2>4 DEF WaitsFor
<1>2. QED
  BY InvCorrect, <1>1, PTL

\* Among finitely many requests of which each waits for one of them, some wait in a
\* cycle: a smallest such set has nobody for whom no other waits.
LEMMA WaitersHoldACycle ==
  ASSUME IsFiniteSet(Requests),
         NEW waiters \in SUBSET Requests, waiters # {},
         \A p \in waiters : \E q \in waiters : q \in WaitsFor(p)
  PROVE  \E r \in waiters : InDeadlock(r)
<1> DEFINE Stuck(S) == \A p \in S : \E q \in S : q \in WaitsFor(p)
           Sets == {S \in SUBSET waiters : S # {} /\ Stuck(S)}
<1>1. Sets \subseteq FiniteSubsetsOf(Requests) /\ Sets # {}
  <2>1. \A S \in SUBSET Requests : IsFiniteSet(S)
    BY FS_Subset
  <2>2. waiters \in Sets
    OBVIOUS
  <2>3. QED
    BY <2>1, <2>2 DEF FiniteSubsetsOf
<1>2. PICK cycle \in Sets : \A S \in Sets : <<S, cycle>> \notin StrictSubsetOrdering(Requests)
  <2> HIDE DEF Sets
  <2>1. QED
    BY <1>1, FS_StrictSubsetOrderingWellFounded, WFMin
<1>3. cycle \in SUBSET Requests /\ cycle \subseteq waiters /\ cycle # {} /\ Stuck(cycle)
  OBVIOUS
<1>4. ASSUME NEW p \in cycle PROVE \E q \in cycle : p \in WaitsFor(q)
  <2>1. SUFFICES ASSUME \A q \in cycle : p \notin WaitsFor(q) PROVE FALSE
    OBVIOUS
  <2> DEFINE rest == cycle \ {p}
  <2>2. Stuck(rest)
    BY <1>3, <2>1
  <2>3. PICK q \in cycle : q \in WaitsFor(p)
    BY <1>3
  <2>4. q \in rest
    BY <2>3 DEF WaitsFor
  <2>5. rest \in Sets
    BY <1>3, <2>2, <2>4
  <2>6. <<rest, cycle>> \in StrictSubsetOrdering(Requests)
    BY <1>3 DEF StrictSubsetOrdering
  <2>7. QED
    BY <1>2, <2>5, <2>6
<1>5. PICK r \in cycle : TRUE
  BY <1>3
<1>6. InDeadlock(r)
  BY <1>3, <1>4 DEF InDeadlock
<1>7. QED
  BY <1>3, <1>6

\* Requests that all wait are always found by the deadlock detector, whatever users
\* and variants they list and in whatever order.
THEOREM StallsAreDetected ==
  ASSUME IsFiniteSet(Requests)
  PROVE  Spec => []StallIsDetected
<1>1. StallIsDetected
  <2> DEFINE open == {r \in Requests : InTransaction(r)}
  <2>1. SUFFICES ASSUME open # {}, \A r \in open : WaitsFor(r) # {}
                 PROVE  \E r \in open : InDeadlock(r)
    BY DEF StallIsDetected
  <2>2. \A p \in open : \E q \in open : q \in WaitsFor(p)
    BY <2>1 DEF WaitsFor
  <2>3. open \in SUBSET Requests
    OBVIOUS
  <2> HIDE DEF open
  <2>4. QED
    BY <2>1, <2>2, <2>3, WaitersHoldACycle
<1>2. QED
  BY <1>1, PTL

\* A deadlock is among requests at the same kind of row: reruns that list the same
\* variants in different orders, or requests that list the same users in different
\* orders, and then two neighbours in the cycle are never both runs.
DeadlocksAreLocal ==
  \A r \in Requests : InDeadlock(r) =>
    /\ pc[r] \in {"refresh", "assign"}
    /\ \A q \in WaitsFor(r) :
         /\ pc[q] = pc[r]
         /\ pc[r] = "assign" => "assign" \in {input[r].kind, input[q].kind}

\* Whom others wait for: nobody before the variant rows, and at these rows only
\* one who waits for a variant row as well.
LEMMA WaitedFor ==
  ASSUME Inv, NEW q \in Requests, NEW p \in WaitsFor(q), WaitsFor(p) # {}
  PROVE  /\ p \in Requests /\ p # q
         /\ pc[p] \in {"refresh", "assign"}
         /\ pc[p] = "refresh" => pc[q] = "refresh"
<1>1. p \in Requests /\ p # q /\ pc[p] \in {"insert", "refresh", "assign"}
  BY DEF WaitsFor, NeedsInsert
<1>2. fresh[p] => pc[p] = "assign"
  BY <1>1 DEF Inv, RowsInv, TypeInv, FreshGiven
<1>3. holds[p] # {} => pc[p] \in {"refresh", "assign"}
  BY <1>1 DEF Inv, SerialInv, LockInv
<1>4. created[p] # {} => pc[p] = "assign"
  BY <1>1 DEF Inv, RowsInv, LoopInv, BeforeLoop
<1>5. \/ fresh[p]
      \/ pc[q] = "refresh" /\ holds[p] # {}
      \/ created[p] # {}
  BY DEF WaitsFor, UsersOf
<1>6. QED
  BY <1>1, <1>2, <1>3, <1>4, <1>5

\* In a cycle of waits who is at a variant row waits for one who is.
LEMMA RefreshCycle ==
  ASSUME Inv, WaitsForOne, IsFiniteSet(Requests), NEW cycle \in SUBSET Requests,
         \A p \in cycle : /\ \E q \in cycle : q \in WaitsFor(p)
                          /\ \E q \in cycle : p \in WaitsFor(q),
         NEW r \in cycle, pc[r] = "refresh", NEW q \in WaitsFor(r)
  PROVE  pc[q] = "refresh"
<1> DEFINE R == {p \in cycle : pc[p] = "refresh"}
           waiter == [p \in R |-> CHOOSE w \in R : p \in WaitsFor(w)]
           others == R \ {r}
<1>1. ASSUME NEW p \in R PROVE \E w \in R : p \in WaitsFor(w)
  <2>1. PICK w \in cycle : p \in WaitsFor(w)
    OBVIOUS
  <2>2. pc[w] = "refresh"
    BY <2>1, WaitedFor
  <2>3. QED
    BY <2>1, <2>2
<1>2. waiter \in [R -> R] /\ \A p \in R : p \in WaitsFor(waiter[p])
  BY <1>1
<1>3. IsFiniteSet(R) /\ IsFiniteSet(others) /\ Cardinality(others) < Cardinality(R)
  <2>1. IsFiniteSet(R)
    BY FS_Subset
  <2>2. r \in R
    OBVIOUS
  <2> HIDE DEF R
  <2>3. Cardinality(R) \in Nat
    BY <2>1, FS_CardinalityType
  <2>4. IsFiniteSet(R \ {r}) /\ Cardinality(R \ {r}) = Cardinality(R) - 1
    BY <2>1, <2>2, FS_RemoveElement
  <2>5. QED
    BY <2>1, <2>3, <2>4
<1> HIDE DEF waiter
<1>4. \E p \in R : waiter[p] = r
  <2>1. SUFFICES ASSUME \A p \in R : waiter[p] # r PROVE FALSE
    OBVIOUS
  <2>2. waiter \in [R -> others]
    BY <1>2, <2>1
  <2> HIDE DEF R, others
  <2>3. PICK p1, p2 \in R : p1 # p2 /\ waiter[p1] = waiter[p2]
    BY <1>3, <2>2, FS_PigeonHole
  <2>4. waiter[p1] \in Requests
    BY <1>2 DEF R
  <2>5. QED
    BY <1>2, <2>3, <2>4 DEF WaitsForOne
<1>5. PICK p \in R : waiter[p] = r
  BY <1>4
<1>6. p \in WaitsFor(r) /\ pc[p] = "refresh"
  BY <1>2, <1>5
<1>7. QED
  BY <1>6 DEF WaitsForOne

\* Deadlocks of the experiment endpoints are among variant rows or among delivery
\* rows, never across, and never between two runs over delivery rows.
THEOREM DeadlocksStayInOneTable ==
  ASSUME IsFiniteSet(Requests)
  PROVE  Spec => []DeadlocksAreLocal
<1>1. Inv /\ WaitsForOne => DeadlocksAreLocal
  <2> SUFFICES ASSUME Inv, WaitsForOne, NEW r \in Requests, InDeadlock(r)
               PROVE  /\ pc[r] \in {"refresh", "assign"}
                      /\ \A q \in WaitsFor(r) :
                           /\ pc[q] = pc[r]
                           /\ pc[r] = "assign" => "assign" \in {input[r].kind, input[q].kind}
    BY DEF DeadlocksAreLocal
  <2>1. PICK cycle \in SUBSET Requests :
          /\ r \in cycle
          /\ \A p \in cycle : /\ \E q \in cycle : q \in WaitsFor(p)
                              /\ \E q \in cycle : p \in WaitsFor(q)
    BY DEF InDeadlock
  <2>2. pc[r] \in {"refresh", "assign"}
    BY <2>1, WaitedFor
  <2>3. ASSUME NEW q \in WaitsFor(r) PROVE pc[q] = pc[r]
    <3>1. q \in cycle
      BY <2>1, <2>3 DEF WaitsForOne
    <3>2. CASE pc[r] = "refresh"
      BY <2>1, <3>2, RefreshCycle
    <3>3. CASE pc[r] = "assign"
      BY <2>1, <3>1, <3>3, WaitedFor
    <3>4. QED
      BY <2>2, <3>2, <3>3
  <2>4. ASSUME NEW q \in WaitsFor(r), pc[r] = "assign"
        PROVE  "assign" \in {input[r].kind, input[q].kind}
    <3>1. q \in Requests \ {r} /\ pc[q] = "assign"
      BY <2>3, <2>4 DEF WaitsFor
    <3>2. input[r].kind \in {"run", "assign"} /\ input[q].kind \in {"run", "assign"}
      BY <2>4, <3>1 DEF Inv, SerialInv, KindInv
    <3>3. ~(Runs(r) /\ Runs(q))
      BY <3>1, OneRunAtATime DEF Inv
    <3>4. QED
      BY <2>4, <3>1, <3>2, <3>3 DEF Runs
  <2>5. QED
    BY <2>2, <2>3, <2>4
<1>2. QED
  BY InvCorrect, RequestsWaitForOne, <1>1, PTL

\* The statements a request still has at most before it, if Users and Codes are
\* finite.
Remaining(r) ==
  CASE pc[r] = "idle"    -> Cardinality(Users) + Cardinality(Codes) + 6
    [] pc[r] = "lookup"  -> Cardinality(Users) + Cardinality(Codes) + 5
    [] pc[r] = "insert"  -> Cardinality(Users) + Cardinality(Codes) + 4
    [] pc[r] = "refresh" -> Cardinality(Users) + Cardinality(input[r].codes \ holds[r]) + 3
    [] pc[r] = "load"    -> Cardinality(Users) + 2
    [] pc[r] = "assign"  -> Cardinality(input[r].users \ Handled(r)) + 1
    [] pc[r] = "commit"  -> 1
    [] pc[r] = "done"    -> 0

\* Every step brings one request nearer to its end and leaves the others where they
\* are: a rerun updates each variant once and a loop handles each user once, so a
\* request executes at most |Users| + |Codes| + 6 statements.
OneRequestAdvances ==
  [][\E r \in Requests :
       /\ Remaining(r)' < Remaining(r)
       /\ \A q \in Requests \ {r} : Remaining(q)' = Remaining(q)]_vars

\* The variant a rerun is about to update is one it has not updated.
NextVariantInv == \A r \in Requests : pc[r] = "refresh" => at[r] \notin holds[r]

LEMMA NextVariantNext == Inv /\ NextVariantInv /\ [Next]_vars => NextVariantInv'
<1> SUFFICES ASSUME Inv, NextVariantInv, [Next]_vars,
                    NEW q \in Requests, pc'[q] = "refresh"
             PROVE  at'[q] \notin holds'[q]
  BY DEF NextVariantInv
<1> USE DEF NextVariantInv, Inv, RowsInv, TypeInv, TypeOK
<1>1. CASE UNCHANGED vars
  BY <1>1 DEF vars
<1>2. ASSUME NEW r \in Requests, q # r,
             (\E in \in Inputs : Arrive(r, in)) \/ Statement(r) \/ AbortDeadlock(r) \/ Fail(r)
      PROVE  pc'[q] = pc[q] /\ at'[q] = at[q] /\ holds'[q] = holds[q]
  <2>1. CASE (\E in \in Inputs : Arrive(r, in)) \/ AbortDeadlock(r) \/ Fail(r) \/ Commit(r)
    BY <1>2, <2>1 DEF Arrive, AbortDeadlock, Fail, Commit, Rollback
  <2>2. CASE LookupExperiment(r) \/ InsertExperiment(r)
    BY <1>2, <2>2 DEF LookupExperiment, InsertExperiment, BeginRefresh, Rollback
  <2>3. CASE RefreshVariant(r) \/ LoadAssignments(r)
    BY <1>2, <2>3 DEF RefreshVariant, LoadAssignments, Rollback
  <2>4. CASE SkipUser(r) \/ ReuseAssignment(r) \/ InsertDelivery(r)
    BY <1>2, <2>4 DEF SkipUser, ReuseAssignment, InsertDelivery, NextUser, Rollback
  <2>5. QED
    BY <1>2, <2>1, <2>2, <2>3, <2>4 DEF Statement
<1>3. CASE (\E in \in Inputs : Arrive(q, in)) \/ AbortDeadlock(q) \/ Fail(q) \/ Commit(q)
  <2>1. CASE \E in \in Inputs : Arrive(q, in)
    <3>1. PICK in \in Inputs : Arrive(q, in)
      BY <2>1
    <3>2. in.kind \in {"run", "create", "assign"}
      BY InputsAssumption
    <3>3. pc'[q] # "refresh"
      BY <3>1, <3>2 DEF Arrive
    <3>4. QED
      BY <3>3
  <2>2. CASE AbortDeadlock(q) \/ Fail(q)
    BY <2>2 DEF AbortDeadlock, Fail, Rollback
  <2>3. CASE Commit(q)
    BY <2>3 DEF Commit
  <2>4. QED
    BY <1>3, <2>1, <2>2, <2>3
<1>4. CASE LookupExperiment(q)
  <2>1. holds'[q] = {}
    BY <1>4 DEF LookupExperiment, BeginRefresh, Rollback, SerialInv, LockInv
  <2>2. QED
    BY <2>1
<1>5. CASE RefreshVariant(q)
  BY <1>5 DEF RefreshVariant
<1>6. CASE InsertExperiment(q) \/ LoadAssignments(q)
  BY <1>6 DEF InsertExperiment, LoadAssignments, Rollback
<1>7. CASE SkipUser(q) \/ ReuseAssignment(q) \/ InsertDelivery(q)
  BY <1>7 DEF SkipUser, ReuseAssignment, InsertDelivery, NeedsInsert, NextUser, Rollback
<1>8. QED
  BY <1>1, <1>2, <1>3, <1>4, <1>5, <1>6, <1>7 DEF Next, Statement

\* A subset of a finite set, and what is left of it without some of its elements.
LEMMA SmallerSets ==
  ASSUME NEW S, IsFiniteSet(S), NEW T \in SUBSET S
  PROVE  /\ IsFiniteSet(T) /\ Cardinality(T) \in Nat /\ Cardinality(S) \in Nat
         /\ Cardinality(T) <= Cardinality(S)
         /\ T # S => Cardinality(T) < Cardinality(S)
BY FS_Subset, FS_CardinalityType

\* The end of the loop over the users of a request, or its next round.
LEMMA LoopAdvances ==
  ASSUME IsFiniteSet(Users), Inv, NEW r \in Requests, pc[r] = "assign", NextUser(r),
         Handled(r)' = Handled(r) \cup {at[r]}, UNCHANGED input
  PROVE  Remaining(r)' < Remaining(r)
<1> DEFINE rest == input[r].users \ Handled(r)
<1>1. /\ input[r].users \in SUBSET Users /\ at[r] \in rest
  BY InputsAssumption DEF Inv, RowsInv, TypeInv, InputGiven, LoopInv
<1>2. /\ input'[r].users \ Handled(r)' = rest \ {at[r]}
      /\ pc'[r] = "commit" \/ pc'[r] = "assign"
  BY DEF NextUser, Inv, RowsInv, TypeInv, TypeOK
<1>3. IsFiniteSet(rest)
  BY <1>1, FS_Subset
<1> HIDE DEF rest
<1>4. Cardinality(rest \ {at[r]}) \in Nat /\ Cardinality(rest) \in Nat
      /\ Cardinality(rest \ {at[r]}) < Cardinality(rest)
  BY <1>1, <1>3, SmallerSets
<1>5. Remaining(r) = Cardinality(rest) + 1
  BY DEF Remaining, rest
<1>6. Remaining(r)' = 1 \/ Remaining(r)' = Cardinality(rest \ {at[r]}) + 1
  BY <1>2 DEF Remaining
<1>7. QED
  BY <1>4, <1>5, <1>6

\* The end of a transaction, normal or not.
LEMMA EndAdvances ==
  ASSUME IsFiniteSet(Users), IsFiniteSet(Codes), Inv,
         NEW r \in Requests, InTransaction(r), pc'[r] = "done"
  PROVE  Remaining(r)' < Remaining(r)
<1>1. input[r] \in Inputs /\ input[r].users \in SUBSET Users /\ input[r].codes \in SUBSET Codes
  BY InputsAssumption DEF Inv, RowsInv, TypeInv, InputGiven, InTransaction
<1>2. /\ Cardinality(input[r].users \ Handled(r)) \in Nat
      /\ Cardinality(input[r].codes \ holds[r]) \in Nat
      /\ Cardinality(Users) \in Nat /\ Cardinality(Codes) \in Nat
  <2>1. input[r].users \ Handled(r) \in SUBSET Users /\ input[r].codes \ holds[r] \in SUBSET Codes
    BY <1>1
  <2>2. QED
    BY <2>1, SmallerSets
<1>3. Remaining(r)' = 0
  BY DEF Remaining
<1>4. Remaining(r) > 0
  BY <1>2 DEF Remaining, InTransaction
<1>5. QED
  BY <1>3, <1>4

LEMMA StatementAdvances ==
  ASSUME IsFiniteSet(Users), IsFiniteSet(Codes), Inv, NextVariantInv, NEW r \in Requests,
         (\E in \in Inputs : Arrive(r, in)) \/ Statement(r) \/ AbortDeadlock(r) \/ Fail(r)
  PROVE  Remaining(r)' < Remaining(r)
<1> DEFINE U == Cardinality(Users)
           C == Cardinality(Codes)
<1>1. U \in Nat /\ C \in Nat
  BY SmallerSets
<1>2. pc[r] # "idle" => input[r].users \in SUBSET Users /\ input[r].codes \in SUBSET Codes
  BY InputsAssumption DEF Inv, RowsInv, TypeInv, InputGiven
<1> USE DEF Inv, RowsInv, TypeInv, TypeOK
<1>3. CASE \E in \in Inputs : Arrive(r, in)
  <2>1. pc[r] = "idle" /\ pc'[r] \in {"lookup", "insert", "load"}
    BY <1>3, InputsAssumption DEF Arrive
  <2>2. Remaining(r) = U + C + 6 /\ Remaining(r)' \in {U + C + 5, U + C + 4, U + 2}
    BY <2>1 DEF Remaining
  <2>3. QED
    BY <1>1, <2>2
<1>4. CASE pc'[r] = "done" /\ InTransaction(r)
  BY <1>4, EndAdvances
<1>5. CASE AbortDeadlock(r) \/ Fail(r) \/ Commit(r)
  <2>1. pc'[r] = "done" /\ InTransaction(r)
    BY <1>5 DEF AbortDeadlock, Fail, Commit, Rollback, InTransaction, InDeadlock, WaitsFor,
                NeedsInsert
  <2>2. QED
    BY <1>4, <2>1
<1>6. CASE LookupExperiment(r) /\ pc'[r] # "done"
  <2>1. /\ pc[r] = "lookup" /\ pc'[r] \in {"insert", "refresh"} /\ holds' = holds /\ input' = input
    BY <1>6 DEF LookupExperiment, BeginRefresh, Rollback
  <2>2. input[r].codes \ holds[r] \in SUBSET Codes
    BY <1>2, <2>1
  <2>3. Cardinality(input[r].codes \ holds[r]) \in Nat /\ Cardinality(input[r].codes \ holds[r]) <= C
    BY <2>2, SmallerSets
  <2>4. Remaining(r) = U + C + 5
    BY <2>1 DEF Remaining
  <2>5. Remaining(r)' \in {U + C + 4, U + Cardinality(input[r].codes \ holds[r]) + 3}
    BY <2>1 DEF Remaining
  <2>6. QED
    BY <1>1, <2>3, <2>4, <2>5
<1>7. CASE InsertExperiment(r) /\ pc'[r] # "done"
  <2>1. pc[r] = "insert" /\ pc'[r] \in {"commit", "load"}
    BY <1>7 DEF InsertExperiment, Rollback
  <2>2. Remaining(r) = U + C + 4 /\ Remaining(r)' \in {1, U + 2}
    BY <2>1 DEF Remaining
  <2>3. QED
    BY <1>1, <2>2
<1>8. CASE RefreshVariant(r)
  <2> DEFINE rest == input[r].codes \ holds[r]
  <2>1. /\ pc[r] = "refresh" /\ pc'[r] \in {"refresh", "load"} /\ at[r] \in rest
        /\ input' = input /\ input'[r].codes \ holds'[r] = rest \ {at[r]}
    BY <1>8 DEF RefreshVariant, InputGiven, NextVariantInv
  <2>2. IsFiniteSet(rest)
    BY <1>2, <2>1, FS_Subset
  <2> HIDE DEF rest
  <2>3. /\ Cardinality(rest \ {at[r]}) \in Nat /\ Cardinality(rest) \in Nat
        /\ Cardinality(rest \ {at[r]}) < Cardinality(rest)
    BY <2>1, <2>2, SmallerSets
  <2>4. Remaining(r) = U + Cardinality(rest) + 3
    BY <2>1 DEF Remaining, rest
  <2>5. Remaining(r)' \in {U + 2, U + Cardinality(rest \ {at[r]}) + 3}
    BY <2>1 DEF Remaining
  <2>6. QED
    BY <1>1, <2>3, <2>4, <2>5
<1>9. CASE LoadAssignments(r) /\ pc'[r] # "done"
  <2>1. pc[r] = "load" /\ pc'[r] = "assign" /\ UNCHANGED <<input, created, reused, skipped>>
    BY <1>9 DEF LoadAssignments, Rollback
  <2>2. input[r].users \ Handled(r) \in SUBSET Users
    BY <1>2, <2>1
  <2>3. Cardinality(input[r].users \ Handled(r)) \in Nat
        /\ Cardinality(input[r].users \ Handled(r)) <= U
    BY <2>2, SmallerSets
  <2>4. Remaining(r) = U + 2 /\ Remaining(r)' = Cardinality(input[r].users \ Handled(r)) + 1
    BY <2>1 DEF Remaining, Handled
  <2>5. QED
    BY <1>1, <2>3, <2>4
<1>10. CASE SkipUser(r)
  <2>1. Handled(r)' = Handled(r) \cup {at[r]}
    BY <1>10 DEF SkipUser, Handled
  <2>2. QED
    BY <1>10, <2>1, LoopAdvances DEF SkipUser
<1>11. CASE ReuseAssignment(r)
  <2>1. UsersOf(ExistingAssignment(r)) = {at[r]}
    BY <1>11 DEF ReuseAssignment, ExistingAssignment, UsersOf
  <2>2. UsersOf(reused'[r]) = UsersOf(reused[r]) \cup {at[r]}
    BY <1>11, <2>1 DEF ReuseAssignment, UsersOf
  <2>3. Handled(r)' = Handled(r) \cup {at[r]}
    BY <1>11, <2>2 DEF ReuseAssignment, Handled
  <2>4. QED
    BY <1>11, <2>3, LoopAdvances DEF ReuseAssignment
<1>12. CASE InsertDelivery(r) /\ pc'[r] # "done"
  <2>1. PICK row : row.user = at[r] /\ created' = [created EXCEPT ![r] = @ \cup {row}]
    BY <1>12 DEF InsertDelivery, Rollback
  <2>2. /\ pc[r] = "assign" /\ NextUser(r) /\ UNCHANGED <<input, reused, skipped>>
    BY <1>12 DEF InsertDelivery, Rollback, NeedsInsert
  <2>3. UsersOf(created'[r]) = UsersOf(created[r]) \cup {at[r]}
    BY <2>1 DEF UsersOf
  <2>4. Handled(r)' = Handled(r) \cup {at[r]}
    BY <2>2, <2>3 DEF Handled
  <2>5. QED
    BY <2>2, <2>4, LoopAdvances
<1>13. Statement(r) => InTransaction(r)
  BY DEF Statement, LookupExperiment, InsertExperiment, RefreshVariant, LoadAssignments,
         SkipUser, ReuseAssignment, InsertDelivery, NeedsInsert, Commit, InTransaction
<1>14. QED
  BY <1>3, <1>4, <1>5, <1>6, <1>7, <1>8, <1>9, <1>10, <1>11, <1>12, <1>13 DEF Statement

\* A statement touches the state of its own request and the tables.
LEMMA OthersStay ==
  ASSUME Inv, NEW r \in Requests, NEW q \in Requests \ {r},
         (\E in \in Inputs : Arrive(r, in)) \/ Statement(r) \/ AbortDeadlock(r) \/ Fail(r)
  PROVE  Remaining(q)' = Remaining(q)
<1> USE DEF Inv, RowsInv, TypeInv, TypeOK
<1>1. /\ pc'[q] = pc[q] /\ input'[q] = input[q] /\ holds'[q] = holds[q]
      /\ created'[q] = created[q] /\ reused'[q] = reused[q] /\ skipped'[q] = skipped[q]
  <2>1. CASE (\E in \in Inputs : Arrive(r, in)) \/ AbortDeadlock(r) \/ Fail(r) \/ Commit(r)
    BY <2>1 DEF Arrive, AbortDeadlock, Fail, Commit, Rollback
  <2>2. CASE LookupExperiment(r) \/ InsertExperiment(r)
    BY <2>2 DEF LookupExperiment, InsertExperiment, BeginRefresh, Rollback, loopVars
  <2>3. CASE RefreshVariant(r) \/ LoadAssignments(r)
    BY <2>3 DEF RefreshVariant, LoadAssignments, Rollback, loopVars
  <2>4. CASE SkipUser(r) \/ ReuseAssignment(r) \/ InsertDelivery(r)
    BY <2>4 DEF SkipUser, ReuseAssignment, InsertDelivery, NextUser, Rollback
  <2>5. QED
    BY <2>1, <2>2, <2>3, <2>4 DEF Statement
<1>2. Handled(q)' = Handled(q)
  BY <1>1 DEF Handled, UsersOf
<1>3. QED
  BY <1>1, <1>2 DEF Remaining

\* Requests for finitely many users and variants take finitely many statements,
\* whatever they interleave with and wherever they fail.
THEOREM RequestsAdvance ==
  ASSUME IsFiniteSet(Users), IsFiniteSet(Codes)
  PROVE  Spec => OneRequestAdvances
<1> DEFINE Advances == \E r \in Requests :
             /\ Remaining(r)' < Remaining(r)
             /\ \A q \in Requests \ {r} : Remaining(q)' = Remaining(q)
<1>1. Init => NextVariantInv
  BY DEF Init, NextVariantInv
<1>2. Inv /\ NextVariantInv /\ [Next]_vars => Advances \/ UNCHANGED vars
  BY StatementAdvances, OthersStay DEF Next
<1>3. QED
  BY <1>1, <1>2, NextVariantNext, InvCorrect, PTL DEF Spec, OneRequestAdvances
=============================================================================
