--------------------- MODULE ExperimentAssignment_proofs ---------------------
(***************************************************************************)
(* Proofs about ExperimentAssignment for every set of requests, users,     *)
(* codes and request bodies.                                               *)
(***************************************************************************)
EXTENDS ExperimentAssignment, TLAPS

(***************************************************************************)
(* Type correctness.                                                       *)
(***************************************************************************)

\* Rolling back a request (any exception in the handler) keeps every variable
\* within its type.
LEMMA RollbackType ==
  ASSUME TypeOK, NEW r \in Requests, NEW why \in Refusals, Rollback(r, why)
  PROVE  TypeOK'
  BY DEF TypeOK, Rollback, Refusals

\* Moving the assignment loop to its next user keeps pc and at typed.
LEMMA NextUserType ==
  ASSUME TypeOK, NEW r \in Requests, NextUser(r), input[r] \in Inputs
  PROVE  /\ pc' \in [Requests -> {"idle", "lookup", "insert", "refresh", "load",
                                  "assign", "commit", "done"}]
         /\ at' \in [Requests -> Codes \cup Users \cup {None}]
  BY InputsAssumption DEF TypeOK, NextUser

\* A request that has left the idle state carries a body, and its loops stand
\* at a variant code or a user of that body.
InputGiven ==
  \A r \in Requests :
    /\ pc[r] # "idle" => input[r] \in Inputs
    /\ pc[r] = "refresh" => at[r] \in input[r].codes
    /\ pc[r] = "assign" => at[r] \in input[r].users

\* A request gets past its lookup only with an experiment: committed, or
\* inserted by its own open transaction.
ExperimentGiven ==
  \A r \in Requests :
    (\/ pc[r] \in {"refresh", "assign", "commit"}
     \/ pc[r] = "load" /\ input[r].kind = "run")
    => fresh[r] \/ experiment # None

\* The experiment row of an open transaction was inserted before its loop.
FreshGiven == \A r \in Requests : fresh[r] => pc[r] \in {"load", "assign", "commit"}

TypeInv == TypeOK /\ InputGiven /\ ExperimentGiven /\ FreshGiven

LEMMA TypeInvInit == Init => TypeInv
  BY DEF Init, TypeInv, TypeOK, InputGiven, ExperimentGiven, FreshGiven

LEMMA TypeInvNext == TypeInv /\ [Next]_vars => TypeInv'
<1> SUFFICES ASSUME TypeInv, [Next]_vars PROVE TypeInv'
  OBVIOUS
<1> USE DEF TypeInv
<1>1. CASE UNCHANGED vars
  BY <1>1 DEF vars, TypeOK, InputGiven, ExperimentGiven, FreshGiven
<1>2. ASSUME NEW r \in Requests, NEW in \in Inputs, Arrive(r, in)
      PROVE  TypeInv'
  <2>1. TypeOK'
    BY <1>2, InputsAssumption DEF Arrive, TypeOK
  <2>2. InputGiven' /\ ExperimentGiven' /\ FreshGiven'
    BY <1>2, InputsAssumption
    DEF Arrive, TypeOK, InputGiven, ExperimentGiven, FreshGiven
  <2>3. QED
    BY <2>1, <2>2
<1>3. ASSUME NEW r \in Requests, NEW why \in Refusals, Rollback(r, why), pc[r] # "idle"
      PROVE  TypeInv'
  <2>1. TypeOK'
    BY <1>3, RollbackType
  <2>2. InputGiven' /\ ExperimentGiven' /\ FreshGiven'
    BY <1>3 DEF Rollback, TypeOK, InputGiven, ExperimentGiven, FreshGiven
  <2>3. QED
    BY <2>1, <2>2
<1>4. ASSUME NEW r \in Requests, LookupExperiment(r)
      PROVE  TypeInv'
  <2>1. CASE experiment # None /\ ~SameExperiment(input[r])
    BY <1>4, <1>3, <2>1 DEF LookupExperiment, Refusals
  <2>2. CASE experiment = None
    BY <1>4, <2>2
    DEF LookupExperiment, dbVars, loopVars, TypeOK, InputGiven, ExperimentGiven, FreshGiven
  <2>3. CASE experiment # None /\ SameExperiment(input[r])
    <3>1. TypeOK'
      BY <1>4, <2>3, InputsAssumption
      DEF LookupExperiment, BeginRefresh, dbVars, loopVars, TypeOK, InputGiven
    <3>2. InputGiven' /\ ExperimentGiven' /\ FreshGiven'
      BY <1>4, <2>3
      DEF LookupExperiment, BeginRefresh, dbVars, loopVars, TypeOK, InputGiven,
          ExperimentGiven, FreshGiven
    <3>3. QED
      BY <3>1, <3>2
  <2>4. QED
    BY <2>1, <2>2, <2>3
<1>5. ASSUME NEW r \in Requests, InsertExperiment(r)
      PROVE  TypeInv'
  <2>1. CASE experiment # None
    BY <1>5, <1>3, <2>1 DEF InsertExperiment, Refusals
  <2>2. CASE experiment = None
    <3>1. TypeOK'
      BY <1>5, <2>2, InputsAssumption
      DEF InsertExperiment, dbVars, loopVars, TypeOK, InputGiven
    <3>2. InputGiven' /\ ExperimentGiven' /\ FreshGiven'
      BY <1>5, <2>2
      DEF InsertExperiment, dbVars, loopVars, TypeOK, InputGiven, ExperimentGiven, FreshGiven
    <3>3. QED
      BY <3>1, <3>2
  <2>3. QED
    BY <2>1, <2>2
<1>6. ASSUME NEW r \in Requests, RefreshVariant(r)
      PROVE  TypeInv'
  <2>1. TypeOK'
    BY <1>6, InputsAssumption
    DEF RefreshVariant, dbVars, loopVars, TypeOK, InputGiven
  <2>2. InputGiven' /\ ExperimentGiven' /\ FreshGiven'
    BY <1>6
    DEF RefreshVariant, dbVars, loopVars, TypeOK, InputGiven, ExperimentGiven, FreshGiven
  <2>3. QED
    BY <2>1, <2>2
<1>7. ASSUME NEW r \in Requests, LoadAssignments(r)
      PROVE  TypeInv'
  <2>1. CASE \/ input[r].kind = "assign" /\ experiment = None
             \/ input[r].users = {}
    BY <1>7, <1>3, <2>1 DEF LoadAssignments, Refusals
  <2>2. CASE /\ input[r].kind = "run" \/ experiment # None
             /\ input[r].users # {}
    <3>1. TypeOK'
      BY <1>7, <2>2, InputsAssumption
      DEF LoadAssignments, dbVars, loopVars, TypeOK, InputGiven
    <3>2. InputGiven' /\ ExperimentGiven' /\ FreshGiven'
      BY <1>7, <2>2
      DEF LoadAssignments, dbVars, loopVars, TypeOK, InputGiven, ExperimentGiven, FreshGiven
    <3>3. QED
      BY <3>1, <3>2
  <2>3. QED
    BY <2>1, <2>2, <1>7, InputsAssumption DEF LoadAssignments, InputGiven
<1>8. ASSUME NEW r \in Requests, pc[r] = "assign", NextUser(r),
             UNCHANGED <<dbVars, input, fresh, holds, seen, outcome>>,
             created' \in [Requests -> SUBSET Delivery],
             reused' \in [Requests -> SUBSET Delivery],
             skipped' \in [Requests -> SUBSET Users]
      PROVE  TypeInv'
  <2>1. TypeOK'
    BY <1>8, NextUserType DEF dbVars, TypeOK, InputGiven
  <2>2. InputGiven' /\ ExperimentGiven' /\ FreshGiven'
    BY <1>8
    DEF NextUser, dbVars, TypeOK, InputGiven, ExperimentGiven, FreshGiven
  <2>3. QED
    BY <2>1, <2>2
<1>9. ASSUME NEW r \in Requests, SkipUser(r)
      PROVE  TypeInv'
  <2>1. skipped' \in [Requests -> SUBSET Users]
    BY <1>9, InputsAssumption DEF SkipUser, TypeOK, InputGiven
  <2>2. QED
    BY <1>9, <1>8, <2>1 DEF SkipUser, TypeOK
<1>10. ASSUME NEW r \in Requests, ReuseAssignment(r)
       PROVE  TypeInv'
  <2>1. reused' \in [Requests -> SUBSET Delivery]
    BY <1>10 DEF ReuseAssignment, ExistingAssignment, TypeOK
  <2>2. QED
    BY <1>10, <1>8, <2>1 DEF ReuseAssignment, TypeOK
<1>11. ASSUME NEW r \in Requests, InsertDelivery(r)
       PROVE  TypeInv'
  <2>1. CASE at[r] \in UsersOf(deliveries)
    BY <1>11, <1>3, <2>1 DEF InsertDelivery, NeedsInsert, Refusals
  <2>2. CASE at[r] \notin UsersOf(deliveries)
    <3>1. VisibleCodes(r) \subseteq Codes /\ at[r] \in Users
      BY <1>11, InputsAssumption
      DEF VisibleCodes, InsertDelivery, NeedsInsert, TypeOK, InputGiven, ExperimentGiven
    <3>2. created' \in [Requests -> SUBSET Delivery]
      BY <1>11, <2>2, <3>1 DEF InsertDelivery, Delivery, TypeOK
    <3>3. QED
      BY <1>11, <1>8, <2>2, <3>2 DEF InsertDelivery, NeedsInsert, TypeOK
  <2>3. QED
    BY <2>1, <2>2
<1>12. ASSUME NEW r \in Requests, Commit(r)
       PROVE  TypeInv'
  <2>1. input[r] \in Inputs
    BY <1>12 DEF Commit, InputGiven
  <2>2. TypeOK'
    BY <1>12, <2>1, InputsAssumption DEF Commit, TypeOK
  <2>3. experiment # None => experiment' # None
    BY <1>12, <2>1, InputsAssumption, NoneAssumption DEF Commit, TypeOK
  <2>4. InputGiven' /\ ExperimentGiven' /\ FreshGiven'
    BY <1>12, <2>3 DEF Commit, TypeOK, InputGiven, ExperimentGiven, FreshGiven
  <2>5. QED
    BY <2>2, <2>4
<1>13. ASSUME NEW r \in Requests, Fail(r)
       PROVE  TypeInv'
  BY <1>13, <1>3 DEF Fail, InTransaction, Refusals
<1>14. ASSUME NEW r \in Requests, AbortDeadlock(r)
       PROVE  TypeInv'
  <2>1. PICK q \in Requests : q \in WaitsFor(r)
    BY <1>14 DEF AbortDeadlock, InDeadlock
  <2>2. pc[r] # "idle"
    BY <2>1 DEF WaitsFor, NeedsInsert
  <2>3. QED
    BY <1>14, <1>3, <2>2 DEF AbortDeadlock, Refusals
<1>15. QED
  BY <1>1, <1>2, <1>4, <1>5, <1>6, <1>7, <1>9, <1>10, <1>11, <1>12, <1>13, <1>14
  DEF Next, Statement

\* Every reachable state is well typed.
THEOREM TypeCorrect == Spec => []TypeOK
<1>1. Spec => []TypeInv
  BY TypeInvInit, TypeInvNext, PTL DEF Spec
<1>2. TypeInv => TypeOK
  BY DEF TypeInv
<1>3. QED
  BY <1>1, <1>2, PTL

(***************************************************************************)
(* One assignment per user.  The rows of open transactions count as well   *)
(* as the committed ones: what keeps a user out of two transactions at     *)
(* once is the wait on the unique key (WaitsFor), and what keeps a         *)
(* transaction from inserting a user twice is the loop over distinct users.*)
(***************************************************************************)

BeforeLoop == {"idle", "lookup", "insert", "refresh", "load"}

\* The loop has not reported the user it stands at, nor anyone before it starts.
LoopInv ==
  \A r \in Requests :
    /\ pc[r] \in BeforeLoop => created[r] = {} /\ reused[r] = {} /\ skipped[r] = {}
    /\ pc[r] = "assign" => at[r] \notin Handled(r)

OneRowPerUser(rows) == \A d, e \in rows : d.user = e.user => d = e

Disjoint(rows1, rows2) == \A d \in rows1, e \in rows2 : d.user # e.user

\* No two rows for one user inside a transaction, between an open transaction
\* and the table, or between two open transactions.
OpenRowsInv ==
  \A r \in Requests : InTransaction(r) =>
    /\ OneRowPerUser(created[r])
    /\ Disjoint(created[r], deliveries)
    /\ \A q \in Requests \ {r} : InTransaction(q) => Disjoint(created[r], created[q])

RowsInv == TypeInv /\ LoopInv /\ OpenRowsInv /\ OneAssignmentPerUser

LEMMA RowsInvInit == Init => RowsInv
<1>1. Init => TypeInv
  BY TypeInvInit
<1>2. Init => LoopInv /\ OpenRowsInv /\ OneAssignmentPerUser
  BY DEF Init, LoopInv, OpenRowsInv, OneAssignmentPerUser, InTransaction
<1>3. QED
  BY <1>1, <1>2 DEF RowsInv

\* A statement that writes no delivery row and enters no loop iteration keeps
\* the rows apart.
LEMMA QuietStep ==
  ASSUME RowsInv, NEW r \in Requests,
         UNCHANGED <<deliveries, created, reused, skipped>>,
         pc[r] \in BeforeLoop, pc' = [pc EXCEPT ![r] = pc'[r]],
         \A q \in Requests \ {r} : at'[q] = at[q]
  PROVE  LoopInv' /\ OpenRowsInv' /\ OneAssignmentPerUser'
<1>1. created[r] = {} /\ reused[r] = {} /\ skipped[r] = {}
  BY DEF RowsInv, LoopInv
<1>2. \A q \in Requests \ {r} : pc'[q] = pc[q]
  BY DEF RowsInv, TypeInv, TypeOK
<1>3. LoopInv'
  BY <1>1, <1>2 DEF RowsInv, LoopInv, Handled, UsersOf
<1>4. OpenRowsInv'
  BY <1>1, <1>2 DEF RowsInv, OpenRowsInv, InTransaction, OneRowPerUser, Disjoint
<1>5. QED
  BY <1>3, <1>4 DEF RowsInv, OneAssignmentPerUser

LEMMA RollbackRows ==
  ASSUME RowsInv, NEW r \in Requests, NEW why, Rollback(r, why)
  PROVE  LoopInv' /\ OpenRowsInv' /\ OneAssignmentPerUser'
<1>1. /\ created'[r] = {} /\ pc'[r] = "done"
      /\ \A q \in Requests \ {r} : /\ pc'[q] = pc[q] /\ at'[q] = at[q]
                                   /\ created'[q] = created[q]
                                   /\ reused'[q] = reused[q]
                                   /\ skipped'[q] = skipped[q]
  BY DEF Rollback, RowsInv, TypeInv, TypeOK
<1>2. LoopInv'
  BY <1>1 DEF RowsInv, LoopInv, Handled, UsersOf, BeforeLoop
<1>3. OpenRowsInv'
  BY <1>1 DEF RowsInv, OpenRowsInv, InTransaction, Rollback
<1>4. QED
  BY <1>2, <1>3 DEF RowsInv, OneAssignmentPerUser, Rollback

\* Leaving a loop iteration for the next one, or for the commit.
LEMMA NextUserLoop ==
  ASSUME RowsInv, NEW r \in Requests, pc[r] = "assign", NextUser(r),
         \A q \in Requests \ {r} : /\ created'[q] = created[q]
                                   /\ reused'[q] = reused[q]
                                   /\ skipped'[q] = skipped[q],
         Handled(r)' = Handled(r) \cup {at[r]}
  PROVE  LoopInv' /\ (InTransaction(r)' /\ \A q \in Requests \ {r} : pc'[q] = pc[q])
<1>1. /\ pc'[r] \in {"assign", "commit"}
      /\ pc'[r] = "assign" => at'[r] \notin Handled(r) \cup {at[r]}
      /\ \A q \in Requests \ {r} : pc'[q] = pc[q] /\ at'[q] = at[q]
  BY DEF NextUser, RowsInv, TypeInv, TypeOK
<1>2. LoopInv'
  <2> SUFFICES ASSUME NEW q \in Requests
               PROVE  /\ pc'[q] \in BeforeLoop =>
                           created'[q] = {} /\ reused'[q] = {} /\ skipped'[q] = {}
                      /\ pc'[q] = "assign" => at'[q] \notin Handled(q)'
    BY DEF LoopInv
  <2>1. CASE q = r
    BY <1>1, <2>1 DEF BeforeLoop
  <2>2. CASE q # r
    <3>1. Handled(q)' = Handled(q)
      BY <2>2 DEF Handled, UsersOf
    <3>2. QED
      BY <1>1, <2>2, <3>1 DEF RowsInv, LoopInv
  <2>3. QED
    BY <2>1, <2>2
<1>3. QED
  BY <1>1, <1>2 DEF InTransaction

LEMMA UsersOfAdded ==
  ASSUME NEW rows, NEW row
  PROVE  UsersOf(rows \cup {row}) = UsersOf(rows) \cup {row.user}
  BY DEF UsersOf

\* A statement blocked by nobody may insert its row: no other open transaction
\* holds one for the same user.
LEMMA FreeUser ==
  ASSUME TypeOK, NEW r \in Requests, NeedsInsert(r), WaitsFor(r) = {},
         NEW q \in Requests \ {r}, InTransaction(q)
  PROVE  at[r] \notin UsersOf(created[q])
  BY DEF WaitsFor

LEMMA RowsInvNext == RowsInv /\ [Next]_vars => RowsInv'
<1> SUFFICES ASSUME RowsInv, [Next]_vars PROVE RowsInv'
  OBVIOUS
<1> USE DEF RowsInv
<1>1. TypeInv'
  BY TypeInvNext
<1> SUFFICES LoopInv' /\ OpenRowsInv' /\ OneAssignmentPerUser'
  BY <1>1
<1>2. CASE UNCHANGED vars
  BY <1>2
  DEF vars, LoopInv, OpenRowsInv, OneAssignmentPerUser, InTransaction, Handled, UsersOf
<1>3. ASSUME NEW r \in Requests, NEW in \in Inputs, Arrive(r, in)
      PROVE  LoopInv' /\ OpenRowsInv' /\ OneAssignmentPerUser'
  <2>1. /\ UNCHANGED <<deliveries, created, reused, skipped>>
        /\ pc[r] \in BeforeLoop
        /\ pc' = [pc EXCEPT ![r] = pc'[r]]
        /\ \A q \in Requests \ {r} : at'[q] = at[q]
    <3>1. PICK first : pc' = [pc EXCEPT ![r] = first]
      BY <1>3, Zenon DEF Arrive
    <3>2. pc'[r] = first
      BY <3>1 DEF TypeInv, TypeOK
    <3>3. QED
      BY <1>3, <3>1, <3>2 DEF Arrive, BeforeLoop
  <2>2. QED
    BY <2>1, QuietStep
<1>4. ASSUME NEW r \in Requests, LookupExperiment(r)
      PROVE  LoopInv' /\ OpenRowsInv' /\ OneAssignmentPerUser'
  <2>1. CASE experiment # None /\ ~SameExperiment(input[r])
    BY <1>4, <2>1, RollbackRows DEF LookupExperiment
  <2>2. CASE experiment = None \/ SameExperiment(input[r])
    <3>1. /\ UNCHANGED <<deliveries, created, reused, skipped>>
          /\ pc[r] \in BeforeLoop
          /\ pc' = [pc EXCEPT ![r] = pc'[r]]
          /\ \A q \in Requests \ {r} : at'[q] = at[q]
      BY <1>4, <2>2
      DEF LookupExperiment, BeginRefresh, BeforeLoop, dbVars, loopVars, TypeInv, TypeOK
    <3>2. QED
      BY <3>1, QuietStep
  <2>3. QED
    BY <2>1, <2>2
<1>5. ASSUME NEW r \in Requests, InsertExperiment(r)
      PROVE  LoopInv' /\ OpenRowsInv' /\ OneAssignmentPerUser'
  <2>1. CASE experiment # None
    BY <1>5, <2>1, RollbackRows DEF InsertExperiment
  <2>2. CASE experiment = None
    <3>1. /\ UNCHANGED <<deliveries, created, reused, skipped>>
          /\ pc[r] \in BeforeLoop
          /\ pc' = [pc EXCEPT ![r] = pc'[r]]
          /\ \A q \in Requests \ {r} : at'[q] = at[q]
      BY <1>5, <2>2 DEF InsertExperiment, BeforeLoop, dbVars, loopVars, TypeInv, TypeOK
    <3>2. QED
      BY <3>1, QuietStep
  <2>3. QED
    BY <2>1, <2>2
<1>6. ASSUME NEW r \in Requests, RefreshVariant(r)
      PROVE  LoopInv' /\ OpenRowsInv' /\ OneAssignmentPerUser'
  <2>1. /\ UNCHANGED <<deliveries, created, reused, skipped>>
        /\ pc[r] \in BeforeLoop
        /\ pc' = [pc EXCEPT ![r] = pc'[r]]
        /\ \A q \in Requests \ {r} : at'[q] = at[q]
    BY <1>6 DEF RefreshVariant, BeforeLoop, dbVars, loopVars, TypeInv, TypeOK
  <2>2. QED
    BY <2>1, QuietStep
<1>7. ASSUME NEW r \in Requests, LoadAssignments(r)
      PROVE  LoopInv' /\ OpenRowsInv' /\ OneAssignmentPerUser'
  <2>1. CASE Rollback(r, "not_found") \/ Rollback(r, "empty")
    BY <2>1, RollbackRows
  <2>2. CASE ~(Rollback(r, "not_found") \/ Rollback(r, "empty"))
    <3>1. /\ UNCHANGED <<deliveries, created, reused, skipped>>
          /\ pc[r] \in BeforeLoop
          /\ pc' = [pc EXCEPT ![r] = pc'[r]]
          /\ \A q \in Requests \ {r} : at'[q] = at[q]
      BY <1>7, <2>2 DEF LoadAssignments, BeforeLoop, dbVars, loopVars, TypeInv, TypeOK
    <3>2. QED
      BY <3>1, QuietStep
  <2>3. QED
    BY <2>1, <2>2
<1>8. ASSUME NEW r \in Requests, pc[r] = "assign", NextUser(r),
             UNCHANGED <<deliveries, created>>,
             Handled(r)' = Handled(r) \cup {at[r]},
             \A q \in Requests \ {r} : reused'[q] = reused[q] /\ skipped'[q] = skipped[q]
      PROVE  LoopInv' /\ OpenRowsInv' /\ OneAssignmentPerUser'
  <2>1. LoopInv' /\ (InTransaction(r)' /\ \A q \in Requests \ {r} : pc'[q] = pc[q])
    BY <1>8, NextUserLoop
  <2>2. \A q \in Requests : InTransaction(q)' = InTransaction(q)
    BY <1>8, <2>1 DEF InTransaction
  <2>3. OpenRowsInv'
    BY <1>8, <2>2 DEF OpenRowsInv
  <2>4. QED
    BY <1>8, <2>1, <2>3 DEF OneAssignmentPerUser
<1>9. ASSUME NEW r \in Requests, SkipUser(r)
      PROVE  LoopInv' /\ OpenRowsInv' /\ OneAssignmentPerUser'
  <2>1. Handled(r)' = Handled(r) \cup {at[r]}
    BY <1>9 DEF SkipUser, Handled, UsersOf, TypeInv, TypeOK
  <2>2. QED
    BY <1>9, <2>1, <1>8 DEF SkipUser, dbVars, TypeInv, TypeOK
<1>10. ASSUME NEW r \in Requests, ReuseAssignment(r)
       PROVE  LoopInv' /\ OpenRowsInv' /\ OneAssignmentPerUser'
  <2>1. reused'[r] = reused[r] \cup ExistingAssignment(r)
    BY <1>10 DEF ReuseAssignment, TypeInv, TypeOK
  <2>2. UsersOf(ExistingAssignment(r)) = {at[r]}
    BY <1>10 DEF ReuseAssignment, ExistingAssignment, UsersOf
  <2>3. Handled(r)' = Handled(r) \cup {at[r]}
    BY <1>10, <2>1, <2>2 DEF ReuseAssignment, Handled, UsersOf
  <2>4. QED
    BY <1>10, <2>3, <1>8 DEF ReuseAssignment, dbVars, TypeInv, TypeOK
<1>11. ASSUME NEW r \in Requests, InsertDelivery(r)
       PROVE  LoopInv' /\ OpenRowsInv' /\ OneAssignmentPerUser'
  <2>1. CASE at[r] \in UsersOf(deliveries)
    BY <1>11, <2>1, RollbackRows DEF InsertDelivery
  <2>2. CASE at[r] \notin UsersOf(deliveries)
    <3>1. PICK c \in VisibleCodes(r) :
            created' = [created EXCEPT ![r] = @ \cup {[user |-> at[r], code |-> c, by |-> r]}]
      BY <1>11, <2>2 DEF InsertDelivery
    <3> DEFINE row == [user |-> at[r], code |-> c, by |-> r]
    <3>2. /\ created'[r] = created[r] \cup {row}
          /\ \A q \in Requests \ {r} : created'[q] = created[q]
          /\ UNCHANGED <<deliveries, reused, skipped>>
          /\ NextUser(r) /\ pc[r] = "assign"
      BY <1>11, <2>2, <3>1 DEF InsertDelivery, NeedsInsert, dbVars, TypeInv, TypeOK
    <3>3. Handled(r)' = Handled(r) \cup {at[r]}
      <4>1. UsersOf(created'[r]) = UsersOf(created[r]) \cup {row.user}
        BY <3>2, UsersOfAdded
      <4>2. UsersOf(reused[r])' = UsersOf(reused[r]) /\ skipped'[r] = skipped[r]
        BY <3>2 DEF UsersOf
      <4>3. QED
        BY <4>1, <4>2 DEF Handled, UsersOf
    <3>4. LoopInv' /\ (InTransaction(r)' /\ \A q \in Requests \ {r} : pc'[q] = pc[q])
      BY <3>2, <3>3, NextUserLoop
    <3>5. \A q \in Requests : InTransaction(q)' = InTransaction(q)
      BY <3>2, <3>4 DEF InTransaction
    <3>6. \A d \in created[r] : d.user # row.user
      BY <3>2 DEF LoopInv, Handled, UsersOf
    <3>7. \A d \in deliveries : d.user # row.user
      BY <2>2 DEF UsersOf
    <3>8. \A q \in Requests \ {r} :
             InTransaction(q) => \A d \in created[q] : d.user # row.user
      BY <1>11, FreeUser DEF InsertDelivery, UsersOf, TypeInv
    <3>9. OpenRowsInv'
      <4> SUFFICES ASSUME NEW p \in Requests, InTransaction(p)
                   PROVE  /\ OneRowPerUser(created'[p])
                          /\ Disjoint(created'[p], deliveries)
                          /\ \A q \in Requests \ {p} :
                               InTransaction(q) => Disjoint(created'[p], created'[q])
        BY <3>2, <3>5 DEF OpenRowsInv
      <4>1. CASE p = r
        BY <3>2, <3>6, <3>7, <3>8, <4>1 DEF OpenRowsInv, OneRowPerUser, Disjoint
      <4>2. CASE p # r
        BY <3>2, <3>8, <4>2 DEF OpenRowsInv, OneRowPerUser, Disjoint
      <4>3. QED
        BY <4>1, <4>2
    <3>10. QED
      BY <3>2, <3>4, <3>9 DEF OneAssignmentPerUser
  <2>3. QED
    BY <2>1, <2>2
<1>12. ASSUME NEW r \in Requests, Commit(r)
       PROVE  LoopInv' /\ OpenRowsInv' /\ OneAssignmentPerUser'
  <2>1. /\ InTransaction(r)
        /\ ~InTransaction(r)'
        /\ \A q \in Requests \ {r} : pc'[q] = pc[q]
        /\ pc'[r] = "done"
        /\ UNCHANGED <<at, created, reused, skipped>>
        /\ deliveries' = deliveries \cup created[r]
    BY <1>12 DEF Commit, InTransaction, TypeInv, TypeOK
  <2>2. LoopInv'
    BY <2>1 DEF LoopInv, Handled, UsersOf, BeforeLoop
  <2>3. OneAssignmentPerUser'
    BY <2>1 DEF OneAssignmentPerUser, OpenRowsInv, OneRowPerUser, Disjoint
  <2>4. OpenRowsInv'
    BY <2>1 DEF OpenRowsInv, OneRowPerUser, Disjoint, InTransaction
  <2>5. QED
    BY <2>2, <2>3, <2>4
<1>13. ASSUME NEW r \in Requests, Fail(r) \/ AbortDeadlock(r)
       PROVE  LoopInv' /\ OpenRowsInv' /\ OneAssignmentPerUser'
  BY <1>13, RollbackRows DEF Fail, AbortDeadlock
<1>14. QED
  BY <1>2, <1>3, <1>4, <1>5, <1>6, <1>7, <1>9, <1>10, <1>11, <1>12, <1>13
  DEF Next, Statement

LEMMA RowsCorrect == Spec => []RowsInv
  BY RowsInvInit, RowsInvNext, PTL DEF Spec

\* A user never holds two variants of an experiment, for any number of
\* concurrent run and assignments requests, failures and deadlock aborts.
THEOREM UserAssignedOnce == Spec => []OneAssignmentPerUser
<1>1. RowsInv => OneAssignmentPerUser
  BY DEF RowsInv
<1>2. QED
  BY RowsCorrect, <1>1, PTL

(***************************************************************************)
(* The answer.  What a request will report is kept in step with the loop:  *)
(* the users handled so far, each in exactly one of the three lists, and   *)
(* the rows it has read, which no other request can take away.             *)
(***************************************************************************)

Accounted(r) == input[r].users = Handled(r)

\* The rows reported as reused were read, and what was read is still there.
ReadInv ==
  \A r \in Requests :
    /\ reused[r] \subseteq seen[r]
    /\ seen[r] \subseteq deliveries
    /\ skipped[r] \cap KnownUsers \subseteq UsersOf(seen[r])
    /\ skipped[r] # {} /\ input[r].kind = "run" => skipped[r] \cap KnownUsers = {}

\* No user is in two of the lists.
ListsInv ==
  \A r \in Requests :
    /\ UsersOf(created[r]) \cap UsersOf(reused[r]) = {}
    /\ skipped[r] \cap UsersOf(created[r]) = {}
    /\ skipped[r] \cap UsersOf(reused[r]) = {}

DoneInv ==
  \A r \in Requests :
    /\ pc[r] = "assign" => Handled(r) \subseteq input[r].users
    /\ pc[r] = "commit" /\ input[r].kind # "create" => Accounted(r)
    /\ outcome[r] # None => pc[r] = "done"
    /\ outcome[r] = "ok" =>
         /\ created[r] \subseteq deliveries
         /\ input[r].kind # "create" => Accounted(r)

AnswerInv == ReadInv /\ ListsInv /\ DoneInv

LEMMA AnswerInvInit == Init => AnswerInv
<1> SUFFICES ASSUME Init PROVE AnswerInv
  OBVIOUS
<1>1. ReadInv /\ ListsInv
  BY DEF Init, ReadInv, ListsInv, UsersOf
<1>2. DoneInv
  <2>1. None # "ok"
    BY NoneAssumption
  <2>2. QED
    BY <2>1 DEF Init, DoneInv
<1>3. QED
  BY <1>1, <1>2 DEF AnswerInv

\* Before the loop nothing is reported, so a statement that only moves on keeps
\* the account.
LEMMA AnswerQuiet ==
  ASSUME RowsInv, AnswerInv, NEW r \in Requests, NEW next, pc[r] \in BeforeLoop,
         pc' = [pc EXCEPT ![r] = next], next # "assign",
         next = "commit" => input[r].kind = "create",
         UNCHANGED <<deliveries, input, seen, created, reused, skipped, outcome>>
  PROVE  AnswerInv'
<1>1. ReadInv' /\ ListsInv'
  BY DEF AnswerInv, ReadInv, ListsInv, UsersOf
<1>2. /\ pc'[r] = next
      /\ \A q \in Requests \ {r} : pc'[q] = pc[q]
  BY DEF RowsInv, TypeInv, TypeOK
<1>3. outcome[r] = None
  BY DEF AnswerInv, DoneInv, BeforeLoop
<1>4. \A q \in Requests : Handled(q)' = Handled(q)
  BY DEF Handled, UsersOf
<1>5. outcome[r] # "ok"
  BY <1>3, NoneAssumption
<1>6. DoneInv'
  BY <1>2, <1>3, <1>4, <1>5 DEF AnswerInv, DoneInv, Accounted
<1>7. QED
  BY <1>1, <1>6 DEF AnswerInv

LEMMA AnswerRollback ==
  ASSUME RowsInv, AnswerInv, NEW r \in Requests, NEW why \in Refusals, Rollback(r, why)
  PROVE  AnswerInv'
<1>1. /\ seen'[r] = {} /\ created'[r] = {} /\ reused'[r] = {} /\ skipped'[r] = {}
      /\ pc'[r] = "done" /\ outcome'[r] = why /\ why # "ok"
      /\ \A q \in Requests \ {r} :
           /\ pc'[q] = pc[q] /\ outcome'[q] = outcome[q]
           /\ seen'[q] = seen[q] /\ created'[q] = created[q]
           /\ reused'[q] = reused[q] /\ skipped'[q] = skipped[q]
      /\ UNCHANGED <<deliveries, input>>
  BY DEF Rollback, Refusals, RowsInv, TypeInv, TypeOK
<1>2. \A q \in Requests \ {r} : Handled(q)' = Handled(q)
  BY <1>1 DEF Handled, UsersOf
<1>3. ReadInv'
  BY <1>1 DEF AnswerInv, ReadInv, UsersOf
<1>4. ListsInv'
  BY <1>1 DEF AnswerInv, ListsInv, UsersOf
<1>5. DoneInv'
  BY <1>1, <1>2 DEF AnswerInv, DoneInv, Accounted
<1>6. QED
  BY <1>3, <1>4, <1>5 DEF AnswerInv

\* The loop moves on after it has put its user into one of the lists.
LEMMA AnswerNextUser ==
  ASSUME RowsInv, AnswerInv, NEW r \in Requests, pc[r] = "assign", NextUser(r),
         Handled(r)' = Handled(r) \cup {at[r]},
         \A q \in Requests \ {r} : Handled(q)' = Handled(q) /\ created'[q] = created[q],
         UNCHANGED <<deliveries, input, outcome>>
  PROVE  DoneInv'
<1>1. at[r] \in input[r].users
  BY DEF RowsInv, TypeInv, InputGiven
<1>2. /\ \A q \in Requests \ {r} : pc'[q] = pc[q]
      /\ pc'[r] \in {"assign", "commit"}
      /\ pc'[r] = "commit" => input[r].users \ (Handled(r) \cup {at[r]}) = {}
  BY DEF NextUser, RowsInv, TypeInv, TypeOK
<1>3. Handled(r) \subseteq input[r].users /\ outcome[r] = None
  BY DEF AnswerInv, DoneInv
<1>4. outcome[r] # "ok"
  BY <1>3, NoneAssumption
<1>5. QED
  BY <1>1, <1>2, <1>3, <1>4 DEF AnswerInv, DoneInv, Accounted

LEMMA AnswerInvNext == RowsInv /\ AnswerInv /\ [Next]_vars => AnswerInv'
<1> SUFFICES ASSUME RowsInv, AnswerInv, [Next]_vars PROVE AnswerInv'
  OBVIOUS
<1>1. CASE UNCHANGED vars
  BY <1>1 DEF vars, AnswerInv, ReadInv, ListsInv, DoneInv, Accounted, Handled, UsersOf
<1>2. ASSUME NEW r \in Requests, NEW in \in Inputs, Arrive(r, in)
      PROVE  AnswerInv'
  <2>1. /\ skipped[r] = {} /\ outcome[r] = None /\ outcome[r] # "ok"
        /\ pc'[r] \notin {"assign", "commit"}
    <3>1. skipped[r] = {} /\ outcome[r] = None
      BY <1>2 DEF Arrive, RowsInv, LoopInv, BeforeLoop, AnswerInv, DoneInv
    <3>2. pc'[r] \notin {"assign", "commit"}
      BY <1>2, InputsAssumption DEF Arrive, RowsInv, TypeInv, TypeOK
    <3>3. QED
      BY <3>1, <3>2, NoneAssumption
  <2>2. /\ \A q \in Requests \ {r} : input'[q] = input[q] /\ pc'[q] = pc[q]
        /\ UNCHANGED <<deliveries, seen, created, reused, skipped, outcome>>
    BY <1>2 DEF Arrive, RowsInv, TypeInv, TypeOK
  <2>3. \A q \in Requests : Handled(q)' = Handled(q)
    BY <2>2 DEF Handled, UsersOf
  <2>4. ReadInv' /\ ListsInv'
    BY <2>1, <2>2 DEF AnswerInv, ReadInv, ListsInv, UsersOf
  <2>5. DoneInv'
    BY <2>1, <2>2, <2>3 DEF AnswerInv, DoneInv, Accounted
  <2>6. QED
    BY <2>4, <2>5 DEF AnswerInv
<1>3. ASSUME NEW r \in Requests, LookupExperiment(r)
      PROVE  AnswerInv'
  <2>1. CASE experiment # None /\ ~SameExperiment(input[r])
    BY <1>3, <2>1, AnswerRollback DEF LookupExperiment, Refusals
  <2>2. CASE experiment = None \/ SameExperiment(input[r])
    <3>1. PICK next \in {"insert", "refresh"} : pc' = [pc EXCEPT ![r] = next]
      BY <1>3, <2>2 DEF LookupExperiment, BeginRefresh
    <3>2. /\ pc[r] \in BeforeLoop
          /\ UNCHANGED <<deliveries, input, seen, created, reused, skipped, outcome>>
      BY <1>3, <2>2 DEF LookupExperiment, BeforeLoop, dbVars, loopVars
    <3>3. QED
      BY <3>1, <3>2, AnswerQuiet
  <2>3. QED
    BY <2>1, <2>2
<1>4. ASSUME NEW r \in Requests, InsertExperiment(r)
      PROVE  AnswerInv'
  <2>1. CASE experiment # None
    BY <1>4, <2>1, AnswerRollback DEF InsertExperiment, Refusals
  <2>2. CASE experiment = None
    <3> DEFINE next == IF input[r].kind = "create" THEN "commit" ELSE "load"
    <3>1. /\ pc' = [pc EXCEPT ![r] = next]
          /\ pc[r] \in BeforeLoop
          /\ UNCHANGED <<deliveries, input, seen, created, reused, skipped, outcome>>
      BY <1>4, <2>2 DEF InsertExperiment, BeforeLoop, dbVars, loopVars
    <3>2. next # "assign" /\ (next = "commit" => input[r].kind = "create")
      OBVIOUS
    <3> HIDE DEF next
    <3>3. QED
      BY <3>1, <3>2, AnswerQuiet
  <2>3. QED
    BY <2>1, <2>2
<1>5. ASSUME NEW r \in Requests, RefreshVariant(r)
      PROVE  AnswerInv'
  <2>1. PICK next \in {"refresh", "load"} : pc' = [pc EXCEPT ![r] = next]
    BY <1>5 DEF RefreshVariant, RowsInv, TypeInv, TypeOK
  <2>2. /\ pc[r] \in BeforeLoop
        /\ UNCHANGED <<deliveries, input, seen, created, reused, skipped, outcome>>
    BY <1>5 DEF RefreshVariant, BeforeLoop, dbVars, loopVars
  <2>3. QED
    BY <2>1, <2>2, AnswerQuiet
<1>6. ASSUME NEW r \in Requests, LoadAssignments(r)
      PROVE  AnswerInv'
  <2>1. CASE Rollback(r, "not_found") \/ Rollback(r, "empty")
    BY <2>1, AnswerRollback DEF Refusals
  <2>2. CASE ~(Rollback(r, "not_found") \/ Rollback(r, "empty"))
    <3>1. /\ pc[r] = "load" /\ pc' = [pc EXCEPT ![r] = "assign"]
          /\ seen' = [seen EXCEPT ![r] = {d \in deliveries : d.user \in input[r].users}]
          /\ UNCHANGED <<deliveries, input, created, reused, skipped, outcome>>
      BY <1>6, <2>2 DEF LoadAssignments, dbVars
    <3>2. created[r] = {} /\ reused[r] = {} /\ skipped[r] = {}
      BY <3>1 DEF RowsInv, LoopInv, BeforeLoop
    <3>3. outcome[r] = None /\ outcome[r] # "ok"
      BY <3>1, NoneAssumption DEF AnswerInv, DoneInv
    <3>4. /\ pc'[r] = "assign" /\ seen'[r] \subseteq deliveries
          /\ \A q \in Requests \ {r} : pc'[q] = pc[q] /\ seen'[q] = seen[q]
      BY <3>1 DEF RowsInv, TypeInv, TypeOK
    <3>5. \A q \in Requests : Handled(q)' = Handled(q)
      BY <3>1 DEF Handled, UsersOf
    <3>6. Handled(r) = {}
      BY <3>2 DEF Handled, UsersOf
    <3>7. ReadInv'
      BY <3>1, <3>2, <3>4 DEF AnswerInv, ReadInv, UsersOf
    <3>8. ListsInv'
      BY <3>1 DEF AnswerInv, ListsInv, UsersOf
    <3>9. DoneInv'
      BY <3>1, <3>3, <3>4, <3>5, <3>6 DEF AnswerInv, DoneInv, Accounted
    <3>10. QED
      BY <3>7, <3>8, <3>9 DEF AnswerInv
  <2>3. QED
    BY <2>1, <2>2
<1>7. ASSUME NEW r \in Requests, SkipUser(r)
      PROVE  AnswerInv'
  <2>1. /\ pc[r] = "assign" /\ NextUser(r)
        /\ skipped'[r] = skipped[r] \cup {at[r]}
        /\ \A q \in Requests \ {r} : skipped'[q] = skipped[q]
        /\ UNCHANGED <<deliveries, input, outcome, seen, created, reused>>
    BY <1>7 DEF SkipUser, dbVars, RowsInv, TypeInv, TypeOK
  <2>2. at[r] \notin Handled(r)
    BY <2>1 DEF RowsInv, LoopInv
  <2>3. /\ at[r] \in KnownUsers => at[r] \in UsersOf(seen[r])
        /\ at[r] \in KnownUsers => input[r].kind = "assign"
    BY <1>7 DEF SkipUser
  <2>4. Handled(r)' = Handled(r) \cup {at[r]}
    BY <2>1 DEF Handled, UsersOf
  <2>5. \A q \in Requests \ {r} : Handled(q)' = Handled(q)
    BY <2>1 DEF Handled, UsersOf
  <2>6. ReadInv'
    BY <2>1, <2>3 DEF AnswerInv, ReadInv, UsersOf
  <2>7. ListsInv'
    BY <2>1, <2>2 DEF AnswerInv, ListsInv, Handled, UsersOf
  <2>8. QED
    BY <2>1, <2>4, <2>5, <2>6, <2>7, AnswerNextUser DEF AnswerInv
<1>8. ASSUME NEW r \in Requests, ReuseAssignment(r)
      PROVE  AnswerInv'
  <2>1. /\ pc[r] = "assign" /\ NextUser(r) /\ at[r] \in UsersOf(seen[r])
        /\ reused'[r] = reused[r] \cup ExistingAssignment(r)
        /\ \A q \in Requests \ {r} : reused'[q] = reused[q]
        /\ UNCHANGED <<deliveries, input, outcome, seen, created, skipped>>
    BY <1>8 DEF ReuseAssignment, dbVars, RowsInv, TypeInv, TypeOK
  <2>2. at[r] \notin Handled(r)
    BY <2>1 DEF RowsInv, LoopInv
  <2>3. /\ ExistingAssignment(r) \subseteq seen[r]
        /\ UsersOf(ExistingAssignment(r)) = {at[r]}
    BY <2>1 DEF ExistingAssignment, UsersOf
  <2>4. UsersOf(reused'[r]) = UsersOf(reused[r]) \cup {at[r]}
    BY <2>1, <2>3 DEF UsersOf
  <2>5. Handled(r)' = Handled(r) \cup {at[r]}
    BY <2>1, <2>4 DEF Handled, UsersOf
  <2>6. \A q \in Requests \ {r} : Handled(q)' = Handled(q)
    BY <2>1 DEF Handled, UsersOf
  <2>7. ReadInv'
    BY <2>1, <2>3 DEF AnswerInv, ReadInv, UsersOf
  <2>8. ListsInv'
    <3> SUFFICES ASSUME NEW q \in Requests
                 PROVE  /\ UsersOf(created[q]) \cap UsersOf(reused'[q]) = {}
                        /\ skipped[q] \cap UsersOf(created[q]) = {}
                        /\ skipped[q] \cap UsersOf(reused'[q]) = {}
      BY <2>1 DEF ListsInv, UsersOf
    <3>1. QED
      BY <2>1, <2>2, <2>4 DEF AnswerInv, ListsInv, Handled
  <2>9. QED
    BY <2>1, <2>5, <2>6, <2>7, <2>8, AnswerNextUser DEF AnswerInv
<1>9. ASSUME NEW r \in Requests, InsertDelivery(r)
      PROVE  AnswerInv'
  <2>1. CASE at[r] \in UsersOf(deliveries)
    BY <1>9, <2>1, AnswerRollback DEF InsertDelivery, Refusals
  <2>2. CASE at[r] \notin UsersOf(deliveries)
    <3>1. PICK row : /\ row.user = at[r]
                     /\ created' = [created EXCEPT ![r] = @ \cup {row}]
      BY <1>9, <2>2 DEF InsertDelivery
    <3>2. /\ pc[r] = "assign" /\ NextUser(r)
          /\ created'[r] = created[r] \cup {row}
          /\ \A q \in Requests \ {r} : created'[q] = created[q]
          /\ UNCHANGED <<deliveries, input, outcome, seen, reused, skipped>>
      BY <1>9, <2>2, <3>1 DEF InsertDelivery, NeedsInsert, dbVars, RowsInv, TypeInv, TypeOK
    <3>3. at[r] \notin Handled(r)
      BY <3>2 DEF RowsInv, LoopInv
    <3>4. UsersOf(created'[r]) = UsersOf(created[r]) \cup {at[r]}
      BY <3>1, <3>2, UsersOfAdded
    <3>5. Handled(r)' = Handled(r) \cup {at[r]}
      BY <3>2, <3>4 DEF Handled, UsersOf
    <3>6. \A q \in Requests \ {r} : Handled(q)' = Handled(q)
      BY <3>2 DEF Handled, UsersOf
    <3>7. ReadInv'
      BY <3>2 DEF AnswerInv, ReadInv, UsersOf
    <3>8. ListsInv'
      <4> SUFFICES ASSUME NEW q \in Requests
                   PROVE  /\ UsersOf(created'[q]) \cap UsersOf(reused[q]) = {}
                          /\ skipped[q] \cap UsersOf(created'[q]) = {}
                          /\ skipped[q] \cap UsersOf(reused[q]) = {}
        BY <3>2 DEF ListsInv, UsersOf
      <4>1. QED
        BY <3>2, <3>3, <3>4 DEF AnswerInv, ListsInv, Handled
    <3>9. QED
      BY <3>2, <3>5, <3>6, <3>7, <3>8, AnswerNextUser DEF AnswerInv
  <2>3. QED
    BY <2>1, <2>2
<1>10. ASSUME NEW r \in Requests, Commit(r)
       PROVE  AnswerInv'
  <2>1. /\ pc[r] = "commit" /\ pc'[r] = "done"
        /\ outcome' = [outcome EXCEPT ![r] = "ok"]
        /\ \A q \in Requests \ {r} : pc'[q] = pc[q]
        /\ deliveries' = deliveries \cup created[r]
        /\ UNCHANGED <<input, seen, created, reused, skipped>>
    BY <1>10 DEF Commit, RowsInv, TypeInv, TypeOK
  <2>2. \A q \in Requests : Handled(q)' = Handled(q)
    BY <2>1 DEF Handled, UsersOf
  <2>3. \A q \in Requests \ {r} : outcome'[q] = outcome[q]
    BY <2>1 DEF RowsInv, TypeInv, TypeOK
  <2>4. ReadInv' /\ ListsInv'
    BY <2>1 DEF AnswerInv, ReadInv, ListsInv, UsersOf
  <2>5. DoneInv'
    BY <2>1, <2>2, <2>3 DEF AnswerInv, DoneInv, Accounted
  <2>6. QED
    BY <2>4, <2>5 DEF AnswerInv
<1>11. ASSUME NEW r \in Requests, Fail(r) \/ AbortDeadlock(r)
       PROVE  AnswerInv'
  BY <1>11, AnswerRollback DEF Fail, AbortDeadlock, Refusals
<1>12. QED
  BY <1>1, <1>2, <1>3, <1>4, <1>5, <1>6, <1>7, <1>8, <1>9, <1>10, <1>11
  DEF Next, Statement

LEMMA AnswerCorrect == Spec => [](RowsInv /\ AnswerInv)
<1>1. Init => RowsInv /\ AnswerInv
  BY RowsInvInit, AnswerInvInit
<1>2. RowsInv /\ AnswerInv /\ [Next]_vars => (RowsInv /\ AnswerInv)'
  BY RowsInvNext, AnswerInvNext
<1>3. QED
  BY <1>1, <1>2, PTL DEF Spec

\* A successful answer of run or assignments reports each requested user once
\* and truthfully, and leaves no known user of the request unassigned.
THEOREM AnswersAreTrue == Spec => []AnswerMatchesLedger
<1>1. RowsInv /\ AnswerInv => AnswerMatchesLedger
  <2> SUFFICES ASSUME RowsInv, AnswerInv, NEW r \in Requests,
                      outcome[r] = "ok", input[r].kind # "create"
               PROVE  /\ input[r].users = Handled(r)
                      /\ UsersOf(created[r]) \cap UsersOf(reused[r]) = {}
                      /\ skipped[r] \cap UsersOf(created[r] \cup reused[r]) = {}
                      /\ created[r] \cup reused[r] \subseteq deliveries
                      /\ input[r].kind = "run" => skipped[r] \cap KnownUsers = {}
                      /\ input[r].users \cap KnownUsers \subseteq UsersOf(deliveries)
    BY DEF AnswerMatchesLedger
  <2>1. input[r].users = Handled(r) /\ created[r] \subseteq deliveries
    BY DEF AnswerInv, DoneInv, Accounted
  <2>2. /\ reused[r] \subseteq deliveries /\ seen[r] \subseteq deliveries
        /\ skipped[r] \cap KnownUsers \subseteq UsersOf(seen[r])
        /\ input[r].kind = "run" => skipped[r] \cap KnownUsers = {}
    BY DEF AnswerInv, ReadInv
  <2>3. UsersOf(created[r] \cup reused[r]) = UsersOf(created[r]) \cup UsersOf(reused[r])
    BY DEF UsersOf
  <2>4. input[r].users \cap KnownUsers \subseteq UsersOf(deliveries)
    BY <2>1, <2>2 DEF Handled, UsersOf
  <2>5. QED
    BY <2>1, <2>2, <2>3, <2>4 DEF AnswerInv, ListsInv
<1>2. QED
  BY AnswerCorrect, <1>1, PTL
=============================================================================
