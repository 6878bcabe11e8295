------------------------ MODULE ExperimentAssignment ------------------------
(***************************************************************************)
(* The A/B/C experiment endpoints of api.py: run_campaign_experiment,      *)
(* create_campaign_experiment and create_campaign_assignments.  A request  *)
(* is one thread with one PostgreSQL transaction (READ COMMITTED); every   *)
(* action below is one SQL statement of it, so requests interleave         *)
(* between statements.  Rows a transaction has written stay invisible and  *)
(* locked until it ends; a second writer of the same unique key or row     *)
(* waits, and PostgreSQL breaks a cycle of waits by aborting a member.     *)
(*                                                                         *)
(* The experiment is the one of a fixed (campaign_id, experiment_name):    *)
(* no statement of these handlers touches another experiment's rows.  The  *)
(* order in which a request lists its users and variants is the client's,  *)
(* so the next one is chosen when the loop reaches it.                     *)
(***************************************************************************)
EXTENDS Naturals, FiniteSets

CONSTANTS
  Requests,     \* HTTP calls, each handled once by a thread of its own
  Users,        \* user ids a request may name
  KnownUsers,   \* the ids that have a row in table users
  Codes,        \* variant codes
  Channels,     \* message channels
  Inputs,       \* the request bodies that pass the 400 checks on the body
  None

ASSUME KnownUsersAssumption == KnownUsers \subseteq Users

ASSUME InputsAssumption ==
  Inputs \subseteq [kind : {"run", "create", "assign"}, channel : Channels,
                    codes : (SUBSET Codes) \ {{}}, users : SUBSET Users]

ASSUME NoneAssumption ==
  None \notin Requests \cup Codes \cup Users
              \cup [channel : Channels, codes : SUBSET Codes] \cup Inputs
              \cup {"ok", "duplicate_row"}

VARIABLES
  experiment,   \* committed campaign_experiments row, or None
  message,      \* committed variants: code -> request whose text it carries
  deliveries,   \* committed campaign_message_deliveries rows
  input,        \* body of each request, None before it arrives
  pc,           \* the statement a request is about to execute
  at,           \* the variant code or user its loop has reached
  fresh,        \* has the open transaction inserted the experiment row?
  holds,        \* variant rows the open transaction has written (and locks)
  seen,         \* existing assignments it has read
  created,      \* delivery rows it has inserted
  reused,       \* rows it reports with isReused
  skipped,      \* users it reports as skipped
  outcome       \* None, "ok", or why the request was refused

dbVars   == <<experiment, message, deliveries>>
loopVars == <<seen, created, reused, skipped>>
vars == <<experiment, message, deliveries, input, pc, at, fresh, holds,
          seen, created, reused, skipped, outcome>>

Delivery == [user : Users, code : Codes, by : Requests]

Refusals == {"name_conflict",      \* 409: name taken, other channel or codes
             "duplicate_row",      \* 409: UniqueViolation on a delivery row
             "duplicate_name",     \* 409: UniqueViolation on the experiment
             "not_found", "empty", \* 404, 400
             "error"}              \* 400/500: any other exception, deadlock

InTransaction(r) ==
  pc[r] \in {"lookup", "insert", "refresh", "load", "assign", "commit"}

TypeOK ==
  /\ experiment \in {None} \cup [channel : Channels, codes : (SUBSET Codes) \ {{}}]
  /\ message \in [Codes -> Requests \cup {None}]
  /\ deliveries \subseteq Delivery
  /\ input \in [Requests -> Inputs \cup {None}]
  /\ pc \in [Requests -> {"idle", "lookup", "insert", "refresh", "load",
                          "assign", "commit", "done"}]
  /\ at \in [Requests -> Codes \cup Users \cup {None}]
  /\ fresh \in [Requests -> BOOLEAN]
  /\ holds \in [Requests -> SUBSET Codes]
  /\ seen \in [Requests -> SUBSET Delivery]
  /\ created \in [Requests -> SUBSET Delivery]
  /\ reused \in [Requests -> SUBSET Delivery]
  /\ skipped \in [Requests -> SUBSET Users]
  /\ outcome \in [Requests -> {None, "ok"} \cup Refusals]

Init ==
  /\ experiment = None
  /\ message = [c \in Codes |-> None]
  /\ deliveries = {}
  /\ input = [r \in Requests |-> None]
  /\ pc = [r \in Requests |-> "idle"]
  /\ at = [r \in Requests |-> None]
  /\ fresh = [r \in Requests |-> FALSE]
  /\ holds = [r \in Requests |-> {}]
  /\ seen = [r \in Requests |-> {}]
  /\ created = [r \in Requests |-> {}]
  /\ reused = [r \in Requests |-> {}]
  /\ skipped = [r \in Requests |-> {}]
  /\ outcome = [r \in Requests |-> None]

(***************************************************************************)
(* PostgreSQL: who blocks the statement a request is about to execute.     *)
(***************************************************************************)

UsersOf(rows) == {d.user : d \in rows}

\* The user reached by the loop needs an INSERT: known, not assigned before.
NeedsInsert(r) ==
  /\ pc[r] = "assign"
  /\ at[r] \in KnownUsers
  /\ at[r] \notin UsersOf(seen[r])

\* Mutant of WaitsFor: a schema without UNIQUE (experiment_id, user_id).
WaitsForWithoutUniqueUser(r) ==
  {q \in Requests \ {r} :
     /\ InTransaction(q)
     /\ \/ pc[r] = "insert" /\ fresh[q]
        \/ pc[r] = "refresh" /\ at[r] \in holds[q]}

WaitsFor(r) ==
  {q \in Requests \ {r} :
     /\ InTransaction(q)
     /\ \/ pc[r] = "insert" /\ fresh[q]
        \/ pc[r] = "refresh" /\ at[r] \in holds[q]
        \/ NeedsInsert(r) /\ at[r] \in UsersOf(created[q])}

\* Mutant of InDeadlock: nobody looks for cycles of waits.
NeverInDeadlock(r) == r \notin Requests

\* r is on a cycle of waits (a statement waits for at most one transaction).
InDeadlock(r) ==
  \E cycle \in SUBSET Requests :
    /\ r \in cycle
    /\ \A p \in cycle : /\ \E q \in cycle : q \in WaitsFor(p)
                        /\ \E q \in cycle : p \in WaitsFor(q)

(***************************************************************************)
(* The end of a transaction.                                               *)
(***************************************************************************)

\* An exception leaves the `with psycopg.connect` block: rollback, no rows.
Rollback(r, why) ==
  /\ pc' = [pc EXCEPT ![r] = "done"]
  /\ at' = [at EXCEPT ![r] = None]
  /\ fresh' = [fresh EXCEPT ![r] = FALSE]
  /\ holds' = [holds EXCEPT ![r] = {}]
  /\ seen' = [seen EXCEPT ![r] = {}]
  /\ created' = [created EXCEPT ![r] = {}]
  /\ reused' = [reused EXCEPT ![r] = {}]
  /\ skipped' = [skipped EXCEPT ![r] = {}]
  /\ outcome' = [outcome EXCEPT ![r] = why]
  /\ UNCHANGED <<experiment, message, deliveries, input>>

\* The block ends normally: everything written becomes visible at once.
Commit(r) ==
  /\ pc[r] = "commit"
  /\ experiment' = IF fresh[r]
                   THEN [channel |-> input[r].channel, codes |-> input[r].codes]
                   ELSE experiment
  /\ message' = [c \in Codes |-> IF c \in holds[r] THEN r ELSE message[c]]
  /\ deliveries' = deliveries \cup created[r]
  /\ pc' = [pc EXCEPT ![r] = "done"]
  /\ fresh' = [fresh EXCEPT ![r] = FALSE]
  /\ holds' = [holds EXCEPT ![r] = {}]
  /\ outcome' = [outcome EXCEPT ![r] = "ok"]
  /\ UNCHANGED <<input, at, seen, created, reused, skipped>>

(***************************************************************************)
(* The statements of the handlers.                                         *)
(***************************************************************************)

Arrive(r, in) ==
  /\ pc[r] = "idle"
  /\ input' = [input EXCEPT ![r] = in]
  /\ pc' = [pc EXCEPT ![r] = CASE in.kind = "run"    -> "lookup"
                               [] in.kind = "create" -> "insert"
                               [] in.kind = "assign" -> "load"]
  /\ UNCHANGED <<experiment, message, deliveries, at, fresh, holds,
                 seen, created, reused, skipped, outcome>>

\* Mutant of SameExperiment: the variant codes are not compared.
SameChannel(in) == experiment.channel = in.channel

SameExperiment(in) ==
  experiment = [channel |-> in.channel, codes |-> in.codes]

\* Mutant of BeginRefresh: a rerun leaves the stored variants alone.
SkipRefresh(r) ==
  /\ pc' = [pc EXCEPT ![r] = "load"]
  /\ UNCHANGED at

BeginRefresh(r) ==
  /\ \E c \in input[r].codes : at' = [at EXCEPT ![r] = c]
  /\ pc' = [pc EXCEPT ![r] = "refresh"]

\* run: SELECT the experiment by campaign and name; an existing one must have
\* the request's channel and variant codes before its variants are refreshed.
LookupExperiment(r) ==
  /\ pc[r] = "lookup"
  /\ \/ /\ experiment = None
        /\ pc' = [pc EXCEPT ![r] = "insert"]
        /\ UNCHANGED <<dbVars, input, at, fresh, holds, loopVars, outcome>>
     \/ /\ experiment # None
        /\ SameExperiment(input[r])
        /\ BeginRefresh(r)
        /\ UNCHANGED <<dbVars, input, fresh, holds, loopVars, outcome>>
     \/ /\ experiment # None
        /\ ~SameExperiment(input[r])
        /\ Rollback(r, "name_conflict")

\* INSERT the experiment row and its variants; the unique key of the name
\* makes it wait for an open inserter and fail after a committed one.
InsertExperiment(r) ==
  /\ pc[r] = "insert"
  /\ WaitsFor(r) = {}
  /\ \/ /\ experiment = None
        /\ fresh' = [fresh EXCEPT ![r] = TRUE]
        /\ holds' = [holds EXCEPT ![r] = input[r].codes]
        /\ pc' = [pc EXCEPT ![r] = IF input[r].kind = "create" THEN "commit" ELSE "load"]
        /\ UNCHANGED <<dbVars, input, at, loopVars, outcome>>
     \/ /\ experiment # None
        /\ Rollback(r, "duplicate_name")

\* run on an existing experiment: UPDATE one variant, keeping its row lock.
RefreshVariant(r) ==
  /\ pc[r] = "refresh"
  /\ WaitsFor(r) = {}
  /\ holds' = [holds EXCEPT ![r] = @ \cup {at[r]}]
  /\ LET rest == input[r].codes \ holds'[r] IN
       \/ /\ rest = {}
          /\ pc' = [pc EXCEPT ![r] = "load"]
          /\ at' = [at EXCEPT ![r] = None]
       \/ /\ \E c \in rest : at' = [at EXCEPT ![r] = c]
          /\ UNCHANGED pc
  /\ UNCHANGED <<dbVars, input, fresh, loopVars, outcome>>

\* Read the target users and the assignments they already have.
LoadAssignments(r) ==
  /\ pc[r] = "load"
  /\ \/ /\ input[r].kind = "assign" /\ experiment = None
        /\ Rollback(r, "not_found")
     \/ /\ input[r].kind = "run" \/ experiment # None
        /\ input[r].users = {}
        /\ Rollback(r, "empty")
     \/ /\ input[r].kind = "run" \/ experiment # None
        /\ seen' = [seen EXCEPT ![r] = {d \in deliveries : d.user \in input[r].users}]
        /\ \E u \in input[r].users : at' = [at EXCEPT ![r] = u]
        /\ pc' = [pc EXCEPT ![r] = "assign"]
        /\ UNCHANGED <<dbVars, input, fresh, holds, created, reused, skipped, outcome>>

Handled(r) == UsersOf(created[r]) \cup UsersOf(reused[r]) \cup skipped[r]

\* Mutant of NextUser: the loop ends one user early.
NextUserButLast(r) ==
  LET rest == input[r].users \ (Handled(r) \cup {at[r]}) IN
    \/ /\ Cardinality(rest) <= 1
       /\ pc' = [pc EXCEPT ![r] = "commit"]
       /\ at' = [at EXCEPT ![r] = None]
    \/ /\ Cardinality(rest) > 1
       /\ \E u \in rest : at' = [at EXCEPT ![r] = u]
       /\ UNCHANGED pc

\* The loop moves on to another user, or out of the loop after the last one.
NextUser(r) ==
  LET rest == input[r].users \ (Handled(r) \cup {at[r]}) IN
    \/ /\ rest = {}
       /\ pc' = [pc EXCEPT ![r] = "commit"]
       /\ at' = [at EXCEPT ![r] = None]
    \/ /\ \E u \in rest : at' = [at EXCEPT ![r] = u]
       /\ UNCHANGED pc

\* No row in users; or, for the assignments endpoint, already assigned.
SkipUser(r) ==
  /\ pc[r] = "assign"
  /\ \/ at[r] \notin KnownUsers
     \/ input[r].kind = "assign" /\ at[r] \in UsersOf(seen[r])
  /\ skipped' = [skipped EXCEPT ![r] = @ \cup {at[r]}]
  /\ NextUser(r)
  /\ UNCHANGED <<dbVars, input, fresh, holds, seen, created, reused, outcome>>

\* Mutant of ExistingAssignment: reports the user id instead of the row.
ExistingUser(r) == {at[r]}

ExistingAssignment(r) == {d \in seen[r] : d.user = at[r]}

\* run: an existing assignment is reported again.
ReuseAssignment(r) ==
  /\ pc[r] = "assign"
  /\ input[r].kind = "run"
  /\ at[r] \in KnownUsers \cap UsersOf(seen[r])
  /\ reused' = [reused EXCEPT ![r] = @ \cup ExistingAssignment(r)]
  /\ NextUser(r)
  /\ UNCHANGED <<dbVars, input, fresh, holds, seen, created, skipped, outcome>>

VisibleCodes(r) == IF fresh[r] THEN input[r].codes ELSE experiment.codes

\* A new delivery with the variant _assignment_decision picks (any of them).
InsertDelivery(r) ==
  /\ NeedsInsert(r)
  /\ WaitsFor(r) = {}
  /\ \/ /\ at[r] \notin UsersOf(deliveries)
        /\ \E c \in VisibleCodes(r) :
             created' = [created EXCEPT ![r] = @ \cup {[user |-> at[r], code |-> c, by |-> r]}]
        /\ NextUser(r)
        /\ UNCHANGED <<dbVars, input, fresh, holds, seen, reused, skipped, outcome>>
     \/ /\ at[r] \in UsersOf(deliveries)
        /\ Rollback(r, "duplicate_row")

\* A lost connection, a dead process, a foreign key or check violation.
Fail(r) ==
  /\ InTransaction(r)
  /\ Rollback(r, "error")

\* PostgreSQL's deadlock detector picks r as the victim: DeadlockDetected.
AbortDeadlock(r) ==
  /\ InDeadlock(r)
  /\ Rollback(r, "error")

Statement(r) ==
  \/ LookupExperiment(r)
  \/ InsertExperiment(r)
  \/ RefreshVariant(r)
  \/ LoadAssignments(r)
  \/ SkipUser(r)
  \/ ReuseAssignment(r)
  \/ InsertDelivery(r)
  \/ Commit(r)

Next ==
  \E r \in Requests :
    \/ \E in \in Inputs : Arrive(r, in)
    \/ Statement(r)
    \/ AbortDeadlock(r)
    \/ Fail(r)

Spec == Init /\ [][Next]_vars

\* A thread goes on executing its statements, and the deadlock detector runs.
Fairness ==
  /\ \A r \in Requests : WF_vars(Statement(r))
  /\ WF_vars(\E r \in Requests : AbortDeadlock(r))

FairSpec == Spec /\ Fairness

(***************************************************************************)
(* Properties.                                                             *)
(***************************************************************************)

\* However requests interleave, wait, abort and retry, a user holds at most
\* one variant of the experiment: no two committed delivery rows share a user.
OneAssignmentPerUser ==
  \A d, e \in deliveries : d.user = e.user => d = e

\* A successful answer tells the truth about the table: every requested user is
\* reported exactly once, every reported row is a committed row, run leaves out
\* only unknown users, and each known user now has an assignment.
AnswerMatchesLedger ==
  \A r \in Requests : outcome[r] = "ok" /\ input[r].kind # "create" =>
    /\ input[r].users = Handled(r)
    /\ UsersOf(created[r]) \cap UsersOf(reused[r]) = {}
    /\ skipped[r] \cap UsersOf(created[r] \cup reused[r]) = {}
    /\ created[r] \cup reused[r] \subseteq deliveries
    /\ input[r].kind = "run" => skipped[r] \cap KnownUsers = {}
    /\ input[r].users \cap KnownUsers \subseteq UsersOf(deliveries)

\* Reruns of one experiment do not fail each other: the variant rows a rerun
\* updates first serialise it with other reruns, so the 409 for a delivery row
\* needs a concurrent call of the assignments endpoint that took the same user.
RerunDisturbedOnlyByAssign ==
  \A r \in Requests :
    outcome[r] = "duplicate_row" /\ input[r].kind = "run" =>
      \E q \in Requests :
        /\ outcome[q] = "ok"
        /\ input[q].kind = "assign"
        /\ UsersOf(created[q]) \cap input[r].users # {}

\* The committed rows move as the ledger says: each accepted request is one
\* atomic step, whatever statements of others ran between its own.
AssignedIn(rows) ==
  [u \in Users |-> IF u \in UsersOf(rows) THEN (CHOOSE d \in rows : d.user = u).code ELSE None]

Ledger == INSTANCE CampaignLedger WITH assigned <- AssignedIn(deliveries)

ImplementsLedger == Ledger!LedgerSpec

\* No request waits for ever: every arrival is answered, also when requests
\* list the same users or variants in opposite orders.
EveryRequestEnds ==
  \A r \in Requests : (pc[r] # "idle") ~> (pc[r] = "done")
=============================================================================
