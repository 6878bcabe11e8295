--------------------------- MODULE TargetRequest ---------------------------
(***************************************************************************)
(* One POST /target-sql: retrieve makes the plan (Structuring), builds SQL *)
(* from it through a chain of gates, and generates messages                 *)
(* (MessageGeneration); target_sql then runs the SQL, stores the audience   *)
(* and, when the graph knew no campaign, generates messages once more from  *)
(* the rows of the database.                                                *)
(***************************************************************************)
EXTENDS Structuring, MessageGeneration

CONSTANTS
  Requests,   \* options of the request and what its plan and the graph hold
  Failings    \* sets of gates that may object to the same plan

RequestType == [ready : BOOLEAN,      \* the graph was loaded
                execute : BOOLEAN,    \* execute_sql
                persist : BOOLEAN,    \* persist_targeting
                local : BOOLEAN,      \* the target is the business database
                generate : BOOLEAN,   \* generate_messages
                channel : BOOLEAN,    \* messages can be made for the channel
                recommend : BOOLEAN,  \* intent = recommend_campaign
                campaign : BOOLEAN]   \* the retrieved nodes hold a campaign

\* Gates before there is a candidate, those that judge it, and those that may
\* still hold back the one selected.
Refusals == {"authority", "member_filters", "external_condition", "semantic_conflict",
             "dimension_filters", "unresolved_source", "required_inputs",
             "condition_tokens", "executable_plan"}
CandidateChecks == {"no_candidate", "sql_guard", "coverage", "intent_scope",
                    "unmentioned", "delivery_contract", "shipped_recheck"}
ShippingChecks == {"verifier_unavailable", "verifier", "requirement_accounting",
                   "delivery", "semantic_invariants", "coverage_gate"}

ASSUME RequestAssumption ==
  /\ Requests \subseteq RequestType
  /\ Failings \subseteq SUBSET (Refusals \cup CandidateChecks \cup ShippingChecks)

VARIABLES
  request,   \* the request
  phase,     \* where target_sql is
  built,     \* sql and blocked_sql of build_sql_result
  database,  \* database_execution
  audience,  \* its audience, "saved" once the rows are committed
  campaigns, \* campaign_context_nodes of the database
  response   \* status, or the error the client gets

requestVars == <<phase, built, database, audience, campaigns, response>>
allVars == <<vars, genVars, request, requestVars>>

RequestInit ==
  /\ Init /\ GenInit
  /\ request \in Requests
  /\ phase = "retrieve" /\ built = "none" /\ database = "none"
  /\ audience = "none" /\ campaigns = FALSE /\ response = "none"

------------------------------------------------------------------------------
(* retrieve                                                                 *)

\* target_sql without a graph: 503.
Unavailable ==
  /\ phase = "retrieve" /\ ~request.ready
  /\ phase' = "done" /\ response' = "unavailable"
  /\ UNCHANGED <<vars, genVars, request, built, database, audience, campaigns>>

Structure ==
  /\ phase = "retrieve" /\ request.ready
  /\ Next
  /\ UNCHANGED <<genVars, request, requestVars>>

\* build_sql_result.  A plan without an expression is closed by
\* _semantic_ir_blocking_sql_result; a candidate that is held back stays visible.
BuiltSql(failing) ==
  IF plan.sql = "none" \/ failing \cap (Refusals \cup {"no_candidate"}) # {} THEN "refused"
  ELSE IF failing # {} THEN "blocked"
  ELSE "shipped"

BuildSql ==
  /\ phase = "retrieve" /\ stage = "done"
  /\ \E failing \in Failings : built' = BuiltSql(failing)
  /\ phase' = "context"
  /\ UNCHANGED <<vars, genVars, request, database, audience, campaigns, response>>

\* Mutant of Context: messages for any plan that reached SQL.
ContextOfPlan(campaign) ==
  Opening(request.channel, plan.sql # "none", request.recommend, campaign,
          request.generate, prompt.served)

Context(campaign) ==
  Opening(request.channel, built = "shipped", request.recommend, campaign,
          request.generate, prompt.served)

OpenMessages ==
  /\ phase = "context"
  /\ BeginGeneration(Context(request.campaign))
  /\ phase' = "messages"
  /\ UNCHANGED <<vars, request, built, database, audience, campaigns, response>>

GenerateMessages ==
  /\ phase \in {"messages", "refreshed"}
  /\ GenNext
  /\ UNCHANGED <<vars, request, requestVars>>

Retrieved ==
  /\ phase = "messages" /\ generation # "running"
  /\ phase' = "execute"
  /\ UNCHANGED <<vars, genVars, request, built, database, audience, campaigns, response>>

\* A ValueError of retrieve is a 400, any other exception a 500.
RaiseInRetrieve ==
  /\ phase \in {"retrieve", "context", "messages"} /\ request.ready
  /\ generation # "running"
  /\ phase' = "done" /\ response' \in {"bad_request", "internal_error"}
  /\ UNCHANGED <<vars, genVars, request, built, database, audience, campaigns>>

------------------------------------------------------------------------------
(* execute_target_sql                                                       *)

\* Mutant of Runs: SQL that was held back is run as well.
RunsBlocked == request.execute /\ built \in {"shipped", "blocked"}

Runs == request.execute /\ built = "shipped"

\* execute_target_sql runs nothing.  SQL whose aggregation does not validate, its
\* other reason to skip, was dropped by build_sql_result and never shipped.
SkipExecution ==
  /\ phase = "execute" /\ ~Runs
  /\ database' = "skipped" /\ phase' = "refresh"
  /\ UNCHANGED <<vars, genVars, request, built, audience, campaigns, response>>

ExecutionFails ==
  /\ phase = "execute" /\ Runs
  /\ database' = "failed" /\ phase' = "refresh"
  /\ UNCHANGED <<vars, genVars, request, built, audience, campaigns, response>>

\* Mutant of Saves: the sanity of the rows is looked at afterwards.
SavesFirst(sane) == request.local /\ request.persist

\* Validation precedes persistence; an external target is never persisted.
Saves(sane) == request.local /\ request.persist /\ sane

\* The rows may lack user_id, and storing them may fail; neither is a failure of
\* the execution.
ExecutionReturns(sane) ==
  /\ phase = "execute" /\ Runs
  /\ database' = IF sane THEN "ok" ELSE "insane"
  /\ audience' \in IF Saves(sane) THEN {"saved", "skipped", "error"} ELSE {"skipped"}
  /\ campaigns' \in IF request.local THEN BOOLEAN ELSE {FALSE}
  /\ phase' = "refresh"
  /\ UNCHANGED <<vars, genVars, request, built, response>>

------------------------------------------------------------------------------
(* refresh_message_generation_from_database and the answer                  *)

\* Mutant of Refreshes: whenever the database knows a campaign.
RefreshesAlways == database = "ok" /\ campaigns

Refreshes == generation = "no_campaign" /\ database = "ok" /\ campaigns

Refresh ==
  /\ phase = "refresh"
  /\ IF Refreshes
     THEN \E known \in BOOLEAN : BeginGeneration(Context(known))
     ELSE UNCHANGED genVars
  /\ phase' = "refreshed"
  /\ UNCHANGED <<vars, request, built, database, audience, campaigns, response>>

\* Nothing catches an exception after retrieve: a 500 without a failure log.
RaiseAfterRetrieve ==
  /\ phase \in {"execute", "refresh", "refreshed"} /\ generation # "running"
  /\ phase' = "done" /\ response' = "uncaught"
  /\ UNCHANGED <<vars, genVars, request, built, database, audience, campaigns>>

\* Mutant of Status: the status of the SQL is the status of the request.
StatusOfSql == IF built = "shipped" THEN "success" ELSE "declined"

\* _api_status and its correction after the execution; "declined" stands for
\* needs_clarification, unsupported and no_verified_sql.
Status ==
  IF built # "shipped" THEN "declined"
  ELSE IF request.execute /\ database # "ok" THEN "sql_validation_failed"
  ELSE "success"

Respond ==
  /\ phase = "refreshed" /\ generation # "running"
  /\ phase' = "done" /\ response' = Status
  /\ UNCHANGED <<vars, genVars, request, built, database, audience, campaigns>>

Step ==
  \/ Unavailable \/ Structure \/ BuildSql \/ OpenMessages \/ GenerateMessages
  \/ Retrieved \/ SkipExecution \/ ExecutionFails
  \/ (\E sane \in BOOLEAN : ExecutionReturns(sane))
  \/ Refresh \/ Respond

RequestNext == Step \/ RaiseInRetrieve \/ RaiseAfterRetrieve

RequestSpec == RequestInit /\ [][RequestNext]_allVars

\* The thread of the request runs on, and every call of a provider or a database
\* it waits for ends: each has a timeout.
FairRequestSpec == RequestSpec /\ WF_allVars(Step)

------------------------------------------------------------------------------
(* Properties                                                               *)

\* Type invariant of the request and the components it is made of.
RequestTypeOK ==
  /\ TypeOK /\ GenTypeOK
  /\ request \in Requests
  /\ phase \in {"retrieve", "context", "messages", "execute", "refresh", "refreshed", "done"}
  /\ built \in {"none", "refused", "blocked", "shipped"}
  /\ database \in {"none", "skipped", "failed", "insane", "ok"}
  /\ audience \in {"none", "skipped", "error", "saved"}
  /\ campaigns \in BOOLEAN
  /\ response \in {"none", "unavailable", "bad_request", "internal_error", "uncaught",
                   "success", "declined", "sql_validation_failed"}

Promise == INSTANCE RequestPromise WITH
  sql <- CASE built = "none" -> "undecided"
           [] built = "shipped" -> "shipped"
           [] OTHER -> "withheld",
  run <- CASE database = "ok" -> "ok"
           [] database \in {"failed", "insane"} -> "failed"
           [] OTHER -> "none",
  saved <- audience = "saved",
  offered <- messages,
  answer <- CASE response = "none" -> "none"
              [] response = "success" -> "success"
              [] response \in {"declined", "sql_validation_failed"} -> "failure"
              [] OTHER -> "error"

\* target_sql keeps its promise: what is run, stored, offered and answered follows
\* from the SQL that shipped and from the run that went well, in whatever step
\* the request fails.
ImplementsPromise == Promise!PromiseSpec

\* Every request is answered, however often the model fails to emit a plan or a
\* message and whichever of the four stages structures again.
EveryRequestEnds == <>(phase = "done")
=============================================================================
