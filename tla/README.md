# TLA+ models of the recommendation campaign system

This directory holds TLA+ specifications of the parts of the service whose
correctness depends on the order of events: requests that run at the same time
on one database, notifications that are resent, process-wide caches that several
threads fill, a dialogue that takes several requests, and one long request whose
stages call a language model again and again and may each fail. TLC model-checks
them on small instances; TLAPS proves the main properties for every value of the constants. Paths below are relative to the
repository (`src/` is its root); line numbers name the commit that was read.

## 1. The system

One `uvicorn api:app` process. The endpoints are synchronous functions, so each
call runs on a thread of the server's thread pool and calls really overlap.
Durable state is in PostgreSQL databases: a default one (`POSTGRES_*`), a metadata
database (`METADATA_DB_*`, by default the same one), and a read-only target
database for segment queries. Every handler opens its own connection, and
`with psycopg.connect(...)` is one READ COMMITTED transaction: it commits when
the block ends and rolls back when an exception leaves it. Nothing sets another
isolation level, and no statement uses `SELECT ... FOR UPDATE`.

| Part | Source | State | Operations | Module |
|---|---|---|---|---|
| A/B/C experiments | `api.py` 1053-1610, 2180-2320, 2790-3045 | `campaign_experiments`, `campaign_message_variants`, `campaign_message_deliveries` | run, create, assign | `ExperimentAssignment`, `CampaignLedger` |
| Message event webhook | `api.py` 1613-1690, 3060-3175 | `campaign_message_events`, the delivery rows | collect an event | `MessageEvents` |
| Policy and prompt store | `policy_store.py`, `prompt_store.py` | a table; three module globals (`_cache`, `_cache_ready`, `_next_retry_at`) | look up, list, upsert, delete, seed, reload | `DocumentStore` |
| Target audiences | `api.py` 780-980, 4276-4473 | audience row, member rows, counts | execute and save, page, delete, clean up | `TargetAudience`, `AudienceSnapshots` |
| Target SQL request | `api.py` 516-703, 4276-4530; `graph_rag.py` 5816-6192, 9740-10613 | per request: the plan, the SQL, the execution, the response | structure, build SQL, execute, save, refresh messages, answer | `TargetRequest`, `RequestPromise` |
| Query structuring | `query_structurer/structurer.py` 361-551, `graph_rag.py` 5845-5900, `targeting_policy.py`, `default_period_policy.py`, `canonical_event_ir_grounding.py`, `resolution/integration.py` | per call: attempts, the remembered failure; per request: the plan | complete, validate, retry, fall back, structure again | `Structuring` |
| Resolution and clarification | `resolution/`, `semantic_issue/`, `query_structurer/audience_execution.py` 1739-1904 | per request: the expression, deficits, settled identities; per dialogue: the answers of the client | detect, decide, apply, ask, answer | `Resolution` |
| Message generation | `rag/message.py` 84-640 | per request; one thread per variant | open, generate, validate, repeat | `MessageGeneration` |
| CTR analysis and scoring | `api.py` 2850-2990, 3176-3316 | none (reads) | winner, confidence, next action | not modelled |
| CTR predictor cache | `training/ctr_predictor.py` 24-95, `training/train_lightgbm_ctr.py` 208-210 | two module globals, two files | score, train | `PredictorCache` |
| External conditions | `external_conditions/service.py` | result cache with TTL | resolve | not modelled |
| Conceptual targeting | `conceptual_targeting.py` 948-984 | LRU cache with expiry | resolve | not modelled |
| Query parsing, temporal IR, validation, SQL generation | `graph_rag.py`, `query_pipeline/`, `temporal_ir/`, `nl_event_ir/`, ... | none between calls | sequential transformations of one request | not modelled (section 6) |

`PROJECT.json` lists every component with the reason when it is not modelled,
and the hazards of the code line by line with the properties that cover them.

How the parts interact. A run of an experiment takes its users from the request
or from a saved audience, its texts from message generation (which looks up
prompts and policies), and writes the experiment, three variants and one
delivery row per user. The webhook finds a delivery row by id or by the
provider's message id, logs the event and updates the row. CTR analysis reads
what both wrote. Parts share state through the database and, within the
process, through module globals; there are no messages between them and no
background jobs. One `POST /target-sql` goes through most of the rest: `retrieve`
has the structurer make a plan (whose deficits the resolution decides, or turns
into questions the client answers in its next request), builds SQL from it and
generates messages; `target_sql` then runs the SQL, stores the audience and may
generate the messages again from what the database knows.

What is hard. (a) READ COMMITTED lets every statement of a transaction see a
different database, so anything read early (existing assignments, the delivery
row, the rows of a cache load) is stale when used. (b) Uniqueness is enforced by
keys that make one transaction wait for another, so handlers wait for each other
in orders the clients choose. (c) Providers resend. (d) Caches are several
globals without a lock. (e) A handler may die between any two statements. (f) A
plan is made by a model that may say anything, up to five times in one request,
and each time a later stage may replace what an earlier one settled. (g) A
dialogue is stateless on the server: every request resolves the prompt from the
beginning with all the answers given so far. (h) What a response says was decided
before the stages that can still fail.

## 2. Modules

    CampaignLedger                 abstract: one atomic step per accepted request
      ^ refined by
    ExperimentAssignment           the three endpoints, one action per SQL statement
      |-- MCExperimentAssignment   small instance       (1 run)
      |-- ExperimentAssignment_proofs   types, rows, answers
            |-- ExperimentSerial_proofs reruns, refinement, waits
    MessageEvents                  the webhook, one action per SQL statement
      |-- MCMessageEvents          small instance       (2 runs)
      |-- MessageEvents_proofs
    DocumentStore                  policy_store.py and prompt_store.py
      |-- MCDocumentStore          small instances      (3 runs)
      |-- DocumentStore_proofs
    AudienceSnapshots              abstract: audiences appear and disappear in one step
      ^ refined by
    TargetAudience                 saving, paging, deleting and cleaning up audiences
      |-- MCTargetAudience         small instance       (1 run)
      |-- TargetAudience_proofs
    PredictorCache                 the CTR predictor of the process and its two files
      |-- MCPredictorCache         small instance       (1 run)
      |-- PredictorCache_proofs
    Resolution                     the clarification dialogue
      |-- MCResolution             small instance       (2 runs)
      |-- Resolution_proofs
    RequestPromise                 abstract: what one request may run, store, offer, answer
      ^ refined by
    TargetRequest                  POST /target-sql; composes the next two
      |-- Structuring              the structurer and the four stages around it
      |     |-- MCStructuring      small instance       (1 run)
      |-- MessageGeneration        parallel variants, attempts
      |-- MCTargetRequest          small instance       (1 run)
      |-- TargetRequest_proofs     the stages, the messages and the request

PostgreSQL is modelled from how the code uses it, and the map marks those
definitions as external: what a transaction writes stays invisible until it
commits; an INSERT under a unique key waits for the open transaction that
inserted the same key and fails (or, with ON CONFLICT DO NOTHING, does nothing)
when that one commits; an UPDATE waits for the holder of the row lock and then
works on the committed row; a cycle of waits is broken by aborting a member.

### ExperimentAssignment

A request is a thread with one transaction. `pc[r]` is the statement it executes
next.

| Action | Code |
|---|---|
| `Arrive` | the request body, after the 400 checks on it |
| `LookupExperiment` | SELECT by campaign and name; 409 when channel or variant codes differ |
| `InsertExperiment` | INSERT of the experiment and its variants; unique name |
| `RefreshVariant` | UPDATE of one variant's text by a rerun, one per loop turn |
| `LoadAssignments` | users, experiment and variants, existing deliveries; 404 and 400 |
| `SkipUser`, `ReuseAssignment`, `InsertDelivery` | the three branches of the loop over users |
| `Commit`, `Fail`, `AbortDeadlock` | the end of the `with` block; an exception anywhere; DeadlockDetected |

Abstractions. The experiment is the one of a fixed campaign and name: the
handlers touch no other experiment's rows. The order in which a body lists users
and variants is the client's, so the loop may take any remaining one next, a
superset of the fixed order. The variant `_assignment_decision` picks is any
variant of the experiment. `LoadAssignments` stands for several SELECTs: the
experiment and its variant codes never change once committed, users are read
from a table no handler writes, so only the SELECT of the deliveries is
sensitive to its moment. `Fail` stands for lost connections, a killed process,
foreign key and check violations. The schema file is not in the repository; the
key UNIQUE (experiment_id, user_id) is the one `docs/guides/ctr_analysis_process.md`
documents and the handlers' `UniqueViolation` branches rely on.

### MessageEvents

A post is a thread with one transaction of up to four statements: `Lookup` (the
delivery row, then the event key), `InsertEvent` (ON CONFLICT DO NOTHING),
`UpdateDelivery` (two forms), `Commit`. `Fail` is any exception. The module is
about one delivery: distinct deliveries share no row. Event keys are records of
what the key text is made of (message id, event type, event id or the hashed
fields); that two different ones have different texts is an abstraction of the
hash and of the cut at 200 characters. Posts carry notifications from a set, so
a resend is a second post with the same notification.

### DocumentStore

`policy_store.py` and `prompt_store.py` have the same code. Every read and write
of a module global is an action (`CheckReady`, `CheckRetry`, `ResetReady`,
`ResetRetry`, `SetCache`, `SetReady`, `SetRetry`), and so is the SELECT of a load
(`Select`, `FailSelect`). A write (`Write`) is one action: its transaction reads
nothing, so only its commit is visible. `history` is the sequence of committed
tables and exists for the properties. `CooldownEnds` is the clock passing
`_next_retry_at`. `Restart` may happen in any state and resets the globals.
`SameDatabase` says whether lookups load from the database the admin endpoints
write: true for policies, false for prompts with a metadata database of their own.

### TargetAudience

A saver is one call of `execute_target_sql` and names the audience it saves.

| Action | Code |
|---|---|
| `Execute` | the SELECTs on the business database; all gates before a save |
| `InsertAudience`, `CopyRow`, `Complete`, `Commit` | INSERT as "running", one row of the COPY, UPDATE with the counts, the end of the `with` block |
| `Fail` | a timeout or any other exception in that block, or a killed process |
| `Delete`, `Cleanup` | one DELETE each; the foreign key removes the members |
| `BeginListing`, `CheckExists`, `ReadPage`, `FailPage` | a client that follows `next_after_member_id`; the two SELECTs of one page request; a failed request, repeated |

Abstractions. Whether a call saves (validation of the plan, sanity of the result,
`persist_targeting`, a `user_id` column, an external target database) is a free
choice: every property must hold for each outcome. The result of a query is any
set of rows from `Results`; the rows are distinct because the SELECT says
DISTINCT. The clock counts days. A cleanup may break ties in any way. The COPY is
one action per row, because two of them that run at the same time draw their
member ids from one sequence in turns, and a rollback leaves gaps. Clients page as
`docs/operations/project_process.md` (line 405) describes. The same page says
(line 403) that members are written by INSERT ... SELECT inside PostgreSQL; the
code has two databases and uses COPY, which is what the module models.

### Resolution

One dialogue: a prompt, sent again with the client's answers until SQL can be made
of it or the client stops. An expression is a set of clauses, some compared as sums
(`sums`), some without a time window (`bare`); the identity of an issue is the
report or the clause it is about.

| Action | Code |
|---|---|
| `Finish`, `Unsupported`, `Ask` | the three ways `resolve_request` (`resolution/loop.py`) leaves a round, the guard against repetition included |
| `StartAuto`, `ApplyAuto`, `EndAuto` | `apply_auto_resolutions`, one decision at a time, all taken on the request of the round's start |
| `StartAnswers`, `ApplyAnswer`, `EndAnswers` | the answers that are still pending, one at a time; an answer that does not fit is recorded |
| `Project` | `project_resolution_to_plan`: what is left closes the plan, or it goes on to SQL |
| `Realize`, `Adopt` | `realize_entity_bindings`: structure again with the answered names, adopt or keep the plan |
| `Answer` | the client's next request, with every answer it has given |

Abstractions. What structuring hands over is any member of `Plans`. Two sets of
appliers are told apart by whether the value fits (`FitsPeriod`, `Fits`), and it is the
slot of an issue that has an applier, so an ambiguous requirement about the period
(`audience.period`) takes a period like a missing one; dates and names are not
represented. Which patched expressions fail when they are parsed again is a free choice of
each structuring (`rejected`, `Kept`). The same prompt structures to the same plan again
(`first`): `issue_identity` is content-addressed for that reason, and a dialogue whose
plan changes under it is a new one. A helpful client (`AnswerAll`) only occurs in the
fairness condition.

### Structuring

`prompt` is what the request and the deployment are: how the prompt gives the period
of each recency marker, whether the client answered with names, whether the provider
has a key, whether a default period is configured. `plan` is the plan handed on,
`stage` the stage working on it.

| Action | Code |
|---|---|
| `Accept`, `Refuse`, `NonRetryable`, `Unserved` | one completion of `LLMCampaignQueryPlanV4Structurer.structure`: it validates; it does not and is retried or, after the last attempt, given up; an error no retry cures; no key |
| `Return` | the stage that called takes the candidate or keeps its plan (`Adopts`: the four admission rules) |
| `Restructure`, `Skip` | the stage calls the structurer again, or has nothing to ask for |

The stages are, in the order of `graph_rag.py` 5854-5898, the grounded repair of a gap
in the registry, the correction of periods the prompt states, the default period, and
the names the client answered. A completion may become any of `Payloads`, the shapes
`attach_campaign_query_plan_v4_identity` can produce; the model's cooperation is never
assumed. Abstractions: the parser mode "rules" makes no call and behaves as a provider
without a key; the catalogue's default periods are one window (`policy`); a structurer
injected by a test is left out.

### MessageGeneration

`FinishVariant(v)` is the future of one variant completing, in any order, with any of
`Replies`; a timeout is one of them. `JudgeAttempt` is what `build_message_response`
does with the sorted variants: succeed, repeat with what was wrong, or give up after
`MaxAttempts`. `InOrder` is `variant_attempts.sort` by `Position`, stated as what a sort
is, an arrangement that increases, rather than by recursion, so that it can be proved
about; `Satisfied` is the validation of the payload together with the issues a failed
thread adds to it (`message.py:523`). `Opening` is the order in which `build_message_context` and
`build_message_response` decline before they ask the model for anything.

### TargetRequest and RequestPromise

`TargetRequest` EXTENDS both modules and adds the request: `Structure` and
`GenerateMessages` are steps of the components, the other actions are the code between
them.

| Action | Code |
|---|---|
| `Unavailable` | no graph: 503 |
| `BuildSql` | the gates of `build_sql_result`; a plan or candidate is refused, blocked (visible but not shipped) or shipped |
| `OpenMessages`, `Retrieved` | the message stage of `retrieve`, and its end |
| `SkipExecution`, `ExecutionFails`, `ExecutionReturns` | `execute_target_sql`; the rows may be insane, lack `user_id`, or fail to be stored |
| `Refresh` | `refresh_message_generation_from_database` |
| `Respond` | the status and its correction after the execution |
| `RaiseInRetrieve`, `RaiseAfterRetrieve` | an exception, caught (400 and 500) or not |

Which gates object is any member of `Failings`: each gate is a function of the plan and
of text the model does not hold, and what matters for the request is which of the three
kinds of gate objected. Saving an audience is one step here and several in
`TargetAudience`, whose refinement of `AudienceSnapshots` is what makes that sound.
`execute_target_sql` also declines on an invalid `aggregation_validation`
(`api.py:4295`); that cannot happen for SQL that shipped, because `build_sql_result` drops
such candidates (`graph_rag.py:10158`), and is left out.

`RequestPromise` is what the endpoint promises, in five variables: SQL is decided once;
only shipped SQL is run, once; an audience is stored only by a run that went well;
messages are offered only for shipped SQL and stay; "success" needs shipped SQL and no
failed run, a failure needs that nothing was stored.

The three abstract modules end with what they guarantee (`OneAuthor`, `AssignedWithin` and
`AssignedForLife` in `CampaignLedger`, `SnapshotsLast` in `AudienceSnapshots`, `Honest` and
`Irrevocable` in `RequestPromise`). The guarantees are proved of the abstraction, where each
is a few lines, and hold of the detailed module because it implements the abstraction.

### PredictorCache

Threads score with the one predictor of the process; training replaces its files.
Each file is identified by the run that wrote it and by whether it was written to the
end, which is also what its modification time tells.

| Action | Code |
|---|---|
| `Train`, `Open`, `Close`, `Kill` | `train_lightgbm_ctr.py` 208-210: the model file, then the metadata file, each emptied and then written; the process killed anywhere |
| `Begin` | `_score_variants` calls `predict_variant_scores` for a version |
| `StatModel`, `StatMetadata` | the two `stat` calls of the signature; no file: an exception |
| `Compare` | `ctr_predictor.py` 78 |
| `ReadModel`, `ReadMetadata` | `CtrPredictor.__init__`; a half-written file cannot be read |
| `StorePredictor`, `StoreSignature` | the assignments of lines 79 and 80 |
| `Return` | line 81 reads the global again; the version check of line 91 |

Abstractions. A predictor is the pair of runs its two files are from; its version is the
run of the metadata. Line 78 reads two globals in one action: the first never becomes
`None` again, and what the second is when it is read decides. The only exceptions are
those of missing and half-written files and of the version; `_score_variants` turns each
into heuristic scores or a 500, which leave the cache as it is. One run of training at a
time, and no file is deleted. `quiet`, `alone` and `clean` exist for the property.

In all modules a handler that fails has rolled back. A COMMIT that succeeds while
its acknowledgement is lost, so that the handler answers an error for something
that is stored, is not modelled.

## 3. Properties and runs

| Run | Instance | Shows |
|---|---|---|
| `ExperimentAssignment` | 3 requests, 7 bodies, 2 known users and 1 unknown, 3 of 4 codes, 2 channels | `OneAssignmentPerUser`, `AnswerMatchesLedger`, `RerunDisturbedOnlyByAssign`, `ImplementsLedger`, `EveryRequestEnds` |
| `MessageEvents` | 3 posts, 5 notifications, 2 message ids | `EventAndRowTogether`, `IdentifiedNoticeStoredOnce`, `AnsweredEventIsStored`, `FirstValuesStay`, `EveryPostEnds` |
| `ResentNotice` | same | violation: `ResentNoticeStoredOnce` |
| `PolicyStore` | 2 threads, 2 documents, 2 writes, 2 failures, 1 restart | `CacheIsCommittedTable`, `CacheComesBack` |
| `StaleCache` | 2 threads, 1 write, no failure | violation: `CacheFollowsWrites` |
| `PromptStore` | as `PolicyStore`, lookups from another database | violation: `CacheIsCommittedTable` |
| `TargetAudience` | 2 savers, 1 client, results of 0, 2 and 3 rows, pages and batches of 1 or 2, 2 days | `SavedWhole`, `PagesMakeTheAudience`, `ImplementsSnapshots` |
| `Resolution` | 2 clauses, 7 reports, 20 plans, 2 policies, one question at a time | `NeverRaised`, `SqlHasItsReceipts`, `DecidedIsNotAsked`, `NoAnswerVanishes`, `AnsweredDialogueReachesSql` |
| `GrainAnswer` | same, three questions at a time | violation: `HighRiskNeedsItsOwnAnswer` |
| `TargetRequest` | 5 prompts over 2 markers, 2 completions a call, 2 variants, 2 texts, 2 attempts, 5 requests, 3 sets of objecting gates | `DefaultHidesNothing`, `FailureKeepsItsName`, `AnsweredIsNamed`, `SqlIsFinal`, `MessagesAreWhole`, `ImplementsPromise`, `EveryRequestEnds` |
| `LostQuestion` | one prompt, 3 completions a call | violation: `QuestionReachesTheUser` |
| `PredictorCache` | 2 threads that score for ever, 2 runs of training | `AnswersFromTheFiles` |

`ExperimentAssignment`. Users never hold two variants; a successful answer
accounts for every requested user and reports only committed rows; a rerun's 409
on a delivery row always names an accepted call of the assignments endpoint,
because the variant locks a rerun takes first serialise it with other reruns; and
each accepted request is one step of `CampaignLedger`, so the three texts of an
experiment always come from one request and an assignment never changes. Requests
that lock the same users and variants in opposite orders all end.

`MessageEvents`. The event log and the delivery row change together, and the row
becomes what the event makes of the row at that moment, not of the row the
handler read. Notifications with a message id are stored once. "duplicate" is
never answered for an insert that may still roll back. First values stay.

`PolicyStore`. Lookups are answered from a state the table really had, although
the globals are written one by one without a lock, and a failed load never
disables the cache for good.

`TargetAudience`. A stored audience is completed, holds the rows its query
returned and counts them truly, and no member outlives it. The pages of a list
never repeat a member or show one of another audience, and a list that ended is
the whole audience as long as the audience is there; when it is deleted between
the existence check and the page, the client is told the list ends, which the
property allows. Every save and every deletion is one step of `AudienceSnapshots`.

`Resolution`. The internal error of the loop is never raised: the policy promises
nothing the appliers cannot do, and no round repeats. A plan that goes on to SQL has a
receipt for every deficit and for every added window; what was settled is not asked
again; an answer is applied or reported. A dialogue with a client that goes on
answering reaches SQL, if each deficit has a place of its own in the expression
(`Answerable`).

`TargetRequest`. The default period never replaces a rolling period the prompt states, although
the instruction is made from the issues of one completion and the candidate comes from
another (calendar intervals are another matter, see section 4); a failed emission is not reported as an unavailable model; a plan with SQL is
final although four stages may structure again; a plan with answered names that goes on
to SQL names them. Messages are one per required variant, in order and different,
whatever order the threads end in and whatever attempt they come from. The request as a
whole is a `RequestPromise`, in whatever step it fails, and it ends.

`PredictorCache`. A request that no write disturbs is answered from the two files as
they are: the predictor of exactly these files, a mismatch with exactly their version, or
a failure if one is missing or half written. What was loaded before, a load that was
overtaken by training, a signature taken between the two writes and a training that was
killed leave no trace. The exception is two loads that overlap, the hazard of
`ctr_predictor.py` 79 itself (section 4); it lasts until a load was alone again.

Why the bounds are enough. A conflict needs two requests, and the third lets a
conflict's winner be disturbed by another or closes a cycle of three waits; two
known users are the least that can be listed in opposite orders, the unknown one
takes the skip branch. Three posts are an event, its resend and the event that
changes the row in between; the five notifications compete for each first value
in pairs, name the delivery in both ways, come with and without message id and
event id, and one updates nothing. For the store, one load that is overtaken by
another needs two threads; a second write makes three table versions, so an old
one can be told from both newer ones; the second failure can hit the retry after
the first. Two savers interleave their member ids and expire on different days,
so a cleanup batch of one has to choose; three rows make a full page of two, a
short one, and with pages of one an empty last page; one user has rows with and
without a campaign, so the three counts differ; more clients would add nothing,
since they only read. A dialogue needs two clauses, so that an answer about one can
settle the other or a period fit several places, and a limit of one question, so that
answers arrive in different requests; `MaxRounds` is the code's 8. For the request, two
markers let one period be stated while the other is missing; one retry tells a
remembered failure from a fresh one, and `LostQuestion` has the code's two; the five
prompts are one for each stage that calls again, and two for a provider without a
key, with and without the recoverable closed interval; two variants can complete out of order
and repeat a text; the second attempt can be satisfied by what the first was not. For the
predictor, the second run of training makes old and new files, and killing it after the
first file a mixed pair; two threads are the least that overlap, and they call again and
again. Savers and the threads of the predictor are symmetric; no run with a liveness
property uses symmetry.

Fairness. A thread that can execute its next statement does (weak fairness per
request, post or thread: threads of the pool are scheduled by the system, and
nothing but a lock of another transaction blocks them); the deadlock detector of
PostgreSQL runs; the clock passes the cooldown; for the store, lookups keep
coming and failures end (`MaxFailures`). The thread of a target request runs on, and
each call of the model provider or a database that it waits for has a timeout
(`WF_allVars(Step)`; exceptions are not fair). In `Resolution` the handler runs to its response, and the client is
helpful infinitely often when it is infinitely often asked (strong fairness of
`AnswerAll`); what else it answers is not restricted. Arrivals, failures, admin calls and
restarts are not fair: the properties hold whether they happen or not.

Deadlock checking is off where the finitely many requests of an instance end in
a state with nothing left to do; that nothing stops before that is what
`EveryRequestEnds` and `EveryPostEnds` say. `Resolution` has it on.

## 4. Findings

1. `ResentNotice`. The integration guide says the unique `event_key` keeps a
   resent webhook from being counted twice. A click without a message id gets a
   key from the delivery row; once another event has filled the row's
   `provider_message_id`, the resent click gets another key and is stored again.
   It holds for notifications that carry a message id.
2. `StaleCache`. The store's documentation says a write is followed by a reload
   that renews the cache. A load that selected before the write can publish its
   rows after the writer's reload; the cache then stays old until the next write
   or reload, with every call successful.
3. `PromptStore`. Prompts are administered in the metadata database, but message
   generation looks them up without its connection string. With a metadata
   database of its own, the cache is filled from the default database.

4. `GrainAnswer`. The policy document says an ambiguity of high risk does not disappear
   without an explicit answer to it. "Per row" as the answer about one threshold calls
   `regrain_to_row` on the whole expression, so every other ambiguous threshold is
   lowered too, and goes on to SQL without a question or a receipt.
5. `LostQuestion`. A question withdraws the projection of an expression that stays in
   the requirement; the structurer's validation calls such a plan inexact and retries,
   and after the last attempt the question is gone and the plan reports that no model
   could be used. The comment beside the withdrawal says it is not a failure of the
   structurer. `_settle_threshold_grain` (`audience_execution.py` 1037-1087) and the
   answer to a foreign subject (1730-1733) leave a plan the same validation refuses.

Seen while modelling, and left as the code has it:

- A failed emission whose expression stands loses its name: its own validation raises
  (`structurer.py:542`), and the caller answers with the fallback (`graph_rag.py:309`),
  against the comment at `structurer.py:534`. The same validation would raise on an intent
  or a `result_limit` out of range (`campaign_plan_v4.py` 1565-1592), which only the
  provider's tool schema rules out; both are `unfit`, and `FailureKeepsItsName` excepts them.
- `_admit` says that a result which lost the calendar interval its instruction named did
  not do what it was told (`default_period_policy.py` 344-348), but looks for the interval
  in the whole candidate (line 367), whose literal bindings record it whatever the
  expression says. `_admit_stated_period` (`targeting_policy.py` 458-501) looks in the
  expression. So `DefaultHidesNothing` speaks of rolling periods only.
- A patched expression that does not parse again is dropped (`audience_execution.py`
  1575-1583), but the resolution block with its receipts was written before
  (`integration.py:111`): a response can report an answer "per row" while its SQL keeps the
  sums. `Kept` and `Projected` have it; the plans with `rejected` reach it.
- `_plan_mentions` searches the whole plan, the record of the bound answer included, so
  the check at `integration.py:176` accepts every candidate that bound the answer again.
- `unapplied` may name an answer that a later round applies (`loop.py:190`).
- The questions of two kinds of deficits (`missing_semantic_value`, and
  `ambiguous_requirement` unless it is about the period) have no applier for their slot:
  they are asked again whatever the client answers, which is why `Answerable` excludes them.
- Two overlapping loads of the predictor: the slower one may assign the predictor of the
  old files between the two assignments of the other. The old predictor then stands under
  the signature of the new files and answers every request until the files change again
  (`ctr_predictor.py` 79-80). `AnswersFromTheFiles` is violated without its exception.
- Between the two writes of training, and for good when it is killed there, the new model
  answers with the categories and under the version name of the old metadata; nothing in
  the files says that they belong together.
- `_load_ctr_model_policy` is called several times in one scoring request, so a change of
  the policy reaches requests in progress; `docs/guides/policy_admin_frontend.md:340` says
  it is used from the next scoring request on.
- Messages made before the execution stay in a response whose status is
  `sql_validation_failed`.
- An exception after `retrieve` is a 500 without a failure log, also when the audience is
  stored already.

## 5. Proofs

Constants are arbitrary sets; the assumptions are the named ASSUMEs of the
modules (bodies are well-formed, known users are users, None is no value).

`ExperimentAssignment_proofs`. `TypeCorrect`: `Spec => []TypeOK`.
`UserAssignedOnce` and `AnswersAreTrue` are not inductive alone. `RowsInv` adds
that the rows an open transaction has inserted are for users nobody else has
inserted or committed (the unique key), that what it has seen is committed, and
what its `pc` says about its lists; `AnswerInv` adds that the lists of an open
loop account for exactly the users handled so far.

`ExperimentSerial_proofs`. `RerunsDoNotDisturbEachOther` needs two invariants:
`SerialInv` (`KindInv`: which statements a kind reaches; `LockInv` and
`HoldsInv`: two runs past their refresh never both hold variant rows, since
they hold all rows of the same experiment) and `DisturbInv` (`OriginInv`: every
committed row was inserted by an accepted request that has it in its list;
`UnseenInv`: a row for a user of an open rerun, that the rerun has not seen, was
committed by the assignments endpoint). `ImplementsTheLedger`: `CodesInv` (stored
codes are the experiment's) gives that `Commit` of a request is a step of the
ledger for that request (`CommitMovesLedger`), and every other step leaves the
three ledger variables unchanged (`OnlyCommitMoves`). Through the refinement the endpoints
have what the ledger guarantees: `MessagesHaveOneAuthor` (after any mixture of reruns the
texts of the variants are of one request), `VariantsAreTheExperiments` and
`VariantsAreForLife`.

The same module proves the safety half of `EveryRequestEnds`. `RequestsWaitForOne`: the
locks have one holder each, so waits are chains or cycles. `DeadlocksStayInOneTable` (for
finitely many requests, as PostgreSQL has connections): a cycle is among variant rows or
among delivery rows, since a run takes all its variant rows before it inserts, and of two
neighbours over delivery rows one is an assignments call, since two runs are not both past
their refresh. A request in a chain without cycle has a last member that can go on, and one
in a cycle is aborted (`StallsAreDetected`). `RequestsAdvance` (for finitely many users and
codes): every statement lowers `Remaining`, the statements its request has left, and changes
nobody else's; `NextVariantInv` says that the variant a rerun is at is one it has not
updated. That a request which can go on does, is the fairness TLC checks.

`MessageEvents_proofs`. One invariant relates keys to notifications: the stored
key of a notification with a message id is the one `MessageKey` gives it
whatever the row is, an open insert's key is neither stored nor held by another
post, and a written row is `Updated` of the present row (its lock keeps others
out). From it follow `IdentifiedOnce`, `AnswersAreDurable`, `TablesMoveTogether`
and `FirstValuesKept`. The webhook needs no deadlock detector: an insert waits for the one
post whose open transaction holds its key, an update for the one that holds the row, and
whoever holds the row has only to commit (`PostsWaitBriefly`), so while posts are open one
of them can go on (`PostsAreNeverStuck`); every step takes one post forward and moves no
other (`PostsAdvance`).

`DocumentStore_proofs`. `CacheIsAlwaysATable`, under `SameDatabase`: the rows a
load carries and the cache are members of `history`, and a thread between
`SetCache` and `SetReady` implies a filled cache. That the cache may lag behind is finding
`StaleCache`; two theorems bound it. `OnlyWritesMakeItLag`: `Fresh` (a ready cache and all
that a load has in hand are the present table) ends only in the step of a write, never by a
load, reset, failure or restart. `OneThreadFollowsWrites`: with one thread `CacheFollowsWrites`,
the property that run refutes for two, holds (`FollowsInv`: the cache lags only between the
write of the thread and its reset), so the flaw is the interleaving and nothing else.

`TargetAudience_proofs`. `TypeCorrect` needs that a saver past its INSERT has an
audience row and that all row sets are finite. `AudiencesAreWhole` rests on
`WholeInv`: member ids are unique over everything the sequence numbered,
committed or not; a saver's copied rows are its own, and are its whole result
once the COPY ended; a stored audience's call is done. `PagesAreTheAudience`
adds `PagerInv`: a client that is not at the end has exactly the members up to
its cursor, and one that has seen anything has seen a finished save, so nothing
can appear behind its cursor. The step for a page rests on four lemmas about
`FirstOf` (ORDER BY ... LIMIT): the first ones are a prefix, are at most
`size`, and are everything when they are fewer. `AudiencesAreSnapshots`:
`Commit` is `SaveSnapshot`, a deletion is `RemoveSnapshots`, all else stutters; hence
`AudiencesLast`: an audience keeps its rows until it is removed and its id is not used again.

`Resolution_proofs`, for every prompt, policy, limit of questions and number of rounds
allowed. `ResolutionTypeOK`, `ResolutionDecidedIsNotAsked` and
`ResolutionNoAnswerVanishes` rest on what a round's `todo` and `gained` stand for: an
identity gained has its receipt, a settled one is not open. `ResolutionNeverRaised`
assumes that there are fewer issues than `MaxRounds`; it needs that each earlier round
left a smaller `settled` behind (so no signature returns, and the rounds are no more than
the issues) and that the place a decided period will be put in is still there when it is
applied. `ResolutionSqlHasItsReceipts` counts: the windows added so far are no more than
the reports with a window receipt, because every period fills exactly one place.
`ResolutionIsBounded`: `ServeLeft` counts the rounds left, what a round has to do and the
one further structuring; each step of `Serve` lowers it. It needs that a round is at most
`MaxRounds` (`IRounds`) and that `todo` holds no more than the issues or the answers.

`TargetRequest_proofs`, in four parts. The stages: `StagesInv` adds to the three
invariants what a plan with SQL looks like (`SqlInv`), what holds while a call is in
flight (`CallInv`: the stage wants it, so the plan has no SQL) and what the first call
remembers of its refusals (`MemoryInv`). From it follow `DefaultsHideNothing`,
`FailuresKeepTheirName`, `AnswersAreNamed` and, since a plan with SQL gives no stage a
reason to call, `PlansWithSqlAreFinal`. The request: `PromiseInv` says which phase each
variable is decided in (`PhaseInv`), that only shipped SQL ran and that a stored
audience had a good run (`RunInv`), and that messages and the generation that made them
belong to shipped SQL and are not there when they are made again (`OfferInv`);
`RequestsKeepTheirPromise` maps every step to a step of `RequestPromise` or a stutter, and
gives `AnswersAreHonest` and `NothingIsTakenBack`.

The messages: `ResponsesAreWhole`, for any number of variants and attempts. `GatheredInv`
says that the variants waited for are the required ones that have not finished. When none
is left and there are as many replies as variants, each variant replied once, so there is
an arrangement of the replies by position; any arrangement that increases is the one in the order
of `Variants`, because an increasing map of `1..n` into itself is the identity
(`IncreasingIsIdentity`, by counting the places below and above instead of by induction).
`RequestsKeepTheirTypes` adds the types of the request's own variables to the same
invariant.

The end: `RequestsAreBounded`, the safety half of `EveryRequestEnds`. `StepsLeft` adds the
completions the stages may still ask for, the replies and judgements of the generation that
runs, and for each phase ahead one whole generation; every step lowers it, so a request
takes at most `6 (MaxAttempts (|Variants| + 1) + 1) + 5 (MaxRetries + 3)` steps. `RetryUncounted`,
the mutant of `Retry` that forgets to count, is what this excludes.

`PredictorCache_proofs`, for any threads and any number of runs. `AnswersRight` needs that
a signature in hand or in the cache is never from the future (`PastInv`), so that a write
leaves none that equals the files; that a load took its signature before it read
(`LoadInv`), so whatever it holds under the signature of the files was read from them; and
that a load that is alone is the only one between the comparison and its second
assignment (`HandInv`), so that predictor and signature in a clean cache are of one load
(`CacheInv`).

Only model-checked: the liveness properties `EveryRequestEnds` (twice), `EveryPostEnds`,
`CacheComesBack` and `AnsweredDialogueReachesSql`, since fairness and ENABLED are beyond the
prover; for all but `CacheComesBack` the theorems above prove the part that is safety
(steps are bounded, waits end at somebody who can go on). And the five claims that fail,
each of which TLC refutes. Every invariant and action property of a passing run is a
theorem.

## 6. Plan and what is not modelled

Written in the order of the plan: the database components first, then the dialogue, the
structurer and the messages, then their composition, then the predictor. Left, in the
order in which they would add most:

1. `CtrAnalysis` - winner, confidence and next action against reference definitions. They
   are floating-point arithmetic on the rows of one SELECT, so a model would check
   thresholds rather than behaviour.
2. The endpoints `retrieve-trace` and `channel-messages`, which run parts of a target
   request and store nothing.

Not modelled:

- Korean query parsing, event IR, temporal IR, calendar windows, set expressions,
  validation and SQL generation (`graph_rag.py`, `event_compiler.py`, `query_pipeline/`,
  `temporal_ir/`, `nl_event_ir/`, ...), nine tenths of the code. They turn one text into
  another, in sequence and without state between calls; what could be wrong in them is
  which words mean what, which the repository tests with golden files and a model of a
  few values cannot tell. `TargetRequest` has their outcomes as free choices, so what is
  shown holds whatever they return.
- The rows a query returns and the count beside them come from separate statements in one
  READ COMMITTED transaction (`api.py:4320`); the model does not relate the sample to
  the members, and no property does.
- External conditions and conceptual targeting. Their caches are filled by several threads
  only when a caller shares a service: `retrieve` uses an injected
  `external_condition_service`, which `docs/guides/external_conditions.md:58` calls the
  legacy path, and never uses `conceptual_targeting_service`; no endpoint passes either, so
  in the served process no two requests meet in these caches.
- RAG search, the index, capability discovery, application start: reads and
  configuration.
- Schema extraction, offline builds, tools and training: batch programs that run alone.
