----------------------------- MODULE Resolution -----------------------------
(***************************************************************************)
(* The clarification dialogue of POST /target-sql: one prompt, sent again  *)
(* with the user's answers until SQL can be made of it.                    *)
(*                                                                         *)
(* The structurer hands over a plan: an expression that may or may not     *)
(* stand, and the deficits it reports.  resolve_request repeats detection, *)
(* decision and application until nothing is left, something is            *)
(* unsupported, or the user must be asked; project_resolution_to_plan      *)
(* turns its outcome into the end of the plan; realize_entity_bindings     *)
(* structures once more when an answer names an entity.                    *)
(*                                                                         *)
(* An expression is a set of clauses.  A clause observes events, inside a  *)
(* time window or not (bare), as an existence or as a sum compared with a  *)
(* threshold.  The identity of an issue is the report or the threshold     *)
(* clause it is about: the content address of issue_identity.              *)
(***************************************************************************)
EXTENDS Naturals, FiniteSets

CONSTANTS
  Clauses,      \* clauses of the expression
  Reports,      \* deficits the structurer can report
  KindOf,       \* kind of each report
  SlotOf,       \* slot of each report: audience.<argument> or predicate.<argument>
  Overlaps,     \* <<report, clause>>: their evidence spans overlap
  Rank,         \* question order of the issues: priority first, then identity
  Policies,     \* deployments: risks decided without asking, kinds, default period
  Plans,        \* what a structuring call can hand over
  MaxQuestions, \* questions in one response, 0 for no limit
  MaxRounds     \* MAX_ROUNDS

ReportKinds == {"missing_recent_period", "missing_entity_value",
                "missing_semantic_value", "ambiguous_requirement",
                "unsupported_semantics"}
Kinds == ReportKinds \cup {"ambiguous_comparison_grain"}
Risks == {"low", "medium", "high"}
Issues == Reports \cup Clauses

ASSUME ResolutionAssumption ==
  /\ Clauses \cap Reports = {} /\ IsFiniteSet(Issues)
  /\ KindOf \in [Reports -> ReportKinds]
  /\ \A r \in Reports :
       /\ SlotOf[r] # "comparison.grain"
       /\ KindOf[r] = "missing_recent_period" => SlotOf[r] = "audience.period"
       /\ KindOf[r] \in {"missing_entity_value", "missing_semantic_value"}
            => SlotOf[r] # "audience.period"
  /\ Overlaps \subseteq Reports \X Clauses
  /\ Rank \in [Issues -> Nat] /\ \A i, j \in Issues : Rank[i] = Rank[j] => i = j
  /\ Policies \subseteq [autoRisks : SUBSET {"low", "medium"}, allowed : SUBSET Kinds,
                         required : SUBSET Kinds, defaultPeriod : BOOLEAN]
  /\ MaxQuestions \in Nat
  /\ MaxRounds \in Nat

Kind(i) == IF i \in Clauses THEN "ambiguous_comparison_grain" ELSE KindOf[i]
Slot(i) == IF i \in Clauses THEN "comparison.grain" ELSE SlotOf[i]

Risk == [k \in Kinds |-> CASE k = "missing_recent_period"  -> "low"
                           [] k = "missing_semantic_value" -> "medium"
                           [] OTHER                        -> "high"]

\* Answers a client can give to a question: the two options of a grain
\* question, a text that reads as a value, and anything else.
Choices == {"row", "subject", "text", "unreadable"}
AnswerType == [issue : Issues, choice : Choices]
ReceiptType == [issue : Issues, by : {"policy", "user"},
                value : {"window", "row", "subject", "text"}]

Expressions == [stands : BOOLEAN, sums : SUBSET Clauses, bare : SUBSET Clauses]

\* What a structuring call hands over.  It holds an expression or a report
\* (run_audience_resolver adds one when it holds neither).  "mentions": the
\* entity answers its expression names; "grain": the one the prompt states;
\* "rejected": what cannot be made of its expression, since it would not parse.
Structured ==
  {s \in [expr : Expressions, reported : SUBSET Reports, mentions : SUBSET Reports,
          grain : {"silent", "row", "subject"}, rejected : SUBSET Expressions] :
     /\ s.expr.stands \/ s.reported # {}
     /\ s.expr \notin s.rejected
     /\ ~s.expr.stands => s.expr.sums = {} /\ s.expr.bare = {} /\ s.mentions = {}}

Endings == {"none", "sql", "ask", "unsupported"}
Statuses == {"none", "resolved", "needs_clarification", "unsupported", "violation"}
ASSUME PlansAssumption == Plans \subseteq Structured

PlanType == [ending : Endings, status : Statuses, source : Plans,
             expr : Expressions, questions : SUBSET Issues,
             receipts : SUBSET ReceiptType, bound : SUBSET Reports]

VARIABLES
  policy,    \* the deployment
  first,     \* what structuring the prompt gives
  answers,   \* clarification_answers of the request: all the client has given
  phase,     \* where the request is
  source,    \* what is being resolved: first, or the second structuring
  expr, reported, bound, receipts,   \* CanonicalRequest: current
  settled,   \* identities settled so far in this resolve_request
  pending,   \* answers not applied yet
  seen,      \* guard values of the earlier rounds
  round,
  todo,      \* decisions or answers the applier has still to apply
  gained,    \* identities applied in this round
  questions, \* the questions of this round's plan
  unapplied, \* answered issues some answer of which could not be applied
  plan,      \* the plan the structuring stage hands on, once it is made
  draft      \* the plan whose entity answers a second structuring realises

vars == <<policy, first, answers, phase, source, expr, reported, bound, receipts,
          settled, pending, seen, round, todo, gained, questions, unapplied, plan,
          draft>>
request == <<expr, reported, bound, receipts>>
dialogue == <<policy, first, answers, source, plan, draft>>

------------------------------------------------------------------------------
(* Detection and decision                                                   *)

\* comparison_grain_detector: thresholds on a sum, in a prompt silent on grain.
AmbiguousThresholds == IF source.grain = "silent" THEN expr.sums ELSE {}

\* Mutant of OpenIssues: nothing is remembered as settled.
OpenIssuesAgain == reported \cup AmbiguousThresholds

\* detect_semantic_issues, less what is settled.
OpenIssues == (reported \cup AmbiguousThresholds) \ settled

\* PeriodSlotApplier._targets: the bare places; when there are several, those
\* whose own evidence overlaps that of the report.  A sum has no evidence.
PeriodTargets(i) ==
  IF Cardinality(expr.bare) <= 1 THEN expr.bare
  ELSE {c \in expr.bare \ expr.sums : <<i, c>> \in Overlaps}

FitsPeriod(i) == expr.stands /\ Cardinality(PeriodTargets(i)) = 1

\* Mutant of Decision: decided without asking the applier whether the value fits.
DecisionUnasked(i) ==
  IF Kind(i) = "unsupported_semantics" THEN "unsupported"
  ELSE IF /\ Kind(i) \notin policy.required
          /\ Risk[Kind(i)] \in policy.autoRisks \cap Risks
          /\ Kind(i) \in policy.allowed
       THEN "auto_resolve"
  ELSE "ask_user"

\* ResolutionPolicy._decide: the only resolver registered is the default period.
Decision(i) ==
  IF Kind(i) = "unsupported_semantics" THEN "unsupported"
  ELSE IF /\ Kind(i) \notin policy.required
          /\ Risk[Kind(i)] \in policy.autoRisks
          /\ Kind(i) \in policy.allowed
          /\ Kind(i) = "missing_recent_period"
          /\ policy.defaultPeriod
          /\ FitsPeriod(i)
       THEN "auto_resolve"
  ELSE "ask_user"

Decided(d) == {i \in OpenIssues : Decision(i) = d}

\* plan_clarifications: the first MaxQuestions of the issues to ask.
Planned(asked) ==
  {i \in asked : \/ MaxQuestions = 0
                 \/ Cardinality({j \in asked : Rank[j] < Rank[i]}) < MaxQuestions}

\* The guard of the loop: fingerprint, settled identities, signature.
Signature == <<expr, reported, bound, settled, OpenIssues>>

------------------------------------------------------------------------------
(* resolve_request, a round at a time                                       *)

Outcome(status) ==
  /\ phase' = "project"
  /\ plan' = [plan EXCEPT !.status = status,
                          !.questions = IF status = "needs_clarification"
                                        THEN questions' ELSE {}]
  /\ UNCHANGED <<policy, first, answers, source, draft>>

\* ResolutionInvariantViolation: out of rounds, or back where it was.
Raises == round > MaxRounds \/ (OpenIssues # {} /\ Signature \in seen)

\* Nothing is left to decide, or the loop makes no progress.
Finish ==
  /\ phase = "detect" /\ (OpenIssues = {} \/ Raises)
  /\ questions' = {}
  /\ Outcome(IF Raises THEN "violation" ELSE "resolved")
  /\ UNCHANGED <<request, settled, pending, seen, round, todo, gained, unapplied>>

Deciding ==
  /\ phase = "detect" /\ round <= MaxRounds
  /\ OpenIssues # {} /\ Signature \notin seen
  /\ seen' = seen \cup {Signature}

\* Anything unsupported ends the request: no time is spent on questions.
Unsupported ==
  /\ Deciding
  /\ Decided("unsupported") # {}
  /\ questions' = {}
  /\ Outcome("unsupported")
  /\ UNCHANGED <<request, settled, pending, round, todo, gained, unapplied>>

StartAuto ==
  /\ Deciding
  /\ Decided("unsupported") = {} /\ Decided("auto_resolve") # {}
  /\ phase' = "auto" /\ todo' = Decided("auto_resolve") /\ gained' = {}
  /\ UNCHANGED <<dialogue, request, settled, pending, round, questions, unapplied>>

\* Mutant of FillPeriod: one period goes to every bare place.
FillPeriodEverywhere(i, by) ==
  /\ expr' = [expr EXCEPT !.bare = {}]
  /\ reported' = reported \ {i}
  /\ receipts' = receipts \cup {[issue |-> i, by |-> by, value |-> "window"]}
  /\ gained' = gained \cup {i}
  /\ UNCHANGED bound

\* apply_auto_resolutions, one decision: the decisions were taken on the
\* request as it was before the first of them was applied.
FillPeriod(i, by) ==
  /\ expr' = [expr EXCEPT !.bare = @ \ PeriodTargets(i)]
  /\ reported' = reported \ {i}
  /\ receipts' = receipts \cup {[issue |-> i, by |-> by, value |-> "window"]}
  /\ gained' = gained \cup {i}
  /\ UNCHANGED bound

ApplyAuto(i) ==
  /\ phase = "auto" /\ i \in todo
  /\ todo' = todo \ {i}
  /\ IF FitsPeriod(i) THEN FillPeriod(i, "policy") ELSE UNCHANGED <<request, gained>>
  /\ UNCHANGED <<dialogue, phase, settled, pending, seen, round, questions, unapplied>>

EndAuto ==
  /\ phase = "auto" /\ todo = {}
  /\ IF gained = {}
     THEN /\ questions' = {} /\ Outcome("violation")
          /\ UNCHANGED <<settled, round>>
     ELSE /\ phase' = "detect" /\ settled' = settled \cup gained /\ round' = round + 1
          /\ UNCHANGED <<dialogue, questions>>
  /\ UNCHANGED <<request, pending, seen, todo, gained, unapplied>>

Asking ==
  /\ Deciding
  /\ Decided("unsupported") = {} /\ Decided("auto_resolve") = {}
  /\ questions' = Planned(Decided("ask_user"))

Ask ==
  /\ Asking
  /\ pending = {}
  /\ Outcome("needs_clarification")
  /\ UNCHANGED <<request, settled, pending, round, todo, gained, unapplied>>

\* Mutant of StartAnswers: only answers to the questions of this round are read.
StartAskedAnswers ==
  /\ Asking
  /\ pending # {}
  /\ phase' = "answer" /\ todo' = {a \in pending : a.issue \in questions'} /\ gained' = {}
  /\ UNCHANGED <<dialogue, request, settled, pending, round, unapplied>>

StartAnswers ==
  /\ Asking
  /\ pending # {}
  /\ phase' = "answer" /\ todo' = pending /\ gained' = {}
  /\ UNCHANGED <<dialogue, request, settled, pending, round, unapplied>>

\* GrainSlotApplier.apply: "subject" is the shape the tree has; "row" calls
\* regrain_to_row on the whole expression, which lowers every threshold.
SettleGrain(i, choice) ==
  /\ expr' = IF choice = "row" THEN [expr EXCEPT !.sums = {}] ELSE expr
  /\ receipts' = receipts \cup {[issue |-> i, by |-> "user", value |-> choice]}
  /\ gained' = gained \cup {i}
  /\ UNCHANGED <<reported, bound>>

\* EntityBindingApplier.apply and discharge_reported_issue.
BindEntity(i) ==
  /\ bound' = bound \cup {i}
  /\ reported' = reported \ {i}
  /\ receipts' = receipts \cup {[issue |-> i, by |-> "user", value |-> "text"]}
  /\ gained' = gained \cup {i}
  /\ UNCHANGED expr

\* May this answer be applied as it stands?  The slot of the issue has the
\* applier: a grain question takes an option, the others a text.  A slot that is
\* neither a grain, the period nor an entity has none.
Fits(a) ==
  /\ a.issue \in questions
  /\ \/ /\ Slot(a.issue) = "comparison.grain"
        /\ a.choice = "subject" \/ (a.choice = "row" /\ expr.sums # {})
     \/ Slot(a.issue) = "audience.period" /\ a.choice = "text" /\ FitsPeriod(a.issue)
     \/ Kind(a.issue) = "missing_entity_value" /\ a.choice = "text"

ApplyAnswer(a) ==
  /\ phase = "answer" /\ a \in todo
  /\ todo' = todo \ {a}
  /\ IF Fits(a)
     THEN /\ CASE Slot(a.issue) = "comparison.grain" -> SettleGrain(a.issue, a.choice)
               [] Slot(a.issue) = "audience.period"  -> FillPeriod(a.issue, "user")
               [] OTHER -> BindEntity(a.issue)
          /\ UNCHANGED unapplied
     ELSE /\ unapplied' = unapplied \cup {a.issue}
          /\ UNCHANGED <<request, gained>>
  /\ UNCHANGED <<dialogue, phase, settled, pending, seen, round, questions>>

EndAnswers ==
  /\ phase = "answer" /\ todo = {}
  /\ IF gained = {}
     THEN /\ UNCHANGED questions /\ Outcome("needs_clarification")
          /\ UNCHANGED <<settled, pending, round>>
     ELSE /\ phase' = "detect" /\ settled' = settled \cup gained /\ round' = round + 1
          /\ pending' = {a \in pending : a.issue \notin gained}
          /\ UNCHANGED <<dialogue, questions>>
  /\ UNCHANGED <<request, seen, todo, gained, unapplied>>
------------------------------------------------------------------------------
(* The plan, the second structuring and the client                          *)

\* attach_..._identity structures a plan and resolves it with the answers.
Begin(s, given) ==
  /\ source' = s /\ expr' = s.expr /\ reported' = s.reported
  /\ bound' = {} /\ receipts' = {} /\ settled' = {} /\ pending' = given
  /\ seen' = {} /\ round' = 1 /\ todo' = {} /\ gained' = {}
  /\ questions' = {} /\ unapplied' = {}
  /\ phase' = "detect"

NoPlan(s) == [ending |-> "none", status |-> "none", source |-> s, expr |-> s.expr,
              questions |-> {}, receipts |-> {}, bound |-> {}]

Init ==
  /\ policy \in Policies
  /\ first \in {s \in Plans : s.mentions = {}}
  /\ answers = {} /\ phase = "detect" /\ source = first
  /\ expr = first.expr /\ reported = first.reported /\ bound = {} /\ receipts = {}
  /\ settled = {} /\ pending = {} /\ seen = {} /\ round = 1 /\ todo = {} /\ gained = {}
  /\ questions = {} /\ unapplied = {}
  /\ plan = NoPlan(first) /\ draft = NoPlan(first)

\* _settle_resolution keeps the outcome unless the patched expression does not
\* parse or neither expression nor report is left; a violation leaves the plan as
\* it was, without a resolution block.
Kept ==
  /\ plan.status # "violation"
  /\ expr \notin source.rejected
  /\ expr.stands \/ reported # {}

\* project_resolution_to_plan: what is still reported closes the plan, and so
\* does a question; otherwise the expression goes on to SQL.
Ending(left) ==
  IF \E r \in left : KindOf[r] # "unsupported_semantics" THEN "ask"
  ELSE IF left # {} THEN "unsupported"
  ELSE IF plan.questions # {} THEN "ask" ELSE "sql"

\* _settle_threshold_grain: only the row grain of the prompt changes the tree.
SettledGrain(e) == IF source.grain = "row" THEN [e EXCEPT !.sums = {}] ELSE e

Projected ==
  LET left == IF Kept THEN reported ELSE source.reported
  IN [plan EXCEPT !.ending = Ending(left),
                  !.source = source,
                  !.expr = SettledGrain(IF Kept THEN expr ELSE source.expr),
                  !.receipts = IF plan.status = "violation" THEN {} ELSE receipts,
                  !.bound = IF plan.status = "violation" THEN {} ELSE bound]

Project ==
  /\ phase = "project" /\ draft.ending = "none"
  /\ plan' = Projected
  /\ phase' = IF plan'.bound # {} THEN "realize" ELSE "reply"
  /\ UNCHANGED <<policy, first, answers, source, draft, request, settled, pending,
                 seen, round, todo, gained, questions, unapplied>>

\* realize_entity_bindings: structure again with the bindings as instruction.
\* What the model makes of it is anything a structuring call can hand over.
Realize(candidate) ==
  /\ phase = "realize"
  /\ candidate.grain = first.grain
  /\ draft' = plan /\ plan' = NoPlan(candidate)
  /\ Begin(candidate, answers)
  /\ UNCHANGED <<policy, first, answers>>

\* The receipt key: code, which says who decided what kind of issue, and slot.
SameKey(r, s) ==
  r.by = s.by /\ Kind(r.issue) = Kind(s.issue) /\ Slot(r.issue) = Slot(s.issue)

\* _plan_mentions looks for the value anywhere in the candidate plan, whose
\* resolution block holds the values bound while the candidate was resolved.
Accepted(p) == draft.bound \subseteq p.source.mentions \cup p.bound

Merged(p) ==
  [p EXCEPT !.receipts = @ \cup {r \in draft.receipts : \A s \in p.receipts : ~SameKey(r, s)},
            !.bound = draft.bound]

Adopt ==
  /\ phase = "project" /\ draft.ending # "none"
  /\ phase' = "reply"
  /\ plan' = IF Accepted(Projected) THEN Merged(Projected) ELSE draft
  /\ UNCHANGED <<policy, first, answers, source, draft, request, settled, pending,
                 seen, round, todo, gained, questions, unapplied>>

\* Mutant of Answer: the request carries the new answers only.
AnswerNewOnly(given) ==
  /\ phase = "reply" /\ given # {}
  /\ answers' = given
  /\ plan' = NoPlan(first) /\ draft' = NoPlan(first)
  /\ Begin(first, given)
  /\ UNCHANGED <<policy, first>>

\* Mutant of Answer: the dialogue goes on with answers the request has dropped.
AnswerKeepingOld(given) ==
  /\ phase = "reply" /\ given # {}
  /\ answers' = given
  /\ plan' = NoPlan(first) /\ draft' = NoPlan(first)
  /\ Begin(first, answers \cup given)
  /\ UNCHANGED <<policy, first>>

\* The client answers some of the questions shown and sends the prompt again
\* with every answer it has given; the prompt structures as it did before.
Answer(given) ==
  /\ phase = "reply" /\ given # {}
  /\ answers' = {a \in answers : \A b \in given : a.issue # b.issue} \cup given
  /\ plan' = NoPlan(first) /\ draft' = NoPlan(first)
  /\ Begin(first, answers')
  /\ UNCHANGED <<policy, first>>

Over == phase = "reply" /\ plan.questions = {} /\ UNCHANGED vars

Resolve ==
  \/ Finish \/ Unsupported \/ Ask
  \/ StartAuto \/ (\E i \in todo : ApplyAuto(i)) \/ EndAuto
  \/ StartAnswers \/ (\E a \in todo : ApplyAnswer(a)) \/ EndAnswers

Serve == Resolve \/ Project \/ (\E s \in Plans : Realize(s)) \/ Adopt

AnswerSome ==
  \E asked \in SUBSET plan.questions : \E choice \in [asked -> Choices] :
    Answer({[issue |-> i, choice |-> choice[i]] : i \in asked})

\* A helpful client answers every question it is shown with a value it takes.
AnswerAll ==
  Answer({[issue |-> i, choice |-> IF i \in Clauses THEN "subject" ELSE "text"] :
            i \in plan.questions})

Next == Serve \/ AnswerSome \/ Over

Spec == Init /\ [][Next]_vars

\* The handler runs to its response; the client is helpful now and then.
FairSpec == Spec /\ WF_vars(Serve) /\ SF_vars(AnswerAll)

------------------------------------------------------------------------------
(* Properties                                                               *)

\* Type invariant of the dialogue.
TypeOK ==
  /\ policy \in Policies /\ first \in Plans /\ source \in Plans
  /\ answers \subseteq AnswerType /\ pending \subseteq answers
  /\ phase \in {"detect", "auto", "answer", "project", "realize", "reply"}
  /\ expr \in Expressions /\ reported \subseteq Reports /\ bound \subseteq Reports
  /\ receipts \subseteq ReceiptType /\ settled \subseteq Issues
  /\ round \in Nat /\ gained \subseteq Issues /\ questions \subseteq Issues
  /\ phase = "auto" => todo \subseteq Issues
  /\ phase = "answer" => todo \subseteq pending
  /\ unapplied \subseteq Issues
  /\ plan \in PlanType /\ draft \in PlanType

\* ResolutionInvariantViolation is never raised: what the policy promises the
\* appliers can do, and every round settles an issue the next one does not see.
NeverRaised == plan.status # "violation"

\* A plan that goes on to SQL holds a receipt for every deficit its structuring
\* reported and for every time window the resolution added.
SqlHasItsReceipts ==
  phase = "reply" /\ plan.ending = "sql" =>
    /\ \A r \in plan.source.reported : \E q \in plan.receipts : q.issue = r
    /\ Cardinality(plan.source.expr.bare \ plan.expr.bare)
         <= Cardinality({q.issue : q \in {x \in plan.receipts : x.value = "window"}})

\* What was decided for the user, or answered by it, is not asked again in the
\* response that says so.
DecidedIsNotAsked ==
  phase = "project" => {q.issue : q \in receipts} \cap plan.questions = {}

\* When there are questions left, no answer has vanished: each was applied or is
\* reported with the reason it was not.
NoAnswerVanishes ==
  phase = "project" /\ plan.status = "needs_clarification" =>
    \A a \in answers : a.issue \in {q.issue : q \in receipts} \cup unapplied

\* A prompt whose every deficit has a slot to go to reaches SQL with a client
\* that goes on answering.
Answerable ==
  /\ first.expr.stands /\ first.rejected = {}
  /\ \A r \in first.reported :
       SlotOf[r] = "audience.period" /\ KindOf[r] # "unsupported_semantics"
  /\ Cardinality(first.reported) = Cardinality(first.expr.bare)
  /\ Cardinality(first.expr.bare) > 1 =>
       \A r \in first.reported : \E c \in first.expr.bare \ first.expr.sums :
         Overlaps \cap ({r} \X first.expr.bare) = {<<r, c>>}
AnsweredDialogueReachesSql == Answerable ~> (phase = "reply" /\ plan.ending = "sql")

\* architecture_resolution_policy.md, invariant H: an ambiguity of high risk does
\* not disappear without an explicit answer to it.
HighRiskNeedsItsOwnAnswer ==
  phase = "reply" /\ plan.ending = "sql" /\ plan.source.grain = "silent" =>
    \A c \in plan.source.expr.sums : \E q \in plan.receipts : q.issue = c
=============================================================================
