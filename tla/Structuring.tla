---------------------------- MODULE Structuring ----------------------------
(***************************************************************************)
(* How retrieve makes the plan of one prompt: structure_campaign_query_plan_once *)
(* calls the structurer, then up to four stages in turn may call it again,  *)
(* each with an instruction of its own, and adopt or drop the candidate:    *)
(*                                                                         *)
(*   ground   repair_grounded_canonical_event_ir, for a gap of the registry *)
(*   stated   resolve_stated_period, for periods the prompt does state      *)
(*   default  apply_default_period, for periods it does not state           *)
(*   entity   realize_entity_bindings, for the names the user answered      *)
(*                                                                         *)
(* A call makes at most MaxRetries + 1 completions and validates each.  The *)
(* structurer knows nothing of earlier calls: a completion may become any   *)
(* payload of the prompt.                                                   *)
(***************************************************************************)
EXTENDS Naturals

CONSTANTS
  Markers,     \* recency markers a prompt can use
  Default,     \* the window of the default period policy
  Prompts,     \* [period, answered, served, policy, recoverable]
  MaxRetries   \* retries of one call of the structurer

\* How the prompt gives the period of a marker: it does not use the marker, gives
\* no period, a rolling window, a calendar interval, or a unit no window can hold.
Periods == {"none", "unstated", "rolling", "interval", "inexpressible"}
PromptType == [period : [Markers -> Periods],
               answered : BOOLEAN,     \* clarification_answers name an entity
               served : BOOLEAN,       \* the provider has a key
               policy : BOOLEAN,       \* a default period is configured
               recoverable : BOOLEAN]  \* a closed rolling absence and nothing else

\* What the plan says of itself (semantic_ir): the expression stands, the policy
\* filled it, a question or a deficit is open, the registry has a gap, it cannot
\* be expressed, the model failed to emit it, or no model could be asked.
Outcomes == {"resolved", "policy", "question", "deficit", "gap", "unsupported",
             "emission", "fallback"}

Windows == Markers \cup {Default}
PlanType ==
  [outcome : Outcomes,
   sql : {"none", "exact", "regrained"},  \* event_expression
   expr : BOOLEAN,            \* audience_requirement.expression
   windows : SUBSET Windows,  \* the windows of that expression
   missing : SUBSET Markers,  \* missing_argument(period) issues
   others : BOOLEAN,          \* other issues
   bound : BOOLEAN,           \* resolution.entity_bindings
   holds : BOOLEAN,           \* the expression names the answered entity
   receipt : SUBSET Markers]  \* evidence of audience_default_period

Stated(q, kind) == {m \in Markers : q.period[m] = kind}

ASSUME StructuringAssumption ==
  /\ Default \notin Markers
  /\ Prompts \subseteq PromptType
  /\ \A q \in Prompts : q.recoverable => \A m \in Markers : q.period[m] \in {"none", "rolling"}
  /\ MaxRetries \in Nat

VARIABLES
  prompt,    \* what the request says and the deployment has
  stage,     \* the stage that works on the plan
  calling,   \* is a call of the structurer in flight?
  attempt,   \* completions of this call so far
  emission,  \* emission_failure: none, or a payload that validates (empty) or not
  plan,      \* the plan handed on
  heard      \* kinds of completions refused in the first call, for the properties

vars == <<prompt, stage, calling, attempt, emission, plan, heard>>

NoPlan == [outcome |-> "fallback", sql |-> "none", expr |-> FALSE, windows |-> {},
           missing |-> {}, others |-> TRUE, bound |-> FALSE, holds |-> FALSE, receipt |-> {}]

\* build_campaign_query_plan_v4_fallback.
Fallback ==
  IF prompt.recoverable
  THEN [NoPlan EXCEPT !.outcome = "resolved", !.sql = "exact", !.expr = TRUE,
                      !.windows = Stated(prompt, "rolling"), !.others = FALSE]
  ELSE NoPlan

Issues(c) == c.missing # {} \/ c.others

Standing == [windows : SUBSET Windows, holds : BOOLEAN]
NoIssue == [missing |-> {}, others |-> FALSE]
OtherIssues == [missing |-> {}, others |-> TRUE]
SomeIssues == [missing : SUBSET Markers, others : BOOLEAN] \ {NoIssue}

Expressed(outcome, sql, e, i) ==
  [outcome |-> outcome, sql |-> sql, expr |-> TRUE, windows |-> e.windows,
   missing |-> i.missing, others |-> i.others, bound |-> FALSE, holds |-> e.holds,
   receipt |-> {}]

Unexpressed(outcome, i, bound) ==
  [NoPlan EXCEPT !.outcome = outcome, !.missing = i.missing, !.others = i.others,
                 !.bound = bound]

\* What attach_campaign_query_plan_v4_identity can make of a completion.  A
\* question, a foreign subject and a failed emission may leave the expression of
\* the requirement where it is; answers are bound only where none stands.
Payloads ==
  {Expressed("resolved", sql, e, NoIssue) : sql \in {"exact", "regrained"}, e \in Standing}
  \cup {Expressed(o, "none", e, NoIssue) : o \in {"question", "unsupported"}, e \in Standing}
  \cup {Expressed(o, "none", e, i) : o \in {"deficit", "unsupported", "emission"},
                                     e \in Standing, i \in SomeIssues}
  \cup {Unexpressed(o, i, b) : o \in {"deficit", "unsupported", "emission"},
                               i \in SomeIssues, b \in BOOLEAN}
  \cup {Unexpressed("gap", OtherIssues, b) : b \in BOOLEAN}

\* The payloads of this prompt.
Attached(c) ==
  /\ (c.missing \cup c.windows) \cap Stated(prompt, "none") = {}
  /\ c.bound \/ c.holds => prompt.answered

\* _validate_semantic_layer: an issue excludes an expression, and an expression
\* without one must be projected exactly.
Valid(c) ==
  /\ Issues(c) => ~c.expr /\ c.sql = "none"
  /\ c.expr /\ ~Issues(c) => c.sql = "exact"

Init ==
  /\ prompt \in Prompts
  /\ stage = "structure" /\ calling = TRUE /\ attempt = 0 /\ emission = "none"
  /\ plan = NoPlan /\ heard = {}

------------------------------------------------------------------------------
(* What the stages ask for and take                                         *)

\* split_period_issues: the windows a correction can name (an inexpressible one
\* gets no line), and the periods the prompt really leaves out.
Instructed(p) == p.missing \cap (Stated(prompt, "rolling") \cup Stated(prompt, "interval"))
Unstated(p) == p.missing \cap Stated(prompt, "unstated")

\* Mutant of Wants: names the user answered are realised whether bound or not.
WantsAnswered ==
  \/ stage = "ground" /\ plan.outcome = "gap"
  \/ stage = "stated" /\ Instructed(plan) # {}
  \/ stage = "default" /\ prompt.policy /\ Unstated(plan) \cup Instructed(plan) # {}
  \/ stage = "entity" /\ prompt.answered

\* Does the stage call the structurer?
Wants ==
  \/ stage = "ground" /\ plan.outcome = "gap"
  \/ stage = "stated" /\ Instructed(plan) # {}
  \/ stage = "default" /\ prompt.policy /\ Unstated(plan) \cup Instructed(plan) # {}
  \/ stage = "entity" /\ plan.bound

\* An honest "cannot be expressed" is taken as well.
AdmitsStated(c) ==
  \/ ~c.expr /\ c.outcome = "unsupported"
  \/ c.expr /\ c.missing = {} /\ Instructed(plan) \subseteq c.windows

\* Mutant of AdmitsDefault: only the rolling windows of this round's instruction.
AdmitsDefaultInstructed(c) ==
  /\ c.expr /\ ~Issues(c)
  /\ Unstated(plan) # {} => Default \in c.windows
  /\ Instructed(plan) \cap Stated(prompt, "rolling") \subseteq c.windows

\* default_period_policy._admit: every rolling period of the prompt.  The instructed
\* calendar intervals are looked for in the whole candidate, which records them among
\* its literal bindings whatever its expression says, so none is ever found missing.
AdmitsDefault(c) ==
  /\ c.expr /\ ~Issues(c)
  /\ Unstated(plan) # {} => Default \in c.windows
  /\ Stated(prompt, "rolling") \subseteq c.windows

\* Mutant of AdmitsEntity: whatever the structurer returns.
AdmitsAnything(c) == TRUE

\* _plan_mentions looks in the whole plan, the record of the binding included.
AdmitsEntity(c) == c.holds \/ c.bound

\* apply_default_period marks what it fills; realize_entity_bindings carries the
\* binding over.
Defaulted(c) ==
  IF Unstated(plan) = {} THEN c
  ELSE [c EXCEPT !.outcome = "policy", !.receipt = Unstated(plan)]

\* What the stage may hand on for candidate c.  A grounded retry must also leave
\* every other field of the plan as it was, so it may be dropped.
Adopts(c) ==
  CASE stage = "structure" -> {c}
    [] stage = "ground"    -> {plan} \cup {d \in {c} : d.outcome = "resolved"}
    [] stage = "stated"    -> {IF AdmitsStated(c) THEN c ELSE plan}
    [] stage = "default"   -> {IF AdmitsDefault(c) THEN Defaulted(c) ELSE plan}
    [] OTHER               -> {IF AdmitsEntity(c) THEN [c EXCEPT !.bound = TRUE] ELSE plan}

After == [s \in {"structure", "ground", "stated", "default", "entity"} |->
            CASE s = "structure" -> "ground" [] s = "ground" -> "stated"
              [] s = "stated" -> "default"   [] s = "default" -> "entity"
              [] OTHER -> "done"]

------------------------------------------------------------------------------
(* One call of LLMCampaignQueryPlanV4Structurer.structure                   *)

\* The call returns c to the stage that made it.
Return(c) ==
  /\ plan' \in Adopts(c)
  /\ stage' = After[stage]
  /\ calling' = FALSE /\ attempt' = 0 /\ emission' = "none"

\* What is wrong with a completion: it failed to emit the meaning, in a payload
\* that validation refuses (unfit: its expression stands) or not, or it does not
\* validate.
Flaw(c) ==
  IF c.outcome = "emission" THEN IF c.expr THEN "unfit" ELSE "emission"
  ELSE IF Valid(c) THEN "none"
  ELSE IF c.outcome = "question" THEN "question"
  ELSE "other"

Accept(c) ==
  /\ calling /\ prompt.served
  /\ Attached(c) /\ Flaw(c) = "none"
  /\ Return(c)
  /\ UNCHANGED <<prompt, heard>>

\* The last attempt is over.  An emission failure keeps its name, unless its own
\* validation raises, which the caller answers with the fallback.
GivenUp(remembered) ==
  IF remembered = "empty"
  THEN \E c \in Payloads :
         Attached(c) /\ c.outcome = "emission" /\ ~c.expr /\ Return(c)
  ELSE Return(Fallback)

Hear(what) == heard' = IF stage = "structure" THEN heard \cup {what} ELSE heard

\* Flaws met here: those of the payloads; completions that do not decode or are
\* contradicted, and errors of the provider that a retry may cure (other); failed
\* emissions with a field out of range, an intent or a result_limit (unfit).
Flaws == {"other", "unfit"} \cup ({Flaw(c) : c \in {d \in Payloads : Attached(d)}} \ {"none"})

Remembered(flaw) ==
  IF flaw = "emission" THEN "empty" ELSE IF flaw = "unfit" THEN "unfit" ELSE emission

Refuse(flaw) ==
  /\ calling /\ prompt.served
  /\ Hear(flaw)
  /\ IF attempt < MaxRetries
     THEN /\ attempt' = attempt + 1 /\ emission' = Remembered(flaw)
          /\ UNCHANGED <<stage, calling, plan>>
     ELSE GivenUp(Remembered(flaw))
  /\ UNCHANGED prompt

\* Mutant of NonRetryable: what was remembered is dropped with the call.
NonRetryableForgets ==
  /\ calling /\ prompt.served
  /\ Hear("other")
  /\ GivenUp("none")
  /\ UNCHANGED prompt

\* An error of the tool contract, which no retry cures.
NonRetryable ==
  /\ calling /\ prompt.served
  /\ Hear("other")
  /\ GivenUp(emission)
  /\ UNCHANGED prompt

\* Without a key there is no completion at all.
Unserved ==
  /\ calling /\ ~prompt.served
  /\ Return(Fallback)
  /\ UNCHANGED <<prompt, heard>>

Restructure ==
  /\ ~calling /\ Wants
  /\ calling' = TRUE
  /\ UNCHANGED <<prompt, stage, attempt, emission, plan, heard>>

\* Nothing to ask for (or the grounding projection has nothing to offer).
Skip ==
  /\ ~calling /\ stage \in DOMAIN After
  /\ ~Wants \/ stage = "ground"
  /\ stage' = After[stage]
  /\ UNCHANGED <<prompt, calling, attempt, emission, plan, heard>>

Complete ==
  \/ \E c \in Payloads : Accept(c)
  \/ \E flaw \in Flaws : Refuse(flaw)
  \/ NonRetryable \/ Unserved

Next == Complete \/ Restructure \/ Skip

Spec == Init /\ [][Next]_vars

------------------------------------------------------------------------------
(* Properties                                                               *)

\* Type invariant of the structuring stage.
TypeOK ==
  /\ prompt \in Prompts
  /\ stage \in DOMAIN After \cup {"done"}
  /\ calling \in BOOLEAN /\ attempt \in 0..MaxRetries
  /\ emission \in {"none", "empty", "unfit"}
  /\ plan \in PlanType
  /\ heard \subseteq {"emission", "unfit", "question", "other"}

\* A default period is reported only for markers whose period the prompt does not
\* state, in a plan that holds the default window and every rolling period the
\* prompt states: a default never stands in for a rolling period the user said,
\* whatever periods the completions before it dropped or reported missing.
DefaultHidesNothing ==
  plan.receipt # {} =>
    /\ plan.sql = "exact"
    /\ plan.receipt \subseteq Stated(prompt, "unstated")
    /\ {Default} \cup Stated(prompt, "rolling") \subseteq plan.windows

\* A failure keeps its name: a plan that says no model could be asked comes from a
\* first call in which no completion was a failed emission, or one whose payload
\* could not be handed on because its validation raises: its expression stood, or
\* another field was out of range.
FailureKeepsItsName ==
  stage # "structure" /\ plan.outcome = "fallback" =>
    "emission" \notin heard \/ "unfit" \in heard

\* A plan that goes on to SQL with names the user answered names them.
AnsweredIsNamed == plan.bound /\ plan.sql # "none" => plan.holds

\* No stage trades a plan that goes on to SQL for another one.
SqlIsFinal == [][plan.sql # "none" => plan' = plan]_vars

\* audience_execution.py: a question "is a deficit that goes away when the user
\* answers - not a failure of the structurer": when all the structurer ever says
\* is a question, the plan does not report that it could not be used.
QuestionReachesTheUser ==
  stage # "structure" /\ heard = {"question"} => plan.outcome # "fallback"
=============================================================================
