------------------------ MODULE TargetRequest_proofs ------------------------
(***************************************************************************)
(* Proofs about TargetRequest: what the structuring stages may hand on,     *)
(* that a response has all its messages in order or none, that one request  *)
(* implements RequestPromise, and that it ends after bounded steps.         *)
(***************************************************************************)
EXTENDS TargetRequest, FiniteSetTheorems, TLAPS

(***************************************************************************)
(* The candidates a call of the structurer returns.                         *)
(***************************************************************************)

Candidate(c) ==
  /\ c \in PlanType
  /\ c.receipt = {}
  /\ c.sql # "none" => /\ c.sql = "exact" /\ c.outcome = "resolved"
                       /\ ~Issues(c) /\ ~c.bound
  /\ c.expr /\ ~Issues(c) => c.sql = "exact"
  /\ c.outcome = "fallback" => c = NoPlan

LEMMA NoPlanType == NoPlan \in PlanType
BY DEF NoPlan, PlanType, Outcomes

LEMMA PayloadFacts ==
  ASSUME NEW c \in Payloads
  PROVE  /\ c \in PlanType
         /\ c.receipt = {}
         /\ c.outcome # "fallback"
         /\ c.sql # "none" => c.outcome = "resolved" /\ ~Issues(c) /\ c.expr /\ ~c.bound
<1>1. CASE \E sql \in {"exact", "regrained"}, e \in Standing :
             c = Expressed("resolved", sql, e, NoIssue)
  BY <1>1 DEF Expressed, Standing, NoIssue, PlanType, Outcomes, Issues
<1>2. CASE \E o \in {"question", "unsupported"}, e \in Standing :
             c = Expressed(o, "none", e, NoIssue)
  BY <1>2 DEF Expressed, Standing, NoIssue, PlanType, Outcomes, Issues
<1>3. CASE \E o \in {"deficit", "unsupported", "emission"}, e \in Standing, i \in SomeIssues :
             c = Expressed(o, "none", e, i)
  BY <1>3 DEF Expressed, Standing, SomeIssues, PlanType, Outcomes, Issues
<1>4. CASE \E o \in {"deficit", "unsupported", "emission"}, i \in SomeIssues, b \in BOOLEAN :
             c = Unexpressed(o, i, b)
  BY <1>4 DEF Unexpressed, SomeIssues, NoPlan, PlanType, Outcomes, Issues
<1>5. CASE \E b \in BOOLEAN : c = Unexpressed("gap", OtherIssues, b)
  BY <1>5 DEF Unexpressed, OtherIssues, NoPlan, PlanType, Outcomes, Issues
<1>6. QED
  BY <1>1, <1>2, <1>3, <1>4, <1>5 DEF Payloads

\* A completion that validates is a candidate.
LEMMA AcceptedIsCandidate ==
  ASSUME NEW c \in Payloads, Flaw(c) = "none"
  PROVE  Candidate(c) /\ c.outcome # "fallback"
<1>1. Valid(c)
  BY DEF Flaw
<1>2. QED
  BY <1>1, PayloadFacts DEF Candidate, Valid, PlanType

\* So is a failed emission without an expression.
LEMMA EmissionIsCandidate ==
  ASSUME NEW c \in Payloads, c.outcome = "emission", ~c.expr
  PROVE  Candidate(c) /\ c.outcome # "fallback"
BY PayloadFacts DEF Candidate

LEMMA FallbackIsCandidate ==
  ASSUME prompt \in Prompts
  PROVE  Candidate(Fallback)
<1>1. CASE prompt.recoverable
  <2>1. Stated(prompt, "rolling") \in SUBSET Windows
    BY DEF Stated, Windows
  <2>2. Fallback = [outcome |-> "resolved", sql |-> "exact", expr |-> TRUE,
                    windows |-> Stated(prompt, "rolling"), missing |-> {},
                    others |-> FALSE, bound |-> FALSE, holds |-> FALSE, receipt |-> {}]
    BY <1>1 DEF Fallback, NoPlan
  <2>3. QED
    BY <2>1, <2>2 DEF Candidate, PlanType, Outcomes, Issues
<1>2. CASE ~prompt.recoverable
  BY <1>2, NoPlanType DEF Fallback, Candidate, NoPlan
<1>3. QED
  BY <1>1, <1>2

(***************************************************************************)
(* The invariant of the stages: a call is made only for a plan without SQL; *)
(* a plan with SQL has no issue and, before the last stage, no binding; and *)
(* an emission failure of the first call is remembered.                     *)
(***************************************************************************)

SqlInv ==
  plan.sql # "none" =>
    /\ plan.sql = "exact" /\ ~Issues(plan)
    /\ plan.outcome \in {"resolved", "policy"}
    /\ stage # "done" => ~plan.bound

CallInv ==
  /\ calling => plan.sql = "none" /\ stage # "done"
  /\ stage = "structure" => calling /\ plan = NoPlan

MemoryInv ==
  /\ ~prompt.served => heard = {}
  /\ stage = "structure" /\ "emission" \in heard /\ "unfit" \notin heard =>
       emission = "empty"

StagesInv ==
  /\ TypeOK /\ SqlInv /\ CallInv /\ MemoryInv
  /\ DefaultHidesNothing /\ FailureKeepsItsName /\ AnsweredIsNamed

LEMMA AfterFacts ==
  /\ DOMAIN After = {"structure", "ground", "stated", "default", "entity"}
  /\ After["structure"] = "ground" /\ After["ground"] = "stated"
  /\ After["stated"] = "default" /\ After["default"] = "entity"
  /\ After["entity"] = "done"
BY DEF After

LEMMA NextStage ==
  ASSUME stage \in DOMAIN After
  PROVE  /\ After[stage] \in DOMAIN After \cup {"done"}
         /\ After[stage] # "structure"
         /\ After[stage] = "done" => stage = "entity"
BY AfterFacts

LEMMA StagesInit == Init => StagesInv
BY NoPlanType, AfterFacts, StructuringAssumption
DEF Init, StagesInv, TypeOK, SqlInv, CallInv, MemoryInv, DefaultHidesNothing,
    FailureKeepsItsName, AnsweredIsNamed, NoPlan

\* A plan with SQL gives no stage a reason to call the structurer.
LEMMA SqlWantsNothing ==
  ASSUME SqlInv, plan.sql # "none", stage # "done"
  PROVE  ~Wants
<1>1. plan.missing = {} /\ plan.outcome # "gap" /\ ~plan.bound
  BY DEF SqlInv, Issues
<1>2. QED
  BY <1>1 DEF Wants, Instructed, Unstated

(***************************************************************************)
(* Return: each stage takes a candidate into the invariant.                 *)
(***************************************************************************)

Handed(p) ==
  /\ p \in PlanType
  /\ p.sql # "none" => /\ p.sql = "exact" /\ ~Issues(p)
                       /\ p.outcome \in {"resolved", "policy"}
                       /\ p.bound => p.holds
                       /\ stage # "entity" => ~p.bound
  /\ p.receipt # {} =>
       /\ p.sql = "exact"
       /\ p.receipt \subseteq Stated(prompt, "unstated")
       /\ {Default} \cup Stated(prompt, "rolling") \subseteq p.windows

\* A candidate taken as it is.
LEMMA CandidateHanded ==
  ASSUME NEW c, Candidate(c)
  PROVE  Handed(c)
BY DEF Candidate, Handed

\* The plan the stage already had.
LEMMA OldPlanHanded ==
  ASSUME StagesInv, calling
  PROVE  Handed(plan)
BY DEF StagesInv, TypeOK, CallInv, DefaultHidesNothing, Handed

\* A plan the policy filled.
LEMMA DefaultedHanded ==
  ASSUME StagesInv, NEW c, Candidate(c), AdmitsDefault(c)
  PROVE  Handed(Defaulted(c))
<1>1. c \in PlanType /\ c.sql = "exact" /\ ~Issues(c) /\ ~c.bound
  BY DEF Candidate, AdmitsDefault
<1>2. CASE Unstated(plan) = {}
  BY <1>2, CandidateHanded DEF Defaulted
<1>3. CASE Unstated(plan) # {}
  <2>1. Unstated(plan) \in SUBSET Markers /\ Unstated(plan) \subseteq Stated(prompt, "unstated")
    BY DEF Unstated, Stated
  <2>2. {Default} \cup Stated(prompt, "rolling") \subseteq c.windows
    BY <1>3 DEF AdmitsDefault
  <2> DEFINE d == [c EXCEPT !.outcome = "policy", !.receipt = Unstated(plan)]
  <2>3. /\ d \in PlanType /\ d.outcome = "policy" /\ d.receipt = Unstated(plan)
        /\ d.sql = c.sql /\ d.bound = c.bound /\ d.windows = c.windows
        /\ d.missing = c.missing /\ d.others = c.others
    BY <1>1, <2>1 DEF PlanType, Outcomes
  <2>4. Defaulted(c) = d
    BY <1>3 DEF Defaulted
  <2> HIDE DEF d
  <2>5. QED
    BY <1>1, <2>1, <2>2, <2>3, <2>4 DEF Handed, Issues
<1>4. QED
  BY <1>2, <1>3

\* A plan that carries the binding over.
LEMMA BoundHanded ==
  ASSUME NEW c, Candidate(c), AdmitsEntity(c), stage = "entity"
  PROVE  Handed([c EXCEPT !.bound = TRUE])
<1> DEFINE d == [c EXCEPT !.bound = TRUE]
<1>1. /\ d \in PlanType /\ d.bound = TRUE /\ d.outcome = c.outcome
      /\ d.receipt = c.receipt /\ d.sql = c.sql /\ d.holds = c.holds
      /\ d.missing = c.missing /\ d.others = c.others
  BY DEF Candidate, PlanType
<1> HIDE DEF d
<1>2. Handed(d)
  BY <1>1 DEF Candidate, Handed, AdmitsEntity, Issues
<1>3. QED
  BY <1>2 DEF d

LEMMA AdoptedHanded ==
  ASSUME StagesInv, calling, NEW c, Candidate(c), NEW p \in Adopts(c)
  PROVE  /\ Handed(p)
         /\ stage # "structure" /\ p.outcome = "fallback" => plan.outcome = "fallback"
         /\ stage = "structure" => p = c
<1>0. stage \in {"structure", "ground", "stated", "default", "entity"}
  BY AfterFacts DEF StagesInv, TypeOK, CallInv
<1>1. CASE stage = "structure"
  <2>1. p = c
    BY <1>1 DEF Adopts
  <2>2. QED
    BY <1>1, <2>1, CandidateHanded
<1>2. CASE stage = "ground"
  <2>1. p = plan \/ (p = c /\ c.outcome = "resolved")
    BY <1>2 DEF Adopts
  <2>2. QED
    BY <1>2, <2>1, CandidateHanded, OldPlanHanded
<1>3. CASE stage = "stated"
  <2>1. p = IF AdmitsStated(c) THEN c ELSE plan
    BY <1>3 DEF Adopts
  <2>2. AdmitsStated(c) => c.outcome # "fallback"
    BY DEF AdmitsStated, Candidate, NoPlan
  <2>3. QED
    BY <1>3, <2>1, <2>2, CandidateHanded, OldPlanHanded
<1>4. CASE stage = "default"
  <2>1. p = IF AdmitsDefault(c) THEN Defaulted(c) ELSE plan
    BY <1>4 DEF Adopts
  <2>2. AdmitsDefault(c) => Defaulted(c).outcome # "fallback"
    <3>1. AdmitsDefault(c) => c \in PlanType /\ c.outcome # "fallback"
      BY DEF AdmitsDefault, Candidate, NoPlan
    <3>2. QED
      BY <3>1 DEF Defaulted, PlanType
  <2>3. QED
    BY <1>4, <2>1, <2>2, DefaultedHanded, OldPlanHanded
<1>5. CASE stage = "entity"
  <2>1. p = IF AdmitsEntity(c) THEN [c EXCEPT !.bound = TRUE] ELSE plan
    BY <1>5 DEF Adopts
  <2>2. AdmitsEntity(c) => [c EXCEPT !.bound = TRUE].outcome # "fallback"
    <3>1. AdmitsEntity(c) => c \in PlanType /\ c.outcome # "fallback"
      BY DEF AdmitsEntity, Candidate, NoPlan
    <3>2. QED
      BY <3>1 DEF PlanType
  <2>3. QED
    BY <1>5, <2>1, <2>2, BoundHanded, OldPlanHanded
<1>6. QED
  BY <1>0, <1>1, <1>2, <1>3, <1>4, <1>5

\* What a call returns keeps the invariant, if its name is right.
LEMMA ReturnKeepsStages ==
  ASSUME StagesInv, calling, NEW c, Candidate(c), Return(c), UNCHANGED prompt,
         heard' \subseteq {"emission", "unfit", "question", "other"},
         ~prompt.served => heard' = {},
         stage # "structure" => heard' = heard,
         stage = "structure" /\ c.outcome = "fallback" =>
           "emission" \notin heard' \/ "unfit" \in heard'
  PROVE  StagesInv'
<1>1. PICK p \in Adopts(c) : plan' = p
  BY DEF Return
<1>2. /\ Handed(plan')
      /\ stage # "structure" /\ plan'.outcome = "fallback" => plan.outcome = "fallback"
      /\ stage = "structure" => plan' = c
  BY <1>1, AdoptedHanded
<1>3. stage \in DOMAIN After
  BY DEF StagesInv, TypeOK, CallInv
<1>4. /\ stage' = After[stage] /\ calling' = FALSE /\ attempt' = 0 /\ emission' = "none"
      /\ prompt' = prompt
  BY DEF Return
<1>5. stage' \in DOMAIN After \cup {"done"} /\ stage' # "structure"
      /\ (stage' = "done" <=> stage = "entity")
  BY <1>3, <1>4, NextStage, AfterFacts
<1>6. TypeOK'
  <2>1. (stage \in DOMAIN After \cup {"done"})'
    BY <1>5 DEF After
  <2>2. attempt' \in 0..MaxRetries
    BY <1>4, StructuringAssumption
  <2>3. QED
    BY <1>2, <1>4, <2>1, <2>2 DEF StagesInv, TypeOK, Handed
<1>7. SqlInv' /\ AnsweredIsNamed'
  BY <1>2, <1>5 DEF SqlInv, AnsweredIsNamed, Handed, Issues
<1>8. CallInv' /\ MemoryInv'
  BY <1>4, <1>5 DEF CallInv, MemoryInv
<1>9. DefaultHidesNothing'
  BY <1>2, <1>4 DEF DefaultHidesNothing, Handed, Stated
<1>10. FailureKeepsItsName'
  BY <1>2, <1>5 DEF StagesInv, FailureKeepsItsName
<1>11. QED
  BY <1>6, <1>7, <1>8, <1>9, <1>10 DEF StagesInv

(***************************************************************************)
(* One lemma per step of the stages.                                        *)
(***************************************************************************)

\* A completion that is handed on.
LEMMA AcceptKeepsStages ==
  ASSUME StagesInv, NEW c \in Payloads, Accept(c)
  PROVE  StagesInv'
<1>1. Candidate(c) /\ c.outcome # "fallback"
  BY AcceptedIsCandidate DEF Accept
<1>2. QED
  BY <1>1, ReturnKeepsStages DEF Accept, StagesInv, TypeOK, MemoryInv

\* The end of a call that was refused, when what it remembers is what was heard.
LEMMA GivenUpKeepsStages ==
  ASSUME StagesInv, calling, prompt.served, UNCHANGED prompt,
         NEW what \in {"emission", "unfit", "question", "other"}, Hear(what),
         NEW remembered, GivenUp(remembered),
         stage = "structure" /\ "emission" \in heard' /\ "unfit" \notin heard' =>
           remembered = "empty"
  PROVE  StagesInv'
<1>1. /\ heard' \subseteq {"emission", "unfit", "question", "other"}
      /\ stage # "structure" => heard' = heard
  BY DEF Hear, StagesInv, TypeOK
<1>2. CASE remembered = "empty"
  <2>1. PICK c \in Payloads : c.outcome = "emission" /\ ~c.expr /\ Return(c)
    BY <1>2 DEF GivenUp
  <2>2. Candidate(c) /\ c.outcome # "fallback"
    BY <2>1, EmissionIsCandidate
  <2>3. QED
    BY <1>1, <2>1, <2>2, ReturnKeepsStages
<1>3. CASE remembered # "empty"
  <2>1. Return(Fallback) /\ Candidate(Fallback)
    BY <1>3, FallbackIsCandidate DEF GivenUp, StagesInv, TypeOK
  <2>2. QED
    BY <1>1, <1>3, <2>1, ReturnKeepsStages
<1>4. QED
  BY <1>2, <1>3

LEMMA RefuseKeepsStages ==
  ASSUME StagesInv, NEW flaw \in {"emission", "unfit", "question", "other"},
         Refuse(flaw)
  PROVE  StagesInv'
<1>1. /\ heard' \subseteq {"emission", "unfit", "question", "other"}
      /\ stage = "structure" => heard' = heard \cup {flaw}
      /\ stage # "structure" => heard' = heard
  BY DEF Refuse, Hear, StagesInv, TypeOK
<1>2. /\ Remembered(flaw) \in {"none", "empty", "unfit"}
      /\ stage = "structure" /\ "emission" \in heard' /\ "unfit" \notin heard' =>
           Remembered(flaw) = "empty"
  BY <1>1 DEF Remembered, StagesInv, TypeOK, MemoryInv
<1>3. CASE attempt < MaxRetries
  <2>1. /\ attempt' = attempt + 1 /\ emission' = Remembered(flaw)
        /\ UNCHANGED <<prompt, stage, calling, plan>> /\ calling /\ prompt.served
    BY <1>3 DEF Refuse
  <2>2. attempt' \in 0..MaxRetries
    BY <1>3, <2>1, StructuringAssumption DEF StagesInv, TypeOK
  <2>3. (stage \in DOMAIN After \cup {"done"})'
    BY <2>1 DEF StagesInv, TypeOK, After
  <2>4. TypeOK'
    BY <1>1, <1>2, <2>1, <2>2, <2>3 DEF StagesInv, TypeOK
  <2>5. SqlInv' /\ CallInv' /\ AnsweredIsNamed'
    BY <2>1 DEF StagesInv, SqlInv, CallInv, AnsweredIsNamed, Issues, NoPlan
  <2>6. MemoryInv'
    BY <1>1, <1>2, <2>1 DEF StagesInv, MemoryInv
  <2>7. DefaultHidesNothing' /\ FailureKeepsItsName'
    BY <1>1, <2>1 DEF StagesInv, DefaultHidesNothing, FailureKeepsItsName, Stated
  <2>8. QED
    BY <2>4, <2>5, <2>6, <2>7 DEF StagesInv
<1>4. CASE ~(attempt < MaxRetries)
  BY <1>2, <1>4, GivenUpKeepsStages DEF Refuse
<1>5. QED
  BY <1>3, <1>4

LEMMA CompleteKeepsStages ==
  ASSUME StagesInv, Complete
  PROVE  StagesInv'
<1>1. ASSUME NEW c \in Payloads, Accept(c) PROVE StagesInv'
  BY <1>1, AcceptKeepsStages
<1>2. ASSUME NEW flaw \in Flaws, Refuse(flaw) PROVE StagesInv'
  <2>1. flaw \in {"emission", "unfit", "question", "other"}
    BY DEF Flaws, Flaw
  <2>2. QED
    BY <1>2, <2>1, RefuseKeepsStages
<1>3. CASE NonRetryable
  <2>1. calling /\ prompt.served /\ Hear("other") /\ GivenUp(emission) /\ UNCHANGED prompt
    BY <1>3 DEF NonRetryable
  <2>2. stage = "structure" /\ "emission" \in heard' /\ "unfit" \notin heard' =>
          emission = "empty"
    BY <2>1 DEF Hear, StagesInv, MemoryInv
  <2>3. QED
    BY <2>1, <2>2, GivenUpKeepsStages
<1>4. CASE Unserved
  <2>1. calling /\ ~prompt.served /\ Return(Fallback) /\ UNCHANGED <<prompt, heard>>
    BY <1>4 DEF Unserved
  <2>2. Candidate(Fallback) /\ heard' = {}
    BY <2>1, FallbackIsCandidate DEF StagesInv, TypeOK, MemoryInv
  <2>3. QED
    BY <2>1, <2>2, ReturnKeepsStages DEF StagesInv, TypeOK, MemoryInv
<1>5. QED
  BY <1>1, <1>2, <1>3, <1>4 DEF Complete

LEMMA RestructureKeepsStages ==
  ASSUME StagesInv, Restructure
  PROVE  StagesInv'
<1>1. stage # "done"
  BY DEF Restructure, Wants
<1>2. ~calling /\ calling' = TRUE /\ UNCHANGED <<prompt, stage, attempt, emission, plan, heard>>
  BY DEF Restructure
<1>3. plan.sql = "none"
  BY <1>1, SqlWantsNothing DEF Restructure, StagesInv
<1>4. (stage \in DOMAIN After \cup {"done"})'
  BY <1>2 DEF StagesInv, TypeOK, After
<1>5. TypeOK' /\ SqlInv' /\ AnsweredIsNamed'
  BY <1>2, <1>4 DEF StagesInv, TypeOK, SqlInv, AnsweredIsNamed, Issues
<1>6. CallInv' /\ MemoryInv'
  BY <1>1, <1>2, <1>3 DEF StagesInv, CallInv, MemoryInv
<1>7. DefaultHidesNothing' /\ FailureKeepsItsName'
  BY <1>2 DEF StagesInv, DefaultHidesNothing, FailureKeepsItsName, Stated
<1>8. QED
  BY <1>5, <1>6, <1>7 DEF StagesInv

LEMMA SkipKeepsStages ==
  ASSUME StagesInv, Skip
  PROVE  StagesInv'
<1>1. /\ ~calling /\ stage' = After[stage] /\ stage \in DOMAIN After
      /\ UNCHANGED <<prompt, calling, attempt, emission, plan, heard>>
  BY DEF Skip
<1>2. stage \notin {"structure", "done"}
  BY <1>1, AfterFacts DEF StagesInv, CallInv
<1>3. stage' \in DOMAIN After \cup {"done"} /\ stage' # "structure"
  BY <1>1, NextStage
<1>4. (stage \in DOMAIN After \cup {"done"})'
  BY <1>3 DEF After
<1>5. TypeOK' /\ AnsweredIsNamed'
  BY <1>1, <1>4 DEF StagesInv, TypeOK, AnsweredIsNamed
<1>6. SqlInv' /\ CallInv' /\ MemoryInv'
  BY <1>1, <1>2, <1>3 DEF StagesInv, SqlInv, CallInv, MemoryInv, Issues
<1>7. DefaultHidesNothing' /\ FailureKeepsItsName'
  BY <1>1, <1>2 DEF StagesInv, DefaultHidesNothing, FailureKeepsItsName, Stated
<1>8. QED
  BY <1>5, <1>6, <1>7 DEF StagesInv

LEMMA StagesNext == StagesInv /\ [Next]_vars => StagesInv'
<1> SUFFICES ASSUME StagesInv, [Next]_vars PROVE StagesInv'
  OBVIOUS
<1>1. CASE UNCHANGED vars
  <2>1. (stage \in DOMAIN After \cup {"done"})'
    BY <1>1 DEF vars, StagesInv, TypeOK, After
  <2>2. QED
    BY <1>1, <2>1
    DEF vars, StagesInv, TypeOK, SqlInv, CallInv, MemoryInv, DefaultHidesNothing,
        FailureKeepsItsName, AnsweredIsNamed, Issues, Stated, NoPlan
<1>2. QED
  BY <1>1, CompleteKeepsStages, RestructureKeepsStages, SkipKeepsStages DEF Next

(***************************************************************************)
(* The stages inside a request: nothing else writes their state.            *)
(***************************************************************************)

LEMMA RequestStepsStages == [RequestNext]_allVars => [Next]_vars
<1> SUFFICES ASSUME [RequestNext]_allVars PROVE [Next]_vars
  OBVIOUS
<1>1. CASE UNCHANGED allVars
  BY <1>1 DEF allVars
<1>2. CASE Structure
  BY <1>2 DEF Structure
<1>3. CASE Unavailable \/ BuildSql \/ OpenMessages \/ GenerateMessages \/ Retrieved
  BY <1>3 DEF Unavailable, BuildSql, OpenMessages, GenerateMessages, Retrieved
<1>4. CASE SkipExecution \/ ExecutionFails \/ \E sane \in BOOLEAN : ExecutionReturns(sane)
  BY <1>4 DEF SkipExecution, ExecutionFails, ExecutionReturns
<1>5. CASE Refresh \/ Respond \/ RaiseInRetrieve \/ RaiseAfterRetrieve
  BY <1>5 DEF Refresh, Respond, RaiseInRetrieve, RaiseAfterRetrieve
<1>6. QED
  BY <1>1, <1>2, <1>3, <1>4, <1>5 DEF RequestNext, Step

\* The invariant of the structuring stages holds in every request: the types, what
\* a plan with SQL and a call in flight look like, and what a first call remembers.
THEOREM StagesHold == RequestSpec => []StagesInv
<1>1. RequestInit => StagesInv
  BY StagesInit DEF RequestInit
<1>2. StagesInv /\ [RequestNext]_allVars => StagesInv'
  BY RequestStepsStages, StagesNext
<1>3. QED
  BY <1>1, <1>2, PTL DEF RequestSpec

\* apply_default_period never lets the default window stand in for a rolling period
\* the prompt states, whatever windows and retries there are.
THEOREM DefaultsHideNothing == RequestSpec => []DefaultHidesNothing
<1>1. StagesInv => DefaultHidesNothing
  BY DEF StagesInv
<1>2. QED
  BY <1>1, StagesHold, PTL

\* structure remembers an emission failure over every later error of its call, but
\* for one whose expression stands.
THEOREM FailuresKeepTheirName == RequestSpec => []FailureKeepsItsName
<1>1. StagesInv => FailureKeepsItsName
  BY DEF StagesInv
<1>2. QED
  BY <1>1, StagesHold, PTL

\* realize_entity_bindings lets no plan go on to SQL with a binding of the user that
\* its expression does not name.
THEOREM AnswersAreNamed == RequestSpec => []AnsweredIsNamed
<1>1. StagesInv => AnsweredIsNamed
  BY DEF StagesInv
<1>2. QED
  BY <1>1, StagesHold, PTL

\* Once a plan goes on to SQL none of the later stages replaces it.
THEOREM PlansWithSqlAreFinal == RequestSpec => SqlIsFinal
<1>1. StagesInv /\ [RequestNext]_allVars => [plan.sql # "none" => plan' = plan]_vars
  <2> SUFFICES ASSUME StagesInv, [Next]_vars, plan.sql # "none"
               PROVE  UNCHANGED plan
    BY RequestStepsStages DEF vars
  <2>1. ~calling
    BY DEF StagesInv, CallInv
  <2>2. ~Complete
    BY <2>1 DEF Complete, Accept, Refuse, NonRetryable, Unserved
  <2>3. QED
    BY <2>2 DEF Next, Restructure, Skip, vars
<1>2. QED
  BY <1>1, StagesHold, PTL DEF RequestSpec, SqlIsFinal

(***************************************************************************)
(* The messages of an attempt, in the order the variants are required.      *)
(***************************************************************************)

\* The only increasing function of 1..n into itself leaves every place alone.
LEMMA IncreasingIsIdentity ==
  ASSUME NEW n \in Nat, NEW q \in [1..n -> 1..n],
         \A i, j \in 1..n : i < j => q[i] < q[j],
         NEW k \in 1..n
  PROVE  q[k] = k
<1>1. ASSUME q[k] < k PROVE FALSE
  <2> DEFINE f == [i \in 1..k |-> q[i]]
             S == 1..k
             T == 1..q[k]
  <2>1. f \in [S -> T]
    <3>1. \A i \in 1..k : i = k \/ i < k
      OBVIOUS
    <3>2. QED
      BY <3>1
  <2>2. IsFiniteSet(S) /\ Cardinality(S) = k
    BY FS_Interval
  <2>3. IsFiniteSet(T) /\ Cardinality(T) = q[k]
    BY FS_Interval
  <2>4. Cardinality(T) < Cardinality(S)
    BY <1>1, <2>2, <2>3
  <2> HIDE DEF f, S, T
  <2>5. PICK i, j \in S : i # j /\ f[i] = f[j]
    BY <2>1, <2>2, <2>3, <2>4, FS_PigeonHole
  <2>6. i \in 1..k /\ j \in 1..k /\ q[i] = q[j] /\ (i < j \/ j < i)
    BY <2>5 DEF f, S
  <2>7. QED
    BY <2>6
<1>2. ASSUME k < q[k] PROVE FALSE
  <2> DEFINE f == [i \in k..n |-> q[i]]
             S == k..n
             T == q[k]..n
  <2>1. f \in [S -> T]
    <3>1. \A i \in k..n : i = k \/ k < i
      OBVIOUS
    <3>2. QED
      BY <3>1
  <2>2. IsFiniteSet(S) /\ Cardinality(S) = n - k + 1
    BY FS_Interval
  <2>3. IsFiniteSet(T) /\ Cardinality(T) = n - q[k] + 1
    BY FS_Interval
  <2>4. Cardinality(T) < Cardinality(S)
    BY <1>2, <2>2, <2>3
  <2> HIDE DEF f, S, T
  <2>5. PICK i, j \in S : i # j /\ f[i] = f[j]
    BY <2>1, <2>2, <2>3, <2>4, FS_PigeonHole
  <2>6. i \in k..n /\ j \in k..n /\ q[i] = q[j] /\ (i < j \/ j < i)
    BY <2>5 DEF f, S
  <2>7. QED
    BY <2>6
<1>3. QED
  BY <1>1, <1>2

Attempts == [variant : VariantSet, reply : Replies]

LEMMA VariantsFacts ==
  /\ Len(Variants) \in Nat \ {0}
  /\ DOMAIN Variants = 1..Len(Variants)
  /\ \A i \in 1..Len(Variants) : Variants[i] \in VariantSet
  /\ \A i, j \in 1..Len(Variants) : Variants[i] = Variants[j] => i = j
BY GenerationAssumption

\* required_variants.index finds the place of every variant.
LEMMA PositionFacts ==
  ASSUME NEW v \in VariantSet
  PROVE  Position(v) \in 1..Len(Variants) /\ Variants[Position(v)] = v
BY VariantsFacts DEF VariantSet, Position

LEMMA PositionOfPlace ==
  ASSUME NEW i \in 1..Len(Variants)
  PROVE  Position(Variants[i]) = i
BY VariantsFacts, PositionFacts

\* Sorting loses, adds and renames nothing when each variant was attempted once, and
\* gives the required order.
LEMMA InOrderFacts ==
  ASSUME NEW attempts \in Seq(Attempts),
         Len(attempts) = Len(Variants),
         VariantSet = {attempts[i].variant : i \in DOMAIN attempts}
  PROVE  /\ InOrder(attempts) \in Seq(Attempts)
         /\ Len(InOrder(attempts)) = Len(Variants)
         /\ \A i \in 1..Len(Variants) : InOrder(attempts)[i].variant = Variants[i]
<1> DEFINE n == Len(Variants)
           places == DOMAIN attempts
           Sorts(p) == \A i, j \in places :
                         i < j => Position(attempts[p[i]].variant) < Position(attempts[p[j]].variant)
           sorting == CHOOSE p \in [places -> places] : Sorts(p)
<1>1. n \in Nat /\ places = 1..n /\ \A i \in 1..n : attempts[i] \in Attempts
  BY VariantsFacts
<1>2. \E p \in [places -> places] : Sorts(p)
  <2> DEFINE p == [i \in places |-> CHOOSE k \in places : attempts[k].variant = Variants[i]]
  <2>1. ASSUME NEW i \in places
        PROVE  \E k \in places : attempts[k].variant = Variants[i]
    <3>1. Variants[i] \in VariantSet
      BY <1>1, VariantsFacts
    <3>2. QED
      BY <3>1
  <2>2. p \in [places -> places] /\ \A i \in places : attempts[p[i]].variant = Variants[i]
    BY <2>1
  <2> HIDE DEF p
  <2>3. Sorts(p)
    BY <1>1, <2>2, PositionOfPlace
  <2>4. QED
    BY <2>2, <2>3
<1>3. sorting \in [places -> places] /\ Sorts(sorting)
  BY <1>2
<1>4. InOrder(attempts) = [i \in places |-> attempts[sorting[i]]]
  BY DEF InOrder
<1> HIDE DEF sorting
<1>5. InOrder(attempts) \in Seq(Attempts) /\ Len(InOrder(attempts)) = n
  BY <1>1, <1>3, <1>4
<1>6. ASSUME NEW i \in 1..n PROVE InOrder(attempts)[i].variant = Variants[i]
  <2> DEFINE q == [j \in 1..n |-> Position(attempts[sorting[j]].variant)]
  <2>1. \A j \in 1..n : attempts[sorting[j]].variant \in VariantSet
    BY <1>1, <1>3 DEF Attempts
  <2>2. q \in [1..n -> 1..n]
    BY <2>1, PositionFacts
  <2>3. \A j, k \in 1..n : j < k => q[j] < q[k]
    BY <1>1, <1>3
  <2> HIDE DEF q
  <2>4. q[i] = i
    BY <1>1, <2>2, <2>3, IncreasingIsIdentity
  <2>5. Position(attempts[sorting[i]].variant) = i
    BY <2>4 DEF q
  <2>6. attempts[sorting[i]].variant = Variants[i]
    BY <2>1, <2>5, PositionFacts
  <2>7. QED
    BY <1>1, <1>4, <2>6
<1>7. QED
  BY <1>5, <1>6

(***************************************************************************)
(* The invariant of the message generation: what an attempt has gathered    *)
(* and what it still waits for are the required variants, each once.        *)
(***************************************************************************)

GatheredInv ==
  generation = "running" =>
    /\ tries # 0
    /\ waiting = VariantSet \ {finished[i].variant : i \in DOMAIN finished}

GenInv ==
  /\ GenTypeOK /\ GatheredInv /\ MessagesAreWhole
  /\ generation # "succeeded" => messages = <<>>

LEMMA GenInvInit == GenInit => GenInv
BY GenerationAssumption
DEF GenInit, GenInv, GenTypeOK, GatheredInv, MessagesAreWhole, Generations

LEMMA BeginKeepsGenInv ==
  ASSUME NEW STATE opening, opening \in Generations \ {"succeeded"}, BeginGeneration(opening)
  PROVE  GenInv'
<1>1. /\ messages' = <<>> /\ finished' = <<>> /\ generation' = opening
      /\ tries' \in 0..MaxAttempts /\ waiting' \subseteq VariantSet
      /\ opening = "running" => tries' = 1 /\ waiting' = VariantSet
  BY GenerationAssumption DEF BeginGeneration, StartAttempt
<1>2. GenTypeOK'
  BY <1>1 DEF GenTypeOK
<1>3. GatheredInv'
  BY <1>1 DEF GatheredInv
<1>4. QED
  BY <1>1, <1>2, <1>3 DEF GenInv, MessagesAreWhole

LEMMA FinishKeepsGenInv ==
  ASSUME GenInv, NEW v \in VariantSet, FinishVariant(v)
  PROVE  GenInv'
<1>1. PICK r \in Replies : finished' = Append(finished, [variant |-> v, reply |-> r])
  BY DEF FinishVariant
<1> DEFINE done == [variant |-> v, reply |-> r]
<1>2. done \in Attempts /\ finished \in Seq(Attempts)
  BY DEF GenInv, GenTypeOK, Attempts
<1>3. finished' \in Seq(Attempts) /\ waiting' \subseteq VariantSet
  BY <1>1, <1>2 DEF FinishVariant, GenInv, GenTypeOK
<1>4. {finished'[i].variant : i \in DOMAIN finished'}
      = {finished[i].variant : i \in DOMAIN finished} \cup {v}
  <2>1. /\ DOMAIN finished' = 1..(Len(finished) + 1) /\ DOMAIN finished = 1..Len(finished)
        /\ Len(finished) \in Nat
        /\ \A i \in 1..Len(finished) : finished'[i] = finished[i]
        /\ finished'[Len(finished) + 1] = done
    BY <1>1, <1>2
  <2>2. \A i \in 1..(Len(finished) + 1) : i \in 1..Len(finished) \/ i = Len(finished) + 1
    BY <2>1
  <2>3. 1..Len(finished) \subseteq 1..(Len(finished) + 1)
        /\ Len(finished) + 1 \in 1..(Len(finished) + 1)
    BY <2>1
  <2>4. done.variant = v
    OBVIOUS
  <2> HIDE DEF done
  <2>5. QED
    BY <2>1, <2>2, <2>3, <2>4
<1>5. GatheredInv'
  BY <1>4 DEF GenInv, GatheredInv, FinishVariant
<1>6. GenTypeOK'
  BY <1>3 DEF GenInv, GenTypeOK, FinishVariant, Attempts
<1>7. QED
  BY <1>5, <1>6 DEF GenInv, MessagesAreWhole, FinishVariant

\* Messages are handed on only when the attempt made one for every variant.
LEMMA SucceedKeepsGenInv ==
  ASSUME GenInv, generation = "running", waiting = {}, Succeed
  PROVE  GenInv'
<1> DEFINE n == Len(Variants)
<1>1. finished \in Seq(Attempts) /\ n \in Nat /\ DOMAIN Variants = 1..n
  BY VariantsFacts DEF GenInv, GenTypeOK, Attempts
<1>2. Len(finished) = n
  <2>1. DOMAIN Made = DOMAIN finished
    BY DEF Made, InOrder
  <2>2. Len(Made) = Len(finished)
    <3>1. DOMAIN Made = 1..Len(finished) /\ Len(finished) \in Nat
      BY <1>1, <2>1
    <3>2. QED
      BY <3>1
  <2>3. QED
    BY <2>2 DEF Succeed, Satisfied
<1>3. VariantSet = {finished[i].variant : i \in DOMAIN finished}
  <2>1. \A i \in DOMAIN finished : finished[i].variant \in VariantSet
    <3>1. \A i \in DOMAIN finished : finished[i] \in Attempts
      BY <1>1
    <3>2. QED
      BY <3>1 DEF Attempts
  <2>2. QED
    BY <2>1 DEF GenInv, GatheredInv
<1>4. /\ Made \in Seq(Attempts) /\ DOMAIN Made = 1..n
      /\ \A i \in 1..n : Made[i].variant = Variants[i]
  BY <1>1, <1>2, <1>3, InOrderFacts DEF Made
<1>5. /\ generation' = "succeeded" /\ finished' = <<>> /\ UNCHANGED <<tries, waiting>>
      /\ messages' = [i \in 1..n |-> Message(i)]
  BY <1>1 DEF Succeed
<1>6. ASSUME NEW i \in 1..n
      PROVE  /\ Message(i) \in Messages
             /\ Message(i).variant = Variants[i] /\ Message(i).text = Made[i].reply.text
  <2>1. Made[i] \in Attempts /\ Made[i].reply.made
    BY <1>4 DEF Succeed, Satisfied
  <2>2. Made[i].variant \in VariantSet /\ Made[i].reply.text \in Texts
    BY <2>1 DEF Attempts, Replies
  <2>3. QED
    BY <1>4, <2>2 DEF Message, Messages
<1>7. messages' \in Seq(Messages) /\ DOMAIN messages' = 1..n
  BY <1>1, <1>5, <1>6
<1>8. [i \in DOMAIN messages' |-> messages'[i].variant] = Variants
  <2>1. Variants = [i \in 1..n |-> Variants[i]]
    BY <1>1, GenerationAssumption
  <2>2. QED
    BY <1>5, <1>6, <1>7, <2>1
<1>9. \A i, j \in DOMAIN messages' : messages'[i].text = messages'[j].text => i = j
  BY <1>4, <1>5, <1>6, <1>7 DEF Succeed, Satisfied
<1>10. MessagesAreWhole'
  BY <1>5, <1>8, <1>9 DEF MessagesAreWhole
<1>11. GenTypeOK'
  BY <1>5, <1>7 DEF GenInv, GenTypeOK, Generations
<1>12. QED
  BY <1>5, <1>10, <1>11 DEF GenInv, GatheredInv

LEMMA JudgeKeepsGenInv ==
  ASSUME GenInv, JudgeAttempt
  PROVE  GenInv'
<1>1. generation = "running" /\ waiting = {} /\ tries \in 0..MaxAttempts /\ messages = <<>>
  BY DEF JudgeAttempt, GenInv, GenTypeOK
<1>2. CASE Succeed
  BY <1>1, <1>2, SucceedKeepsGenInv
<1>3. CASE Retry
  <2>1. /\ tries' \in 0..MaxAttempts /\ tries' # 0
        /\ waiting' = VariantSet /\ finished' = <<>> /\ UNCHANGED <<generation, messages>>
    BY <1>1, <1>3, GenerationAssumption DEF Retry, StartAttempt
  <2>2. GenTypeOK' /\ GatheredInv'
    BY <2>1 DEF GenInv, GenTypeOK, GatheredInv
  <2>3. QED
    BY <1>1, <2>1, <2>2 DEF GenInv, MessagesAreWhole
<1>4. CASE Exhaust
  <2>1. /\ generation' = "failed" /\ finished' = <<>> /\ messages' = <<>>
        /\ UNCHANGED <<tries, waiting>>
    BY <1>1, <1>4 DEF Exhaust
  <2>2. GenTypeOK' /\ GatheredInv'
    BY <2>1 DEF GenInv, GenTypeOK, GatheredInv, Generations
  <2>3. QED
    BY <2>1, <2>2 DEF GenInv, MessagesAreWhole
<1>5. QED
  BY <1>2, <1>3, <1>4 DEF JudgeAttempt

LEMMA StillKeepsGenInv == GenInv /\ UNCHANGED genVars => GenInv'
BY DEF GenInv, GenTypeOK, GatheredInv, MessagesAreWhole, genVars

LEMMA ContextType ==
  ASSUME NEW campaign
  PROVE  Context(campaign) \in Generations \ {"succeeded"}
BY DEF Context, Opening, Generations, Skipped

LEMMA GenInvNext == GenInv /\ [RequestNext]_allVars => GenInv'
<1> SUFFICES ASSUME GenInv, [RequestNext]_allVars PROVE GenInv'
  OBVIOUS
<1>1. CASE OpenMessages
  BY <1>1, ContextType, BeginKeepsGenInv DEF OpenMessages
<1>2. CASE GenerateMessages
  BY <1>2, FinishKeepsGenInv, JudgeKeepsGenInv DEF GenerateMessages, GenNext
<1>3. CASE Refresh
  <2>1. ASSUME NEW known \in BOOLEAN, BeginGeneration(Context(known)) PROVE GenInv'
    BY <2>1, ContextType, BeginKeepsGenInv
  <2>2. QED
    BY <1>3, <2>1, StillKeepsGenInv DEF Refresh
<1>4. CASE UNCHANGED genVars
  BY <1>4, StillKeepsGenInv
<1>5. UNCHANGED genVars \/ OpenMessages \/ GenerateMessages \/ Refresh
  BY DEF RequestNext, Step, allVars, Unavailable, Structure, BuildSql, Retrieved,
         RaiseInRetrieve, SkipExecution, ExecutionFails, ExecutionReturns, Respond,
         RaiseAfterRetrieve
<1>6. QED
  BY <1>1, <1>2, <1>3, <1>4, <1>5

\* A response holds no message, or exactly the required variants in their order
\* with no text twice, for any number of variants and attempts and whatever order
\* the threads end in.
THEOREM ResponsesAreWhole == RequestSpec => []MessagesAreWhole
<1>1. RequestInit => GenInv
  BY GenInvInit DEF RequestInit
<1>2. GenInv => MessagesAreWhole
  BY DEF GenInv
<1>3. QED
  BY <1>1, <1>2, GenInvNext, PTL DEF RequestSpec

(***************************************************************************)
(* What a request has done by each phase.                                   *)
(***************************************************************************)

Early == {"retrieve", "context", "messages", "execute"}
Late == {"refresh", "refreshed"}

PhaseInv ==
  /\ phase \in Early \cup Late \cup {"done"}
  /\ phase # "done" => response = "none"
  /\ built \in {"none", "refused", "blocked", "shipped"}
  /\ phase = "retrieve" => built = "none"
  /\ phase \in (Early \cup Late) \ {"retrieve"} => built # "none"

RunInv ==
  /\ database \in {"none", "skipped", "failed", "insane", "ok"}
  /\ phase \in Early => database = "none" /\ audience = "none"
  /\ phase \in Late /\ Runs => database \in {"failed", "insane", "ok"}
  /\ phase \in Late /\ ~Runs => database = "skipped"
  /\ audience = "saved" => database = "ok"

OfferInv ==
  /\ generation = "running" => built = "shipped" /\ phase \in {"messages", "refreshed"}
  /\ phase \in {"retrieve", "context"} => generation = "none"
  /\ generation # "succeeded" => messages = <<>>
  /\ messages # <<>> => built = "shipped"

PromiseInv == PhaseInv /\ RunInv /\ OfferInv

LEMMA PromiseInvInit == RequestInit => PromiseInv
BY DEF RequestInit, GenInit, PromiseInv, PhaseInv, RunInv, OfferInv, Early, Late

LEMMA OpeningFacts ==
  ASSUME NEW campaign, built # "none"
  PROVE  /\ Context(campaign) # "succeeded"
         /\ Context(campaign) = "running" => built = "shipped"
BY DEF Context, Opening

\* A step of the messages: nothing, or the messages of a generation that ran.
LEMMA GenerationStep ==
  ASSUME GenNext
  PROVE  /\ generation = "running"
         /\ \/ generation' = "succeeded" /\ messages' # <<>>
            \/ generation' \in {"running", "failed"} /\ messages' = messages
<1>1. ASSUME NEW v \in VariantSet, FinishVariant(v)
      PROVE  generation = "running" /\ UNCHANGED <<generation, messages>>
  BY <1>1 DEF FinishVariant
<1>2. CASE JudgeAttempt /\ Succeed
  <2>1. generation = "running" /\ generation' = "succeeded"
        /\ messages' = [i \in DOMAIN Variants |-> Message(i)]
    BY <1>2 DEF JudgeAttempt, Succeed
  <2>2. 1 \in DOMAIN Variants
    BY GenerationAssumption
  <2>3. DOMAIN messages' = DOMAIN Variants
    BY <2>1
  <2>4. messages' # <<>>
    BY <2>2, <2>3
  <2>5. QED
    BY <2>1, <2>4
<1>3. CASE JudgeAttempt /\ (Retry \/ Exhaust)
  BY <1>3 DEF JudgeAttempt, Retry, Exhaust
<1>4. QED
  BY <1>1, <1>2, <1>3 DEF GenNext, JudgeAttempt

LEMMA PromiseInvNext == PromiseInv /\ [RequestNext]_allVars => PromiseInv'
<1> SUFFICES ASSUME PromiseInv, [RequestNext]_allVars PROVE PromiseInv'
  OBVIOUS
<1> USE DEF PromiseInv, PhaseInv, RunInv, OfferInv, Early, Late, requestVars
<1>1. CASE UNCHANGED allVars
  BY <1>1 DEF allVars, genVars, Runs
<1>2. CASE Unavailable
  BY <1>2 DEF Unavailable, genVars
<1>3. CASE Structure
  BY <1>3 DEF Structure, genVars, Runs
<1>4. CASE BuildSql
  BY <1>4 DEF BuildSql, BuiltSql, genVars
<1>5. CASE OpenMessages
  BY <1>5, OpeningFacts DEF OpenMessages, BeginGeneration
<1>6. CASE GenerateMessages
  BY <1>6, GenerationStep DEF GenerateMessages, Runs
<1>7. CASE Retrieved
  BY <1>7 DEF Retrieved, genVars
<1>8. CASE RaiseInRetrieve \/ RaiseAfterRetrieve
  BY <1>8 DEF RaiseInRetrieve, RaiseAfterRetrieve, genVars
<1>9. CASE SkipExecution
  BY <1>9 DEF SkipExecution, genVars, Runs
<1>10. CASE ExecutionFails
  BY <1>10 DEF ExecutionFails, genVars, Runs
<1>11. ASSUME NEW sane \in BOOLEAN, ExecutionReturns(sane) PROVE PromiseInv'
  BY <1>11 DEF ExecutionReturns, Saves, genVars, Runs
<1>12. CASE Refresh
  <2>1. CASE Refreshes
    BY <1>12, <2>1, OpeningFacts DEF Refresh, BeginGeneration, Runs
  <2>2. CASE ~Refreshes
    BY <1>12, <2>2 DEF Refresh, genVars, Runs
  <2>3. QED
    BY <2>1, <2>2
<1>13. CASE Respond
  BY <1>13 DEF Respond, genVars
<1>14. QED
  BY <1>1, <1>2, <1>3, <1>4, <1>5, <1>6, <1>7, <1>8, <1>9, <1>10, <1>11, <1>12, <1>13
  DEF RequestNext, Step

(***************************************************************************)
(* The types of a request.                                                  *)
(***************************************************************************)

AnswerTypes ==
  /\ request \in Requests
  /\ audience \in {"none", "skipped", "error", "saved"}
  /\ campaigns \in BOOLEAN
  /\ response \in {"none", "unavailable", "bad_request", "internal_error", "uncaught",
                   "success", "declined", "sql_validation_failed"}

LEMMA AnswerTypesNext == AnswerTypes /\ [RequestNext]_allVars => AnswerTypes'
<1> SUFFICES ASSUME AnswerTypes, [RequestNext]_allVars PROVE AnswerTypes'
  OBVIOUS
<1>1. CASE Respond
  BY <1>1 DEF Respond, Status, AnswerTypes
<1>2. ASSUME NEW sane \in BOOLEAN, ExecutionReturns(sane) PROVE AnswerTypes'
  BY <1>2 DEF ExecutionReturns, Saves, AnswerTypes
<1>3. CASE Unavailable \/ RaiseInRetrieve \/ RaiseAfterRetrieve
  BY <1>3 DEF Unavailable, RaiseInRetrieve, RaiseAfterRetrieve, AnswerTypes
<1>4. CASE UNCHANGED <<request, audience, campaigns, response>>
  BY <1>4 DEF AnswerTypes
<1>5. \/ UNCHANGED <<request, audience, campaigns, response>>
      \/ Unavailable \/ RaiseInRetrieve \/ RaiseAfterRetrieve \/ Respond
      \/ \E sane \in BOOLEAN : ExecutionReturns(sane)
  BY DEF RequestNext, Step, allVars, requestVars, Structure, BuildSql, OpenMessages,
         GenerateMessages, Retrieved, SkipExecution, ExecutionFails, Refresh
<1>6. QED
  BY <1>1, <1>2, <1>3, <1>4, <1>5

\* Every variable of a request keeps its type in all its stages and threads.
THEOREM RequestsKeepTheirTypes == RequestSpec => []RequestTypeOK
<1>1. RequestInit => AnswerTypes
  BY DEF RequestInit, AnswerTypes
<1>2. RequestInit => GenInv
  BY GenInvInit DEF RequestInit
<1>3. StagesInv /\ GenInv /\ PromiseInv /\ AnswerTypes => RequestTypeOK
  BY DEF StagesInv, GenInv, PromiseInv, PhaseInv, RunInv, Early, Late, AnswerTypes,
         RequestTypeOK
<1>4. QED
  BY <1>1, <1>2, <1>3, StagesHold, GenInvNext, PromiseInvInit, PromiseInvNext,
     AnswerTypesNext, PTL DEF RequestSpec

(***************************************************************************)
(* Each step of a request is one step of RequestPromise or none.            *)
(***************************************************************************)

\* A step that leaves alone what the promise is about.
LEMMA StepsUnpromised ==
  ASSUME UNCHANGED <<built, audience, messages, response>>,
         database' = database \/ (database = "none" /\ database' = "skipped")
  PROVE  UNCHANGED Promise!promiseVars
BY DEF Promise!promiseVars

LEMMA BuildSqlDecides ==
  ASSUME PromiseInv, BuildSql
  PROVE  Promise!Decide
<1>1. built = "none" /\ built' \in {"refused", "blocked", "shipped"} /\ response = "none"
      /\ UNCHANGED <<genVars, database, audience, response>>
  BY DEF PromiseInv, PhaseInv, BuildSql, BuiltSql
<1>2. QED
  BY <1>1 DEF Promise!Decide, genVars

\* Only SQL that shipped is run, and an audience is stored only if the run went well.
LEMMA ExecutionRuns ==
  ASSUME PromiseInv, phase = "execute", Runs, phase' = "refresh",
         UNCHANGED <<genVars, built, response>>,
         database' \in {"failed", "insane", "ok"},
         audience' = "saved" => database' = "ok"
  PROVE  Promise!Run
<1>1. built = "shipped" /\ database = "none" /\ response = "none" /\ built' = built
      /\ messages' = messages /\ response' = response
  BY DEF PromiseInv, PhaseInv, RunInv, Early, Late, Runs, genVars
<1>2. QED
  BY <1>1 DEF Promise!Run

\* Messages are offered once and only for SQL that shipped.
LEMMA GenerationOffers ==
  ASSUME PromiseInv, GenerateMessages
  PROVE  Promise!Offer \/ UNCHANGED Promise!promiseVars
<1>1. generation = "running" /\ UNCHANGED requestVars
      /\ (messages' # <<>> \/ messages' = messages)
  BY GenerationStep DEF GenerateMessages
<1>2. built = "shipped" /\ messages = <<>> /\ response = "none"
      /\ UNCHANGED <<built, database, audience, response>>
  BY <1>1 DEF PromiseInv, PhaseInv, OfferInv, requestVars
<1>3. CASE messages' = messages
  BY <1>2, <1>3, StepsUnpromised
<1>4. CASE messages' # <<>>
  BY <1>2, <1>4 DEF Promise!Offer
<1>5. QED
  BY <1>1, <1>3, <1>4

\* The answer says no more than happened.
LEMMA RespondAnswers ==
  ASSUME PromiseInv, Respond
  PROVE  Promise!Answer
<1>1. /\ phase = "refreshed" /\ response = "none" /\ response' = Status
      /\ UNCHANGED <<genVars, built, database, audience>>
  BY DEF Respond, PromiseInv, PhaseInv
<1>2. /\ built \in {"refused", "blocked", "shipped"}
      /\ Runs => database \in {"failed", "insane", "ok"}
      /\ ~Runs => database = "skipped"
      /\ audience = "saved" => database = "ok"
  BY <1>1 DEF PromiseInv, PhaseInv, RunInv, Early, Late
<1>3. CASE built # "shipped"
  <2>1. response' = "declined" /\ ~Runs /\ audience # "saved"
    BY <1>1, <1>2, <1>3 DEF Status, Runs
  <2>2. QED
    BY <1>1, <1>2, <1>3, <2>1 DEF Promise!Answer, genVars
<1>4. CASE built = "shipped" /\ request.execute /\ database # "ok"
  <2>1. response' = "sql_validation_failed" /\ database \in {"failed", "insane"}
        /\ audience # "saved"
    BY <1>1, <1>2, <1>4 DEF Status, Runs
  <2>2. QED
    BY <1>1, <1>4, <2>1 DEF Promise!Answer, genVars
<1>5. CASE built = "shipped" /\ ~(request.execute /\ database # "ok")
  <2>1. response' = "success" /\ database \in {"ok", "skipped"}
    BY <1>1, <1>2, <1>5 DEF Status, Runs
  <2>2. QED
    BY <1>1, <1>5, <2>1 DEF Promise!Answer, genVars
<1>6. QED
  BY <1>3, <1>4, <1>5

LEMMA ErrorsAnswer ==
  ASSUME PromiseInv, Unavailable \/ RaiseInRetrieve \/ RaiseAfterRetrieve
  PROVE  Promise!Answer
<1>1. /\ response = "none"
      /\ response' \in {"unavailable", "bad_request", "internal_error", "uncaught"}
      /\ UNCHANGED <<genVars, built, database, audience>>
  BY DEF PromiseInv, PhaseInv, Early, Late, Unavailable, RaiseInRetrieve, RaiseAfterRetrieve
<1>2. QED
  BY <1>1 DEF Promise!Answer, genVars

LEMMA InitPromises == RequestInit => Promise!PromiseInit
BY DEF RequestInit, GenInit, Promise!PromiseInit

LEMMA StepPromises ==
  PromiseInv /\ [RequestNext]_allVars => [Promise!PromiseNext]_(Promise!promiseVars)
<1> SUFFICES ASSUME PromiseInv, [RequestNext]_allVars
             PROVE  Promise!PromiseNext \/ UNCHANGED Promise!promiseVars
  OBVIOUS
<1>1. CASE UNCHANGED allVars
  BY <1>1, StepsUnpromised DEF allVars, requestVars, genVars
<1>2. CASE Structure \/ Retrieved
  BY <1>2, StepsUnpromised DEF Structure, Retrieved, requestVars, genVars
<1>3. CASE BuildSql
  BY <1>3, BuildSqlDecides DEF Promise!PromiseNext
<1>4. CASE OpenMessages
  <2>1. messages' = messages
    BY <1>4 DEF OpenMessages, BeginGeneration, PromiseInv, OfferInv
  <2>2. QED
    BY <1>4, <2>1, StepsUnpromised DEF OpenMessages
<1>5. CASE GenerateMessages
  BY <1>5, GenerationOffers DEF Promise!PromiseNext
<1>6. CASE SkipExecution
  <2>1. database = "none"
    BY <1>6 DEF SkipExecution, PromiseInv, RunInv, Early
  <2>2. QED
    BY <1>6, <2>1, StepsUnpromised DEF SkipExecution, genVars
<1>7. CASE ExecutionFails
  <2>1. audience' # "saved"
    BY <1>7 DEF ExecutionFails, PromiseInv, RunInv, Early
  <2>2. QED
    BY <1>7, <2>1, ExecutionRuns DEF ExecutionFails, Promise!PromiseNext
<1>8. ASSUME NEW sane \in BOOLEAN, ExecutionReturns(sane) PROVE Promise!PromiseNext
  <2>1. audience' = "saved" => database' = "ok"
    BY <1>8 DEF ExecutionReturns, Saves
  <2>2. QED
    BY <1>8, <2>1, ExecutionRuns DEF ExecutionReturns, Promise!PromiseNext
<1>9. CASE Refresh
  <2>1. messages' = messages
    BY <1>9 DEF Refresh, Refreshes, BeginGeneration, genVars, PromiseInv, OfferInv
  <2>2. QED
    BY <1>9, <2>1, StepsUnpromised DEF Refresh
<1>10. CASE Respond
  BY <1>10, RespondAnswers DEF Promise!PromiseNext
<1>11. CASE Unavailable \/ RaiseInRetrieve \/ RaiseAfterRetrieve
  BY <1>11, ErrorsAnswer DEF Promise!PromiseNext
<1>12. QED
  BY <1>1, <1>2, <1>3, <1>4, <1>5, <1>6, <1>7, <1>8, <1>9, <1>10, <1>11
  DEF RequestNext, Step

\* target_sql keeps RequestPromise for every set of requests and every pattern of
\* failures.
THEOREM RequestsKeepTheirPromise == RequestSpec => ImplementsPromise
<1>1. RequestInit => PromiseInv /\ Promise!PromiseInit
  BY PromiseInvInit, InitPromises
<1>2. PromiseInv /\ [RequestNext]_allVars => PromiseInv'
  BY PromiseInvNext
<1>3. PromiseInv /\ [RequestNext]_allVars => [Promise!PromiseNext]_(Promise!promiseVars)
  BY StepPromises
<1>4. QED
  BY <1>1, <1>2, <1>3, PTL DEF RequestSpec, ImplementsPromise, Promise!PromiseSpec

(***************************************************************************)
(* A request ends after a bounded number of steps.                          *)
(***************************************************************************)

\* An attempt at the messages: one reply for each variant, and the judgement.
AttemptSteps == Cardinality(VariantSet) + 1

StagesAfter ==
  CASE stage = "structure" -> 4 [] stage = "ground" -> 3 [] stage = "stated" -> 2
    [] stage = "default" -> 1   [] OTHER -> 0

\* Completions the stages may still ask for, and steps from stage to stage.
CallsLeft ==
  IF stage = "done" THEN 0
  ELSE StagesAfter * (MaxRetries + 3)
       + IF calling THEN MaxRetries + 1 - attempt ELSE MaxRetries + 2

\* Replies and judgements the message generation that runs may still need.
RepliesLeft ==
  IF generation = "running"
  THEN (MaxAttempts - tries) * AttemptSteps + Cardinality(waiting) + 1
  ELSE 0

PhasesLeft ==
  CASE phase = "retrieve" -> 6 [] phase = "context" -> 5 [] phase = "messages" -> 4
    [] phase = "execute" -> 3  [] phase = "refresh" -> 2 [] phase = "refreshed" -> 1
    [] OTHER -> 0

StepsLeft == PhasesLeft * (MaxAttempts * AttemptSteps + 1) + CallsLeft + RepliesLeft

\* At most 6 * (MaxAttempts * AttemptSteps + 1) + 5 * (MaxRetries + 3) steps lie
\* before a request, and each one it takes leaves fewer: no stage, retry, attempt or
\* refresh of the messages can keep the request going.
StepsAreBounded ==
  StepsLeft \in 0..(6 * (MaxAttempts * AttemptSteps + 1) + 5 * (MaxRetries + 3))
EveryStepCounts == [][StepsLeft' < StepsLeft]_allVars

LEMMA VariantsAreFinite ==
  /\ IsFiniteSet(VariantSet) /\ Cardinality(VariantSet) \in Nat
  /\ AttemptSteps \in Nat \ {0}
<1> DEFINE S == 1..Len(Variants)
           f == [i \in S |-> Variants[i]]
<1>1. IsFiniteSet(S)
  BY VariantsFacts, FS_Interval
<1>2. f \in Surjection(S, VariantSet)
  BY VariantsFacts DEF VariantSet, Surjection
<1> HIDE DEF S, f
<1>3. IsFiniteSet(VariantSet)
  BY <1>1, <1>2, FS_Surjection
<1>4. QED
  BY <1>3, FS_CardinalityType DEF AttemptSteps

LEMMA AttemptsLeft ==
  ASSUME NEW n \in Nat, NEW t \in 1..n, NEW a \in Nat
  PROVE  /\ (n - t) * a \in Nat /\ n * a \in Nat
         /\ (n - t) * a + a <= n * a
         /\ t < n => (n - (t + 1)) * a + a = (n - t) * a
<1>1. (n - t) * a \in Nat /\ n * a \in Nat /\ (t - 1) * a \in Nat
  OBVIOUS
<1>2. (n - t) * a + a + (t - 1) * a = n * a
  OBVIOUS
<1>3. (n - (t + 1)) * a + a = (n - t) * a
  OBVIOUS
<1>4. QED
  BY <1>1, <1>2, <1>3

\* What the generation may still need never exceeds what it may need at first.
LEMMA RepliesFacts ==
  ASSUME GenInv
  PROVE  /\ IsFiniteSet(waiting) /\ Cardinality(waiting) \in 0..Cardinality(VariantSet)
         /\ RepliesLeft \in 0..(MaxAttempts * AttemptSteps)
<1>1. /\ waiting \subseteq VariantSet /\ MaxAttempts \in Nat /\ tries \in 0..MaxAttempts
      /\ generation = "running" => tries # 0
  BY GenerationAssumption DEF GenInv, GenTypeOK, GatheredInv
<1>2. IsFiniteSet(waiting) /\ Cardinality(waiting) \in 0..Cardinality(VariantSet)
  BY <1>1, VariantsAreFinite, FS_Subset, FS_CardinalityType
<1>3. CASE generation = "running"
  <2>1. /\ (MaxAttempts - tries) * AttemptSteps \in Nat
        /\ MaxAttempts * AttemptSteps \in Nat
        /\ (MaxAttempts - tries) * AttemptSteps + AttemptSteps <= MaxAttempts * AttemptSteps
    BY <1>1, <1>3, AttemptsLeft, VariantsAreFinite
  <2>2. AttemptSteps = Cardinality(VariantSet) + 1
    BY DEF AttemptSteps
  <2>3. QED
    BY <1>2, <1>3, <2>1, <2>2, VariantsAreFinite DEF RepliesLeft
<1>4. CASE generation # "running"
  <2>1. MaxAttempts * AttemptSteps \in Nat
    BY <1>1, VariantsAreFinite
  <2>2. QED
    BY <1>2, <1>4, <2>1 DEF RepliesLeft
<1>5. QED
  BY <1>3, <1>4

LEMMA CallsFacts ==
  ASSUME TypeOK
  PROVE  CallsLeft \in 0..(5 * (MaxRetries + 3))
BY StructuringAssumption DEF TypeOK, CallsLeft, StagesAfter

LEMMA PhasesFacts ==
  ASSUME PhaseInv
  PROVE  PhasesLeft \in 0..6
BY DEF PhaseInv, Early, Late, PhasesLeft

Sizes ==
  /\ PhasesLeft \in 0..6
  /\ CallsLeft \in 0..(5 * (MaxRetries + 3))
  /\ RepliesLeft \in 0..(MaxAttempts * AttemptSteps)

\* A completion, a further call and a stage that asks for nothing.
LEMMA StructuringAdvances ==
  ASSUME StagesInv, Next, stage # "done"
  PROVE  CallsLeft' < CallsLeft
<1>1. /\ stage \in {"structure", "ground", "stated", "default", "entity"}
      /\ attempt \in 0..MaxRetries /\ MaxRetries \in Nat /\ calling \in BOOLEAN
  BY AfterFacts, StructuringAssumption DEF StagesInv, TypeOK
<1>2. ASSUME stage' = After[stage], ~calling'
      PROVE  CallsLeft' < CallsLeft
  BY <1>1, <1>2, AfterFacts DEF CallsLeft, StagesAfter
<1>3. ASSUME NEW c, Return(c) PROVE CallsLeft' < CallsLeft
  BY <1>2, <1>3 DEF Return
<1>4. ASSUME NEW remembered, GivenUp(remembered) PROVE CallsLeft' < CallsLeft
  BY <1>3, <1>4 DEF GivenUp
<1>5. CASE \E c \in Payloads : Accept(c)
  BY <1>3, <1>5 DEF Accept
<1>6. CASE \E flaw \in Flaws : Refuse(flaw)
  <2>1. PICK flaw \in Flaws : Refuse(flaw)
    BY <1>6
  <2>2. CASE attempt < MaxRetries
    <3>1. calling /\ attempt' = attempt + 1 /\ UNCHANGED <<stage, calling>>
      BY <2>1, <2>2 DEF Refuse
    <3>2. QED
      BY <1>1, <3>1 DEF CallsLeft, StagesAfter
  <2>3. CASE ~(attempt < MaxRetries)
    BY <1>4, <2>1, <2>3 DEF Refuse
  <2>4. QED
    BY <2>2, <2>3
<1>7. CASE NonRetryable \/ Unserved
  BY <1>3, <1>4, <1>7 DEF NonRetryable, Unserved
<1>8. CASE Restructure
  <2>1. ~calling /\ calling' = TRUE /\ UNCHANGED <<stage, attempt>>
    BY <1>8 DEF Restructure
  <2>2. QED
    BY <1>1, <2>1 DEF CallsLeft, StagesAfter
<1>9. CASE Skip
  BY <1>2, <1>9 DEF Skip
<1>10. QED
  BY <1>5, <1>6, <1>7, <1>8, <1>9 DEF Next, Complete

\* A reply or a judgement.
LEMMA GenerationAdvances ==
  ASSUME GenInv, GenNext
  PROVE  RepliesLeft' < RepliesLeft
<1> DEFINE n == Cardinality(VariantSet)
<1>1. /\ generation = "running" /\ tries \in 1..MaxAttempts /\ MaxAttempts \in Nat
      /\ n \in Nat /\ AttemptSteps = n + 1
      /\ IsFiniteSet(waiting) /\ Cardinality(waiting) \in Nat
  BY GenerationStep, RepliesFacts, GenerationAssumption, VariantsAreFinite
  DEF GenInv, GenTypeOK, GatheredInv, AttemptSteps
<1>2. /\ (MaxAttempts - tries) * AttemptSteps \in Nat
      /\ tries < MaxAttempts =>
           (MaxAttempts - (tries + 1)) * AttemptSteps + AttemptSteps
             = (MaxAttempts - tries) * AttemptSteps
  BY <1>1, AttemptsLeft
<1>3. RepliesLeft = (MaxAttempts - tries) * AttemptSteps + Cardinality(waiting) + 1
  BY <1>1 DEF RepliesLeft
<1>4. ASSUME NEW v \in VariantSet, FinishVariant(v) PROVE RepliesLeft' < RepliesLeft
  <2>1. v \in waiting /\ waiting' = waiting \ {v} /\ UNCHANGED <<generation, tries>>
    BY <1>4 DEF FinishVariant
  <2>2. Cardinality(waiting') = Cardinality(waiting) - 1
    BY <1>1, <2>1, FS_RemoveElement
  <2>3. RepliesLeft' = (MaxAttempts - tries) * AttemptSteps + Cardinality(waiting') + 1
    BY <1>1, <2>1 DEF RepliesLeft
  <2>4. QED
    BY <1>1, <1>2, <1>3, <2>2, <2>3
<1>5. CASE JudgeAttempt /\ Retry
  <2>1. tries < MaxAttempts /\ tries' = tries + 1 /\ waiting' = VariantSet
        /\ generation' = generation
    BY <1>1, <1>5 DEF Retry, StartAttempt
  <2>2. RepliesLeft' = (MaxAttempts - (tries + 1)) * AttemptSteps + n + 1
    BY <1>1, <2>1 DEF RepliesLeft
  <2>3. waiting = {} /\ Cardinality(waiting) = 0
    BY <1>5, FS_EmptySet DEF JudgeAttempt
  <2>4. QED
    BY <1>1, <1>2, <1>3, <2>1, <2>2, <2>3
<1>6. CASE JudgeAttempt /\ (Succeed \/ Exhaust)
  <2>1. RepliesLeft' = 0
    BY <1>6 DEF Succeed, Exhaust, RepliesLeft
  <2>2. QED
    BY <1>1, <1>2, <1>3, <2>1
<1>7. QED
  BY <1>4, <1>5, <1>6 DEF GenNext, JudgeAttempt

LEMMA EarlierPhase ==
  ASSUME NEW m \in Nat, NEW p \in 0..6, NEW q \in 0..6, q < p
  PROVE  p * m \in Nat /\ q * m \in Nat /\ q * m + m <= p * m
<1>1. p * m \in Nat /\ q * m \in Nat /\ (p - q - 1) * m \in Nat
  OBVIOUS
<1>2. p * m = q * m + m + (p - q - 1) * m
  OBVIOUS
<1>3. QED
  BY <1>1, <1>2

\* From phase to phase there is room for a whole generation of messages.
LEMMA PhaseAdvances ==
  ASSUME Sizes, Sizes', PhasesLeft' < PhasesLeft, UNCHANGED vars
  PROVE  StepsLeft' < StepsLeft
<1> DEFINE whole == MaxAttempts * AttemptSteps
<1>1. whole \in Nat
  BY GenerationAssumption, VariantsAreFinite
<1>2. RepliesLeft \in 0..whole /\ RepliesLeft' \in 0..whole
  BY DEF Sizes, AttemptSteps
<1>3. CallsLeft' = CallsLeft /\ CallsLeft \in Int
  BY StructuringAssumption DEF Sizes, vars, CallsLeft, StagesAfter
<1>4. PhasesLeft \in 0..6 /\ PhasesLeft' \in 0..6
  BY DEF Sizes
<1>5. /\ StepsLeft = PhasesLeft * (whole + 1) + CallsLeft + RepliesLeft
      /\ StepsLeft' = PhasesLeft' * (whole + 1) + CallsLeft' + RepliesLeft'
  BY DEF StepsLeft, AttemptSteps
<1> HIDE DEF whole
<1>6. /\ PhasesLeft * (whole + 1) \in Nat /\ PhasesLeft' * (whole + 1) \in Nat
      /\ PhasesLeft' * (whole + 1) + (whole + 1) <= PhasesLeft * (whole + 1)
  <2>1. whole + 1 \in Nat
    BY <1>1
  <2>2. QED
    BY <1>4, <2>1, EarlierPhase
<1>7. QED
  BY <1>1, <1>2, <1>3, <1>5, <1>6

\* A request takes a bounded number of steps, whatever the bounds on retries and
\* attempts and however many variants are required.
THEOREM RequestsAreBounded == RequestSpec => []StepsAreBounded /\ EveryStepCounts
<1> DEFINE I == StagesInv /\ GenInv /\ PromiseInv
<1>1. RequestInit => I
  BY StagesInit, GenInvInit, PromiseInvInit DEF RequestInit
<1>2. I /\ [RequestNext]_allVars => I'
  BY RequestStepsStages, StagesNext, GenInvNext, PromiseInvNext
<1>3. I => Sizes
  BY RepliesFacts, CallsFacts, PhasesFacts DEF StagesInv, PromiseInv, Sizes
<1>4. I /\ Sizes => StepsAreBounded
  <2> SUFFICES ASSUME I, Sizes PROVE StepsAreBounded
    OBVIOUS
  <2> DEFINE whole == MaxAttempts * AttemptSteps
  <2>1. whole \in Nat /\ MaxRetries \in Nat
    BY GenerationAssumption, StructuringAssumption, VariantsAreFinite
  <2>2. /\ RepliesLeft \in 0..whole /\ CallsLeft \in 0..(5 * (MaxRetries + 3))
        /\ PhasesLeft \in 0..6
    BY DEF Sizes
  <2>3. StepsLeft = PhasesLeft * (whole + 1) + CallsLeft + RepliesLeft
    BY DEF StepsLeft
  <2>4. PhasesLeft = 6 => RepliesLeft = 0
    BY DEF PhasesLeft, RepliesLeft, PromiseInv, OfferInv, PhaseInv
  <2> HIDE DEF whole
  <2>5. PhasesLeft \in {0, 1, 2, 3, 4, 5, 6}
    BY <2>2
  <2>6. QED
    BY <2>1, <2>2, <2>3, <2>4, <2>5 DEF StepsAreBounded, whole
<1>5. I /\ Sizes /\ Sizes' /\ [RequestNext]_allVars => [StepsLeft' < StepsLeft]_allVars
  <2> SUFFICES ASSUME I, Sizes, Sizes', RequestNext PROVE StepsLeft' < StepsLeft
    OBVIOUS
  <2>1. ASSUME PhasesLeft' < PhasesLeft, UNCHANGED vars PROVE StepsLeft' < StepsLeft
    BY <2>1, PhaseAdvances
  <2>2. /\ PhasesLeft * (MaxAttempts * AttemptSteps + 1) \in Nat
        /\ CallsLeft \in Int /\ CallsLeft' \in Int /\ RepliesLeft \in Int /\ RepliesLeft' \in Int
    <3>1. MaxAttempts * AttemptSteps \in Nat /\ MaxRetries \in Nat
      BY GenerationAssumption, StructuringAssumption, VariantsAreFinite
    <3>2. Sizes'
      OBVIOUS
    <3>3. RepliesLeft' \in Int /\ CallsLeft' \in Int
      BY <3>2, <3>1 DEF Sizes
    <3>4. RepliesLeft \in Int /\ CallsLeft \in Int /\ PhasesLeft \in Nat
      BY <3>1 DEF Sizes
    <3>5. QED
      BY <3>1, <3>3, <3>4
  <2>3. CASE Structure
    <3>1. stage # "done" /\ CallsLeft' < CallsLeft
      <4>1. Next => stage # "done"
        BY AfterFacts DEF Next, Complete, Accept, Refuse, NonRetryable, Unserved,
           Restructure, Skip, Wants, StagesInv, CallInv, SqlInv
      <4>2. QED
        BY <2>3, <4>1, StructuringAdvances DEF Structure
    <3>2. PhasesLeft' = PhasesLeft /\ RepliesLeft' = RepliesLeft
      BY <2>3 DEF Structure, requestVars, genVars, PhasesLeft, RepliesLeft
    <3>3. QED
      BY <2>2, <3>1, <3>2 DEF StepsLeft
  <2>4. CASE GenerateMessages
    <3>1. RepliesLeft' < RepliesLeft
      BY <2>4, GenerationAdvances DEF GenerateMessages
    <3>2. PhasesLeft' = PhasesLeft /\ CallsLeft' = CallsLeft
      BY <2>4 DEF GenerateMessages, requestVars, vars, PhasesLeft, CallsLeft, StagesAfter
    <3>3. QED
      BY <2>2, <3>1, <3>2 DEF StepsLeft
  <2>5. CASE Unavailable \/ RaiseInRetrieve \/ RaiseAfterRetrieve
    <3>1. phase \in {"retrieve", "context", "messages", "execute", "refresh", "refreshed"}
          /\ phase' = "done" /\ UNCHANGED vars
      BY <2>5 DEF Unavailable, RaiseInRetrieve, RaiseAfterRetrieve
    <3>2. QED
      BY <2>1, <3>1 DEF PhasesLeft
  <2>6. CASE BuildSql \/ OpenMessages \/ Retrieved \/ Refresh \/ Respond
    <3>1. /\ UNCHANGED vars
          /\ \/ phase = "retrieve" /\ phase' = "context"
             \/ phase = "context" /\ phase' = "messages"
             \/ phase = "messages" /\ phase' = "execute"
             \/ phase = "refresh" /\ phase' = "refreshed"
             \/ phase = "refreshed" /\ phase' = "done"
      BY <2>6 DEF BuildSql, OpenMessages, Retrieved, Refresh, Respond
    <3>2. QED
      BY <2>1, <3>1 DEF PhasesLeft
  <2>7. CASE SkipExecution \/ ExecutionFails \/ \E sane \in BOOLEAN : ExecutionReturns(sane)
    <3>1. phase = "execute" /\ phase' = "refresh" /\ UNCHANGED vars
      BY <2>7 DEF SkipExecution, ExecutionFails, ExecutionReturns
    <3>2. QED
      BY <2>1, <3>1 DEF PhasesLeft
  <2>8. QED
    BY <2>3, <2>4, <2>5, <2>6, <2>7 DEF RequestNext, Step
<1>6. QED
  BY <1>1, <1>2, <1>3, <1>4, <1>5, PTL DEF RequestSpec, EveryStepCounts

(***************************************************************************)
(* What follows from the promise holds of the request.                      *)
(***************************************************************************)

LEMMA PromiseKeepsHonest ==
  Promise!Honest /\ [Promise!PromiseNext]_(Promise!promiseVars) => Promise!Honest'
BY DEF Promise!Honest, Promise!promiseVars, Promise!PromiseNext, Promise!Decide,
       Promise!Run, Promise!Offer, Promise!Answer

\* Success is answered only for SQL that shipped and was not run in vain, failure
\* only when no audience is stored; in whatever step the request fails.
THEOREM AnswersAreHonest == RequestSpec => []Promise!Honest
<1>1. Promise!PromiseInit => Promise!Honest
  BY DEF Promise!PromiseInit, Promise!Honest
<1>2. QED
  BY <1>1, PromiseKeepsHonest, RequestsKeepTheirPromise, PTL
  DEF ImplementsPromise, Promise!PromiseSpec

\* Nothing a request decided, ran, stored, offered or answered is taken back.
THEOREM NothingIsTakenBack == RequestSpec => Promise!Irrevocable
<1>1. Promise!Honest /\ [Promise!PromiseNext]_(Promise!promiseVars)
      => [Promise!Kept]_(Promise!promiseVars)
  BY DEF Promise!Honest, Promise!promiseVars, Promise!PromiseNext, Promise!Decide,
         Promise!Run, Promise!Offer, Promise!Answer, Promise!Kept
<1>2. QED
  BY <1>1, AnswersAreHonest, RequestsKeepTheirPromise, PTL
  DEF ImplementsPromise, Promise!PromiseSpec, Promise!Irrevocable
=============================================================================
