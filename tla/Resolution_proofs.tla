-------------------------- MODULE Resolution_proofs --------------------------
(***************************************************************************)
(* The clarification dialogue is well typed, never asks what it has        *)
(* decided, never loses an answer, leaves a receipt for what it settled,   *)
(* ends every call after a bounded number of steps and, with fewer issues  *)
(* than rounds, never raises its own violation.                            *)
(***************************************************************************)
EXTENDS Resolution, FiniteSetTheorems, TLAPS

------------------------------------------------------------------------------
(* Types                                                                    *)

LEMMA StructuredTypes ==
  ASSUME NEW s \in Plans
  PROVE  /\ s.expr \in Expressions /\ s.reported \subseteq Reports
         /\ s.mentions \subseteq Reports
BY PlansAssumption DEF Structured

LEMMA KindTypes == \A i \in Issues : Kind(i) \in Kinds
BY ResolutionAssumption DEF Issues, Kind, Kinds, ReportKinds

LEMMA OpenTypes ==
  ASSUME TypeOK
  PROVE  OpenIssues \subseteq Issues /\ OpenIssues \cap settled = {}
BY DEF TypeOK, OpenIssues, AmbiguousThresholds, Issues, Expressions

\* Decision DEFs never matter but for the set they select from.
LEMMA DecidedTypes ==
  \A d : Decided(d) \subseteq OpenIssues
BY DEF Decided

LEMMA PlannedTypes == \A asked : Planned(asked) \subseteq asked
BY DEF Planned

LEMMA NoPlanType ==
  ASSUME NEW s \in Plans
  PROVE  NoPlan(s) \in PlanType
BY StructuredTypes DEF NoPlan, PlanType, Endings, Statuses

LEMMA FillType ==
  ASSUME TypeOK, NEW i \in Issues, NEW by \in {"policy", "user"}, FillPeriod(i, by)
  PROVE  /\ expr' \in Expressions /\ reported' \subseteq Reports
         /\ bound' \subseteq Reports /\ receipts' \subseteq ReceiptType
         /\ gained' \subseteq Issues
<1>1. expr' \in Expressions
  BY DEF TypeOK, FillPeriod, Expressions
<1>2. [issue |-> i, by |-> by, value |-> "window"] \in ReceiptType
  BY DEF ReceiptType
<1> QED BY <1>1, <1>2 DEF TypeOK, FillPeriod

LEMMA GrainType ==
  ASSUME TypeOK, NEW i \in Issues, NEW choice \in {"row", "subject"},
         SettleGrain(i, choice)
  PROVE  /\ expr' \in Expressions /\ reported' \subseteq Reports
         /\ bound' \subseteq Reports /\ receipts' \subseteq ReceiptType
         /\ gained' \subseteq Issues
<1>1. expr' \in Expressions
  BY DEF TypeOK, SettleGrain, Expressions
<1>2. [issue |-> i, by |-> "user", value |-> choice] \in ReceiptType
  BY DEF ReceiptType
<1> QED BY <1>1, <1>2 DEF TypeOK, SettleGrain

LEMMA BindType ==
  ASSUME TypeOK, NEW i \in Reports, BindEntity(i)
  PROVE  /\ expr' \in Expressions /\ reported' \subseteq Reports
         /\ bound' \subseteq Reports /\ receipts' \subseteq ReceiptType
         /\ gained' \subseteq Issues
<1>1. [issue |-> i, by |-> "user", value |-> "text"] \in ReceiptType
  BY DEF ReceiptType, Issues
<1> QED BY <1>1 DEF TypeOK, BindEntity, Issues

\* A grain answer that fits is an option, a period has its place, and every other
\* answer is about a report.
LEMMA FitsTypes ==
  ASSUME TypeOK, NEW a \in AnswerType, Fits(a)
  PROVE  /\ a.issue \in questions
         /\ Slot(a.issue) = "comparison.grain" => a.choice \in {"row", "subject"}
         /\ Slot(a.issue) = "audience.period" => FitsPeriod(a.issue)
         /\ Slot(a.issue) \notin {"comparison.grain", "audience.period"} => a.issue \in Reports
<1>1. CASE a.issue \in Clauses
  <2>1. Slot(a.issue) = "comparison.grain" /\ Kind(a.issue) # "missing_entity_value"
    BY <1>1 DEF Slot, Kind
  <2> QED BY <2>1 DEF Fits
<1>2. CASE a.issue \in Reports
  <2>1. /\ Slot(a.issue) # "comparison.grain"
        /\ Kind(a.issue) = "missing_entity_value" => Slot(a.issue) # "audience.period"
    BY <1>2, ResolutionAssumption DEF Slot, Kind
  <2> QED BY <1>2, <2>1 DEF Fits
<1> QED BY <1>1, <1>2 DEF AnswerType, Issues

\* The two ways in which the loop ends without a decision.
NothingLeft ==
  /\ phase = "detect" /\ round <= MaxRounds /\ OpenIssues = {}
  /\ questions' = {}
  /\ Outcome("resolved")
  /\ UNCHANGED <<request, settled, pending, seen, round, todo, gained, unapplied>>

NoProgress ==
  /\ phase = "detect"
  /\ round > MaxRounds \/ (OpenIssues # {} /\ Signature \in seen)
  /\ questions' = {}
  /\ Outcome("violation")
  /\ UNCHANGED <<request, settled, pending, seen, round, todo, gained, unapplied>>

LEMMA FinishCases ==
  ASSUME TypeOK, Finish PROVE NothingLeft \/ NoProgress
<1>1. round \in Nat /\ MaxRounds \in Nat
  BY ResolutionAssumption DEF TypeOK
<1>2. CASE Raises
  BY <1>2 DEF Finish, Raises, NoProgress
<1>3. CASE ~Raises
  BY <1>1, <1>3 DEF Finish, Raises, NothingLeft
<1> QED BY <1>2, <1>3

LEMMA ProjectedType ==
  ASSUME TypeOK PROVE Projected \in PlanType
<1> DEFINE left == IF Kept THEN reported ELSE source.reported
<1>1. Ending(left) \in Endings
  BY DEF Ending, Endings
<1>2. source \in Plans /\ source.expr \in Expressions
  BY StructuredTypes DEF TypeOK
<1>3. \A e \in Expressions : [e EXCEPT !.sums = {}] \in Expressions
  BY DEF Expressions
<1> HIDE DEF left
<1> QED BY <1>1, <1>2, <1>3 DEF TypeOK, Projected, SettledGrain, PlanType, left

LEMMA MergedType ==
  ASSUME TypeOK, NEW p \in PlanType PROVE Merged(p) \in PlanType
BY DEF TypeOK, Merged, PlanType

LEMMA BeginType ==
  ASSUME NEW s \in Plans, NEW given, given \subseteq answers', answers' \subseteq AnswerType,
         Begin(s, given), policy' \in Policies, first' \in Plans,
         plan' \in PlanType, draft' \in PlanType
  PROVE  TypeOK'
BY StructuredTypes DEF TypeOK, Begin

\* The request after one decision or answer was applied.
LEMMA AppliedType ==
  ASSUME TypeOK, NEW a \in AnswerType, Fits(a),
         CASE Slot(a.issue) = "comparison.grain" -> SettleGrain(a.issue, a.choice)
           [] Slot(a.issue) = "audience.period"  -> FillPeriod(a.issue, "user")
           [] OTHER -> BindEntity(a.issue)
  PROVE  /\ expr' \in Expressions /\ reported' \subseteq Reports
         /\ bound' \subseteq Reports /\ receipts' \subseteq ReceiptType
         /\ gained' \subseteq Issues
<1>0. a.issue \in Issues
  BY DEF AnswerType
<1>1. CASE Slot(a.issue) = "comparison.grain"
  BY <1>0, <1>1, FitsTypes, GrainType
<1>2. CASE Slot(a.issue) = "audience.period"
  BY <1>0, <1>2, FillType
<1>3. CASE Slot(a.issue) \notin {"comparison.grain", "audience.period"}
  BY <1>3, FitsTypes, BindType
<1> QED BY <1>1, <1>2, <1>3, FitsTypes

LEMMA OutcomeType ==
  ASSUME TypeOK, NEW status \in Statuses, Outcome(status), questions' \subseteq Issues
  PROVE  /\ plan' \in PlanType /\ draft' \in PlanType /\ phase' = "project"
         /\ policy' \in Policies /\ first' \in Plans /\ source' \in Plans
         /\ answers' \subseteq AnswerType /\ answers' = answers
BY DEF TypeOK, Outcome, PlanType

LEMMA TypeInit == Init => TypeOK
<1> SUFFICES ASSUME Init PROVE TypeOK
  OBVIOUS
<1>1. first \in Plans
  BY DEF Init
<1> QED BY <1>1, StructuredTypes, NoPlanType DEF Init, TypeOK

LEMMA TypeStep == TypeOK /\ [Next]_vars => TypeOK'
<1> SUFFICES ASSUME TypeOK, [Next]_vars PROVE TypeOK'
  OBVIOUS
<1>1. CASE NothingLeft
  <2>1. questions' = {} /\ Outcome("resolved")
    BY <1>1 DEF NothingLeft
  <2> QED BY <1>1, <2>1, OutcomeType DEF NothingLeft, TypeOK, request, Statuses
<1>2. CASE NoProgress
  <2>1. questions' = {} /\ Outcome("violation")
    BY <1>2 DEF NoProgress
  <2> QED BY <1>2, <2>1, OutcomeType DEF NoProgress, TypeOK, request, Statuses
<1>3. CASE Unsupported
  <2>1. questions' = {} /\ Outcome("unsupported")
    BY <1>3 DEF Unsupported
  <2> QED BY <1>3, <2>1, OutcomeType DEF Unsupported, TypeOK, request, Statuses
<1>4. CASE Ask
  <2>1. questions' \subseteq Issues
    BY <1>4, OpenTypes, DecidedTypes, PlannedTypes DEF Ask, Asking
  <2>2. Outcome("needs_clarification")
    BY <1>4 DEF Ask
  <2> QED BY <1>4, <2>1, <2>2, OutcomeType DEF Ask, TypeOK, request, Statuses
<1>5. CASE StartAuto
  <2>1. todo' \subseteq Issues
    BY <1>5, OpenTypes, DecidedTypes DEF StartAuto
  <2> QED BY <1>5, <2>1 DEF StartAuto, TypeOK, request, dialogue
<1>6. CASE \E i \in todo : ApplyAuto(i)
  <2> PICK i \in todo : ApplyAuto(i)
    BY <1>6
  <2>1. i \in Issues
    BY DEF TypeOK, ApplyAuto
  <2>2. /\ expr' \in Expressions /\ reported' \subseteq Reports
        /\ bound' \subseteq Reports /\ receipts' \subseteq ReceiptType
        /\ gained' \subseteq Issues
    <3>1. CASE FitsPeriod(i)
      BY <2>1, <3>1, FillType DEF ApplyAuto
    <3>2. CASE ~FitsPeriod(i)
      BY <3>2 DEF ApplyAuto, request, TypeOK
    <3> QED BY <3>1, <3>2
  <2> QED BY <2>2 DEF ApplyAuto, TypeOK, dialogue
<1>7. CASE EndAuto
  <2>1. CASE gained = {}
    <3>1. questions' = {} /\ Outcome("violation")
      BY <1>7, <2>1 DEF EndAuto
    <3> QED BY <1>7, <2>1, <3>1, OutcomeType DEF EndAuto, TypeOK, request, Statuses
  <2>2. CASE gained # {}
    BY <1>7, <2>2 DEF EndAuto, TypeOK, request, dialogue
  <2> QED BY <2>1, <2>2
<1>8. CASE StartAnswers
  <2>1. questions' \subseteq Issues
    BY <1>8, OpenTypes, DecidedTypes, PlannedTypes DEF StartAnswers, Asking
  <2> QED BY <1>8, <2>1 DEF StartAnswers, TypeOK, request, dialogue
<1>9. CASE \E a \in todo : ApplyAnswer(a)
  <2> PICK a \in todo : ApplyAnswer(a)
    BY <1>9
  <2>1. a \in AnswerType /\ a.issue \in Issues
    BY DEF TypeOK, ApplyAnswer, AnswerType
  <2>2. /\ expr' \in Expressions /\ reported' \subseteq Reports
        /\ bound' \subseteq Reports /\ receipts' \subseteq ReceiptType
        /\ gained' \subseteq Issues /\ unapplied' \subseteq Issues
    <3>1. CASE Fits(a)
      BY <2>1, <3>1, AppliedType DEF ApplyAnswer, TypeOK
    <3>2. CASE ~Fits(a)
      BY <2>1, <3>2 DEF ApplyAnswer, request, TypeOK
    <3> QED BY <3>1, <3>2
  <2> QED BY <2>2 DEF ApplyAnswer, TypeOK, dialogue
<1>10. CASE EndAnswers
  <2>1. CASE gained = {}
    <3>1. questions' \subseteq Issues /\ Outcome("needs_clarification")
      BY <1>10, <2>1 DEF EndAnswers, TypeOK
    <3> QED BY <1>10, <2>1, <3>1, OutcomeType DEF EndAnswers, TypeOK, request, Statuses
  <2>2. CASE gained # {}
    BY <1>10, <2>2 DEF EndAnswers, TypeOK, request, dialogue
  <2> QED BY <2>1, <2>2
<1>11. CASE Project
  BY <1>11, ProjectedType DEF Project, TypeOK, request
<1>12. CASE \E s \in Plans : Realize(s)
  <2> PICK s \in Plans : Realize(s)
    BY <1>12
  <2> QED BY BeginType, NoPlanType DEF Realize, TypeOK
<1>13. CASE Adopt
  <2>1. plan' \in PlanType
    BY <1>13, ProjectedType, MergedType DEF Adopt, TypeOK
  <2> QED BY <1>13, <2>1 DEF Adopt, TypeOK, request
<1>14. CASE AnswerSome
  <2> PICK asked \in SUBSET plan.questions : \E choice \in [asked -> Choices] :
         Answer({[issue |-> i, choice |-> choice[i]] : i \in asked})
    BY <1>14 DEF AnswerSome
  <2> PICK choice \in [asked -> Choices] :
         Answer({[issue |-> i, choice |-> choice[i]] : i \in asked})
    OBVIOUS
  <2>1. {[issue |-> i, choice |-> choice[i]] : i \in asked} \subseteq AnswerType
    BY DEF TypeOK, PlanType, AnswerType
  <2>2. answers' \subseteq AnswerType
    BY <2>1 DEF Answer, TypeOK
  <2> QED BY <2>2, BeginType, NoPlanType DEF Answer, TypeOK
<1>15. CASE UNCHANGED vars
  BY <1>15 DEF vars, request, TypeOK
<1> QED
  BY <1>1, <1>2, <1>3, <1>4, <1>5, <1>6, <1>7, <1>8, <1>9, <1>10, <1>11, <1>12,
     <1>13, <1>14, <1>15, FinishCases DEF Next, Serve, Resolve, Over

\* The dialogue is well typed, for every prompt, policy and limit.
THEOREM ResolutionTypeOK == Spec => []TypeOK
BY TypeInit, TypeStep, PTL DEF Spec

------------------------------------------------------------------------------
(* Decided is not asked                                                     *)

ReceiptIssues == {q.issue : q \in receipts}

\* What has a receipt is settled, or will be at the end of the round.
IDecided ==
  /\ phase = "detect" => ReceiptIssues \subseteq settled
  /\ phase \in {"auto", "answer"} => ReceiptIssues \subseteq settled \cup gained
  /\ phase = "answer" => questions \cap settled = {}
  /\ DecidedIsNotAsked

LEMMA IssuesOfUnion ==
  ASSUME NEW S, NEW r
  PROVE  {q.issue : q \in S \cup {r}} = {q.issue : q \in S} \cup {r.issue}
OBVIOUS

\* One decision or answer applied leaves one receipt.
LEMMA FillReceipt ==
  ASSUME NEW i, NEW by, FillPeriod(i, by)
  PROVE  ReceiptIssues' = ReceiptIssues \cup {i} /\ gained' = gained \cup {i}
<1>1. receipts' = receipts \cup {[issue |-> i, by |-> by, value |-> "window"]} /\ gained' = gained \cup {i}
  BY DEF FillPeriod
<1>2. [issue |-> i, by |-> by, value |-> "window"].issue = i
  OBVIOUS
<1> QED BY <1>1, <1>2, IssuesOfUnion DEF ReceiptIssues

LEMMA GrainReceipt ==
  ASSUME NEW i, NEW choice, SettleGrain(i, choice)
  PROVE  ReceiptIssues' = ReceiptIssues \cup {i} /\ gained' = gained \cup {i}
<1>1. receipts' = receipts \cup {[issue |-> i, by |-> "user", value |-> choice]} /\ gained' = gained \cup {i}
  BY DEF SettleGrain
<1>2. [issue |-> i, by |-> "user", value |-> choice].issue = i
  OBVIOUS
<1> QED BY <1>1, <1>2, IssuesOfUnion DEF ReceiptIssues

LEMMA BindReceipt ==
  ASSUME NEW i, BindEntity(i)
  PROVE  ReceiptIssues' = ReceiptIssues \cup {i} /\ gained' = gained \cup {i}
<1>1. receipts' = receipts \cup {[issue |-> i, by |-> "user", value |-> "text"]} /\ gained' = gained \cup {i}
  BY DEF BindEntity
<1>2. [issue |-> i, by |-> "user", value |-> "text"].issue = i
  OBVIOUS
<1> QED BY <1>1, <1>2, IssuesOfUnion DEF ReceiptIssues

LEMMA AutoReceipt ==
  ASSUME NEW i \in todo, ApplyAuto(i)
  PROVE  \/ FitsPeriod(i) /\ ReceiptIssues' = ReceiptIssues \cup {i} /\ gained' = gained \cup {i}
         \/ ~FitsPeriod(i) /\ UNCHANGED <<ReceiptIssues, gained>>
<1>1. CASE FitsPeriod(i)
  BY <1>1, FillReceipt DEF ApplyAuto
<1>2. CASE ~FitsPeriod(i)
  BY <1>2 DEF ApplyAuto, request, ReceiptIssues
<1> QED BY <1>1, <1>2

LEMMA AnswerReceipt ==
  ASSUME TypeOK, NEW a \in todo, ApplyAnswer(a)
  PROVE  \/ /\ a.issue \in questions /\ UNCHANGED unapplied
            /\ ReceiptIssues' = ReceiptIssues \cup {a.issue} /\ gained' = gained \cup {a.issue}
         \/ UNCHANGED <<ReceiptIssues, gained>> /\ unapplied' = unapplied \cup {a.issue}
<1>0. a \in AnswerType
  BY DEF TypeOK, ApplyAnswer
<1>1. CASE Fits(a)
  <2>1. CASE Slot(a.issue) = "comparison.grain"
    BY <1>0, <1>1, <2>1, FitsTypes, GrainReceipt DEF ApplyAnswer
  <2>2. CASE Slot(a.issue) = "audience.period"
    BY <1>0, <1>1, <2>2, FitsTypes, FillReceipt DEF ApplyAnswer
  <2>3. CASE Slot(a.issue) \notin {"comparison.grain", "audience.period"}
    BY <1>0, <1>1, <2>3, FitsTypes, BindReceipt DEF ApplyAnswer
  <2> QED BY <1>0, <1>1, <2>1, <2>2, <2>3, FitsTypes
<1>2. CASE ~Fits(a)
  BY <1>2 DEF ApplyAnswer, request, ReceiptIssues
<1> QED BY <1>1, <1>2

\* What an outcome does to the plan.
LEMMA OutcomePlan ==
  ASSUME TypeOK, NEW status, Outcome(status)
  PROVE  /\ phase' = "project" /\ plan'.status = status /\ UNCHANGED <<answers, draft, source>>
         /\ plan'.ending = plan.ending /\ plan'.receipts = plan.receipts
         /\ plan'.questions = IF status = "needs_clarification" THEN questions' ELSE {}
BY DEF TypeOK, PlanType, Outcome

LEMMA BeginEmpty ==
  ASSUME NEW s, NEW given, Begin(s, given)
  PROVE  /\ phase' = "detect" /\ ReceiptIssues' = {} /\ settled' = {} /\ pending' = given
         /\ gained' = {} /\ seen' = {} /\ round' = 1
BY DEF Begin, ReceiptIssues

LEMMA DecidedInit == Init => IDecided
BY DEF Init, IDecided, DecidedIsNotAsked, ReceiptIssues

LEMMA DecidedStep == TypeOK /\ IDecided /\ [Next]_vars => IDecided'
<1> SUFFICES ASSUME TypeOK, IDecided, [Next]_vars PROVE IDecided'
  OBVIOUS
<1>1. CASE NothingLeft
  <2>1. Outcome("resolved")
    BY <1>1 DEF NothingLeft
  <2> QED BY <2>1, OutcomePlan DEF IDecided, DecidedIsNotAsked
<1>2. CASE NoProgress
  <2>1. Outcome("violation")
    BY <1>2 DEF NoProgress
  <2> QED BY <2>1, OutcomePlan DEF IDecided, DecidedIsNotAsked
<1>3. CASE Unsupported
  <2>1. Outcome("unsupported")
    BY <1>3 DEF Unsupported
  <2> QED BY <2>1, OutcomePlan DEF IDecided, DecidedIsNotAsked
<1>4. CASE Ask
  <2>1. Outcome("needs_clarification") /\ UNCHANGED receipts /\ phase = "detect"
    BY <1>4 DEF Ask, Asking, Deciding, request
  <2>2. questions' \cap settled = {}
    BY <1>4, OpenTypes, DecidedTypes, PlannedTypes DEF Ask, Asking
  <2> QED BY <2>1, <2>2, OutcomePlan DEF IDecided, DecidedIsNotAsked, ReceiptIssues
<1>5. CASE StartAuto
  BY <1>5 DEF StartAuto, Deciding, request, IDecided, DecidedIsNotAsked, ReceiptIssues
<1>6. CASE \E i \in todo : ApplyAuto(i)
  <2> PICK i \in todo : ApplyAuto(i)
    BY <1>6
  <2> QED BY AutoReceipt DEF ApplyAuto, IDecided, DecidedIsNotAsked
<1>7. CASE EndAuto
  <2>1. CASE gained = {}
    <3>1. Outcome("violation")
      BY <1>7, <2>1 DEF EndAuto
    <3> QED BY <3>1, OutcomePlan DEF IDecided, DecidedIsNotAsked
  <2>2. CASE gained # {}
    BY <1>7, <2>2 DEF EndAuto, request, IDecided, DecidedIsNotAsked, ReceiptIssues
  <2> QED BY <2>1, <2>2
<1>8. CASE StartAnswers
  <2>1. questions' \cap settled = {}
    BY <1>8, OpenTypes, DecidedTypes, PlannedTypes DEF StartAnswers, Asking
  <2> QED BY <1>8, <2>1 DEF StartAnswers, Asking, Deciding, request, IDecided,
                           DecidedIsNotAsked, ReceiptIssues
<1>9. CASE \E a \in todo : ApplyAnswer(a)
  <2> PICK a \in todo : ApplyAnswer(a)
    BY <1>9
  <2> QED BY AnswerReceipt DEF ApplyAnswer, IDecided, DecidedIsNotAsked
<1>10. CASE EndAnswers
  <2>1. CASE gained = {}
    <3>1. Outcome("needs_clarification") /\ UNCHANGED <<questions, receipts>>
      BY <1>10, <2>1 DEF EndAnswers, request
    <3> QED BY <1>10, <2>1, <3>1, OutcomePlan DEF EndAnswers, IDecided, DecidedIsNotAsked,
                                                  ReceiptIssues
  <2>2. CASE gained # {}
    BY <1>10, <2>2 DEF EndAnswers, request, IDecided, DecidedIsNotAsked, ReceiptIssues
  <2> QED BY <2>1, <2>2
<1>11. CASE Project
  BY <1>11 DEF Project, IDecided, DecidedIsNotAsked
<1>12. CASE \E s \in Plans : Realize(s)
  BY <1>12, BeginEmpty DEF Realize, IDecided, DecidedIsNotAsked
<1>13. CASE Adopt
  BY <1>13 DEF Adopt, IDecided, DecidedIsNotAsked
<1>14. CASE AnswerSome
  BY <1>14, BeginEmpty DEF AnswerSome, Answer, IDecided, DecidedIsNotAsked
<1>15. CASE UNCHANGED vars
  BY <1>15 DEF vars, request, IDecided, DecidedIsNotAsked, ReceiptIssues
<1> QED
  BY <1>1, <1>2, <1>3, <1>4, <1>5, <1>6, <1>7, <1>8, <1>9, <1>10, <1>11, <1>12,
     <1>13, <1>14, <1>15, FinishCases DEF Next, Serve, Resolve, Over

\* What was decided for the user, or answered by it, is never asked again in
\* the response that says so.
THEOREM ResolutionDecidedIsNotAsked == Spec => []DecidedIsNotAsked
<1>1. IDecided => DecidedIsNotAsked
  BY DEF IDecided
<1> QED BY <1>1, ResolutionTypeOK, DecidedInit, DecidedStep, PTL DEF Spec

------------------------------------------------------------------------------
(* No answer vanishes                                                       *)

\* An answer is pending or has a receipt; in an answering round a pending one
\* is still to be applied, or was applied, or is reported.
IAnswers ==
  /\ phase \in {"detect", "auto", "answer"} =>
       \A a \in answers : a \in pending \/ a.issue \in ReceiptIssues
  /\ phase \in {"auto", "answer"} => gained \subseteq ReceiptIssues
  /\ phase = "answer" =>
       \A a \in pending : a \in todo \/ a.issue \in ReceiptIssues \cup unapplied
  /\ NoAnswerVanishes

LEMMA AnswersInit == Init => IAnswers
BY DEF Init, IAnswers, NoAnswerVanishes

LEMMA AnswersStep == TypeOK /\ IAnswers /\ [Next]_vars => IAnswers'
<1> SUFFICES ASSUME TypeOK, IAnswers, [Next]_vars PROVE IAnswers'
  OBVIOUS
<1>1. CASE NothingLeft
  <2>1. Outcome("resolved")
    BY <1>1 DEF NothingLeft
  <2> QED BY <2>1, OutcomePlan DEF IAnswers, NoAnswerVanishes
<1>2. CASE NoProgress
  <2>1. Outcome("violation")
    BY <1>2 DEF NoProgress
  <2> QED BY <2>1, OutcomePlan DEF IAnswers, NoAnswerVanishes
<1>3. CASE Unsupported
  <2>1. Outcome("unsupported")
    BY <1>3 DEF Unsupported
  <2> QED BY <2>1, OutcomePlan DEF IAnswers, NoAnswerVanishes
<1>4. CASE Ask
  <2>1. Outcome("needs_clarification") /\ UNCHANGED <<receipts, unapplied>>
        /\ phase = "detect" /\ pending = {}
    BY <1>4 DEF Ask, Asking, Deciding, request
  <2> QED BY <2>1, OutcomePlan DEF IAnswers, NoAnswerVanishes, ReceiptIssues
<1>5. CASE StartAuto
  BY <1>5 DEF StartAuto, Deciding, request, dialogue, IAnswers, NoAnswerVanishes, ReceiptIssues
<1>6. CASE \E i \in todo : ApplyAuto(i)
  <2> PICK i \in todo : ApplyAuto(i)
    BY <1>6
  <2> QED BY AutoReceipt DEF ApplyAuto, dialogue, IAnswers, NoAnswerVanishes
<1>7. CASE EndAuto
  <2>1. CASE gained = {}
    <3>1. Outcome("violation")
      BY <1>7, <2>1 DEF EndAuto
    <3> QED BY <3>1, OutcomePlan DEF IAnswers, NoAnswerVanishes
  <2>2. CASE gained # {}
    BY <1>7, <2>2 DEF EndAuto, request, dialogue, IAnswers, NoAnswerVanishes, ReceiptIssues
  <2> QED BY <2>1, <2>2
<1>8. CASE StartAnswers
  BY <1>8 DEF StartAnswers, Asking, Deciding, request, dialogue, IAnswers,
              NoAnswerVanishes, ReceiptIssues
<1>9. CASE \E a \in todo : ApplyAnswer(a)
  <2> PICK a \in todo : ApplyAnswer(a)
    BY <1>9
  <2> QED BY AnswerReceipt DEF ApplyAnswer, dialogue, IAnswers, NoAnswerVanishes
<1>10. CASE EndAnswers
  <2>1. CASE gained = {}
    <3>1. Outcome("needs_clarification") /\ UNCHANGED <<unapplied, receipts>>
      BY <1>10, <2>1 DEF EndAnswers, request
    <3>2. \A a \in answers : a.issue \in ReceiptIssues \cup unapplied
      BY <1>10 DEF EndAnswers, IAnswers
    <3> QED BY <3>1, <3>2, OutcomePlan DEF IAnswers, NoAnswerVanishes, ReceiptIssues
  <2>2. CASE gained # {}
    BY <1>10, <2>2 DEF EndAnswers, request, dialogue, IAnswers, NoAnswerVanishes, ReceiptIssues
  <2> QED BY <2>1, <2>2
<1>11. CASE Project
  BY <1>11 DEF Project, IAnswers, NoAnswerVanishes
<1>12. CASE \E s \in Plans : Realize(s)
  BY <1>12, BeginEmpty DEF Realize, IAnswers, NoAnswerVanishes
<1>13. CASE Adopt
  BY <1>13 DEF Adopt, IAnswers, NoAnswerVanishes
<1>14. CASE AnswerSome
  BY <1>14, BeginEmpty DEF AnswerSome, Answer, IAnswers, NoAnswerVanishes
<1>15. CASE UNCHANGED vars
  BY <1>15 DEF vars, request, IAnswers, NoAnswerVanishes, ReceiptIssues
<1> QED
  BY <1>1, <1>2, <1>3, <1>4, <1>5, <1>6, <1>7, <1>8, <1>9, <1>10, <1>11, <1>12,
     <1>13, <1>14, <1>15, FinishCases DEF Next, Serve, Resolve, Over

\* When the response asks, every answer of the request has its receipt or is
\* reported as not applied.
THEOREM ResolutionNoAnswerVanishes == Spec => []NoAnswerVanishes
<1>1. IAnswers => NoAnswerVanishes
  BY DEF IAnswers
<1> QED BY <1>1, ResolutionTypeOK, AnswersInit, AnswersStep, PTL DEF Spec

------------------------------------------------------------------------------
(* The violation is never raised                                            *)

\* Every round settles issues the rounds before it had not settled, and what
\* was decided for the user can be applied until the first of it is.
IProgress ==
  /\ NeverRaised /\ draft.status # "violation"
  /\ round <= Cardinality(settled) + 1
  /\ \A s \in seen : s[4] \subseteq settled
  /\ phase = "detect" => \A s \in seen : s[4] # settled
  /\ phase = "auto" =>
       /\ (todo \cup gained) \cap settled = {}
       /\ gained = {} => todo # {} /\ \A i \in todo : FitsPeriod(i)
  /\ phase = "answer" => questions \cap settled = {} /\ gained \subseteq questions

LEMMA IssuesFinite ==
  ASSUME NEW S \in SUBSET Issues
  PROVE  IsFiniteSet(S) /\ Cardinality(S) \in Nat /\ Cardinality(S) <= Cardinality(Issues)
BY ResolutionAssumption, FS_Subset, FS_CardinalityType

LEMMA SettledGrows ==
  ASSUME NEW S \in SUBSET Issues, NEW G \in SUBSET Issues, G # {}, G \cap S = {}
  PROVE  Cardinality(S \cup G) >= Cardinality(S) + 1
<1>1. IsFiniteSet(S \cup G) /\ S \subseteq S \cup G /\ S # S \cup G
  BY IssuesFinite
<1>2. Cardinality(S) <= Cardinality(S \cup G) /\ Cardinality(S) # Cardinality(S \cup G)
  BY <1>1, FS_Subset
<1> QED BY <1>2, IssuesFinite

\* With open issues, not all are settled.
LEMMA RoomLeft ==
  ASSUME TypeOK, OpenIssues # {}
  PROVE  Cardinality(settled) < Cardinality(Issues)
<1>1. settled \subseteq Issues /\ settled # Issues
  BY OpenTypes DEF TypeOK
<1>2. Cardinality(settled) <= Cardinality(Issues) /\ Cardinality(settled) # Cardinality(Issues)
  BY <1>1, ResolutionAssumption, FS_Subset
<1> QED BY <1>1, <1>2, IssuesFinite, ResolutionAssumption, FS_CardinalityType

LEMMA Guarded ==
  ASSUME TypeOK, IProgress, Cardinality(Issues) < MaxRounds, phase = "detect"
  PROVE  round <= MaxRounds /\ Signature \notin seen
<1>1. Signature[4] = settled
  BY DEF Signature
<1>2. Cardinality(settled) \in Nat /\ Cardinality(settled) <= Cardinality(Issues)
      /\ Cardinality(Issues) \in Nat /\ MaxRounds \in Nat /\ round \in Nat
  BY IssuesFinite, ResolutionAssumption DEF TypeOK
<1>3. round <= Cardinality(settled) + 1
  BY DEF IProgress
<1>4. round <= MaxRounds
  BY <1>2, <1>3
<1> QED BY <1>1, <1>4 DEF IProgress

LEMMA ProgressInit == Init => IProgress
<1>1. Cardinality({}) = 0
  BY FS_EmptySet
<1> QED BY <1>1 DEF Init, IProgress, NeverRaised, NoPlan

LEMMA ProgressStep ==
  ASSUME Cardinality(Issues) < MaxRounds
  PROVE  TypeOK /\ IProgress /\ [Next]_vars => IProgress'
<1> SUFFICES ASSUME TypeOK, IProgress, [Next]_vars PROVE IProgress'
  OBVIOUS
<1>0. OpenIssues \cap settled = {} /\ \A d : Decided(d) \cap settled = {}
  BY OpenTypes, DecidedTypes
<1>a. ASSUME Deciding
      PROVE  /\ phase = "detect"
             /\ \A s \in seen' : s[4] \subseteq settled
  BY <1>a DEF Deciding, Signature, IProgress
<1>1. CASE NothingLeft
  <2>1. Outcome("resolved")
    BY <1>1 DEF NothingLeft
  <2> QED BY <1>1, <2>1, OutcomePlan DEF NothingLeft, IProgress, NeverRaised
<1>2. CASE NoProgress
  <2>1. round <= MaxRounds /\ Signature \notin seen
    BY <1>2, Guarded DEF NoProgress
  <2>2. round \in Nat /\ MaxRounds \in Nat
    BY ResolutionAssumption DEF TypeOK
  <2>3. ~(round > MaxRounds)
    BY <2>1, <2>2
  <2> QED BY <1>2, <2>1, <2>3 DEF NoProgress
<1>3. CASE Unsupported
  <2>1. Outcome("unsupported")
    BY <1>3 DEF Unsupported
  <2> QED BY <1>3, <1>a, <2>1, OutcomePlan DEF Unsupported, IProgress, NeverRaised
<1>4. CASE Ask
  <2>1. Outcome("needs_clarification")
    BY <1>4 DEF Ask
  <2> QED BY <1>4, <1>a, <2>1, OutcomePlan DEF Ask, Asking, IProgress, NeverRaised
<1>5. CASE StartAuto
  <2>1. Deciding /\ phase' = "auto" /\ gained' = {} /\ todo' = Decided("auto_resolve")
        /\ UNCHANGED <<plan, draft, round, settled>>
    BY <1>5 DEF StartAuto, dialogue
  <2>2. todo' # {} /\ todo' \cap settled = {}
    BY <1>5, <1>0 DEF StartAuto
  <2>3. \A i \in todo' : FitsPeriod(i)
    BY <2>1 DEF Decided, Decision
  <2>4. \A i : FitsPeriod(i)' <=> FitsPeriod(i)
    BY <1>5 DEF StartAuto, request, FitsPeriod, PeriodTargets
  <2> QED BY <1>a, <2>1, <2>2, <2>3, <2>4 DEF IProgress, NeverRaised
<1>6. CASE \E i \in todo : ApplyAuto(i)
  <2> PICK i \in todo : ApplyAuto(i)
    BY <1>6
  <2>1. phase = "auto" /\ UNCHANGED <<plan, draft, round, settled, seen, phase>>
        /\ todo' = todo \ {i}
    BY DEF ApplyAuto, dialogue
  <2>2. CASE gained = {}
    <3>1. FitsPeriod(i)
      BY <2>1, <2>2 DEF IProgress
    <3> QED BY <2>1, <2>2, <3>1, AutoReceipt DEF IProgress, NeverRaised
  <2>3. CASE gained # {}
    BY <2>1, <2>3, AutoReceipt DEF IProgress, NeverRaised
  <2> QED BY <2>2, <2>3
<1>b. ASSUME phase \in {"auto", "answer"}, gained # {},
             settled' = settled \cup gained, round' = round + 1, phase' = "detect",
             UNCHANGED <<plan, draft, seen>>
      PROVE  IProgress'
  <2>1. gained \cap settled = {} /\ gained \subseteq Issues /\ settled \subseteq Issues
    BY <1>b DEF IProgress, TypeOK
  <2>2. Cardinality(settled \cup gained) >= Cardinality(settled) + 1
    BY <1>b, <2>1, SettledGrows
  <2>3. round' <= Cardinality(settled') + 1
    BY <1>b, <2>1, <2>2, IssuesFinite DEF IProgress, TypeOK
  <2>4. \A s \in seen' : s[4] \subseteq settled' /\ s[4] # settled'
    BY <1>b, <2>1 DEF IProgress
  <2> QED BY <1>b, <2>3, <2>4 DEF IProgress, NeverRaised
<1>7. CASE EndAuto
  BY <1>7, <1>b DEF EndAuto, IProgress, dialogue
<1>8. CASE StartAnswers
  <2>1. Deciding /\ phase' = "answer" /\ gained' = {}
        /\ UNCHANGED <<plan, draft, round, settled>>
    BY <1>8 DEF StartAnswers, Asking, dialogue
  <2>2. questions' \cap settled = {}
    BY <1>8, <1>0, PlannedTypes DEF StartAnswers, Asking
  <2> QED BY <1>a, <2>1, <2>2 DEF IProgress, NeverRaised
<1>9. CASE \E a \in todo : ApplyAnswer(a)
  <2> PICK a \in todo : ApplyAnswer(a)
    BY <1>9
  <2> QED BY AnswerReceipt DEF ApplyAnswer, dialogue, IProgress, NeverRaised
<1>10. CASE EndAnswers
  <2>1. CASE gained = {}
    <3>1. Outcome("needs_clarification")
      BY <1>10, <2>1 DEF EndAnswers
    <3> QED BY <1>10, <2>1, <3>1, OutcomePlan DEF EndAnswers, IProgress, NeverRaised
  <2>2. CASE gained # {}
    BY <1>10, <1>b, <2>2 DEF EndAnswers, dialogue
  <2> QED BY <2>1, <2>2
<1>11. CASE Project
  <2>1. Projected.status = plan.status
    BY DEF Projected, SettledGrain, TypeOK, PlanType
  <2> QED BY <1>11, <2>1 DEF Project, IProgress, NeverRaised
<1>c. ASSUME NEW s, NEW given, Begin(s, given), plan'.status # "violation",
             draft'.status # "violation"
      PROVE  IProgress'
  <2>1. Cardinality({}) = 0
    BY FS_EmptySet
  <2> QED BY <1>c, <2>1, BeginEmpty DEF IProgress, NeverRaised
<1>12. CASE \E s \in Plans : Realize(s)
  BY <1>12, <1>c DEF Realize, NoPlan, IProgress, NeverRaised
<1>13. CASE Adopt
  <2>1. Projected.status = plan.status /\ Projected \in PlanType
    BY ProjectedType DEF Projected, TypeOK, PlanType
  <2>2. Merged(Projected).status = plan.status
    BY <2>1 DEF Merged, PlanType
  <2> QED BY <1>13, <2>1, <2>2 DEF Adopt, IProgress, NeverRaised
<1>14. CASE AnswerSome
  BY <1>14, <1>c DEF AnswerSome, Answer, NoPlan
<1>15. CASE UNCHANGED vars
  <2>1. \A i : FitsPeriod(i)' <=> FitsPeriod(i)
    BY <1>15 DEF vars, request, FitsPeriod, PeriodTargets
  <2> QED BY <1>15, <2>1 DEF vars, request, IProgress, NeverRaised
<1> QED
  BY <1>1, <1>2, <1>3, <1>4, <1>5, <1>6, <1>7, <1>8, <1>9, <1>10, <1>11, <1>12,
     <1>13, <1>14, <1>15, FinishCases DEF Next, Serve, Resolve, Over

\* When there are fewer issues than rounds, ResolutionInvariantViolation is
\* never raised: no round repeats an earlier one, and no promise of the policy
\* is one the appliers cannot keep.
THEOREM ResolutionNeverRaised ==
  ASSUME Cardinality(Issues) < MaxRounds
  PROVE  Spec => []NeverRaised
<1>1. IProgress => NeverRaised
  BY DEF IProgress
<1> QED BY <1>1, ResolutionTypeOK, ProgressInit, ProgressStep, PTL DEF Spec

------------------------------------------------------------------------------
(* SQL has its receipts                                                     *)

Windowed(rs) == {q.issue : q \in {x \in rs : x.value = "window"}}
Filled == source.expr.bare \ expr.bare

HasReceipts(p) ==
  p.ending = "sql" =>
    /\ \A r \in p.source.reported : \E q \in p.receipts : q.issue = r
    /\ Cardinality(p.source.expr.bare \ p.expr.bare) <= Cardinality(Windowed(p.receipts))

\* A report that is gone has a receipt; so has every window, each its own: an
\* issue is settled once, and its period goes to one place.
IReceipts ==
  /\ phase \in {"detect", "auto", "answer", "project"} =>
       /\ source.reported \ reported \subseteq ReceiptIssues
       /\ expr.bare \subseteq source.expr.bare
       /\ Cardinality(Filled) <= Cardinality(Windowed(receipts))
  /\ phase = "auto" => todo \cap (settled \cup gained) = {}
  /\ \A a, b \in answers : a.issue = b.issue => a = b
  /\ phase = "answer" => \A a \in todo : a.issue \notin gained
  /\ HasReceipts(plan) /\ HasReceipts(draft)
  /\ phase \notin {"realize", "reply"} => plan.ending = "none"

LEMMA WindowedFinite ==
  ASSUME NEW rs \in SUBSET ReceiptType
  PROVE  Windowed(rs) \subseteq Issues /\ Cardinality(Windowed(rs)) \in Nat
<1>1. Windowed(rs) \subseteq Issues
  BY DEF Windowed, ReceiptType
<1> QED BY <1>1, IssuesFinite

LEMMA MoreReceipts ==
  ASSUME NEW rs \in SUBSET ReceiptType, NEW qs \in SUBSET ReceiptType, rs \subseteq qs
  PROVE  Cardinality(Windowed(rs)) <= Cardinality(Windowed(qs))
<1>1. Windowed(rs) \subseteq Windowed(qs)
  BY DEF Windowed
<1>2. IsFiniteSet(Windowed(qs))
  BY WindowedFinite, IssuesFinite
<1> QED BY <1>1, <1>2, FS_Subset

LEMMA BareFinite ==
  ASSUME TypeOK
  PROVE  /\ IsFiniteSet(expr.bare) /\ IsFiniteSet(source.expr.bare)
         /\ IsFiniteSet(Filled) /\ Cardinality(Filled) \in Nat
<1>1. expr.bare \subseteq Issues /\ source.expr.bare \subseteq Issues
  BY StructuredTypes DEF TypeOK, Expressions, Issues
<1>2. Filled \subseteq Issues
  BY <1>1 DEF Filled
<1> QED BY <1>1, <1>2, IssuesFinite

\* A period that fits fills one place and leaves one receipt of its own.
LEMMA FillOne ==
  ASSUME TypeOK, IDecided, IReceipts, NEW i \in Issues, NEW by \in {"policy", "user"},
         phase \in {"auto", "answer"}, i \notin settled, i \notin gained,
         FitsPeriod(i), FillPeriod(i, by), UNCHANGED source
  PROVE  /\ expr'.bare \subseteq source.expr.bare
         /\ Cardinality(Filled') <= Cardinality(Windowed(receipts'))
<1> DEFINE r == [issue |-> i, by |-> by, value |-> "window"]
<1>1. PICK c : PeriodTargets(i) = {c}
  <2>1. IsFiniteSet(PeriodTargets(i))
    BY BareFinite, FS_Subset DEF PeriodTargets
  <2> QED BY <2>1, FS_Singleton DEF FitsPeriod
<1>2. c \in expr.bare
  BY <1>1 DEF PeriodTargets
<1>3. expr'.bare = expr.bare \ {c}
  BY <1>1 DEF FillPeriod, TypeOK, Expressions
<1>4. expr.bare \subseteq source.expr.bare
      /\ Cardinality(Filled) <= Cardinality(Windowed(receipts))
  BY DEF IReceipts
<1>5. Filled' = Filled \cup {c} /\ c \notin Filled
  BY <1>2, <1>3, <1>4 DEF Filled
<1>6. Cardinality(Filled') = Cardinality(Filled) + 1
  BY <1>5, BareFinite, FS_AddElement
<1>7. i \notin Windowed(receipts)
  BY DEF IDecided, ReceiptIssues, Windowed
<1>8. receipts' = receipts \cup {r} /\ r.issue = i /\ r.value = "window"
  BY DEF FillPeriod
<1>9. Windowed(receipts') = Windowed(receipts) \cup {i}
  <2> HIDE DEF r
  <2> QED BY <1>8 DEF Windowed
<1>10. Cardinality(Windowed(receipts')) = Cardinality(Windowed(receipts)) + 1
  <2>1. IsFiniteSet(Windowed(receipts))
    BY WindowedFinite, IssuesFinite DEF TypeOK
  <2> QED BY <2>1, <1>7, <1>9, FS_AddElement
<1>11. Cardinality(Windowed(receipts)) \in Nat
  BY WindowedFinite DEF TypeOK
<1> QED BY <1>2, <1>3, <1>4, <1>6, <1>10, <1>11, BareFinite

LEMMA OneGap ==
  ASSUME NEW i, source.reported \ reported \subseteq ReceiptIssues, UNCHANGED source,
         ReceiptIssues' = ReceiptIssues \cup {i}, reported' = reported \ {i} \/ reported' = reported
  PROVE  source'.reported \ reported' \subseteq ReceiptIssues'
OBVIOUS

\* Receipts for what an applied answer took away.
LEMMA AppliedHasReceipt ==
  ASSUME TypeOK, IDecided, IReceipts, NEW a \in todo, ApplyAnswer(a)
  PROVE  /\ source'.reported \ reported' \subseteq ReceiptIssues'
         /\ expr'.bare \subseteq source'.expr.bare
         /\ Cardinality(Filled') <= Cardinality(Windowed(receipts'))
<1>0. /\ a \in AnswerType /\ a.issue \in Issues /\ phase = "answer" /\ UNCHANGED source
      /\ a.issue \notin gained /\ source.reported \ reported \subseteq ReceiptIssues
      /\ expr.bare \subseteq source.expr.bare
      /\ Cardinality(Filled) <= Cardinality(Windowed(receipts))
  BY DEF TypeOK, ApplyAnswer, AnswerType, IReceipts, dialogue
<1>1. CASE Fits(a)
  <2>0. a.issue \notin settled
    BY <1>0, <1>1, FitsTypes DEF IDecided
  <2>a. ASSUME UNCHANGED expr, receipts \subseteq receipts'
        PROVE  /\ expr'.bare \subseteq source'.expr.bare
               /\ Cardinality(Filled') <= Cardinality(Windowed(receipts'))
    <3>1. receipts' \subseteq ReceiptType /\ receipts \subseteq ReceiptType
      BY <1>0, <1>1, AppliedType DEF ApplyAnswer, TypeOK
    <3>2. Cardinality(Windowed(receipts)) <= Cardinality(Windowed(receipts'))
      BY <2>a, <3>1, MoreReceipts
    <3>3. Filled' = Filled
      BY <2>a, <1>0 DEF Filled
    <3> QED BY <2>a, <1>0, <3>1, <3>2, <3>3, WindowedFinite, BareFinite
  <2>1. CASE Slot(a.issue) = "comparison.grain"
    <3>1. SettleGrain(a.issue, a.choice) /\ a.choice \in {"row", "subject"}
      BY <1>0, <1>1, <2>1, FitsTypes DEF ApplyAnswer
    <3>2. expr'.bare = expr.bare /\ UNCHANGED reported /\ receipts \subseteq receipts'
      BY <3>1 DEF SettleGrain, TypeOK, Expressions
    <3>3. receipts' \subseteq ReceiptType /\ receipts \subseteq ReceiptType
      BY <1>0, <1>1, AppliedType DEF ApplyAnswer, TypeOK
    <3>4. Cardinality(Windowed(receipts)) <= Cardinality(Windowed(receipts'))
      BY <3>2, <3>3, MoreReceipts
    <3>5. Filled' = Filled
      BY <3>2, <1>0 DEF Filled
    <3> QED BY <1>0, <3>1, <3>2, <3>3, <3>4, <3>5, GrainReceipt, OneGap, WindowedFinite, BareFinite
  <2>2. CASE Slot(a.issue) = "audience.period"
    <3>1. FillPeriod(a.issue, "user") /\ FitsPeriod(a.issue)
      BY <1>0, <1>1, <2>2, FitsTypes DEF ApplyAnswer
    <3>2. reported' = reported \ {a.issue}
      BY <3>1 DEF FillPeriod
    <3> QED BY <1>0, <2>0, <3>1, <3>2, FillOne, FillReceipt, OneGap
  <2>3. CASE Slot(a.issue) \notin {"comparison.grain", "audience.period"}
    <3>1. BindEntity(a.issue)
      BY <1>0, <1>1, <2>3, FitsTypes DEF ApplyAnswer
    <3>2. UNCHANGED expr /\ reported' = reported \ {a.issue} /\ receipts \subseteq receipts'
      BY <3>1 DEF BindEntity
    <3> QED BY <1>0, <2>a, <3>1, <3>2, BindReceipt, OneGap
  <2> QED BY <1>0, <1>1, <2>1, <2>2, <2>3, FitsTypes
<1>2. CASE ~Fits(a)
  BY <1>0, <1>2 DEF ApplyAnswer, request, ReceiptIssues, Filled
<1> QED BY <1>1, <1>2

\* Projection closes a plan whose reports are still open.
LEMMA ProjectedHasReceipts ==
  ASSUME TypeOK, IReceipts, phase = "project"
  PROVE  HasReceipts(Projected)
<1> SUFFICES ASSUME Projected.ending = "sql" PROVE HasReceipts(Projected)
  BY DEF HasReceipts
<1>0. /\ Projected.source = source
      /\ Projected.expr.bare = IF Kept THEN expr.bare ELSE source.expr.bare
      /\ Projected.receipts = IF plan.status = "violation" THEN {} ELSE receipts
      /\ Projected.ending = Ending(IF Kept THEN reported ELSE source.reported)
  <2>1. source.expr \in Expressions /\ expr \in Expressions
    BY StructuredTypes DEF TypeOK
  <2> QED BY <2>1 DEF Projected, SettledGrain, TypeOK, PlanType, Expressions
<1>1. (IF Kept THEN reported ELSE source.reported) = {}
  BY <1>0 DEF Ending
<1>2. \A r \in source.reported : \E q \in Projected.receipts : q.issue = r
  BY <1>0, <1>1 DEF IReceipts, ReceiptIssues, Kept
<1>3. CASE Kept
  BY <1>0, <1>2, <1>3 DEF Kept, IReceipts, HasReceipts, Filled
<1>4. CASE ~Kept
  <2>1. Projected.source.expr.bare \ Projected.expr.bare = {}
    BY <1>0, <1>4
  <2>2. Projected.receipts \subseteq ReceiptType
    BY <1>0 DEF TypeOK
  <2>3. Cardinality(Windowed(Projected.receipts)) \in Nat
    BY <2>2, WindowedFinite
  <2> QED BY <1>0, <1>2, <2>1, <2>3, FS_EmptySet DEF HasReceipts
<1> QED BY <1>3, <1>4

LEMMA MergedHasReceipts ==
  ASSUME TypeOK, NEW p \in PlanType, HasReceipts(p)
  PROVE  HasReceipts(Merged(p))
<1>1. /\ Merged(p).source = p.source /\ Merged(p).expr = p.expr
      /\ Merged(p).ending = p.ending /\ p.receipts \subseteq Merged(p).receipts
  BY DEF Merged, PlanType
<1>2. p.receipts \subseteq ReceiptType /\ Merged(p).receipts \subseteq ReceiptType
  BY MergedType DEF PlanType
<1>3. Cardinality(Windowed(p.receipts)) <= Cardinality(Windowed(Merged(p).receipts))
  BY <1>1, <1>2, MoreReceipts
<1>4. Cardinality(Windowed(p.receipts)) \in Nat /\ Cardinality(Windowed(Merged(p).receipts)) \in Nat
  BY <1>2, WindowedFinite
<1>5. Cardinality(p.source.expr.bare \ p.expr.bare) \in Nat
  <2>1. p.source.expr.bare \ p.expr.bare \subseteq Issues
    BY StructuredTypes DEF PlanType, Expressions, Issues
  <2> QED BY <2>1, IssuesFinite
<1> QED BY <1>1, <1>3, <1>4, <1>5 DEF HasReceipts

LEMMA BeginReceipts ==
  ASSUME NEW s \in Plans, NEW given, Begin(s, given)
  PROVE  /\ source'.reported \ reported' \subseteq ReceiptIssues'
         /\ expr'.bare \subseteq source'.expr.bare
         /\ Cardinality(Filled') <= Cardinality(Windowed(receipts'))
<1>1. expr' = source'.expr /\ reported' = source'.reported /\ receipts' = {}
  BY DEF Begin
<1>2. Filled' = {} /\ Windowed(receipts') = {}
  BY <1>1 DEF Filled, Windowed
<1> QED BY <1>1, <1>2, FS_EmptySet

LEMMA ReceiptsInit == Init => IReceipts
<1> SUFFICES ASSUME Init PROVE IReceipts
  OBVIOUS
<1>1. Filled = {} /\ Windowed(receipts) = {}
  BY DEF Init, Filled, Windowed
<1> QED BY <1>1, FS_EmptySet DEF Init, IReceipts, HasReceipts, NoPlan, ReceiptIssues

LEMMA ReceiptsStep == TypeOK /\ IDecided /\ IReceipts /\ [Next]_vars => IReceipts'
<1> SUFFICES ASSUME TypeOK, IDecided, IReceipts, [Next]_vars PROVE IReceipts'
  OBVIOUS
<1>a. ASSUME NEW status, Outcome(status), phase \in {"detect", "auto", "answer"},
             UNCHANGED <<request, settled>>
      PROVE  IReceipts'
  <2>1. UNCHANGED <<ReceiptIssues, Filled, source, answers, draft, expr, reported, receipts>>
    BY <1>a, OutcomePlan DEF request, ReceiptIssues, Filled
  <2>2. phase' = "project" /\ plan'.ending = "none"
    BY <1>a, OutcomePlan DEF IReceipts
  <2> QED BY <1>a, <2>1, <2>2 DEF IReceipts, HasReceipts
<1>b. ASSUME UNCHANGED <<dialogue, request>>, phase \in {"detect", "auto", "answer"},
             phase' \in {"detect", "auto", "answer"}
      PROVE  /\ source'.reported \ reported' \subseteq ReceiptIssues'
             /\ expr'.bare \subseteq source'.expr.bare
             /\ Cardinality(Filled') <= Cardinality(Windowed(receipts'))
             /\ \A a, b \in answers' : a.issue = b.issue => a = b
             /\ HasReceipts(plan') /\ HasReceipts(draft') /\ plan'.ending = "none"
  BY <1>b DEF dialogue, request, IReceipts, ReceiptIssues, Filled
<1>1. CASE NothingLeft
  BY <1>1, <1>a DEF NothingLeft
<1>2. CASE NoProgress
  BY <1>2, <1>a DEF NoProgress
<1>3. CASE Unsupported
  BY <1>3, <1>a DEF Unsupported, Deciding
<1>4. CASE Ask
  BY <1>4, <1>a DEF Ask, Asking, Deciding
<1>5. CASE StartAuto
  <2>1. phase = "detect" /\ phase' = "auto" /\ gained' = {} /\ UNCHANGED <<dialogue, request, settled>>
    BY <1>5 DEF StartAuto, Deciding
  <2>2. todo' \cap settled = {}
    BY <1>5, OpenTypes, DecidedTypes DEF StartAuto
  <2> QED BY <1>b, <2>1, <2>2 DEF IReceipts
<1>6. CASE \E i \in todo : ApplyAuto(i)
  <2> PICK i \in todo : ApplyAuto(i)
    BY <1>6
  <2>0. /\ phase = "auto" /\ phase' = "auto" /\ todo' = todo \ {i} /\ i \in Issues
        /\ UNCHANGED <<dialogue, settled, source, plan, draft, answers>>
        /\ i \notin settled /\ i \notin gained
    BY DEF ApplyAuto, TypeOK, IReceipts, dialogue
  <2>1. CASE FitsPeriod(i)
    <3>1. FillPeriod(i, "policy")
      BY <2>1 DEF ApplyAuto
    <3>2. reported' = reported \ {i} /\ gained' = gained \cup {i}
      BY <3>1 DEF FillPeriod
    <3>3. expr'.bare \subseteq source.expr.bare
          /\ Cardinality(Filled') <= Cardinality(Windowed(receipts'))
      BY <2>0, <2>1, <3>1, FillOne
    <3>4. source'.reported \ reported' \subseteq ReceiptIssues'
      BY <2>0, <3>1, <3>2, FillReceipt, OneGap DEF IReceipts
    <3> QED BY <2>0, <3>2, <3>3, <3>4 DEF IReceipts
  <2>2. CASE ~FitsPeriod(i)
    BY <1>b, <2>0, <2>2 DEF ApplyAuto, IReceipts
  <2> QED BY <2>1, <2>2
<1>7. CASE EndAuto
  <2>1. CASE gained = {}
    BY <1>7, <1>a, <2>1 DEF EndAuto
  <2>2. CASE gained # {}
    BY <1>7, <1>b, <2>2 DEF EndAuto, IReceipts
  <2> QED BY <2>1, <2>2
<1>8. CASE StartAnswers
  <2>1. phase = "detect" /\ phase' = "answer" /\ gained' = {} /\ UNCHANGED <<dialogue, request>>
    BY <1>8 DEF StartAnswers, Asking, Deciding
  <2> QED BY <1>b, <2>1 DEF IReceipts
<1>9. CASE \E a \in todo : ApplyAnswer(a)
  <2> PICK a \in todo : ApplyAnswer(a)
    BY <1>9
  <2>0. /\ phase = "answer" /\ phase' = "answer" /\ todo' = todo \ {a}
        /\ UNCHANGED <<dialogue, settled, source, plan, draft, answers>>
        /\ todo \subseteq answers
    BY DEF ApplyAnswer, TypeOK, dialogue
  <2>1. \A b \in todo' : b.issue \notin gained'
    <3>1. gained' \subseteq gained \cup {a.issue}
      BY AnswerReceipt
    <3>2. \A b \in todo' : b.issue # a.issue /\ b.issue \notin gained
      BY <2>0 DEF IReceipts
    <3> QED BY <3>1, <3>2
  <2> QED BY <2>0, <2>1, AppliedHasReceipt DEF IReceipts
<1>10. CASE EndAnswers
  <2>1. CASE gained = {}
    BY <1>10, <1>a, <2>1 DEF EndAnswers
  <2>2. CASE gained # {}
    BY <1>10, <1>b, <2>2 DEF EndAnswers, IReceipts
  <2> QED BY <2>1, <2>2
<1>11. CASE Project
  <2>1. phase = "project" /\ phase' \in {"realize", "reply"} /\ plan' = Projected
        /\ UNCHANGED <<answers, draft>>
    BY <1>11 DEF Project
  <2> QED BY <2>1, ProjectedHasReceipts DEF IReceipts
<1>12. CASE \E s \in Plans : Realize(s)
  <2> PICK s \in Plans : Realize(s)
    BY <1>12
  <2>1. /\ phase' = "detect" /\ Begin(s, answers) /\ draft' = plan /\ plan'.ending = "none"
        /\ UNCHANGED answers
    BY BeginEmpty DEF Realize, NoPlan
  <2> QED BY <2>1, BeginReceipts DEF IReceipts, HasReceipts
<1>13. CASE Adopt
  <2>1. HasReceipts(Projected) /\ HasReceipts(Merged(Projected))
    BY <1>13, ProjectedHasReceipts, ProjectedType, MergedHasReceipts DEF Adopt
  <2> QED BY <1>13, <2>1 DEF Adopt, IReceipts
<1>14. CASE AnswerSome
  <2> PICK asked \in SUBSET plan.questions : \E choice \in [asked -> Choices] :
         Answer({[issue |-> i, choice |-> choice[i]] : i \in asked})
    BY <1>14 DEF AnswerSome
  <2> PICK choice \in [asked -> Choices] :
         Answer({[issue |-> i, choice |-> choice[i]] : i \in asked})
    OBVIOUS
  <2> DEFINE given == {[issue |-> i, choice |-> choice[i]] : i \in asked}
  <2>1. \A a, b \in given : a.issue = b.issue => a = b
    OBVIOUS
  <2>2. answers' = {a \in answers : \A b \in given : a.issue # b.issue} \cup given
    BY DEF Answer
  <2>3. \A a, b \in answers' : a.issue = b.issue => a = b
    <3> HIDE DEF given
    <3> QED BY <2>1, <2>2 DEF IReceipts
  <2>4. /\ phase' = "detect" /\ Begin(first, answers')
        /\ plan'.ending = "none" /\ draft'.ending = "none"
    BY BeginEmpty DEF Answer, NoPlan
  <2> QED BY <2>3, <2>4, BeginReceipts DEF IReceipts, HasReceipts, TypeOK
<1>15. CASE UNCHANGED vars
  BY <1>15 DEF vars, request, IReceipts, ReceiptIssues, Filled
<1> QED
  BY <1>1, <1>2, <1>3, <1>4, <1>5, <1>6, <1>7, <1>8, <1>9, <1>10, <1>11, <1>12,
     <1>13, <1>14, <1>15, FinishCases DEF Next, Serve, Resolve, Over

\* A plan that goes on to SQL has a receipt for every deficit its structuring
\* reported and for every time window the resolution added.
THEOREM ResolutionSqlHasItsReceipts == Spec => []SqlHasItsReceipts
<1>1. IReceipts => SqlHasItsReceipts
  BY DEF IReceipts, HasReceipts, SqlHasItsReceipts, Windowed
<1> QED BY <1>1, ResolutionTypeOK, DecidedInit, DecidedStep, ReceiptsInit, ReceiptsStep,
           PTL DEF Spec

------------------------------------------------------------------------------
(* One request ends after a bounded number of steps                         *)

\* A round starts, applies each decision or answer once, and ends.
RoundSteps == Cardinality(Issues) + Cardinality(AnswerType) + 2

\* One structuring: rounds, and at most one end in a plan.
Structuring == (MaxRounds + 1) * RoundSteps + 3

RoundsLeft == (MaxRounds + 1 - round) * RoundSteps

ResolveLeft ==
  CASE phase = "detect"             -> RoundsLeft + RoundSteps + 3
    [] phase \in {"auto", "answer"} -> RoundsLeft + Cardinality(todo) + 4
    [] phase = "project"            -> 2
    [] phase = "realize"            -> 1
    [] OTHER                        -> 0

\* The prompt is structured a second time at most.
ServeLeft == (IF draft.ending = "none" THEN Structuring + 1 ELSE 0) + ResolveLeft

\* Every step of the handler leaves fewer of at most 2 * Structuring + 1 steps,
\* whatever is reported, answered and structured: neither the rounds of the
\* resolution, nor what they apply, nor the second structuring repeats for ever.
ServeIsBounded == ServeLeft \in 0..(2 * Structuring + 1)
EveryServeStepCounts == [][Serve => ServeLeft' < ServeLeft]_vars

LEMMA AnswersFinite == IsFiniteSet(AnswerType) /\ Cardinality(AnswerType) \in Nat
<1> DEFINE f == [a \in AnswerType |-> <<a.issue, a.choice>>]
<1>1. IsFiniteSet(Choices)
  <2>1. \A x : IsFiniteSet({x})
    BY FS_Singleton
  <2>2. IsFiniteSet({"row"} \cup {"subject"}) /\ IsFiniteSet({"text"} \cup {"unreadable"})
    BY <2>1, FS_Union
  <2>3. Choices = ({"row"} \cup {"subject"}) \cup ({"text"} \cup {"unreadable"})
    BY DEF Choices
  <2> QED BY <2>2, <2>3, FS_Union
<1>2. IsFiniteSet(Issues \X Choices)
  BY <1>1, ResolutionAssumption, FS_Product
<1>3. f \in Injection(AnswerType, Issues \X Choices)
  <2>1. f \in [AnswerType -> Issues \X Choices]
    BY DEF AnswerType
  <2>2. ASSUME NEW a \in AnswerType, NEW b \in AnswerType, f[a] = f[b] PROVE a = b
    <3>1. a.issue = b.issue /\ a.choice = b.choice
      BY <2>2
    <3> QED BY <3>1 DEF AnswerType
  <2>3. \A a, b \in AnswerType : f[a] = f[b] => a = b
    BY <2>2
  <2> HIDE DEF f
  <2> QED BY <2>1, <2>3 DEF Injection, IsInjective
<1> HIDE DEF f
<1>4. IsFiniteSet(AnswerType)
  BY <1>2, <1>3, FS_Injection
<1> QED BY <1>4, FS_CardinalityType

LEMMA TodoFinite ==
  ASSUME TypeOK, phase \in {"auto", "answer"}
  PROVE  /\ IsFiniteSet(todo) /\ Cardinality(todo) \in Nat
         /\ Cardinality(todo) <= RoundSteps - 2
<1>1. Cardinality(Issues) \in Nat /\ Cardinality(AnswerType) \in Nat
  BY ResolutionAssumption, AnswersFinite, FS_CardinalityType
<1>2. CASE phase = "auto"
  <2>1. todo \subseteq Issues
    BY <1>2 DEF TypeOK
  <2> QED BY <1>1, <2>1, IssuesFinite DEF RoundSteps
<1>3. CASE phase = "answer"
  <2>1. todo \subseteq AnswerType
    BY <1>3 DEF TypeOK
  <2>2. IsFiniteSet(todo) /\ Cardinality(todo) <= Cardinality(AnswerType)
    BY <2>1, AnswersFinite, FS_Subset
  <2> QED BY <1>1, <2>2, FS_CardinalityType DEF RoundSteps
<1> QED BY <1>2, <1>3

\* The rounds that are left, and one round less of them.
LEMMA RoundsFacts ==
  ASSUME NEW n \in Nat, NEW r \in 1..(n + 1), NEW s \in Nat
  PROVE  /\ (n + 1 - r) * s \in Nat /\ (n + 1) * s \in Nat
         /\ (n + 1 - r) * s + s <= (n + 1) * s
         /\ r = 1 => (n + 1 - r) * s + s = (n + 1) * s
         /\ r <= n => (n + 1 - (r + 1)) * s + s = (n + 1 - r) * s
<1>1. (n + 1 - r) * s \in Nat /\ (n + 1) * s \in Nat /\ (r - 1) * s \in Nat
  OBVIOUS
<1>2. (n + 1 - r) * s + s + (r - 1) * s = (n + 1) * s
  OBVIOUS
<1>3. (n + 1 - (r + 1)) * s + s = (n + 1 - r) * s
  OBVIOUS
<1>4. r = 1 => (r - 1) * s = 0
  OBVIOUS
<1> QED BY <1>1, <1>2, <1>3, <1>4

\* A round that was begun is within the limit, and a plan that is realised has its
\* ending and realises no other.
IRounds ==
  /\ round \in 1..(MaxRounds + 1)
  /\ phase \in {"auto", "answer"} => round <= MaxRounds
  /\ phase = "realize" => plan.ending # "none" /\ draft.ending = "none"

LEMMA RoundsInit == Init => IRounds
BY ResolutionAssumption DEF Init, IRounds

LEMMA RoundsStep == TypeOK /\ IRounds /\ [Next]_vars => IRounds'
<1> SUFFICES ASSUME TypeOK, IRounds, [Next]_vars PROVE IRounds'
  OBVIOUS
<1> USE ResolutionAssumption DEF IRounds, dialogue, request
<1>1. CASE Finish \/ Unsupported \/ Ask
  BY <1>1 DEF Finish, Unsupported, Ask, Asking, Deciding, Outcome
<1>2. CASE StartAuto \/ StartAnswers
  BY <1>2 DEF StartAuto, StartAnswers, Asking, Deciding
<1>3. CASE (\E i \in todo : ApplyAuto(i)) \/ \E a \in todo : ApplyAnswer(a)
  BY <1>3 DEF ApplyAuto, ApplyAnswer
<1>4. CASE EndAuto \/ EndAnswers
  BY <1>4 DEF EndAuto, EndAnswers, Outcome
<1>5. CASE Project
  <2>1. Projected.ending # "none"
    BY DEF Projected, Ending, TypeOK, PlanType
  <2> QED BY <1>5, <2>1 DEF Project
<1>6. CASE (\E s \in Plans : Realize(s)) \/ AnswerSome
  BY <1>6 DEF Realize, AnswerSome, Answer, Begin
<1>7. CASE Adopt \/ UNCHANGED vars
  BY <1>7 DEF Adopt, vars
<1> QED BY <1>1, <1>2, <1>3, <1>4, <1>5, <1>6, <1>7 DEF Next, Serve, Resolve, Over

LEMMA ServeFacts ==
  ASSUME TypeOK, IRounds
  PROVE  /\ RoundSteps \in Nat /\ Structuring \in Nat /\ RoundsLeft \in Nat
         /\ RoundsLeft + RoundSteps + 3 <= Structuring
         /\ ResolveLeft \in 0..Structuring
<1>1. RoundSteps \in Nat /\ RoundSteps >= 2 /\ MaxRounds \in Nat
  BY ResolutionAssumption, AnswersFinite, FS_CardinalityType DEF RoundSteps
<1>2. /\ RoundsLeft \in Nat /\ (MaxRounds + 1) * RoundSteps \in Nat
      /\ RoundsLeft + RoundSteps <= (MaxRounds + 1) * RoundSteps
  BY <1>1, RoundsFacts DEF IRounds, RoundsLeft
<1>3. Structuring \in Nat /\ RoundsLeft + RoundSteps + 3 <= Structuring
  BY <1>1, <1>2 DEF Structuring
<1>4. CASE phase \in {"auto", "answer"}
  <2>1. Cardinality(todo) \in Nat /\ Cardinality(todo) <= RoundSteps - 2
    BY <1>4, TodoFinite
  <2>2. ResolveLeft = RoundsLeft + Cardinality(todo) + 4
    BY <1>4 DEF ResolveLeft
  <2> QED BY <1>1, <1>2, <1>3, <2>1, <2>2
<1>5. CASE phase \notin {"auto", "answer"}
  BY <1>1, <1>2, <1>3, <1>5 DEF ResolveLeft
<1> QED BY <1>1, <1>2, <1>3, <1>4, <1>5

\* The steps of a resolution.
LEMMA ResolveAdvances ==
  ASSUME TypeOK, TypeOK', IRounds, Resolve
  PROVE  ResolveLeft' < ResolveLeft
<1>1. /\ RoundSteps \in Nat /\ RoundsLeft \in Nat /\ RoundSteps >= 2
      /\ MaxRounds \in Nat /\ round \in 1..(MaxRounds + 1)
  BY ServeFacts, ResolutionAssumption, AnswersFinite, FS_CardinalityType
  DEF RoundSteps, IRounds
<1>2. ASSUME phase \in {"auto", "answer"}
      PROVE  /\ ResolveLeft = RoundsLeft + Cardinality(todo) + 4
             /\ IsFiniteSet(todo) /\ Cardinality(todo) \in Nat
  BY <1>2, TodoFinite DEF ResolveLeft
<1>4. ASSUME phase' = "project", phase \in {"detect", "auto", "answer"}
      PROVE  ResolveLeft' < ResolveLeft
  <2>1. ResolveLeft' = 2
    BY <1>4 DEF ResolveLeft
  <2> QED BY <1>1, <1>2, <1>4, <2>1 DEF ResolveLeft
<1>5. CASE Finish \/ Unsupported \/ Ask
  BY <1>4, <1>5 DEF Finish, Unsupported, Ask, Asking, Deciding, Outcome
<1>6. CASE StartAuto \/ StartAnswers
  <2>1. phase = "detect" /\ phase' \in {"auto", "answer"} /\ round' = round
    BY <1>6 DEF StartAuto, StartAnswers, Asking, Deciding
  <2>2. Cardinality(todo') \in Nat /\ Cardinality(todo') <= RoundSteps - 2
    <3>1. CASE StartAuto
      <4>1. todo' \subseteq Issues
        BY <3>1, DecidedTypes, OpenTypes DEF StartAuto
      <4> QED BY <4>1, IssuesFinite, AnswersFinite, ResolutionAssumption, FS_CardinalityType
              DEF RoundSteps
    <3>2. CASE StartAnswers
      <4>1. todo' \subseteq AnswerType
        BY <3>2 DEF StartAnswers, TypeOK
      <4>2. Cardinality(todo') \in Nat /\ Cardinality(todo') <= Cardinality(AnswerType)
        BY <4>1, AnswersFinite, FS_Subset, FS_CardinalityType
      <4> QED BY <4>2, AnswersFinite, ResolutionAssumption, FS_CardinalityType DEF RoundSteps
    <3> QED BY <1>6, <3>1, <3>2
  <2>3. ResolveLeft' = RoundsLeft + Cardinality(todo') + 4
    BY <2>1 DEF ResolveLeft, RoundsLeft
  <2>4. ResolveLeft = RoundsLeft + RoundSteps + 3
    BY <2>1 DEF ResolveLeft
  <2> QED BY <1>1, <2>2, <2>3, <2>4
<1>7. CASE (\E i \in todo : ApplyAuto(i)) \/ \E a \in todo : ApplyAnswer(a)
  <2>1. PICK x \in todo : /\ phase \in {"auto", "answer"} /\ todo' = todo \ {x}
                          /\ UNCHANGED <<phase, round>>
    BY <1>7 DEF ApplyAuto, ApplyAnswer
  <2>2. Cardinality(todo') = Cardinality(todo) - 1
    BY <1>2, <2>1, FS_RemoveElement
  <2>3. ResolveLeft' = RoundsLeft + Cardinality(todo') + 4
    BY <2>1 DEF ResolveLeft, RoundsLeft
  <2> QED BY <1>1, <1>2, <2>1, <2>2, <2>3
<1>8. CASE EndAuto \/ EndAnswers
  <2>1. phase \in {"auto", "answer"} /\ todo = {}
    BY <1>8 DEF EndAuto, EndAnswers
  <2>2. CASE phase' = "project"
    BY <1>4, <2>1, <2>2
  <2>3. CASE phase' = "detect" /\ round' = round + 1
    <3>1. round <= MaxRounds
      BY <2>1 DEF IRounds
    <3>2. (MaxRounds + 1 - (round + 1)) * RoundSteps + RoundSteps = RoundsLeft
      BY <1>1, <3>1, RoundsFacts DEF RoundsLeft
    <3>3. ResolveLeft' = (MaxRounds + 1 - (round + 1)) * RoundSteps + RoundSteps + 3
      BY <2>3 DEF ResolveLeft, RoundsLeft
    <3>4. (MaxRounds + 1 - (round + 1)) * RoundSteps \in Int
      BY <1>1
    <3> QED BY <1>1, <1>2, <2>1, <3>2, <3>3, <3>4
  <2> QED BY <1>8, <2>2, <2>3 DEF EndAuto, EndAnswers, Outcome
<1> QED BY <1>5, <1>6, <1>7, <1>8 DEF Resolve

LEMMA ServeAdvances ==
  ASSUME TypeOK, TypeOK', IRounds, IRounds', Serve, ResolveLeft' \in Int
  PROVE  ServeLeft' < ServeLeft
<1>1. Structuring \in Nat /\ ResolveLeft \in Int
  BY ServeFacts
<1>2. CASE Resolve
  <2>1. draft' = draft /\ ResolveLeft' < ResolveLeft
    BY <1>2, ResolveAdvances
    DEF Resolve, Finish, Unsupported, Ask, StartAuto, ApplyAuto, EndAuto, StartAnswers,
        ApplyAnswer, EndAnswers, Outcome, dialogue
  <2>2. /\ \A x, y \in Int : x < y => 0 + x < 0 + y
        /\ \A x, y \in Int, n \in Nat : x < y => n + 1 + x < n + 1 + y
    OBVIOUS
  <2>3. ResolveLeft' \in Int
    OBVIOUS
  <2>4. CASE draft.ending = "none"
    <3>1. /\ ServeLeft = Structuring + 1 + ResolveLeft
          /\ ServeLeft' = Structuring + 1 + ResolveLeft'
      BY <2>1, <2>4 DEF ServeLeft, Structuring, RoundSteps
    <3>2. Structuring + 1 + ResolveLeft' < Structuring + 1 + ResolveLeft
      BY <1>1, <2>1, <2>2, <2>3
    <3> QED BY <3>1, <3>2
  <2>5. CASE draft.ending # "none"
    <3>1. ServeLeft = 0 + ResolveLeft /\ ServeLeft' = 0 + ResolveLeft'
      BY <2>1, <2>5 DEF ServeLeft
    <3>2. 0 + ResolveLeft' < 0 + ResolveLeft
      BY <1>1, <2>1, <2>2, <2>3
    <3> QED BY <3>1, <3>2
  <2> QED BY <2>4, <2>5
<1>3. CASE Project
  BY <1>1, <1>3 DEF Project, ServeLeft, ResolveLeft
<1>4. CASE Adopt
  BY <1>1, <1>4 DEF Adopt, ServeLeft, ResolveLeft
<1>5. CASE \E s \in Plans : Realize(s)
  <2>1. /\ phase = "realize" /\ phase' = "detect" /\ round' = 1
        /\ draft.ending = "none" /\ draft'.ending # "none"
    BY <1>5 DEF Realize, Begin, IRounds
  <2>2. ResolveLeft' = Structuring
    <3>1. RoundSteps \in Nat /\ MaxRounds \in Nat
      BY ServeFacts, ResolutionAssumption
    <3>2. (MaxRounds + 1 - 1) * RoundSteps + RoundSteps = (MaxRounds + 1) * RoundSteps
      BY <3>1
    <3>3. ResolveLeft' = (MaxRounds + 1 - 1) * RoundSteps + RoundSteps + 3
      BY <2>1 DEF ResolveLeft, RoundsLeft
    <3> QED BY <3>1, <3>2, <3>3 DEF Structuring
  <2>3. ServeLeft' = Structuring /\ ServeLeft = Structuring + 1 + 1
    BY <1>1, <2>1, <2>2 DEF ServeLeft, ResolveLeft
  <2> QED BY <1>1, <2>3
<1> QED BY <1>2, <1>3, <1>4, <1>5 DEF Serve

\* One call of the endpoint structures, resolves and realises in a bounded number
\* of steps, for any limit on rounds and any set of issues.
THEOREM ResolutionIsBounded == Spec => []ServeIsBounded /\ EveryServeStepCounts
<1>1. TypeOK /\ IRounds => ServeIsBounded
  BY ServeFacts DEF ServeIsBounded, ServeLeft
<1> DEFINE Counted == ResolveLeft \in Int
<1>2. TypeOK /\ IRounds => Counted
  BY ServeFacts
<1>3. TypeOK /\ TypeOK' /\ IRounds /\ IRounds' /\ Counted' /\ [Next]_vars
      => [Serve => ServeLeft' < ServeLeft]_vars
  BY ServeAdvances
<1> QED BY <1>1, <1>2, <1>3, ResolutionTypeOK, RoundsInit, RoundsStep, PTL
        DEF Spec, EveryServeStepCounts
=============================================================================
