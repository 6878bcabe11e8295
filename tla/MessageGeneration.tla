-------------------------- MODULE MessageGeneration --------------------------
(***************************************************************************)
(* rag/message.py: the channel messages of one request.  Each attempt asks *)
(* for every required variant in a thread of its own; the futures are       *)
(* taken as they complete, put back in order and judged together.  An       *)
(* attempt that is not satisfied is thrown away and, while attempts are     *)
(* left, repeated with what was wrong.                                      *)
(***************************************************************************)
EXTENDS Naturals, Sequences

CONSTANTS
  Variants,     \* required_variants, a sequence
  Texts,        \* message texts
  NoText,       \* of a variant that failed
  MaxAttempts   \* max_attempts

VariantSet == {Variants[i] : i \in DOMAIN Variants}

\* What a thread brings: nothing (timeout, provider error, no JSON, no message),
\* or a message that names a channel, campaign and offer that fit, or does not.
Replies == [made : {FALSE}, fits : {FALSE}, text : {NoText}]
           \cup [made : {TRUE}, fits : BOOLEAN, text : Texts]
Messages == [variant : VariantSet, text : Texts]

ASSUME GenerationAssumption ==
  /\ Variants \in Seq(VariantSet) /\ Variants # <<>>
  /\ \A i, j \in DOMAIN Variants : Variants[i] = Variants[j] => i = j
  /\ NoText \notin Texts
  /\ MaxAttempts \in Nat \ {0}

Skipped == {"no_channel", "no_sql", "other_intent", "no_campaign"}
Generations == {"none", "prompt_only", "no_key", "running", "failed", "succeeded"}
               \cup Skipped

VARIABLES
  generation,  \* mode and failure_reason of message_generation
  tries,       \* attempts started
  waiting,     \* variants whose future has not completed
  finished,    \* the variants of this attempt, in the order they completed
  messages     \* message_variants

genVars == <<generation, tries, waiting, finished, messages>>

GenInit ==
  /\ generation = "none" /\ tries = 0 /\ waiting = {}
  /\ finished = <<>> /\ messages = <<>>

\* build_message_context and the early ends of build_message_response.
Opening(channel, shipped, recommend, campaign, wanted, key) ==
  CASE ~channel   -> "no_channel"
    [] ~shipped   -> "no_sql"
    [] ~recommend -> "other_intent"
    [] ~campaign  -> "no_campaign"
    [] ~wanted    -> "prompt_only"
    [] ~key       -> "no_key"
    [] OTHER      -> "running"

StartAttempt == waiting' = VariantSet /\ finished' = <<>>

BeginGeneration(opening) ==
  /\ generation' = opening /\ messages' = <<>>
  /\ IF opening = "running" THEN tries' = 1 /\ StartAttempt
     ELSE tries' = 0 /\ waiting' = {} /\ finished' = <<>>

\* Whatever a thread does, its future completes: a timeout is one of its replies.
FinishVariant(v) ==
  /\ generation = "running" /\ v \in waiting
  /\ waiting' = waiting \ {v}
  /\ \E r \in Replies : finished' = Append(finished, [variant |-> v, reply |-> r])
  /\ UNCHANGED <<generation, tries, messages>>

Position(v) == CHOOSE i \in DOMAIN Variants : Variants[i] = v

\* Mutant of InOrder: as the futures completed.
AsCompleted(attempts) == attempts

\* variant_attempts.sort
InOrder(attempts) ==
  LET places == DOMAIN attempts
      Sorts(p) == \A i, j \in places :
                    i < j => Position(attempts[p[i]].variant) < Position(attempts[p[j]].variant)
  IN  [i \in places |-> attempts[(CHOOSE p \in [places -> places] : Sorts(p))[i]]]

\* Mutant of Satisfied: repeated texts pass.
SatisfiedRepeating(made) ==
  /\ Len(made) = Len(Variants)
  /\ \A i \in DOMAIN made : made[i].reply.made /\ made[i].reply.fits

\* No thread failed; and validate_message_response: each message fits, no text
\* twice, no variant missing.
Satisfied(made) ==
  /\ Len(made) = Len(Variants)
  /\ \A i \in DOMAIN made : made[i].reply.made /\ made[i].reply.fits
  /\ \A i, j \in DOMAIN made : made[i].reply.text = made[j].reply.text => i = j

\* What the threads of this attempt made, in order.
Made == InOrder(finished)

Message(i) == [variant |-> Made[i].variant, text |-> Made[i].reply.text]

Succeed ==
  /\ Satisfied(Made)
  /\ generation' = "succeeded"
  /\ messages' = [i \in DOMAIN Variants |-> Message(i)]
  /\ finished' = <<>> /\ UNCHANGED <<tries, waiting>>

\* Mutant of Retry: the attempt is not counted.
RetryUncounted ==
  /\ ~Satisfied(Made) /\ tries < MaxAttempts
  /\ StartAttempt
  /\ UNCHANGED <<generation, tries, messages>>

\* Mutant of Retry: one attempt too many.
RetryOnceMore ==
  /\ ~Satisfied(Made) /\ tries <= MaxAttempts
  /\ tries' = tries + 1 /\ StartAttempt
  /\ UNCHANGED <<generation, messages>>

Retry ==
  /\ ~Satisfied(Made) /\ tries < MaxAttempts
  /\ tries' = tries + 1 /\ StartAttempt
  /\ UNCHANGED <<generation, messages>>

Exhaust ==
  /\ ~Satisfied(Made) /\ tries = MaxAttempts
  /\ generation' = "failed"
  /\ finished' = <<>> /\ UNCHANGED <<tries, waiting, messages>>

JudgeAttempt ==
  /\ generation = "running" /\ waiting = {}
  /\ Succeed \/ Retry \/ Exhaust

GenNext == (\E v \in VariantSet : FinishVariant(v)) \/ JudgeAttempt

------------------------------------------------------------------------------
GenTypeOK ==
  /\ generation \in Generations
  /\ tries \in 0..MaxAttempts
  /\ waiting \subseteq VariantSet
  /\ finished \in Seq([variant : VariantSet, reply : Replies])
  /\ messages \in Seq(Messages)

\* A response holds either no message or one for every required variant, in the
\* order the variants are required whatever order the threads end in, and no text
\* twice: nothing is left over from an attempt that was thrown away.
MessagesAreWhole ==
  messages # <<>> =>
    /\ generation = "succeeded"
    /\ [i \in DOMAIN messages |-> messages[i].variant] = Variants
    /\ \A i, j \in DOMAIN messages : messages[i].text = messages[j].text => i = j
=============================================================================
