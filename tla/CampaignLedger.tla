--------------------------- MODULE CampaignLedger ---------------------------
(***************************************************************************)
(* What the experiment endpoints promise, without transactions, row locks  *)
(* or threads: one experiment per (campaign, name), whose three messages   *)
(* always come from one request, and a ledger that gives a user at most    *)
(* one variant and never changes it.  Every accepted request is ONE step.  *)
(* ExperimentAssignment is shown to implement this module.                 *)
(***************************************************************************)
CONSTANTS
  Requests,     \* HTTP calls; the author of a message is the call that wrote it
  Users,        \* user ids a request may name
  KnownUsers,   \* the ids that have a row in table users
  Codes,        \* variant codes
  Inputs,       \* request bodies: kind, channel, codes, users
  None

VARIABLES
  experiment,   \* None, or the channel and variant codes of the experiment
  message,      \* code -> the request whose text the variant carries
  assigned      \* user -> variant code, or None

ledgerVars == <<experiment, message, assigned>>

LedgerInit ==
  /\ experiment = None
  /\ message = [c \in Codes |-> None]
  /\ assigned = [u \in Users |-> None]

\* Every known user of the request who has no variant yet is given one.
AssignNewcomers(in, codes) ==
  \E choice \in [Users -> codes] :
    assigned' = [u \in Users |->
                   IF u \in in.users \cap KnownUsers /\ assigned[u] = None
                   THEN choice[u] ELSE assigned[u]]

WriteMessages(r, in) ==
  message' = [c \in Codes |-> IF c \in in.codes THEN r ELSE message[c]]

CreateExperiment(r, in) ==
  /\ in.kind \in {"create", "run"}
  /\ experiment = None
  /\ experiment' = [channel |-> in.channel, codes |-> in.codes]
  /\ WriteMessages(r, in)
  /\ IF in.kind = "run" THEN AssignNewcomers(in, in.codes)
                        ELSE UNCHANGED assigned

RerunExperiment(r, in) ==
  /\ in.kind = "run"
  /\ experiment = [channel |-> in.channel, codes |-> in.codes]
  /\ WriteMessages(r, in)
  /\ AssignNewcomers(in, in.codes)
  /\ UNCHANGED experiment

AssignUsers(in) ==
  /\ in.kind = "assign"
  /\ experiment # None
  /\ AssignNewcomers(in, experiment.codes)
  /\ UNCHANGED <<experiment, message>>

LedgerNext ==
  \E r \in Requests, in \in Inputs :
    \/ CreateExperiment(r, in)
    \/ RerunExperiment(r, in)
    \/ AssignUsers(in)

LedgerSpec == LedgerInit /\ [][LedgerNext]_ledgerVars

------------------------------------------------------------------------------
(* What the ledger guarantees, and with it every program that implements it. *)

\* The variants of an experiment carry the texts of one request: a rerun replaces
\* them all or none, also when it competes with another one.
OneAuthor ==
  experiment # None =>
    \E r \in Requests : \A c \in experiment.codes : message[c] = r

\* Only known users have a variant, and it is one the experiment has.
AssignedWithin ==
  \A u \in Users : assigned[u] # None =>
    u \in KnownUsers /\ experiment # None /\ assigned[u] \in experiment.codes

\* A user keeps the variant, and an experiment its channel and variants, for ever.
AssignedForLife ==
  [][/\ experiment # None => experiment' = experiment
     /\ \A u \in Users : assigned[u] # None => assigned'[u] = assigned[u]]_ledgerVars
=============================================================================
