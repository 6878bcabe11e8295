--------------------------- MODULE RequestPromise ---------------------------
(***************************************************************************)
(* What POST /target-sql promises about one request: SQL is decided once;   *)
(* only SQL that shipped is run, and at most once; an audience is saved     *)
(* only by a run that went well; messages are offered only for SQL that     *)
(* shipped and stay as they are; the answer never says more than happened.  *)
(* TargetRequest is shown to implement this module.                         *)
(***************************************************************************)
VARIABLES
  sql,      \* "undecided", "shipped" or "withheld"
  run,      \* "none", "ok" or "failed"
  saved,    \* an audience of this request is stored
  offered,  \* the messages made for it
  answer    \* "none", "success", "failure" or "error"

promiseVars == <<sql, run, saved, offered, answer>>

PromiseInit ==
  /\ sql = "undecided" /\ run = "none" /\ saved = FALSE
  /\ offered = <<>> /\ answer = "none"

Decide ==
  /\ sql = "undecided" /\ answer = "none"
  /\ sql' \in {"shipped", "withheld"}
  /\ UNCHANGED <<run, saved, offered, answer>>

Run ==
  /\ sql = "shipped" /\ run = "none" /\ answer = "none"
  /\ run' \in {"ok", "failed"} /\ saved' \in BOOLEAN
  /\ saved' => run' = "ok"
  /\ UNCHANGED <<sql, offered, answer>>

Offer ==
  /\ sql = "shipped" /\ offered = <<>> /\ answer = "none"
  /\ offered' # <<>>
  /\ UNCHANGED <<sql, run, saved, answer>>

\* An answer, or the end of the request in an error.
Answer ==
  /\ answer = "none"
  /\ \/ answer' = "success" /\ sql = "shipped" /\ run # "failed"
     \/ answer' = "failure" /\ ~saved /\ (sql = "withheld" \/ run = "failed")
     \/ answer' = "error"
  /\ UNCHANGED <<sql, run, saved, offered>>

PromiseNext == Decide \/ Run \/ Offer \/ Answer

PromiseSpec == PromiseInit /\ [][PromiseNext]_promiseVars
------------------------------------------------------------------------------
(* What follows from the promise, for every program that keeps it.           *)

\* An answer agrees with what happened: a request that is answered with success ran
\* no SQL that went wrong, one that is answered with failure left no audience
\* behind, and rows are stored and texts shown only for SQL that passed every
\* gate.  An error says nothing: the audience may be there or not.
Honest ==
  /\ run # "none" \/ offered # <<>> \/ answer = "success" => sql = "shipped"
  /\ saved => run = "ok"
  /\ answer = "success" => run # "failed"
  /\ answer = "failure" => ~saved

\* A decision about SQL, a run, an audience and messages are never taken back, and
\* nothing happens to a request after its answer.
Kept ==
  /\ answer = "none"
  /\ sql # "undecided" => sql' = sql
  /\ run # "none" => run' = run /\ saved' = saved
  /\ offered # <<>> => offered' = offered

Irrevocable == [][Kept]_promiseVars
=============================================================================
