--------------------------- MODULE PredictorCache ---------------------------
(***************************************************************************)
(* training/ctr_predictor.py: the CTR predictor of the process.  A request  *)
(* takes the signature of the model file and the metadata file, loads a     *)
(* predictor when the cached signature is another one, and stores predictor *)
(* and signature in two module globals without a lock.  Training replaces   *)
(* first the model file, then the metadata file, and may be killed.         *)
(***************************************************************************)
EXTENDS Naturals, FiniteSets

CONSTANTS
  Threads,   \* scoring requests of the process
  Latest,    \* the requested version that any predictor satisfies
  Nothing,   \* no predictor, no signature, no answer
  Failed,    \* an exception of the cache instead of scores
  Mismatch,  \* the exception for another version than the requested one
  MaxRuns    \* bound on the runs of training

Names == {"model", "metadata"}

\* What is in a file: the run that wrote it, to the end or not.  Each write gives
\* a file a new modification time, so this is also what stat tells of it; run 0 is
\* a file that does not exist.
Contents == [run : 0..MaxRuns, whole : BOOLEAN]
Signatures == [Names -> Contents]

\* A predictor: the run its model is from and the run its metadata are from.
Predictors == [Names -> 0..MaxRuns]

Wanted == (1..MaxRuns) \cup {Latest}
Answers == Predictors \cup {Nothing, Failed, Mismatch}

ASSUME CacheAssumption ==
  /\ MaxRuns \in Nat
  /\ Latest \notin Nat
  /\ Nothing \notin Signatures \cup Predictors \cup {Failed, Mismatch}

VARIABLES
  files,      \* the two files
  run,        \* runs of training so far
  writing,    \* the file training is at
  predictor,  \* _CACHED_PREDICTOR
  signature,  \* _CACHED_SIGNATURE
  pc,         \* where each request is
  want,       \* the version it asks for
  taken,      \* the signature it has taken
  loaded,     \* the predictor it is loading
  answer,     \* what its scoring gives
  quiet,      \* requests during which no file has changed, for the properties
  alone,      \* requests whose load no other load has overlapped, likewise
  clean       \* the globals come from such a load and no two overlap since

disk == <<files, run, writing>>
globals == <<predictor, signature>>
local == <<pc, want, taken, loaded, answer>>
ghosts == <<quiet, alone, clean>>
vars == <<disk, globals, local, ghosts>>

NoFiles == [f \in Names |-> [run |-> 0, whole |-> FALSE]]
NoRuns == [f \in Names |-> 0]
Missing(f) == files[f].run = 0

Loading == {"readModel", "readMetadata", "storePredictor", "storeSignature"}
InHand == {t \in Threads : pc[t] \in Loading}

Init ==
  /\ files = NoFiles /\ run = 0 /\ writing = "none"
  /\ predictor = Nothing /\ signature = Nothing
  /\ pc = [t \in Threads |-> "idle"] /\ want = [t \in Threads |-> Latest]
  /\ taken = [t \in Threads |-> NoFiles]
  /\ loaded = [t \in Threads |-> NoRuns]
  /\ answer = [t \in Threads |-> Nothing]
  /\ quiet = {} /\ alone = {} /\ clean = TRUE

------------------------------------------------------------------------------
(* train_lightgbm_ctr.py                                                    *)

\* Mutant of Train: the metadata are written first.
TrainMetadataFirst ==
  /\ writing = "none" /\ run < MaxRuns
  /\ run' = run + 1 /\ writing' = "metadata"
  /\ UNCHANGED <<files, globals, local, ghosts>>

Train ==
  /\ writing = "none" /\ run < MaxRuns
  /\ run' = run + 1 /\ writing' = "model"
  /\ UNCHANGED <<files, globals, local, ghosts>>

Write(f, whole) ==
  /\ files' = [files EXCEPT ![f] = [run |-> run, whole |-> whole]]
  /\ quiet' = {}
  /\ UNCHANGED <<run, globals, local, alone, clean>>

\* Opening a file for writing empties it.
Open(f) ==
  /\ writing = f /\ files[f].run # run
  /\ Write(f, FALSE)
  /\ UNCHANGED writing

Close(f) ==
  /\ writing = f /\ files[f] = [run |-> run, whole |-> FALSE]
  /\ Write(f, TRUE)
  /\ writing' = IF f = "model" THEN "metadata" ELSE "none"

\* Training is a program of its own: it may be killed at any point.
Kill ==
  /\ writing # "none"
  /\ writing' = "none"
  /\ UNCHANGED <<files, run, globals, local, ghosts>>

------------------------------------------------------------------------------
(* get_ctr_predictor and predict_variant_scores                             *)

GoTo(t, place) == pc' = [pc EXCEPT ![t] = place]

Begin(t, version) ==
  /\ pc[t] = "idle"
  /\ want' = [want EXCEPT ![t] = version]
  /\ answer' = [answer EXCEPT ![t] = Nothing]
  /\ quiet' = quiet \cup {t}
  /\ GoTo(t, "statModel")
  /\ UNCHANGED <<disk, globals, taken, loaded, alone, clean>>

\* The call ends, and its locals are gone.
End(t, result) ==
  /\ answer' = [answer EXCEPT ![t] = result]
  /\ want' = [want EXCEPT ![t] = Latest]
  /\ taken' = [taken EXCEPT ![t] = NoFiles]
  /\ loaded' = [loaded EXCEPT ![t] = NoRuns]
  /\ quiet' = quiet \ {t} /\ alone' = alone \ {t}
  /\ GoTo(t, "idle")

\* The exception reaches _score_variants, which falls back to the heuristic or
\* answers 500; the globals are as they were.
Fail(t) == End(t, Failed) /\ UNCHANGED <<disk, globals, clean>>

Stat(t, f, next) ==
  IF Missing(f) THEN Fail(t)
  ELSE /\ taken' = [taken EXCEPT ![t][f] = files[f]]
       /\ GoTo(t, next)
       /\ UNCHANGED <<disk, globals, want, loaded, answer, ghosts>>

StatModel(t) == pc[t] = "statModel" /\ Stat(t, "model", "statMetadata")
StatMetadata(t) == pc[t] = "statMetadata" /\ Stat(t, "metadata", "compare")

Compare(t) ==
  /\ pc[t] = "compare"
  /\ IF predictor = Nothing \/ signature # taken[t]
     THEN /\ GoTo(t, "readModel")
          /\ alone' = IF InHand = {} THEN {t} ELSE {}
          /\ clean' = (clean /\ InHand = {})
     ELSE GoTo(t, "return") /\ UNCHANGED <<alone, clean>>
  /\ UNCHANGED <<disk, globals, want, taken, loaded, answer, quiet>>

\* CtrPredictor.__init__: a file that is being written cannot be read.
Read(t, f, next) ==
  IF ~files[f].whole THEN Fail(t)
  ELSE /\ loaded' = [loaded EXCEPT ![t][f] = files[f].run]
       /\ GoTo(t, next)
       /\ UNCHANGED <<disk, globals, want, taken, answer, ghosts>>

ReadModel(t) == pc[t] = "readModel" /\ Read(t, "model", "readMetadata")
ReadMetadata(t) == pc[t] = "readMetadata" /\ Read(t, "metadata", "storePredictor")

StorePredictor(t) ==
  /\ pc[t] = "storePredictor"
  /\ predictor' = loaded[t]
  /\ GoTo(t, "storeSignature")
  /\ UNCHANGED <<disk, signature, want, taken, loaded, answer, ghosts>>

\* Mutant of StoreSignature: the signature the files have now.
StoreSignatureNow(t) ==
  /\ pc[t] = "storeSignature"
  /\ signature' = files
  /\ GoTo(t, "return")
  /\ clean' = (clean \/ t \in alone)
  /\ UNCHANGED <<disk, predictor, want, taken, loaded, answer, quiet, alone>>

StoreSignature(t) ==
  /\ pc[t] = "storeSignature"
  /\ signature' = taken[t]
  /\ GoTo(t, "return")
  /\ clean' = (clean \/ t \in alone)
  /\ UNCHANGED <<disk, predictor, want, taken, loaded, answer, quiet, alone>>

\* The global is read once more; the version of a predictor is the one its
\* metadata name.
Return(t) ==
  /\ pc[t] = "return"
  /\ End(t, IF want[t] \in {Latest, predictor["metadata"]} THEN predictor ELSE Mismatch)
  /\ UNCHANGED <<disk, globals, clean>>

Training == Train \/ Kill \/ \E f \in Names : Open(f) \/ Close(f)

Score(t) ==
  \/ \E version \in Wanted : Begin(t, version)
  \/ StatModel(t) \/ StatMetadata(t) \/ Compare(t)
  \/ ReadModel(t) \/ ReadMetadata(t)
  \/ StorePredictor(t) \/ StoreSignature(t) \/ Return(t)

Next == Training \/ \E t \in Threads : Score(t)

Spec == Init /\ [][Next]_vars

------------------------------------------------------------------------------
(* Properties                                                               *)

\* Type invariant; the metadata are never newer than the model beside them.
TypeOK ==
  /\ files \in Signatures /\ run \in 0..MaxRuns /\ writing \in Names \cup {"none"}
  /\ files["metadata"].run <= files["model"].run
  /\ predictor \in Predictors \cup {Nothing} /\ signature \in Signatures \cup {Nothing}
  /\ pc \in [Threads -> {"idle", "statModel", "statMetadata", "compare", "return"}
                        \cup Loading]
  /\ want \in [Threads -> Wanted] /\ taken \in [Threads -> Signatures]
  /\ loaded \in [Threads -> Predictors] /\ answer \in [Threads -> Answers]
  /\ quiet \subseteq Threads /\ alone \subseteq Threads /\ clean \in BOOLEAN

\* What scoring by the files as they are gives.
FromTheFiles(version) ==
  IF \E f \in Names : ~files[f].whole THEN Failed
  ELSE IF version \notin {Latest, files["metadata"].run} THEN Mismatch
  ELSE [f \in Names |-> files[f].run]

\* get_ctr_predictor gives the predictor of the two files as they are to every
\* request during which no file changes, whatever was loaded, half written or
\* killed before it, unless two loads overlapped and none has been alone since.
AnswersFromTheFiles ==
  [][\A t \in Threads :
       answer[t] = Nothing /\ answer'[t] # Nothing /\ t \in quiet /\ clean =>
         answer'[t] = FromTheFiles(want[t])]_vars
=============================================================================
