----------------------- MODULE PredictorCache_proofs -----------------------
(***************************************************************************)
(* Proofs about PredictorCache: its types, and that a request during which *)
(* no file changes is answered from the files as they are.                  *)
(***************************************************************************)
EXTENDS PredictorCache, TLAPS

\* Has u read f in the load it has in hand?
Got(u, f) == \/ pc[u] \in {"storePredictor", "storeSignature"}
             \/ pc[u] = "readMetadata" /\ f = "model"

\* What u has read is what the files still are.
Fresh(u) == \A f \in Names : Got(u, f) => files[f].whole /\ loaded[u][f] = files[f].run

\* The cached predictor is that of the files.
Right == /\ \A f \in Names : files[f].whole
         /\ predictor = [f \in Names |-> files[f].run]

\* A signature taken of these files at some time.
Past(s) == \A f \in Names :
  \/ s[f].run < files[f].run
  \/ s[f].run = files[f].run /\ (s[f].whole => files[f].whole)

FilesInv ==
  /\ \A f \in Names : files[f].run <= run /\ (files[f].run = 0 => ~files[f].whole)
  /\ writing # "none" => run # 0
  /\ writing = "metadata" => files["model"].run = run

PastInv ==
  /\ signature # Nothing => Past(signature)
  /\ \A t \in Threads : Past(taken[t])

\* A load that is alone is the only one, and a clean cache knows no other.
HandInv ==
  /\ \A t \in alone : pc[t] \in Loading => InHand = {t}
  /\ \A t \in alone : pc[t] = "storeSignature" => predictor = loaded[t]
  /\ clean => InHand \subseteq alone

\* A request during which no file changes has the signature of the files.
QuietInv ==
  \A t \in quiet :
    /\ pc[t] \in {"statMetadata", "compare"} \cup Loading => taken[t]["model"] = files["model"]
    /\ pc[t] \in {"compare"} \cup Loading => taken[t]["metadata"] = files["metadata"]

\* A load took its signature before it read; when no other one is in hand, the
\* cached signature is older than what it read, too.
LoadInv ==
  \A u \in Threads :
    /\ taken[u] = files => Fresh(u)
    /\ u \in alone /\ signature = files => Fresh(u)
    /\ \A t \in quiet : u \in alone /\ pc[t] = "return" => Fresh(u)

CacheInv == clean /\ predictor # Nothing /\ signature = files => Right

ReturnInv == \A t \in quiet : pc[t] = "return" /\ clean => Right

Inv == /\ TypeOK /\ FilesInv /\ PastInv /\ HandInv /\ QuietInv
       /\ LoadInv /\ CacheInv /\ ReturnInv

LEMMA FileTypes ==
  ASSUME TypeOK
  PROVE  run \in Nat /\ \A f \in Names : files[f].run \in Nat /\ files[f].whole \in BOOLEAN
<1>1. run \in Nat
  BY CacheAssumption DEF TypeOK
<1>2. \A f \in Names : files[f] \in Contents
  BY DEF TypeOK, Signatures
<1>3. \A c \in Contents : c.run \in Nat /\ c.whole \in BOOLEAN
  BY CacheAssumption DEF Contents
<1> QED BY <1>1, <1>2, <1>3

LEMMA InitInv == Init => Inv
<1> SUFFICES ASSUME Init PROVE Inv
  OBVIOUS
<1> USE CacheAssumption DEF Init, NoFiles, NoRuns, Names, Contents
<1>1. TypeOK
  BY DEF TypeOK, Signatures, Predictors, Answers, Wanted
<1>2. FilesInv /\ PastInv
  BY DEF FilesInv, PastInv, Past
<1>3. HandInv /\ QuietInv /\ ReturnInv
  BY DEF HandInv, QuietInv, ReturnInv, InHand, Loading
<1>4. LoadInv /\ CacheInv
  BY DEF LoadInv, CacheInv, Fresh, Got
<1> QED BY <1>1, <1>2, <1>3, <1>4 DEF Inv

------------------------------------------------------------------------------
(* Training                                                                 *)

LEMMA TrainInv == Inv /\ Train => Inv'
<1> SUFFICES ASSUME Inv, Train PROVE Inv'
  OBVIOUS
<1> USE DEF Inv, Train, globals, local, ghosts
<1>1. TypeOK'
  BY CacheAssumption DEF TypeOK, Names
<1>2. FilesInv'
  BY CacheAssumption DEF TypeOK, FilesInv, Signatures, Contents
<1>3. PastInv' /\ HandInv' /\ QuietInv'
  BY DEF PastInv, Past, HandInv, InHand, QuietInv
<1>4. LoadInv' /\ CacheInv' /\ ReturnInv'
  BY DEF LoadInv, CacheInv, ReturnInv, Fresh, Got, Right
<1> QED BY <1>1, <1>2, <1>3, <1>4

LEMMA KillInv == Inv /\ Kill => Inv'
<1> SUFFICES ASSUME Inv, Kill PROVE Inv'
  OBVIOUS
<1> USE DEF Inv, Kill, globals, local, ghosts
<1>1. TypeOK' /\ FilesInv'
  BY DEF TypeOK, Names, FilesInv
<1>2. PastInv' /\ HandInv' /\ QuietInv'
  BY DEF PastInv, Past, HandInv, InHand, QuietInv
<1>3. LoadInv' /\ CacheInv' /\ ReturnInv'
  BY DEF LoadInv, CacheInv, ReturnInv, Fresh, Got, Right
<1> QED BY <1>1, <1>2, <1>3

\* A write leaves every signature in the past, and none the signature of the files.
LEMMA WriteLeavesPast ==
  ASSUME TypeOK, FilesInv, NEW f \in Names, NEW whole \in BOOLEAN, Write(f, whole),
         files[f].run < run \/ (files[f].run = run /\ ~files[f].whole /\ whole),
         NEW s \in Signatures, Past(s)
  PROVE  Past(s)' /\ s # files'
<1>1. files'[f] = [run |-> run, whole |-> whole] /\ \A g \in Names \ {f} : files'[g] = files[g]
  BY DEF TypeOK, Signatures, Write
<1>2. \A g \in Names : s[g].run \in Nat /\ files[g].run \in Nat /\ run \in Nat
  BY CacheAssumption DEF TypeOK, Signatures, Contents
<1>3. s[f].run < run \/ (s[f].run = run /\ ~s[f].whole /\ whole)
  BY <1>2 DEF Past
<1>4. \A g \in Names : \/ s[g].run < files'[g].run
                       \/ s[g].run = files'[g].run /\ (s[g].whole => files'[g].whole)
  BY <1>1, <1>2, <1>3 DEF Past
<1>5. s[f] # files'[f]
  BY <1>1, <1>2, <1>3
<1> QED BY <1>4, <1>5 DEF Past

\* What a write does to everything but the files themselves.
LEMMA WriteInv ==
  ASSUME Inv, TypeOK', FilesInv', NEW f \in Names, NEW whole \in BOOLEAN, Write(f, whole),
         files[f].run < run \/ (files[f].run = run /\ ~files[f].whole /\ whole)
  PROVE  Inv'
<1> USE DEF Inv, Write, globals, local
<1>1. \A s \in Signatures : Past(s) => Past(s)' /\ s # files'
  BY WriteLeavesPast
<1>2. PastInv' /\ signature # files' /\ \A t \in Threads : taken[t] # files'
  <2>1. files' \in Signatures /\ Nothing \notin Signatures
    BY CacheAssumption DEF TypeOK
  <2>2. \A t \in Threads : taken[t] \in Signatures /\ Past(taken[t])
    BY DEF TypeOK, PastInv
  <2>3. signature # Nothing => signature \in Signatures /\ Past(signature)
    BY DEF TypeOK, PastInv
  <2>4. \A t \in Threads : Past(taken[t])' /\ taken[t] # files'
    <3> SUFFICES ASSUME NEW t \in Threads PROVE Past(taken[t])' /\ taken[t] # files'
      OBVIOUS
    <3>1. Past(taken[t]) => Past(taken[t])' /\ taken[t] # files'
      <4>1. taken[t] \in Signatures /\ Past(taken[t])
        BY <2>2
      <4>2. taken' = taken
        OBVIOUS
      <4>3. \A g \in Names : \/ taken[t][g].run < files'[g].run
                             \/ /\ taken[t][g].run = files'[g].run
                                /\ taken[t][g].whole => files'[g].whole
        BY <1>1, <4>1 DEF Past
      <4> QED BY <1>1, <4>1, <4>2, <4>3 DEF Past
    <3> QED BY <2>2, <3>1
  <2>5. signature # Nothing => Past(signature)' /\ signature # files'
    <3> SUFFICES ASSUME signature # Nothing PROVE Past(signature)' /\ signature # files'
      OBVIOUS
    <3>1. signature \in Signatures /\ Past(signature)
      BY <2>3
    <3>2. \A g \in Names : \/ signature[g].run < files'[g].run
                           \/ /\ signature[g].run = files'[g].run
                              /\ signature[g].whole => files'[g].whole
      BY <1>1, <3>1 DEF Past
    <3> QED BY <1>1, <3>1, <3>2 DEF Past
  <2> QED BY <2>1, <2>4, <2>5 DEF PastInv
<1>3. HandInv' /\ QuietInv' /\ ReturnInv'
  BY DEF HandInv, InHand, QuietInv, ReturnInv
<1>4. LoadInv' /\ CacheInv'
  BY <1>2 DEF LoadInv, CacheInv
<1> QED BY <1>2, <1>3, <1>4

LEMMA OpenInv == \A f \in Names : Inv /\ Open(f) => Inv'
<1> SUFFICES ASSUME NEW f \in Names, Inv, Open(f) PROVE Inv'
  OBVIOUS
<1> USE CacheAssumption DEF Names, Signatures, Contents
<1>1. files[f].run < run
  <2>1. files[f].run <= run /\ files[f].run # run
    BY DEF Inv, FilesInv, Open
  <2> QED BY <2>1, FileTypes DEF Inv
<1>2. TypeOK'
  <2>1. files' \in Signatures
    BY DEF Inv, TypeOK, Open, Write
  <2>2. files'["metadata"].run <= files'["model"].run
    <3>1. CASE f = "model"
      BY <1>1, <3>1 DEF Inv, TypeOK, FilesInv, Open, Write
    <3>2. CASE f = "metadata"
      BY <3>2 DEF Inv, TypeOK, FilesInv, Open, Write
    <3> QED BY <3>1, <3>2
  <2>3. writing' = writing /\ quiet' \subseteq Threads
    BY DEF Open, Write
  <2> QED BY <2>1, <2>2, <2>3 DEF Inv, TypeOK, Open, Write, globals, local
<1>3. FilesInv'
  BY <1>1 DEF Inv, TypeOK, FilesInv, Open, Write
<1> QED BY <1>1, <1>2, <1>3, WriteInv DEF Open

LEMMA CloseInv == \A f \in Names : Inv /\ Close(f) => Inv'
<1> SUFFICES ASSUME NEW f \in Names, Inv, Close(f) PROVE Inv'
  OBVIOUS
<1> USE CacheAssumption DEF Names, Signatures, Contents
<1>1. files[f].run = run /\ ~files[f].whole
  BY DEF Close
<1>2. TypeOK'
  <2>1. files' \in Signatures
    BY DEF Inv, TypeOK, Close, Write
  <2>2. files'["metadata"].run <= files'["model"].run
    <3>1. files'["metadata"].run = files["metadata"].run
          /\ files'["model"].run = files["model"].run
      BY <1>1 DEF Inv, TypeOK, Close, Write
    <3> QED BY <3>1 DEF Inv, TypeOK
  <2>3. writing' \in Names \cup {"none"} /\ quiet' \subseteq Threads
    BY DEF Close, Write
  <2> QED BY <2>1, <2>2, <2>3 DEF Inv, TypeOK, Close, Write, globals, local
<1>3. run # 0
  BY DEF Inv, FilesInv, Close
<1>4. FilesInv'
  BY <1>1, <1>3 DEF Inv, TypeOK, FilesInv, Close, Write
<1> QED BY <1>1, <1>2, <1>4, WriteInv DEF Close

------------------------------------------------------------------------------
(* Requests                                                                 *)

LEMMA BeginInv == \A t \in Threads : \A v \in Wanted : Inv /\ Begin(t, v) => Inv'
<1> SUFFICES ASSUME NEW t \in Threads, NEW v \in Wanted, Inv, Begin(t, v) PROVE Inv'
  OBVIOUS
<1> USE DEF Inv, Begin, GoTo, disk, globals
<1>1. TypeOK'
  BY DEF TypeOK, Answers
<1>2. FilesInv' /\ PastInv'
  BY DEF FilesInv, PastInv, Past
<1>3. \A u \in Threads : u # t => pc'[u] = pc[u]
  BY DEF TypeOK
<1>4. pc'[t] = "statModel" /\ pc[t] = "idle"
  BY DEF TypeOK
<1>5. InHand' = InHand
  BY <1>3, <1>4 DEF InHand, Loading
<1>6. HandInv' /\ QuietInv'
  BY <1>3, <1>4, <1>5 DEF HandInv, QuietInv, Loading, TypeOK
<1>7. \A u \in Threads : Fresh(u) => Fresh(u)'
  BY <1>3, <1>4 DEF Fresh, Got
<1>8. LoadInv' /\ CacheInv' /\ ReturnInv'
  BY <1>3, <1>4, <1>7 DEF LoadInv, CacheInv, ReturnInv, Right, TypeOK
<1> QED BY <1>1, <1>2, <1>6, <1>8

\* Nothing of a request stays when it ends.
LEMMA EndInv ==
  ASSUME Inv, NEW t \in Threads, NEW result \in Answers, End(t, result),
         UNCHANGED <<disk, globals, clean>>
  PROVE  Inv'
<1> USE DEF Inv, End, GoTo, disk, globals
<1>1. NoFiles \in Signatures /\ NoRuns \in Predictors
  BY CacheAssumption DEF NoFiles, NoRuns, Signatures, Contents, Predictors
<1>2. TypeOK'
  BY <1>1 DEF TypeOK, Wanted
<1>3. FilesInv'
  BY DEF FilesInv
<1>4. \A u \in Threads : u # t => pc'[u] = pc[u] /\ taken'[u] = taken[u] /\ loaded'[u] = loaded[u]
  BY DEF TypeOK
<1>5. pc'[t] = "idle" /\ taken'[t] = NoFiles
  BY DEF TypeOK
<1>6. PastInv'
  <2>1. Past(NoFiles)
    BY FileTypes DEF Past, NoFiles
  <2> QED BY <2>1, <1>4, <1>5 DEF PastInv, Past
<1>7. InHand' = InHand \ {t}
  BY <1>4, <1>5 DEF InHand, Loading
<1>8. HandInv' /\ QuietInv'
  BY <1>4, <1>5, <1>7 DEF HandInv, QuietInv, TypeOK, InHand
<1>9. \A u \in Threads : Fresh(u) => Fresh(u)'
  BY <1>4, <1>5 DEF Fresh, Got
<1>10. Fresh(t)'
  BY <1>5 DEF Fresh, Got
<1>11. LoadInv' /\ CacheInv' /\ ReturnInv'
  BY <1>4, <1>5, <1>9, <1>10 DEF LoadInv, CacheInv, ReturnInv, Right, TypeOK
<1> QED BY <1>2, <1>3, <1>6, <1>8, <1>11

LEMMA FailInv == \A t \in Threads : Inv /\ Fail(t) => Inv'
BY EndInv DEF Fail, Answers

LEMMA ReturnStepInv == \A t \in Threads : Inv /\ Return(t) => Inv'
<1> SUFFICES ASSUME NEW t \in Threads, Inv, Return(t) PROVE Inv'
  OBVIOUS
<1> DEFINE result == IF want[t] \in {Latest, predictor["metadata"]} THEN predictor ELSE Mismatch
<1>1. result \in Answers
  BY DEF Inv, TypeOK, Answers
<1>2. End(t, result) /\ UNCHANGED <<disk, globals, clean>>
  BY DEF Return
<1> QED BY <1>1, <1>2, EndInv

LEMMA StatModelInv == \A t \in Threads : Inv /\ StatModel(t) => Inv'
<1> SUFFICES ASSUME NEW t \in Threads, Inv, StatModel(t), ~Missing("model") PROVE Inv'
  BY FailInv DEF StatModel, Stat
<1> USE DEF Inv, StatModel, Stat, GoTo, disk, globals, ghosts
<1>1. TypeOK'
  BY DEF TypeOK, Signatures, Names
<1>2. FilesInv'
  BY DEF FilesInv
<1>3. \A u \in Threads : u # t => pc'[u] = pc[u] /\ taken'[u] = taken[u]
  BY DEF TypeOK
<1>4. pc[t] = "statModel" /\ pc'[t] = "statMetadata"
      /\ taken'[t]["model"] = files["model"] /\ taken'[t]["metadata"] = taken[t]["metadata"]
  BY DEF TypeOK, Signatures, Names
<1>5. PastInv'
  <2>1. Past(taken[t])'
    BY <1>4 DEF PastInv, Past, Names
  <2> QED BY <2>1, <1>3 DEF PastInv, Past
<1>6. InHand' = InHand
  BY <1>3, <1>4 DEF InHand, Loading
<1>7. HandInv' /\ QuietInv'
  BY <1>3, <1>4, <1>6 DEF HandInv, QuietInv, Loading, TypeOK
<1>8. \A u \in Threads : Fresh(u) => Fresh(u)'
  BY <1>3, <1>4 DEF Fresh, Got
<1>9. Fresh(t)'
  BY <1>4 DEF Fresh, Got
<1>10. LoadInv' /\ CacheInv' /\ ReturnInv'
  BY <1>3, <1>4, <1>8, <1>9 DEF LoadInv, CacheInv, ReturnInv, Right, TypeOK
<1> QED BY <1>1, <1>2, <1>5, <1>7, <1>10

LEMMA StatMetadataInv == \A t \in Threads : Inv /\ StatMetadata(t) => Inv'
<1> SUFFICES ASSUME NEW t \in Threads, Inv, StatMetadata(t), ~Missing("metadata") PROVE Inv'
  BY FailInv DEF StatMetadata, Stat
<1> USE DEF Inv, StatMetadata, Stat, GoTo, disk, globals, ghosts
<1>1. TypeOK'
  BY DEF TypeOK, Signatures, Names
<1>2. FilesInv'
  BY DEF FilesInv
<1>3. \A u \in Threads : u # t => pc'[u] = pc[u] /\ taken'[u] = taken[u]
  BY DEF TypeOK
<1>4. pc[t] = "statMetadata" /\ pc'[t] = "compare"
      /\ taken'[t]["model"] = taken[t]["model"] /\ taken'[t]["metadata"] = files["metadata"]
  BY DEF TypeOK, Signatures, Names
<1>5. PastInv'
  <2>1. Past(taken[t])'
    BY <1>4 DEF PastInv, Past, Names
  <2> QED BY <2>1, <1>3 DEF PastInv, Past
<1>6. InHand' = InHand
  BY <1>3, <1>4 DEF InHand, Loading
<1>7. HandInv' /\ QuietInv'
  BY <1>3, <1>4, <1>6 DEF HandInv, QuietInv, Loading, TypeOK
<1>8. \A u \in Threads : Fresh(u) => Fresh(u)'
  BY <1>3, <1>4 DEF Fresh, Got
<1>9. Fresh(t)'
  BY <1>4 DEF Fresh, Got
<1>10. LoadInv' /\ CacheInv' /\ ReturnInv'
  BY <1>3, <1>4, <1>8, <1>9 DEF LoadInv, CacheInv, ReturnInv, Right, TypeOK
<1> QED BY <1>1, <1>2, <1>5, <1>7, <1>10

LEMMA CompareInv == \A t \in Threads : Inv /\ Compare(t) => Inv'
<1> SUFFICES ASSUME NEW t \in Threads, Inv, Compare(t) PROVE Inv'
  OBVIOUS
<1> USE DEF Inv, Compare, GoTo, disk, globals
<1>1. TypeOK'
  BY DEF TypeOK, Loading
<1>2. FilesInv' /\ PastInv'
  BY DEF FilesInv, PastInv, Past
<1>3. \A u \in Threads : u # t => pc'[u] = pc[u]
  BY DEF TypeOK
<1>4. pc[t] = "compare" /\ pc'[t] \in {"readModel", "return"}
  BY DEF TypeOK
<1>5. QuietInv'
  BY <1>3, <1>4 DEF QuietInv, Loading, TypeOK
<1>6. \A u \in Threads : Fresh(u) => Fresh(u)'
  BY <1>3, <1>4 DEF Fresh, Got
<1>7. Fresh(t)'
  BY <1>4 DEF Fresh, Got
<1>8. CASE predictor = Nothing \/ signature # taken[t]
  <2>1. pc'[t] = "readModel"
    BY <1>8 DEF TypeOK
  <2>2. InHand' = InHand \cup {t}
    BY <1>3, <2>1 DEF InHand, Loading
  <2>3. HandInv'
    <3>1. (alone' = {t} /\ InHand' = {t}) \/ (alone' = {} /\ ~clean')
      BY <1>8, <2>2
    <3> QED BY <2>1, <3>1 DEF HandInv
  <2>4. \A u \in alone' : u = t
    BY <1>8
  <2>5. LoadInv' /\ CacheInv' /\ ReturnInv'
    BY <1>3, <1>6, <1>7, <1>8, <2>1, <2>4 DEF LoadInv, CacheInv, ReturnInv, Right, TypeOK
  <2> QED BY <1>1, <1>2, <1>5, <2>3, <2>5
<1>9. CASE ~(predictor = Nothing \/ signature # taken[t])
  <2>1. pc'[t] = "return" /\ UNCHANGED <<alone, clean>>
    BY <1>9 DEF TypeOK
  <2>2. InHand' = InHand
    BY <1>3, <1>4, <2>1 DEF InHand, Loading
  <2>3. HandInv'
    <3>1. \A u \in Threads : /\ pc'[u] \in Loading => pc[u] \in Loading
                             /\ pc'[u] = "storeSignature" => pc[u] = "storeSignature"
      BY <1>3, <2>1 DEF Loading
    <3> QED BY <2>1, <2>2, <3>1 DEF HandInv, TypeOK
  <2>4. t \in quiet => signature = files
    BY <1>4, <1>9 DEF QuietInv, TypeOK, Signatures, Names
  <2>5. LoadInv' /\ CacheInv'
    BY <1>3, <1>6, <1>7, <2>1, <2>4 DEF LoadInv, CacheInv, Right, TypeOK
  <2>6. ReturnInv'
    BY <1>3, <1>9, <2>1, <2>4 DEF CacheInv, ReturnInv, Right, TypeOK
  <2> QED BY <1>1, <1>2, <1>5, <2>3, <2>5, <2>6
<1> QED BY <1>8, <1>9

\* A request that reads one of the two files of its load.
LEMMA ReadInv ==
  ASSUME Inv, NEW t \in Threads, NEW f \in Names, NEW next \in Loading, Read(t, f, next),
         \/ pc[t] = "readModel" /\ f = "model" /\ next = "readMetadata"
         \/ pc[t] = "readMetadata" /\ f = "metadata" /\ next = "storePredictor"
  PROVE  Inv'
<1> SUFFICES ASSUME files[f].whole PROVE Inv'
  BY FailInv DEF Read
<1> USE DEF Inv, Read, GoTo, disk, globals, ghosts
<1>1. files[f] \in Contents /\ files[f].run \in 0..MaxRuns
  BY DEF TypeOK, Signatures, Contents
<1>2. TypeOK'
  <2>1. [loaded[t] EXCEPT ![f] = files[f].run] \in Predictors
    BY <1>1 DEF TypeOK, Predictors
  <2>2. loaded' \in [Threads -> Predictors]
    BY <2>1 DEF TypeOK
  <2> QED BY <2>2 DEF TypeOK
<1>3. FilesInv' /\ PastInv'
  BY DEF FilesInv, PastInv, Past
<1>4. \A u \in Threads : u # t => pc'[u] = pc[u] /\ loaded'[u] = loaded[u]
  BY DEF TypeOK
<1>5. pc'[t] = next /\ pc[t] \in Loading
  BY DEF TypeOK, Loading
<1>6. loaded'[t][f] = files[f].run /\ \A g \in Names \ {f} : loaded'[t][g] = loaded[t][g]
  BY DEF TypeOK, Predictors
<1>7. InHand' = InHand
  BY <1>4, <1>5 DEF InHand
<1>8. HandInv' /\ QuietInv'
  <2>1. \A u \in Threads : pc'[u] \in Loading => pc[u] \in Loading
    BY <1>4, <1>5
  <2>2. \A u \in Threads : pc'[u] = "storeSignature" => u # t
    BY <1>5
  <2>3. HandInv'
    BY <1>4, <1>7, <2>1, <2>2 DEF HandInv, TypeOK
  <2>4. QuietInv'
    BY <1>4, <1>5 DEF QuietInv, Loading, TypeOK
  <2> QED BY <2>3, <2>4
<1>9. \A u \in Threads : Fresh(u) => Fresh(u)'
  <2>1. Fresh(t) => Fresh(t)'
    BY <1>5, <1>6 DEF Fresh, Got, Names
  <2>2. \A u \in Threads : u # t => (Fresh(u) => Fresh(u)')
    BY <1>4 DEF Fresh, Got
  <2> QED BY <2>1, <2>2
<1>10. LoadInv' /\ CacheInv' /\ ReturnInv'
  <2>1. next # "return"
    OBVIOUS
  <2> QED BY <1>4, <1>5, <1>9, <2>1 DEF LoadInv, CacheInv, ReturnInv, Right, TypeOK
<1> QED BY <1>2, <1>3, <1>8, <1>10

LEMMA ReadModelInv == \A t \in Threads : Inv /\ ReadModel(t) => Inv'
<1> SUFFICES ASSUME NEW t \in Threads, Inv, ReadModel(t) PROVE Inv'
  OBVIOUS
<1>1. Read(t, "model", "readMetadata") /\ pc[t] = "readModel"
  BY DEF ReadModel
<1>2. "model" \in Names /\ "readMetadata" \in Loading
  BY DEF Names, Loading
<1> QED BY <1>1, <1>2, ReadInv

LEMMA ReadMetadataInv == \A t \in Threads : Inv /\ ReadMetadata(t) => Inv'
<1> SUFFICES ASSUME NEW t \in Threads, Inv, ReadMetadata(t) PROVE Inv'
  OBVIOUS
<1>1. Read(t, "metadata", "storePredictor") /\ pc[t] = "readMetadata"
  BY DEF ReadMetadata
<1>2. "metadata" \in Names /\ "storePredictor" \in Loading
  BY DEF Names, Loading
<1> QED BY <1>1, <1>2, ReadInv

\* A load that has read both files and is alone or whose signature is still that
\* of the files holds the predictor of the files.
LEMMA FreshIsRight ==
  ASSUME TypeOK, NEW t \in Threads, pc[t] \in {"storePredictor", "storeSignature"}, Fresh(t)
  PROVE  /\ \A f \in Names : files[f].whole
         /\ loaded[t] = [f \in Names |-> files[f].run]
<1>1. loaded[t] = [f \in Names |-> loaded[t][f]]
  BY DEF TypeOK, Predictors
<1>2. \A f \in Names : files[f].whole /\ loaded[t][f] = files[f].run
  BY DEF Fresh, Got
<1> QED BY <1>1, <1>2

LEMMA StorePredictorInv == \A t \in Threads : Inv /\ StorePredictor(t) => Inv'
<1> SUFFICES ASSUME NEW t \in Threads, Inv, StorePredictor(t) PROVE Inv'
  OBVIOUS
<1> USE DEF Inv, StorePredictor, GoTo, disk, ghosts
<1>1. TypeOK'
  BY DEF TypeOK, Loading
<1>2. FilesInv' /\ PastInv'
  BY DEF FilesInv, PastInv, Past
<1>3. \A u \in Threads : u # t => pc'[u] = pc[u]
  BY DEF TypeOK
<1>4. pc[t] = "storePredictor" /\ pc'[t] = "storeSignature"
  BY DEF TypeOK
<1>5. InHand' = InHand /\ t \in InHand
  BY <1>3, <1>4 DEF InHand, Loading
<1>6. HandInv'
  <2>1. \A u \in alone : pc'[u] \in Loading => InHand' = {u}
    BY <1>3, <1>4, <1>5 DEF HandInv, Loading, TypeOK
  <2>2. \A u \in alone : pc'[u] = "storeSignature" => u = t
    BY <1>5, <2>1 DEF Loading
  <2> QED BY <1>5, <2>1, <2>2 DEF HandInv
<1>7. QuietInv'
  BY <1>3, <1>4 DEF QuietInv, Loading, TypeOK
<1>8. \A u \in Threads : Fresh(u) => Fresh(u)'
  BY <1>3, <1>4 DEF Fresh, Got
<1>9. LoadInv'
  BY <1>3, <1>4, <1>8 DEF LoadInv, TypeOK
<1>10. clean => t \in alone
  BY <1>5 DEF HandInv
<1>11. Fresh(t) => Right'
  BY <1>4, FreshIsRight DEF Right
<1>12. CacheInv' /\ ReturnInv'
  BY <1>3, <1>4, <1>10, <1>11 DEF LoadInv, CacheInv, ReturnInv, TypeOK
<1> QED BY <1>1, <1>2, <1>6, <1>7, <1>9, <1>12

LEMMA StoreSignatureInv == \A t \in Threads : Inv /\ StoreSignature(t) => Inv'
<1> SUFFICES ASSUME NEW t \in Threads, Inv, StoreSignature(t) PROVE Inv'
  OBVIOUS
<1> USE DEF Inv, StoreSignature, GoTo, disk
<1>1. TypeOK'
  BY DEF TypeOK, Loading
<1>2. FilesInv' /\ PastInv'
  BY DEF FilesInv, PastInv, Past, TypeOK
<1>3. \A u \in Threads : u # t => pc'[u] = pc[u]
  BY DEF TypeOK
<1>4. pc[t] = "storeSignature" /\ pc'[t] = "return"
  BY DEF TypeOK
<1>5. t \in InHand /\ InHand' = InHand \ {t}
  BY <1>3, <1>4 DEF InHand, Loading
<1>6. \A u \in alone : pc'[u] \notin Loading
  <2>1. \A u \in alone : u # t => pc[u] \notin Loading
    BY <1>5 DEF HandInv
  <2> QED BY <1>3, <1>4, <2>1 DEF Loading, TypeOK
<1>7. t \in alone => InHand = {t} /\ predictor = loaded[t]
  BY <1>4 DEF HandInv, Loading
<1>8. clean => t \in alone
  BY <1>5 DEF HandInv
<1>9. HandInv'
  BY <1>5, <1>6, <1>7, <1>8 DEF HandInv, Loading
<1>10. QuietInv'
  BY <1>3, <1>4 DEF QuietInv, Loading, TypeOK
<1>11. \A u \in Threads : Fresh(u) => Fresh(u)'
  BY <1>3, <1>4 DEF Fresh, Got
<1>12. \A u \in alone : Fresh(u)'
  BY <1>6 DEF Fresh, Got, Loading
<1>13. LoadInv'
  BY <1>11, <1>12 DEF LoadInv
<1>14. t \in alone /\ Fresh(t) => Right'
  BY <1>4, <1>7, FreshIsRight DEF Right
<1>15. CacheInv'
  BY <1>8, <1>14 DEF LoadInv, CacheInv
<1>16. ReturnInv'
  <2> SUFFICES ASSUME NEW u \in quiet, pc'[u] = "return", t \in alone PROVE Right'
    BY <1>8 DEF ReturnInv
  <2>1. CASE u = t
    <3>1. taken[t] = files
      BY <1>4, <2>1 DEF QuietInv, Loading, TypeOK, Signatures, Names
    <3> QED BY <1>14, <3>1 DEF LoadInv
  <2>2. CASE u # t
    BY <1>3, <1>14, <2>2 DEF LoadInv, TypeOK
  <2> QED BY <2>1, <2>2
<1> QED BY <1>1, <1>2, <1>9, <1>10, <1>13, <1>15, <1>16

------------------------------------------------------------------------------
(* The theorems                                                             *)

LEMMA StutterInv == Inv /\ UNCHANGED vars => Inv'
<1> SUFFICES ASSUME Inv, UNCHANGED vars PROVE Inv'
  OBVIOUS
<1> USE DEF Inv, vars, disk, globals, local, ghosts
<1>1. TypeOK' /\ FilesInv' /\ PastInv'
  BY DEF TypeOK, FilesInv, PastInv, Past
<1>2. HandInv' /\ QuietInv'
  BY DEF HandInv, InHand, QuietInv
<1>3. LoadInv' /\ CacheInv' /\ ReturnInv'
  BY DEF LoadInv, CacheInv, ReturnInv, Fresh, Got, Right
<1> QED BY <1>1, <1>2, <1>3

LEMMA StepInv == Inv /\ [Next]_vars => Inv'
BY TrainInv, KillInv, OpenInv, CloseInv, BeginInv, StatModelInv, StatMetadataInv,
   CompareInv, ReadModelInv, ReadMetadataInv, StorePredictorInv, StoreSignatureInv,
   ReturnStepInv, StutterInv
   DEF Next, Training, Score

LEMMA Invariance == Spec => []Inv
BY InitInv, StepInv, PTL DEF Spec

\* The types of the cache hold always, and the metadata file is never from a later
\* training than the model file beside it (train_lightgbm_ctr.py writes the model
\* first and may be killed between the two).
THEOREM TypeCorrect == Spec => []TypeOK
<1>1. Inv => TypeOK
  BY DEF Inv
<1> QED BY <1>1, Invariance, PTL

\* What a request answers in a step that ends it.
LEMMA RightAnswer ==
  ASSUME Inv, [Next]_vars, NEW t \in Threads,
         answer[t] = Nothing, answer'[t] # Nothing, t \in quiet, clean
  PROVE  answer'[t] = FromTheFiles(want[t])
<1>1. PICK u \in Threads : Score(u)
  BY DEF Next, Training, Train, Kill, Open, Close, Write, vars, local
<1>2. u = t
  <2> SUFFICES ASSUME u # t PROVE answer'[t] = answer[t]
    BY <1>1
  <2>1. \A r : End(u, r) => answer'[t] = answer[t]
    BY DEF End, Inv, TypeOK
  <2>2. \A v \in Wanted : Begin(u, v) => answer'[t] = answer[t]
    BY DEF Begin, Inv, TypeOK
  <2>3. StatModel(u) \/ StatMetadata(u) => answer'[t] = answer[t]
    BY <2>1 DEF StatModel, StatMetadata, Stat, Fail
  <2>4. ReadModel(u) \/ ReadMetadata(u) => answer'[t] = answer[t]
    BY <2>1 DEF ReadModel, ReadMetadata, Read, Fail
  <2>5. Compare(u) \/ StorePredictor(u) \/ StoreSignature(u) => answer'[t] = answer[t]
    BY DEF Compare, StorePredictor, StoreSignature
  <2>6. Return(u) => answer'[t] = answer[t]
    BY <2>1 DEF Return
  <2> QED BY <1>1, <2>2, <2>3, <2>4, <2>5, <2>6 DEF Score
<1>3. Score(t)
  BY <1>1, <1>2
<1>4. CASE Return(t)
  <2>1. Right
    BY <1>4 DEF Return, Inv, ReturnInv
  <2>2. answer'[t] = IF want[t] \in {Latest, predictor["metadata"]} THEN predictor ELSE Mismatch
    BY <1>4 DEF Return, End, Inv, TypeOK
  <2> QED BY <2>1, <2>2 DEF Right, FromTheFiles, Names
<1>5. ASSUME NEW f \in Names, Fail(t), ~files[f].whole
      PROVE  answer'[t] = FromTheFiles(want[t])
  BY <1>5 DEF Fail, End, FromTheFiles, Inv, TypeOK
<1>6. CASE StatModel(t) \/ StatMetadata(t)
  <2>1. \E f \in Names : Missing(f) /\ Fail(t)
    BY <1>6 DEF StatModel, StatMetadata, Stat, Names
  <2> QED BY <1>5, <2>1 DEF Missing, Inv, FilesInv
<1>7. CASE ReadModel(t) \/ ReadMetadata(t)
  <2>1. \E f \in Names : ~files[f].whole /\ Fail(t)
    BY <1>7 DEF ReadModel, ReadMetadata, Read, Names
  <2> QED BY <1>5, <2>1
<1>8. ~Compare(t) /\ ~StorePredictor(t) /\ ~StoreSignature(t) /\ \A v \in Wanted : ~Begin(t, v)
  BY DEF Compare, StorePredictor, StoreSignature, Begin, Inv, TypeOK
<1> QED BY <1>3, <1>4, <1>6, <1>7, <1>8 DEF Score

\* A request during which no file changes is answered from the two files as they
\* are, unless two loads of get_ctr_predictor overlapped and none has been alone
\* since.
THEOREM AnswersRight == Spec => AnswersFromTheFiles
<1>1. Inv /\ [Next]_vars =>
        [\A t \in Threads :
           answer[t] = Nothing /\ answer'[t] # Nothing /\ t \in quiet /\ clean =>
             answer'[t] = FromTheFiles(want[t])]_vars
  BY RightAnswer
<1> QED BY <1>1, Invariance, PTL DEF Spec, AnswersFromTheFiles
=============================================================================
