\* One request from prompt to answer: two markers, two completions a call, two
\* variants, two attempts at the messages.
SPECIFICATION FairRequestSpec
CONSTANTS
  Markers <- MCMarkers
  Default = default
  Prompts <- MCPrompts
  MaxRetries = 1
  Variants <- MCVariants
  Texts = {t1, t2}
  NoText = noText
  MaxAttempts = 2
  Requests <- MCRequests
  Failings <- MCFailings
  m1 = m1
  m2 = m2
  default = default
  benefit = benefit
  urgency = urgency
  t1 = t1
  t2 = t2
  noText = noText
INVARIANTS
  RequestTypeOK
  DefaultHidesNothing
  FailureKeepsItsName
  
  MessagesAreWhole
PROPERTIES
  SqlIsFinal
  ImplementsPromise
  EveryRequestEnds
\* A request that was answered is over.
CHECK_DEADLOCK FALSE
