\* A prompt about which the structurer only has a question.
SPECIFICATION Spec
CONSTANTS
  Markers <- MCMarkers
  Default = default
  Prompts <- PlainPrompts
  MaxRetries = 2
  m1 = m1
  m2 = m2
  default = default
INVARIANT
  QuestionReachesTheUser
CHECK_DEADLOCK FALSE
