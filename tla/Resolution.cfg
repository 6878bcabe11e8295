\* Every dialogue about prompts with two clauses, one question at a time.
SPECIFICATION FairSpec
CONSTANTS
  Clauses <- MCClauses
  Reports <- MCReports
  KindOf <- MCKindOf
  SlotOf <- MCSlotOf
  Overlaps <- MCOverlaps
  Rank <- MCRank
  Policies <- MCPolicies
  Plans <- MCPlans
  MaxQuestions = 1
  MaxRounds = 8
  c1 = c1
  c2 = c2
  period = period
  otherPeriod = otherPeriod
  product = product
  brand = brand
  vague = vague
  loose = loose
  missingAsset = missingAsset
INVARIANTS
  TypeOK
  NeverRaised
  SqlHasItsReceipts
  DecidedIsNotAsked
  NoAnswerVanishes
PROPERTIES
  AnsweredDialogueReachesSql
