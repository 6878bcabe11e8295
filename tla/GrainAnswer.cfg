\* The promise of the policy document about ambiguities of high risk.
SPECIFICATION FairSpec
CONSTANTS
  Clauses <- MCClauses
  Reports <- MCReports
  KindOf <- MCKindOf
  SlotOf <- MCSlotOf
  Overlaps <- MCOverlaps
  Rank <- MCRank
  Policies <- MCPolicies
  Plans <- MCPlans
  MaxQuestions = 3
  MaxRounds = 8
  c1 = c1
  c2 = c2
  period = period
  otherPeriod = otherPeriod
  product = product
  brand = brand
  vague = vague
  loose = loose
  missingAsset = missingAsset
INVARIANT
  HighRiskNeedsItsOwnAnswer
