SPECIFICATION Spec
CONSTANTS
  r1 = r1
  r2 = r2
  f1 = f1
  f2 = f2
  Responses <- MCResponses
  Findings <- MCFindings
  FindingsOn <- MCFindingsOn
  Native <- MCNative
  None = None
  Frozen = TRUE
  MaxCrashes = 1
INVARIANTS OneExperiencePerSentTurn OnlyAcceptedIsLearned
PROPERTIES AcceptedIsLearned
