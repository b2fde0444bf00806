SPECIFICATION Spec
CONSTANTS
  Requests = {r1, r2}
  Models = {fast, large}
  FastModel = fast
  LargeModel = large
  FallbackModel = fast
  TokenThreshold = 2
  Questions <- MCQuestions
  Prompts <- MCPrompts
  Text <- MCText
  Normal <- MCNormal
  Length <- MCLength
  Bodies <- MCBodies
  TTL = 2
  Deadline = 2
  None = none
INVARIANTS
  TypeOK
  AnswersFit
  OutagesAreForgotten
SYMMETRY
  Symmetry
