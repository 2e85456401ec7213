SPECIFICATION Spec
CONSTANTS
  Target = {d1, d2}
  Actor = {a1}
  Request = {r1}
  Duration = 1
  MaxPerActor = 1
  MaxTokens = 1
  Elsewhere = {d2}
  MaxTime = 1
  MaxLives = 2
  MaxIssued = 2
  MaxFences = 2
INVARIANTS
  TypeOK
  GrantsOfTheLiving
  GrantsOfTheAuthenticated
  AnswersAreOfTheGrant
PROPERTIES
  NoAnswerAfterDelete
SYMMETRY Alike
CHECK_DEADLOCK FALSE
