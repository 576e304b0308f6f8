SPECIFICATION Spec

CONSTANTS
  first = first
  second = second
  joint = joint
  name = name
  Texts <- MCTexts
  Estimates = {1, 2, 3}
  Lines = {first, second, joint}
  Joint = joint
  Facts = {"f", "g"}
  Names = {name}
  AnswerIds <- MCAnswerIds
  MaxClaims = 2
  MaxPages = 2
  MaxCharacters = 10
  OcrDensity = 1
  LowDensity = 2
  None = None

CHECK_DEADLOCK FALSE

INVARIANTS
  TypeOK
  ChunksShowTheText
  ChunksKeepLimits
  NoFindingIsLost
  PageNumbersAreTrue
  IdentifiersStayApart
