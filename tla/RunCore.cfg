SPECIFICATION Spec
CONSTANTS
  None = None
  Drifted = Drifted
  party = party
  amount = amount
  other = other
  Runs = {r1}
  Contents = {d1, d2}
  Claims = {party, other}
  Critical = {party}
  Eligible = {party, other}
  EvidenceSets <- MCEvidenceSets
  FolderIds = {"folder"}
SYMMETRY ContentSymmetry
INVARIANTS
  TypeOK
  AtMostOneDispatch
  DispatchIsRecorded
  LatestReceiptIsTrue
  SentReceiptsAreEarned
  ServedReceiptPdfIsCurrent
  ReplayAgreesWithVerify
  VerifiedReplayIsCurrent
  TimelineTellsLifecycle
PROPERTIES
  ImplementsAuthorizedSend
  ImplementsRunDecisions
