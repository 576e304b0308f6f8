SPECIFICATION Spec
CONSTANTS
  None = None
  Drifted = Drifted
  party = party
  amount = amount
  other = other
  Runs = {r1}
  Contents = {d1, d2}
  Claims = {party}
  Critical = {party}
  Eligible = {party}
  EvidenceSets <- MCEvidenceSets
  FolderIds = {"folder"}
PROPERTY
  DecisionKeepsVerifiedPdf
