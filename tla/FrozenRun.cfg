SPECIFICATION Spec
CONSTANTS
  None = None
  Drifted = Drifted
  party = party
  amount = amount
  other = other
  Runs = {r1}
  Contents = {d1}
  Claims = {party}
  Critical = {}
  Eligible = {party}
  EvidenceSets <- MCEvidenceSets
  FolderIds = {"folder"}
PROPERTY
  ApprovedRunIsFrozen
