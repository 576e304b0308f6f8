SPECIFICATION FairSpec
CONSTANTS
  None = None
  Drifted = Drifted
  party = party
  amount = amount
  other = other
  Runs = {r1}
  Contents = {d1}
  Claims = {party, other}
  Critical = {party}
  Eligible = {party, other}
  EvidenceSets <- MCEvidenceSets
  FolderIds = {"folder", ""}
INVARIANTS
  ChainIsLinear
PROPERTIES
  SearchesEnd
  ApprovalIsSettled
