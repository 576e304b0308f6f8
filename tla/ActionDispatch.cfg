SPECIFICATION Spec

CONSTANTS
  party = party
  other = other
  h1 = h1
  h2 = h2
  Proposals <- MCProposals
  Ids = {"run"}
  Types <- MCTypes
  Targets = {party, other}
  Blank = other
  ParameterSets <- MCParameterSets
  ArtifactLists <- MCArtifactLists
  Hashes = {h1, h2}
  None = None
  Files = {"agreement", "changed", "junk"}
  Pdfs = {"agreement", "changed"}
  RefusalReplies = {"ERROR", "LOST"}
  MaxEdits = 2
  MaxCalls = 2

INVARIANTS
  TypeOK
  ApprovalBindsTheAction
  HarmlessEditsKeepTheApproval
  OnlySignaturesLeaveATrace
  ReportsAreTrue

PROPERTY
  ImplementsSenderPromise
