SPECIFICATION Spec
CONSTANTS
  None = None
  Pasted = Pasted
  Users = {u1, u2}
  UploadIds = {a, b}
  Runs = {r1, r2}
  Contents <- MCContents
  ItemLists <- MCItemLists
  MaxSessions = 1
SYMMETRY MCSymmetry
INVARIANTS
  TypeOK
  EvidenceIsOwn
  NothingIsLeftOut
  RecordsHaveFiles
PROPERTIES
  UploadsAreTheirOwners
