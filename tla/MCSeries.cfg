SPECIFICATION Spec
CONSTANTS
  PieDocs <- MCPieDocs
  NodeDocs <- MCNodeDocs
  Lower <- MCLower
  EtaParts <- MCEtaParts
INVARIANTS
  NoDuplicates
  NothingMissing
  CountsAgree
CHECK_DEADLOCK FALSE
