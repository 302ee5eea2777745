\* One client, as the README asks of a host; cancel and trim from elsewhere.
\* The system may stop once the engine is destroyed.
SPECIFICATION Spec
CONSTANTS
  Clients = {c1}
  NoClient = NoClient
  Trimmer = Trimmer
  Flags <- OneFlags
  MaxTokens = 2
  MaxSegments = 3
INVARIANT
  CancelInsideHonoured
CHECK_DEADLOCK FALSE
