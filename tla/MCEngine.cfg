\* Two threads call one engine at will, a third cancels and trims.  The system
\* may stop: nothing is possible once the engine is destroyed.
SPECIFICATION FairSpec
CONSTANTS
  Clients = {c1, c2}
  NoClient = NoClient
  Trimmer = Trimmer
  Flags <- ModelFlags
  MaxTokens = 1
  MaxSegments = 3
INVARIANTS
  TypeOK
  OneModelAtATime
  NativeObjectsOwned
  CallbackExactlyWhenOk
  CancelBeforeCheckHonoured
  FailureLeavesMessage
PROPERTIES
  ImplementsService
  ImplementsFairService
CHECK_DEADLOCK FALSE
