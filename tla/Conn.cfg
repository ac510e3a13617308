CONSTANTS
  Callers = {c1}
  Handles = {h1, h2}
  NoHandle = NoHandle
  Operations = {"connect", "disconnect", "execute", "uuid", "compile", "step", "bind", "parameter", "finalize"}
  ReplyKinds = {"ok", "sqlerr", "malformed", "redirect", "reconnect", "unknown"}
  MaxCommands = 5
  ConfigCommands = TRUE
  Readonly = TRUE
  Timeout = TRUE
  Tls = FALSE
  Serialized = TRUE
SPECIFICATION FairSpec
INVARIANTS AnswerMatchesCommand ErrorIsOwn  UuidIsAnAnswer OnlyVMsDangle FailedConnectLeavesNothing ConnectReportsFailure
PROPERTIES EveryCallReturns
CHECK_DEADLOCK FALSE
