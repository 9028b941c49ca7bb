SPECIFICATION Spec
CONSTANTS
  Accounts = {a1}
  Clients = {stream}
  Streaming = {stream}
  Anthropic = {}
  Opening <- MCOpening
  Calls <- MCCalls
  Texts = {1}
  SeedThreshold = 7
  MaxMessages = 4
  MaxSessions = 2
  MaxEvents = 0
PROPERTIES CorruptNeverResent
CHECK_DEADLOCK FALSE
