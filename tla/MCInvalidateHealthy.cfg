SPECIFICATION Spec
CONSTANTS
  Accounts = {a1}
  Clients = {chat, other}
  Streaming = {}
  Anthropic = {}
  Opening <- MCOpening
  Calls <- MCCalls
  Texts = {1}
  SeedThreshold = 7
  MaxMessages = 3
  MaxSessions = 2
  MaxEvents = 0
PROPERTIES InvalidationSparesTheHealthy
CHECK_DEADLOCK FALSE
