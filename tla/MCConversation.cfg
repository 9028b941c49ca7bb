SPECIFICATION Spec
CONSTANTS
  Accounts = {a1, a2}
  Clients = {chat, stream}
  Streaming = {stream}
  Anthropic = {stream}
  Opening <- MCOpening
  Calls <- MCCalls
  Texts = {1}
  SeedThreshold = 3
  MaxMessages = 3
  MaxSessions = 2
  MaxEvents = 1
INVARIANTS TypeOK NoForeignConversation OwnerHasConversation
PROPERTIES CallsTellApart
CHECK_DEADLOCK FALSE
SYMMETRY Symmetry
