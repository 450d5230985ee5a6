SPECIFICATION AssistantSpec
CONSTANTS
  policy = policy
  Versions <- OneVersion
  MaxCalls = 3
INVARIANTS AssistantTypeOK HistoryOfOneConversation RememberedIsLive RevokedIsForgotten PageIsOneConversation
