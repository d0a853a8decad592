SPECIFICATION FairAssistantSpec
CONSTANTS
    Chats = {old, new}
    Old = {old}
    NoChat = NoChat
    Sends = {s1, s2}
    LoadSlots = {l1}
    MaxNewChats = 1
    Clicks <- Everything
INVARIANTS AssistantTypeOK OneSendPerChat ScreenIsRemembered
PROPERTY EverySendEnds
CHECK_DEADLOCK FALSE
