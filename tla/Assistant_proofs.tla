-------------------------- MODULE Assistant_proofs --------------------------
(***************************************************************************)
(* What the chat keeps true for any conversations, any number of questions *)
(* and transcripts on their way, and whatever the user clicks.             *)
(***************************************************************************)
EXTENDS Assistant, TLAPS

Waiting == {sends[s].chat : s \in {t \in Sends : Running(t)}}

SendStates == [phase : {"idle", "auth"}, chat : {NoChat}] \union [phase : Asking, chat : Chats]

AssistantInv == AssistantTypeOK /\ OneSendPerChat /\ ScreenIsRemembered

----------------------------------------------------------------------------
(* A chat that did not wait gets the one question that it waits for.       *)
LEMMA StartKeepsSingle ==
    ASSUME AssistantInv, NEW s \in Sends, SendStarts(s)
    PROVE  /\ pendingSendIds' \subseteq Chats
           /\ sends' \in [Sends -> SendStates]
           /\ OneSendPerChat'
<1> USE DEF AssistantInv
<1>1. PICK c \in Chats \union {NoChat} :
         /\ EnsureConversation(c) /\ MayStart(c)
         /\ pendingSendIds' = pendingSendIds \union {c}
         /\ sends' = [sends EXCEPT ![s] = [phase |-> "touch", chat |-> c]]
  BY DEF SendStarts
<1>2. c \in Chats /\ c \notin pendingSendIds
  BY <1>1 DEF EnsureConversation, MayStart, Allocates, AssistantTypeOK
<1>3. sends \in [Sends -> SendStates]
  BY DEF AssistantTypeOK, SendStates
<1>4. sends' \in [Sends -> SendStates]
  BY <1>1, <1>2, <1>3 DEF SendStates, Asking
<1>5. ~ Running(s)
  BY DEF SendStarts, Running, Asking
<1>6. Running(s)' /\ sends'[s].chat = c
  BY <1>1, <1>3 DEF Running, Asking
<1>7. \A t \in Sends \ {s} : sends'[t] = sends[t] /\ (Running(t)' <=> Running(t))
  BY <1>1, <1>3 DEF Running
<1>8. \A t \in Sends : Running(t) => sends[t].chat # c
  BY <1>2 DEF OneSendPerChat
<1>9. pendingSendIds' = Waiting'
  <2>1. pendingSendIds = Waiting
    BY DEF OneSendPerChat, Waiting
  <2>2. ASSUME NEW x \in Waiting'
        PROVE  x \in pendingSendIds'
    BY <1>1, <1>5, <1>6, <1>7, <2>1 DEF Waiting
  <2>3. ASSUME NEW x \in pendingSendIds'
        PROVE  x \in Waiting'
    BY <1>1, <1>5, <1>6, <1>7, <2>1 DEF Waiting
  <2> QED
    BY <2>2, <2>3
<1>10. \A t, u \in Sends : Running(t)' /\ Running(u)' /\ sends'[t].chat = sends'[u].chat => t = u
  BY <1>6, <1>7, <1>8 DEF OneSendPerChat
<1> QED
  BY <1>1, <1>2, <1>4, <1>9, <1>10 DEF OneSendPerChat, Waiting, AssistantTypeOK

(* A question on its way moves on in its own chat.                         *)
LEMMA AdvanceKeepsSingle ==
    ASSUME AssistantInv, NEW s \in Sends, NEW p \in Asking, Running(s),
           sends' = [sends EXCEPT ![s].phase = p], pendingSendIds' = pendingSendIds
    PROVE  sends' \in [Sends -> SendStates] /\ OneSendPerChat'
<1> USE DEF AssistantInv
<1>1. sends \in [Sends -> SendStates]
  BY DEF AssistantTypeOK, SendStates
<1>2. sends[s] \in [phase : Asking, chat : Chats]
  BY <1>1 DEF Running, SendStates, Asking
<1>3. sends' \in [Sends -> SendStates]
  BY <1>1, <1>2 DEF SendStates
<1>4. \A t \in Sends : sends'[t].chat = sends[t].chat /\ (Running(t)' <=> Running(t))
  BY <1>1, <1>2 DEF Running
<1>5. Waiting' = Waiting
  BY <1>4 DEF Waiting
<1> QED
  BY <1>3, <1>4, <1>5 DEF OneSendPerChat, Waiting

(* The end of a question frees its chat and no other.                      *)
LEMMA EndKeepsSingle ==
    ASSUME AssistantInv, NEW s \in Sends, Running(s), EndsSend(s)
    PROVE  /\ pendingSendIds' \subseteq Chats
           /\ sends' \in [Sends -> SendStates]
           /\ OneSendPerChat'
<1> USE DEF AssistantInv
<1>1. sends \in [Sends -> SendStates]
  BY DEF AssistantTypeOK, SendStates
<1>2. sends' \in [Sends -> SendStates]
  BY <1>1 DEF EndsSend, SendStates, Unasked
<1>3. ~ Running(s)'
  BY <1>1 DEF EndsSend, Running, Unasked, Asking
<1>4. \A t \in Sends \ {s} : sends'[t] = sends[t] /\ (Running(t)' <=> Running(t))
  BY <1>1 DEF EndsSend, Running
<1>5. \A t \in Sends \ {s} : Running(t) => sends[t].chat # sends[s].chat
  BY DEF OneSendPerChat
<1>6. pendingSendIds' = Waiting'
  <2>1. pendingSendIds = Waiting /\ pendingSendIds' = pendingSendIds \ {sends[s].chat}
    BY DEF OneSendPerChat, Waiting, EndsSend
  <2>2. ASSUME NEW x \in Waiting'
        PROVE  x \in pendingSendIds'
    BY <1>3, <1>4, <1>5, <2>1 DEF Waiting
  <2>3. ASSUME NEW x \in pendingSendIds'
        PROVE  x \in Waiting'
    BY <1>4, <2>1 DEF Waiting
  <2> QED
    BY <2>2, <2>3
<1> QED
  BY <1>2, <1>3, <1>4, <1>6 DEF OneSendPerChat, Waiting, EndsSend, AssistantTypeOK

(* A question that has not marked its chat leaves the others alone.        *)
LEMMA WaitKeepsSingle ==
    ASSUME AssistantInv, NEW s \in Sends, ~ Running(s), NEW p \in {"idle", "auth"},
           sends' = [sends EXCEPT ![s] = [phase |-> p, chat |-> NoChat]],
           pendingSendIds' = pendingSendIds
    PROVE  sends' \in [Sends -> SendStates] /\ OneSendPerChat'
<1> USE DEF AssistantInv
<1>1. sends \in [Sends -> SendStates]
  BY DEF AssistantTypeOK, SendStates
<1>2. sends' \in [Sends -> SendStates]
  BY <1>1 DEF SendStates
<1>3. ~ Running(s)'
  BY <1>1 DEF Running, Asking
<1>4. \A t \in Sends \ {s} : sends'[t] = sends[t] /\ (Running(t)' <=> Running(t))
  BY <1>1 DEF Running
<1>5. Waiting' = Waiting
  BY <1>3, <1>4 DEF Waiting
<1> QED
  BY <1>2, <1>3, <1>4, <1>5 DEF OneSendPerChat, Waiting

----------------------------------------------------------------------------
LEMMA SendKeepsInv ==
    ASSUME AssistantInv, NEW s \in Sends, SendMoves(s)
    PROVE  AssistantInv'
<1> USE DEF AssistantInv, session, screen, history, questions
<1>0. sends \in [Sends -> SendStates]
  BY DEF AssistantTypeOK, SendStates
<1>1. CASE SendClicked(s)
  <2>1. ~ Running(s)
    BY <1>1 DEF SendClicked, Running, Asking, Unasked
  <2>2. sends' \in [Sends -> SendStates] /\ OneSendPerChat'
    BY <1>1, <2>1, WaitKeepsSingle DEF SendClicked
  <2> QED
    BY <1>1, <2>2 DEF SendClicked, AssistantTypeOK, SendStates, ScreenIsRemembered
<1>2. CASE SendRefused(s)
  <2>1. ~ Running(s)
    BY <1>2 DEF SendRefused, Running, Asking
  <2>2. sends' \in [Sends -> SendStates] /\ OneSendPerChat'
    BY <1>2, <2>1, WaitKeepsSingle DEF SendRefused, Unasked
  <2> QED
    BY <1>2, <2>2 DEF SendRefused, AssistantTypeOK, SendStates, ScreenIsRemembered
<1>3. CASE SendStarts(s)
  <2>1. /\ pendingSendIds' \subseteq Chats
        /\ sends' \in [Sends -> SendStates]
        /\ OneSendPerChat'
    BY <1>3, StartKeepsSingle
  <2>2. PICK c \in Chats \union {NoChat} :
           EnsureConversation(c) /\ messages' = messages \union {c}
    BY <1>3 DEF SendStarts, Adds
  <2>3. /\ c \in Chats
        /\ {conversationId', lastConv'} \subseteq Chats \union {NoChat}
        /\ used' \subseteq Chats
        /\ ScreenIsRemembered'
    BY <2>2 DEF EnsureConversation, Allocates, AssistantTypeOK, ScreenIsRemembered
  <2> QED
    BY <1>3, <2>1, <2>2, <2>3 DEF SendStarts, AssistantTypeOK, SendStates
<1>4. CASE TouchEnds(s)
  <2>1. Running(s) /\ sends[s].chat \in pendingSendIds
    BY <1>4 DEF TouchEnds, Running, Asking, OneSendPerChat
  <2>2. pendingSendIds' = pendingSendIds
    BY <1>4, <2>1 DEF TouchEnds
  <2>3. sends' \in [Sends -> SendStates] /\ OneSendPerChat'
    BY <1>4, <2>1, <2>2, AdvanceKeepsSingle DEF TouchEnds, Asking
  <2> QED
    BY <1>4, <2>2, <2>3 DEF TouchEnds, AssistantTypeOK, SendStates, ScreenIsRemembered
<1>5. CASE Streams(s)
  <2>1. Running(s)
    BY <1>5 DEF Streams, Running, Asking
  <2>2. sends' \in [Sends -> SendStates] /\ OneSendPerChat'
    BY <1>5, <2>1, AdvanceKeepsSingle DEF Streams, Asking
  <2>3. messages' \subseteq Chats
    BY <1>5, AssistantAssumption DEF Streams, AppendsAnswer, Adds, AssistantTypeOK
  <2> QED
    BY <1>5, <2>2, <2>3 DEF Streams, AssistantTypeOK, SendStates, ScreenIsRemembered
<1>6. CASE SendCompletes(s)
  <2>1. Running(s) /\ EndsSend(s)
    BY <1>6 DEF SendCompletes, Running, Asking
  <2>2. /\ pendingSendIds' \subseteq Chats
        /\ sends' \in [Sends -> SendStates]
        /\ OneSendPerChat'
    BY <2>1, EndKeepsSingle
  <2>3. messages' \subseteq Chats
    BY <1>6 DEF SendCompletes, AppendsAnswer, Adds, AssistantTypeOK
  <2> QED
    BY <1>6, <2>2, <2>3 DEF SendCompletes, AssistantTypeOK, SendStates, ScreenIsRemembered
<1>7. CASE SendBreaksOff(s)
  <2>1. Running(s) /\ EndsSend(s)
    BY <1>7 DEF SendBreaksOff, Running, Asking
  <2>2. /\ pendingSendIds' \subseteq Chats
        /\ sends' \in [Sends -> SendStates]
        /\ OneSendPerChat'
    BY <2>1, EndKeepsSingle
  <2> QED
    BY <1>7, <2>2 DEF SendBreaksOff, AssistantTypeOK, SendStates, ScreenIsRemembered
<1> QED
  BY <1>1, <1>2, <1>3, <1>4, <1>5, <1>6, <1>7 DEF SendMoves

(* Everything else leaves the questions alone, or loses them all.          *)
LEMMA SingleIsStable ==
    ASSUME OneSendPerChat, UNCHANGED questions
    PROVE  OneSendPerChat'
<1>1. sends' = sends /\ pendingSendIds' = pendingSendIds
  BY DEF questions
<1> QED
  BY <1>1 DEF OneSendPerChat, Running

LEMMA HistoryKeepsInv ==
    ASSUME AssistantInv, HistoryMoves
    PROVE  AssistantInv'
<1> USE DEF AssistantInv, session, screen, history
<1>1. ASSUME NEW l \in LoadSlots, NEW c \in Chats, OpenClicked(c, l)
      PROVE  AssistantInv'
  <2>1. loads' \in [LoadSlots -> Chats \union {NoChat}]
    BY <1>1 DEF OpenClicked, Opens, AssistantTypeOK
  <2> QED
    BY <1>1, <2>1, SingleIsStable
    DEF OpenClicked, Opens, AssistantTypeOK, ScreenIsRemembered, questions
<1>2. ASSUME NEW l \in LoadSlots, LoadAnswers(l)
      PROVE  AssistantInv'
  <2>1. loads' \in [LoadSlots -> Chats \union {NoChat}] /\ messages' \subseteq Chats
    BY <1>2 DEF LoadAnswers, Transcripts, AssistantTypeOK
  <2> QED
    BY <1>2, <2>1, SingleIsStable DEF LoadAnswers, AssistantTypeOK, ScreenIsRemembered, questions
<1>3. ASSUME NEW l \in LoadSlots, LoadFails(l)
      PROVE  AssistantInv'
  <2>1. loads' \in [LoadSlots -> Chats \union {NoChat}]
    BY <1>3 DEF LoadFails, AssistantTypeOK
  <2> QED
    BY <1>3, <2>1, SingleIsStable DEF LoadFails, AssistantTypeOK, ScreenIsRemembered, questions
<1>4. ASSUME NEW c \in Chats, RemoveClicked(c) \/ RemovalAnswers(c) \/ RemovalFails(c)
      PROVE  AssistantInv'
  BY <1>4, SingleIsStable
  DEF RemoveClicked, RemovalAnswers, RemovalFails, AssistantTypeOK, ScreenIsRemembered, questions
<1> QED
  BY <1>1, <1>2, <1>3, <1>4 DEF HistoryMoves

LEMMA NewChatKeepsInv ==
    ASSUME AssistantInv, NewChatClicked \/ NewChatStarts
    PROVE  AssistantInv'
<1> USE AssistantAssumption DEF AssistantInv, session, screen, history
<1>1. CASE NewChatClicked
  BY <1>1, SingleIsStable DEF NewChatClicked, AssistantTypeOK, ScreenIsRemembered, questions
<1>2. CASE NewChatStarts
  <2>1. CASE signedIn
    BY <1>2, <2>1, SingleIsStable
    DEF NewChatStarts, Allocates, AssistantTypeOK, ScreenIsRemembered, questions
  <2>2. CASE ~ signedIn
    BY <1>2, <2>2, SingleIsStable
    DEF NewChatStarts, AssistantTypeOK, ScreenIsRemembered, questions
  <2> QED
    BY <2>1, <2>2
<1> QED
  BY <1>1, <1>2

LEMMA RefreshTyped ==
    ASSUME AssistantInv, NEW knew \in BOOLEAN, RefreshAuth(knew)
    PROVE  /\ {signedIn', userPrincipal'} \subseteq BOOLEAN
           /\ {conversationId', lastConv'} \subseteq Chats \union {NoChat}
           /\ messages' \subseteq Chats /\ used' \subseteq Chats
           /\ ScreenIsRemembered'
BY DEF AssistantInv, RefreshAuth, Allocates, AssistantTypeOK, ScreenIsRemembered

LEMMA PageKeepsInv ==
    ASSUME AssistantInv, PageMoves
    PROVE  AssistantInv'
<1> USE DEF AssistantInv, session, screen, history
<1>1. CASE BootAuth
  BY <1>1, RefreshTyped, SingleIsStable DEF BootAuth, AssistantTypeOK, questions
<1>2. CASE BootLists \/ RestoresNothing \/ SignsInOrOut
  BY <1>2, SingleIsStable
  DEF BootLists, RestoresNothing, SignsInOrOut, AssistantTypeOK, ScreenIsRemembered, questions
<1>3. ASSUME NEW l \in LoadSlots, RestoresLast(l)
      PROVE  AssistantInv'
  <2>1. lastConv \in Chats /\ loads' \in [LoadSlots -> Chats \union {NoChat}]
    BY <1>3 DEF RestoresLast, Opens, AssistantTypeOK
  <2> QED
    BY <1>3, <2>1, SingleIsStable
    DEF RestoresLast, Opens, AssistantTypeOK, ScreenIsRemembered, questions
<1>4. CASE UserReturns
  <2>1. userPrincipal \in BOOLEAN
    BY DEF AssistantTypeOK
  <2> QED
    BY <1>4, <2>1, RefreshTyped, SingleIsStable DEF UserReturns, AssistantTypeOK, questions
<1>5. CASE Reloads
  <2>1. sends' \in [Sends -> SendStates] /\ \A s \in Sends : ~ Running(s)'
    BY <1>5 DEF Reloads, SendStates, Unasked, Running, Asking
  <2>2. OneSendPerChat'
    BY <1>5, <2>1 DEF Reloads, OneSendPerChat
  <2>3. loads' \in [LoadSlots -> Chats \union {NoChat}]
    BY <1>5 DEF Reloads
  <2>4. newChats' \in 0 .. MaxNewChats
    BY <1>5, AssistantAssumption DEF Reloads
  <2> QED
    BY <1>5, <2>1, <2>2, <2>3, <2>4
    DEF Reloads, AssistantTypeOK, ScreenIsRemembered, SendStates
<1> QED
  BY <1>1, <1>2, <1>3, <1>4, <1>5 DEF PageMoves

LEMMA InvStart == AssistantInit => AssistantInv
<1> SUFFICES ASSUME AssistantInit PROVE AssistantInv
  OBVIOUS
<1>0. sends \in [Sends -> SendStates]
  BY DEF AssistantInit, Unasked, SendStates
<1>1. AssistantTypeOK
  <2>1. lastConv \in Chats \union {NoChat} /\ used \subseteq Chats
    BY AssistantAssumption DEF AssistantInit
  <2>2. loads \in [LoadSlots -> Chats \union {NoChat}]
    BY DEF AssistantInit
  <2>3. newChats \in 0 .. MaxNewChats
    BY AssistantAssumption DEF AssistantInit
  <2> QED
    BY <1>0, <2>1, <2>2, <2>3 DEF AssistantInit, AssistantTypeOK, SendStates
<1>2. \A s \in Sends : ~ Running(s)
  BY DEF AssistantInit, Running, Unasked, Asking
<1>3. OneSendPerChat
  BY <1>2 DEF AssistantInit, OneSendPerChat
<1> QED
  BY <1>1, <1>3 DEF AssistantInv, ScreenIsRemembered, AssistantInit

LEMMA InvStep == AssistantInv /\ [AssistantNext]_chatVars => AssistantInv'
<1> SUFFICES ASSUME AssistantInv, [AssistantNext]_chatVars PROVE AssistantInv'
  OBVIOUS
<1>1. CASE UNCHANGED chatVars
  BY <1>1, SingleIsStable
  DEF AssistantInv, chatVars, session, screen, history, questions, AssistantTypeOK,
      ScreenIsRemembered
<1> QED
  BY <1>1, HistoryKeepsInv, NewChatKeepsInv, SendKeepsInv, PageKeepsInv DEF AssistantNext

THEOREM AssistantSound == AssistantSpec => []AssistantInv
BY InvStart, InvStep, PTL DEF AssistantSpec

----------------------------------------------------------------------------
(* Every variable of the chat stays in its range.                          *)
THEOREM AssistantTyping == AssistantSpec => []AssistantTypeOK
BY AssistantSound, PTL DEF AssistantInv

(* Whatever is clicked before the session is read, a conversation waits    *)
(* exactly while one question of it is on its way (send, runBackgroundSend)*)
THEOREM SendsAreSingle == AssistantSpec => []OneSendPerChat
BY AssistantSound, PTL DEF AssistantInv

(* Every handler that changes the conversation on screen remembers it.     *)
THEOREM ScreensAreRemembered == AssistantSpec => []ScreenIsRemembered
BY AssistantSound, PTL DEF AssistantInv
=============================================================================
