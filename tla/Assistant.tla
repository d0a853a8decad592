----------------------------- MODULE Assistant -----------------------------
(***************************************************************************)
(* The chat of the built-in assistant (RegistryAssistant.svelte): which    *)
(* conversation is on screen, which ones wait for an answer, and what is   *)
(* still on its way.  Every handler reads the session first and resumes    *)
(* after that await; transcripts, removals and answers come when they      *)
(* come, in any order and whatever is on screen by then.                   *)
(*                                                                         *)
(* Of a message only its conversation matters.  The service that keeps the *)
(* conversations and writes the answers is external.                       *)
(***************************************************************************)
EXTENDS Naturals

CONSTANTS
    Chats,        \* ids of conversations
    Old,          \* those that the service knows from earlier visits
    NoChat,       \* null
    Sends,        \* bound: the questions on their way at once
    LoadSlots,    \* bound: the transcripts on their way at once
    MaxNewChats,  \* bound: the clicks on New chat not yet handled
    Clicks        \* what the user does: "open", "remove", "new", "send",
                  \* "return", "sign", "reload"

ASSUME AssistantAssumption ==
    /\ Old \subseteq Chats
    /\ NoChat \notin Chats
    /\ MaxNewChats \in Nat

VARIABLES
    signedIn,        \* whether the browser holds a session
    userPrincipal,   \* whether the chat has seen it
    boot,            \* where onMount is
    conversationId,  \* the conversation on screen
    messages,        \* the conversations whose messages are on screen
    lastConv,        \* LAST_CONV_KEY in localStorage
    used,            \* ids given to a conversation
    loads,           \* transcripts on their way
    removals,        \* deletions on their way
    newChats,        \* startNewConversation, suspended
    sends,           \* send and runBackgroundSend
    pendingSendIds   \* conversations that wait for an answer

session == <<signedIn, userPrincipal>>
screen == <<conversationId, messages, lastConv, used>>
history == <<loads, removals>>
questions == <<sends, pendingSendIds>>
chatVars == <<session, boot, screen, history, newChats, questions>>

----------------------------------------------------------------------------
Unasked == [phase |-> "idle", chat |-> NoChat]
Asking == {"touch", "ask", "text"}
Running(s) == sends[s].phase \in Asking

AssistantTypeOK ==
    /\ signedIn \in BOOLEAN
    /\ userPrincipal \in BOOLEAN
    /\ boot \in {"auth", "lists", "history", "done"}
    /\ {conversationId, lastConv} \subseteq Chats \union {NoChat}
    /\ messages \subseteq Chats
    /\ used \subseteq Chats
    /\ loads \in [LoadSlots -> Chats \union {NoChat}]
    /\ removals \subseteq Chats
    /\ newChats \in 0 .. MaxNewChats
    /\ sends \in [Sends -> [phase : {"idle", "auth"}, chat : {NoChat}]
                           \union [phase : Asking, chat : Chats]]
    /\ pendingSendIds \subseteq Chats

----------------------------------------------------------------------------
(* The conversation on screen.                                             *)

(* Mutant of Allocates: the new conversation is not remembered.            *)
AllocatesUnremembered(c) ==
    /\ c \in Chats \ used
    /\ used' = used \union {c}
    /\ conversationId' = c
    /\ UNCHANGED lastConv

(* A new id, on screen and in localStorage.                                *)
Allocates(c) ==
    /\ c \in Chats \ used
    /\ used' = used \union {c}
    /\ conversationId' = c
    /\ lastConv' = c

(* Mutant of EnsureConversation: a question needs no conversation.         *)
EnsuresNothing(c) == c = conversationId /\ UNCHANGED <<used, conversationId, lastConv>>

EnsureConversation(c) ==
    \/ c = conversationId /\ c # NoChat /\ UNCHANGED <<used, conversationId, lastConv>>
    \/ conversationId = NoChat /\ Allocates(c)

Adds(c) == messages' = messages \union {c}

(* appendAssistantToView: a new message, or more text for the last one.    *)
AppendsAnswer(c) == IF conversationId = c THEN Adds(c) ELSE UNCHANGED messages

(* refreshAuth once the session is read; `knew` is what it captured before.*)
RefreshAuth(knew) ==
    /\ userPrincipal' = signedIn
    /\ UNCHANGED signedIn
    /\ IF signedIn /\ ~ knew /\ messages # {} /\ conversationId = NoChat
       THEN \E c \in Chats : Allocates(c)
       ELSE UNCHANGED <<used, conversationId, lastConv>>
    /\ UNCHANGED messages

----------------------------------------------------------------------------
(* History.                                                                *)

(* loadConversation up to its await.                                       *)
Opens(c, l) ==
    /\ loads[l] = NoChat
    /\ loads' = [loads EXCEPT ![l] = c]
    /\ messages' = {}
    /\ conversationId' = c
    /\ lastConv' = c
    /\ UNCHANGED <<used, removals>>

(* A removed conversation may still be listed; one that is on screen and   *)
(* complete is not loaded again.                                           *)
OpenClicked(c, l) ==
    /\ "open" \in Clicks
    /\ c \in used
    /\ c = conversationId => messages = {} \/ c \in pendingSendIds
    /\ Opens(c, l)
    /\ UNCHANGED <<session, boot, newChats, questions>>

(* External: a transcript holds what was said in c so far, if anything.    *)
Transcripts(c) == {{}, {c}}

(* The answer is shown, whatever is on screen by now.                      *)
LoadAnswers(l) ==
    /\ loads[l] # NoChat
    /\ messages' \in Transcripts(loads[l])
    /\ loads' = [loads EXCEPT ![l] = NoChat]
    /\ UNCHANGED <<session, boot, conversationId, lastConv, used, removals, newChats,
                   questions>>

LoadFails(l) ==
    /\ loads[l] # NoChat
    /\ loads' = [loads EXCEPT ![l] = NoChat]
    /\ UNCHANGED <<session, boot, screen, removals, newChats, questions>>

RemoveClicked(c) ==
    /\ "remove" \in Clicks
    /\ c \in used
    /\ removals' = removals \union {c}
    /\ UNCHANGED <<session, boot, screen, loads, newChats, questions>>

RemovalAnswers(c) ==
    /\ c \in removals
    /\ removals' = removals \ {c}
    /\ IF conversationId = c
       THEN messages' = {} /\ conversationId' = NoChat /\ lastConv' = NoChat
       ELSE UNCHANGED <<messages, conversationId, lastConv>>
    /\ UNCHANGED <<session, boot, used, loads, newChats, questions>>

RemovalFails(c) ==
    /\ c \in removals
    /\ removals' = removals \ {c}
    /\ UNCHANGED <<session, boot, screen, loads, newChats, questions>>

----------------------------------------------------------------------------
(* New chat.                                                               *)

NewChatClicked ==
    /\ "new" \in Clicks
    /\ newChats < MaxNewChats
    /\ newChats' = newChats + 1
    /\ messages' = {}
    /\ UNCHANGED <<session, boot, conversationId, lastConv, used, history,
                   questions>>

NewChatStarts ==
    /\ newChats > 0
    /\ newChats' = newChats - 1
    /\ userPrincipal' = signedIn
    /\ IF signedIn
       THEN \E c \in Chats : Allocates(c)
       ELSE /\ conversationId' = NoChat
            /\ lastConv' = NoChat
            /\ UNCHANGED used
    /\ UNCHANGED <<signedIn, boot, messages, history, questions>>

----------------------------------------------------------------------------
(* Questions.                                                              *)

(* The composer is closed while the chat on screen waits; the suggestions  *)
(* above it are not.                                                       *)
SendClicked(s) ==
    /\ "send" \in Clicks
    /\ sends[s] = Unasked
    /\ sends' = [sends EXCEPT ![s] = [phase |-> "auth", chat |-> NoChat]]
    /\ UNCHANGED <<session, boot, screen, history, newChats, pendingSendIds>>

(* Signed out, or the chat that is on screen by now waits already.         *)
SendRefused(s) ==
    /\ sends[s].phase = "auth"
    /\ signedIn => conversationId \in pendingSendIds
    /\ userPrincipal' = signedIn
    /\ sends' = [sends EXCEPT ![s] = Unasked]
    /\ UNCHANGED <<signedIn, boot, screen, history, newChats, pendingSendIds>>

(* Mutant of MayStart: whether the chat waits is left to the composer.     *)
StartsAnyway(c) == TRUE

MayStart(c) == c \notin pendingSendIds

SendStarts(s) ==
    /\ sends[s].phase = "auth"
    /\ signedIn
    /\ userPrincipal' = TRUE
    /\ \E c \in Chats \union {NoChat} :
         /\ EnsureConversation(c)
         /\ MayStart(c)
         /\ Adds(c)
         /\ pendingSendIds' = pendingSendIds \union {c}
         /\ sends' = [sends EXCEPT ![s] = [phase |-> "touch", chat |-> c]]
    /\ UNCHANGED <<signedIn, boot, history, newChats>>

(* touchConversation never throws; runBackgroundSend marks the chat again. *)
TouchEnds(s) ==
    /\ sends[s].phase = "touch"
    /\ sends' = [sends EXCEPT ![s].phase = "ask"]
    /\ pendingSendIds' = pendingSendIds \union {sends[s].chat}
    /\ UNCHANGED <<session, boot, screen, history, newChats>>

(* A piece of the answer.                                                  *)
Streams(s) ==
    /\ sends[s].phase \in {"ask", "text"}
    /\ AppendsAnswer(sends[s].chat)
    /\ sends' = [sends EXCEPT ![s].phase = "text"]
    /\ UNCHANGED <<session, boot, conversationId, lastConv, used, history, newChats,
                   pendingSendIds>>

(* Mutant of EndsSend: a timeout returns before the chat is released.      *)
EndsOnlyText(s) ==
    /\ sends' = [sends EXCEPT ![s] = Unasked]
    /\ pendingSendIds' = IF sends[s].phase = "text" THEN pendingSendIds \ {sends[s].chat}
                                                    ELSE pendingSendIds

EndsSend(s) ==
    /\ sends' = [sends EXCEPT ![s] = Unasked]
    /\ pendingSendIds' = pendingSendIds \ {sends[s].chat}

(* The stream ends; "No response" stands for an answer without text.       *)
SendCompletes(s) ==
    /\ sends[s].phase \in {"ask", "text"}
    /\ IF sends[s].phase = "ask" THEN AppendsAnswer(sends[s].chat) ELSE UNCHANGED messages
    /\ EndsSend(s)
    /\ UNCHANGED <<session, boot, conversationId, lastConv, used, history, newChats>>

(* The request fails, or is aborted after CHAT_REQUEST_TIMEOUT_MS.         *)
SendBreaksOff(s) ==
    /\ sends[s].phase \in {"ask", "text"}
    /\ EndsSend(s)
    /\ UNCHANGED <<session, boot, screen, history, newChats>>

----------------------------------------------------------------------------
(* The page and the session.                                               *)

BootAuth ==
    /\ boot = "auth"
    /\ boot' = "lists"
    /\ RefreshAuth(FALSE)
    /\ UNCHANGED <<history, newChats, questions>>

(* The assistants and suggestions are loaded.                              *)
BootLists ==
    /\ boot = "lists"
    /\ boot' = IF userPrincipal THEN "history" ELSE "done"
    /\ UNCHANGED <<session, screen, history, newChats, questions>>

(* The history is loaded, the panel is open and the last thread is listed. *)
RestoresLast(l) ==
    /\ boot = "history"
    /\ lastConv # NoChat
    /\ messages = {}
    /\ conversationId = NoChat
    /\ boot' = "done"
    /\ Opens(lastConv, l)
    /\ UNCHANGED <<session, newChats, questions>>

(* The panel is closed, or the last thread is not listed, or not wanted.   *)
RestoresNothing ==
    /\ boot = "history"
    /\ boot' = "done"
    /\ UNCHANGED <<session, screen, history, newChats, questions>>

(* The panel is opened, or the window gets the focus.  What refreshAuth    *)
(* captures before its await differs from what it finds after it only if   *)
(* another one resumes meanwhile, and has done the same: one step.         *)
UserReturns ==
    /\ "return" \in Clicks
    /\ RefreshAuth(userPrincipal)
    /\ UNCHANGED <<boot, history, newChats, questions>>

SignsInOrOut ==
    /\ "sign" \in Clicks
    /\ signedIn' = ~ signedIn
    /\ UNCHANGED <<userPrincipal, boot, screen, history, newChats, questions>>

(* What is on its way to a page that is gone is lost.                      *)
Reloads ==
    /\ "reload" \in Clicks
    /\ userPrincipal' = FALSE
    /\ boot' = "auth"
    /\ conversationId' = NoChat
    /\ messages' = {}
    /\ loads' = [l \in LoadSlots |-> NoChat]
    /\ removals' = {}
    /\ newChats' = 0
    /\ sends' = [s \in Sends |-> Unasked]
    /\ pendingSendIds' = {}
    /\ UNCHANGED <<signedIn, lastConv, used>>

----------------------------------------------------------------------------
AssistantInit ==
    /\ signedIn \in BOOLEAN
    /\ userPrincipal = FALSE
    /\ boot = "auth"
    /\ conversationId = NoChat
    /\ messages = {}
    /\ lastConv \in Old \union {NoChat}
    /\ used = Old
    /\ loads = [l \in LoadSlots |-> NoChat]
    /\ removals = {}
    /\ newChats = 0
    /\ sends = [s \in Sends |-> Unasked]
    /\ pendingSendIds = {}

HistoryMoves ==
    \/ \E l \in LoadSlots : (\E c \in Chats : OpenClicked(c, l)) \/ LoadAnswers(l) \/ LoadFails(l)
    \/ \E c \in Chats : RemoveClicked(c) \/ RemovalAnswers(c) \/ RemovalFails(c)

SendMoves(s) ==
    \/ SendClicked(s) \/ SendRefused(s) \/ SendStarts(s) \/ TouchEnds(s)
    \/ Streams(s) \/ SendCompletes(s) \/ SendBreaksOff(s)

PageMoves ==
    \/ BootAuth \/ BootLists \/ RestoresNothing \/ \E l \in LoadSlots : RestoresLast(l)
    \/ UserReturns \/ SignsInOrOut \/ Reloads

AssistantNext ==
    \/ HistoryMoves
    \/ NewChatClicked \/ NewChatStarts
    \/ \E s \in Sends : SendMoves(s)
    \/ PageMoves

AssistantSpec == AssistantInit /\ [][AssistantNext]_chatVars

(* Requests are answered or fail, and the timer of a send aborts it.       *)
AssistantFairness ==
    \A s \in Sends : WF_chatVars(TouchEnds(s)) /\ WF_chatVars(SendBreaksOff(s))

FairAssistantSpec == AssistantSpec /\ AssistantFairness

----------------------------------------------------------------------------
(* Properties.                                                             *)

(* A conversation waits exactly while one question of it is on its way,    *)
(* however often and from whichever chat it is sent: two clicks before the *)
(* session is read ask once, and no end of a send frees another one.       *)
OneSendPerChat ==
    /\ \A s, t \in Sends : Running(s) /\ Running(t) /\ sends[s].chat = sends[t].chat => s = t
    /\ pendingSendIds = {sends[s].chat : s \in {t \in Sends : Running(t)}}

(* After a reload the chat on screen can be found again, whichever way it  *)
(* came there: every way that changes it remembers it.                     *)
ScreenIsRemembered == conversationId # NoChat => lastConv = conversationId

(* No conversation waits for ever: what blocks its composer ends, also if  *)
(* the user has gone elsewhere, removed the conversation or signed out.    *)
EverySendEnds == \A c \in Chats : c \in pendingSendIds ~> c \notin pendingSendIds
=============================================================================
