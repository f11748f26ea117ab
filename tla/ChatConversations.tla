------------------------- MODULE ChatConversations -------------------------
(***************************************************************************)
(* The conversation store and the chat page that runs its queries: one     *)
(* query at a time as far as the page knows, answers that arrive after the *)
(* user has gone elsewhere. Source: frontend/src/stores/                   *)
(* conversationStore.js, pages/ChatPage.jsx, components/RAGChatThread.jsx. *)
(***************************************************************************)
EXTENDS Naturals, Sequences, FiniteSets

CONSTANTS
  Chats,          \* conversation ids; an id is never used twice
  MaxQuestions,   \* bound: questions asked
  Nobody

ASSUME ChatAssumption == MaxQuestions \in Nat /\ Nobody \notin Chats

VARIABLES
  chats,        \* conversations, newest first
  log,          \* [Chats -> messages]: <<"user", question>> or <<"assistant", question>>
  active,       \* activeId
  loading,      \* queryLoading of the mounted page
  flights,      \* queries under way: [chat, question, at, mounted]
  asked,        \* [question -> the conversation it was asked in]
  overlapped    \* conversations that ever had two queries under way

chatVars == <<chats, log, active, loading, flights, asked, overlapped>>

Members(s) == {s[i] : i \in DOMAIN s}
User(q) == <<"user", q>>
Assistant(q) == <<"assistant", q>>

ChatInit ==
  /\ chats = <<>>
  /\ log = [c \in Chats |-> <<>>]
  /\ active = Nobody
  /\ loading = FALSE
  /\ flights = {}
  /\ asked = <<>>
  /\ overlapped = {}

(* createConversation; the page also calls it when there is none. *)
CreateConversation(c) ==
  /\ c \notin Members(chats)
  /\ log[c] = <<>> /\ \A f \in flights : f.chat # c
  /\ c \notin Members(asked)
  /\ chats' = <<c>> \o chats
  /\ active' = c
  /\ UNCHANGED <<log, loading, flights, asked, overlapped>>

SetActive(c) ==
  /\ c \in Members(chats)
  /\ active' = c
  /\ UNCHANGED <<chats, log, loading, flights, asked, overlapped>>

DeleteConversation(c) ==
  /\ \E i \in DOMAIN chats :
       /\ chats[i] = c
       /\ chats' = SubSeq(chats, 1, i - 1) \o SubSeq(chats, i + 1, Len(chats))
  /\ log' = [log EXCEPT ![c] = <<>>]
  /\ active' = IF active # c THEN active ELSE IF chats' = <<>> THEN Nobody ELSE Head(chats')
  /\ UNCHANGED <<loading, flights, asked, overlapped>>

NewQuestion == Len(asked) + 1

(* runQuery: the query and the place of its answer are fixed now. *)
Fly(question, at) ==
  /\ loading' = TRUE
  /\ flights' = flights \cup
       {[chat |-> active, question |-> question, at |-> at, mounted |-> TRUE]}
  /\ overlapped' = IF \E f \in flights : f.chat = active
                     THEN overlapped \cup {active} ELSE overlapped

AtEnd == 0

Submit ==
  /\ ~loading
  /\ active # Nobody
  /\ NewQuestion <= MaxQuestions
  /\ asked' = Append(asked, active)
  /\ log' = [log EXCEPT ![active] = Append(@, User(NewQuestion))]
  /\ Fly(NewQuestion, AtEnd)
  /\ UNCHANGED <<chats, active>>

(* handleRetry: the question before the answer is asked again. *)
Regenerate(i) ==
  /\ ~loading
  /\ active # Nobody
  /\ i \in 2 .. Len(log[active])
  /\ log[active][i][1] = "assistant" /\ log[active][i - 1][1] = "user"
  /\ Fly(log[active][i - 1][2], i)
  /\ UNCHANGED <<chats, log, active, asked>>

(* handleEdit: an edit box opened earlier can be sent while a query runs.  *)
(* The old answer is removed; the new one takes its place.                 *)
Edit(i) ==
  /\ active # Nobody
  /\ i \in DOMAIN log[active]
  /\ log[active][i][1] = "user"
  /\ NewQuestion <= MaxQuestions
  /\ asked' = Append(asked, active)
  /\ LET old == log[active]
         rest == SubSeq(old, i + 1, Len(old))
         kept == IF rest # <<>> /\ Head(rest)[1] = "assistant" THEN Tail(rest) ELSE rest
     IN  log' = [log EXCEPT ![active] = SubSeq(old, 1, i - 1) \o <<User(NewQuestion)>> \o kept]
  /\ Fly(NewQuestion, i + 1)
  /\ UNCHANGED <<chats, active>>

\* Mutant. The answer goes to the conversation that is active when it arrives.
AnswerActive(f) ==
  /\ active # Nobody
  /\ log' = [log EXCEPT ![active] = Append(@, Assistant(f.question))]
  /\ flights' = flights \ {f}
  /\ loading' = FALSE
  /\ UNCHANGED <<chats, active, asked, overlapped>>

\* Mutant. The answer to an edited question is appended at the end.
AnswerAtEnd(f) ==
  /\ log' = [log EXCEPT ![f.chat] = Append(@, Assistant(f.question))]
  /\ flights' = flights \ {f}
  /\ loading' = IF f.mounted THEN FALSE ELSE loading
  /\ UNCHANGED <<chats, active, asked, overlapped>>

(* The answer, or the error shown in its place, goes to the conversation   *)
(* that asked; an answer to a given place drops what follows it.           *)
Answer(f) ==
  /\ LET now == log[f.chat]
         kept == IF f.at = AtEnd \/ f.at > Len(now) THEN now ELSE SubSeq(now, 1, f.at - 1)
     IN  log' = [log EXCEPT ![f.chat] = Append(kept, Assistant(f.question))]
  /\ flights' = flights \ {f}
  /\ loading' = IF f.mounted THEN FALSE ELSE loading
  /\ UNCHANGED <<chats, active, asked, overlapped>>

(* The page is left and mounted again: it forgets what it is waiting for. *)
LeavePage ==
  /\ loading' = FALSE
  /\ flights' = {[f EXCEPT !.mounted = FALSE] : f \in flights}
  /\ UNCHANGED <<chats, log, active, asked, overlapped>>

ChatNext ==
  \/ \E c \in Chats : CreateConversation(c) \/ SetActive(c) \/ DeleteConversation(c)
  \/ Submit \/ LeavePage
  \/ \E i \in 1 .. 2 * MaxQuestions : Regenerate(i) \/ Edit(i)
  \/ \E f \in flights : Answer(f)

ChatSpec == ChatInit /\ [][ChatNext]_chatVars

(***************************************************************************)
(* Properties.                                                             *)
(***************************************************************************)
\* An answer is shown in the conversation its question was asked in, wherever
\* the user has gone while it was computed.
AnswersStayHome ==
  \A c \in Chats : \A i \in DOMAIN log[c] : asked[log[c][i][2]] = c

\* Unless two queries of a conversation overlapped, each answer in it follows
\* the question it answers, after any mix of edits, regenerations, deletions
\* and switches.
TurnsPaired ==
  \A c \in Members(chats) \ overlapped : \A i \in DOMAIN log[c] :
    log[c][i][1] = "assistant" => i > 1 /\ log[c][i - 1] = User(log[c][i][2])
=============================================================================
