----------------------- MODULE AssistantConversations -----------------------
(* One person's conversations with the assistant: the questions at work on    *)
(* the server, the conversations and turns in the database, the sessions in   *)
(* WeKnora that serve the model as its memory, and the page in one browser    *)
(* tab. Rights on the versions that answer come and go at any moment.         *)
EXTENDS Integers, FiniteSets

CONSTANTS
  Versions,   \* the versions of documents that may answer something
  MaxCalls    \* bound: questions asked

ASSUME AssistantAssumption == MaxCalls \in Nat \ {0}

VARIABLES
  readable,       \* the versions this person may read
  calls,          \* the questions sent to POST /api/rag/chat
  conversations,  \* app.ai_conversations of this person
  sessions,       \* the sessions in WeKnora, with the calls they remember
  doomed,         \* sessions of deleted conversations that are still to be deleted
  page            \* the page in one tab

assistantVars == <<readable, calls, conversations, sessions, doomed, page>>

\* A call's number also stands for the conversation and for the session it creates.
Calls == 1 .. MaxCalls
None  == 0

Places == {"unsent", "asked", "forgetting", "discarding", "searching", "found", "validated",
           "chatting", "answered", "remembering", "done", "failed"}
CallStates == [place : Places, conversation : {None} \cup Calls, session : {None} \cup Calls,
               cites : SUBSET Versions, barred : SUBSET Versions]
Unsent == [place |-> "unsent", conversation |-> None, session |-> None,
           cites |-> {}, barred |-> {}]
ConversationStates == [state : {"none", "open", "deleted"}, session : {None} \cup Calls]
SessionStates == [state : {"none", "live", "deleted"}, history : SUBSET Calls]
EmptyPage == [conversation |-> None, turns |-> {}, asking |-> None, loading |-> None,
              mixed |-> FALSE]

AssistantTypeOK ==
  /\ readable \subseteq Versions
  /\ calls \in [Calls -> CallStates]
  /\ conversations \in [Calls -> ConversationStates]
  /\ sessions \in [Calls -> SessionStates]
  /\ doomed \subseteq Calls
  /\ page \in [conversation : {None} \cup Calls, turns : SUBSET Calls,
               asking : {None} \cup Calls, loading : {None} \cup Calls, mixed : BOOLEAN]
  /\ \A c \in Calls : calls[c].place = "chatting" => calls[c].session # None /\ calls[c].cites # {}

AssistantInit ==
  /\ readable = Versions
  /\ calls = [c \in Calls |-> Unsent]
  /\ conversations = [k \in Calls |-> [state |-> "none", session |-> None]]
  /\ sessions = [s \in Calls |-> [state |-> "none", history |-> {}]]
  /\ doomed = {}
  /\ page = EmptyPage

\* The turns of a conversation: rows are written only by Store.
Turns(k) == {c \in Calls : calls[c].conversation = k /\ calls[c].place \in {"remembering", "done"}}
Cited(turns) == UNION {calls[c].cites : c \in turns}

Moves(c, place) == calls' = [calls EXCEPT ![c].place = place]

\* What an ended call knew is of no use any more, except what its session remembers.
Ended(c) == [Unsent EXCEPT !.place = "failed",
               !.conversation = calls[c].conversation,
               !.cites = IF \E s \in Calls : c \in sessions[s].history THEN calls[c].cites ELSE {}]

------------------------------------------------------------------------------
(* The page. Other tabs of the same person only send questions.             *)

NextCall(c) == calls[c].place = "unsent" /\ \A d \in 1 .. c - 1 : calls[d].place # "unsent"

Asked(c, k) == calls' = [calls EXCEPT ![c] = [@ EXCEPT !.place = "asked", !.conversation = k]]

\* ask looks at pending, but not at a conversation that is still being opened.
Ask(c) ==
  /\ page.asking = None /\ NextCall(c)
  /\ Asked(c, page.conversation)
  /\ page' = [page EXCEPT !.asking = c, !.mixed = @ \/ page.loading # None]
  /\ UNCHANGED <<readable, conversations, sessions, doomed>>

AskElsewhere(c) ==
  /\ NextCall(c)
  /\ \E k \in {None} \cup {k \in Calls : conversations[k].state # "none"} : Asked(c, k)
  /\ UNCHANGED <<readable, conversations, sessions, doomed, page>>

\* The list of conversations changes only if the one on the page did when it was asked.
Answer ==
  /\ page.asking # None /\ calls[page.asking].place = "done"
  /\ LET c == page.asking IN
     page' = [page EXCEPT !.asking = None, !.turns = @ \cup {c},
                !.conversation = IF calls[c].conversation = c THEN c ELSE @]
  /\ UNCHANGED <<readable, calls, conversations, sessions, doomed>>

\* An error is shown, the connection breaks or the person stops it: the call goes on.
StopAsking ==
  /\ page.asking # None /\ page' = [page EXCEPT !.asking = None]
  /\ UNCHANGED <<readable, calls, conversations, sessions, doomed>>

\* Mutant: the question in flight is not aborted.
StartNewPending ==
  /\ page' = [EmptyPage EXCEPT !.loading = page.loading, !.asking = page.asking]
  /\ UNCHANGED <<readable, calls, conversations, sessions, doomed>>

\* Also what remove does to the page when its conversation is deleted.
StartNew ==
  /\ page' = [EmptyPage EXCEPT !.loading = page.loading]
  /\ UNCHANGED <<readable, calls, conversations, sessions, doomed>>

Open(k) ==
  /\ page.asking = None /\ page.loading = None
  /\ conversations[k].state # "none"
  /\ page' = [page EXCEPT !.loading = k]
  /\ UNCHANGED <<readable, calls, conversations, sessions, doomed>>

Opened ==
  /\ page.loading # None
  /\ page' = IF conversations[page.loading].state = "open"
             THEN [page EXCEPT !.conversation = page.loading, !.turns = Turns(page.loading),
                               !.loading = None, !.mixed = page.asking # None]
             ELSE [page EXCEPT !.loading = None]
  /\ UNCHANGED <<readable, calls, conversations, sessions, doomed>>

------------------------------------------------------------------------------
(* answerQuestion *)

\* A question about the assistant or the catalogue: a fixed text, no sources.
Intent(c) ==
  /\ calls[c].place = "asked" /\ Moves(c, "answered")
  /\ UNCHANGED <<readable, conversations, sessions, doomed, page>>

\* Mutant: an earlier citation that is hidden now is not looked for.
NothingHidden(c) == {}

\* Citations of earlier turns that this person may not read any more.
Hidden(c) == Cited(Turns(calls[c].conversation)) \ readable

Remembered(k) == IF k # None /\ conversations[k].state = "open" THEN conversations[k].session
                 ELSE None

\* conversationContext
ReadContext(c) ==
  LET k == calls[c].conversation
      session == Remembered(k)
      stale == k # None /\ conversations[k].state = "open" /\ Hidden(c) # {}
  IN
  /\ calls[c].place = "asked"
  /\ calls' = [calls EXCEPT ![c] = [@ EXCEPT
       !.place = IF stale /\ session # None THEN "forgetting" ELSE "searching",
       !.session = session,
       !.barred = IF k = None THEN {} ELSE Cited(Turns(k)) \ readable]]
  /\ UNCHANGED <<readable, conversations, sessions, doomed, page>>

ForgetSession(c) ==
  /\ calls[c].place = "forgetting" /\ Moves(c, "discarding")
  /\ conversations' = [conversations EXCEPT ![calls[c].conversation].session = None]
  /\ UNCHANGED <<readable, sessions, doomed, page>>

\* The deletion may fail; nobody tries again.
DiscardSession(c) ==
  /\ calls[c].place = "discarding"
  /\ calls' = [calls EXCEPT ![c] = [@ EXCEPT !.place = "searching", !.session = None]]
  /\ \/ UNCHANGED sessions
     \/ sessions' = [sessions EXCEPT ![calls[c].session] = [state |-> "deleted", history |-> {}]]
  /\ UNCHANGED <<readable, conversations, doomed, page>>

\* listAuthorizedSources, then WeKnora within those: it finds some of them.
Search(c) ==
  /\ calls[c].place = "searching"
  /\ \E hits \in SUBSET readable :
       calls' = [calls EXCEPT ![c] = [@ EXCEPT !.place = "found", !.cites = hits]]
  /\ UNCHANGED <<readable, conversations, sessions, doomed, page>>

\* resolveAuthorizedSources reads the rights anew; a hit that is still readable may
\* have left the index meanwhile.
Validate(c) ==
  /\ calls[c].place = "found"
  /\ \E cites \in SUBSET (calls[c].cites \cap readable) :
       calls' = [calls EXCEPT ![c] = [@ EXCEPT !.place = "validated", !.cites = cites]]
  /\ UNCHANGED <<readable, conversations, sessions, doomed, page>>

\* Nothing to cite, or the server is set to show sources without an answer.
Abstain(c) ==
  /\ calls[c].place = "validated"
  /\ calls' = [calls EXCEPT ![c] = [@ EXCEPT !.place = "answered", !.session = None]]
  /\ UNCHANGED <<readable, conversations, sessions, doomed, page>>

\* Mutant: any session will do.
AnySession(c) ==
  /\ calls[c].place = "validated" /\ calls[c].cites # {}
  /\ \E s \in {s \in Calls : sessions[s].state = "live"} \cup {c} :
       /\ calls' = [calls EXCEPT ![c] = [@ EXCEPT !.place = "chatting", !.session = s]]
       /\ sessions' = [sessions EXCEPT ![s].state = "live"]
  /\ UNCHANGED <<readable, conversations, doomed, page>>

\* Mutant: a session is never made.
OldSession(c) ==
  /\ calls[c].place = "validated" /\ calls[c].cites # {}
  /\ Moves(c, "chatting") /\ UNCHANGED <<readable, conversations, sessions, doomed, page>>

\* The conversation's session, or a new one.
TakeSession(c) ==
  /\ calls[c].place = "validated" /\ calls[c].cites # {}
  /\ IF calls[c].session # None
     THEN Moves(c, "chatting") /\ UNCHANGED sessions
     ELSE /\ calls' = [calls EXCEPT ![c] = [@ EXCEPT !.place = "chatting", !.session = c]]
          /\ sessions' = [sessions EXCEPT ![c].state = "live"]
  /\ UNCHANGED <<readable, conversations, doomed, page>>

Chat(c) ==
  /\ calls[c].place = "chatting" /\ sessions[calls[c].session].state = "live"
  /\ Moves(c, "answered")
  /\ sessions' = [sessions EXCEPT ![calls[c].session].history = @ \cup {c}]
  /\ UNCHANGED <<readable, conversations, doomed, page>>

\* WeKnora does not know the session, or breaks off. A session that was continued is
\* forgotten, unless that fails as well; it may have taken the question in.
ChatFails(c) ==
  LET s == calls[c].session
      k == calls[c].conversation
  IN
  /\ calls[c].place = "chatting"
  /\ \/ UNCHANGED <<sessions>> /\ calls' = [calls EXCEPT ![c] = Ended(c)]
     \/ /\ sessions[s].state = "live"
        /\ sessions' = [sessions EXCEPT ![s].history = @ \cup {c}]
        /\ calls' = [calls EXCEPT ![c] = [Ended(c) EXCEPT !.cites = calls[c].cites]]
  /\ \/ UNCHANGED conversations
     \/ k # None /\ s # c /\ conversations' = [conversations EXCEPT ![k].session = None]
  /\ UNCHANGED <<readable, doomed, page>>

\* The policy on ai_turn_citations, for every citation of the turn.
MayStore(c) == calls[c].cites \subseteq readable

\* Mutant: whatever session was used.
AnyIsNew(c) == calls[c].session # None

NewSession(c) == calls[c].session = c

\* storeTurn: a conversation that is gone is refused, a first turn opens one. Only a
\* session that was made for this turn is to be remembered.
Store(c) ==
  LET k == calls[c].conversation IN
  /\ calls[c].place = "answered" /\ MayStore(c)
  /\ k # None => conversations[k].state = "open"
  /\ calls' = [calls EXCEPT ![c] = [@ EXCEPT
       !.place = IF NewSession(c) THEN "remembering" ELSE "done",
       !.session = IF NewSession(c) THEN calls[c].session ELSE None,
       !.conversation = IF k = None THEN c ELSE k, !.barred = {}]]
  /\ conversations' = IF k = None THEN [conversations EXCEPT ![c].state = "open"]
                      ELSE conversations
  /\ UNCHANGED <<readable, sessions, doomed, page>>

\* setConversationSession, whose failure is ignored; the conversation may be gone.
RememberSession(c) ==
  /\ calls[c].place = "remembering"
  /\ calls' = [calls EXCEPT ![c] = [@ EXCEPT !.place = "done", !.session = None]]
  /\ \/ UNCHANGED conversations
     \/ /\ conversations[calls[c].conversation].state = "open"
        /\ conversations' = [conversations EXCEPT ![calls[c].conversation].session = calls[c].session]
  /\ UNCHANGED <<readable, sessions, doomed, page>>

\* The database or WeKnora refuses, the turn may not be stored, or the process dies.
Die(c) ==
  /\ calls[c].place \notin {"unsent", "remembering", "done", "failed"}
  /\ calls' = [calls EXCEPT ![c] = Ended(c)]
  /\ UNCHANGED <<readable, conversations, sessions, doomed, page>>

------------------------------------------------------------------------------

\* DELETE /api/rag/conversations/:id, from any tab; the session goes next.
DeleteConversation(k) ==
  /\ conversations[k].state = "open"
  /\ conversations' = [conversations EXCEPT ![k] = [state |-> "deleted", session |-> None]]
  /\ doomed' = doomed \cup ({conversations[k].session} \ {None})
  /\ UNCHANGED <<readable, calls, sessions, page>>

\* Or not: the call to WeKnora fails, or the process dies before it.
DeleteSession(s) ==
  /\ s \in doomed /\ doomed' = doomed \ {s}
  /\ \/ UNCHANGED sessions
     \/ sessions' = [sessions EXCEPT ![s] = [state |-> "deleted", history |-> {}]]
  /\ UNCHANGED <<readable, calls, conversations, page>>

\* A grant, a revocation, a withdrawal, an expiry, a new version.
ChangeRights(v) ==
  /\ readable' = IF v \in readable THEN readable \ {v} ELSE readable \cup {v}
  /\ UNCHANGED <<calls, conversations, sessions, doomed, page>>

PageStep == \/ (\E c \in Calls : Ask(c)) \/ Answer \/ StopAsking \/ StartNew
            \/ (\E k \in Calls : Open(k)) \/ Opened

CallStep(c) ==
  \/ AskElsewhere(c) \/ Intent(c) \/ ReadContext(c) \/ ForgetSession(c) \/ DiscardSession(c)
  \/ Search(c) \/ Validate(c) \/ Abstain(c) \/ TakeSession(c) \/ Chat(c) \/ ChatFails(c)
  \/ Store(c) \/ RememberSession(c) \/ Die(c)

AssistantNext ==
  \/ PageStep
  \/ \E c \in Calls : CallStep(c)
  \/ \E k \in Calls : DeleteConversation(k) \/ DeleteSession(k)
  \/ \E v \in Versions : ChangeRights(v)

AssistantSpec == AssistantInit /\ [][AssistantNext]_assistantVars

------------------------------------------------------------------------------

Context(c) == Cited(sessions[calls[c].session].history \ {c})

\* The memory of the model holds the questions of one conversation only, though sessions
\* are made before their conversation and by several questions at once (lib/rag.ts:489).
HistoryOfOneConversation ==
  \A s \in Calls : \A c, d \in sessions[s].history :
    c # d => calls[c].conversation = calls[d].conversation

\* A conversation never goes back to a session that was given up, whoever asks, forgets
\* and deletes next to each other (lib/rag.ts:427-430, 547-548).
RememberedIsLive ==
  \A k \in Calls : conversations[k].session # None =>
    sessions[conversations[k].session].state = "live" /\ conversations[k].session \notin doomed

\* The model never answers next to the text of an earlier turn that was unreadable when
\* the question came (assistant.ts:348-385).
RevokedIsForgotten ==
  \A c \in Calls : calls[c].place = "answered" /\ calls[c].session # None =>
    Context(c) \cap calls[c].barred = {}

\* The page shows the turns of the conversation that the next question continues, unless
\* a question was asked while another conversation was being opened (assistant-chat.tsx:230).
PageIsOneConversation ==
  ~page.mixed => \A c \in page.turns : calls[c].conversation = page.conversation
==============================================================================
