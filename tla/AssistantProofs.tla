--------------------------- MODULE AssistantProofs ---------------------------
(* Why the memory of a session stays within one conversation, although        *)
(* questions share sessions, forget and delete them next to each other. What  *)
(* carries the proof: until its call is done nobody else knows a session, and *)
(* afterwards only calls of that call's conversation do.                      *)
EXTENDS AssistantConversations, TLAPS

Done(c) == calls[c].place = "done"

\* What a call holds at its place. A session is its own, or that of a call of the same
\* conversation that is done; an old one is given up for good before it is deleted, and
\* whenever an earlier turn has become unreadable.
CallIsSound(c) ==
  LET place == calls[c].place
      s     == calls[c].session
  IN
  /\ place = "unsent" => calls[c] = Unsent
  /\ place \in {"unsent", "asked", "done", "failed"} => s = None
  /\ place \in {"forgetting", "discarding"} => s # None /\ s # c
  /\ place \in {"searching", "found", "validated"} => s # c
  /\ place = "remembering" => s = c
  /\ place \in {"remembering", "done"} => calls[c].conversation # None
  /\ s = c => sessions[c].state = "live"
  /\ s # None /\ s # c => Done(s) /\ calls[s].conversation = calls[c].conversation
  /\ place = "discarding" => \A k \in Calls : conversations[k].session # s
  /\ s # None /\ s # c /\ place \notin {"forgetting", "discarding"} => calls[c].barred = {}

CallsAreSound == \A c \in Calls : CallIsSound(c)

\* What a conversation remembers was made by a call of its own that is done.
ConversationsAreSound == \A k \in Calls : conversations[k].session # None =>
  Done(conversations[k].session) /\ calls[conversations[k].session].conversation = k

\* A session remembers the call that made it and, once that is done, calls of its
\* conversation.
HistoriesAreSound == \A s \in Calls : \A c \in sessions[s].history : c # s =>
  Done(s) /\ calls[c].conversation = calls[s].conversation

\* Only what a conversation remembered is deleted with it.
DoomedAreDone == \A s \in doomed : Done(s)

\* The turns on the page are stored; the question that the page waits for continues its
\* conversation, or has just opened one.
PageIsSound ==
  /\ \A c \in page.turns : calls[c].place \in {"remembering", "done"}
  /\ LET c == page.asking IN c # None =>
       /\ calls[c].place # "unsent"
       /\ ~page.mixed => \/ calls[c].conversation = page.conversation
                         \/ page.conversation = None /\ calls[c].conversation = c

ServerInv == /\ CallsAreSound /\ ConversationsAreSound /\ RememberedIsLive
             /\ HistoriesAreSound /\ DoomedAreDone

AssistantInv == AssistantTypeOK /\ ServerInv /\ PageIsSound /\ PageIsOneConversation
------------------------------------------------------------------------------
(* The first state, and the fields of a call. *)

\* Nothing was asked yet.
LEMMA AssistantInitially == AssistantInit => AssistantInv
<1> SUFFICES ASSUME AssistantInit PROVE AssistantInv OBVIOUS
<1> USE AssistantAssumption DEF AssistantInit, None, Calls
<1>1. Unsent \in CallStates BY DEF CallStates, Unsent, Places
<1>2. EmptyPage \in [conversation : {None} \cup Calls, turns : SUBSET Calls,
                     asking : {None} \cup Calls, loading : {None} \cup Calls, mixed : BOOLEAN]
  BY DEF EmptyPage
<1>3. AssistantTypeOK
  <2>1. calls \in [Calls -> CallStates] BY <1>1
  <2>2. conversations \in [Calls -> ConversationStates] BY DEF ConversationStates
  <2>3. sessions \in [Calls -> SessionStates] BY DEF SessionStates
  <2> QED BY <1>2, <2>1, <2>2, <2>3 DEF AssistantTypeOK, Unsent
<1>4. CallsAreSound BY DEF CallsAreSound, CallIsSound, Unsent
<1>5. ConversationsAreSound /\ RememberedIsLive /\ HistoriesAreSound /\ DoomedAreDone
  BY DEF ConversationsAreSound, RememberedIsLive, HistoriesAreSound, DoomedAreDone
<1>6. PageIsSound /\ PageIsOneConversation
  BY DEF PageIsSound, PageIsOneConversation, EmptyPage
<1> QED BY <1>3, <1>4, <1>5, <1>6 DEF AssistantInv, ServerInv

\* The fields of a call.
LEMMA CallFields ==
  ASSUME AssistantTypeOK, NEW c \in Calls
  PROVE  /\ calls[c] \in CallStates /\ c # None /\ None \notin Calls
         /\ calls[c].place \in Places
         /\ calls[c].conversation \in {None} \cup Calls
         /\ calls[c].session \in {None} \cup Calls
         /\ calls[c].cites \subseteq Versions /\ calls[c].barred \subseteq Versions
BY DEF AssistantTypeOK, CallStates, Calls, None

\* Writing one call.
LEMMA OneCallWritten ==
  ASSUME AssistantTypeOK, NEW c \in Calls, NEW new \in CallStates,
         calls' = [calls EXCEPT ![c] = new]
  PROVE  /\ calls' \in [Calls -> CallStates] /\ calls'[c] = new
         /\ \A d \in Calls : d # c => calls'[d] = calls[d]
BY DEF AssistantTypeOK

------------------------------------------------------------------------------
(* The steps of a call. *)

PageStates == [conversation : {None} \cup Calls, turns : SUBSET Calls,
               asking : {None} \cup Calls, loading : {None} \cup Calls, mixed : BOOLEAN]

\* What a step of call c may do to the server: it writes that call, which is not done and
\* keeps its conversation once it has one; a conversation forgets its session or takes the
\* call's own, once it is done; a session is deleted only when its call is done and no
\* conversation remembers it; and only the call's session takes its question in.
StepOf(c) ==
  /\ ~Done(c) /\ calls' \in [Calls -> CallStates] /\ calls'[c].place # "unsent"
  /\ \A d \in Calls : d # c => calls'[d] = calls[d]
  /\ calls[c].conversation # None => calls'[c].conversation = calls[c].conversation
  /\ calls'[c].place = "chatting" => calls'[c].session # None /\ calls'[c].cites # {}
  /\ CallIsSound(c)'
  /\ UNCHANGED <<readable, doomed>>
  /\ conversations' \in [Calls -> ConversationStates]
  /\ \A k \in Calls : \/ conversations'[k].session \in {None, conversations[k].session}
                      \/ /\ conversations'[k].session = c /\ calls'[c].place = "done"
                         /\ calls'[c].conversation = k /\ sessions'[c].state = "live"
  /\ sessions' \in [Calls -> SessionStates]
  /\ \A s \in Calls : \/ sessions'[s].state \in {sessions[s].state, "live"}
                      \/ Done(s) /\ \A k \in Calls : conversations'[k].session # s
  /\ \A s \in Calls :
       sessions'[s].history \subseteq sessions[s].history \cup {d \in {c} : calls[c].session = s}

\* Such a step keeps what is known of the server.
LEMMA StepKeepsServer ==
  ASSUME AssistantTypeOK, ServerInv, NEW c \in Calls, StepOf(c), page' \in PageStates
  PROVE  AssistantTypeOK' /\ ServerInv'
<1> USE DEF StepOf, ServerInv
<1>1. AssistantTypeOK' BY DEF AssistantTypeOK, PageStates
<1>2. \A d \in Calls : Done(d) => d # c /\ calls'[d] = calls[d] /\ Done(d)' BY DEF Done
<1>3. \A d \in Calls : Done(d) => calls[d].conversation # None
  BY DEF CallsAreSound, CallIsSound, Done
<1>4. CallsAreSound'
  <2> SUFFICES ASSUME NEW d \in Calls, d # c PROVE CallIsSound(d)'
    BY DEF CallsAreSound
  <2>1. calls'[d] = calls[d] /\ CallIsSound(d) /\ calls[d].session \in {None} \cup Calls
    BY CallFields DEF CallsAreSound
  <2>2. calls[d].session = d => sessions'[d].state = "live"
    <3>1. d # None /\ (calls[d].session = d => sessions[d].state = "live" /\ ~Done(d))
      BY <2>1, CallFields DEF CallIsSound, Done
    <3> QED BY <3>1
  <2>3. calls[d].session # None /\ calls[d].session # d =>
          /\ Done(calls[d].session)'
          /\ calls'[calls[d].session].conversation = calls[d].conversation
    BY <1>2, <2>1 DEF CallIsSound
  <2>4. calls[d].place = "discarding" =>
          \A k \in Calls : conversations'[k].session # calls[d].session
    BY <1>2, <2>1 DEF CallIsSound
  <2> QED BY <2>1, <2>2, <2>3, <2>4 DEF CallIsSound, Done
<1>5. None \notin Calls BY CallFields
<1>6. ASSUME NEW k \in Calls, NEW s \in Calls, conversations'[k].session = s
      PROVE  /\ Done(s)' /\ calls'[s].conversation = k /\ sessions'[s].state = "live"
             /\ s \notin doomed
  <2>1. CASE s = conversations[k].session
    <3>1. Done(s) /\ calls[s].conversation = k /\ sessions[s].state = "live" /\ s \notin doomed
      BY <1>5, <2>1 DEF ConversationsAreSound, RememberedIsLive
    <3>2. sessions'[s].state = "live" BY <1>6, <3>1
    <3> QED BY <1>2, <3>1, <3>2
  <2>2. CASE s # conversations[k].session
    <3>1. /\ s = c /\ calls'[c].place = "done" /\ calls'[c].conversation = k
          /\ sessions'[c].state = "live"
      BY <1>5, <1>6, <2>2
    <3>2. c \notin doomed BY DEF DoomedAreDone
    <3> QED BY <3>1, <3>2 DEF Done
  <2> QED BY <2>1, <2>2
<1>7. ConversationsAreSound' /\ RememberedIsLive'
  <2>1. \A k \in Calls : conversations'[k].session \in {None} \cup Calls
    BY DEF ConversationStates
  <2> QED BY <1>6, <2>1 DEF ConversationsAreSound, RememberedIsLive, Done
<1>8. HistoriesAreSound'
  <2> SUFFICES ASSUME NEW s \in Calls, NEW d \in sessions'[s].history, d # s
               PROVE  Done(s)' /\ calls'[d].conversation = calls'[s].conversation
    BY DEF HistoriesAreSound, Done
  <2>1. d \in Calls BY DEF SessionStates
  <2>2. Done(s) /\ calls[d].conversation = calls[s].conversation
    <3>1. CASE d \in sessions[s].history BY <3>1 DEF HistoriesAreSound
    <3>2. CASE d \notin sessions[s].history
      <4>1. d = c /\ calls[c].session = s /\ s # None BY <3>2, CallFields
      <4> QED BY <4>1 DEF CallsAreSound, CallIsSound
    <3> QED BY <3>1, <3>2
  <2>3. calls[d].conversation # None BY <1>3, <2>2
  <2> QED BY <1>2, <2>1, <2>2, <2>3
<1>9. DoomedAreDone' BY <1>2 DEF DoomedAreDone, AssistantTypeOK
<1> QED BY <1>1, <1>4, <1>7, <1>8, <1>9

\* And what is known of the page, if the page does nothing: turns on it are stored, and
\* the question it waits for keeps its conversation or opens its own.
LEMMA StepKeepsPage ==
  ASSUME AssistantInv, NEW c \in Calls, StepOf(c), UNCHANGED page,
         calls[c].place = "remembering" => calls'[c].place = "done",
         \/ calls[c].place = "unsent"
         \/ calls'[c].conversation = calls[c].conversation
         \/ calls[c].conversation = None /\ calls'[c].conversation = c
  PROVE  AssistantInv'
<1> USE DEF StepOf, AssistantInv
<1>1. page \in PageStates BY DEF AssistantTypeOK, PageStates
<1>2. AssistantTypeOK' /\ ServerInv' BY <1>1, StepKeepsServer
<1>3. \A d \in page.turns : d \in Calls /\ calls[d].conversation # None
  BY <1>1 DEF PageStates, PageIsSound, ServerInv, CallsAreSound, CallIsSound
<1>4. page.asking \in {None} \cup Calls BY <1>1 DEF PageStates
<1>5. PageIsSound'
  <2>1. \A d \in page.turns : calls'[d].place \in {"remembering", "done"}
    BY <1>3 DEF PageIsSound, Done
  <2>2. ASSUME page.asking # None
        PROVE  /\ calls'[page.asking].place # "unsent"
               /\ ~page.mixed => \/ calls'[page.asking].conversation = page.conversation
                                 \/ /\ page.conversation = None
                                    /\ calls'[page.asking].conversation = page.asking
    <3>1. CASE page.asking # c BY <1>4, <2>2, <3>1 DEF PageIsSound
    <3>2. CASE page.asking = c BY <2>2, <3>2, CallFields DEF PageIsSound
    <3> QED BY <3>1, <3>2
  <2> QED BY <2>1, <2>2 DEF PageIsSound
<1>6. PageIsOneConversation' BY <1>3 DEF PageIsOneConversation
<1> QED BY <1>2, <1>5, <1>6

\* Steps that change nothing but the call.
LEMMA PrivateStep ==
  ASSUME AssistantInv, NEW c \in Calls, NEW new \in CallStates,
         calls[c].place \notin {"remembering", "done"},
         calls' = [calls EXCEPT ![c] = new],
         UNCHANGED <<readable, conversations, sessions, doomed, page>>,
         new.place # "unsent",
         calls[c].place = "unsent" \/ new.conversation = calls[c].conversation,
         new.place = "chatting" => new.session # None /\ new.cites # {},
         CallIsSound(c)'
  PROVE  AssistantInv'
<1>1. /\ calls' \in [Calls -> CallStates] /\ calls'[c] = new
      /\ \A d \in Calls : d # c => calls'[d] = calls[d]
  BY OneCallWritten DEF AssistantInv
<1>2. calls[c].place = "unsent" => calls[c].conversation = None
  BY DEF AssistantInv, ServerInv, CallsAreSound, CallIsSound, Unsent
<1>3. StepOf(c) BY <1>1, <1>2 DEF StepOf, Done, AssistantInv, AssistantTypeOK
<1> QED BY <1>1, <1>3, StepKeepsPage

\* A question from another tab, about a conversation or none.
LEMMA AskElsewhereKeeps ==
  ASSUME AssistantInv, NEW c \in Calls, AskElsewhere(c)
  PROVE  AssistantInv'
<1>1. PICK k \in {None} \cup Calls : Asked(c, k) BY DEF AskElsewhere
<1>2. /\ calls[c] = Unsent /\ Unsent \in CallStates /\ calls[c].place = "unsent"
      /\ c # None /\ None \notin Calls
  BY CallFields
  DEF AskElsewhere, NextCall, AssistantInv, ServerInv, CallsAreSound, CallIsSound
<1> DEFINE new == [Unsent EXCEPT !.place = "asked", !.conversation = k]
<1>3. new \in CallStates BY <1>2 DEF CallStates, Places
<1>4. /\ new.place = "asked" /\ new.conversation = k /\ new.session = None
      /\ new.barred = {}
  BY DEF Unsent
<1>5. calls' = [calls EXCEPT ![c] = new] BY <1>1, <1>2 DEF Asked
<1> HIDE DEF new
<1>6. calls'[c] = new BY <1>3, <1>5, OneCallWritten DEF AssistantInv
<1>7. CallIsSound(c)' BY <1>2, <1>4, <1>6 DEF CallIsSound
<1> QED BY <1>2, <1>3, <1>4, <1>5, <1>7, PrivateStep DEF AskElsewhere

\* What is read of the conversation: its session, and what is unreadable in its turns.
LEMMA ReadContextKeeps ==
  ASSUME AssistantInv, NEW c \in Calls, ReadContext(c)
  PROVE  AssistantInv'
<1>1. /\ calls[c] \in CallStates /\ calls[c].place = "asked" /\ c # None /\ None \notin Calls
      /\ calls[c].conversation \in {None} \cup Calls
  BY CallFields DEF ReadContext, AssistantInv
<1>2. PICK k \in {None} \cup Calls : k = calls[c].conversation BY <1>1
<1>3. Remembered(k) \in {None} \cup Calls
  BY DEF Remembered, AssistantInv, AssistantTypeOK, ConversationStates
<1>4. PICK s \in {None} \cup Calls : s = Remembered(k) BY <1>3
<1>5. (IF k = None THEN {} ELSE Cited(Turns(k)) \ readable) \in SUBSET Versions
  BY CallFields DEF Cited, Turns, AssistantInv
<1>6. PICK barred \in SUBSET Versions :
        barred = IF k = None THEN {} ELSE Cited(Turns(k)) \ readable
  BY <1>5
<1>7. s # None => /\ k # None /\ conversations[k].state = "open" /\ s # c
                  /\ Done(s) /\ calls[s].conversation = k
  BY <1>1, <1>4 DEF Remembered, AssistantInv, ServerInv, ConversationsAreSound, Done
<1>8. PICK place \in {"forgetting", "searching"} :
        /\ calls' = [calls EXCEPT ![c] = [@ EXCEPT !.place = place, !.session = s,
                                                   !.barred = barred]]
        /\ place = "forgetting" => s # None
        /\ place = "searching" => s = None \/ Hidden(c) = {}
  BY <1>2, <1>4, <1>6, <1>7 DEF ReadContext
<1>9. s # None /\ place # "forgetting" => barred = {}
  BY <1>2, <1>6, <1>7, <1>8 DEF Hidden
<1> DEFINE new == [calls[c] EXCEPT !.place = place, !.session = s, !.barred = barred]
<1>10. /\ new \in CallStates /\ new.place = place /\ new.session = s /\ new.barred = barred
       /\ new.conversation = k
  BY <1>1, <1>2, <1>8 DEF CallStates, Places
<1>11. calls' = [calls EXCEPT ![c] = new] BY <1>8
<1> HIDE DEF new
<1>12. calls'[c] = new /\ \A d \in Calls : d # c => calls'[d] = calls[d]
  BY <1>10, <1>11, OneCallWritten DEF AssistantInv
<1>13. s # None => Done(s)' /\ calls'[s].conversation = k BY <1>4, <1>7, <1>12 DEF Done
<1>14. CallIsSound(c)'
  <2>1. CASE s = None BY <1>1, <1>8, <1>10, <1>12, <2>1 DEF CallIsSound
  <2>2. CASE s # None
    BY <1>7, <1>8, <1>9, <1>10, <1>12, <1>13, <2>2 DEF CallIsSound, Done
  <2> QED BY <2>1, <2>2
<1> QED BY <1>1, <1>2, <1>8, <1>10, <1>11, <1>14, PrivateStep DEF ReadContext

\* The steps of the search keep the session that was read, or give it up.
LEMMA SearchKeeps ==
  ASSUME AssistantInv, NEW c \in Calls,
         Intent(c) \/ Search(c) \/ Validate(c) \/ Abstain(c)
  PROVE  AssistantInv'
<1>1. PICK new \in CallStates :
        /\ calls' = [calls EXCEPT ![c] = new] /\ new.conversation = calls[c].conversation
        /\ new.barred = calls[c].barred
        /\ \/ new.place \in {"found", "validated"} /\ new.session = calls[c].session
           \/ new.place = "answered" /\ new.session = None
        /\ calls[c].place \in {"asked", "searching", "found", "validated"}
  <2>1. calls[c] \in CallStates /\ (calls[c].place = "asked" => calls[c].session = None)
    BY CallFields DEF AssistantInv, ServerInv, CallsAreSound, CallIsSound
  <2>2. CASE Intent(c)
    <3> DEFINE new == [calls[c] EXCEPT !.place = "answered"]
    <3>1. /\ new \in CallStates /\ new.conversation = calls[c].conversation
          /\ new.barred = calls[c].barred /\ new.place = "answered" /\ new.session = None
      BY <2>1, <2>2 DEF Intent, CallStates, Places
    <3>2. calls' = [calls EXCEPT ![c] = new]
      BY <2>2 DEF Intent, Moves, AssistantInv, AssistantTypeOK
    <3> QED BY <2>2, <3>1, <3>2 DEF Intent
  <2>3. CASE Search(c)
    <3>1. PICK hits \in SUBSET readable :
            calls' = [calls EXCEPT ![c] = [@ EXCEPT !.place = "found", !.cites = hits]]
      BY <2>3 DEF Search
    <3> DEFINE new == [calls[c] EXCEPT !.place = "found", !.cites = hits]
    <3>2. hits \subseteq Versions BY DEF AssistantInv, AssistantTypeOK
    <3>3. /\ new \in CallStates /\ new.conversation = calls[c].conversation
          /\ new.barred = calls[c].barred /\ new.place = "found"
          /\ new.session = calls[c].session
      BY <2>1, <3>2 DEF CallStates, Places
    <3> QED BY <2>3, <3>1, <3>3 DEF Search
  <2>4. CASE Validate(c)
    <3>1. PICK cites \in SUBSET (calls[c].cites \cap readable) :
            calls' = [calls EXCEPT ![c] = [@ EXCEPT !.place = "validated", !.cites = cites]]
      BY <2>4 DEF Validate
    <3> DEFINE new == [calls[c] EXCEPT !.place = "validated", !.cites = cites]
    <3>2. cites \subseteq Versions BY DEF AssistantInv, AssistantTypeOK
    <3>3. /\ new \in CallStates /\ new.conversation = calls[c].conversation
          /\ new.barred = calls[c].barred /\ new.place = "validated"
          /\ new.session = calls[c].session
      BY <2>1, <3>2 DEF CallStates, Places
    <3> QED BY <2>4, <3>1, <3>3 DEF Validate
  <2>5. CASE Abstain(c)
    <3> DEFINE new == [calls[c] EXCEPT !.place = "answered", !.session = None]
    <3>1. /\ new \in CallStates /\ new.conversation = calls[c].conversation
          /\ new.barred = calls[c].barred /\ new.place = "answered" /\ new.session = None
      BY <2>1 DEF CallStates, Places
    <3> QED BY <2>5, <3>1 DEF Abstain
  <2> QED BY <2>2, <2>3, <2>4, <2>5
<1>2. calls'[c] = new /\ \A d \in Calls : d # c => calls'[d] = calls[d]
  BY <1>1, OneCallWritten DEF AssistantInv
<1>3. UNCHANGED <<readable, conversations, sessions, doomed, page>>
  BY DEF Intent, Search, Validate, Abstain
<1>4. CallIsSound(c)'
  <2>1. CallIsSound(c) /\ calls[c].session \in {None} \cup Calls /\ c # None
    BY CallFields DEF AssistantInv, ServerInv, CallsAreSound
  <2>2. CASE new.session = None BY <1>1, <1>2, <2>1, <2>2 DEF CallIsSound
  <2>3. CASE new.session # None
    <3>1. /\ new.session = calls[c].session /\ new.session # c /\ new.session \in Calls
          /\ calls[c].place \in {"searching", "found", "validated"}
      BY <1>1, <2>1, <2>3 DEF CallIsSound
    <3>2. Done(new.session)' /\ calls'[new.session].conversation = new.conversation
          /\ new.barred = {}
      BY <1>1, <1>2, <2>1, <2>3, <3>1 DEF CallIsSound, Done
    <3> QED BY <1>1, <1>2, <2>3, <3>1, <3>2 DEF CallIsSound, Done
  <2> QED BY <2>2, <2>3
<1> QED BY <1>1, <1>3, <1>4, PrivateStep


\* A call with a session of a conversation: whose it is, and what else is known of it.
LEMMA OldSessionFacts ==
  ASSUME AssistantInv, NEW c \in Calls, NEW s \in Calls, calls[c].session = s, s # c
  PROVE  /\ Done(s) /\ calls[c].conversation \in Calls
         /\ calls[s].conversation = calls[c].conversation
         /\ \A k \in Calls : conversations[k].session = s => k = calls[c].conversation
<1> USE DEF AssistantInv, ServerInv
<1>1. Done(s) /\ calls[s].conversation = calls[c].conversation /\ None \notin Calls
  BY CallFields DEF CallsAreSound, CallIsSound
<1>2. calls[c].conversation # None BY <1>1 DEF CallsAreSound, CallIsSound, Done
<1> QED BY <1>1, <1>2, CallFields DEF ConversationsAreSound

\* The conversation forgets its session: no other conversation remembers that.
LEMMA ForgetSessionKeeps ==
  ASSUME AssistantInv, NEW c \in Calls, ForgetSession(c)
  PROVE  AssistantInv'
<1>1. /\ calls[c] \in CallStates /\ calls[c].place = "forgetting" /\ None \notin Calls
      /\ calls[c].session \in Calls /\ calls[c].session # c
  BY CallFields DEF ForgetSession, AssistantInv, ServerInv, CallsAreSound, CallIsSound
<1>2. PICK s \in Calls : s = calls[c].session BY <1>1
<1>3. /\ Done(s) /\ calls[c].conversation \in Calls
      /\ calls[s].conversation = calls[c].conversation
      /\ \A k \in Calls : conversations[k].session = s => k = calls[c].conversation
  BY <1>1, <1>2, OldSessionFacts
<1>4. PICK k \in Calls : k = calls[c].conversation BY <1>3
<1> DEFINE new == [calls[c] EXCEPT !.place = "discarding"]
<1>5. /\ new \in CallStates /\ new.place = "discarding" /\ new.session = s
      /\ new.conversation = k
  BY <1>1, <1>2, <1>4 DEF CallStates, Places
<1>6. calls' = [calls EXCEPT ![c] = new]
  BY DEF ForgetSession, Moves, AssistantInv, AssistantTypeOK
<1> HIDE DEF new
<1>7. /\ calls' \in [Calls -> CallStates] /\ calls'[c] = new
      /\ \A d \in Calls : d # c => calls'[d] = calls[d]
  BY <1>5, <1>6, OneCallWritten DEF AssistantInv
<1>8. /\ conversations' \in [Calls -> ConversationStates]
      /\ conversations'[k].session = None
      /\ \A d \in Calls : d # k => conversations'[d] = conversations[d]
  BY <1>4 DEF ForgetSession, AssistantInv, AssistantTypeOK, ConversationStates
<1>9. UNCHANGED <<readable, sessions, doomed, page>> BY DEF ForgetSession
<1>10. CallIsSound(c)'
  <2>1. Done(s)' /\ calls'[s].conversation = k BY <1>1, <1>2, <1>3, <1>4, <1>7 DEF Done
  <2>2. \A d \in Calls : conversations'[d].session # s BY <1>1, <1>3, <1>4, <1>8
  <2> QED BY <1>1, <1>2, <1>5, <1>7, <2>1, <2>2 DEF CallIsSound, Done
<1>11. StepOf(c)
  BY <1>1, <1>4, <1>5, <1>7, <1>8, <1>9, <1>10
  DEF StepOf, Done, AssistantInv, AssistantTypeOK
<1> QED BY <1>1, <1>4, <1>5, <1>7, <1>9, <1>11, StepKeepsPage

\* The old session is deleted, or stays: no conversation remembers it.
LEMMA DiscardSessionKeeps ==
  ASSUME AssistantInv, NEW c \in Calls, DiscardSession(c)
  PROVE  AssistantInv'
<1>1. /\ calls[c] \in CallStates /\ calls[c].place = "discarding" /\ None \notin Calls
      /\ c # None /\ calls[c].session \in Calls /\ calls[c].session # c
  BY CallFields DEF DiscardSession, AssistantInv, ServerInv, CallsAreSound, CallIsSound
<1>2. PICK s \in Calls : s = calls[c].session BY <1>1
<1>3. Done(s) /\ \A k \in Calls : conversations[k].session # s
  BY <1>1, <1>2, OldSessionFacts DEF AssistantInv, ServerInv, CallsAreSound, CallIsSound
<1> DEFINE new == [calls[c] EXCEPT !.place = "searching", !.session = None]
<1>4. /\ new \in CallStates /\ new.place = "searching" /\ new.session = None
      /\ new.conversation = calls[c].conversation
  BY <1>1 DEF CallStates, Places
<1>5. calls' = [calls EXCEPT ![c] = new] BY DEF DiscardSession
<1> HIDE DEF new
<1>6. /\ calls' \in [Calls -> CallStates] /\ calls'[c] = new
      /\ \A d \in Calls : d # c => calls'[d] = calls[d]
  BY <1>4, <1>5, OneCallWritten DEF AssistantInv
<1>7. /\ sessions' \in [Calls -> SessionStates]
      /\ \A d \in Calls : /\ sessions'[d].state = sessions[d].state \/ d = s
                          /\ sessions'[d].history \subseteq sessions[d].history
  <2>1. CASE UNCHANGED sessions BY <2>1 DEF AssistantInv, AssistantTypeOK
  <2>2. CASE sessions' = [sessions EXCEPT ![calls[c].session] =
                            [state |-> "deleted", history |-> {}]]
    BY <1>2, <2>2 DEF AssistantInv, AssistantTypeOK, SessionStates
  <2> QED BY <2>1, <2>2 DEF DiscardSession
<1>8. UNCHANGED <<readable, conversations, doomed, page>> BY DEF DiscardSession
<1>9. CallIsSound(c)' BY <1>1, <1>4, <1>6 DEF CallIsSound
<1>10. StepOf(c)
  BY <1>1, <1>3, <1>4, <1>6, <1>7, <1>8, <1>9
  DEF StepOf, Done, AssistantInv, AssistantTypeOK
<1> QED BY <1>1, <1>4, <1>6, <1>8, <1>10, StepKeepsPage

\* The call goes on with its conversation's session, or makes its own.
LEMMA TakeSessionKeeps ==
  ASSUME AssistantInv, NEW c \in Calls, TakeSession(c)
  PROVE  AssistantInv'
<1>1. /\ calls[c] \in CallStates /\ calls[c].place = "validated" /\ None \notin Calls
      /\ c # None /\ calls[c].session # c /\ calls[c].cites # {}
      /\ calls[c].session \in {None} \cup Calls
  BY CallFields DEF TakeSession, AssistantInv, ServerInv, CallsAreSound, CallIsSound
<1>2. PICK old \in {None} \cup Calls : old = calls[c].session BY <1>1
<1>3. PICK s \in Calls : s = IF old # None THEN old ELSE c BY <1>2
<1> DEFINE new == [calls[c] EXCEPT !.place = "chatting", !.session = s]
<1>4. /\ new \in CallStates /\ new.place = "chatting" /\ new.session = s
      /\ new.conversation = calls[c].conversation /\ new.cites = calls[c].cites
      /\ new.barred = calls[c].barred
  BY <1>1 DEF CallStates, Places
<1>5. calls' = [calls EXCEPT ![c] = new]
  <2>1. CASE old # None
    <3>1. [calls[c] EXCEPT !.place = "chatting"] = new BY <1>1, <1>2, <1>3, <2>1 DEF CallStates
    <3> QED BY <1>2, <2>1, <3>1 DEF TakeSession, Moves, AssistantInv, AssistantTypeOK
  <2>2. CASE old = None BY <1>2, <1>3, <2>2 DEF TakeSession
  <2> QED BY <2>1, <2>2
<1> HIDE DEF new
<1>6. /\ calls' \in [Calls -> CallStates] /\ calls'[c] = new
      /\ \A d \in Calls : d # c => calls'[d] = calls[d]
  BY <1>4, <1>5, OneCallWritten DEF AssistantInv
<1>7. /\ sessions' \in [Calls -> SessionStates]
      /\ \A d \in Calls : /\ sessions'[d].state \in {sessions[d].state, "live"}
                          /\ sessions'[d].history = sessions[d].history
      /\ s = c => sessions'[c].state = "live"
  <2>1. CASE old # None
    BY <1>1, <1>2, <1>3, <2>1 DEF TakeSession, AssistantInv, AssistantTypeOK
  <2>2. CASE old = None
    <3>1. sessions' = [sessions EXCEPT ![c].state = "live"] BY <1>2, <2>2 DEF TakeSession
    <3> QED BY <3>1 DEF AssistantInv, AssistantTypeOK, SessionStates
  <2> QED BY <2>1, <2>2
<1>8. UNCHANGED <<readable, conversations, doomed, page>> BY DEF TakeSession
<1>9. CallIsSound(c)'
  <2>1. CASE s = c BY <1>1, <1>4, <1>6, <1>7, <2>1 DEF CallIsSound
  <2>2. CASE s # c
    <3>1. Done(s) /\ calls[s].conversation = calls[c].conversation /\ calls[c].barred = {}
      BY <1>1, <1>2, <1>3, <2>2, OldSessionFacts
      DEF AssistantInv, ServerInv, CallsAreSound, CallIsSound
    <3>2. Done(s)' /\ calls'[s].conversation = new.conversation
      BY <1>1, <1>4, <1>6, <2>2, <3>1 DEF Done
    <3> QED BY <1>1, <1>4, <1>6, <2>2, <3>1, <3>2 DEF CallIsSound, Done
  <2> QED BY <2>1, <2>2
<1>10. StepOf(c)
  BY <1>1, <1>4, <1>6, <1>7, <1>8, <1>9
  DEF StepOf, Done, AssistantInv, AssistantTypeOK
<1> QED BY <1>1, <1>4, <1>6, <1>8, <1>10, StepKeepsPage

\* The session of a call takes the call's question in.
LEMMA QuestionTaken ==
  ASSUME AssistantTypeOK, NEW c \in Calls, NEW s \in Calls,
         \/ UNCHANGED sessions
         \/ sessions' = [sessions EXCEPT ![s].history = @ \cup {c}]
  PROVE  /\ sessions' \in [Calls -> SessionStates]
         /\ \A d \in Calls : /\ sessions'[d].state = sessions[d].state
                             /\ \/ sessions'[d].history = sessions[d].history
                                \/ d = s /\ sessions'[d].history = sessions[d].history \cup {c}
<1>1. CASE UNCHANGED sessions BY <1>1 DEF AssistantTypeOK
<1>2. CASE sessions' = [sessions EXCEPT ![s].history = @ \cup {c}]
  <2> DEFINE new == [sessions[s] EXCEPT !.history = @ \cup {c}]
  <2>1. sessions \in [Calls -> SessionStates] /\ sessions[s] \in SessionStates
    BY DEF AssistantTypeOK
  <2>2. /\ new \in SessionStates /\ new.state = sessions[s].state
        /\ new.history = sessions[s].history \cup {c}
    BY <2>1 DEF SessionStates
  <2>3. sessions' = [sessions EXCEPT ![s] = new] BY <1>2, <2>1
  <2> HIDE DEF new
  <2> QED BY <2>1, <2>2, <2>3
<1> QED BY <1>1, <1>2

\* The model answers.
LEMMA ChatKeeps ==
  ASSUME AssistantInv, NEW c \in Calls, Chat(c)
  PROVE  AssistantInv'
<1>1. /\ calls[c] \in CallStates /\ calls[c].place = "chatting" /\ None \notin Calls
      /\ calls[c].session \in Calls
  BY CallFields DEF Chat, AssistantInv, AssistantTypeOK
<1>2. PICK s \in Calls : s = calls[c].session BY <1>1
<1> DEFINE new == [calls[c] EXCEPT !.place = "answered"]
<1>3. /\ new \in CallStates /\ new.place = "answered" /\ new.session = s
      /\ new.conversation = calls[c].conversation /\ new.barred = calls[c].barred
  BY <1>1, <1>2 DEF CallStates, Places
<1>4. calls' = [calls EXCEPT ![c] = new]
  BY DEF Chat, Moves, AssistantInv, AssistantTypeOK
<1> HIDE DEF new
<1>5. /\ calls' \in [Calls -> CallStates] /\ calls'[c] = new
      /\ \A d \in Calls : d # c => calls'[d] = calls[d]
  BY <1>3, <1>4, OneCallWritten DEF AssistantInv
<1>6. /\ sessions' \in [Calls -> SessionStates]
      /\ \A d \in Calls : /\ sessions'[d].state = sessions[d].state
                          /\ \/ sessions'[d].history = sessions[d].history
                             \/ d = s /\ sessions'[d].history = sessions[d].history \cup {c}
  BY <1>2, QuestionTaken DEF Chat, AssistantInv
<1>7. UNCHANGED <<readable, conversations, doomed, page>> BY DEF Chat
<1>8. CallIsSound(c)'
  <2>1. CASE s = c
    <3>1. sessions'[c].state = "live" BY <1>2, <1>6, <2>1 DEF Chat
    <3> QED BY <1>1, <1>3, <1>5, <2>1, <3>1 DEF CallIsSound
  <2>2. CASE s # c
    <3>1. Done(s) /\ calls[s].conversation = calls[c].conversation /\ calls[c].barred = {}
      BY <1>1, <1>2, <2>2, OldSessionFacts
      DEF AssistantInv, ServerInv, CallsAreSound, CallIsSound
    <3>2. Done(s)' /\ calls'[s].conversation = new.conversation
      BY <1>1, <1>3, <1>5, <2>2, <3>1 DEF Done
    <3> QED BY <1>1, <1>3, <1>5, <2>2, <3>1, <3>2 DEF CallIsSound, Done
  <2> QED BY <2>1, <2>2
<1>9. \A d \in Calls :
        sessions'[d].history \subseteq sessions[d].history \cup {e \in {c} : calls[c].session = d}
  BY <1>2, <1>6
<1>10. StepOf(c)
  BY <1>1, <1>3, <1>5, <1>6, <1>7, <1>8, <1>9
  DEF StepOf, Done, AssistantInv, AssistantTypeOK
<1> QED BY <1>1, <1>3, <1>5, <1>7, <1>10, StepKeepsPage

\* What is left of a call that ended.
LEMMA EndedFields ==
  ASSUME AssistantTypeOK, NEW c \in Calls
  PROVE  /\ Ended(c) \in CallStates /\ Ended(c).place = "failed" /\ Ended(c).session = None
         /\ Ended(c).conversation = calls[c].conversation /\ Ended(c).barred = {}
<1>1. calls[c].conversation \in {None} \cup Calls /\ calls[c].cites \subseteq Versions
  BY CallFields
<1>2. Unsent \in CallStates BY DEF Unsent, CallStates, Places
<1> QED BY <1>1, <1>2 DEF Ended, Unsent, CallStates, Places

\* The model fails: the call has ended, and its conversation may have forgotten the session.
LEMMA ChatFailsKeeps ==
  ASSUME AssistantInv, NEW c \in Calls, ChatFails(c)
  PROVE  AssistantInv'
<1>1. /\ calls[c] \in CallStates /\ calls[c].place = "chatting" /\ None \notin Calls
      /\ calls[c].session \in Calls /\ c # None
      /\ calls[c].conversation \in {None} \cup Calls
  BY CallFields DEF ChatFails, AssistantInv, AssistantTypeOK
<1>2. PICK s \in Calls : s = calls[c].session BY <1>1
<1>3. PICK k \in {None} \cup Calls : k = calls[c].conversation BY <1>1
<1>4. PICK new \in CallStates :
        /\ calls' = [calls EXCEPT ![c] = new] /\ new.place = "failed" /\ new.session = None
        /\ new.conversation = k
  <2>1. /\ Ended(c) \in CallStates /\ Ended(c).place = "failed" /\ Ended(c).session = None
        /\ Ended(c).conversation = k
    BY <1>3, EndedFields DEF AssistantInv
  <2> DEFINE new == [Ended(c) EXCEPT !.cites = calls[c].cites]
  <2>2. /\ new \in CallStates /\ new.place = "failed" /\ new.session = None
        /\ new.conversation = k
    BY <2>1, <1>1 DEF CallStates
  <2>3. calls' = [calls EXCEPT ![c] = Ended(c)] \/ calls' = [calls EXCEPT ![c] = new]
    BY DEF ChatFails
  <2> QED BY <2>1, <2>2, <2>3
<1>5. /\ calls' \in [Calls -> CallStates] /\ calls'[c] = new
      /\ \A d \in Calls : d # c => calls'[d] = calls[d]
  BY <1>4, OneCallWritten DEF AssistantInv
<1>6. /\ sessions' \in [Calls -> SessionStates]
      /\ \A d \in Calls : /\ sessions'[d].state = sessions[d].state
                          /\ \/ sessions'[d].history = sessions[d].history
                             \/ d = s /\ sessions'[d].history = sessions[d].history \cup {c}
  <2>1. UNCHANGED sessions \/ sessions' = [sessions EXCEPT ![s].history = @ \cup {c}]
    BY <1>2 DEF ChatFails
  <2> QED BY <2>1, QuestionTaken DEF AssistantInv
<1>7. \A d \in Calls :
        sessions'[d].history \subseteq sessions[d].history \cup {e \in {c} : calls[c].session = d}
  BY <1>2, <1>6
<1>8. /\ conversations' \in [Calls -> ConversationStates]
      /\ \A d \in Calls : conversations'[d].session \in {None, conversations[d].session}
  <2>1. CASE UNCHANGED conversations BY <2>1 DEF AssistantInv, AssistantTypeOK
  <2>2. CASE k # None /\ conversations' = [conversations EXCEPT ![k].session = None]
    BY <2>2 DEF AssistantInv, AssistantTypeOK, ConversationStates
  <2> QED BY <1>3, <2>1, <2>2 DEF ChatFails
<1>9. UNCHANGED <<readable, doomed, page>> BY DEF ChatFails
<1>10. CallIsSound(c)' BY <1>1, <1>4, <1>5 DEF CallIsSound
<1>11. StepOf(c)
  BY <1>1, <1>3, <1>4, <1>5, <1>6, <1>7, <1>8, <1>9, <1>10 DEF StepOf, Done
<1> QED BY <1>1, <1>3, <1>4, <1>5, <1>9, <1>11, StepKeepsPage

\* The call ends anywhere else.
LEMMA DieKeeps ==
  ASSUME AssistantInv, NEW c \in Calls, Die(c)
  PROVE  AssistantInv'
<1>1. /\ Ended(c) \in CallStates /\ Ended(c).place = "failed" /\ Ended(c).session = None
      /\ Ended(c).conversation = calls[c].conversation
  BY EndedFields DEF AssistantInv
<1>2. PICK new \in CallStates : new = Ended(c) BY <1>1
<1>3. calls' = [calls EXCEPT ![c] = new] BY <1>2 DEF Die
<1>4. calls'[c] = new BY <1>3, OneCallWritten DEF AssistantInv
<1>5. CallIsSound(c)'
  BY <1>1, <1>2, <1>4, CallFields DEF CallIsSound, AssistantInv
<1> QED BY <1>1, <1>2, <1>3, <1>5, PrivateStep DEF Die

\* The turn is stored; a first one opens its conversation.
LEMMA StoreKeeps ==
  ASSUME AssistantInv, NEW c \in Calls, Store(c)
  PROVE  AssistantInv'
<1>1. /\ calls[c] \in CallStates /\ calls[c].place = "answered" /\ None \notin Calls
      /\ calls[c].session \in {None} \cup Calls /\ c # None
      /\ calls[c].conversation \in {None} \cup Calls
  BY CallFields DEF Store, AssistantInv
<1>2. PICK k \in {None} \cup Calls : k = calls[c].conversation BY <1>1
<1>3. PICK j \in Calls : j = IF k = None THEN c ELSE k BY <1>2
<1>4. PICK place \in {"remembering", "done"}, s \in {None, c} :
        /\ calls' = [calls EXCEPT ![c] = [@ EXCEPT !.place = place, !.session = s,
                                                   !.conversation = j, !.barred = {}]]
        /\ place = "remembering" => s = c /\ s = calls[c].session
        /\ place = "done" => s = None
  <2>1. CASE NewSession(c)
    <3>1. calls[c].session = c BY <2>1 DEF NewSession
    <3> QED BY <1>2, <1>3, <2>1, <3>1 DEF Store
  <2>2. CASE ~NewSession(c) BY <1>2, <1>3, <2>2 DEF Store
  <2> QED BY <2>1, <2>2
<1> DEFINE new == [calls[c] EXCEPT !.place = place, !.session = s,
                                   !.conversation = j, !.barred = {}]
<1>5. /\ new \in CallStates /\ new.place = place /\ new.session = s
      /\ new.conversation = j
  BY <1>1, <1>4 DEF CallStates, Places
<1>6. calls' = [calls EXCEPT ![c] = new] BY <1>4
<1> HIDE DEF new
<1>7. /\ calls' \in [Calls -> CallStates] /\ calls'[c] = new
      /\ \A d \in Calls : d # c => calls'[d] = calls[d]
  BY <1>5, <1>6, OneCallWritten DEF AssistantInv
<1>8. /\ conversations' \in [Calls -> ConversationStates]
      /\ \A d \in Calls : conversations'[d].session = conversations[d].session
  <2>1. CASE k = None
    <3>1. conversations' = [conversations EXCEPT ![c].state = "open"] BY <1>2, <2>1 DEF Store
    <3> QED BY <3>1 DEF AssistantInv, AssistantTypeOK, ConversationStates
  <2>2. CASE k # None
    <3>1. conversations' = conversations BY <1>2, <2>2 DEF Store
    <3> QED BY <3>1 DEF AssistantInv, AssistantTypeOK
  <2> QED BY <2>1, <2>2
<1>9. UNCHANGED <<readable, sessions, doomed, page>> BY DEF Store
<1>10. CallIsSound(c)'
  <2>1. CASE place = "remembering"
    <3>1. sessions[c].state = "live"
      BY <1>4, <2>1 DEF AssistantInv, ServerInv, CallsAreSound, CallIsSound
    <3> QED BY <1>1, <1>3, <1>4, <1>5, <1>7, <1>9, <2>1, <3>1 DEF CallIsSound
  <2>2. CASE place = "done"
    BY <1>1, <1>3, <1>4, <1>5, <1>7, <2>2 DEF CallIsSound
  <2> QED BY <2>1, <2>2
<1>11. StepOf(c)
  BY <1>1, <1>2, <1>3, <1>5, <1>7, <1>8, <1>9, <1>10
  DEF StepOf, Done, AssistantInv, AssistantTypeOK
<1> QED BY <1>1, <1>2, <1>3, <1>5, <1>7, <1>9, <1>11, StepKeepsPage

\* The conversation remembers the session that was made for its turn.
LEMMA RememberSessionKeeps ==
  ASSUME AssistantInv, NEW c \in Calls, RememberSession(c)
  PROVE  AssistantInv'
<1>1. /\ calls[c] \in CallStates /\ calls[c].place = "remembering" /\ None \notin Calls
      /\ calls[c].session = c /\ c # None /\ calls[c].conversation \in Calls
      /\ sessions[c].state = "live"
  BY CallFields DEF RememberSession, AssistantInv, ServerInv, CallsAreSound, CallIsSound
<1>2. PICK k \in Calls : k = calls[c].conversation BY <1>1
<1> DEFINE new == [calls[c] EXCEPT !.place = "done", !.session = None]
<1>3. /\ new \in CallStates /\ new.place = "done" /\ new.session = None
      /\ new.conversation = k
  BY <1>1, <1>2 DEF CallStates, Places
<1>4. calls' = [calls EXCEPT ![c] = new] BY DEF RememberSession
<1> HIDE DEF new
<1>5. /\ calls' \in [Calls -> CallStates] /\ calls'[c] = new
      /\ \A d \in Calls : d # c => calls'[d] = calls[d]
  BY <1>3, <1>4, OneCallWritten DEF AssistantInv
<1>6. /\ conversations' \in [Calls -> ConversationStates]
      /\ \A d \in Calls : \/ conversations'[d].session = conversations[d].session
                          \/ d = k /\ conversations'[d].session = c
  <2>1. CASE UNCHANGED conversations BY <2>1 DEF AssistantInv, AssistantTypeOK
  <2>2. CASE conversations' = [conversations EXCEPT ![k].session = c]
    BY <2>2 DEF AssistantInv, AssistantTypeOK, ConversationStates
  <2> QED BY <1>1, <1>2, <2>1, <2>2 DEF RememberSession
<1>7. UNCHANGED <<readable, sessions, doomed, page>> BY DEF RememberSession
<1>8. CallIsSound(c)' BY <1>1, <1>2, <1>3, <1>5 DEF CallIsSound
<1>9. StepOf(c)
  BY <1>1, <1>2, <1>3, <1>5, <1>6, <1>7, <1>8
  DEF StepOf, Done, AssistantInv, AssistantTypeOK
<1> QED BY <1>1, <1>2, <1>3, <1>5, <1>7, <1>9, StepKeepsPage

------------------------------------------------------------------------------
(* The page, the deletions and the rights. *)

\* A question from the page continues its conversation.
LEMMA AskKeeps ==
  ASSUME AssistantInv, NEW c \in Calls, Ask(c)
  PROVE  AssistantInv'
<1>1. /\ calls[c] = Unsent /\ Unsent \in CallStates /\ calls[c].place = "unsent"
      /\ c # None /\ None \notin Calls /\ page \in PageStates
  BY CallFields
  DEF Ask, NextCall, AssistantInv, AssistantTypeOK, ServerInv, CallsAreSound, CallIsSound,
      PageStates
<1>2. PICK k \in {None} \cup Calls : k = page.conversation BY <1>1 DEF PageStates
<1> DEFINE new == [Unsent EXCEPT !.place = "asked", !.conversation = k]
<1>3. new \in CallStates BY <1>1 DEF CallStates, Places
<1>4. /\ new.place = "asked" /\ new.conversation = k /\ new.session = None
      /\ new.barred = {} /\ calls[c].conversation = None
  BY <1>1 DEF Unsent
<1>5. calls' = [calls EXCEPT ![c] = new] BY <1>1, <1>2 DEF Ask, Asked
<1> HIDE DEF new
<1>6. /\ calls' \in [Calls -> CallStates] /\ calls'[c] = new
      /\ \A d \in Calls : d # c => calls'[d] = calls[d]
  BY <1>3, <1>5, OneCallWritten DEF AssistantInv
<1>7. CallIsSound(c)' BY <1>1, <1>4, <1>6 DEF CallIsSound
<1>8. /\ page' \in PageStates /\ page'.asking = c /\ page'.conversation = k
      /\ page'.turns = page.turns /\ (page.mixed => page'.mixed)
  BY <1>1, <1>2 DEF Ask, PageStates
<1>9. UNCHANGED <<readable, conversations, sessions, doomed>> BY DEF Ask
<1>10. StepOf(c)
  BY <1>1, <1>4, <1>6, <1>7, <1>9 DEF StepOf, Done, AssistantInv, AssistantTypeOK
<1>11. AssistantTypeOK' /\ ServerInv' BY <1>8, <1>10, StepKeepsServer DEF AssistantInv
<1>12. \A d \in page.turns : d \in Calls /\ d # c
  BY <1>1 DEF AssistantInv, PageIsSound, PageStates
<1>13. PageIsSound'
  BY <1>1, <1>4, <1>6, <1>8, <1>12 DEF AssistantInv, PageIsSound
<1>14. PageIsOneConversation'
  BY <1>2, <1>6, <1>8, <1>12 DEF AssistantInv, PageIsOneConversation
<1> QED BY <1>11, <1>13, <1>14 DEF AssistantInv

\* A step that leaves the calls, conversations and sessions alone leaves the server sound.
LEMMA ServerRests ==
  ASSUME AssistantTypeOK, ServerInv, UNCHANGED <<calls, conversations, sessions, doomed>>,
         readable' \subseteq Versions, page' \in PageStates
  PROVE  AssistantTypeOK' /\ ServerInv'
<1>1. AssistantTypeOK' BY DEF AssistantTypeOK, PageStates
<1>2. CallsAreSound'
  <2> SUFFICES ASSUME NEW c \in Calls PROVE CallIsSound(c)' BY DEF CallsAreSound
  <2> QED BY DEF ServerInv, CallsAreSound, CallIsSound, Done
<1>3. ConversationsAreSound' /\ RememberedIsLive' /\ HistoriesAreSound' /\ DoomedAreDone'
  BY DEF ServerInv, ConversationsAreSound, RememberedIsLive, HistoriesAreSound, DoomedAreDone,
         Done
<1> QED BY <1>1, <1>2, <1>3 DEF ServerInv

\* What the page does without asking, and the rights that come and go.
LEMMA PageKeeps ==
  ASSUME AssistantInv,
         \/ Answer \/ StopAsking \/ StartNew \/ Opened
         \/ \E k \in Calls : Open(k)
         \/ \E v \in Versions : ChangeRights(v)
         \/ UNCHANGED assistantVars
  PROVE  AssistantInv'
<1> USE DEF AssistantInv
<1>1. page \in PageStates /\ readable \subseteq Versions BY DEF AssistantTypeOK, PageStates
<1>2. UNCHANGED <<calls, conversations, sessions, doomed>>
  BY DEF Answer, StopAsking, StartNew, Opened, Open, ChangeRights, assistantVars
<1>3. ASSUME readable' \subseteq Versions, page' \in PageStates,
             page'.asking \in {None, page.asking}, page'.conversation = page.conversation,
             page'.turns = page.turns, page'.mixed = page.mixed
      PROVE  AssistantInv'
  <2>1. AssistantTypeOK' /\ ServerInv' BY <1>2, <1>3, ServerRests
  <2>2. PageIsSound' BY <1>2, <1>3 DEF PageIsSound
  <2>3. PageIsOneConversation' BY <1>2, <1>3 DEF PageIsOneConversation
  <2> QED BY <2>1, <2>2, <2>3
<1>4. CASE Answer
  <2>1. PICK c \in Calls : c = page.asking BY <1>1, <1>4 DEF Answer, PageStates
  <2>2. /\ calls[c].place = "done" /\ c # None
        /\ calls[c].conversation \in Calls
    BY <1>4, <2>1, CallFields DEF Answer, ServerInv, CallsAreSound, CallIsSound
  <2>3. PICK j \in {None} \cup Calls :
          j = IF calls[c].conversation = c THEN c ELSE page.conversation
    BY <1>1 DEF PageStates
  <2>4. page' = [page EXCEPT !.asking = None, !.turns = @ \cup {c}, !.conversation = j]
    BY <1>4, <2>1, <2>3 DEF Answer
  <2>5. /\ page' \in PageStates /\ page'.asking = None /\ page'.conversation = j
        /\ page'.turns = page.turns \cup {c} /\ page'.mixed = page.mixed
    BY <1>1, <2>4 DEF PageStates
  <2>6. UNCHANGED readable BY <1>4 DEF Answer
  <2>7. AssistantTypeOK' /\ ServerInv' BY <1>1, <1>2, <2>5, <2>6, ServerRests
  <2>8. PageIsSound' BY <1>2, <2>2, <2>5 DEF PageIsSound
  <2>9. PageIsOneConversation'
    <3> SUFFICES ASSUME ~page.mixed, NEW d \in page.turns \cup {c}
                 PROVE  calls[d].conversation = j
      BY <1>2, <2>5 DEF PageIsOneConversation
    <3>1. \/ calls[c].conversation = page.conversation
          \/ page.conversation = None /\ calls[c].conversation = c
      BY <2>1, <2>2 DEF PageIsSound
    <3>2. CASE d = c BY <2>3, <3>1, <3>2
    <3>3. CASE d \in page.turns
      <4>1. /\ calls[d].conversation = page.conversation /\ d \in Calls
            /\ calls[d].place \in {"remembering", "done"}
        BY <1>1, <3>3 DEF PageIsSound, PageIsOneConversation, PageStates
      <4>2. page.conversation # None BY <4>1 DEF ServerInv, CallsAreSound, CallIsSound
      <4> QED BY <2>3, <3>1, <4>1, <4>2
    <3> QED BY <3>2, <3>3
  <2> QED BY <2>7, <2>8, <2>9
<1>5. CASE StopAsking
  <2>1. page' = [page EXCEPT !.asking = None] /\ UNCHANGED readable BY <1>5 DEF StopAsking
  <2> QED BY <1>1, <1>3, <2>1 DEF PageStates
<1>6. CASE StartNew
  <2>1. page' = [EmptyPage EXCEPT !.loading = page.loading] /\ UNCHANGED readable
    BY <1>6 DEF StartNew
  <2>2. page' \in PageStates /\ page'.asking = None /\ page'.turns = {}
    BY <1>1, <2>1 DEF EmptyPage, PageStates
  <2>3. AssistantTypeOK' /\ ServerInv' BY <1>1, <1>2, <2>1, <2>2, ServerRests
  <2> QED BY <2>2, <2>3 DEF PageIsSound, PageIsOneConversation
<1>7. CASE Opened
  <2>1. PICK k \in Calls : k = page.loading BY <1>1, <1>7 DEF Opened, PageStates
  <2>2. UNCHANGED readable BY <1>7 DEF Opened
  <2>3. CASE conversations[k].state = "open"
    <3>1. page' = [page EXCEPT !.conversation = k, !.turns = Turns(k), !.loading = None,
                               !.mixed = page.asking # None]
      BY <1>7, <2>1, <2>3 DEF Opened
    <3>2. Turns(k) \subseteq Calls BY DEF Turns
    <3>3. /\ page' \in PageStates /\ page'.conversation = k /\ page'.turns = Turns(k)
          /\ page'.asking = page.asking /\ (page'.mixed <=> page.asking # None)
      BY <1>1, <3>1, <3>2 DEF PageStates
    <3>4. AssistantTypeOK' /\ ServerInv' BY <1>1, <1>2, <2>2, <3>3, ServerRests
    <3>5. PageIsSound' BY <1>2, <3>3 DEF PageIsSound, Turns
    <3>6. PageIsOneConversation' BY <1>2, <3>3 DEF PageIsOneConversation, Turns
    <3> QED BY <3>4, <3>5, <3>6
  <2>4. CASE conversations[k].state # "open"
    <3>1. page' = [page EXCEPT !.loading = None] BY <1>7, <2>1, <2>4 DEF Opened
    <3> QED BY <1>1, <1>3, <2>2, <3>1 DEF PageStates
  <2> QED BY <2>3, <2>4
<1>8. CASE \E k \in Calls : Open(k)
  <2>1. PICK k \in Calls : Open(k) BY <1>8
  <2> QED BY <1>1, <1>3, <2>1 DEF Open, PageStates
<1>9. CASE \E v \in Versions : ChangeRights(v) BY <1>1, <1>3, <1>9 DEF ChangeRights
<1>10. CASE UNCHANGED assistantVars BY <1>1, <1>3, <1>10 DEF assistantVars
<1> QED BY <1>4, <1>5, <1>6, <1>7, <1>8, <1>9, <1>10

\* A deleted conversation remembers nothing; its session waits to be deleted.
LEMMA DeleteConversationKeeps ==
  ASSUME AssistantInv, NEW k \in Calls, DeleteConversation(k)
  PROVE  AssistantInv'
<1> USE DEF AssistantInv, ServerInv
<1>1. UNCHANGED <<readable, calls, sessions, page>> BY DEF DeleteConversation
<1>2. /\ conversations' \in [Calls -> ConversationStates]
      /\ conversations'[k].session = None
      /\ \A d \in Calls : d # k => conversations'[d] = conversations[d]
  BY DEF DeleteConversation, AssistantTypeOK, ConversationStates
<1>3. /\ conversations[k].session \in {None} \cup Calls /\ None \notin Calls
      /\ doomed' = doomed \cup ({conversations[k].session} \ {None})
  BY CallFields DEF DeleteConversation, AssistantTypeOK, ConversationStates
<1>4. AssistantTypeOK' BY <1>1, <1>2, <1>3 DEF AssistantTypeOK
<1>5. CallsAreSound'
  <2> SUFFICES ASSUME NEW c \in Calls PROVE CallIsSound(c)' BY DEF CallsAreSound
  <2>1. CallIsSound(c) BY DEF CallsAreSound
  <2>2. calls[c].place = "discarding" =>
          \A d \in Calls : conversations'[d].session # calls[c].session
    BY <1>2, <2>1 DEF CallIsSound
  <2> QED BY <1>1, <2>1, <2>2 DEF CallIsSound, Done
<1>6. ConversationsAreSound' BY <1>1, <1>2 DEF ConversationsAreSound, Done
<1>7. RememberedIsLive'
  <2> SUFFICES ASSUME NEW d \in Calls, conversations'[d].session # None
               PROVE  /\ sessions[conversations'[d].session].state = "live"
                      /\ conversations'[d].session \notin doomed'
    BY <1>1 DEF RememberedIsLive
  <2>1. d # k /\ conversations'[d] = conversations[d] BY <1>2
  <2>2. conversations[d].session # conversations[k].session
    BY <1>2, <2>1 DEF ConversationsAreSound
  <2> QED BY <1>3, <2>1, <2>2 DEF RememberedIsLive
<1>8. HistoriesAreSound' BY <1>1 DEF HistoriesAreSound, Done
<1>9. DoomedAreDone' BY <1>1, <1>3 DEF DoomedAreDone, ConversationsAreSound, Done
<1>10. PageIsSound' /\ PageIsOneConversation' BY <1>1 DEF PageIsSound, PageIsOneConversation
<1> QED BY <1>4, <1>5, <1>6, <1>7, <1>8, <1>9, <1>10

\* It is deleted or forgotten; no conversation remembers it.
LEMMA DeleteSessionKeeps ==
  ASSUME AssistantInv, NEW s \in Calls, DeleteSession(s)
  PROVE  AssistantInv'
<1> USE DEF AssistantInv, ServerInv
<1>1. UNCHANGED <<readable, calls, conversations, page>> /\ doomed' = doomed \ {s} /\ s \in doomed
  BY DEF DeleteSession
<1>2. /\ sessions' \in [Calls -> SessionStates]
      /\ \A d \in Calls : /\ d # s => sessions'[d].state = sessions[d].state
                          /\ sessions'[d].history \subseteq sessions[d].history
  <2>1. CASE UNCHANGED sessions BY <2>1 DEF AssistantTypeOK
  <2>2. CASE sessions' = [sessions EXCEPT ![s] = [state |-> "deleted", history |-> {}]]
    BY <2>2 DEF AssistantTypeOK, SessionStates
  <2> QED BY <2>1, <2>2 DEF DeleteSession
<1>3. Done(s) /\ \A k \in Calls : conversations[k].session = None \/ conversations[k].session # s
  BY <1>1 DEF DoomedAreDone, RememberedIsLive
<1>4. AssistantTypeOK' BY <1>1, <1>2 DEF AssistantTypeOK
<1>5. CallsAreSound'
  <2> SUFFICES ASSUME NEW c \in Calls PROVE CallIsSound(c)' BY DEF CallsAreSound
  <2>1. CallIsSound(c) /\ c # None BY CallFields DEF CallsAreSound
  <2>2. calls[c].session = c => sessions'[c].state = "live"
    BY <1>2, <1>3, <2>1 DEF CallIsSound, Done
  <2> QED BY <1>1, <2>1, <2>2 DEF CallIsSound, Done
<1>6. ConversationsAreSound' BY <1>1 DEF ConversationsAreSound, Done
<1>7. RememberedIsLive'
  BY <1>1, <1>2, <1>3 DEF RememberedIsLive, AssistantTypeOK, ConversationStates
<1>8. HistoriesAreSound' BY <1>1, <1>2 DEF HistoriesAreSound, Done
<1>9. DoomedAreDone' BY <1>1 DEF DoomedAreDone, Done
<1>10. PageIsSound' /\ PageIsOneConversation' BY <1>1 DEF PageIsSound, PageIsOneConversation
<1> QED BY <1>4, <1>5, <1>6, <1>7, <1>8, <1>9, <1>10

------------------------------------------------------------------------------

\* Every reachable state satisfies the invariant.
THEOREM AssistantInvariant == AssistantSpec => []AssistantInv
<1>1. AssistantInit => AssistantInv BY AssistantInitially
<1>2. AssistantInv /\ [AssistantNext]_assistantVars => AssistantInv'
  <2> SUFFICES ASSUME AssistantInv, [AssistantNext]_assistantVars PROVE AssistantInv' OBVIOUS
  <2>1. CASE PageStep \/ UNCHANGED assistantVars BY <2>1, AskKeeps, PageKeeps DEF PageStep
  <2>2. CASE \E c \in Calls : CallStep(c)
    <3>1. PICK c \in Calls : CallStep(c) BY <2>2
    <3> QED BY <3>1, AskElsewhereKeeps, ReadContextKeeps, SearchKeeps, ForgetSessionKeeps,
               DiscardSessionKeeps, TakeSessionKeeps, ChatKeeps, ChatFailsKeeps, StoreKeeps,
               RememberSessionKeeps, DieKeeps
            DEF CallStep
  <2>3. CASE \E k \in Calls : DeleteConversation(k) \/ DeleteSession(k)
    BY <2>3, DeleteConversationKeeps, DeleteSessionKeeps
  <2>4. CASE \E v \in Versions : ChangeRights(v) BY <2>4, PageKeeps
  <2> QED BY <2>1, <2>2, <2>3, <2>4 DEF AssistantNext
<1> QED BY <1>1, <1>2, PTL DEF AssistantSpec

\* The conversations, calls, sessions and the page are as they are declared.
THEOREM AssistantTypeCorrect == AssistantSpec => []AssistantTypeOK
BY AssistantInvariant, PTL DEF AssistantInv

\* A session remembers questions of one conversation: its first question is that of the
\* call that made it, and nobody else gets to know it before that call's turn is stored.
THEOREM HistoriesStayApart == AssistantSpec => []HistoryOfOneConversation
<1>1. AssistantInv => HistoryOfOneConversation
  <2> SUFFICES ASSUME AssistantInv, NEW s \in Calls, NEW c \in sessions[s].history
               PROVE  calls[c].conversation = calls[s].conversation
    BY DEF HistoryOfOneConversation
  <2> QED BY DEF AssistantInv, ServerInv, HistoriesAreSound
<1> QED BY <1>1, AssistantInvariant, PTL

\* A conversation never goes back to a session that was given up.
THEOREM RememberedSessionsLive == AssistantSpec => []RememberedIsLive
BY AssistantInvariant, PTL DEF AssistantInv, ServerInv

\* The model never answers next to a turn that was unreadable when the question came: an
\* old session is used only if every turn was readable, and a new one remembers nobody else.
THEOREM RevokedStaysForgotten == AssistantSpec => []RevokedIsForgotten
<1>1. AssistantInv => RevokedIsForgotten
  <2> SUFFICES ASSUME AssistantInv, NEW c \in Calls, calls[c].place = "answered",
                      calls[c].session # None
               PROVE  Context(c) \cap calls[c].barred = {}
    BY DEF RevokedIsForgotten
  <2>1. CallIsSound(c) BY DEF AssistantInv, ServerInv, CallsAreSound
  <2>2. CASE calls[c].session = c
    <3>1. sessions[c].history \ {c} = {}
      BY DEF AssistantInv, ServerInv, HistoriesAreSound, Done
    <3> QED BY <2>2, <3>1 DEF Context, Cited
  <2>3. CASE calls[c].session # c BY <2>1, <2>3 DEF CallIsSound
  <2> QED BY <2>2, <2>3
<1> QED BY <1>1, AssistantInvariant, PTL

\* The page shows the turns of the conversation that the next question continues.
THEOREM PageShowsOneConversation == AssistantSpec => []PageIsOneConversation
BY AssistantInvariant, PTL DEF AssistantInv
==============================================================================
