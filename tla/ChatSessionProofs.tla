------------------------- MODULE ChatSessionProofs -------------------------
(***************************************************************************)
(* Theorems about module ChatSession, for any number of turns and chats,   *)
(* with the approval gate: the composer's Stop has a turn behind it, a     *)
(* gated tool runs as the user decided, and a chat's file holds what was   *)
(* asked in it.                                                            *)
(***************************************************************************)
EXTENDS ChatSession, SequenceTheorems, TLAPS

Places == Live \union {"unused", "ended", "done"}
Decision == {"none", "allow", "deny"}
Transcript == [asked : Turn, words : SUBSET Turn]

ChatTypes ==
  /\ ChatTypeOK
  /\ home \in [Turn -> Chat]
  /\ tapped \in [Turn -> Decision]

\* A transcript of a chat: what was asked in it, by turns that have begun.
Owned(transcript, c) ==
  \A i \in 1 .. Len(transcript) :
    home[transcript[i].asked] = c /\ pc[transcript[i].asked] # "unused"

TranscriptsAreOwned ==
  /\ Owned(turns, conversation_id)
  /\ \A c \in Chat : Owned(file[c], c)

\* The slot holds the decision on the card of the turn it names, whose tool has
\* not run since; nobody else's event is set while it holds one.
SlotIsItsTurns ==
  /\ confirm.turn \notin ran
  /\ confirm.decision # "none" => /\ confirm.turn # None
                                  /\ answered \subseteq {confirm.turn}
                                  /\ tapped[confirm.turn] = confirm.decision

ChatInv == ChatTypes /\ TranscriptsAreOwned /\ BusyHasTask /\ SlotIsItsTurns /\ GateHonoured

----------------------------------------------------------------------------
(* What the actions are made of *)

LEMMA ChatInitially == Init => ChatInv
<1> SUFFICES ASSUME Init PROVE ChatInv
  OBVIOUS
<1>1. << >> \in Transcripts
  BY DEF Transcripts
<1>2. ChatTypes
  <2>1. conversation_id \in Chat /\ turns \in Transcripts /\ file \in [Chat -> Transcripts]
    BY <1>1, ChatAssumption DEF Init
  <2>2. current \in 0 .. Len(turns) /\ busy \in BOOLEAN /\ closing \in BOOLEAN
    <3>1. current = 0 /\ turns = << >> /\ busy = FALSE /\ closing = FALSE
      BY DEF Init
    <3>2. Len(<< >>) = 0 /\ 0 \in 0 .. 0
      OBVIOUS
    <3>3. QED BY <3>1, <3>2
  <2>3. confirm \in [turn : Turn \union {None}, decision : {"none", "allow", "deny"}]
    BY DEF Init, NoCard
  <2>4. pc \in [Turn -> Live \union {"unused", "ended", "done"}]
    BY DEF Init
  <2>5. home \in [Turn -> Chat] /\ tapped \in [Turn -> Decision] /\ polls \in [Turn -> Turn \union {None}]
    BY ChatAssumption DEF Init, Decision
  <2>6. QED BY <2>1, <2>2, <2>3, <2>4, <2>5 DEF Init, ChatTypes, ChatTypeOK
<1>3. TranscriptsAreOwned
  <2>1. \A c \in Chat : Owned(<< >>, c)
    BY DEF Owned
  <2>2. turns = << >> /\ conversation_id \in Chat /\ \A c \in Chat : file[c] = << >>
    BY <1>2 DEF Init, ChatTypes, ChatTypeOK
  <2>3. QED BY <2>1, <2>2 DEF TranscriptsAreOwned
<1>4. confirm = NoCard /\ NoCard.decision = "none" /\ ran = {} /\ ~busy
  BY DEF Init, NoCard
<1>5. QED BY <1>2, <1>3, <1>4 DEF ChatInv, BusyHasTask, SlotIsItsTurns, GateHonoured

\* Once a turn has begun it stays begun, and in its chat.
Begun == \A k \in Turn : pc[k] # "unused" => pc'[k] # "unused" /\ home'[k] = home[k]

LEMMA StaysOwned ==
  ASSUME ChatTypes, Begun, NEW t \in Transcripts, NEW c \in Chat, Owned(t, c) PROVE Owned(t, c)'
<1>1. ASSUME NEW i \in 1 .. Len(t) PROVE t[i].asked \in Turn
  <2>1. t \in Seq(Transcript)
    BY DEF Transcripts, Transcript
  <2>2. t[i] \in Transcript
    BY <2>1, ElementOfSeq
  <2>3. QED BY <2>2 DEF Transcript
<1>2. QED BY <1>1 DEF Begun, Owned

LEMMA GotoGoes ==
  ASSUME ChatTypes, NEW k \in Turn, NEW p \in Places, Goto(k, p)
  PROVE  /\ pc' \in [Turn -> Places]
         /\ \A j \in Turn : pc'[j] = IF j = k THEN p ELSE pc[j]
  BY DEF ChatTypes, ChatTypeOK, Goto, Places

LEMMA AppendedTranscript ==
  ASSUME NEW t \in Transcripts, NEW k \in Turn, NEW words \in SUBSET Turn
  PROVE  /\ Append(t, Exchange(k, words)) \in Transcripts
         /\ Append(t, Exchange(k, words)) # << >>
         /\ Len(t) \in Nat /\ Len(Append(t, Exchange(k, words))) = Len(t) + 1
         /\ \A i \in 1 .. Len(t) : Append(t, Exchange(k, words))[i] = t[i]
         /\ Append(t, Exchange(k, words))[Len(t) + 1].asked = k
<1>0. Exchange(k, words) \in Transcript /\ Exchange(k, words).asked = k
  BY DEF Exchange, Transcript
<1>1. PICK e \in Transcript : e = Exchange(k, words) /\ e.asked = k
  BY <1>0
<1>2. t \in Seq(Transcript)
  BY DEF Transcripts, Transcript
<1>3. Len(t) \in Nat
  BY <1>2, LenProperties
<1>4. /\ Append(t, e) \in Seq(Transcript) /\ Append(t, e) # << >> /\ Len(Append(t, e)) = Len(t) + 1
      /\ \A i \in 1 .. Len(t) : Append(t, e)[i] = t[i]
      /\ Append(t, e)[Len(t) + 1] = e
  BY <1>1, <1>2, AppendProperties
<1>5. QED BY <1>1, <1>3, <1>4 DEF Transcripts, Transcript

\* A bubble's words change, never what was asked.
LEMMA BubbleWrites ==
  ASSUME ChatTypes, NEW words \in SUBSET Turn, Bubble(words)
  PROVE  /\ turns' \in Transcripts /\ Len(turns') = Len(turns)
         /\ \A i \in 1 .. Len(turns) : turns'[i].asked = turns[i].asked
<1>1. turns \in Seq(Transcript) /\ turns \in [1 .. Len(turns) -> Transcript] /\ Len(turns) \in Nat
  BY LenProperties DEF ChatTypes, ChatTypeOK, Transcripts, Transcript
<1>2. CASE turns' = turns
  BY <1>1, <1>2 DEF Transcripts, Transcript
<1>3. CASE current # 0 /\ turns' = [turns EXCEPT ![current].words = words]
  <2>1. current \in 1 .. Len(turns)
    BY <1>1, <1>3 DEF ChatTypes, ChatTypeOK
  <2>2. PICK e : e = [turns[current] EXCEPT !.words = words]
    OBVIOUS
  <2>3. e \in Transcript /\ e.asked = turns[current].asked
    BY <1>1, <2>1, <2>2 DEF Transcript
  <2>4. turns' = [turns EXCEPT ![current] = e]
    BY <1>3, <2>2
  <2>5. turns' \in Seq(Transcript) /\ Len(turns') = Len(turns)
    BY <1>1, <2>1, <2>3, <2>4, ExceptSeq
  <2>6. \A i \in 1 .. Len(turns) : turns'[i] = IF i = current THEN e ELSE turns[i]
    BY <1>1, <2>1, <2>4
  <2>7. QED BY <2>3, <2>5, <2>6 DEF Transcripts, Transcript
<1>4. QED BY <1>2, <1>3 DEF Bubble

LEMMA WordsOfBubble == ASSUME ChatTypes PROVE Words \in SUBSET Turn
<1>1. turns \in [1 .. Len(turns) -> Transcript] /\ Len(turns) \in Nat
  BY LenProperties DEF ChatTypes, ChatTypeOK, Transcripts, Transcript
<1>2. QED BY <1>1 DEF Words, ChatTypes, ChatTypeOK, Transcript

\* What a save leaves in the files.
LEMMA Saved ==
  ASSUME ChatTypes, NEW c0 \in Chat, NEW t \in Transcripts, save_conversation(c0, t)
  PROVE  /\ file' \in [Chat -> Transcripts] /\ tombstones' \subseteq Chat
         /\ \A c \in Chat : file'[c] = file[c] \/ file'[c] = << >> \/ (c = c0 /\ file'[c] = t)
<1>1. << >> \in Transcripts
  BY DEF Transcripts
<1>2. file \in [Chat -> Transcripts] /\ tombstones \subseteq Chat
  BY DEF ChatTypes, ChatTypeOK
<1>3. QED BY <1>1, <1>2 DEF save_conversation, delete_conversation, fileVars

LEMMA SavedOwned ==
  ASSUME ChatTypes, TranscriptsAreOwned, Begun, NEW c0 \in Chat, NEW t \in Transcripts,
         Owned(t, c0)', \/ UNCHANGED fileVars
                        \/ save_conversation(c0, t)
  PROVE  /\ file' \in [Chat -> Transcripts] /\ tombstones' \subseteq Chat
         /\ \A c \in Chat : Owned(file[c], c)'
<1>1. /\ file' \in [Chat -> Transcripts] /\ tombstones' \subseteq Chat
      /\ \A c \in Chat : file'[c] = file[c] \/ file'[c] = << >> \/ (c = c0 /\ file'[c] = t)
  BY Saved DEF fileVars, ChatTypes, ChatTypeOK
<1>2. ASSUME NEW c \in Chat PROVE Owned(file[c], c)'
  <2>1. PICK old \in Transcripts : old = file[c]
    BY DEF ChatTypes, ChatTypeOK
  <2>2. Owned(old, c)'
    BY <2>1, StaysOwned DEF TranscriptsAreOwned
  <2>3. \A i \in 1 .. Len(<< >>) : FALSE
    OBVIOUS
  <2>4. QED BY <1>1, <2>1, <2>2, <2>3 DEF Owned
<1>3. QED BY <1>1, <1>2

----------------------------------------------------------------------------
(* Types *)

\* A turn leaves its gate: what every way out of it does.
LEMMA TypesLeaveGate ==
  ASSUME ChatTypes, NEW k \in Turn, LeaveGate(k), ran' \subseteq Turn, backstops' \subseteq Turn
  PROVE  ChatTypes'
<1>1. pc' \in [Turn -> Places] /\ confirm' = NoCard /\ answered' \subseteq Turn
  BY GotoGoes DEF LeaveGate, Places, Live, ChatTypes, ChatTypeOK
<1>2. NoCard \in [turn : Turn \union {None}, decision : {"none", "allow", "deny"}]
  BY DEF NoCard
<1>3. QED BY <1>1, <1>2 DEF LeaveGate, uiVars, fileVars, ChatTypes, ChatTypeOK, Places

LEMMA TypesCancel ==
  ASSUME ChatTypes, NEW k \in Turn, Cancel(k), backstops' \subseteq Turn PROVE ChatTypes'
<1>1. CASE LeaveGate(k) /\ UNCHANGED ran
  <2>1. ran' \subseteq Turn
    BY <1>1 DEF ChatTypes, ChatTypeOK
  <2>2. QED BY <1>1, <2>1, TypesLeaveGate
<1>2. CASE Goto(k, "ended") /\ UNCHANGED <<uiVars, polls, gates, raised, gateVars, fileVars, home>>
  <2>1. pc' \in [Turn -> Places]
    BY <1>2, GotoGoes DEF Places
  <2>2. QED BY <1>2, <2>1 DEF uiVars, gateVars, fileVars, ChatTypes, ChatTypeOK, Places
<1>3. QED BY <1>1, <1>2 DEF Cancel

LEMMA TypesUser == ASSUME ChatTypes, User PROVE ChatTypes'
<1>0. /\ conversation_id \in Chat /\ turns \in Transcripts /\ file \in [Chat -> Transcripts]
      /\ Len(turns) \in Nat /\ << >> \in Transcripts /\ 0 \in 0 .. Len(<< >>)
  <2>1. conversation_id \in Chat /\ turns \in Transcripts /\ file \in [Chat -> Transcripts]
    BY DEF ChatTypes, ChatTypeOK
  <2>2. Len(turns) \in Nat
    BY <2>1, LenProperties DEF Transcripts
  <2>3. << >> \in Transcripts /\ Len(<< >>) = 0 /\ 0 \in 0 .. 0
    BY DEF Transcripts
  <2>4. QED BY <2>1, <2>2, <2>3
<1>1. ASSUME NEW k \in Turn, send(k) PROVE ChatTypes'
  <2>1. turns' \in Transcripts /\ current' \in 0 .. Len(turns')
    <3>1. turns' \in Transcripts /\ Len(turns') = Len(turns) + 1 /\ current' = Len(turns')
      BY <1>0, <1>1, AppendedTranscript DEF send
    <3>2. QED BY <1>0, <3>1
  <2>2. pc' \in [Turn -> Places] /\ home' \in [Turn -> Chat]
    BY <1>0, <1>1 DEF send, ChatTypes, ChatTypeOK, Places, Live
  <2>3. QED BY <1>1, <2>1, <2>2 DEF send, gateVars, fileVars, ChatTypes, ChatTypeOK, Places
<1>2. ASSUME NEW k \in Turn, adopt_transcript(k) PROVE ChatTypes'
  <2>1. turns' \in Transcripts /\ current' \in 0 .. Len(turns')
    <3>1. turns' \in Transcripts /\ Len(turns') = Len(turns) + 1 /\ UNCHANGED current
      BY <1>0, <1>2, AppendedTranscript DEF adopt_transcript
    <3>2. current \in 0 .. Len(turns)
      BY DEF ChatTypes, ChatTypeOK
    <3>3. QED BY <1>0, <3>1, <3>2
  <2>2. pc' \in [Turn -> Places] /\ home' \in [Turn -> Chat]
    BY <1>0, <1>2 DEF adopt_transcript, ChatTypes, ChatTypeOK, Places, Live
  <2>3. file' \in [Chat -> Transcripts] /\ tombstones' \subseteq Chat
    BY <1>0, <1>2, <2>1, Saved DEF adopt_transcript, _persist_history
  <2>4. QED BY <1>2, <2>1, <2>2, <2>3 DEF adopt_transcript, gateVars, ChatTypes, ChatTypeOK, Places
<1>3. ASSUME NEW c \in Chat, new_conversation(c) PROVE ChatTypes'
  <2>1. file' \in [Chat -> Transcripts] /\ tombstones' \subseteq Chat
    BY <1>0, <1>3, Saved DEF new_conversation, _persist_history
  <2>2. turns' \in Transcripts /\ current' \in 0 .. Len(turns')
    <3>1. turns' = << >> /\ current' = 0
      BY <1>3 DEF new_conversation
    <3>2. QED BY <1>0, <3>1
  <2>3. QED BY <1>3, <2>1, <2>2 DEF new_conversation, taskVars, gateVars, ChatTypes, ChatTypeOK
<1>4. ASSUME NEW c \in Chat, load_conversation(c) PROVE ChatTypes'
  <2>1. file' \in [Chat -> Transcripts] /\ tombstones' \subseteq Chat
    BY <1>0, <1>4, Saved DEF load_conversation, _persist_history
  <2>2. turns' \in Transcripts /\ current' \in 0 .. Len(turns')
    <3>1. turns' = file[c] /\ current' = 0 /\ file[c] \in Transcripts
      BY <1>0, <1>4 DEF load_conversation
    <3>2. Len(file[c]) \in Nat
      BY <3>1, LenProperties DEF Transcripts
    <3>3. QED BY <3>1, <3>2
  <2>3. QED BY <1>4, <2>1, <2>2 DEF load_conversation, taskVars, gateVars, ChatTypes, ChatTypeOK
<1>5. ASSUME NEW c \in Chat, DeleteChat(c) PROVE ChatTypes'
  <2>1. file' \in [Chat -> Transcripts] /\ tombstones' \subseteq Chat
    BY <1>0, <1>5 DEF DeleteChat, delete_conversation, ChatTypes, ChatTypeOK
  <2>2. QED BY <1>5, <2>1 DEF DeleteChat, uiVars, taskVars, gateVars, ChatTypes, ChatTypeOK
<1>6. CASE stop
  <2>1. raised' \subseteq Turn \union {None} /\ backstops' \subseteq Turn
    BY <1>6 DEF stop, ChatTypes, ChatTypeOK
  <2>2. QED BY <1>6, <2>1 DEF stop, uiVars, gateVars, fileVars, ChatTypes, ChatTypeOK
<1>7. CASE minimize
  <2>1. file' \in [Chat -> Transcripts] /\ tombstones' \subseteq Chat
    BY <1>0, <1>7, Saved DEF minimize, _persist_history
  <2>2. QED BY <1>7, <2>1 DEF minimize, uiVars, taskVars, gateVars, ChatTypes, ChatTypeOK
<1>8. CASE shutdown
  <2>1. file' \in [Chat -> Transcripts] /\ tombstones' \subseteq Chat
    BY <1>0, <1>8, Saved DEF shutdown, _persist_history
  <2>2. pc' \in [Turn -> Places]
    BY <1>8, GotoGoes DEF shutdown, Places, Live, ChatTypes, ChatTypeOK
  <2>3. /\ confirm' \in [turn : Turn \union {None}, decision : {"none", "allow", "deny"}]
        /\ answered' \subseteq Turn /\ raised' \subseteq Turn \union {None}
    BY <1>8 DEF shutdown, NoCard, ChatTypes, ChatTypeOK
  <2>4. QED BY <1>8, <2>1, <2>2, <2>3 DEF shutdown, ChatTypes, ChatTypeOK, Places
<1>9. QED BY <1>1, <1>2, <1>3, <1>4, <1>5, <1>6, <1>7, <1>8 DEF User

LEMMA TypesTask == ASSUME ChatTypes, NEW k \in Turn, Task(k) PROVE ChatTypes'
<1>0. /\ conversation_id \in Chat /\ turns \in Transcripts /\ current \in 0 .. Len(turns)
      /\ Words \in SUBSET Turn /\ {} \in SUBSET Turn /\ {k} \in SUBSET Turn
      /\ Words \union {k} \in SUBSET Turn
  BY WordsOfBubble DEF ChatTypes, ChatTypeOK
<1>1. CASE Begin(k)
  <2>1. pc' \in [Turn -> Places] /\ polls' \in [Turn -> Turn \union {None}]
    BY <1>1, GotoGoes DEF Begin, Places, Live, ChatTypes, ChatTypeOK
  <2>2. QED BY <1>1, <2>1 DEF Begin, uiVars, gateVars, fileVars, ChatTypes, ChatTypeOK, Places
<1>2. ASSUME NEW words \in SUBSET Turn, Bubble(words),
             UNCHANGED <<conversation_id, current, busy, task, event, closing, taskVars, gateVars, fileVars, home>>
      PROVE  ChatTypes'
  <2>1. turns' \in Transcripts /\ current' \in 0 .. Len(turns')
    BY <1>0, <1>2, BubbleWrites
  <2>2. QED BY <1>2, <2>1 DEF taskVars, gateVars, fileVars, ChatTypes, ChatTypeOK
<1>3. CASE Token(k) \/ _on_tool_start(k)
  BY <1>0, <1>2, <1>3 DEF Token, _on_tool_start
<1>4. CASE Finish(k)
  <2>1. turns' \in Transcripts /\ current' \in 0 .. Len(turns')
    <3>1. (\E words \in SUBSET Turn : Bubble(words)) \/ UNCHANGED turns
      BY <1>0, <1>4 DEF Finish
    <3>2. QED BY <1>0, <1>4, <3>1, BubbleWrites DEF Finish
  <2>2. file' \in [Chat -> Transcripts] /\ tombstones' \subseteq Chat
    <3>1. UNCHANGED fileVars \/ _persist_history(turns')
      BY <1>4 DEF Finish
    <3>2. CASE UNCHANGED fileVars
      BY <3>2 DEF fileVars, ChatTypes, ChatTypeOK
    <3>3. CASE _persist_history(turns')
      BY <1>0, <2>1, <3>3, Saved DEF _persist_history
    <3>4. QED BY <3>1, <3>2, <3>3
  <2>3. pc' \in [Turn -> Places]
    BY <1>4, GotoGoes DEF Finish, Places
  <2>4. QED BY <1>4, <2>1, <2>2, <2>3 DEF Finish, gateVars, ChatTypes, ChatTypeOK, Places
<1>5. CASE Fails(k)
  <2>1. pc' \in [Turn -> Places]
    BY <1>5, GotoGoes DEF Fails, Places
  <2>2. QED BY <1>5, <2>1 DEF Fails, uiVars, gateVars, fileVars, ChatTypes, ChatTypeOK, Places
<1>6. CASE BackstopFires(k)
  <2>1. backstops' \subseteq Turn
    BY <1>6 DEF BackstopFires, ChatTypes, ChatTypeOK
  <2>2. CASE task # None /\ Cancel(task)
    BY <2>1, <2>2, TypesCancel DEF ChatTypes, ChatTypeOK
  <2>3. CASE UNCHANGED <<uiVars, pc, polls, gates, raised, gateVars, fileVars, home>>
    BY <2>1, <2>3 DEF uiVars, gateVars, fileVars, ChatTypes, ChatTypeOK
  <2>4. QED BY <1>6, <2>2, <2>3 DEF BackstopFires
<1>7. CASE _on_turn_done(k)
  <2>1. pc' \in [Turn -> Places]
    BY <1>7, GotoGoes DEF _on_turn_done, Places
  <2>2. file' \in [Chat -> Transcripts] /\ tombstones' \subseteq Chat
    <3>1. CASE closing
      BY <1>7, <3>1 DEF _on_turn_done, fileVars, ChatTypes, ChatTypeOK
    <3>2. CASE ~closing
      BY <1>0, <1>7, <3>2, Saved DEF _on_turn_done, _persist_history
    <3>3. QED BY <3>1, <3>2
  <2>3. QED BY <1>7, <2>1, <2>2 DEF _on_turn_done, gateVars, ChatTypes, ChatTypeOK, Places
<1>8. QED BY <1>1, <1>3, <1>4, <1>5, <1>6, <1>7 DEF Task

LEMMA TypesApproval == ASSUME ChatTypes, Approval PROVE ChatTypes'
<1>1. ASSUME NEW k \in Turn, OpenGate(k) PROVE ChatTypes'
  <2>1. pc' \in [Turn -> Places] /\ gates' \subseteq Turn /\ ran' \subseteq Turn
    BY <1>1, GotoGoes DEF OpenGate, Places, Live, ChatTypes, ChatTypeOK
  <2>2. confirm' \in [turn : Turn \union {None}, decision : {"none", "allow", "deny"}]
        /\ tapped' \in [Turn -> Decision]
    BY <1>1 DEF OpenGate, ChatTypes, Decision
  <2>3. QED BY <1>1, <2>1, <2>2 DEF OpenGate, uiVars, fileVars, ChatTypes, ChatTypeOK, Places
<1>2. ASSUME NEW k \in Turn, ResumeGate(k) \/ GateTimesOut(k) PROVE ChatTypes'
  <2>1. LeaveGate(k) /\ ran' \subseteq Turn /\ backstops' \subseteq Turn
    BY <1>2 DEF ResumeGate, GateTimesOut, ChatTypes, ChatTypeOK
  <2>2. QED BY <2>1, TypesLeaveGate
<1>3. ASSUME NEW d \in {"allow", "deny"}, _confirm_decision(d) PROVE ChatTypes'
  <2>1. confirm.turn \in Turn
    BY <1>3 DEF _confirm_decision, ChatTypes, ChatTypeOK
  <2>2. /\ confirm' \in [turn : Turn \union {None}, decision : {"none", "allow", "deny"}]
        /\ answered' \subseteq Turn /\ tapped' \in [Turn -> Decision]
    BY <1>3, <2>1 DEF _confirm_decision, ChatTypes, ChatTypeOK, Decision
  <2>3. QED BY <1>3, <2>2 DEF _confirm_decision, uiVars, taskVars, fileVars, ChatTypes, ChatTypeOK
<1>4. QED BY <1>1, <1>2, <1>3 DEF Approval

LEMMA TypesStep == ChatTypes /\ [Next]_vars => ChatTypes'
<1> SUFFICES ASSUME ChatTypes, [Next]_vars PROVE ChatTypes'
  OBVIOUS
<1>1. ASSUME NEW c \in Chat, TombstoneExpires(c) PROVE ChatTypes'
  <2>1. tombstones' \subseteq Chat
    BY <1>1 DEF TombstoneExpires, ChatTypes, ChatTypeOK
  <2>2. QED BY <1>1, <2>1 DEF TombstoneExpires, uiVars, taskVars, gateVars, ChatTypes, ChatTypeOK
<1>2. CASE UNCHANGED vars
  BY <1>2 DEF vars, uiVars, taskVars, gateVars, fileVars, ChatTypes, ChatTypeOK
<1>3. QED BY <1>1, <1>2, TypesUser, TypesTask, TypesApproval DEF Next, UngatedNext

----------------------------------------------------------------------------
(* Whose transcripts *)

LEMMA BegunGoto ==
  ASSUME ChatTypes, NEW k \in Turn, NEW p \in Places, p # "unused", Goto(k, p), UNCHANGED home
  PROVE  Begun
  BY GotoGoes DEF Begun

LEMMA BegunStep == ASSUME ChatTypes, [Next]_vars PROVE Begun
<1>1. ASSUME NEW k \in Turn, send(k) \/ adopt_transcript(k) PROVE Begun
  BY <1>1 DEF send, adopt_transcript, Begun, ChatTypes, ChatTypeOK
<1>2. ASSUME UNCHANGED <<pc, home>> PROVE Begun
  BY <1>2 DEF Begun
<1>3. ASSUME NEW k \in Turn, LeaveGate(k) PROVE Begun
  BY <1>3, BegunGoto DEF LeaveGate, Places, Live
<1>4. ASSUME NEW k \in Turn, Cancel(k) PROVE Begun
  BY <1>3, <1>4, BegunGoto DEF Cancel, Places
<1>5. ASSUME NEW k \in Turn, Task(k) PROVE Begun
  <2>1. CASE Begin(k) \/ Finish(k) \/ Fails(k) \/ _on_turn_done(k)
    BY <2>1, BegunGoto DEF Begin, Finish, Fails, _on_turn_done, Places, Live
  <2>2. CASE Token(k) \/ _on_tool_start(k)
    BY <1>2, <2>2 DEF Token, _on_tool_start, taskVars
  <2>3. CASE BackstopFires(k)
    BY <1>2, <1>4, <2>3 DEF BackstopFires, ChatTypes, ChatTypeOK
  <2>4. QED BY <1>5, <2>1, <2>2, <2>3 DEF Task
<1>6. CASE shutdown
  <2>1. CASE UNCHANGED pc
    BY <1>2, <1>6, <2>1 DEF shutdown
  <2>2. CASE task # None /\ (Goto(task, "running") \/ Goto(task, "ended"))
    BY <1>6, <2>2, BegunGoto DEF shutdown, Places, Live, ChatTypes, ChatTypeOK
  <2>3. QED BY <1>6, <2>1, <2>2 DEF shutdown
<1>7. CASE stop \/ minimize \/ \E c \in Chat : new_conversation(c) \/ load_conversation(c)
                                               \/ DeleteChat(c) \/ TombstoneExpires(c)
  BY <1>2, <1>7 DEF stop, minimize, new_conversation, load_conversation, DeleteChat,
                    TombstoneExpires, taskVars
<1>8. CASE Approval
  <2>1. ASSUME NEW k \in Turn, OpenGate(k) PROVE Begun
    BY <2>1, BegunGoto DEF OpenGate, Places, Live
  <2>2. ASSUME NEW d, _confirm_decision(d) PROVE Begun
    BY <1>2, <2>2 DEF _confirm_decision, taskVars
  <2>3. QED BY <1>3, <1>8, <2>1, <2>2 DEF Approval, ResumeGate, GateTimesOut
<1>9. CASE UNCHANGED vars
  BY <1>2, <1>9 DEF vars, taskVars
<1>10. QED BY <1>1, <1>5, <1>6, <1>7, <1>8, <1>9 DEF Next, UngatedNext, User

\* Other words for the same questions.
LEMMA SameQuestions ==
  ASSUME NEW t \in Transcripts, NEW u, NEW c, Len(u) = Len(t),
         \A i \in 1 .. Len(t) : u[i].asked = t[i].asked, Owned(t, c)'
  PROVE  Owned(u, c)'
  BY DEF Owned

\* A question more, asked here and now.
LEMMA OneMoreQuestion ==
  ASSUME NEW t \in Transcripts, NEW k \in Turn, NEW words \in SUBSET Turn, NEW c, Owned(t, c)',
         home'[k] = c, pc'[k] # "unused"
  PROVE  Owned(Append(t, Exchange(k, words)), c)'
<1>1. PICK u \in Transcripts : u = Append(t, Exchange(k, words))
  BY AppendedTranscript
<1>2. PICK n \in Nat : n = Len(t)
  BY AppendedTranscript
<1>3. Len(u) = n + 1 /\ (\A i \in 1 .. n : u[i] = t[i]) /\ u[n + 1].asked = k
  BY <1>1, <1>2, AppendedTranscript
<1>4. ASSUME NEW i \in 1 .. n + 1 PROVE home'[u[i].asked] = c /\ pc'[u[i].asked] # "unused"
  <2>1. i \in 1 .. n \/ i = n + 1
    OBVIOUS
  <2>2. QED BY <1>2, <1>3, <2>1 DEF Owned
<1>5. QED BY <1>1, <1>3, <1>4 DEF Owned

LEMMA OwnedStep == ASSUME ChatTypes, TranscriptsAreOwned, [Next]_vars PROVE TranscriptsAreOwned'
<1>0. ChatTypes' /\ Begun
  BY TypesStep, BegunStep
<1>1. PICK t \in Transcripts, c0 \in Chat : t = turns /\ c0 = conversation_id
  BY DEF ChatTypes, ChatTypeOK
<1>2. Owned(t, c0)'
  BY <1>0, <1>1, StaysOwned DEF TranscriptsAreOwned
<1>3. ASSUME UNCHANGED fileVars \/ _persist_history(turns) PROVE \A c \in Chat : Owned(file[c], c)'
  BY <1>0, <1>1, <1>2, <1>3, SavedOwned DEF _persist_history
<1>4. ASSUME UNCHANGED <<turns, conversation_id>> PROVE Owned(turns, conversation_id)'
  BY <1>1, <1>2, <1>4
<1>5. ASSUME NEW words \in SUBSET Turn, Bubble(words)
      PROVE  \E u \in Transcripts : u = turns' /\ Owned(u, c0)'
  <2>1. PICK u \in Transcripts : u = turns'
    BY <1>5, BubbleWrites
  <2>2. Len(u) = Len(t) /\ \A i \in 1 .. Len(t) : u[i].asked = t[i].asked
    BY <1>1, <1>5, <2>1, BubbleWrites
  <2>3. QED BY <1>2, <2>1, <2>2, SameQuestions
<1>6. ASSUME NEW k \in Turn, send(k) PROVE TranscriptsAreOwned'
  <2>1. home'[k] = c0 /\ pc'[k] # "unused"
    BY <1>1, <1>6 DEF send, ChatTypes, ChatTypeOK
  <2>2. turns' = Append(t, Exchange(k, {})) /\ conversation_id' = c0 /\ UNCHANGED fileVars
    BY <1>1, <1>6 DEF send
  <2>3. Owned(Append(t, Exchange(k, {})), c0)'
    BY <1>2, <2>1, OneMoreQuestion
  <2>4. QED BY <1>3, <2>2, <2>3 DEF TranscriptsAreOwned
<1>7. ASSUME NEW k \in Turn, adopt_transcript(k) PROVE TranscriptsAreOwned'
  <2>1. home'[k] = c0 /\ pc'[k] # "unused"
    BY <1>1, <1>7 DEF adopt_transcript, ChatTypes, ChatTypeOK
  <2>2. PICK u \in Transcripts : u = Append(t, Exchange(k, {k}))
    BY AppendedTranscript
  <2>3. turns' = u /\ conversation_id' = c0 /\ save_conversation(c0, u)
    BY <1>1, <1>7, <2>2 DEF adopt_transcript, _persist_history
  <2>4. Owned(u, c0)'
    BY <1>2, <2>1, <2>2, OneMoreQuestion
  <2>5. \A c \in Chat : Owned(file[c], c)'
    BY <1>0, <2>3, <2>4, SavedOwned
  <2>6. QED BY <2>3, <2>4, <2>5 DEF TranscriptsAreOwned
<1>8. ASSUME NEW c \in Chat, new_conversation(c) PROVE TranscriptsAreOwned'
  <2>1. Owned(<< >>, c)'
    BY DEF Owned
  <2>2. QED BY <1>3, <1>8, <2>1 DEF new_conversation, TranscriptsAreOwned
<1>9. ASSUME NEW c \in Chat, load_conversation(c) PROVE TranscriptsAreOwned'
  <2>1. PICK u \in Transcripts : u = file[c]
    BY DEF ChatTypes, ChatTypeOK
  <2>2. Owned(u, c)'
    BY <1>0, <2>1, StaysOwned DEF TranscriptsAreOwned
  <2>3. QED BY <1>3, <1>9, <2>1, <2>2 DEF load_conversation, TranscriptsAreOwned
<1>10. ASSUME NEW c \in Chat, DeleteChat(c) PROVE TranscriptsAreOwned'
  <2>1. file' = [file EXCEPT ![c] = << >>] /\ UNCHANGED <<turns, conversation_id>>
    BY <1>10 DEF DeleteChat, delete_conversation, uiVars
  <2>2. ASSUME NEW d \in Chat PROVE Owned(file[d], d)'
    <3>1. PICK old \in Transcripts : old = file[d]
      BY DEF ChatTypes, ChatTypeOK
    <3>2. Owned(old, d)' /\ Owned(<< >>, d)'
      BY <1>0, <3>1, StaysOwned DEF TranscriptsAreOwned, Owned
    <3>3. file'[d] = old \/ file'[d] = << >>
      BY <2>1, <3>1 DEF ChatTypes, ChatTypeOK
    <3>4. QED BY <3>2, <3>3
  <2>3. QED BY <1>4, <2>1, <2>2 DEF TranscriptsAreOwned
<1>11. ASSUME NEW c \in Chat, TombstoneExpires(c) PROVE TranscriptsAreOwned'
  <2>1. ASSUME NEW d \in Chat PROVE Owned(file[d], d)'
    <3>1. PICK old \in Transcripts : old = file[d]
      BY DEF ChatTypes, ChatTypeOK
    <3>2. Owned(old, d)'
      BY <1>0, <3>1, StaysOwned DEF TranscriptsAreOwned
    <3>3. QED BY <1>11, <3>1, <3>2 DEF TombstoneExpires
  <2>2. QED BY <1>4, <1>11, <2>1 DEF TombstoneExpires, uiVars, TranscriptsAreOwned
<1>12. CASE stop \/ minimize \/ shutdown
  BY <1>3, <1>4, <1>12 DEF stop, minimize, shutdown, uiVars, TranscriptsAreOwned
<1>13. ASSUME NEW k \in Turn, Finish(k) PROVE TranscriptsAreOwned'
  <2>1. conversation_id' = c0 /\ {k} \in SUBSET Turn /\ Words \in SUBSET Turn
    BY <1>1, <1>13, WordsOfBubble DEF Finish
  <2>2. PICK u \in Transcripts : u = turns' /\ Owned(u, c0)'
    <3>1. (\E words \in SUBSET Turn : Bubble(words)) \/ UNCHANGED turns
      BY <1>13, <2>1 DEF Finish
    <3>2. QED BY <1>1, <1>2, <1>5, <3>1
  <2>3. \A c \in Chat : Owned(file[c], c)'
    <3>1. UNCHANGED fileVars \/ save_conversation(c0, u)
      BY <1>1, <1>13, <2>2 DEF Finish, _persist_history
    <3>2. QED BY <1>0, <2>2, <3>1, SavedOwned
  <2>4. QED BY <2>1, <2>2, <2>3 DEF TranscriptsAreOwned
<1>14. ASSUME NEW k \in Turn, Token(k) \/ _on_tool_start(k) PROVE TranscriptsAreOwned'
  <2>1. PICK words \in SUBSET Turn : Bubble(words)
    BY <1>14, WordsOfBubble DEF Token, _on_tool_start
  <2>2. UNCHANGED <<conversation_id, fileVars>>
    BY <1>14 DEF Token, _on_tool_start
  <2>3. Owned(turns, conversation_id)'
    BY <1>1, <1>5, <2>1, <2>2
  <2>4. QED BY <1>3, <2>2, <2>3 DEF TranscriptsAreOwned
<1>15. ASSUME NEW k \in Turn, Begin(k) \/ Fails(k) \/ _on_turn_done(k) PROVE TranscriptsAreOwned'
  BY <1>3, <1>4, <1>15 DEF Begin, Fails, _on_turn_done, uiVars, TranscriptsAreOwned
<1>16. ASSUME NEW k \in Turn, BackstopFires(k) PROVE TranscriptsAreOwned'
  BY <1>3, <1>4, <1>16 DEF BackstopFires, Cancel, LeaveGate, uiVars, TranscriptsAreOwned
<1>17. CASE Approval
  BY <1>3, <1>4, <1>17 DEF Approval, OpenGate, ResumeGate, GateTimesOut, LeaveGate, _confirm_decision,
                           uiVars, TranscriptsAreOwned
<1>18. CASE UNCHANGED vars
  BY <1>3, <1>4, <1>18 DEF vars, uiVars, TranscriptsAreOwned
<1>19. QED BY <1>6, <1>7, <1>8, <1>9, <1>10, <1>11, <1>12, <1>13, <1>14, <1>15, <1>16, <1>17, <1>18
           DEF Next, UngatedNext, User, Task

----------------------------------------------------------------------------
(* The Stop of the composer *)

\* While its task is live or about to be dealt with, no step but its own done
\* callback takes it away.
LEMMA BusyStep == ASSUME ChatTypes, BusyHasTask, [Next]_vars PROVE BusyHasTask'
<1>0. /\ task \in Turn \union {None} /\ busy \in BOOLEAN /\ pc \in [Turn -> Places]
  BY DEF ChatTypes, ChatTypeOK, Places
<1>1. ASSUME NEW k \in Turn, send(k) PROVE BusyHasTask'
  BY <1>0, <1>1, ChatAssumption DEF send, BusyHasTask, Live
<1>2. ASSUME ~busy' PROVE BusyHasTask'
  BY <1>2 DEF BusyHasTask
<1>3. ASSUME UNCHANGED <<busy, task, pc>> PROVE BusyHasTask'
  BY <1>3 DEF BusyHasTask
<1>4. ASSUME NEW k \in Turn, NEW p \in Live \union {"ended"}, Goto(k, p), UNCHANGED <<busy, task>>
      PROVE  BusyHasTask'
  <2>1. task \in Turn => pc'[task] = p \/ pc'[task] = pc[task]
    BY <1>4, GotoGoes DEF Places, Live
  <2>2. QED BY <1>0, <1>4, <2>1 DEF BusyHasTask
<1>5. ASSUME NEW k \in Turn, adopt_transcript(k) \/ _on_turn_done(k) PROVE BusyHasTask'
  BY <1>2, <1>5 DEF adopt_transcript, _on_turn_done
<1>6. ASSUME NEW c \in Chat, new_conversation(c) PROVE BusyHasTask'
  BY <1>2, <1>6 DEF new_conversation
<1>7. ASSUME NEW c \in Chat, load_conversation(c) \/ DeleteChat(c) \/ TombstoneExpires(c) PROVE BusyHasTask'
  BY <1>3, <1>7 DEF load_conversation, DeleteChat, TombstoneExpires, uiVars, taskVars
<1>8. CASE stop \/ minimize
  BY <1>3, <1>8 DEF stop, minimize, uiVars, taskVars
<1>9. CASE shutdown
  <2>1. CASE UNCHANGED pc
    BY <1>3, <1>9, <2>1 DEF shutdown
  <2>2. CASE task # None /\ (Goto(task, "running") \/ Goto(task, "ended"))
    BY <1>0, <1>4, <1>9, <2>2 DEF shutdown, Live
  <2>3. QED BY <1>9, <2>1, <2>2 DEF shutdown
<1>10. ASSUME NEW k \in Turn, LeaveGate(k) PROVE BusyHasTask'
  BY <1>4, <1>10 DEF LeaveGate, uiVars, Live
<1>11. ASSUME NEW k \in Turn, Cancel(k) PROVE BusyHasTask'
  BY <1>4, <1>10, <1>11 DEF Cancel, uiVars, Live
<1>12. ASSUME NEW k \in Turn, Begin(k) \/ Finish(k) \/ Fails(k) \/ OpenGate(k) PROVE BusyHasTask'
  BY <1>4, <1>12 DEF Begin, Finish, Fails, OpenGate, uiVars, Live
<1>13. ASSUME NEW k \in Turn, Token(k) \/ _on_tool_start(k) PROVE BusyHasTask'
  BY <1>3, <1>13 DEF Token, _on_tool_start, taskVars
<1>14. ASSUME NEW k \in Turn, BackstopFires(k) PROVE BusyHasTask'
  BY <1>0, <1>3, <1>11, <1>14 DEF BackstopFires, uiVars
<1>15. ASSUME NEW d, _confirm_decision(d) PROVE BusyHasTask'
  BY <1>3, <1>15 DEF _confirm_decision, uiVars, taskVars
<1>16. CASE UNCHANGED vars
  BY <1>3, <1>16 DEF vars, uiVars, taskVars
<1>17. QED BY <1>1, <1>5, <1>6, <1>7, <1>8, <1>9, <1>10, <1>12, <1>13, <1>14, <1>15, <1>16
           DEF Next, UngatedNext, User, Task, Approval, ResumeGate, GateTimesOut

----------------------------------------------------------------------------
(* The approval gate *)

\* An emptied slot decides nothing.
LEMMA SlotEmptied ==
  ASSUME ChatTypes, GateHonoured, confirm' = NoCard, UNCHANGED tapped, ran' \subseteq Turn,
         \A k \in ran' : k \in ran \/ tapped[k] = "allow"
  PROVE  SlotIsItsTurns' /\ GateHonoured'
  BY ChatAssumption DEF SlotIsItsTurns, GateHonoured, NoCard

LEMMA GateStep ==
  ASSUME ChatTypes, SlotIsItsTurns, GateHonoured, [Next]_vars PROVE SlotIsItsTurns' /\ GateHonoured'
<1>0. /\ ran \subseteq Turn /\ answered \subseteq Turn /\ tapped \in [Turn -> Decision]
      /\ confirm \in [turn : Turn \union {None}, decision : Decision]
      /\ task \in Turn \union {None}
  BY DEF ChatTypes, ChatTypeOK, Decision
<1>1. ASSUME UNCHANGED gateVars PROVE SlotIsItsTurns' /\ GateHonoured'
  BY <1>1 DEF gateVars, SlotIsItsTurns, GateHonoured
<1>2. ASSUME NEW k \in Turn, OpenGate(k) PROVE SlotIsItsTurns' /\ GateHonoured'
  <2>1. /\ confirm' = [turn |-> k, decision |-> "none"] /\ ran' = ran \ {k}
        /\ tapped' = [tapped EXCEPT ![k] = "none"]
    BY <1>2 DEF OpenGate
  <2>2. \A j \in ran' : tapped'[j] = tapped[j]
    BY <1>0, <2>1
  <2>3. QED BY <2>1, <2>2 DEF SlotIsItsTurns, GateHonoured
<1>3. ASSUME NEW k \in Turn, ResumeGate(k) PROVE SlotIsItsTurns' /\ GateHonoured'
  <2>1. /\ confirm' = NoCard /\ UNCHANGED tapped /\ k \in answered
        /\ ran' = IF confirm.decision = "allow" THEN ran \union {k} ELSE ran
    BY <1>3 DEF ResumeGate, LeaveGate
  <2>2. confirm.decision = "allow" => tapped[k] = "allow"
    BY <2>1 DEF SlotIsItsTurns
  <2>3. QED BY <1>0, <2>1, <2>2, SlotEmptied
<1>4. ASSUME NEW k \in Turn, LeaveGate(k), UNCHANGED ran PROVE SlotIsItsTurns' /\ GateHonoured'
  BY <1>0, <1>4, SlotEmptied DEF LeaveGate
<1>5. ASSUME NEW k \in Turn, Cancel(k) PROVE SlotIsItsTurns' /\ GateHonoured'
  BY <1>1, <1>4, <1>5 DEF Cancel
<1>6. ASSUME NEW d \in {"allow", "deny"}, _confirm_decision(d) PROVE SlotIsItsTurns' /\ GateHonoured'
  <2>1. confirm.turn \in Turn /\ confirm.turn \notin ran
    BY <1>0, <1>6 DEF _confirm_decision, SlotIsItsTurns
  <2>2. PICK k \in Turn : k = confirm.turn
    BY <2>1
  <2>3. /\ confirm'.turn = k /\ confirm'.decision = d /\ answered' = {k} /\ UNCHANGED ran
        /\ tapped' = [tapped EXCEPT ![k] = d]
    BY <1>0, <1>6, <2>2 DEF _confirm_decision
  <2>4. tapped'[k] = d /\ \A j \in ran' : tapped'[j] = tapped[j]
    BY <1>0, <2>1, <2>2, <2>3
  <2>5. k # None /\ k \notin ran'
    BY <2>1, <2>2, <2>3, ChatAssumption
  <2>6. QED BY <2>3, <2>4, <2>5 DEF SlotIsItsTurns, GateHonoured
<1>7. CASE shutdown
  <2>1. CASE UNCHANGED <<confirm, answered>>
    BY <1>1, <1>7, <2>1 DEF shutdown, gateVars
  <2>2. CASE confirm' = NoCard
    BY <1>0, <1>7, <2>2, SlotEmptied DEF shutdown
  <2>3. QED BY <1>7, <2>1, <2>2 DEF shutdown
<1>8. ASSUME NEW k \in Turn, Task(k) PROVE SlotIsItsTurns' /\ GateHonoured'
  <2>1. CASE Begin(k) \/ Token(k) \/ _on_tool_start(k) \/ Finish(k) \/ Fails(k) \/ _on_turn_done(k)
    BY <1>1, <2>1 DEF Begin, Token, _on_tool_start, Finish, Fails, _on_turn_done
  <2>2. CASE BackstopFires(k)
    BY <1>0, <1>1, <1>5, <2>2 DEF BackstopFires
  <2>3. QED BY <1>8, <2>1, <2>2 DEF Task
<1>9. CASE stop \/ minimize \/ (\E k \in Turn : send(k) \/ adopt_transcript(k))
           \/ \E c \in Chat : new_conversation(c) \/ load_conversation(c) \/ DeleteChat(c) \/ TombstoneExpires(c)
  BY <1>1, <1>9 DEF stop, minimize, send, adopt_transcript, new_conversation, load_conversation,
                    DeleteChat, TombstoneExpires
<1>10. CASE UNCHANGED vars
  BY <1>1, <1>10 DEF vars
<1>11. ASSUME NEW k \in Turn, GateTimesOut(k) PROVE SlotIsItsTurns' /\ GateHonoured'
  BY <1>4, <1>11 DEF GateTimesOut
<1>12. QED BY <1>2, <1>3, <1>6, <1>7, <1>8, <1>9, <1>10, <1>11
           DEF Next, UngatedNext, User, Approval

----------------------------------------------------------------------------
LEMMA ChatAlways == ChatSpec => []ChatInv
<1>1. ChatInv /\ [Next]_vars => ChatInv'
  BY TypesStep, OwnedStep, BusyStep, GateStep DEF ChatInv
<1>2. QED BY ChatInitially, <1>1, PTL DEF ChatSpec

\* The behaviours in which no tool asks for approval are behaviours of the whole.
LEMMA UngatedIsChat == FairSpec => ChatSpec
<1>1. [UngatedNext]_vars => [Next]_vars
  BY DEF Next
<1>2. QED BY <1>1, PTL DEF FairSpec, ChatSpec

\* The types of the session's state.
THEOREM ChatTypesHold == ChatSpec => []ChatTypeOK
<1>1. ChatInv => ChatTypeOK
  BY DEF ChatInv, ChatTypes
<1>2. QED BY ChatAlways, <1>1, PTL

\* Whatever older conversations' turns do, and with gates that swallow a
\* cancellation, a busy composer has its own task, which will free it
\* (assistant_view.py send, stop, _on_turn_done).
THEOREM BusyKeepsItsTask == ChatSpec => []BusyHasTask
<1>1. ChatInv => BusyHasTask
  BY DEF ChatInv
<1>2. QED BY ChatAlways, <1>1, PTL

\* The gates of any number of turns share one slot, each may be taken by the
\* next, time out, be cancelled or be answered late, and a tool runs only on the
\* user's word on its own card (assistant_view.py ask_confirm, _confirm_decision).
THEOREM GatesAreHonoured == ChatSpec => []GateHonoured
<1>1. ChatInv => GateHonoured
  BY DEF ChatInv
<1>2. QED BY ChatAlways, <1>1, PTL

\* However turns end while other chats are on screen, and whatever is opened,
\* deleted and handed over meanwhile, a chat's file holds that chat's own
\* questions (assistant_view.py _persist_history and whoever calls it).
THEOREM FilesKeepTheirOwn == ChatSpec => []FilesHoldTheirOwn
<1>1. ChatInv => FilesHoldTheirOwn
  BY DEF ChatInv, TranscriptsAreOwned, Owned, FilesHoldTheirOwn
<1>2. QED BY ChatAlways, <1>1, PTL
=============================================================================
