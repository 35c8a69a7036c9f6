----------------------------- MODULE ChatSession -----------------------------
(***************************************************************************)
(* screens/assistant_view.py ChatSession with the parts of                 *)
(* services/conversation_service.py it saves through: one conversation on  *)
(* screen, the turn it runs as a task, the Stop button and its backstop,   *)
(* the approval gate, and the chats on disk with their tombstones.  The    *)
(* turn itself (services/ai_credits.py) appears as the events it emits.    *)
(***************************************************************************)
EXTENDS Naturals, Sequences, Nothing

CONSTANTS Turn,      \* one id per message the user ever sends (or hands over)
          Chat,      \* conversation ids, first one opened: FirstChat
          FirstChat,
          Deletable  \* bound: the chats the user may delete

ASSUME ChatAssumption == FirstChat \in Chat /\ None \notin Turn

VARIABLES
  conversation_id,   \* the chat on screen
  turns,             \* _turns, one entry per exchange: who asked, whose words answer
  current,           \* _current, as an index into turns; 0 = None
  busy,              \* _busy
  task,              \* _task
  event,             \* _cancel: the turn that made the event; None = another's
  closing,           \* _closing
  confirm,           \* _confirm: whose card is shown and what was tapped
  pc,                \* turn -> where its task is
  polls,             \* turn -> the event its should_stop reads
  gates,             \* the turns that opened a gate
  answered,          \* gates whose asyncio.Event is set
  raised,            \* the events that are set
  backstops,         \* turns whose Stop has a backstop timer running
  file,              \* chat -> the saved transcript, << >> = no file
  tombstones,        \* _tombstones
  home,              \* history: turn -> the chat it was asked in
  tapped,            \* history: turn -> what the user tapped on its last card
  ran                \* history: turns whose last gate let its tool run

uiVars == <<conversation_id, turns, current, busy, task, event, closing>>
taskVars == <<pc, polls, gates, raised, backstops>>
gateVars == <<confirm, answered, tapped, ran>>
fileVars == <<file, tombstones>>
vars == <<uiVars, taskVars, gateVars, fileVars, home>>

Live == {"created", "running", "gate"}
NoCard == [turn |-> None, decision |-> "none"]

Exchange(k, words) == [asked |-> k, words |-> words]

Init == /\ conversation_id = FirstChat
        /\ turns = << >>
        /\ current = 0
        /\ busy = FALSE
        /\ task = None
        /\ event = None
        /\ closing = FALSE
        /\ confirm = NoCard
        /\ pc = [k \in Turn |-> "unused"]
        /\ polls = [k \in Turn |-> None]
        /\ gates = {}
        /\ answered = {}
        /\ raised = {}
        /\ backstops = {}
        /\ file = [c \in Chat |-> << >>]
        /\ tombstones = {}
        /\ home = [k \in Turn |-> FirstChat]
        /\ tapped = [k \in Turn |-> "none"]
        /\ ran = {}

----------------------------------------------------------------------------
(* conversation_service.                                                   *)

delete_conversation(c) == /\ tombstones' = tombstones \cup {c}
                          /\ file' = [file EXCEPT ![c] = << >>]

\* A tombstone refuses the save; an empty transcript is a delete.
save_conversation(c, messages) ==
  IF c \in tombstones THEN UNCHANGED fileVars
  ELSE IF messages = << >> THEN delete_conversation(c)
  ELSE file' = [file EXCEPT ![c] = messages] /\ UNCHANGED tombstones

_persist_history(messages) == save_conversation(conversation_id, messages)

\* The 60 s of a tombstone are over.
TombstoneExpires(c) == /\ c \in tombstones
                       /\ tombstones' = tombstones \ {c}
                       /\ UNCHANGED <<uiVars, taskVars, gateVars, file, home>>

\* The trash icon in the history dialog, on any saved chat, the open one included.
DeleteChat(c) == /\ c \in Deletable /\ file[c] # << >>
                 /\ delete_conversation(c)
                 /\ UNCHANGED <<uiVars, taskVars, gateVars, home>>

----------------------------------------------------------------------------
(* What the user does.                                                     *)

send(k) == /\ ~busy /\ ~closing /\ pc[k] = "unused"
           /\ busy' = TRUE
           /\ event' = k
           /\ turns' = Append(turns, Exchange(k, {}))
           /\ current' = Len(turns')
           /\ task' = k
           /\ pc' = [pc EXCEPT ![k] = "created"]
           /\ home' = [home EXCEPT ![k] = conversation_id]
           /\ UNCHANGED <<conversation_id, closing, polls, gates, raised, backstops,
                          gateVars, fileVars>>

\* An exchange answered elsewhere is appended and saved, with no turn.
adopt_transcript(k) == /\ ~busy /\ ~closing /\ pc[k] = "unused"
                       /\ turns' = Append(turns, Exchange(k, {k}))
                       /\ pc' = [pc EXCEPT ![k] = "done"]
                       /\ home' = [home EXCEPT ![k] = conversation_id]
                       /\ _persist_history(turns')
                       /\ UNCHANGED <<conversation_id, current, busy, task, event, closing,
                                      polls, gates, raised, backstops, gateVars>>

\* The composer's button while busy.
stop == /\ busy /\ ~closing
        /\ raised' = raised \cup {event}
        /\ backstops' = IF task # None /\ pc[task] \in Live
                        THEN backstops \cup {task} ELSE backstops
        /\ UNCHANGED <<uiVars, pc, polls, gates, gateVars, fileVars, home>>

Unused(c) == c # conversation_id /\ file[c] = << >> /\ c \notin tombstones
             /\ \A k \in Turn : home[k] # c

\* Mutant of new_conversation: the old chat is saved after the id has changed.
NewConversationSavesLate(c) == /\ ~closing /\ Unused(c)
                               /\ save_conversation(c, turns)
                               /\ conversation_id' = c
                               /\ turns' = << >>
                               /\ current' = 0
                               /\ busy' = FALSE
                               /\ event' = None
                               /\ UNCHANGED <<task, closing, taskVars, gateVars, home>>

new_conversation(c) == /\ ~closing /\ Unused(c)
                       /\ _persist_history(turns)
                       /\ conversation_id' = c
                       /\ turns' = << >>
                       /\ current' = 0
                       /\ busy' = FALSE
                       /\ event' = None
                       /\ UNCHANGED <<task, closing, taskVars, gateVars, home>>

\* The file is read before the open chat is saved, also when it is the same chat.
load_conversation(c) == /\ ~closing /\ file[c] # << >>
                        /\ turns' = file[c]
                        /\ _persist_history(turns)
                        /\ conversation_id' = c
                        /\ current' = 0
                        /\ UNCHANGED <<busy, task, event, closing, taskVars, gateVars, home>>

\* close(): minimized, and a running turn goes on.
minimize == /\ ~closing
            /\ _persist_history(turns)
            /\ UNCHANGED <<uiVars, taskVars, gateVars, home>>

\* First answer wins.  The tap's event.set() queues the waiter, so no later tap
\* is handled before the waiter has run.
_confirm_decision(d) == /\ confirm.turn # None /\ confirm.decision = "none"
                        /\ answered = {} /\ ~closing
                        /\ confirm' = [confirm EXCEPT !.decision = d]
                        /\ answered' = {confirm.turn}
                        /\ tapped' = [tapped EXCEPT ![confirm.turn] = d]
                        /\ UNCHANGED <<uiVars, taskVars, ran, fileVars, home>>

----------------------------------------------------------------------------
(* What the turn's task does.                                              *)

At(k, places) == pc[k] \in places
Goto(k, place) == pc' = [pc EXCEPT ![k] = place]
Stopped(k) == polls[k] \in raised

\* The task's first step: it takes the session's event as its should_stop.
Begin(k) == /\ At(k, {"created"})
            /\ Goto(k, "running")
            /\ polls' = [polls EXCEPT ![k] = event]
            /\ UNCHANGED <<uiVars, gates, raised, backstops, gateVars, fileVars, home>>

\* Every event of every turn lands in the session's current bubble.
Bubble(words) == turns' = IF current = 0 THEN turns
                          ELSE [turns EXCEPT ![current].words = words]
Words == IF current = 0 THEN {} ELSE turns[current].words

Token(k) == /\ At(k, {"running"}) /\ ~Stopped(k) /\ ~closing
            /\ Bubble(Words \cup {k})
            /\ UNCHANGED <<conversation_id, current, busy, task, event, closing,
                           taskVars, gateVars, fileVars, home>>

\* A tool call drops the preamble of the round, even while closing.
_on_tool_start(k) == /\ At(k, {"running"}) /\ Words # {}
                     /\ Bubble({})
                     /\ UNCHANGED <<conversation_id, current, busy, task, event, closing,
                                    taskVars, gateVars, fileVars, home>>

\* ask_confirm: the one card slot is taken, whoever's card was in it.
\* Bound: once per turn.
OpenGate(k) == /\ At(k, {"running"}) /\ k \notin gates
               /\ Goto(k, "gate")
               /\ gates' = gates \cup {k}
               /\ confirm' = [turn |-> k, decision |-> "none"]
               /\ tapped' = [tapped EXCEPT ![k] = "none"]
               /\ ran' = ran \ {k}
               /\ UNCHANGED <<uiVars, polls, raised, backstops, answered, fileVars, home>>

\* The wait is over, answered or not (the 300 s may end in the very iteration of
\* the tap): the slot is emptied and the turn goes on.
LeaveGate(k) == /\ Goto(k, "running")
                /\ confirm' = NoCard
                /\ answered' = answered \ {k}
                /\ UNCHANGED <<uiVars, polls, gates, raised, tapped, fileVars, home>>

\* Mutant of ResumeGate: anything but a denial is taken for an approval.
ResumeGateUnlessDenied(k) == /\ At(k, {"gate"}) /\ k \in answered
                             /\ ran' = IF confirm.decision # "deny" THEN ran \cup {k} ELSE ran
                             /\ LeaveGate(k)
                             /\ UNCHANGED backstops

\* The waiter reads the decision from the slot, not from its own card.
ResumeGate(k) == /\ At(k, {"gate"}) /\ k \in answered
                 /\ ran' = IF confirm.decision = "allow" THEN ran \cup {k} ELSE ran
                 /\ LeaveGate(k)
                 /\ UNCHANGED backstops

GateTimesOut(k) == /\ At(k, {"gate"})
                   /\ LeaveGate(k)
                   /\ UNCHANGED <<ran, backstops>>

\* _run_turn's terminal event.  A stop that is polled gives a stopped turn, with
\* the partial text if there is any; one that comes too late, the full answer.
Finish(k) ==
  /\ At(k, {"running"})
  /\ Goto(k, "ended")
  /\ \/ Bubble(IF closing THEN Words ELSE {k})
        /\ IF closing \/ current = 0 THEN UNCHANGED fileVars ELSE _persist_history(turns')
     \/ Stopped(k) /\ Bubble(IF closing THEN Words ELSE {k}) /\ UNCHANGED fileVars
     \/ Stopped(k) /\ UNCHANGED <<turns, fileVars>>
  /\ UNCHANGED <<conversation_id, current, busy, task, event, closing, polls, gates,
                 raised, backstops, gateVars, home>>

\* An error, returned or raised: the bubble keeps its words.
Fails(k) == /\ At(k, {"running"})
            /\ Goto(k, "ended")
            /\ UNCHANGED <<uiVars, polls, gates, raised, backstops, gateVars, fileVars, home>>

\* task.cancel(): ends the turn, except at a gate, which swallows it as a denial.
Cancel(k) == IF At(k, {"gate"})
             THEN LeaveGate(k) /\ UNCHANGED ran
             ELSE /\ Goto(k, "ended")
                  /\ UNCHANGED <<uiVars, polls, gates, raised, gateVars, fileVars, home>>

\* 5 s after a Stop: the session's task, whichever it is by now, is cancelled.
BackstopFires(k) == /\ k \in backstops
                    /\ backstops' = backstops \ {k}
                    /\ IF task # None /\ pc[task] \in Live
                       THEN Cancel(task)
                       ELSE UNCHANGED <<uiVars, pc, polls, gates, raised, gateVars,
                                        fileVars, home>>

\* Mutant of _on_turn_done: the task is forgotten, but only a live bubble frees
\* the composer.
TurnDoneIfCurrent(k) == /\ At(k, {"ended"})
                        /\ Goto(k, "done")
                        /\ busy' = (busy /\ current = 0)
                        /\ task' = None
                        /\ IF closing THEN UNCHANGED fileVars ELSE _persist_history(turns)
                        /\ UNCHANGED <<conversation_id, turns, current, event, closing,
                                       polls, gates, raised, backstops, gateVars, home>>

\* Mutant of _on_turn_done: a page that is closing returns before freeing anything.
TurnDoneUnlessClosing(k) == /\ At(k, {"ended"})
                            /\ Goto(k, "done")
                            /\ busy' = (busy /\ closing)
                            /\ task' = IF closing THEN task ELSE None
                            /\ IF closing THEN UNCHANGED fileVars ELSE _persist_history(turns)
                            /\ UNCHANGED <<conversation_id, turns, current, event, closing,
                                           polls, gates, raised, backstops, gateVars, home>>

\* The done-callback, a loop iteration after the task ended.  A cancelled task's
\* "stopped" and a raised error leave the bubble's words as they are.
_on_turn_done(k) == /\ At(k, {"ended"})
                    /\ Goto(k, "done")
                    /\ busy' = FALSE
                    /\ task' = None
                    /\ IF closing THEN UNCHANGED fileVars ELSE _persist_history(turns)
                    /\ UNCHANGED <<conversation_id, turns, current, event, closing, polls,
                                   gates, raised, backstops, gateVars, home>>

\* The page goes away: the flag, the session's task, and a last save.
shutdown == /\ ~closing
            /\ closing' = TRUE
            /\ raised' = raised \cup {event}
            /\ _persist_history(turns)
            /\ IF task # None /\ pc[task] \in Live
               THEN IF At(task, {"gate"})
                    THEN /\ Goto(task, "running")
                         /\ confirm' = NoCard
                         /\ answered' = answered \ {task}
                    ELSE Goto(task, "ended") /\ UNCHANGED <<confirm, answered>>
               ELSE UNCHANGED <<pc, confirm, answered>>
            /\ UNCHANGED <<conversation_id, turns, current, busy, task, event, polls,
                           gates, backstops, tapped, ran, home>>

----------------------------------------------------------------------------

User == \/ \E k \in Turn : send(k) \/ adopt_transcript(k)
        \/ \E c \in Chat : new_conversation(c) \/ load_conversation(c) \/ DeleteChat(c)
        \/ stop \/ minimize \/ shutdown

Task(k) == \/ Begin(k) \/ Token(k) \/ _on_tool_start(k) \/ Finish(k) \/ Fails(k)
           \/ BackstopFires(k) \/ _on_turn_done(k)

Approval == \/ \E k \in Turn : OpenGate(k) \/ ResumeGate(k) \/ GateTimesOut(k)
            \/ \E d \in {"allow", "deny"} : _confirm_decision(d)

\* Bound: no tool asks for approval.
UngatedNext == \/ User
               \/ \E k \in Turn : Task(k)
               \/ \E c \in Chat : TombstoneExpires(c)

Next == UngatedNext \/ Approval

ChatSpec == Init /\ [][Next]_vars

\* Tasks and callbacks run, and the network's time limits end every turn
\* (MeteredTurn's TurnsEnd).
Fairness == \A k \in Turn : /\ WF_vars(Begin(k))
                            /\ WF_vars(Finish(k) \/ Fails(k))
                            /\ WF_vars(_on_turn_done(k))
FairSpec == Init /\ [][UngatedNext]_vars /\ Fairness

----------------------------------------------------------------------------

Transcripts == Seq([asked : Turn, words : SUBSET Turn])

\* The types of the session's state.
ChatTypeOK == /\ conversation_id \in Chat
              /\ turns \in Transcripts /\ current \in 0..Len(turns)
              /\ busy \in BOOLEAN /\ closing \in BOOLEAN
              /\ task \in Turn \cup {None} /\ event \in Turn \cup {None}
              /\ confirm \in [turn : Turn \cup {None}, decision : {"none", "allow", "deny"}]
              /\ pc \in [Turn -> Live \cup {"unused", "ended", "done"}]
              /\ polls \in [Turn -> Turn \cup {None}]
              /\ gates \subseteq Turn
              /\ answered \cup backstops \cup ran \subseteq Turn
              /\ raised \subseteq Turn \cup {None}
              /\ file \in [Chat -> Transcripts]
              /\ tombstones \subseteq Chat

\* The Stop face of the composer always has a turn behind it that will clear it,
\* also when an older conversation's turn ends in between.
BusyHasTask == busy => task # None /\ pc[task] \in Live \cup {"ended"}

\* A destructive tool runs only if the user allowed the card of that very call,
\* although all gates of all turns share one slot (assistant_view.py:1008).
GateHonoured == \A k \in ran : tapped[k] = "allow"

\* A chat's file only ever holds what was asked in that chat, whatever is sent,
\* switched or deleted while a turn of another chat is still running.
FilesHoldTheirOwn == \A c \in Chat : \A i \in 1..Len(file[c]) : home[file[c][i].asked] = c

\* The composer never stays locked.
ComposerFrees == busy ~> ~busy

\* "that turn owns the transcript" (assistant_view.py:749): a bubble only ever
\* holds the words of the turn it was opened for.
TurnOwnsTranscript == \A i \in 1..Len(turns) : turns[i].words \subseteq {turns[i].asked}

\* "hard-cancel only if the turn never noticed the flag" (assistant_view.py:981):
\* a backstop cancels the turn whose Stop armed it, and no other.
BackstopHitsItsOwn ==
  [][\A k, other \in Turn :
       k \in backstops /\ k \notin backstops' /\ other # k => pc'[other] = pc[other]]_vars
=============================================================================
