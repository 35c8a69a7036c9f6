------------------------- MODULE SessionScreenProofs -------------------------
(***************************************************************************)
(* Theorems about the parts of an open session that modules CellRuns,      *)
(* CellList, Tools, Explain, RemoteFiles, Notebook and CellOutputs model,  *)
(* each for any number of cells, executions, dialogs, calls, asks,         *)
(* directories, files, tabs, changes and outputs; and the simulation of    *)
(* Documents by Notebook.                                                  *)
(***************************************************************************)
EXTENDS CellRuns, CellList, Tools, Explain, RemoteFiles, Notebook, CellOutputs,
        PlacesProofs

----------------------------------------------------------------------------
(* CellRuns *)

RunPlaces == {"free", "asked", "starting", "code", "ended"}

RunsTypes ==
  /\ is_running \in [Cell -> BOOLEAN]
  /\ run \in [Run -> [of : Cell \union {Ping}, at : RunPlaces]]
  /\ _cancel_event \in BOOLEAN
  /\ outputs \in [Cell -> SUBSET Run]
  /\ stops \in Nat /\ cancelled \in Nat

\* A Stop that nobody has taken yet is counted, too.
StopsCounted == cancelled <= stops /\ (_cancel_event => cancelled < stops)

SpinnersHaveRuns == \A c \in Cell : is_running[c] => Going(c) # {}

\* A cell that was never run over an earlier execution has at most one, and its
\* outputs are that one's.
OneRunPerCell ==
  \A c \in Cell \ restarted :
    \A r, q \in Going(c) \union outputs[c] : r = q

RunsInv == RunsTypes /\ StopsCounted /\ SpinnersHaveRuns /\ OneRunPerCell

LEMMA RunsInitially == CellsInit => RunsInv
<1> SUFFICES ASSUME CellsInit PROVE RunsInv
  OBVIOUS
<1>1. RunsTypes
  BY DEF CellsInit, RunsTypes, RunPlaces, Free
<1>2. StopsCounted
  BY DEF CellsInit, StopsCounted
<1>3. SpinnersHaveRuns /\ OneRunPerCell
  BY DEF CellsInit, SpinnersHaveRuns, OneRunPerCell, Going, Free
<1>4. QED BY <1>1, <1>2, <1>3 DEF RunsInv

\* An execution that goes on is for the same cell; the others stay.
LEMMA GoesOn ==
  ASSUME RunsTypes, NEW r \in Run, NEW at \in RunPlaces, Goes(r, at)
  PROVE  /\ run' \in [Run -> [of : Cell \union {Ping}, at : RunPlaces]]
         /\ \A q \in Run : run'[q].of = run[q].of /\ (q # r => run'[q] = run[q])
         /\ run'[r].at = at
  BY DEF RunsTypes, Goes

\* A run that takes the event is the only one to end by it.
LEMMA CancelCounts ==
  ASSUME RunsTypes, StopsCounted, NEW r \in Run, Cancelled(r), UNCHANGED stops
  PROVE  StopsCounted' /\ cancelled' \in Nat /\ _cancel_event' \in BOOLEAN
<1>1. cancelled < stops /\ ~_cancel_event' /\ cancelled' = cancelled + 1 /\ _cancel_event' = FALSE
  BY DEF StopsCounted, Cancelled
<1>2. cancelled' <= stops /\ cancelled' \in Nat
  BY <1>1 DEF RunsTypes
<1>3. QED BY <1>1, <1>2 DEF StopsCounted

\* The types and the count of stops, step by step.
LEMMA StopsStep == RunsInv /\ [CellsNext]_cellVars => (RunsTypes /\ StopsCounted)'
<1> SUFFICES ASSUME RunsInv, [CellsNext]_cellVars PROVE (RunsTypes /\ StopsCounted)'
  OBVIOUS
<1>0. RunsTypes /\ StopsCounted
  BY DEF RunsInv
<1>1. ASSUME NEW c \in Cell, _run_cell(c) PROVE (RunsTypes /\ StopsCounted)'
  BY <1>0, <1>1 DEF _run_cell, Asked, RunsTypes, RunPlaces, StopsCounted
<1>2. ASSUME NEW c \in Cell, _stop_cell(c) PROVE (RunsTypes /\ StopsCounted)'
  BY <1>0, <1>2 DEF _stop_cell, RunsTypes, StopsCounted
<1>3. CASE PingAsked
  BY <1>0, <1>3 DEF PingAsked, Asked, RunsTypes, RunPlaces, StopsCounted
<1>4. ASSUME NEW r \in Run, exec_code(r) PROVE (RunsTypes /\ StopsCounted)'
  <2>1. run' \in [Run -> [of : Cell \union {Ping}, at : RunPlaces]]
    BY <1>0, <1>4, GoesOn DEF exec_code, RunPlaces
  <2>2. (~_cancel_event' /\ _cancel_event' = FALSE) \/ UNCHANGED _cancel_event
    BY <1>4 DEF exec_code
  <2>3. UNCHANGED <<is_running, outputs, stops, cancelled>>
    BY <1>4 DEF exec_code
  <2>4. RunsTypes'
    BY <1>0, <2>1, <2>2, <2>3 DEF RunsTypes
  <2>5. StopsCounted'
    BY <1>0, <2>2, <2>3 DEF StopsCounted
  <2>6. QED BY <2>4, <2>5
<1>5. ASSUME NEW r \in Run, ThreadStarts(r) PROVE (RunsTypes /\ StopsCounted)'
  <2>1. run' \in [Run -> [of : Cell \union {Ping}, at : RunPlaces]]
    BY <1>0, <1>5, GoesOn DEF ThreadStarts, Cancelled, RunPlaces
  <2>2. QED BY <1>0, <1>5, <2>1, CancelCounts DEF ThreadStarts, RunsTypes, StopsCounted
<1>6. ASSUME NEW r \in Run, output_hook(r) PROVE (RunsTypes /\ StopsCounted)'
  <2>1. CASE Cancelled(r) /\ UNCHANGED outputs
    <3>1. run' \in [Run -> [of : Cell \union {Ping}, at : RunPlaces]]
      BY <1>0, <2>1, GoesOn DEF Cancelled, RunPlaces
    <3>2. QED BY <1>0, <1>6, <2>1, <3>1, CancelCounts DEF output_hook, RunsTypes
  <2>2. CASE UNCHANGED <<run, _cancel_event, cancelled>>
    BY <1>0, <1>6, <2>2 DEF output_hook, RunsTypes, StopsCounted, Cancelled
  <2>3. QED BY <1>6, <2>1, <2>2 DEF output_hook
<1>7. ASSUME NEW r \in Run, CodeEnds(r) PROVE (RunsTypes /\ StopsCounted)'
  BY <1>0, <1>7, GoesOn DEF CodeEnds, RunsTypes, RunPlaces, StopsCounted
<1>8. ASSUME NEW r \in Run, RunCellEnds(r) PROVE (RunsTypes /\ StopsCounted)'
  BY <1>0, <1>8 DEF RunCellEnds, Free, RunsTypes, RunPlaces, StopsCounted
<1>9. CASE UNCHANGED cellVars
  BY <1>0, <1>9 DEF cellVars, RunsTypes, StopsCounted
<1>10. QED BY <1>1, <1>2, <1>3, <1>4, <1>5, <1>6, <1>7, <1>8, <1>9 DEF CellsNext, RunStep

\* A spinner goes on with a new execution, and off with the end of any
\* execution of its cell.
LEMMA SpinnersStep == RunsInv /\ [CellsNext]_cellVars => SpinnersHaveRuns'
<1> SUFFICES ASSUME RunsInv, [CellsNext]_cellVars PROVE SpinnersHaveRuns'
  OBVIOUS
<1> USE DEF RunsInv, RunsTypes, RunPlaces, SpinnersHaveRuns, Going
<1>1. ASSUME NEW c \in Cell, _run_cell(c) PROVE SpinnersHaveRuns'
  BY <1>1 DEF _run_cell, Asked
<1>2. ASSUME NEW c \in Cell, _stop_cell(c) PROVE SpinnersHaveRuns'
  BY <1>2 DEF _stop_cell
<1>3. CASE PingAsked
  BY <1>3 DEF PingAsked, Asked
<1>4. ASSUME NEW r \in Run, exec_code(r) \/ ThreadStarts(r) \/ output_hook(r) \/ CodeEnds(r)
      PROVE SpinnersHaveRuns'
  <2>1. UNCHANGED is_running
    BY <1>4 DEF exec_code, ThreadStarts, output_hook, CodeEnds, Cancelled
  <2>2. UNCHANGED run \/ \E at \in RunPlaces \ {"free"} : run[r].at # "free" /\ Goes(r, at)
    BY <1>4 DEF exec_code, ThreadStarts, output_hook, CodeEnds, Cancelled
  <2>3. QED BY <2>1, <2>2, GoesOn
<1>5. ASSUME NEW r \in Run, RunCellEnds(r) PROVE SpinnersHaveRuns'
  <2>1. /\ \A q \in Run : q # r => run'[q] = run[q]
        /\ \A c \in Cell : is_running'[c] => is_running[c] /\ c # run[r].of
    BY <1>5, CellRunsAssumption DEF RunCellEnds
  <2>2. QED BY <2>1
<1>6. CASE UNCHANGED cellVars
  BY <1>6 DEF cellVars
<1>7. QED BY <1>1, <1>2, <1>3, <1>4, <1>5, <1>6 DEF CellsNext, RunStep

\* A second execution of a cell makes it a restarted one; an output comes from
\* an execution that is going.
LEMMA OneRunStep == RunsInv /\ [CellsNext]_cellVars => OneRunPerCell'
<1> SUFFICES ASSUME RunsInv, [CellsNext]_cellVars PROVE OneRunPerCell'
  OBVIOUS
<1> USE DEF RunsInv, RunsTypes, RunPlaces, OneRunPerCell, Goes, Going
<1>1. ASSUME NEW c \in Cell, _run_cell(c) PROVE OneRunPerCell'
  BY <1>1 DEF _run_cell, Asked
<1>2. ASSUME NEW c \in Cell, _stop_cell(c) PROVE OneRunPerCell'
  BY <1>2 DEF _stop_cell
<1>3. CASE PingAsked
  BY <1>3, CellRunsAssumption DEF PingAsked, Asked
<1>4. ASSUME NEW r \in Run, exec_code(r) \/ ThreadStarts(r) \/ CodeEnds(r) PROVE OneRunPerCell'
  BY <1>4 DEF exec_code, ThreadStarts, CodeEnds, Cancelled
<1>5. ASSUME NEW r \in Run, output_hook(r) PROVE OneRunPerCell'
  BY <1>5 DEF output_hook, Cancelled
<1>6. ASSUME NEW r \in Run, RunCellEnds(r) PROVE OneRunPerCell'
  BY <1>6 DEF RunCellEnds, Free
<1>7. CASE UNCHANGED cellVars
  BY <1>7 DEF cellVars
<1>8. QED BY <1>1, <1>2, <1>3, <1>4, <1>5, <1>6, <1>7 DEF CellsNext, RunStep

\* Outputs that are all of the same execution are at most one.
LEMMA OneSource ==
  ASSUME NEW S, \A r, q \in S : r = q PROVE Cardinality(S) <= 1
<1>1. CASE S = {}
  BY <1>1, FS_EmptySet
<1>2. ASSUME NEW r \in S PROVE Cardinality(S) <= 1
  <2>1. S = {r}
    OBVIOUS
  <2>2. QED BY <2>1, FS_Singleton
<1>3. QED BY <1>1, <1>2

\* However many executions share the cancel event: a Stop ends at most one of
\* them, a spinner has an execution whose end removes it, and outputs are of one
\* execution unless the cell was run over another (_stop_cell, output_hook).
THEOREM OneEventServesAll == CellsSpec => []StopsAndSpinnersAgree
<1>1. RunsInv /\ [CellsNext]_cellVars => RunsInv'
  BY StopsStep, SpinnersStep, OneRunStep DEF RunsInv
<1>2. RunsInv => StopsAndSpinnersAgree
  <2> SUFFICES ASSUME RunsInv PROVE StopsAndSpinnersAgree
    OBVIOUS
  <2>1. ASSUME NEW c \in Cell, c \notin restarted PROVE Cardinality(outputs[c]) <= 1
    BY <2>1, OneSource DEF RunsInv, OneRunPerCell
  <2>2. OneStopOneCancel
    BY DEF RunsInv, RunsTypes, StopsCounted, OneStopOneCancel
  <2>3. QED BY <2>1, <2>2 DEF RunsInv, SpinnersHaveRuns, StopsAndSpinnersAgree, SpinnerHasRun
<1>3. QED BY RunsInitially, <1>1, <1>2, PTL DEF CellsSpec

----------------------------------------------------------------------------
(* Tools *)

CallKinds == {"work", "create"} \union Destructive

\* A session, as far as a call knows one: what it is of matters to no proof.
CallShape ==
  /\ DOMAIN call = Call /\ call = [c \in Call |-> call[c]]
  /\ \A c \in Call :
       call[c] \in [kind : CallKinds, at : {call[c].at}, on : {call[c].on},
                    card : {call[c].card}, moved : BOOLEAN]

\* An open card is about the session in front of the user, or the user has
\* moved since it was shown.
CardsAreCurrent ==
  \A c \in Call :
    call[c].at \in {"asked", "act"} /\ call[c].kind \in Destructive \ {"stop"} /\ ~call[c].moved
      => call[c].card = _live_session

ToolsInv == CallShape /\ CardsAreCurrent /\ DestroyedAsApproved

LEMMA ToolsInitially == ToolsInit => ToolsInv
  BY DEF ToolsInit, ToolsInv, CallShape, CallKinds, Destructive, Idle, CardsAreCurrent, DestroyedAsApproved

\* Whoever changes the session in front of the user says so to every open card.
LEMMA MovedTellsAll ==
  ASSUME CallShape, NEW c \in Call, Moved[c].at \in {"asked", "act"}, Moved[c].kind \in Destructive
  PROVE  Moved[c].moved
  BY DEF CallShape, CallKinds, Moved

LEMMA MovedHasShape ==
  ASSUME CallShape, NEW c \in Call
  PROVE  /\ Moved[c] \in [kind : CallKinds, at : {call[c].at}, on : {call[c].on},
                          card : {call[c].card}, moved : BOOLEAN]
         /\ Moved[c].kind = call[c].kind
  BY DEF CallShape, CallKinds, Moved

\* The call of one card changes, and the session in front of the user does not.
LEMMA CallUpdated ==
  ASSUME ToolsInv, NEW c \in Call, NEW r, Updates(c, r), UNCHANGED _live_session,
         r \in [kind : CallKinds, at : {r.at}, on : {r.on}, card : {r.card}, moved : BOOLEAN],
         \/ r.at \notin {"asked", "act"} \/ r.kind \notin Destructive \ {"stop"}
         \/ r.card = _live_session \/ r.moved
         \/ r.kind = call[c].kind /\ r.card = call[c].card /\ r.moved = call[c].moved
              /\ call[c].at \in {"asked", "act"}
  PROVE  CallShape' /\ CardsAreCurrent'
<1>1. call' = [d \in Call |-> IF d = c THEN r ELSE call[d]]
  BY DEF Updates, ToolsInv, CallShape
<1>2. CallShape'
  BY <1>1 DEF ToolsInv, CallShape
<1>3. CardsAreCurrent'
  BY <1>1 DEF ToolsInv, CardsAreCurrent
<1>4. QED BY <1>2, <1>3

\* The session in front of the user may be another: every open card is told.
LEMMA AllMoved ==
  ASSUME ToolsInv, DOMAIN call' = Call, call' = [c \in Call |-> call'[c]],
         \A c \in Call :
           \/ call'[c] = Moved[c]
           \/ /\ call'[c] \in [kind : CallKinds, at : {call'[c].at}, on : {call'[c].on},
                               card : {call'[c].card}, moved : BOOLEAN]
              /\ call'[c].at \notin {"asked", "act"}
  PROVE  CallShape' /\ CardsAreCurrent'
<1>1. CallShape'
  BY MovedHasShape DEF ToolsInv, CallShape
<1>2. CardsAreCurrent'
  BY MovedTellsAll DEF ToolsInv, CardsAreCurrent
<1>3. QED BY <1>1, <1>2

\* What a destructive call hits: the session its card named, or the one in
\* front of the user.
LEMMA HarmStep == ToolsInv /\ [ToolsNext]_toolVars => DestroyedAsApproved'
<1> SUFFICES ASSUME ToolsInv, [ToolsNext]_toolVars PROVE DestroyedAsApproved'
  OBVIOUS
<1> USE DEF ToolsInv, DestroyedAsApproved
<1>1. ASSUME NEW c \in Call, Destroys(c) PROVE DestroyedAsApproved'
  <2>1. CASE UNCHANGED harm
    BY <2>1
  <2>2. CASE harm' # harm
    <3> DEFINE on == IF call[c].kind = "stop" THEN call[c].card ELSE _live_session
               hit == [kind |-> call[c].kind, on |-> on, card |-> call[c].card, moved |-> call[c].moved]
    <3>1. harm' = harm \union {hit}
      BY <1>1, <2>2 DEF Destroys
    <3>2. hit.kind = "stop" \/ ~hit.moved => hit.on = hit.card
      BY <1>1 DEF Destroys, CardsAreCurrent
    <3>3. QED BY <3>1, <3>2
  <2>3. QED BY <2>1, <2>2
<1>2. CASE NextRound
  BY <1>2 DEF NextRound
<1>3. CASE UNCHANGED harm
  BY <1>3
<1>4. QED BY <1>1, <1>2, <1>3
      DEF ToolsNext, CallStep, Opens, VmEnds, HomeLists, Work, _run_once, CreateAsked, Creates,
          CreatedIsListed, CreatedIsActive, DestructiveAsked, _approved, StoppedIsUnlisted, toolVars

LEMMA CardsStep == ToolsInv /\ [ToolsNext]_toolVars => CallShape' /\ CardsAreCurrent'
<1> SUFFICES ASSUME ToolsInv, [ToolsNext]_toolVars PROVE CallShape' /\ CardsAreCurrent'
  OBVIOUS
<1>1. ASSUME NEW s, Opens(s) PROVE CallShape' /\ CardsAreCurrent'
  BY <1>1, AllMoved DEF Opens, Moved
<1>2. ASSUME NEW s, VmEnds(s) PROVE CallShape' /\ CardsAreCurrent'
  BY <1>2 DEF VmEnds, ToolsInv, CallShape, CardsAreCurrent, _live_session
<1>3. CASE HomeLists
  BY <1>3, AllMoved DEF HomeLists, Moved
<1>4. CASE NextRound
  BY <1>4 DEF NextRound, CallShape, CardsAreCurrent, Idle, CallKinds
<1>5. ASSUME NEW c \in Call, Work(c) PROVE CallShape' /\ CardsAreCurrent'
  <2>1. UNCHANGED _live_session
    BY <1>5 DEF Work, sessionVars, _live_session
  <2>2. Updates(c, [Idle EXCEPT !.at = "run"]) \/ Updates(c, Done)
    BY <1>5 DEF Work
  <2>3. QED BY <2>1, <2>2, CallUpdated DEF Idle, Done, CallKinds
<1>6. ASSUME NEW c \in Call, _run_once(c) PROVE CallShape' /\ CardsAreCurrent'
  <2>1. UNCHANGED _live_session
    BY <1>6 DEF _run_once, sessionVars, _live_session
  <2>2. Updates(c, [call[c] EXCEPT !.at = "again"]) \/ Updates(c, Done)
    BY <1>6 DEF _run_once
  <2>3. QED BY <2>1, <2>2, CallUpdated DEF Idle, Done, CallKinds, ToolsInv, CallShape
<1>7. ASSUME NEW c \in Call, CreateAsked(c) PROVE CallShape' /\ CardsAreCurrent'
  <2>1. UNCHANGED _live_session
    BY <1>7 DEF CreateAsked, sessionVars, _live_session
  <2>2. PICK at \in {"asked", "act"} : Updates(c, [Idle EXCEPT !.kind = "create", !.at = at])
    BY <1>7 DEF CreateAsked
  <2>3. QED BY <2>1, <2>2, CallUpdated DEF Idle, CallKinds, Destructive
<1>8. ASSUME NEW c \in Call, Creates(c) PROVE CallShape' /\ CardsAreCurrent'
  <2>1. UNCHANGED _live_session
    BY <1>8 DEF Creates, _live_session
  <2>2. Updates(c, Done) \/ \E s \in Session : Updates(c, [call[c] EXCEPT !.on = s, !.at = "created"])
    BY <1>8 DEF Creates
  <2>3. QED BY <2>1, <2>2, CallUpdated DEF Idle, Done, CallKinds, ToolsInv, CallShape
<1>9. ASSUME NEW c \in Call, CreatedIsListed(c) PROVE CallShape' /\ CardsAreCurrent'
  <2>1. call' = [Moved EXCEPT ![c].at = "shown"]
    BY <1>9 DEF CreatedIsListed
  <2>2. DOMAIN Moved = Call /\ DOMAIN call' = Call /\ call' = [d \in Call |-> call'[d]]
    BY <2>1 DEF Moved
  <2>3. \A d \in Call : call'[d] = IF d = c THEN [Moved[d] EXCEPT !.at = "shown"] ELSE Moved[d]
    BY <2>1, <2>2
  <2>4. call'[c] \in [kind : CallKinds, at : {"shown"}, on : {call'[c].on},
                      card : {call'[c].card}, moved : BOOLEAN]
    BY <2>3, MovedHasShape DEF ToolsInv
  <2>5. QED BY <2>2, <2>3, <2>4, AllMoved
<1>10. ASSUME NEW c \in Call, CreatedIsActive(c) \/ StoppedIsUnlisted(c)
       PROVE CallShape' /\ CardsAreCurrent'
  <2>1. call' = [Moved EXCEPT ![c] = Done]
    BY <1>10 DEF CreatedIsActive, StoppedIsUnlisted
  <2>2. DOMAIN Moved = Call /\ DOMAIN call' = Call /\ call' = [d \in Call |-> call'[d]]
    BY <2>1 DEF Moved
  <2>3. \A d \in Call : call'[d] = IF d = c THEN Done ELSE Moved[d]
    BY <2>1, <2>2
  <2>4. QED BY <2>2, <2>3, AllMoved DEF Idle, Done, CallKinds
<1>11. ASSUME NEW c \in Call, DestructiveAsked(c) PROVE CallShape' /\ CardsAreCurrent'
  <2>1. UNCHANGED _live_session
    BY <1>11 DEF DestructiveAsked, sessionVars, _live_session
  <2>2. PICK kind \in Destructive : \E card :
             /\ kind # "stop" => card = _live_session
             /\ Updates(c, [Idle EXCEPT !.kind = kind, !.at = "asked", !.card = card])
    BY <1>11 DEF DestructiveAsked
  <2>3. QED BY <2>1, <2>2, CallUpdated DEF Idle, CallKinds
<1>12. ASSUME NEW c \in Call, _approved(c) PROVE CallShape' /\ CardsAreCurrent'
  <2>1. UNCHANGED _live_session
    BY <1>12 DEF _approved, sessionVars, _live_session
  <2>2. Updates(c, [call[c] EXCEPT !.at = "act"]) \/ Updates(c, Done)
    BY <1>12 DEF _approved, CallGoes, Updates
  <2>3. QED BY <1>12, <2>1, <2>2, CallUpdated DEF _approved, Idle, Done, CallKinds, ToolsInv, CallShape
<1>13. ASSUME NEW c \in Call, Destroys(c) PROVE CallShape' /\ CardsAreCurrent'
  <2>1. UNCHANGED _live_session
    BY <1>13 DEF Destroys, _live_session
  <2>2. Updates(c, [call[c] EXCEPT !.at = "stopped"]) \/ Updates(c, Done)
    BY <1>13 DEF Destroys, CallGoes, Updates
  <2>3. QED BY <2>1, <2>2, CallUpdated DEF Idle, Done, CallKinds, ToolsInv, CallShape
<1>14. CASE UNCHANGED toolVars
  BY <1>14 DEF toolVars, ToolsInv, CallShape, CardsAreCurrent, _live_session
<1>15. QED BY <1>1, <1>2, <1>3, <1>4, <1>5, <1>6, <1>7, <1>8, <1>9, <1>10, <1>11, <1>12, <1>13, <1>14
       DEF ToolsNext, CallStep

\* However the calls of a round, the user and the session list interleave: a
\* stop hits the session its card named, and any other destructive tool the one
\* in front of the user when its card was shown, unless that has moved since
\* (restart_kernel, stop_session, delete_file).
THEOREM DestroysWhatWasAllowed == ToolsSpec => []DestroyedAsApproved
<1>1. ToolsInv /\ [ToolsNext]_toolVars => ToolsInv'
  BY HarmStep, CardsStep DEF ToolsInv
<1>2. ToolsInv => DestroyedAsApproved
  BY DEF ToolsInv
<1>3. QED BY ToolsInitially, <1>1, <1>2, PTL DEF ToolsSpec

----------------------------------------------------------------------------
(* Explain *)

ExplainTypes ==
  /\ explaining \in {"closed", "first", "thread"}
  /\ dialog_no \in Nat /\ asked \in Nat
  /\ history \in Seq(Nat)
  /\ asks \subseteq [n : Nat, of : Nat]
  /\ adopted \in Seq([of : Nat, answers : Seq(Nat)])

\* An ask is numbered when it is made, and a dialog on screen has one at most.
AsksInFlight ==
  /\ \A a \in asks : a.n <= asked /\ a.of <= dialog_no
  /\ \A a, b \in asks : Own(a) /\ Own(b) => a = b

GoodThread(s) == s # <<>> /\ InOrder(s)

\* A dialog may hand its thread over while it is open, and again after it has.
Threaded ==
  \/ explaining = "thread"
  \/ explaining = "closed" /\ adopted # <<>> /\ Last(adopted).of = dialog_no

\* Every answer of the thread was asked for before what is in flight.
ThreadSoFar ==
  Threaded =>
    /\ GoodThread(history)
    /\ \A i \in 1 .. Len(history) : history[i] <= asked
    /\ \A a \in asks : Own(a) => busy /\ \A i \in 1 .. Len(history) : history[i] < a.n

AdoptedSoFar ==
  \A i \in 1 .. Len(adopted) :
    /\ GoodThread(adopted[i].answers)
    /\ adopted[i].of <= dialog_no
    /\ explaining = "first" => adopted[i].of < dialog_no

ExplainInv == ExplainTypes /\ AsksInFlight /\ ThreadSoFar /\ AdoptedSoFar

LEMMA ExplainInitially == ExplainInit => ExplainInv
  BY DEF ExplainInit, ExplainInv, ExplainTypes, AsksInFlight, Own, ThreadSoFar, Threaded, AdoptedSoFar

\* A later answer keeps a thread in order.
LEMMA AnswerAppended ==
  ASSUME NEW s \in Seq(Nat), NEW n \in Nat, InOrder(s), \A i \in 1 .. Len(s) : s[i] < n
  PROVE  GoodThread(Append(s, n))
  BY DEF GoodThread, InOrder

LEMMA AdoptedNumbers ==
  ASSUME ExplainTypes
  PROVE  /\ Len(adopted) \in Nat
         /\ \A i \in 1 .. Len(adopted) : adopted[i].of \in Nat
         /\ adopted # <<>> => Len(adopted) \in 1 .. Len(adopted)
<1>1. \A i \in 1 .. Len(adopted) : adopted[i] \in [of : Nat, answers : Seq(Nat)]
  BY ElementOfSeq DEF ExplainTypes
<1>2. Len(adopted) \in Nat /\ (adopted # <<>> => Len(adopted) # 0)
  BY LenProperties, EmptySeq DEF ExplainTypes
<1>3. QED BY <1>1, <1>2

\* A new dialog owns the ask it makes, and nothing handed over is from it.
LEMMA DialogOpens == ExplainInv /\ _explain_terminal => ExplainInv'
<1> SUFFICES ASSUME ExplainInv, _explain_terminal PROVE ExplainInv'
  OBVIOUS
<1>1. /\ asks' = asks \union {[n |-> asked + 1, of |-> dialog_no + 1]}
      /\ asked' = asked + 1 /\ dialog_no' = dialog_no + 1
      /\ explaining' = "first" /\ history' = <<>> /\ adopted' = adopted
  BY DEF _explain_terminal, Quick
<1>2. ExplainTypes'
  BY <1>1 DEF ExplainInv, ExplainTypes
<1>3. AsksInFlight'
  <2>1. \A a \in asks' : a.n <= asked' /\ a.of <= dialog_no'
    BY <1>1 DEF ExplainInv, ExplainTypes, AsksInFlight
  <2>2. \A a \in asks' : Own(a)' => a = [n |-> asked + 1, of |-> dialog_no + 1]
    BY <1>1 DEF ExplainInv, ExplainTypes, AsksInFlight, Own
  <2>3. QED BY <2>1, <2>2 DEF AsksInFlight
<1>4. ThreadSoFar'
  BY <1>1 DEF ThreadSoFar, Threaded
<1>5. AdoptedSoFar'
  <2>1. \A i \in 1 .. Len(adopted) :
          GoodThread(adopted[i].answers) /\ adopted[i].of \in Nat /\ adopted[i].of <= dialog_no
    BY AdoptedNumbers DEF ExplainInv, AdoptedSoFar
  <2>2. QED BY <1>1, <2>1 DEF ExplainInv, ExplainTypes, AdoptedSoFar
<1>6. QED BY <1>2, <1>3, <1>4, <1>5 DEF ExplainInv

\* The only ask of the dialog is answered: the thread is that answer.
LEMMA FirstAnswered ==
  ASSUME ExplainInv, NEW a \in asks, NEW text \in BOOLEAN, FirstReply(a, text) PROVE ExplainInv'
<1>1. ExplainTypes' /\ AsksInFlight' /\ AdoptedSoFar'
  BY DEF ExplainInv, ExplainTypes, AsksInFlight, Own, AdoptedSoFar, FirstReply, Replies
<1>2. CASE text
  <2>1. \A b \in asks' : ~Own(b)'
    BY <1>2 DEF ExplainInv, AsksInFlight, Own, FirstReply, Replies
  <2>2. history' = <<a.n>> /\ a.n <= asked'
    BY <1>2 DEF ExplainInv, AsksInFlight, FirstReply
  <2>3. QED BY <1>1, <2>1, <2>2 DEF ExplainInv, ThreadSoFar, GoodThread, InOrder
<1>3. CASE ~text
  <2>1. explaining = "first" /\ explaining' = "closed" /\ UNCHANGED <<adopted, dialog_no>>
    BY <1>3 DEF FirstReply
  <2>2. adopted # <<>> => Last(adopted).of \in Nat /\ Last(adopted).of < dialog_no
    BY <2>1, AdoptedNumbers DEF ExplainInv, AdoptedSoFar, Last
  <2>3. ~Threaded'
    BY <2>1, <2>2 DEF ExplainInv, ExplainTypes, Threaded
  <2>4. QED BY <1>1, <2>3 DEF ExplainInv, ThreadSoFar
<1>4. QED BY <1>2, <1>3

LEMMA FollowupAsked == ExplainInv /\ _ask_followup => ExplainInv'
<1> SUFFICES ASSUME ExplainInv, _ask_followup PROVE ExplainInv'
  OBVIOUS
<1>1. asks' = asks \union {[n |-> asked + 1, of |-> dialog_no]} /\ asked' = asked + 1
  BY DEF _ask_followup, Quick
<1>2. \A a \in asks : ~Own(a)
  BY DEF ExplainInv, ThreadSoFar, Threaded, _ask_followup
<1>3. ExplainTypes' /\ AdoptedSoFar'
  <2>1. UNCHANGED <<explaining, dialog_no, history, adopted>>
    BY DEF _ask_followup
  <2>2. ExplainTypes /\ AdoptedSoFar
    BY DEF ExplainInv
  <2>3. [n |-> asked + 1, of |-> dialog_no] \in [n : Nat, of : Nat] /\ asked' \in Nat
    BY <1>1, <2>2 DEF ExplainTypes
  <2>4. asks' \subseteq [n : Nat, of : Nat]
    BY <1>1, <2>2, <2>3 DEF ExplainTypes
  <2>5. ExplainTypes'
    BY <2>1, <2>2, <2>3, <2>4 DEF ExplainTypes
  <2>6. AdoptedSoFar'
    BY <2>1, <2>2 DEF AdoptedSoFar
  <2>7. QED BY <2>5, <2>6
<1>4. AsksInFlight'
  BY <1>1, <1>2 DEF ExplainInv, ExplainTypes, AsksInFlight, Own, _ask_followup
<1>5. ThreadSoFar'
  <2>1. explaining = "thread" /\ UNCHANGED <<explaining, dialog_no, history, adopted>> /\ busy'
    BY DEF _ask_followup
  <2>2. GoodThread(history) /\ \A i \in 1 .. Len(history) : history[i] \in Nat /\ history[i] <= asked
    BY <2>1 DEF ExplainInv, ExplainTypes, ThreadSoFar, Threaded
  <2>3. \A a \in asks' : Own(a)' => a.n = asked + 1
    BY <1>1, <1>2, <2>1 DEF Own
  <2>4. \A i \in 1 .. Len(history) : history[i] < asked + 1
    BY <2>2 DEF ExplainInv, ExplainTypes
  <2>5. QED BY <1>1, <2>1, <2>2, <2>3, <2>4 DEF ThreadSoFar
<1>6. QED BY <1>3, <1>4, <1>5 DEF ExplainInv

\* The answer of the dialog on screen goes below those it was asked against;
\* another dialog's goes nowhere.
LEMMA FollowupAnswered ==
  ASSUME ExplainInv, NEW a \in asks, NEW text \in BOOLEAN, FollowupReply(a, text) PROVE ExplainInv'
<1>1. AsksInFlight' /\ AdoptedSoFar'
  BY DEF ExplainInv, ExplainTypes, AsksInFlight, Own, AdoptedSoFar, FollowupReply, Replies
<1>2. CASE Own(a)
  <2>1. explaining = "thread" /\ a.n \in Nat /\ a.n <= asked
    BY <1>2 DEF ExplainInv, ExplainTypes, AsksInFlight, FollowupReply, Own
  <2>2. ExplainTypes'
    <3>1. history' \in Seq(Nat)
      <4>1. history \in Seq(Nat)
        BY DEF ExplainInv, ExplainTypes
      <4>2. history' = history \/ history' = Append(history, a.n)
        BY <1>2 DEF FollowupReply
      <4>3. QED BY <2>1, <4>1, <4>2, AppendProperties
    <3>2. QED BY <3>1 DEF ExplainInv, ExplainTypes, FollowupReply, Replies
  <2>3. \A b \in asks' : ~Own(b)'
    BY <1>2 DEF ExplainInv, AsksInFlight, Own, FollowupReply, Replies
  <2>4. GoodThread(history) /\ InOrder(history) /\ \A i \in 1 .. Len(history) : history[i] < a.n
    BY <1>2, <2>1 DEF ExplainInv, ThreadSoFar, Threaded, GoodThread
  <2>5. GoodThread(history') /\ \A i \in 1 .. Len(history') : history'[i] <= asked
    <3>1. CASE history' = Append(history, a.n)
      <4>1. history \in Seq(Nat)
        BY DEF ExplainInv, ExplainTypes
      <4>2. GoodThread(history')
        BY <2>1, <2>4, <3>1, <4>1, AnswerAppended
      <4>3. \A i \in 1 .. Len(history') : history'[i] = IF i \in 1 .. Len(history) THEN history[i] ELSE a.n
        BY <2>1, <3>1, <4>1, AppendProperties
      <4>4. QED BY <2>1, <2>4, <4>2, <4>3 DEF ExplainInv, ThreadSoFar, Threaded
    <3>2. CASE history' = history
      BY <2>1, <2>4, <3>2 DEF ExplainInv, ThreadSoFar, Threaded
    <3>3. QED BY <1>2, <3>1, <3>2 DEF FollowupReply
  <2>6. QED BY <1>1, <2>2, <2>3, <2>5 DEF ExplainInv, ThreadSoFar, FollowupReply
<1>3. CASE ~Own(a)
  <2>1. UNCHANGED <<explaining, dialog_no, busy, history, asked, adopted>> /\ asks' \subseteq asks
    BY <1>3 DEF FollowupReply, Replies
  <2>2. QED BY <1>1, <2>1 DEF ExplainInv, ExplainTypes, ThreadSoFar, Threaded, Own
<1>4. QED BY <1>2, <1>3

\* What is handed over is the thread so far.
LEMMA ContinuedInChat == ExplainInv /\ _continue_in_chat => ExplainInv'
<1> SUFFICES ASSUME ExplainInv, _continue_in_chat PROVE ExplainInv'
  OBVIOUS
<1>1. Threaded /\ GoodThread(history)
  BY DEF ExplainInv, ThreadSoFar, Threaded, _continue_in_chat
<1>2. ExplainTypes' /\ AsksInFlight'
  <2>1. adopted' \in Seq([of : Nat, answers : Seq(Nat)])
    <3>1. [of |-> dialog_no, answers |-> history] \in [of : Nat, answers : Seq(Nat)]
      BY DEF ExplainInv, ExplainTypes
    <3>2. QED BY <3>1, AppendProperties DEF ExplainInv, ExplainTypes, _continue_in_chat
  <2>2. QED BY <2>1 DEF ExplainInv, ExplainTypes, AsksInFlight, Own, _continue_in_chat
<1>3. ThreadSoFar'
  BY <1>1 DEF ExplainInv, ThreadSoFar, Own, _continue_in_chat
<1>4. AdoptedSoFar'
  BY <1>1 DEF ExplainInv, ExplainTypes, AdoptedSoFar, _continue_in_chat
<1>5. QED BY <1>2, <1>3, <1>4 DEF ExplainInv

LEMMA ExplainStep == ExplainInv /\ [ExplainNext]_explainVars => ExplainInv'
<1> SUFFICES ASSUME ExplainInv, [ExplainNext]_explainVars PROVE ExplainInv'
  OBVIOUS
<1> USE DEF ExplainInv, ExplainTypes, AsksInFlight, Own, ThreadSoFar, Threaded, AdoptedSoFar
<1>1. CASE _close_dialog
  BY <1>1 DEF _close_dialog
<1>2. CASE ChatTurn
  BY <1>2 DEF ChatTurn
<1>3. CASE UNCHANGED explainVars
  BY <1>3 DEF explainVars
<1>4. QED BY <1>1, <1>2, <1>3, DialogOpens, FollowupAsked, ContinuedInChat, FirstAnswered,
             FollowupAnswered DEF ExplainNext

\* Whichever asks outlive their dialogs, a thread keeps its answers in the order
\* of their questions, on screen and in the chat, and what is still in flight was
\* asked after them (_explain_terminal, adopt_transcript).
THEOREM ThreadsKeepTheirOrder == ExplainSpec => []ThreadInOrder
<1>1. ExplainInv => ThreadInOrder
  <2> SUFFICES ASSUME ExplainInv PROVE ThreadInOrder
    OBVIOUS
  <2>1. ASSUME explaining = "thread"
        PROVE  /\ history # <<>> /\ InOrder(history)
               /\ \A a \in asks : Own(a) => busy /\ a.n > Last(history)
    <3>1. GoodThread(history) /\ \A a \in asks : Own(a) => busy /\ \A i \in 1 .. Len(history) : history[i] < a.n
      BY <2>1 DEF ExplainInv, ThreadSoFar, Threaded
    <3>2. history \in Seq(Nat) /\ \A a \in asks : a.n \in Nat
      BY DEF ExplainInv, ExplainTypes
    <3>3. history # <<>> /\ InOrder(history)
      BY <3>1 DEF GoodThread
    <3>4. Len(history) \in 1 .. Len(history) /\ Last(history) = history[Len(history)] /\ Last(history) \in Nat
      BY <3>2, <3>3, LenProperties DEF Last
    <3>5. QED BY <3>1, <3>2, <3>3, <3>4
  <2>2. \A i \in 1 .. Len(adopted) : adopted[i].answers # <<>> /\ InOrder(adopted[i].answers)
    BY DEF ExplainInv, AdoptedSoFar, GoodThread
  <2>3. QED BY <2>1, <2>2 DEF ThreadInOrder
<1>2. QED BY ExplainInitially, ExplainStep, <1>1, PTL DEF ExplainSpec

----------------------------------------------------------------------------
(* RemoteFiles *)

FetchKind == [dir : Dir, names : {None} \union SUBSET Name, overtaken : BOOLEAN]
JobKind == [kind : {"delete", "upload", "save"}, dir : Dir, names : SUBSET Name]

FilesTypes ==
  /\ path \in Dir
  /\ selected \subseteq Name
  /\ dialog # None => dialog \in [dir : Dir, names : SUBSET Name]
  /\ fetches \in Seq(FetchKind)
  /\ jobs \in Seq(JobKind)
  /\ remote \in [Dir -> SUBSET Name]
  /\ behind \in BOOLEAN /\ error_msg \in BOOLEAN

\* The editor's saves leave the listing alone; every other job fetches it again.
OnlySaves == \A k \in 1 .. Len(jobs) : jobs[k].kind = "save"

\* What the last fetch brings is how the directory is.
LastIsFresh(s) ==
  s # <<>> => LET f == s[Len(s)] IN f.names # None /\ ~f.overtaken => f.names = remote[f.dir]

ListingIsTrue ==
  fetches = <<>> /\ ~behind /\ ~error_msg => shown = [dir |-> path, names |-> remote[path]]

FilesInv == FilesTypes /\ (OnlySaves => LastIsFresh(fetches) /\ ListingIsTrue)

LEMMA FilesInitially == FilesInit => FilesInv
<1> SUFFICES ASSUME FilesInit PROVE FilesInv
  OBVIOUS
<1>1. Fetch(path) \in FetchKind /\ ~Fetch(path).overtaken /\ Fetch(path).names = None
  BY DEF FilesInit, Fetch, FetchKind
<1>2. FilesTypes
  <2>1. fetches \in Seq(FetchKind) /\ jobs \in Seq(JobKind)
    BY <1>1, EmptySeq DEF FilesInit
  <2>2. QED BY <2>1 DEF FilesInit, FilesTypes
<1>3. LastIsFresh(fetches) /\ ListingIsTrue
  BY <1>1 DEF FilesInit, LastIsFresh, ListingIsTrue
<1>4. QED BY <1>2, <1>3 DEF FilesInv

\* A fetch is marked when a later one has landed.
LEMMA FetchMarked ==
  ASSUME FilesTypes, NEW last \in Nat
  PROVE  /\ Overtaken(last) \in Seq(FetchKind) /\ Len(Overtaken(last)) = Len(fetches)
         /\ \A j \in 1 .. Len(fetches) :
              /\ j <= last => Overtaken(last)[j].overtaken
              /\ j > last => Overtaken(last)[j] = fetches[j]
<1>1. Len(fetches) \in Nat /\ \A j \in 1 .. Len(fetches) : fetches[j] \in FetchKind
  BY ElementOfSeq, LenProperties DEF FilesTypes
<1>2. \A j \in 1 .. Len(fetches) :
        /\ [fetches[j] EXCEPT !.overtaken = TRUE] \in FetchKind
        /\ [fetches[j] EXCEPT !.overtaken = TRUE].overtaken
  BY <1>1 DEF FetchKind
<1>3. Overtaken(last) \in [1 .. Len(fetches) -> FetchKind]
  BY <1>1, <1>2 DEF Overtaken
<1>4. Overtaken(last) \in Seq(FetchKind) /\ Len(Overtaken(last)) = Len(fetches)
  BY <1>1, <1>2 DEF Overtaken
<1>5. QED BY <1>1, <1>2, <1>4 DEF Overtaken

\* A new fetch is the last one, and it has brought nothing yet.
LEMMA FetchAsked ==
  ASSUME FilesTypes, NEW d \in Dir, fetches' = Append(fetches, Fetch(d))
  PROVE  fetches' \in Seq(FetchKind) /\ fetches' # <<>> /\ LastIsFresh(fetches)'
<1>1. Fetch(d) \in FetchKind /\ Fetch(d).names = None
  BY DEF Fetch, FetchKind
<1>2. fetches' \in Seq(FetchKind) /\ fetches' # <<>> /\ fetches'[Len(fetches')] = Fetch(d)
  BY <1>1, AppendProperties DEF FilesTypes
<1>3. QED BY <1>1, <1>2 DEF LastIsFresh

\* What is left after a fetch has landed: the last of it is as it was, or marked.
LEMMA FetchLands ==
  ASSUME FilesTypes, LastIsFresh(fetches), NEW i \in 1 .. Len(fetches), UNCHANGED remote,
         fetches' = Without(i)
  PROVE  LastIsFresh(fetches)' /\ (fetches' = <<>> => i = Len(fetches))
<1>1. Len(fetches) \in Nat /\ i \in Nat /\ 1 <= i /\ i <= Len(fetches)
  <2>1. Len(fetches) \in Nat
    BY LenProperties DEF FilesTypes
  <2>2. QED BY <2>1
<1>2. /\ Overtaken(i) \in Seq(FetchKind) /\ Len(Overtaken(i)) = Len(fetches)
      /\ \A j \in 1 .. Len(fetches) :
           /\ j <= i => Overtaken(i)[j].overtaken
           /\ j > i => Overtaken(i)[j] = fetches[j]
  BY <1>1, FetchMarked
<1>3. /\ fetches' \in Seq(FetchKind) /\ Len(fetches') = Len(fetches) - 1
      /\ \A j \in 1 .. Len(fetches) - 1 :
           fetches'[j] = IF j < i THEN Overtaken(i)[j] ELSE Overtaken(i)[j + 1]
  BY <1>2, RemovedAt DEF Without
<1>4. CASE Len(fetches) = 1
  BY <1>1, <1>3, <1>4, EmptySeq DEF LastIsFresh
<1>5. CASE Len(fetches) > 1 /\ i = Len(fetches)
  <2>1. Len(fetches') \in 1 .. Len(fetches) - 1 /\ Len(fetches') < i
    BY <1>1, <1>3, <1>5
  <2>2. fetches'[Len(fetches')].overtaken
    BY <1>1, <1>2, <1>3, <2>1
  <2>3. QED BY <1>5, <2>2 DEF LastIsFresh
<1>6. CASE Len(fetches) > 1 /\ i < Len(fetches)
  <2>1. /\ Len(fetches') \in 1 .. Len(fetches) - 1 /\ ~(Len(fetches') < i)
        /\ Len(fetches') + 1 = Len(fetches)
    BY <1>1, <1>3, <1>6
  <2>2. fetches'[Len(fetches')] = fetches[Len(fetches)]
    BY <1>1, <1>2, <1>3, <1>6, <2>1
  <2>3. fetches # <<>> /\ fetches' # <<>>
    BY <1>1, <1>3, <1>6, EmptySeq
  <2>4. QED BY <2>2, <2>3 DEF LastIsFresh
<1>7. \/ Len(fetches) = 1
      \/ Len(fetches) > 1 /\ i = Len(fetches)
      \/ Len(fetches) > 1 /\ i < Len(fetches)
  <2> DEFINE n == Len(fetches)
  <2>1. n \in Nat /\ i \in Nat /\ 1 <= i /\ i <= n
    BY <1>1
  <2> HIDE DEF n
  <2>2. \/ n = 1
        \/ n > 1 /\ i = n
        \/ n > 1 /\ i < n
    BY <2>1
  <2>3. QED BY <2>2 DEF n
<1>8. QED BY <1>4, <1>5, <1>6, <1>7

\* A job more or less: what remains are saves only if the others were.
LEMMA JobAdded ==
  ASSUME FilesTypes, NEW j \in JobKind, jobs' = Append(jobs, j)
  PROVE  jobs' \in Seq(JobKind) /\ (OnlySaves' => OnlySaves /\ j.kind = "save")
<1>1. /\ jobs' \in Seq(JobKind) /\ Len(jobs') = Len(jobs) + 1 /\ Len(jobs) \in Nat
      /\ \A i \in 1 .. Len(jobs) : jobs'[i] = jobs[i]
      /\ jobs'[Len(jobs) + 1] = j
  BY AppendProperties, LenProperties DEF FilesTypes
<1>2. QED BY <1>1 DEF OnlySaves

LEMMA JobRemoved ==
  ASSUME FilesTypes, NEW k \in 1 .. Len(jobs), jobs' = RemoveAt(jobs, k)
  PROVE  jobs' \in Seq(JobKind) /\ (OnlySaves' /\ jobs[k].kind = "save" => OnlySaves)
<1>1. /\ jobs' \in Seq(JobKind) /\ Len(jobs') = Len(jobs) - 1 /\ Len(jobs) \in Nat
      /\ \A j \in 1 .. Len(jobs) - 1 : jobs'[j] = IF j < k THEN jobs[j] ELSE jobs[j + 1]
  BY RemovedAt, LenProperties DEF FilesTypes
<1>2. ASSUME OnlySaves', jobs[k].kind = "save", NEW j \in 1 .. Len(jobs) PROVE jobs[j].kind = "save"
  <2>1. CASE j < k
    BY <1>1, <1>2, <2>1 DEF OnlySaves
  <2>2. CASE j = k
    BY <1>2, <2>2
  <2>3. CASE j > k
    <3>1. j - 1 \in 1 .. Len(jobs) - 1 /\ ~(j - 1 < k) /\ (j - 1) + 1 = j
      BY <1>1, <2>3
    <3>2. QED BY <1>1, <1>2, <3>1 DEF OnlySaves
  <2>4. QED BY <1>1, <2>1, <2>2, <2>3
<1>3. QED BY <1>1, <1>2 DEF OnlySaves

\* The types, step by step.
LEMMA FilesTypesStep == FilesInv /\ [FilesNext]_fileVars => FilesTypes'
<1> SUFFICES ASSUME FilesInv, [FilesNext]_fileVars PROVE FilesTypes'
  OBVIOUS
<1>0. FilesTypes
  BY DEF FilesInv
<1>1. ASSUME NEW d \in Dir, _on_navigate(d) PROVE FilesTypes'
  <2>1. fetches' \in Seq(FetchKind)
    BY <1>0, <1>1, FetchAsked DEF _on_navigate
  <2>2. QED BY <1>0, <1>1, <2>1 DEF FilesTypes, _on_navigate
<1>2. CASE Refresh
  <2>1. fetches' \in Seq(FetchKind) /\ path' \in Dir
    BY <1>0, <1>2, FetchAsked DEF Refresh, Asks, FilesTypes
  <2>2. QED BY <1>0, <1>2, <2>1 DEF FilesTypes, Refresh
<1>3. ASSUME NEW i \in DOMAIN fetches, ls(i) PROVE FilesTypes'
  <2>1. i \in 1 .. Len(fetches) /\ fetches[i] \in FetchKind
    BY <1>0, ElementOfSeq, LenProperties DEF FilesTypes
  <2>2. [fetches[i] EXCEPT !.names = remote[fetches[i].dir]] \in FetchKind
    BY <1>0, <2>1 DEF FetchKind, FilesTypes
  <2>3. fetches' = [fetches EXCEPT ![i] = [fetches[i] EXCEPT !.names = remote[fetches[i].dir]]]
    BY <1>3 DEF ls
  <2>4. fetches' \in Seq(FetchKind)
    BY <1>0, <2>1, <2>2, <2>3, ExceptSeq DEF FilesTypes
  <2>5. QED BY <1>0, <1>3, <2>4 DEF FilesTypes, ls, browsing
<1>4. ASSUME NEW i \in DOMAIN fetches, _fetch(i) \/ FetchFails(i) PROVE FilesTypes'
  <2>1. i \in 1 .. Len(fetches) /\ i \in Nat /\ fetches[i] \in FetchKind
    BY <1>0, ElementOfSeq, LenProperties DEF FilesTypes
  <2>2. Overtaken(i) \in Seq(FetchKind) /\ Len(Overtaken(i)) = Len(fetches)
    BY <1>0, <2>1, FetchMarked
  <2>3. fetches' \in Seq(FetchKind)
    BY <1>4, <2>1, <2>2, RemovedAt DEF _fetch, FetchFails, Without
  <2>4. behind' \in BOOLEAN
    BY <1>0, <1>4, <2>1 DEF FilesTypes, FetchKind, _fetch, FetchFails
  <2>5. QED BY <1>0, <1>4, <2>3, <2>4 DEF FilesTypes, _fetch, FetchFails
<1>5. ASSUME NEW n \in Name, _toggle_select(n) PROVE FilesTypes'
  BY <1>0, <1>5 DEF FilesTypes, _toggle_select
<1>6. CASE _open_delete_dialog
  BY <1>0, <1>6 DEF FilesTypes, _open_delete_dialog
<1>7. CASE _confirm_delete
  <2>1. jobs' \in Seq(JobKind)
    <3>1. CASE UNCHANGED jobs
      BY <1>0, <3>1 DEF FilesTypes
    <3>2. CASE jobs' # jobs
      <4>1. PICK d \in Dir : jobs' = Append(jobs, [kind |-> "delete", dir |-> d, names |-> dialog.names])
        BY <1>0, <1>7, <3>2 DEF _confirm_delete, FilesTypes
      <4>2. [kind |-> "delete", dir |-> d, names |-> dialog.names] \in JobKind
        BY <1>0, <1>7 DEF _confirm_delete, FilesTypes, JobKind
      <4>3. QED BY <1>0, <4>1, <4>2, JobAdded
    <3>3. QED BY <3>1, <3>2
  <2>2. QED BY <1>0, <1>7, <2>1 DEF FilesTypes, _confirm_delete
<1>8. ASSUME NEW n \in Name, NEW kind \in {"upload", "save"}, Starts(kind, n) PROVE FilesTypes'
  <2>1. [kind |-> kind, dir |-> path, names |-> {n}] \in JobKind
    BY <1>0 DEF FilesTypes, JobKind
  <2>2. jobs' \in Seq(JobKind)
    BY <1>0, <1>8, <2>1, JobAdded DEF Starts
  <2>3. QED BY <1>0, <1>8, <2>2 DEF FilesTypes, Starts, browsing
<1>9. ASSUME NEW k \in DOMAIN jobs, DoesOne(k) PROVE FilesTypes'
  <2>1. k \in 1 .. Len(jobs) /\ jobs[k] \in JobKind /\ Len(fetches) \in Nat
    BY <1>0, ElementOfSeq, LenProperties DEF FilesTypes
  <2>2. PICK n \in jobs[k].names : jobs' = [jobs EXCEPT ![k] = [jobs[k] EXCEPT !.names = @ \ {n}]]
    BY <1>9 DEF DoesOne
  <2>3. [jobs[k] EXCEPT !.names = @ \ {n}] \in JobKind
    BY <2>1 DEF JobKind
  <2>4. jobs' \in Seq(JobKind)
    BY <1>0, <2>1, <2>2, <2>3, ExceptSeq DEF FilesTypes
  <2>5. fetches' \in Seq(FetchKind) /\ behind' \in BOOLEAN
    BY <1>0, <1>9, <2>1, FetchMarked DEF FilesTypes, DoesOne
  <2>6. remote' \in [Dir -> SUBSET Name]
    <3>1. PICK m \in jobs[k].names, after \in SUBSET Name : remote' = [remote EXCEPT ![jobs[k].dir] = after]
      BY <1>0, <1>9, <2>1 DEF FilesTypes, DoesOne, JobKind
    <3>2. QED BY <1>0, <3>1 DEF FilesTypes
  <2>7. QED BY <1>0, <1>9, <2>4, <2>5, <2>6 DEF FilesTypes, DoesOne
<1>10. ASSUME NEW k \in DOMAIN jobs, JobEnds(k) PROVE FilesTypes'
  <2>1. k \in 1 .. Len(jobs) /\ jobs[k] \in JobKind
    BY <1>0, ElementOfSeq, LenProperties DEF FilesTypes
  <2>2. jobs' \in Seq(JobKind)
    BY <1>0, <1>10, <2>1, JobRemoved DEF JobEnds
  <2>3. jobs[k].dir \in Dir
    BY <2>1 DEF JobKind
  <2>4. fetches' \in Seq(FetchKind) /\ path' \in Dir
    BY <1>0, <1>10, <2>3, FetchAsked DEF FilesTypes, JobEnds, Asks
  <2>5. QED BY <1>0, <1>10, <2>2, <2>4 DEF FilesTypes, JobEnds
<1>11. CASE UNCHANGED fileVars
  BY <1>0, <1>11 DEF FilesTypes, fileVars
<1>12. QED BY <1>1, <1>2, <1>3, <1>4, <1>5, <1>6, <1>7, <1>8, <1>9, <1>10, <1>11 DEF FilesNext

\* With saves only, what the list shows and what the last fetch has brought are
\* how the directories are; any other job that ends asks for a fetch.
LEMMA ListingStep ==
  FilesInv /\ [FilesNext]_fileVars => (OnlySaves => LastIsFresh(fetches) /\ ListingIsTrue)'
<1> SUFFICES ASSUME FilesInv, [FilesNext]_fileVars, OnlySaves'
             PROVE  LastIsFresh(fetches)' /\ ListingIsTrue'
  OBVIOUS
<1>0. FilesTypes /\ Len(fetches) \in Nat
  BY LenProperties DEF FilesInv, FilesTypes
<1>1. ASSUME NEW d \in Dir, _on_navigate(d) PROVE LastIsFresh(fetches)' /\ ListingIsTrue'
  BY <1>0, <1>1, FetchAsked DEF _on_navigate, ListingIsTrue
<1>2. CASE Refresh
  <2>1. path \in Dir
    BY <1>0 DEF FilesTypes
  <2>2. QED BY <1>0, <1>2, <2>1, FetchAsked DEF Refresh, Asks, ListingIsTrue
<1>3. ASSUME OnlySaves, UNCHANGED <<fetches, remote, path, shown, behind, error_msg>>
      PROVE  LastIsFresh(fetches)' /\ ListingIsTrue'
  BY <1>3 DEF FilesInv, LastIsFresh, ListingIsTrue
<1>4. ASSUME NEW i \in DOMAIN fetches, ls(i) PROVE LastIsFresh(fetches)' /\ ListingIsTrue'
  <2>1. OnlySaves /\ UNCHANGED <<remote, path, shown, behind, error_msg>>
    BY <1>4 DEF ls, browsing, OnlySaves
  <2>2. i \in 1 .. Len(fetches) /\ fetches[i] \in FetchKind
    BY <1>0, ElementOfSeq, LenProperties DEF FilesTypes
  <2>3. [fetches[i] EXCEPT !.names = remote[fetches[i].dir]] \in FetchKind
    BY <1>0, <2>2 DEF FetchKind, FilesTypes
  <2>4. fetches' = [fetches EXCEPT ![i] = [fetches[i] EXCEPT !.names = remote[fetches[i].dir]]]
    BY <1>4 DEF ls
  <2>5. /\ Len(fetches') = Len(fetches) /\ fetches' # <<>>
        /\ \A j \in 1 .. Len(fetches) : j # i => fetches'[j] = fetches[j]
        /\ fetches'[i].names = remote[fetches'[i].dir]
    <3>1. /\ Len(fetches') = Len(fetches)
          /\ \A j \in 1 .. Len(fetches) :
               fetches'[j] = IF j = i THEN [fetches[i] EXCEPT !.names = remote[fetches[i].dir]]
                             ELSE fetches[j]
      BY <1>0, <2>2, <2>3, <2>4, ExceptSeq DEF FilesTypes
    <3>2. /\ fetches'[i].names = remote[fetches[i].dir] /\ fetches'[i].dir = fetches[i].dir
      BY <2>2, <3>1 DEF FetchKind
    <3>3. QED BY <1>0, <2>2, <3>1, <3>2, EmptySeq
  <2>6. LastIsFresh(fetches)'
    BY <1>0, <2>1, <2>2, <2>5 DEF LastIsFresh, FilesInv
  <2>7. QED BY <2>5, <2>6 DEF ListingIsTrue
<1>5. ASSUME NEW i \in DOMAIN fetches, _fetch(i) PROVE LastIsFresh(fetches)' /\ ListingIsTrue'
  <2>1. OnlySaves /\ UNCHANGED remote /\ fetches' = Without(i)
    BY <1>5 DEF _fetch, OnlySaves
  <2>2. i \in 1 .. Len(fetches)
    BY <1>0, LenProperties DEF FilesTypes
  <2>3. LastIsFresh(fetches) /\ LastIsFresh(fetches)' /\ (fetches' = <<>> => i = Len(fetches))
    BY <1>0, <2>1, <2>2, FetchLands DEF FilesInv
  <2>4. ASSUME fetches' = <<>>, ~behind' PROVE shown' = [dir |-> path', names |-> remote'[path']]
    <3>1. i = Len(fetches) /\ fetches # <<>>
      BY <1>0, <2>2, <2>3, <2>4, EmptySeq
    <3>2. fetches[i].names # None /\ ~fetches[i].overtaken /\ fetches[i].dir = path
      BY <1>5, <2>4 DEF _fetch
    <3>3. fetches[i].names = remote[path]
      BY <2>3, <3>1, <3>2 DEF LastIsFresh
    <3>4. QED BY <1>5, <3>2, <3>3 DEF _fetch
  <2>5. QED BY <2>3, <2>4 DEF ListingIsTrue
<1>6. ASSUME NEW i \in DOMAIN fetches, FetchFails(i) PROVE LastIsFresh(fetches)' /\ ListingIsTrue'
  <2>1. OnlySaves /\ UNCHANGED remote /\ fetches' = Without(i) /\ error_msg'
    BY <1>6 DEF FetchFails, OnlySaves
  <2>2. i \in 1 .. Len(fetches)
    BY <1>0, LenProperties DEF FilesTypes
  <2>3. QED BY <1>0, <2>1, <2>2, FetchLands DEF FilesInv, ListingIsTrue
<1>7. ASSUME NEW n \in Name, _toggle_select(n) PROVE LastIsFresh(fetches)' /\ ListingIsTrue'
  BY <1>3, <1>7 DEF _toggle_select, OnlySaves
<1>8. CASE _open_delete_dialog
  BY <1>3, <1>8 DEF _open_delete_dialog, OnlySaves
<1>9. CASE _confirm_delete
  <2>1. UNCHANGED <<fetches, remote, path, shown, behind, error_msg>>
    BY <1>9 DEF _confirm_delete
  <2>2. OnlySaves
    <3>1. CASE UNCHANGED jobs
      BY <3>1 DEF OnlySaves
    <3>2. CASE jobs' # jobs
      <4>1. PICK d \in Dir : jobs' = Append(jobs, [kind |-> "delete", dir |-> d, names |-> dialog.names])
        BY <1>0, <1>9, <3>2 DEF _confirm_delete, FilesTypes
      <4>2. [kind |-> "delete", dir |-> d, names |-> dialog.names] \in JobKind
        BY <1>0, <1>9 DEF _confirm_delete, FilesTypes, JobKind
      <4>3. QED BY <1>0, <4>1, <4>2, JobAdded
    <3>3. QED BY <3>1, <3>2
  <2>3. QED BY <1>3, <2>1, <2>2
<1>10. ASSUME NEW n \in Name, NEW kind \in {"upload", "save"}, Starts(kind, n)
       PROVE  LastIsFresh(fetches)' /\ ListingIsTrue'
  <2>1. [kind |-> kind, dir |-> path, names |-> {n}] \in JobKind
    BY <1>0 DEF FilesTypes, JobKind
  <2>2. OnlySaves
    BY <1>0, <1>10, <2>1, JobAdded DEF Starts
  <2>3. QED BY <1>3, <1>10, <2>2 DEF Starts, browsing
<1>11. ASSUME NEW k \in DOMAIN jobs, DoesOne(k) PROVE LastIsFresh(fetches)' /\ ListingIsTrue'
  <2>1. /\ k \in 1 .. Len(jobs) /\ jobs[k] \in JobKind
        /\ \A j \in 1 .. Len(jobs) : jobs[j] \in JobKind
    BY <1>0, ElementOfSeq, LenProperties DEF FilesTypes
  <2>2. PICK n \in jobs[k].names : jobs' = [jobs EXCEPT ![k] = [jobs[k] EXCEPT !.names = @ \ {n}]]
    BY <1>11 DEF DoesOne
  <2>3. [jobs[k] EXCEPT !.names = @ \ {n}] \in JobKind /\ [jobs[k] EXCEPT !.names = @ \ {n}].kind = jobs[k].kind
    BY <2>1 DEF JobKind
  <2>4. /\ Len(jobs') = Len(jobs)
        /\ \A j \in 1 .. Len(jobs) :
             jobs'[j] = IF j = k THEN [jobs[k] EXCEPT !.names = @ \ {n}] ELSE jobs[j]
    BY <1>0, <2>1, <2>2, <2>3, ExceptSeq DEF FilesTypes
  <2>5. OnlySaves /\ jobs[k].kind = "save"
    BY <2>1, <2>3, <2>4 DEF OnlySaves
  <2>6. CASE UNCHANGED remote /\ UNCHANGED <<behind, fetches>>
    BY <1>3, <1>11, <2>5, <2>6 DEF DoesOne
  <2>7. CASE behind' /\ fetches' = Overtaken(Len(fetches))
    <3>1. Len(fetches') = Len(fetches) /\ fetches' \in Seq(FetchKind)
      BY <1>0, <2>7, FetchMarked
    <3>2. fetches' # <<>> => fetches'[Len(fetches')].overtaken
      <4>1. fetches' # <<>> => Len(fetches) \in 1 .. Len(fetches) /\ Len(fetches) <= Len(fetches)
        BY <1>0, <3>1, EmptySeq
      <4>2. \A j \in 1 .. Len(fetches) : j <= Len(fetches) => Overtaken(Len(fetches))[j].overtaken
        BY <1>0, FetchMarked
      <4>3. QED BY <2>7, <3>1, <4>1, <4>2
    <3>3. QED BY <2>7, <3>2 DEF LastIsFresh, ListingIsTrue
  <2>8. \/ UNCHANGED remote /\ UNCHANGED <<behind, fetches>>
        \/ behind' /\ fetches' = Overtaken(Len(fetches))
    <3>1. PICK after : /\ remote' = [remote EXCEPT ![jobs[k].dir] = after]
                       /\ IF after # remote[jobs[k].dir]
                          THEN behind' = TRUE /\ fetches' = Overtaken(Len(fetches))
                          ELSE UNCHANGED <<behind, fetches>>
      BY <1>11, <2>5 DEF DoesOne
    <3>2. after = remote[jobs[k].dir] => remote' = remote
      BY <1>0, <3>1 DEF FilesTypes
    <3>3. QED BY <3>1, <3>2
  <2>9. QED BY <2>6, <2>7, <2>8
<1>12. ASSUME NEW k \in DOMAIN jobs, JobEnds(k) PROVE LastIsFresh(fetches)' /\ ListingIsTrue'
  <2>1. k \in 1 .. Len(jobs) /\ jobs[k] \in JobKind
    BY <1>0, ElementOfSeq, LenProperties DEF FilesTypes
  <2>2. CASE jobs[k].kind = "save"
    <3>1. OnlySaves
      BY <1>0, <1>12, <2>1, <2>2, JobRemoved DEF JobEnds
    <3>2. QED BY <1>3, <1>12, <2>2, <3>1 DEF JobEnds
  <2>3. CASE jobs[k].kind # "save"
    <3>1. jobs[k].dir \in Dir /\ fetches' = Append(fetches, Fetch(jobs[k].dir))
      BY <1>12, <2>1, <2>3 DEF JobEnds, Asks, JobKind
    <3>2. QED BY <1>0, <3>1, FetchAsked DEF ListingIsTrue
  <2>4. QED BY <2>2, <2>3
<1>13. CASE UNCHANGED fileVars
  BY <1>3, <1>13 DEF fileVars, OnlySaves
<1>14. QED BY <1>1, <1>2, <1>4, <1>5, <1>6, <1>7, <1>8, <1>9, <1>10, <1>11, <1>12, <1>13 DEF FilesNext

\* However many listings and changes overlap and in whatever order they end: a
\* quiet list shows the directory whose path stands above it as it is, unless the
\* last listing failed or was not the last asked for, or the editor has brought
\* back a file (_fetch_listing, handle_upload_async, _confirm_delete).
THEOREM QuietListsAreTrue == FilesSpec => []QuietListIsTrue
<1>1. FilesInv /\ [FilesNext]_fileVars => FilesInv'
  BY FilesTypesStep, ListingStep DEF FilesInv
<1>2. FilesInv => QuietListIsTrue
  BY DEF FilesInv, OnlySaves, ListingIsTrue, QuietListIsTrue
<1>3. QED BY FilesInitially, <1>1, <1>2, PTL DEF FilesSpec

----------------------------------------------------------------------------
(* CellList *)

PopupKind == [kind : {"menu"}, cell : Nat \ {0}] \union [kind : {"working"}, ask : Ask]

\* The places of the dialogs of running asks.
Works(s) == {i \in 1 .. Len(s) : s[i].kind = "working"}

\* What a running ask is about matters to none of what follows.
PopupTypes ==
  /\ popups \in Seq(PopupKind)
  /\ DOMAIN cell_asks = Ask /\ cell_asks = [k \in Ask |-> cell_asks[k]]
  /\ overlapped \in BOOLEAN

\* Whoever takes the top dialog away, no ask runs without one.
AsksHaveDialogs == IsFiniteSet(Asking) /\ Cardinality(Asking) <= Cardinality(Works(popups))

\* Unless the menu was opened over a running ask, there is one at most, and its
\* dialog is the top one.
OneAskOnTop ==
  ~overlapped =>
    /\ \A i \in Works(popups) : i = Len(popups) /\ Asking = {popups[i].ask}
    /\ Asking # {} => Works(popups) # {}

PopupsInv == PopupTypes /\ AsksHaveDialogs /\ OneAskOnTop

LEMMA PopupsInitially == ListInit => PopupsInv
<1> SUFFICES ASSUME ListInit PROVE PopupsInv
  OBVIOUS
<1>1. PopupTypes
  BY EmptySeq DEF ListInit, PopupTypes
<1>2. Asking = {} /\ Works(popups) = {}
  BY DEF ListInit, Asking, Works
<1>3. QED BY <1>1, <1>2, FS_EmptySet DEF PopupsInv, AsksHaveDialogs, OneAskOnTop

LEMMA WorksAreFinite ==
  ASSUME NEW s \in Seq(PopupKind)
  PROVE  IsFiniteSet(Works(s)) /\ Cardinality(Works(s)) \in Nat /\ Cardinality(Works(s)) <= Len(s)
<1>1. Len(s) \in Nat /\ IsFiniteSet(1 .. Len(s)) /\ Cardinality(1 .. Len(s)) = Len(s)
  <2>1. 1 \in Int /\ Len(s) \in Nat /\ Len(s) \in Int
    BY LenProperties
  <2>2. IsFiniteSet(1 .. Len(s)) /\ Cardinality(1 .. Len(s)) = IF 1 > Len(s) THEN 0 ELSE Len(s) - 1 + 1
    BY <2>1, FS_Interval
  <2>3. QED BY <2>1, <2>2
<1>2. Works(s) \in SUBSET (1 .. Len(s))
  BY DEF Works
<1>3. QED BY <1>1, <1>2, FS_Subset, FS_CardinalityType

LEMMA DialogOff ==
  ASSUME NEW s \in Seq(PopupKind), s # <<>>
  PROVE  /\ Front(s) \in Seq(PopupKind)
         /\ Len(s) \in Nat \ {0}
         /\ Works(Front(s)) = Works(s) \ {Len(s)}
<1>1. Len(s) \in Nat \ {0} /\ \A i \in 1 .. Len(s) : s[i] \in PopupKind
  BY EmptySeq, ElementOfSeq
<1>2. Front(s) \in Seq(PopupKind)
  <2>1. 1 \in Int /\ Len(s) - 1 \in Int /\ \A i \in 1 .. Len(s) - 1 : s[i] \in PopupKind
    BY <1>1
  <2>2. QED BY <2>1, SubSeqProperties DEF Front
<1>3. Len(Front(s)) = Len(s) - 1 /\ \A i \in 1 .. Len(s) - 1 : Front(s)[i] = s[i]
  <2> DEFINE n == Len(s) - 1
  <2>1. n \in Nat /\ 1 \in Int /\ n \in Int /\ \A i \in 1 .. n : s[i] \in PopupKind
    BY <1>1
  <2>2. Front(s) = SubSeq(s, 1, n)
    BY DEF Front
  <2> HIDE DEF n
  <2>3. /\ Len(SubSeq(s, 1, n)) = IF 1 <= n THEN n - 1 + 1 ELSE 0
        /\ \A i \in 1 .. n - 1 + 1 : SubSeq(s, 1, n)[i] = s[1 + i - 1]
    BY <2>1, SubSeqProperties
  <2>4. n - 1 + 1 = n /\ \A i \in 1 .. n : 1 + i - 1 = i
    BY <2>1
  <2>5. Len(Front(s)) = n /\ \A i \in 1 .. n : Front(s)[i] = s[i]
    BY <2>1, <2>2, <2>3, <2>4
  <2>6. QED BY <2>5 DEF n
<1>6. Works(Front(s)) = Works(s) \ {Len(s)}
  BY <1>1, <1>3 DEF Works
<1>7. QED BY <1>1, <1>2, <1>6

LEMMA DialogOn ==
  ASSUME NEW s \in Seq(PopupKind), NEW p \in PopupKind
  PROVE  /\ Append(s, p) \in Seq(PopupKind)
         /\ Len(Append(s, p)) = Len(s) + 1 /\ Append(s, p)[Len(s) + 1] = p
         /\ Works(Append(s, p)) =
              IF p.kind = "working" THEN Works(s) \union {Len(s) + 1} ELSE Works(s)
<1>1. /\ Append(s, p) \in Seq(PopupKind) /\ Len(Append(s, p)) = Len(s) + 1
      /\ Append(s, p)[Len(s) + 1] = p
      /\ \A i \in 1 .. Len(s) : Append(s, p)[i] = s[i]
      /\ Len(s) \in Nat
  BY AppendProperties, LenProperties
<1>2. QED BY <1>1 DEF Works

\* The menu is taken away, or opened: running asks keep their dialogs.
LEMMA MenuOpens ==
  ASSUME PopupsInv, NEW c \in Int, 1 <= c, _show_cell_ai_menu(c) PROVE PopupsInv'
<1>1. Menu(c) \in PopupKind /\ Menu(c).kind = "menu"
  BY DEF Menu, PopupKind
<1>2. /\ popups' \in Seq(PopupKind) /\ Works(popups') = Works(popups)
      /\ Asking' = Asking
  BY <1>1, DialogOn DEF PopupsInv, PopupTypes, _show_cell_ai_menu, Asking
<1>3. ~overlapped' => ~overlapped /\ Asking = {}
  BY DEF _show_cell_ai_menu, PopupsInv, PopupTypes
<1>4. overlapped' \in BOOLEAN /\ UNCHANGED cell_asks
  BY DEF _show_cell_ai_menu, PopupsInv, PopupTypes
<1>5. QED BY <1>2, <1>3, <1>4 DEF PopupsInv, PopupTypes, AsksHaveDialogs, OneAskOnTop

LEMMA TopMenu ==
  ASSUME PopupsInv, OnTop("menu")
  PROVE  /\ Front(popups) \in Seq(PopupKind) /\ Works(Front(popups)) = Works(popups)
         /\ Last(popups).cell \in Nat \ {0}
         /\ ~overlapped => Asking = {}
<1>1. /\ Front(popups) \in Seq(PopupKind) /\ Works(Front(popups)) = Works(popups) \ {Len(popups)}
      /\ Len(popups) \in Nat \ {0}
  BY DialogOff DEF PopupsInv, PopupTypes, OnTop
<1>2. Last(popups) \in PopupKind /\ popups[Len(popups)].kind = "menu"
  BY <1>1, ElementOfSeq DEF PopupsInv, PopupTypes, OnTop, Last
<1>3. Len(popups) \notin Works(popups)
  BY <1>2 DEF Works
<1>4. QED BY <1>1, <1>2, <1>3 DEF PopupsInv, OneAskOnTop, PopupKind, OnTop

\* An ask that starts brings its dialog.
LEMMA AskStarted ==
  ASSUME PopupsInv, NEW c, c # 0, NEW below \in Seq(PopupKind), Works(below) = Works(popups),
         ~overlapped => Asking = {}, AskStarts(c, below)
  PROVE  PopupsInv'
<1>1. UNCHANGED overlapped
  BY DEF AskStarts
<1>2. CASE popups' = below /\ UNCHANGED cell_asks
  BY <1>1, <1>2 DEF PopupsInv, PopupTypes, AsksHaveDialogs, OneAskOnTop, Asking
<1>3. CASE popups' # below \/ cell_asks' # cell_asks
  <2>1. PICK k \in Ask \ Asking :
          /\ cell_asks' = [cell_asks EXCEPT ![k] = [cell |-> c, tab |-> on_tab]]
          /\ popups' = Append(below, Working(k))
    BY <1>3 DEF AskStarts
  <2>2. Working(k) \in PopupKind /\ Working(k).kind = "working" /\ Working(k).ask = k
    BY DEF Working, PopupKind
  <2>3. /\ popups' \in Seq(PopupKind) /\ Works(popups') = Works(popups) \union {Len(below) + 1}
        /\ Len(popups') = Len(below) + 1 /\ popups'[Len(below) + 1].ask = k
    BY <2>1, <2>2, DialogOn
  <2>4. Asking' = Asking \union {k}
    BY <2>1 DEF PopupsInv, PopupTypes, Asking, NoAsk
  <2>5. PopupTypes'
    BY <1>1, <2>1, <2>3 DEF PopupsInv, PopupTypes
  <2>6. AsksHaveDialogs'
    <3>1. Len(below) \in Nat /\ Len(below) + 1 \notin Works(below)
      BY LenProperties DEF Works
    <3>2. Cardinality(Works(popups')) = Cardinality(Works(popups)) + 1
      <4>1. IsFiniteSet(Works(popups)) /\ Len(below) + 1 \notin Works(popups)
        BY <3>1, WorksAreFinite DEF PopupsInv, PopupTypes
      <4>2. QED BY <2>3, <4>1, FS_AddElement
    <3>3. IsFiniteSet(Asking') /\ Cardinality(Asking') = Cardinality(Asking) + 1
      BY <2>4, FS_AddElement DEF PopupsInv, AsksHaveDialogs
    <3>4. Cardinality(Works(popups)) \in Nat /\ Cardinality(Asking) \in Nat
      BY WorksAreFinite, FS_CardinalityType DEF PopupsInv, PopupTypes, AsksHaveDialogs
    <3>5. QED BY <3>2, <3>3, <3>4 DEF PopupsInv, AsksHaveDialogs
  <2>7. OneAskOnTop'
    <3>1. ~overlapped => Works(popups) = {} /\ Asking = {}
      BY DEF PopupsInv, OneAskOnTop
    <3>2. QED BY <1>1, <2>3, <2>4, <3>1 DEF OneAskOnTop
  <2>8. QED BY <2>5, <2>6, <2>7 DEF PopupsInv
<1>4. QED BY <1>2, <1>3

\* An ask that ends takes the top dialog, whosever it is.
LEMMA AskEnded ==
  ASSUME PopupsInv, NEW k \in Ask, Ends(k), UNCHANGED overlapped PROVE PopupsInv'
<1>1. k \in Asking /\ Asking' = Asking \ {k}
  BY DEF Ends, Asking, PopupsInv, PopupTypes
<1>2. /\ IsFiniteSet(Asking') /\ Cardinality(Asking') = Cardinality(Asking) - 1
      /\ Cardinality(Asking) \in Nat \ {0}
  BY <1>1, FS_RemoveElement, FS_CardinalityType, FS_EmptySet DEF PopupsInv, AsksHaveDialogs
<1>3. IsFiniteSet(Works(popups)) /\ Cardinality(Works(popups)) \in Nat
  BY WorksAreFinite DEF PopupsInv, PopupTypes
<1>4. popups # <<>>
  <2>1. Cardinality(Works(popups)) <= Len(popups)
    BY WorksAreFinite DEF PopupsInv, PopupTypes
  <2>2. Len(popups) # 0
    BY <1>2, <1>3, <2>1, LenProperties DEF PopupsInv, PopupTypes, AsksHaveDialogs
  <2>3. QED BY <2>2, EmptySeq
<1>5. popups' \in Seq(PopupKind) /\ Works(popups') = Works(popups) \ {Len(popups)}
  BY <1>4, DialogOff DEF Ends, PopupsInv, PopupTypes
<1>6. PopupTypes'
  BY <1>5 DEF Ends, PopupsInv, PopupTypes
<1>7. AsksHaveDialogs'
  <2>1. Cardinality(Works(popups')) >= Cardinality(Works(popups)) - 1
    <3>1. Cardinality(Works(popups) \ {Len(popups)}) =
            IF Len(popups) \in Works(popups) THEN Cardinality(Works(popups)) - 1
            ELSE Cardinality(Works(popups))
      BY <1>3, FS_RemoveElement
    <3>2. QED BY <1>3, <1>5, <3>1
  <2>2. Cardinality(Works(popups')) \in Nat
    BY <1>5, WorksAreFinite
  <2>3. QED BY <1>2, <1>3, <2>1, <2>2 DEF PopupsInv, AsksHaveDialogs
<1>8. OneAskOnTop'
  BY <1>1, <1>5 DEF PopupsInv, OneAskOnTop
<1>9. QED BY <1>6, <1>7, <1>8 DEF PopupsInv

LEMMA PopupsStep == PopupsInv /\ [ListNext]_listVars => PopupsInv'
<1> SUFFICES ASSUME PopupsInv, [ListNext]_listVars PROVE PopupsInv'
  OBVIOUS
<1>1. CASE UNCHANGED <<popups, cell_asks, overlapped>>
  BY <1>1 DEF PopupsInv, PopupTypes, AsksHaveDialogs, OneAskOnTop, Asking
<1>2. CASE _menu_cancel
  <2>1. Asking' = Asking
    BY <1>2 DEF _menu_cancel, Asking
  <2>2. QED BY <1>2, <2>1, TopMenu
            DEF _menu_cancel, PopupsInv, PopupTypes, AsksHaveDialogs, OneAskOnTop
<1>3. CASE _menu_pick
  BY <1>3, TopMenu, AskStarted DEF _menu_pick
<1>4. ASSUME NEW c \in 1 .. made, _show_cell_ai_menu(c) PROVE PopupsInv'
  BY <1>4, MenuOpens
<1>5. ASSUME NEW c \in 1 .. made, _on_fix_error(c) PROVE PopupsInv'
  <2>1. popups = <<>> /\ AskStarts(c, popups) /\ c # 0
    BY <1>5 DEF _on_fix_error, Buttons
  <2>2. Works(popups) = {}
    BY <2>1 DEF Works
  <2>3. QED BY <2>1, <2>2, AskStarted DEF PopupsInv, PopupTypes, OneAskOnTop
<1>6. ASSUME NEW k \in Ask, AskFails(k) \/ _cancel(k) \/ _insert_ai_answer(k) PROVE PopupsInv'
  BY <1>6, AskEnded DEF AskFails, _cancel, _insert_ai_answer
<1>7. CASE \/ _add_cell \/ AssistantInserts \/ _toggle_active_type
           \/ \E above \in BOOLEAN : _insert_cell_near(above, active_cell_id)
           \/ \E advance \in {"next", "insert"} : _shortcut_run(advance)
           \/ \E t \in Tab : SwitchTab(t)
           \/ \E c \in 1 .. made : \/ _delete_cell(c) \/ _move_cell(c, 1) \/ _move_cell(c, -1)
                                   \/ _on_cell_focus(c) \/ reveal_cell(c)
  BY <1>1, <1>7 DEF _add_cell, AssistantInserts, _toggle_active_type, _insert_cell_near, _shortcut_run,
                    SwitchTab, _delete_cell, _move_cell, _on_cell_focus, reveal_cell
<1>8. CASE UNCHANGED listVars
  BY <1>1, <1>8 DEF listVars
<1>9. QED BY <1>2, <1>3, <1>4, <1>5, <1>6, <1>7, <1>8 DEF ListNext

\* However asks, menus and edits of the list interleave, a running ask is
\* covered by a dialog; and unless the menu was opened over it, that is the one
\* whose Cancel stops it (_run_cell_ai).
THEOREM RunningAsksAreCovered == ListSpec => []AsksAreCovered
<1>1. PopupsInv => AsksAreCovered
  <2> SUFFICES ASSUME PopupsInv PROVE AsksAreCovered
    OBVIOUS
  <2>1. /\ Cardinality(Works(popups)) \in Nat /\ Cardinality(Works(popups)) <= Len(popups)
        /\ Cardinality(Asking) \in Nat /\ Len(popups) \in Nat
    BY WorksAreFinite, FS_CardinalityType, LenProperties DEF PopupsInv, PopupTypes, AsksHaveDialogs
  <2>2. Len(popups) >= Cardinality(Asking)
    BY <2>1 DEF PopupsInv, AsksHaveDialogs
  <2>3. QED BY <2>2 DEF PopupsInv, OneAskOnTop, Works, AsksAreCovered
<1>2. QED BY PopupsInitially, PopupsStep, <1>1, PTL DEF ListSpec

\* Where a cell is found.
LEMMA PlaceFound ==
  ASSUME NEW S, NEW s \in Seq(S), Distinct(s), NEW c
  PROVE  /\ PlaceOf(c, s) \in 0 .. Len(s)
         /\ c \notin ToSet(s) => PlaceOf(c, s) = 0
         /\ \A i \in DOMAIN s : s[i] = c => PlaceOf(c, s) = i
         /\ PlaceOf(c, s) # 0 => s[PlaceOf(c, s)] = c
<1>1. DOMAIN s = 1 .. Len(s) /\ Len(s) \in Nat
  BY LenProperties
<1>2. ASSUME NEW i \in DOMAIN s, s[i] = c PROVE PlaceOf(c, s) = i
  BY <1>2, FoundAt DEF PlaceOf, SelectInSeq
<1>3. c \notin ToSet(s) => PlaceOf(c, s) = 0
  BY <1>1 DEF PlaceOf, SelectInSeq, ToSet
<1>4. c \in ToSet(s) => \E i \in DOMAIN s : s[i] = c
  BY DEF ToSet
<1>5. QED BY <1>1, <1>2, <1>3, <1>4

\* The place at which Near puts a cell.
Slot(above, anchor, s) ==
  IF PlaceOf(anchor, s) = 0 THEN Len(s) + 1 ELSE IF above THEN PlaceOf(anchor, s) ELSE PlaceOf(anchor, s) + 1

LEMMA NearWidens ==
  ASSUME NEW S, NEW s \in Seq(S), Distinct(s), NEW c \in S, NEW above \in BOOLEAN, NEW anchor
  PROVE  /\ Slot(above, anchor, s) \in 1 .. Len(s) + 1 /\ Near(above, anchor, s, c) \in Seq(S)
         /\ Widens(Near(above, anchor, s, c), s, Slot(above, anchor, s), c)
<1> DEFINE p == PlaceOf(anchor, s)
           i == Slot(above, anchor, s)
<1>1. Len(s) \in Nat /\ p \in 0 .. Len(s)
  BY LenProperties, PlaceFound
<1>2. /\ Near(above, anchor, s, c) = IF p = 0 THEN Append(s, c) ELSE InsertAt(s, IF above THEN p ELSE p + 1, c)
      /\ i = IF p = 0 THEN Len(s) + 1 ELSE IF above THEN p ELSE p + 1
  BY DEF Near, Slot
<1> HIDE DEF p, i
<1>3. CASE p = 0
  <2>1. i = Len(s) + 1 /\ i \in 1 .. Len(s) + 1 /\ Near(above, anchor, s, c) = Append(s, c)
    BY <1>1, <1>2, <1>3
  <2>2. QED BY <2>1, AppendWidens DEF i
<1>4. CASE p # 0
  <2>1. i \in 1 .. Len(s) + 1 /\ Near(above, anchor, s, c) = InsertAt(s, i, c)
    BY <1>1, <1>2, <1>4
  <2>2. QED BY <2>1, InsertWidens DEF i
<1>5. QED BY <1>3, <1>4

\* A new cell comes below its anchor, or at the end.
LEMMA LandsBelow ==
  ASSUME NEW n \in Nat, NEW s \in Seq(1 .. n), Distinct(s), NEW anchor \in 0 .. n,
         NEW r \in Seq(1 .. n + 1), Widens(r, s, Slot(FALSE, anchor, s), n + 1)
  PROVE  r # <<>> /\ PlaceOf(n + 1, r) = IF PlaceOf(anchor, r) = 0 THEN Len(r) ELSE PlaceOf(anchor, r) + 1
<1> DEFINE p == PlaceOf(anchor, s)
           k == IF p = 0 THEN Len(s) + 1 ELSE p + 1
<1>1. Len(s) \in Nat /\ DOMAIN s = 1 .. Len(s) /\ \A j \in DOMAIN s : s[j] \in 1 .. n
  BY LenProperties
<1>2. p \in 0 .. Len(s) /\ (anchor \notin ToSet(s) => p = 0) /\ (p # 0 => s[p] = anchor)
      /\ \A j \in DOMAIN s : s[j] = anchor => p = j
  BY PlaceFound
<1>3. s \in Seq(1 .. n + 1) /\ n + 1 \in 1 .. n + 1
  <2>1. 1 .. n \subseteq 1 .. n + 1
    OBVIOUS
  <2>2. QED BY <2>1, SeqGrows
<1>4. n + 1 \notin ToSet(s)
  BY <1>1 DEF ToSet
<1>5. k \in 1 .. Len(s) + 1 /\ r \in Seq(1 .. n + 1) /\ Widens(r, s, k, n + 1)
  BY <1>1, <1>2 DEF Slot
<1>6. k = IF p = 0 THEN Len(s) + 1 ELSE p + 1
  OBVIOUS
<1> HIDE DEF p, k
<1>7. Distinct(r) /\ ToSet(r) = ToSet(s) \union {n + 1}
  BY <1>3, <1>4, <1>5, Widened
<1>8. Len(r) = Len(s) + 1 /\ DOMAIN r = 1 .. Len(r) /\ r[k] = n + 1 /\ \A j \in 1 .. k - 1 : r[j] = s[j]
  BY <1>5, LenProperties DEF Widens
<1>9. PlaceOf(n + 1, r) = k
  BY <1>1, <1>5, <1>7, <1>8, PlaceFound
<1>10. CASE p = 0
  <2>1. anchor \notin ToSet(s)
    BY <1>1, <1>2, <1>10 DEF ToSet
  <2>2. anchor \notin ToSet(r)
    BY <1>7, <2>1
  <2>3. PlaceOf(anchor, r) = 0
    BY <1>5, <1>7, <2>2, PlaceFound
  <2>4. QED BY <1>1, <1>8, <1>9, <1>10, <1>6, <2>3
<1>11. CASE p # 0
  <2>1. k = p + 1 /\ p \in DOMAIN r /\ r[p] = anchor
    BY <1>1, <1>2, <1>8, <1>11, <1>6
  <2>2. PlaceOf(anchor, r) = p
    BY <1>5, <1>7, <2>1, PlaceFound
  <2>3. QED BY <1>1, <1>2, <1>8, <1>9, <1>11, <2>1, <2>2
<1>12. QED BY <1>10, <1>11

\* What is known of the cells: a cell is in one list, once, until it is deleted, and
\* an ask is about a cell that was made.
CellsTypes ==
  /\ made \in Nat /\ on_tab \in Tab
  /\ cells \in [Tab -> Seq(1 .. made)] /\ deleted \in SUBSET (1 .. made)
  /\ cell_asks \in [Ask -> [cell : 0 .. made, tab : Tab]]

CellsApart ==
  /\ \A t \in Tab : Distinct(cells[t])
  /\ \A t, u \in Tab : t # u => ToSet(cells[t]) \intersect ToSet(cells[u]) = {}
  /\ \A c \in 1 .. made : c \in deleted <=> \A t \in Tab : c \notin ToSet(cells[t])

CellsInv == CellsTypes /\ CellsApart

LEMMA ApartIsOnce == CellsInv => EachInOnePlace
<1> SUFFICES ASSUME CellsInv, NEW c \in 1 .. made
             PROVE  IF c \in deleted THEN \A t \in Tab : c \notin ToSet(cells[t])
                    ELSE Cardinality({at \in Tab \X (1 .. made) :
                                        at[2] <= Len(cells[at[1]]) /\ cells[at[1]][at[2]] = c}) = 1
  BY DEF EachInOnePlace
<1> DEFINE P == {at \in Tab \X (1 .. made) : at[2] <= Len(cells[at[1]]) /\ cells[at[1]][at[2]] = c}
<1>1. CASE c \in deleted
  BY <1>1 DEF CellsInv, CellsApart
<1>2. CASE c \notin deleted
  <2>1. PICK t \in Tab : c \in ToSet(cells[t])
    BY <1>2 DEF CellsInv, CellsApart
  <2>2. PICK i \in DOMAIN cells[t] : cells[t][i] = c
    BY <2>1 DEF ToSet
  <2>3. made \in Nat /\ \A u \in Tab : cells[u] \in Seq(1 .. made) /\ Distinct(cells[u])
    BY DEF CellsInv, CellsTypes, CellsApart
  <2>4. \A u \in Tab : DOMAIN cells[u] = 1 .. Len(cells[u]) /\ Len(cells[u]) \in Nat /\ Len(cells[u]) <= made
    BY <2>3, AsManyAsThereAre, LenProperties
  <2>5. <<t, i>> \in P
    BY <2>2, <2>3, <2>4
  <2>6. ASSUME NEW at \in P PROVE at = <<t, i>>
    <3>1. at[1] \in Tab /\ at[2] \in DOMAIN cells[at[1]] /\ cells[at[1]][at[2]] = c /\ at = <<at[1], at[2]>>
      BY <2>3, <2>4
    <3>2. c \in ToSet(cells[at[1]])
      BY <3>1 DEF ToSet
    <3>3. at[1] = t
      BY <2>1, <3>1, <3>2 DEF CellsInv, CellsApart
    <3>4. at[2] = i
      BY <2>2, <2>3, <3>1, <3>3 DEF Distinct
    <3>5. QED BY <3>1, <3>3, <3>4
  <2>7. P = {<<t, i>>}
    BY <2>5, <2>6
  <2> HIDE DEF P
  <2>8. Cardinality(P) = 1
    BY <2>7, FS_Singleton
  <2>9. QED BY <1>2, <2>8 DEF P
<1>3. QED BY <1>1, <1>2

\* A list that lost the cells G, which are deleted, and gained those made since.
LEMMA Republished ==
  ASSUME CellsInv, NEW t \in Tab, NEW G \in SUBSET ToSet(cells[t]), made' \in {made, made + 1},
         NEW r \in Seq(1 .. made'), Distinct(r), ToSet(r) = (ToSet(cells[t]) \ G) \union (made + 1 .. made'),
         cells' = [cells EXCEPT ![t] = r], deleted' = deleted \union G
  PROVE  CellsApart' /\ cells' \in [Tab -> Seq(1 .. made')] /\ deleted' \in SUBSET (1 .. made')
<1>1. made \in Nat /\ cells \in [Tab -> Seq(1 .. made)] /\ made' \in Nat /\ 1 .. made \subseteq 1 .. made'
  BY DEF CellsInv, CellsTypes
<1>2. cells' \in [Tab -> Seq(1 .. made')]
  <2>1. \A u \in Tab : cells[u] \in Seq(1 .. made')
    BY <1>1, SeqGrows
  <2>2. QED BY <1>1, <2>1
<1>3. cells'[t] = r /\ \A u \in Tab \ {t} : cells'[u] = cells[u]
  BY <1>1
<1>4. \A u \in Tab : \A c \in ToSet(cells[u]) : c \in 1 .. made
  <2>1. \A u \in Tab : \A i \in DOMAIN cells[u] : cells[u][i] \in 1 .. made
    BY <1>1
  <2>2. QED BY <2>1 DEF ToSet
<1>5. \A c \in made + 1 .. made' : c \notin 1 .. made
  BY <1>1
<1>6. \A u \in Tab : Distinct(cells'[u])
  BY <1>3 DEF CellsInv, CellsApart
<1>7. \A u \in Tab \ {t} : ToSet(r) \intersect ToSet(cells[u]) = {}
  BY <1>4, <1>5 DEF CellsInv, CellsApart
<1>8. \A u, v \in Tab : u # v => ToSet(cells'[u]) \intersect ToSet(cells'[v]) = {}
  BY <1>3, <1>7 DEF CellsInv, CellsApart
<1>9. ASSUME NEW c \in 1 .. made' PROVE c \in deleted' <=> \A u \in Tab : c \notin ToSet(cells'[u])
  <2>1. CASE c \in made + 1 .. made'
    <3>1. c \in ToSet(cells'[t])
      BY <1>3, <2>1
    <3>2. c \notin deleted /\ c \notin G
      BY <1>4, <1>5, <2>1 DEF CellsInv, CellsTypes
    <3>3. QED BY <3>1, <3>2
  <2>2. CASE c \in 1 .. made /\ c \in G
    <3>1. c \notin ToSet(cells'[t])
      BY <1>3, <1>5, <2>2
    <3>2. \A u \in Tab \ {t} : c \notin ToSet(cells'[u])
      BY <1>3, <2>2 DEF CellsInv, CellsApart
    <3>3. QED BY <2>2, <3>1, <3>2
  <2>3. CASE c \in 1 .. made /\ c \notin G
    <3>1. \A u \in Tab : c \in ToSet(cells'[u]) <=> c \in ToSet(cells[u])
      BY <1>3, <1>5, <2>3
    <3>2. QED BY <2>3, <3>1 DEF CellsInv, CellsApart
  <2>4. QED BY <1>1, <2>1, <2>2, <2>3
<1>10. deleted' \in SUBSET (1 .. made')
  BY <1>1, <1>4 DEF CellsInv, CellsTypes
<1>11. QED BY <1>2, <1>6, <1>8, <1>9, <1>10 DEF CellsApart

\* A new cell, put next to an anchor or at the end of a list.
LEMMA CellPut ==
  ASSUME CellsInv, NEW t \in Tab, made' = made + 1, deleted' = deleted,
         NEW i \in 1 .. Len(cells[t]) + 1, NEW r \in Seq(1 .. made'), Widens(r, cells[t], i, made'),
         cells' = [cells EXCEPT ![t] = r]
  PROVE  CellsApart' /\ cells' \in [Tab -> Seq(1 .. made')] /\ deleted' \in SUBSET (1 .. made')
<1> DEFINE s == cells[t]
<1>1. made \in Nat /\ s \in Seq(1 .. made) /\ Distinct(s) /\ 1 .. made \subseteq 1 .. made'
  BY DEF CellsInv, CellsTypes, CellsApart
<1>2. s \in Seq(1 .. made') /\ made' \in 1 .. made'
  BY <1>1, SeqGrows
<1>3. made' \notin ToSet(s)
  <2>1. \A j \in DOMAIN s : s[j] \in 1 .. made
    BY <1>1
  <2>2. made' \notin 1 .. made
    BY <1>1
  <2> HIDE DEF s
  <2>3. QED BY <2>1, <2>2 DEF ToSet
<1>4. Distinct(r) /\ ToSet(r) = ToSet(s) \union {made'}
  BY <1>1, <1>2, <1>3, Widened
<1>5. made + 1 .. made' = {made'}
  BY <1>1
<1>6. ToSet(r) = (ToSet(s) \ {}) \union (made + 1 .. made') /\ deleted' = deleted \union {}
  BY <1>4, <1>5
<1>7. QED BY <1>1, <1>4, <1>6, Republished

LEMMA NewNumber == CellsInv /\ NewCell => made \in Nat /\ made' = made + 1 /\ made' \in Nat /\ made' \in 1 .. made'
  BY DEF CellsInv, CellsTypes, NewCell

\* A cell taken out of its list, and two that change places.
LEMMA CellTaken ==
  ASSUME CellsInv, NEW t \in Tab, NEW c \in ToSet(cells[t]), made' = made, deleted' = deleted \union {c},
         cells' = [cells EXCEPT ![t] = AtPlaces(cells[t], {i \in DOMAIN cells[t] : cells[t][i] # c})]
  PROVE  CellsApart' /\ cells' \in [Tab -> Seq(1 .. made')] /\ deleted' \in SUBSET (1 .. made')
<1> DEFINE s == cells[t]
           K == {i \in DOMAIN s : s[i] # c}
           r == AtPlaces(s, K)
<1>1. made \in Nat /\ s \in Seq(1 .. made) /\ Distinct(s) /\ K \in SUBSET DOMAIN s
  BY DEF CellsInv, CellsTypes, CellsApart
<1>2. {s[i] : i \in K} = ToSet(s) \ {c}
  BY DEF ToSet
<1>3. cells' = [cells EXCEPT ![t] = r] /\ {c} \in SUBSET ToSet(s)
  OBVIOUS
<1> HIDE DEF K
<1>4. r \in Seq(1 .. made) /\ Distinct(r) /\ ToSet(r) = ToSet(s) \ {c}
  BY <1>1, <1>2, PickedSet
<1> HIDE DEF r
<1>5. ToSet(r) = (ToSet(s) \ {c}) \union (made + 1 .. made')
  BY <1>1, <1>4
<1>6. QED BY <1>3, <1>4, <1>5, Republished

LEMMA CellsSwapped ==
  ASSUME CellsInv, NEW t \in Tab, NEW i \in DOMAIN cells[t], NEW k \in DOMAIN cells[t],
         made' = made, deleted' = deleted,
         cells' = [cells EXCEPT ![t] = [cells[t] EXCEPT ![i] = cells[t][k], ![k] = cells[t][i]]]
  PROVE  CellsApart' /\ cells' \in [Tab -> Seq(1 .. made')] /\ deleted' \in SUBSET (1 .. made')
<1> DEFINE s == cells[t]
           r == [s EXCEPT ![i] = s[k], ![k] = s[i]]
<1>1. made \in Nat /\ s \in Seq(1 .. made) /\ Distinct(s)
  BY DEF CellsInv, CellsTypes, CellsApart
<1>2. cells' = [cells EXCEPT ![t] = r]
  OBVIOUS
<1>3. r \in Seq(1 .. made) /\ Distinct(r) /\ ToSet(r) = ToSet(s)
  BY <1>1, TwoSwapped
<1> HIDE DEF r
<1>4. ToSet(r) = (ToSet(s) \ {}) \union (made + 1 .. made') /\ deleted' = deleted \union {}
  BY <1>1, <1>3
<1>5. QED BY <1>2, <1>3, <1>4, Republished

LEMMA CellsInitially == ListInit => CellsInv
<1> SUFFICES ASSUME ListInit PROVE CellsInv
  OBVIOUS
<1> DEFINE n == Cardinality(Tab)
           OneEach(f) == f \in [Tab -> 1 .. n] /\ \A t, u \in Tab : f[t] = f[u] => t = u
           number == CHOOSE f \in [Tab -> 1 .. n] : \A t, u \in Tab : f[t] = f[u] => t = u
<1>1. IsFiniteSet(Tab) /\ n \in Nat /\ ExistsBijection(1 .. n, Tab)
  BY CellListAssumption, FS_CardinalityType
<1>2. \E f : OneEach(f)
  <2>1. PICK g : g \in Bijection(1 .. n, Tab)
    BY <1>1 DEF ExistsBijection
  <2> DEFINE h == Inverse(g, 1 .. n, Tab)
  <2>2. h \in Bijection(Tab, 1 .. n)
    BY <2>1, Fun_BijInverse
  <2> HIDE DEF h, n
  <2>3. OneEach(h)
    BY <2>2 DEF Bijection, Injection, IsInjective
  <2>4. QED BY <2>3
<1>3. OneEach(number)
  <2>1. \E f \in [Tab -> 1 .. n] : \A t, u \in Tab : f[t] = f[u] => t = u
    BY <1>2
  <2> HIDE DEF n
  <2>2. QED BY <2>1
<1>4. /\ cells = [t \in Tab |-> <<number[t]>>] /\ made = n /\ on_tab = HomeTab /\ deleted = {}
      /\ cell_asks = [k \in Ask |-> NoAsk]
  BY DEF ListInit
<1> HIDE DEF number, n
<1>5. \A c \in 1 .. n : \E t \in Tab : number[t] = c
  <2>1. number \in Injection(Tab, 1 .. n)
    BY <1>3 DEF Injection, IsInjective
  <2>2. IsFiniteSet(1 .. n) /\ Cardinality(1 .. n) = n
    <3>1. \A m \in Nat : IsFiniteSet(1 .. m) /\ Cardinality(1 .. m) = m
      BY FS_Interval
    <3>2. QED BY <1>1, <3>1
  <2>3. number \in Surjection(Tab, 1 .. n)
    BY <2>1, <2>2, FS_Injection DEF n
  <2>4. QED BY <2>3 DEF Surjection
<1>6. \A t \in Tab : /\ cells[t] = <<number[t]>> /\ number[t] \in 1 .. n /\ cells[t] \in Seq(1 .. n)
                     /\ DOMAIN cells[t] = {1} /\ ToSet(cells[t]) = {number[t]}
  BY <1>3, <1>4 DEF ToSet
<1>7. CellsTypes
  <2>1. cells \in [Tab -> Seq(1 .. made)] /\ deleted \in SUBSET (1 .. made) /\ made \in Nat
    BY <1>1, <1>4, <1>6
  <2>2. on_tab \in Tab /\ cell_asks \in [Ask -> [cell : 0 .. made, tab : Tab]]
    BY <1>1, <1>4, CellListAssumption DEF NoAsk
  <2>3. QED BY <2>1, <2>2 DEF CellsTypes
<1>8. CellsApart
  <2>1. \A t \in Tab : Distinct(cells[t])
    BY <1>6 DEF Distinct
  <2>2. ASSUME NEW t \in Tab, NEW u \in Tab, t # u PROVE ToSet(cells[t]) \intersect ToSet(cells[u]) = {}
    <3>1. number[t] # number[u]
      BY <1>3, <2>2
    <3>2. ToSet(cells[t]) = {number[t]} /\ ToSet(cells[u]) = {number[u]}
      BY <1>6
    <3>3. QED BY <3>1, <3>2
  <2>3. \A c \in 1 .. made : c \in deleted <=> \A t \in Tab : c \notin ToSet(cells[t])
    BY <1>4, <1>5, <1>6
  <2>4. QED BY <2>1, <2>2, <2>3 DEF CellsApart
<1>9. QED BY <1>7, <1>8 DEF CellsInv

\* An ask's cell is one that was made, whatever has become of it.
LEMMA AsksKept ==
  ASSUME CellsInv, NEW n \in Nat, made <= n,
         \/ cell_asks' = cell_asks
         \/ \E k \in Ask : \E a \in [cell : 0 .. made, tab : Tab] : cell_asks' = [cell_asks EXCEPT ![k] = a]
  PROVE  cell_asks' \in [Ask -> [cell : 0 .. n, tab : Tab]]
<1>1. made \in Nat /\ cell_asks \in [Ask -> [cell : 0 .. made, tab : Tab]]
  BY DEF CellsInv, CellsTypes
<1>2. [cell : 0 .. made, tab : Tab] \subseteq [cell : 0 .. n, tab : Tab]
  BY <1>1
<1>3. cell_asks' \in [Ask -> [cell : 0 .. made, tab : Tab]]
  BY <1>1
<1>4. QED BY <1>2, <1>3

\* Most steps make no cell or end no ask.
LEMMA NoAnswer == ASSUME CellsInv, made' = made \/ cell_asks' = cell_asks PROVE AnswerByItsCell
<1>1. made \in Nat
  BY DEF CellsInv, CellsTypes
<1>2. \A k \in Asking : cell_asks[k] # NoAsk
  BY DEF Asking
<1>3. ~(made' > made) \/ \A k \in Asking : cell_asks'[k] # NoAsk
  BY <1>1, <1>2
<1>4. QED BY <1>3 DEF AnswerByItsCell

LEMMA CellsRest ==
  ASSUME CellsInv, UNCHANGED <<cells, made, deleted>>
  PROVE  CellsApart' /\ cells' \in [Tab -> Seq(1 .. made')] /\ deleted' \in SUBSET (1 .. made')
  BY DEF CellsInv, CellsTypes, CellsApart

\* A cell is put next to the anchor, by the user.
LEMMA PutNear ==
  ASSUME CellsInv, NEW above \in BOOLEAN, NEW anchor, _insert_cell_near(above, anchor)
  PROVE  CellsInv' /\ AnswerByItsCell
<1>1. /\ made \in Nat /\ made' = made + 1 /\ made' \in Nat /\ made' \in 1 .. made' /\ on_tab \in Tab
      /\ UNCHANGED <<on_tab, cell_asks, deleted>>
      /\ cells' = [cells EXCEPT ![on_tab] = Near(above, anchor, cells[on_tab], made')]
  BY NewNumber DEF _insert_cell_near, Publishes, CellsInv, CellsTypes
<1>2. cells[on_tab] \in Seq(1 .. made') /\ Distinct(cells[on_tab])
  <2>1. cells[on_tab] \in Seq(1 .. made) /\ 1 .. made \subseteq 1 .. made'
    BY <1>1 DEF CellsInv, CellsTypes
  <2>2. QED BY <1>1, <2>1, SeqGrows DEF CellsInv, CellsApart
<1> DEFINE r == Near(above, anchor, cells[on_tab], made')
           i == Slot(above, anchor, cells[on_tab])
<1>3. i \in 1 .. Len(cells[on_tab]) + 1 /\ r \in Seq(1 .. made') /\ Widens(r, cells[on_tab], i, made')
  BY <1>1, <1>2, NearWidens
<1>4. cells' = [cells EXCEPT ![on_tab] = r]
  BY <1>1
<1> HIDE DEF r, i
<1>5. CellsApart' /\ cells' \in [Tab -> Seq(1 .. made')] /\ deleted' \in SUBSET (1 .. made')
  BY <1>1, <1>3, <1>4, CellPut
<1>6. cell_asks' \in [Ask -> [cell : 0 .. made', tab : Tab]]
  BY <1>1, AsksKept
<1>7. CellsInv'
  BY <1>1, <1>5, <1>6 DEF CellsInv, CellsTypes
<1>8. QED BY <1>1, <1>7, NoAnswer

\* A cell is put at the end, by the user or the assistant.
LEMMA PutLast ==
  ASSUME CellsInv, NewCell, NEW t \in Tab, Publishes(t, Append(cells[t], made')),
         on_tab' \in Tab, UNCHANGED <<cell_asks, deleted>>
  PROVE  CellsInv' /\ AnswerByItsCell
<1>1. /\ made \in Nat /\ made' = made + 1 /\ made' \in Nat /\ made' \in 1 .. made'
      /\ cells' = [cells EXCEPT ![t] = Append(cells[t], made')]
  BY NewNumber DEF Publishes
<1>2. cells[t] \in Seq(1 .. made')
  <2>1. cells[t] \in Seq(1 .. made) /\ 1 .. made \subseteq 1 .. made'
    BY <1>1 DEF CellsInv, CellsTypes
  <2>2. QED BY <2>1, SeqGrows
<1> DEFINE r == Append(cells[t], made')
           i == Len(cells[t]) + 1
<1>3. r \in Seq(1 .. made') /\ Widens(r, cells[t], i, made')
  BY <1>1, <1>2, AppendWidens
<1>4. cells' = [cells EXCEPT ![t] = r] /\ i \in 1 .. Len(cells[t]) + 1
  BY <1>1, <1>2, LenProperties
<1> HIDE DEF r, i
<1>5. CellsApart' /\ cells' \in [Tab -> Seq(1 .. made')] /\ deleted' \in SUBSET (1 .. made')
  BY <1>1, <1>3, <1>4, CellPut
<1>6. cell_asks' \in [Ask -> [cell : 0 .. made', tab : Tab]]
  BY <1>1, AsksKept
<1>7. CellsInv'
  BY <1>1, <1>5, <1>6 DEF CellsInv, CellsTypes
<1>8. QED BY <1>7, NoAnswer

\* An answer is put below the cell it is about.
LEMMA AnswerPut ==
  ASSUME CellsInv, NEW k \in Ask, _insert_ai_answer(k)
  PROVE  CellsInv' /\ AnswerByItsCell
<1> DEFINE t == cell_asks[k].tab
           c == cell_asks[k].cell
           r == Near(FALSE, c, cells[t], made')
           i == Slot(FALSE, c, cells[t])
<1>1. /\ made \in Nat /\ made' = made + 1 /\ made' \in Nat /\ made' \in 1 .. made'
      /\ on_tab' = on_tab /\ on_tab \in Tab /\ deleted' = deleted
  BY NewNumber DEF _insert_ai_answer, CellsInv, CellsTypes
<1>2. t \in Tab /\ c \in 0 .. made
  BY DEF CellsInv, CellsTypes
<1>3. cells' = [cells EXCEPT ![t] = r] /\ cell_asks' = [cell_asks EXCEPT ![k] = NoAsk]
  BY DEF _insert_ai_answer, Publishes, Ends
<1>4. cells[t] \in Seq(1 .. made) /\ cells[t] \in Seq(1 .. made') /\ Distinct(cells[t])
  <2>1. cells[t] \in Seq(1 .. made) /\ Distinct(cells[t]) /\ 1 .. made \subseteq 1 .. made'
    BY <1>1, <1>2 DEF CellsInv, CellsTypes, CellsApart
  <2>2. QED BY <2>1, SeqGrows
<1> HIDE DEF t, c
<1>5. i \in 1 .. Len(cells[t]) + 1 /\ r \in Seq(1 .. made') /\ Widens(r, cells[t], i, made')
  BY <1>1, <1>4, NearWidens
<1>6. r # <<>> /\ PlaceOf(made', r) = IF PlaceOf(c, r) = 0 THEN Len(r) ELSE PlaceOf(c, r) + 1
  BY <1>1, <1>2, <1>4, <1>5, LandsBelow
<1> HIDE DEF r, i
<1>7. CellsApart' /\ cells' \in [Tab -> Seq(1 .. made')] /\ deleted' \in SUBSET (1 .. made')
  BY <1>1, <1>2, <1>3, <1>5, CellPut
<1>8. cell_asks' \in [Ask -> [cell : 0 .. made', tab : Tab]]
  <2>1. NoAsk \in [cell : 0 .. made, tab : Tab]
    BY <1>1, CellListAssumption DEF NoAsk
  <2>2. made <= made'
    BY <1>1
  <2>3. QED BY <1>1, <1>3, <2>1, <2>2, AsksKept
<1>9. CellsInv'
  BY <1>1, <1>7, <1>8 DEF CellsInv, CellsTypes
<1>10. cells'[t] = r
  BY <1>2, <1>3 DEF CellsInv, CellsTypes
<1>11. ASSUME NEW a \in Asking, cell_asks'[a] = NoAsk PROVE a = k
  BY <1>3, <1>11 DEF Asking, CellsInv, CellsTypes
<1>12. AnswerByItsCell
  BY <1>6, <1>10, <1>11 DEF AnswerByItsCell, t, c
<1>13. QED BY <1>9, <1>12

\* A step that changes no list.
LEMMA ListsRest ==
  ASSUME CellsInv, UNCHANGED <<cells, made, deleted>>, on_tab' \in Tab,
         \/ cell_asks' = cell_asks
         \/ \E k \in Ask : \E a \in [cell : 0 .. made, tab : Tab] : cell_asks' = [cell_asks EXCEPT ![k] = a]
  PROVE  CellsInv' /\ AnswerByItsCell
<1>1. CellsApart' /\ cells' \in [Tab -> Seq(1 .. made')] /\ deleted' \in SUBSET (1 .. made')
  BY CellsRest
<1>2. made \in Nat /\ made' = made
  BY DEF CellsInv, CellsTypes
<1>3. cell_asks' \in [Ask -> [cell : 0 .. made, tab : Tab]]
  BY <1>2, AsksKept
<1>4. CellsInv'
  BY <1>1, <1>2, <1>3 DEF CellsInv, CellsTypes
<1>5. QED BY <1>2, <1>4, NoAnswer

LEMMA CellsStep == CellsInv /\ [ListNext]_listVars => CellsInv' /\ AnswerByItsCell
<1> SUFFICES ASSUME CellsInv, [ListNext]_listVars PROVE CellsInv' /\ AnswerByItsCell
  OBVIOUS
<1>1. made \in Nat /\ on_tab \in Tab /\ cells \in [Tab -> Seq(1 .. made)] /\ \A t \in Tab : Distinct(cells[t])
  BY DEF CellsInv, CellsTypes, CellsApart
<1>2. \A c \in Here : c \in 0 .. made
  <2>1. \A i \in DOMAIN cells[on_tab] : cells[on_tab][i] \in 1 .. made
    BY <1>1
  <2>2. QED BY <1>1, <2>1 DEF Here, ToSet
<1>3. CASE UNCHANGED listVars
  BY <1>1, <1>3, ListsRest DEF listVars
<1>4. CASE _add_cell
  BY <1>1, <1>4, PutLast DEF _add_cell
<1>5. CASE AssistantInserts
  <2>1. AiTab \in Tab /\ on_tab' \in Tab
    BY <1>1, <1>5, CellListAssumption DEF AssistantInserts, Shows
  <2>2. QED BY <1>5, <2>1, PutLast DEF AssistantInserts
<1>6. CASE \E above \in BOOLEAN : _insert_cell_near(above, active_cell_id)
  BY <1>6, PutNear
<1>7. ASSUME NEW advance, _shortcut_run(advance) PROVE CellsInv' /\ AnswerByItsCell
  <2>1. CASE _insert_cell_near(FALSE, _active_cell)
    BY <2>1, PutNear
  <2>2. CASE UNCHANGED <<cells, made, on_tab, popups, cell_asks, deleted, overlapped>>
    BY <1>1, <2>2, ListsRest
  <2>3. QED BY <1>7, <2>1, <2>2 DEF _shortcut_run
<1>8. CASE _toggle_active_type \/ _menu_cancel
  BY <1>1, <1>8, ListsRest DEF _toggle_active_type, _menu_cancel
<1>9. ASSUME NEW c, NEW below, AskStarts(c, below) PROVE CellsInv' /\ AnswerByItsCell
  <2>1. UNCHANGED <<cells, made, on_tab, deleted>>
    BY <1>9 DEF AskStarts
  <2>2. CASE c \notin Here
    BY <1>1, <1>9, <2>1, <2>2, ListsRest DEF AskStarts
  <2>3. CASE c \in Here
    <3>1. PICK k \in Ask : cell_asks' = [cell_asks EXCEPT ![k] = [cell |-> c, tab |-> on_tab]]
      BY <1>9, <2>3 DEF AskStarts
    <3>2. [cell |-> c, tab |-> on_tab] \in [cell : 0 .. made, tab : Tab]
      BY <1>1, <1>2, <2>3
    <3>3. QED BY <1>1, <2>1, <3>1, <3>2, ListsRest
  <2>4. QED BY <2>2, <2>3
<1>10. CASE _menu_pick \/ \E c \in 1 .. made : _on_fix_error(c)
  BY <1>9, <1>10 DEF _menu_pick, _on_fix_error
<1>11. ASSUME NEW t \in Tab, SwitchTab(t) PROVE CellsInv' /\ AnswerByItsCell
  BY <1>11, ListsRest DEF SwitchTab, Shows
<1>12. ASSUME NEW c, _delete_cell(c) PROVE CellsInv' /\ AnswerByItsCell
  <2>1. c \in ToSet(cells[on_tab]) /\ deleted' = deleted \union {c} /\ UNCHANGED <<made, on_tab, cell_asks>>
        /\ cells' = [cells EXCEPT ![on_tab] = AtPlaces(cells[on_tab], {i \in DOMAIN cells[on_tab] : cells[on_tab][i] # c})]
    BY <1>12 DEF _delete_cell, Here, Publishes
  <2>2. CellsApart' /\ cells' \in [Tab -> Seq(1 .. made')] /\ deleted' \in SUBSET (1 .. made')
    BY <1>1, <2>1, CellTaken
  <2>3. CellsInv'
    BY <2>1, <2>2 DEF CellsInv, CellsTypes
  <2>4. QED BY <2>1, <2>3, NoAnswer
<1>13. ASSUME NEW c, NEW direction \in {1, -1}, _move_cell(c, direction) PROVE CellsInv' /\ AnswerByItsCell
  <2> DEFINE s == cells[on_tab]
             i == PlaceOf(c, s)
             k == i + direction
  <2>1. c \in Here /\ k \in 1 .. Len(s) /\ UNCHANGED <<made, on_tab, deleted, cell_asks>>
        /\ cells' = [cells EXCEPT ![on_tab] = [s EXCEPT ![i] = s[k], ![k] = s[i]]]
    BY <1>13 DEF _move_cell, Publishes
  <2>2. DOMAIN s = 1 .. Len(s)
    BY <1>1, LenProperties
  <2>3. i \in DOMAIN s
    <3>1. PICK j \in DOMAIN s : s[j] = c
      BY <2>1 DEF Here, ToSet
    <3>2. i = j
      BY <1>1, <3>1, PlaceFound
    <3>3. QED BY <3>2
  <2> HIDE DEF i, k
  <2>4. CellsApart' /\ cells' \in [Tab -> Seq(1 .. made')] /\ deleted' \in SUBSET (1 .. made')
    BY <1>1, <2>1, <2>2, <2>3, CellsSwapped
  <2>5. CellsInv'
    BY <2>1, <2>4 DEF CellsInv, CellsTypes
  <2>6. QED BY <2>1, <2>5, NoAnswer
<1>14. ASSUME NEW c \in 1 .. made, _on_cell_focus(c) \/ reveal_cell(c) \/ _show_cell_ai_menu(c)
       PROVE  CellsInv' /\ AnswerByItsCell
  BY <1>1, <1>14, ListsRest DEF _on_cell_focus, reveal_cell, _show_cell_ai_menu
<1>15. ASSUME NEW k \in Ask, AskFails(k) PROVE CellsInv' /\ AnswerByItsCell
  <2>1. UNCHANGED <<cells, made, on_tab, deleted>> /\ cell_asks' = [cell_asks EXCEPT ![k] = NoAsk]
    BY <1>15 DEF AskFails, Ends
  <2>2. NoAsk \in [cell : 0 .. made, tab : Tab]
    BY <1>1, CellListAssumption DEF NoAsk
  <2>3. QED BY <1>1, <2>1, <2>2, ListsRest
<1>16. ASSUME NEW k \in Ask, _cancel(k) PROVE CellsInv' /\ AnswerByItsCell
  BY <1>15, <1>16 DEF _cancel
<1>17. QED
  BY <1>3, <1>4, <1>5, <1>6, <1>7, <1>8, <1>10, <1>11, <1>12, <1>13, <1>14, <1>15, <1>16, AnswerPut DEF ListNext

\* An answer lands right below the cell it is about, in the notebook it was asked from,
\* and every cell is in one place of one notebook until the user deletes it, whatever
\* was moved, deleted or added meanwhile (_insert_ai_answer, _delete_cell, _move_cell).
THEOREM AnswersFindTheirCell == ListSpec => AnswersLandByTheirCell
<1>1. CellsInv /\ [ListNext]_listVars => CellsInv' /\ [AnswerByItsCell /\ EachInOnePlace']_listVars
  <2>1. CellsInv' => EachInOnePlace'
    BY ApartIsOnce, PTL
  <2>2. QED BY <2>1, CellsStep
<1>2. QED BY CellsInitially, <1>1, PTL DEF ListSpec, AnswersLandByTheirCell

---------------------------------------------------------------------------
(* Notebook *)

TabDict == [id : Id, pub : Nat, text : Nat]

NotebookShapes ==
  /\ early = None /\ screen \in {"off", "rendered", "on"}
  /\ tabs \in Seq(TabDict) /\ disk \in [Id -> Nat \union {None}]
  /\ edits \in Nat /\ tab_seq \in Nat

\* The index lists the tabs on screen, or those left; no id is in it twice, nor in
\* what a tool has read of it.
TabsListed ==
  /\ screen = "rendered" => tabs = <<>>
  /\ screen = "on" => Taken(active_tab_id)
  /\ picker # None => screen = "on" /\ picker \in TabDict /\ Taken(picker.id)
  /\ index # None => index \in Seq(Id) /\ Distinct(index)
  /\ stored # None => stored.ids \in Seq(Id) /\ Distinct(stored.ids) /\ stored.text \in Nat
  /\ screen = "on" \/ tabs # <<>> => index = Ids(tabs)

Kept(i) ==
  \/ File(tabs[i].id) = tabs[i].text
  \/ screen = "on" /\ (timer = tabs[i].id \/ tabs[i].id \in skipped)

Tidy == NotebookShapes /\ TabsListed /\ \A i \in DOMAIN tabs : Kept(i)

\* A clash of ids stays on record, and nothing is promised after it.
NotebookInv == clash \in BOOLEAN /\ (~clash => Tidy)

LEMMA TabsAreTold ==
  ASSUME Tidy
  PROVE  /\ DOMAIN tabs = 1 .. Len(tabs) /\ Len(tabs) \in Nat
         /\ \A i \in DOMAIN tabs : /\ tabs[i] \in TabDict /\ tabs[i].id \in Id /\ tabs[i].text \in Nat /\ tabs[i].pub \in Nat
                                   /\ Place(tabs, tabs[i].id) = i /\ _get_tab(tabs[i].id) = tabs[i]
                                   /\ Taken(tabs[i].id)
         /\ \A i, j \in DOMAIN tabs : tabs[i].id = tabs[j].id => i = j
<1>1. tabs \in Seq(TabDict)
  BY DEF Tidy, NotebookShapes
<1>2. DOMAIN tabs = 1 .. Len(tabs) /\ Len(tabs) \in Nat /\ \A i \in DOMAIN tabs : tabs[i] \in TabDict
  BY <1>1, LenProperties
<1>3. \A i \in DOMAIN tabs : tabs[i].id \in Id /\ tabs[i].text \in Nat /\ tabs[i].pub \in Nat
  BY <1>2 DEF TabDict
<1>4. ASSUME NEW i \in DOMAIN tabs, NEW j \in DOMAIN tabs, tabs[i].id = tabs[j].id PROVE i = j
  <2>1. tabs # <<>>
    BY <1>2, <1>4
  <2>2. index = Ids(tabs)
    BY <2>1 DEF Tidy, TabsListed
  <2>3. DOMAIN index = DOMAIN tabs /\ index[i] = tabs[i].id /\ index[j] = tabs[j].id
    BY <1>2, <2>2 DEF Ids
  <2>4. index # None => Distinct(index)
    BY DEF Tidy, TabsListed
  <2>5. index # None
    <3>1. index = [k \in 1 .. Len(tabs) |-> tabs[k].id]
      BY <2>2 DEF Ids
    <3>2. index \in [1 .. Len(tabs) -> Id]
      BY <1>2, <1>3, <3>1
    <3>3. index \in Seq(Id)
      BY <1>2, <3>2
    <3>4. QED BY <3>3, NothingAssumption
  <2>6. QED BY <1>4, <2>3, <2>4, <2>5 DEF Distinct
<1>5. ASSUME NEW i \in DOMAIN tabs PROVE Place(tabs, tabs[i].id) = i
  <2>1. \A k \in 1 .. Len(tabs) : tabs[k].id = tabs[i].id => k = i
    BY <1>2, <1>4
  <2>2. \A j \in 1 .. i - 1 : j \in 1 .. Len(tabs) /\ j # i
    BY <1>2
  <2>3. i \in 1 .. Len(tabs) /\ tabs[i].id = tabs[i].id /\ \A j \in 1 .. i - 1 : tabs[j].id # tabs[i].id
    BY <1>2, <2>1, <2>2
  <2>4. QED BY <2>1, <2>3 DEF Place
<1>6. QED BY <1>2, <1>3, <1>4, <1>5 DEF _get_tab, Taken

\* A document is written.
Written(id, text) ==
  /\ disk' \in [Id -> Nat \union {None}] /\ File(id)' = text
  /\ \A x \in Id : x # id => File(x)' = File(x)

LEMMA WhatIsWritten ==
  ASSUME Tidy, NEW id \in Id, NEW text \in Nat, disk' = [disk EXCEPT ![id] = text] PROVE Written(id, text)
<1>1. disk \in [Id -> Nat \union {None}]
  BY DEF Tidy, NotebookShapes
<1>2. disk' \in [Id -> Nat \union {None}] /\ disk'[id] = text /\ \A x \in Id : x # id => disk'[x] = disk[x]
  BY <1>1
<1>3. text # None
  BY NothingAssumption
<1>4. File(id)' = text
  BY <1>2, <1>3 DEF File
<1>5. \A x \in Id : x # id => File(x)' = File(x)
  BY <1>2 DEF File
<1>6. QED BY <1>2, <1>4, <1>5 DEF Written

\* Where the tabs keep their ids and the screen stays.
SameTabs == tabs' \in Seq(TabDict) /\ DOMAIN tabs' = DOMAIN tabs /\ \A i \in DOMAIN tabs : tabs'[i].id = tabs[i].id

LEMMA TidyStays ==
  ASSUME Tidy, SameTabs, UNCHANGED <<early, screen, index, tab_seq>>, edits' \in Nat,
         disk' \in [Id -> Nat \union {None}],
         screen = "on" => Taken(active_tab_id'),
         picker' # None => screen = "on" /\ picker' \in TabDict /\ Taken(picker'.id),
         stored' # None => stored'.ids \in Seq(Id) /\ Distinct(stored'.ids) /\ stored'.text \in Nat,
         \A i \in DOMAIN tabs : Kept(i)'
  PROVE  Tidy'
<1>1. Len(tabs') = Len(tabs) /\ Len(tabs) \in Nat /\ DOMAIN tabs = 1 .. Len(tabs)
  BY LenProperties DEF SameTabs, Tidy, NotebookShapes
<1>2. Ids(tabs') = Ids(tabs)
  BY <1>1 DEF SameTabs, Ids
<1>3. \A x : Taken(x)' <=> Taken(x)
  BY <1>1 DEF SameTabs, Taken
<1>4. tabs = <<>> <=> tabs' = <<>>
  <2>1. tabs' \in Seq(TabDict) /\ tabs \in Seq(TabDict)
    BY DEF SameTabs, Tidy, NotebookShapes
  <2>2. QED BY <1>1, <2>1, EmptySeq
<1>5. NotebookShapes'
  BY DEF Tidy, NotebookShapes, SameTabs
<1>6. TabsListed'
  BY <1>2, <1>3, <1>4 DEF Tidy, TabsListed
<1>7. QED BY <1>5, <1>6 DEF Tidy, SameTabs

LEMMA TabOnScreen ==
  ASSUME Tidy, NEW id, Taken(id)
  PROVE  \E i \in DOMAIN tabs : tabs[i].id = id /\ Place(tabs, id) = i /\ _get_tab(id) = tabs[i]
<1>1. PICK i \in DOMAIN tabs : tabs[i].id = id
  BY TabsAreTold DEF Taken
<1>2. Place(tabs, tabs[i].id) = i /\ _get_tab(tabs[i].id) = tabs[i]
  BY TabsAreTold
<1>3. Place(tabs, id) = i /\ _get_tab(id) = tabs[i]
  BY <1>1, <1>2, Zenon
<1>4. QED BY <1>1, <1>3

\* A tab's document is saved; the screen may then show another one.
LEMMA OneIsSaved ==
  ASSUME Tidy, screen = "on", NEW id, Taken(id), Saved(id, _get_tab(id).text), Taken(active_tab_id'),
         timer' \in {None, id, timer}, timer \in {id, timer'},
         UNCHANGED <<tabs, early, screen, index, tab_seq, edits, picker, stored>>
  PROVE  Tidy'
<1>1. PICK k \in DOMAIN tabs : tabs[k].id = id /\ _get_tab(id) = tabs[k]
  BY TabOnScreen
<1>2. id \in Id /\ tabs[k].text \in Nat
  BY <1>1, TabsAreTold
<1>3. Written(id, tabs[k].text) /\ skipped' = skipped \ {id}
  BY <1>1, <1>2, WhatIsWritten DEF Saved
<1>4. ASSUME NEW i \in DOMAIN tabs PROVE Kept(i)'
  <2>1. CASE i = k
    BY <1>1, <1>3, <2>1 DEF Written, Kept
  <2>2. CASE i # k
    <3>1. tabs[i].id \in Id /\ tabs[i].id # id
      BY <1>1, <2>2, TabsAreTold
    <3>2. File(tabs[i].id)' = File(tabs[i].id)
      BY <1>3, <3>1 DEF Written
    <3>3. Kept(i)
      BY DEF Tidy
    <3>4. timer = tabs[i].id => timer' = tabs[i].id
      BY <3>1
    <3>5. tabs[i].id \in skipped => tabs[i].id \in skipped'
      BY <1>3, <3>1
    <3>6. QED BY <3>2, <3>3, <3>4, <3>5 DEF Kept
  <2>3. QED BY <2>1, <2>2
<1>5. SameTabs
  BY DEF SameTabs, Tidy, NotebookShapes
<1>6. QED BY <1>3, <1>4, <1>5, TidyStays DEF Written, Tidy, NotebookShapes, TabsListed

LEMMA TabsRest ==
  ASSUME Tidy,
         \/ \E id \in Id : _switch_tab(id)
         \/ _debounced_save \/ PickFile \/ PickNothing \/ _stored_tabs
  PROVE  Tidy'
<1>1. ASSUME NEW id \in Id, _switch_tab(id) PROVE Tidy'
  <2>1. /\ screen = "on" /\ Taken(id) /\ active_tab_id' = id /\ Saved(active_tab_id, _get_tab(active_tab_id).text)
        /\ UNCHANGED <<tabs, early, screen, index, tab_seq, edits, picker, stored, timer>>
    BY <1>1 DEF _switch_tab
  <2>2. Taken(active_tab_id) /\ Taken(active_tab_id')
    BY <2>1 DEF Tidy, TabsListed
  <2>3. QED BY <2>1, <2>2, OneIsSaved
<1>2. CASE _debounced_save
  <2>1. /\ screen = "on" /\ timer' = None /\ active_tab_id' = active_tab_id
        /\ UNCHANGED <<tabs, early, screen, index, tab_seq, edits, picker, stored>>
    BY <1>2 DEF _debounced_save
  <2>2. Taken(active_tab_id)
    BY <2>1 DEF Tidy, TabsListed
  <2>3. CASE Taken(timer)
    <3>1. Saved(timer, _get_tab(timer).text)
      BY <1>2, <2>3 DEF _debounced_save
    <3>2. QED BY <2>1, <2>2, <2>3, <3>1, OneIsSaved
  <2>4. CASE ~Taken(timer)
    <3>1. UNCHANGED <<disk, skipped>>
      BY <1>2, <2>4 DEF _debounced_save
    <3>2. ASSUME NEW i \in DOMAIN tabs PROVE Kept(i)'
      <4>1. Kept(i) /\ timer # tabs[i].id
        BY <2>4, TabsAreTold DEF Tidy
      <4>2. File(tabs[i].id)' = File(tabs[i].id)
        BY <2>1, <3>1 DEF File
      <4>3. QED BY <2>1, <3>1, <4>1, <4>2 DEF Kept
    <3>3. SameTabs
      BY <2>1 DEF SameTabs, Tidy, NotebookShapes
    <3>4. QED BY <2>1, <2>2, <3>1, <3>2, <3>3, TidyStays DEF Tidy, NotebookShapes, TabsListed
  <2>5. QED BY <2>3, <2>4
<1>3. CASE PickFile \/ PickNothing \/ _stored_tabs
  <2>1. /\ UNCHANGED <<tabs, disk, timer, skipped, early, screen, index, tab_seq, active_tab_id>>
        /\ edits' \in {edits, edits + 1}
    BY <1>3 DEF PickFile, PickNothing, _stored_tabs, Edited, files
  <2>2. ASSUME NEW i \in DOMAIN tabs PROVE Kept(i)'
    BY <2>1 DEF Tidy, Kept, File
  <2>3. SameTabs
    BY <2>1 DEF SameTabs, Tidy, NotebookShapes
  <2>4. picker' # None => screen = "on" /\ picker' \in TabDict /\ Taken(picker'.id)
    <3>1. CASE PickFile
      <4>1. screen = "on" /\ Taken(active_tab_id) /\ picker' = _get_tab(active_tab_id)
        BY <3>1 DEF PickFile, Tidy, TabsListed
      <4>2. PICK i \in DOMAIN tabs : _get_tab(active_tab_id) = tabs[i]
        BY <4>1, TabOnScreen
      <4>3. QED BY <4>1, <4>2, TabsAreTold
    <3>2. CASE PickNothing \/ _stored_tabs
      BY <3>2 DEF PickNothing, _stored_tabs, Tidy, TabsListed
    <3>3. QED BY <1>3, <3>1, <3>2
  <2>5. stored' # None => stored'.ids \in Seq(Id) /\ Distinct(stored'.ids) /\ stored'.text \in Nat
    <3>1. CASE _stored_tabs
      <4>1. stored' = [ids |-> IF index = None THEN <<>> ELSE index, text |-> edits'] /\ edits' = edits + 1
        BY <3>1 DEF _stored_tabs, Edited
      <4>2. <<>> \in Seq(Id) /\ Distinct(<<>>)
        BY DEF Distinct
      <4>3. index # None => index \in Seq(Id) /\ Distinct(index)
        BY DEF Tidy, TabsListed
      <4>4. edits + 1 \in Nat
        BY DEF Tidy, NotebookShapes
      <4>5. QED BY <4>1, <4>2, <4>3, <4>4
    <3>2. CASE PickFile \/ PickNothing
      BY <3>2 DEF PickFile, PickNothing, Tidy, TabsListed
    <3>3. QED BY <1>3, <3>1, <3>2
  <2>6. edits' \in Nat /\ disk' \in [Id -> Nat \union {None}] /\ (screen = "on" => Taken(active_tab_id'))
    BY <2>1 DEF Tidy, NotebookShapes, TabsListed
  <2>7. QED BY <2>1, <2>2, <2>3, <2>4, <2>5, <2>6, TidyStays
<1>4. QED BY <1>1, <1>2, <1>3

\* One tab's dict changes or is replaced.
Swapped(k, v) == tabs' = [tabs EXCEPT ![k] = v]

LEMMA OneChanges ==
  ASSUME Tidy, screen = "on", NEW k \in DOMAIN tabs, NEW v \in TabDict, v.id = tabs[k].id, Swapped(k, v),
         edits' \in Nat, disk' \in [Id -> Nat \union {None}], picker' \in {None, picker},
         UNCHANGED <<early, screen, index, tab_seq, active_tab_id, stored>>,
         File(v.id)' = v.text \/ timer' = v.id \/ v.id \in skipped',
         \A x \in Id : x # v.id => File(x)' = File(x),
         \A i \in DOMAIN tabs : i # k /\ (timer = tabs[i].id \/ tabs[i].id \in skipped) =>
           File(tabs[i].id) = tabs[i].text \/ timer' = tabs[i].id \/ tabs[i].id \in skipped'
  PROVE  Tidy'
<1>1. tabs \in Seq(TabDict)
  BY DEF Tidy, NotebookShapes
<1>2. tabs' \in Seq(TabDict) /\ DOMAIN tabs' = DOMAIN tabs /\ tabs'[k] = v /\ \A i \in DOMAIN tabs : i # k => tabs'[i] = tabs[i]
  BY <1>1 DEF Swapped
<1>3. SameTabs
  BY <1>2 DEF SameTabs
<1>4. ASSUME NEW i \in DOMAIN tabs PROVE Kept(i)'
  <2>1. CASE i = k
    BY <1>2, <2>1 DEF Kept
  <2>2. CASE i # k
    <3>1. tabs'[i] = tabs[i] /\ Kept(i)
      BY <1>2, <2>2 DEF Tidy
    <3>2. PICK x : x = tabs[i].id
      OBVIOUS
    <3>3. x \in Id /\ x # v.id
      BY <2>2, <3>2, TabsAreTold
    <3>4. File(x)' = File(x) /\ (timer = x \/ x \in skipped => File(x) = tabs[i].text \/ timer' = x \/ x \in skipped')
      BY <2>2, <3>2, <3>3
    <3>5. File(x) = tabs[i].text \/ timer = x \/ x \in skipped
      BY <3>1, <3>2 DEF Kept
    <3>6. File(x)' = tabs'[i].text \/ timer' = tabs'[i].id \/ tabs'[i].id \in skipped'
      BY <3>1, <3>2, <3>4, <3>5
    <3>7. QED BY <3>1, <3>2, <3>6 DEF Kept
  <2>3. QED BY <2>1, <2>2
<1>5. QED BY <1>3, <1>4, TidyStays DEF Tidy, TabsListed

\* A change is made in place, and the timer starts again.
LEMMA TypedIn ==
  ASSUME Tidy, screen = "on", NEW id, Taken(id), tabs' = [tabs EXCEPT ![Place(tabs, id)].text = edits'],
         edits' = edits + 1, Restarted(id), picker' \in {None, picker},
         UNCHANGED <<early, screen, files, tab_seq, active_tab_id, stored>>
  PROVE  Tidy'
<1>1. PICK k \in DOMAIN tabs : tabs[k].id = id /\ Place(tabs, id) = k
  BY TabOnScreen
<1>2. edits' \in Nat /\ disk' \in [Id -> Nat \union {None}] /\ UNCHANGED <<disk, index>>
  BY DEF files, Tidy, NotebookShapes
<1>3. tabs[k] \in TabDict /\ id \in Id
  BY <1>1, TabsAreTold
<1>4. PICK v : v = [tabs[k] EXCEPT !.text = edits']
  OBVIOUS
<1>5. v \in TabDict /\ v.id = id
  BY <1>1, <1>2, <1>3, <1>4 DEF TabDict
<1>6. Swapped(k, v)
  BY <1>1, <1>4 DEF Swapped
<1>7. timer' = id /\ skipped' = skipped \union {t \in {timer} \ {None, id} : Taken(t) /\ File(t) # _get_tab(t).text}
  BY DEF Restarted
<1>8. \A x \in Id : File(x)' = File(x)
  BY <1>2 DEF File
<1>9. ASSUME NEW i \in DOMAIN tabs, i # k, timer = tabs[i].id \/ tabs[i].id \in skipped
      PROVE  File(tabs[i].id) = tabs[i].text \/ timer' = tabs[i].id \/ tabs[i].id \in skipped'
  <2>1. tabs[i].id \in Id /\ tabs[i].id # id /\ tabs[i].id # None /\ Taken(tabs[i].id) /\ _get_tab(tabs[i].id) = tabs[i]
    BY <1>1, <1>9, TabsAreTold, NothingAssumption
  <2>2. QED BY <1>7, <1>9, <2>1
<1>10. File(v.id)' = v.text \/ timer' = v.id \/ v.id \in skipped'
  BY <1>5, <1>7
<1>11. \A i \in DOMAIN tabs : i # k /\ (timer = tabs[i].id \/ tabs[i].id \in skipped) =>
         File(tabs[i].id) = tabs[i].text \/ timer' = tabs[i].id \/ tabs[i].id \in skipped'
  BY <1>9
<1>12. v.id = tabs[k].id /\ \A x \in Id : x # v.id => File(x)' = File(x)
  BY <1>1, <1>5, <1>8
<1>13. UNCHANGED <<early, screen, index, tab_seq, active_tab_id, stored>>
  BY <1>2
<1>14. QED BY <1>2, <1>5, <1>6, <1>10, <1>11, <1>12, <1>13, OneChanges

\* A dict is published for a tab and its document saved.
LEMMA PutIn ==
  ASSUME Tidy, screen = "on", NEW id, Taken(id), tabs' = [tabs EXCEPT ![Place(tabs, id)] = NewTab(@.id, edits')],
         edits' = edits + 1, Saved(id, edits'), picker' \in {None, picker},
         UNCHANGED <<early, screen, index, tab_seq, active_tab_id, stored, timer>>
  PROVE  Tidy'
<1>1. PICK k \in DOMAIN tabs : tabs[k].id = id /\ Place(tabs, id) = k
  BY TabOnScreen
<1>2. edits' \in Nat
  BY DEF Tidy, NotebookShapes
<1>3. tabs[k] \in TabDict /\ id \in Id
  BY <1>1, TabsAreTold
<1>4. PICK v : v = NewTab(tabs[k].id, edits')
  OBVIOUS
<1>5. v \in TabDict /\ v.id = id /\ v.text = edits'
  BY <1>1, <1>2, <1>3, <1>4 DEF TabDict, NewTab
<1>6. Swapped(k, v)
  BY <1>1, <1>4 DEF Swapped
<1>7. Written(id, edits') /\ skipped' = skipped \ {id}
  BY <1>2, <1>3, WhatIsWritten DEF Saved
<1>8. ASSUME NEW i \in DOMAIN tabs, i # k, timer = tabs[i].id \/ tabs[i].id \in skipped
      PROVE  timer' = tabs[i].id \/ tabs[i].id \in skipped'
  <2>1. tabs[i].id # id
    BY <1>1, <1>8, TabsAreTold
  <2>2. QED BY <1>7, <1>8, <2>1
<1>9. File(v.id)' = v.text /\ disk' \in [Id -> Nat \union {None}] /\ \A x \in Id : x # v.id => File(x)' = File(x)
  BY <1>5, <1>7 DEF Written
<1>10. QED BY <1>1, <1>2, <1>5, <1>6, <1>8, <1>9, OneChanges

LEMMA TabsChange ==
  ASSUME Tidy, Type \/ _insert_cells \/ _import_ipynb \/ _import_script PROVE Tidy'
<1>1. CASE Type
  <2>1. screen = "on" /\ Taken(active_tab_id)
    BY <1>1 DEF Type, Tidy, TabsListed
  <2>2. QED BY <1>1, <2>1, TypedIn DEF Type, Edited
<1>2. CASE _import_script
  <2>1. screen = "on" /\ Taken(picker.id)
    BY <1>2 DEF _import_script, Tidy, TabsListed
  <2>2. QED BY <1>2, <2>1, TypedIn DEF _import_script, Edited
<1>3. CASE _insert_cells
  <2>1. screen = "on" /\ Taken(active_tab_id)
    BY <1>3 DEF _insert_cells, Tidy, TabsListed
  <2>2. QED BY <1>3, <2>1, PutIn DEF _insert_cells, Edited
<1>4. CASE _import_ipynb
  <2> DEFINE current == tabs[Place(tabs, picker.id)].pub = picker.pub
  <2>1. screen = "on" /\ Taken(picker.id) /\ edits' = edits + 1 /\ picker' = None /\ disk' = [disk EXCEPT ![picker.id] = edits']
        /\ UNCHANGED <<early, screen, index, tab_seq, active_tab_id, stored, timer>>
    BY <1>4 DEF _import_ipynb, Edited, Tidy, TabsListed
  <2>2. CASE current
    <3>1. tabs' = [tabs EXCEPT ![Place(tabs, picker.id)] = NewTab(@.id, edits')] /\ skipped' = skipped \ {picker.id}
      BY <1>4, <2>2 DEF _import_ipynb
    <3>2. QED BY <2>1, <3>1, PutIn DEF Saved
  <2>3. CASE ~current
    <3>1. tabs' = tabs /\ skipped' = skipped \union {picker.id}
      BY <1>4, <2>3 DEF _import_ipynb
    <3>2. PICK k \in DOMAIN tabs : tabs[k].id = picker.id
      BY <2>1, TabOnScreen
    <3>3. picker.id \in Id /\ edits' \in Nat
      BY <2>1, <3>2, TabsAreTold DEF Tidy, NotebookShapes
    <3>4. Written(picker.id, edits')
      BY <2>1, <3>3, WhatIsWritten
    <3>5. ASSUME NEW i \in DOMAIN tabs PROVE Kept(i)'
      <4>1. CASE tabs[i].id = picker.id
        BY <2>1, <3>1, <4>1 DEF Kept
      <4>2. CASE tabs[i].id # picker.id
        <5>1. PICK x \in Id : x = tabs[i].id
          BY TabsAreTold
        <5>2. File(x)' = File(x) /\ (x \in skipped => x \in skipped')
          BY <3>1, <3>4, <4>2, <5>1 DEF Written
        <5>3. File(x) = tabs[i].text \/ timer = x \/ x \in skipped
          BY <5>1 DEF Kept, Tidy
        <5>4. File(x)' = tabs'[i].text \/ timer' = tabs'[i].id \/ tabs'[i].id \in skipped'
          BY <2>1, <3>1, <5>1, <5>2, <5>3
        <5>5. QED BY <2>1, <3>1, <5>1, <5>4 DEF Kept
      <4>3. QED BY <4>1, <4>2
    <3>6. SameTabs
      BY <3>1 DEF SameTabs, Tidy, NotebookShapes
    <3>7. QED BY <2>1, <3>3, <3>4, <3>5, <3>6, TidyStays DEF Written, Tidy, TabsListed
  <2>4. QED BY <2>2, <2>3
<1>5. QED BY <1>1, <1>2, <1>3, <1>4

\* Where the screen and the index are made anew.
LEMMA TidyComes ==
  ASSUME NotebookShapes', \A i, j \in DOMAIN tabs' : tabs'[i].id = tabs'[j].id => i = j,
         index' = Ids(tabs'), screen' = "rendered" => tabs' = <<>>,
         screen' = "on" => \E i \in DOMAIN tabs' : tabs'[i].id = active_tab_id',
         picker' # None => screen' = "on" /\ picker' \in TabDict /\ \E i \in DOMAIN tabs' : tabs'[i].id = picker'.id,
         stored' # None => stored'.ids \in Seq(Id) /\ Distinct(stored'.ids) /\ stored'.text \in Nat,
         \A i \in DOMAIN tabs' : Kept(i)'
  PROVE  Tidy'
<1>1. tabs' \in Seq(TabDict)
  BY DEF NotebookShapes
<1>2. DOMAIN tabs' = 1 .. Len(tabs') /\ Len(tabs') \in Nat /\ \A i \in DOMAIN tabs' : tabs'[i] \in TabDict
  BY <1>1, LenProperties
<1>3. \A x : Taken(x)' <=> \E i \in DOMAIN tabs' : tabs'[i].id = x
  BY <1>2 DEF Taken
<1>4. index' \in Seq(Id) /\ Distinct(index')
  <2>1. index' = [k \in 1 .. Len(tabs') |-> tabs'[k].id]
    BY DEF Ids
  <2>2. \A k \in 1 .. Len(tabs') : tabs'[k].id \in Id
    BY <1>2 DEF TabDict
  <2>3. index' \in [1 .. Len(tabs') -> Id]
    BY <2>1, <2>2
  <2>4. index' \in Seq(Id)
    BY <1>2, <2>3
  <2>5. DOMAIN index' = DOMAIN tabs' /\ \A i \in DOMAIN tabs' : index'[i] = tabs'[i].id
    BY <1>2, <2>1
  <2>6. QED BY <2>4, <2>5 DEF Distinct
<1>5. TabsListed'
  BY <1>3, <1>4 DEF TabsListed
<1>6. QED BY <1>5 DEF Tidy

\* A new tab is shown, with an id that no other has.
LEMMA OneOpens ==
  ASSUME Tidy, screen = "on", NEW kind \in {"nb", "py"}, NEW text \in Nat, Opened(kind, text), ~clash',
         edits' \in Nat, UNCHANGED <<early, screen, timer, picker, stored>>
  PROVE  Tidy'
<1>1. PICK id : id = [kind |-> kind, n |-> tab_seq + 1]
  OBVIOUS
<1>2. /\ tab_seq < MaxSeq /\ tab_seq' = tab_seq + 1 /\ tabs' = Append(tabs, NewTab(id, text)) /\ active_tab_id' = id
      /\ index' = Ids(tabs') /\ disk' = [disk EXCEPT ![id] = text] /\ ~Taken(id) /\ skipped' = skipped \ {id}
  BY <1>1 DEF Opened
<1>3. tab_seq \in Nat /\ tab_seq + 1 \in 1 .. MaxSeq /\ tab_seq' \in Nat
  BY <1>2, NotebookAssumption DEF Tidy, NotebookShapes
<1>4. id \in Id
  BY <1>1, <1>3 DEF Id
<1>5. PICK v : v = NewTab(id, text)
  OBVIOUS
<1>6. v \in TabDict /\ v.id = id /\ v.text = text
  BY <1>4, <1>5 DEF NewTab, TabDict
<1>7. tabs \in Seq(TabDict) /\ DOMAIN tabs = 1 .. Len(tabs) /\ Len(tabs) \in Nat
  BY TabsAreTold DEF Tidy, NotebookShapes
<1> DEFINE l == Len(tabs) + 1
<1>8. /\ tabs' \in Seq(TabDict) /\ Len(tabs') = l /\ DOMAIN tabs' = 1 .. l /\ tabs'[l] = v
      /\ \A i \in DOMAIN tabs : i \in DOMAIN tabs' /\ tabs'[i] = tabs[i]
  BY <1>2, <1>5, <1>6, <1>7, AppendProperties
<1>9. ASSUME NEW i \in DOMAIN tabs' PROVE i = l \/ i \in DOMAIN tabs
  BY <1>7, <1>8
<1>10. l \in DOMAIN tabs' /\ l \notin DOMAIN tabs
  BY <1>7, <1>8
<1>11. \A i \in DOMAIN tabs : tabs[i].id # id /\ tabs[i].id \in Id
  BY <1>2, TabsAreTold
<1> HIDE DEF l
<1>12. Written(id, text)
  BY <1>2, <1>4, WhatIsWritten
<1>13. NotebookShapes'
  BY <1>3, <1>8, <1>12 DEF Written, Tidy, NotebookShapes
<1>14. \A i, j \in DOMAIN tabs' : tabs'[i].id = tabs'[j].id => i = j
  BY <1>6, <1>8, <1>9, <1>11, TabsAreTold
<1>15. \E i \in DOMAIN tabs' : tabs'[i].id = active_tab_id'
  BY <1>2, <1>6, <1>8, <1>10
<1>16. picker' # None => screen' = "on" /\ picker' \in TabDict /\ \E i \in DOMAIN tabs' : tabs'[i].id = picker'.id
  BY <1>7, <1>8 DEF Tidy, TabsListed, Taken
<1>17. ASSUME NEW i \in DOMAIN tabs' PROVE Kept(i)'
  <2>1. CASE i = l
    BY <1>6, <1>8, <1>12, <2>1 DEF Written, Kept
  <2>2. CASE i \in DOMAIN tabs
    <3>1. tabs'[i] = tabs[i] /\ Kept(i)
      BY <1>8, <2>2 DEF Tidy
    <3>2. PICK x : x = tabs[i].id
      OBVIOUS
    <3>3. x \in Id /\ x # id
      BY <1>11, <2>2, <3>2
    <3>4. File(x)' = File(x) /\ (x \in skipped => x \in skipped')
      BY <1>2, <1>12, <3>3 DEF Written
    <3>5. File(x) = tabs[i].text \/ timer = x \/ x \in skipped
      BY <3>1, <3>2 DEF Kept
    <3>6. File(x)' = tabs'[i].text \/ timer' = tabs'[i].id \/ tabs'[i].id \in skipped'
      BY <3>1, <3>2, <3>4, <3>5
    <3>7. QED BY <3>1, <3>2, <3>6 DEF Kept
  <2>3. QED BY <1>9, <2>1, <2>2
<1>18. stored' # None => stored'.ids \in Seq(Id) /\ Distinct(stored'.ids) /\ stored'.text \in Nat
  BY DEF Tidy, TabsListed
<1>19. index' = Ids(tabs') /\ screen' # "rendered"
  BY <1>2
<1>20. QED BY <1>13, <1>14, <1>15, <1>16, <1>17, <1>18, <1>19, TidyComes

LEMMA TabsOpen ==
  ASSUME Tidy, ~clash', (\E kind \in {"nb", "py"} : _create_tab(kind)) \/ write_cells_to_active_tab PROVE Tidy'
<1>1. edits \in Nat
  BY DEF Tidy, NotebookShapes
<1>2. ASSUME NEW kind \in {"nb", "py"}, _create_tab(kind) PROVE Tidy'
  BY <1>1, <1>2, OneOpens DEF _create_tab
<1>3. CASE write_cells_to_active_tab
  <2>1. screen = "on" /\ edits' = edits + 1 /\ Opened("nb", edits') /\ UNCHANGED <<early, screen, timer, picker, stored>>
    BY <1>3 DEF write_cells_to_active_tab, Edited
  <2>2. edits' \in Nat
    BY <1>1, <2>1
  <2>3. QED BY <2>1, <2>2, OneOpens
<1>4. QED BY <1>2, <1>3

\* The tabs but one.
OtherTabs(id) == AtPlaces(tabs, {i \in DOMAIN tabs : tabs[i].id # id})

LEMMA TheOthers ==
  ASSUME Tidy, NEW id
  PROVE  LET rest == OtherTabs(id) IN
         /\ rest \in Seq(TabDict) /\ DOMAIN rest = 1 .. Len(rest) /\ Len(rest) \in Nat
         /\ \A j \in DOMAIN rest : rest[j].id # id /\ \E i \in DOMAIN tabs : rest[j] = tabs[i]
         /\ \A i \in DOMAIN tabs : tabs[i].id # id => \E j \in DOMAIN rest : rest[j] = tabs[i]
         /\ \A j, l \in DOMAIN rest : rest[j].id = rest[l].id => j = l
<1> DEFINE K == {i \in DOMAIN tabs : tabs[i].id # id}
           rest == AtPlaces(tabs, K)
<1>1. tabs \in Seq(TabDict) /\ K \in SUBSET DOMAIN tabs /\ \A i \in K : i \in DOMAIN tabs /\ tabs[i].id # id
  BY DEF Tidy, NotebookShapes
<1>2. \A i \in DOMAIN tabs : tabs[i].id # id => i \in K
  OBVIOUS
<1> HIDE DEF K
<1>3. rest \in Seq(TabDict) /\ Picks(rest, tabs, K)
  BY <1>1, PlacesPicked
<1> HIDE DEF rest
<1>4. DOMAIN rest = 1 .. Len(rest) /\ Len(rest) \in Nat
  BY <1>3, LenProperties
<1>5. \A j \in DOMAIN rest : rest[j].id # id /\ \E i \in DOMAIN tabs : rest[j] = tabs[i]
  BY <1>1, <1>3 DEF Picks
<1>6. \A i \in DOMAIN tabs : tabs[i].id # id => \E j \in DOMAIN rest : rest[j] = tabs[i]
  BY <1>2, <1>3 DEF Picks
<1>7. ASSUME NEW j \in DOMAIN rest, NEW l \in DOMAIN rest, rest[j].id = rest[l].id, j # l PROVE FALSE
  <2>1. PICK i \in K, k \in K : i # k /\ rest[j] = tabs[i] /\ rest[l] = tabs[k]
    BY <1>1, <1>3, <1>7, PickedOnce
  <2>2. i \in DOMAIN tabs /\ k \in DOMAIN tabs /\ tabs[i].id = tabs[k].id
    BY <1>1, <1>7, <2>1
  <2>3. QED BY <2>1, <2>2, TabsAreTold
<1>8. QED BY <1>3, <1>4, <1>5, <1>6, <1>7 DEF rest, K, OtherTabs

LEMMA TabsClose ==
  ASSUME Tidy, NEW id \in Id, _close_tab(id) PROVE Tidy'
<1> DEFINE rest == OtherTabs(id)
           first == [kind |-> "nb", n |-> 1]
           new == NewTab(first, 0)
           gone == [disk EXCEPT ![id] = None]
<1>1. /\ rest \in Seq(TabDict) /\ DOMAIN rest = 1 .. Len(rest) /\ Len(rest) \in Nat
      /\ \A j \in DOMAIN rest : rest[j].id # id /\ \E i \in DOMAIN tabs : rest[j] = tabs[i]
      /\ \A i \in DOMAIN tabs : tabs[i].id # id => \E j \in DOMAIN rest : rest[j] = tabs[i]
      /\ \A j, l \in DOMAIN rest : rest[j].id = rest[l].id => j = l
  BY TheOthers
<1>2. first \in Id /\ new \in TabDict /\ new.id = first /\ new.text = 0
  BY NotebookAssumption DEF Id, TabDict, NewTab
<1>3. disk \in [Id -> Nat \union {None}]
  BY DEF Tidy, NotebookShapes
<1>4. gone \in [Id -> Nat \union {None}] /\ \A x \in Id : x # id => gone[x] = disk[x]
  BY <1>3
<1>5. /\ screen = "on" /\ picker = None /\ Taken(id)
      /\ UNCHANGED <<stored, screen, timer, picker, early, edits, clash>>
      /\ active_tab_id' = IF active_tab_id # id THEN active_tab_id ELSE tabs'[Len(tabs')].id
      /\ tabs' = (IF rest = <<>> THEN <<new>> ELSE rest) /\ index' = Ids(tabs')
      /\ tab_seq' \in {tab_seq, tab_seq + 1}
      /\ rest = <<>> => disk' = [gone EXCEPT ![first] = 0]
      /\ rest # <<>> => disk' = gone
      /\ skipped' = skipped \ IF rest = <<>> THEN {id, first} ELSE {id}
  BY DEF _close_tab, OtherTabs
<1> HIDE DEF rest, first, new, gone
<1>6. stored' # None => stored'.ids \in Seq(Id) /\ Distinct(stored'.ids) /\ stored'.text \in Nat
  BY <1>5 DEF Tidy, TabsListed
<1>7. tab_seq' \in Nat /\ early' = None /\ edits' \in Nat
  BY <1>5 DEF Tidy, NotebookShapes
<1>8. CASE rest = <<>>
  <2>1. tabs' = <<new>> /\ tabs' \in Seq(TabDict) /\ DOMAIN tabs' = {1} /\ tabs'[1] = new /\ Len(tabs') = 1
    BY <1>2, <1>5, <1>8
  <2>2. disk' \in [Id -> Nat \union {None}] /\ disk'[first] = 0
    BY <1>2, <1>4, <1>5, <1>8
  <2>3. active_tab_id' = first
    <3>1. Taken(active_tab_id)
      BY <1>5 DEF Tidy, TabsListed
    <3>2. PICK i \in DOMAIN tabs : tabs[i].id = active_tab_id
      BY <3>1, TabsAreTold DEF Taken
    <3>3. DOMAIN rest = {}
      BY <1>8
    <3>4. active_tab_id = id
      BY <1>1, <3>2, <3>3
    <3>5. QED BY <1>2, <1>5, <2>1, <3>4
  <2>4. \A i \in DOMAIN tabs' : Kept(i)'
    BY <1>2, <2>1, <2>2, NothingAssumption DEF Kept, File
  <2>5. NotebookShapes'
    BY <1>5, <1>7, <2>1, <2>2 DEF NotebookShapes
  <2>6. \E i \in DOMAIN tabs' : tabs'[i].id = active_tab_id'
    BY <1>2, <2>1, <2>3
  <2>7. QED BY <1>5, <1>6, <2>1, <2>4, <2>5, <2>6, TidyComes
<1>9. CASE rest # <<>>
  <2>1. tabs' = rest /\ disk' = gone /\ skipped' = skipped \ {id}
    BY <1>5, <1>9
  <2>2. Len(rest) \in DOMAIN rest
    BY <1>1, <1>9, EmptySeq
  <2>3. \E i \in DOMAIN tabs' : tabs'[i].id = active_tab_id'
    <3>1. CASE active_tab_id = id
      BY <1>5, <2>1, <2>2, <3>1
    <3>2. CASE active_tab_id # id
      <4>1. Taken(active_tab_id)
        BY <1>5 DEF Tidy, TabsListed
      <4>2. PICK i \in DOMAIN tabs : tabs[i].id = active_tab_id
        BY <4>1, TabsAreTold DEF Taken
      <4>3. QED BY <1>1, <1>5, <2>1, <3>2, <4>2
    <3>3. QED BY <3>1, <3>2
  <2>4. ASSUME NEW j \in DOMAIN tabs' PROVE Kept(j)'
    <3>1. PICK i \in DOMAIN tabs : tabs'[j] = tabs[i]
      BY <1>1, <2>1
    <3>2. PICK x : x = tabs[i].id
      OBVIOUS
    <3>3. x \in Id /\ x # id
      BY <1>1, <2>1, <3>1, <3>2, TabsAreTold
    <3>4. File(x)' = File(x) /\ (x \in skipped => x \in skipped')
      BY <1>4, <2>1, <3>3 DEF File
    <3>5. File(x) = tabs[i].text \/ timer = x \/ x \in skipped
      BY <3>2 DEF Kept, Tidy
    <3>6. File(x)' = tabs'[j].text \/ timer' = tabs'[j].id \/ tabs'[j].id \in skipped'
      BY <1>5, <3>1, <3>2, <3>4, <3>5
    <3>7. QED BY <1>5, <3>1, <3>2, <3>6 DEF Kept
  <2>5. NotebookShapes'
    BY <1>1, <1>4, <1>5, <1>7, <2>1 DEF NotebookShapes
  <2>6. QED BY <1>1, <1>5, <1>6, <2>1, <2>3, <2>4, <2>5, TidyComes
<1>10. QED BY <1>8, <1>9

\* With no tab on screen.
LEMMA TidyEmpty ==
  ASSUME NotebookShapes', tabs' = <<>>, picker' = None, screen' # "on",
         index' # None => index' \in Seq(Id) /\ Distinct(index'),
         stored' # None => stored'.ids \in Seq(Id) /\ Distinct(stored'.ids) /\ stored'.text \in Nat
  PROVE  Tidy'
<1>1. DOMAIN tabs' = {}
  OBVIOUS
<1>2. TabsListed'
  BY DEF TabsListed
<1>3. QED BY <1>1, <1>2 DEF Tidy

LEMMA TabsComeAndGo ==
  ASSUME Tidy, ~clash', Mount \/ EarlyInsert \/ _load \/ _flush_pending_save \/ KilledOnScreen PROVE Tidy'
<1>1. /\ index # None => index \in Seq(Id) /\ Distinct(index)
      /\ stored # None => stored.ids \in Seq(Id) /\ Distinct(stored.ids) /\ stored.text \in Nat
      /\ picker # None => screen = "on"
      /\ screen = "on" => index = Ids(tabs) /\ Taken(active_tab_id)
  BY DEF Tidy, TabsListed
<1>2. CASE Mount
  <2>1. NotebookShapes'
    BY <1>2 DEF Mount, files, Tidy, NotebookShapes
  <2>2. tabs' = <<>> /\ picker' = None /\ screen' # "on" /\ index' = index /\ stored' = stored
    BY <1>1, <1>2 DEF Mount, files
  <2>3. QED BY <1>1, <2>1, <2>2, TidyEmpty
<1>3. CASE KilledOnScreen
  <2>1. NotebookShapes'
    BY <1>3 DEF KilledOnScreen, files, Tidy, NotebookShapes
  <2>2. tabs' = <<>> /\ picker' = None /\ screen' # "on" /\ index' = index /\ stored' = None
    BY <1>3 DEF KilledOnScreen, files
  <2>3. QED BY <1>1, <2>1, <2>2, TidyEmpty
<1>4. CASE EarlyInsert
  BY <1>4 DEF EarlyInsert
<1>5. CASE _load
  <2> DEFINE ids == IF index \in {None, <<>>} THEN <<[kind |-> "nb", n |-> 1]>> ELSE index
  <2>1. /\ screen = "rendered" /\ screen' = "on" /\ early = None /\ early' = None
        /\ tabs' = [i \in 1 .. Len(ids) |-> NewTab(ids[i], File(ids[i]))] /\ active_tab_id' = ids[1]
        /\ tab_seq' = tab_seq + Len(ids) /\ index' = ids /\ disk' = disk
        /\ UNCHANGED <<stored, picker, edits>>
    BY <1>5 DEF _load, Tidy, NotebookShapes
  <2>2. ids \in Seq(Id) /\ Distinct(ids) /\ ids # <<>>
    <3>1. [kind |-> "nb", n |-> 1] \in Id
      BY NotebookAssumption DEF Id
    <3>2. PICK f \in Id : f = [kind |-> "nb", n |-> 1]
      BY <3>1
    <3>3. <<f>> \in Seq(Id) /\ <<f>> # <<>> /\ Distinct(<<f>>)
      BY DEF Distinct
    <3>4. QED BY <1>1, <3>2, <3>3
  <2> HIDE DEF ids
  <2>3. DOMAIN ids = 1 .. Len(ids) /\ Len(ids) \in Nat /\ 1 \in DOMAIN ids /\ \A i \in DOMAIN ids : ids[i] \in Id
    BY <2>2, LenProperties, EmptySeq
  <2>4. DOMAIN tabs' = DOMAIN ids /\ \A i \in DOMAIN ids : tabs'[i].id = ids[i] /\ tabs'[i].text = File(ids[i])
    BY <2>1, <2>3 DEF NewTab
  <2>5. \A x \in Id : File(x) \in Nat /\ File(x)' = File(x)
    BY <2>1 DEF Tidy, NotebookShapes, File
  <2>6. tabs' \in Seq(TabDict)
    <3>1. \A i \in 1 .. Len(ids) : NewTab(ids[i], File(ids[i])) \in TabDict
      BY <2>3, <2>5 DEF NewTab, TabDict
    <3>2. tabs' \in [1 .. Len(ids) -> TabDict]
      BY <2>1, <3>1
    <3>3. QED BY <2>3, <3>2
  <2>7. NotebookShapes'
    BY <2>1, <2>3, <2>6 DEF Tidy, NotebookShapes
  <2>8. index' = Ids(tabs')
    <3>1. Len(tabs') = Len(ids)
      BY <2>3, <2>4, <2>6, LenProperties
    <3>2. ids = [i \in 1 .. Len(ids) |-> ids[i]]
      BY <2>2, <2>3
    <3>3. QED BY <2>1, <2>3, <2>4, <3>1, <3>2 DEF Ids
  <2>9. ASSUME NEW i \in DOMAIN tabs' PROVE Kept(i)'
    <3>1. ids[i] \in Id /\ tabs'[i].id = ids[i] /\ tabs'[i].text = File(ids[i])
      BY <2>3, <2>4
    <3>2. PICK x \in Id : x = ids[i]
      BY <3>1
    <3>3. File(x)' = tabs'[i].text /\ tabs'[i].id = x
      BY <2>5, <3>1, <3>2
    <3>4. QED BY <3>3 DEF Kept
  <2>10. \A i, j \in DOMAIN tabs' : tabs'[i].id = tabs'[j].id => i = j
    BY <2>2, <2>4 DEF Distinct
  <2>11. \E i \in DOMAIN tabs' : tabs'[i].id = active_tab_id'
    BY <2>1, <2>3, <2>4
  <2>12. QED BY <1>1, <2>1, <2>7, <2>8, <2>9, <2>10, <2>11, TidyComes
<1>6. CASE _flush_pending_save
  <2>1. /\ screen = "on" /\ picker = None /\ screen' = "off"
        /\ disk' = [id \in Id |-> IF Taken(id)
                      THEN tabs[CHOOSE i \in 1 .. Len(tabs) : tabs[i].id = id /\ \A j \in i + 1 .. Len(tabs) : tabs[j].id # id].text
                      ELSE disk[id]]
        /\ UNCHANGED <<stored, tabs, tab_seq, picker, index, early, edits>>
    BY <1>6 DEF _flush_pending_save
  <2>2. ASSUME NEW k \in DOMAIN tabs PROVE disk'[tabs[k].id] = tabs[k].text
    <3>1. PICK x \in Id : x = tabs[k].id
      BY TabsAreTold
    <3>2. \A i \in 1 .. Len(tabs) : tabs[i].id = x => i = k
      BY <3>1, TabsAreTold
    <3>3. k \in 1 .. Len(tabs) /\ tabs[k].id = x /\ \A j \in k + 1 .. Len(tabs) : tabs[j].id # x
      <4>1. \A j \in k + 1 .. Len(tabs) : j \in 1 .. Len(tabs) /\ j # k
        BY TabsAreTold
      <4>2. QED BY <3>1, <3>2, <4>1, TabsAreTold
    <3>4. (CHOOSE i \in 1 .. Len(tabs) : tabs[i].id = x /\ \A j \in i + 1 .. Len(tabs) : tabs[j].id # x) = k
      BY <3>2, <3>3
    <3>5. Taken(x)
      BY <3>3 DEF Taken
    <3>6. disk'[x] = tabs[k].text
      BY <2>1, <3>4, <3>5
    <3>7. QED BY <3>1, <3>6
  <2>3. disk' \in [Id -> Nat \union {None}]
    <3>1. ASSUME NEW x \in Id PROVE disk'[x] \in Nat \union {None}
      <4>1. CASE Taken(x)
        <5>1. PICK k \in DOMAIN tabs : tabs[k].id = x
          BY <4>1, TabsAreTold DEF Taken
        <5>2. QED BY <2>2, <5>1, TabsAreTold
      <4>2. CASE ~Taken(x)
        BY <2>1, <4>2 DEF Tidy, NotebookShapes
      <4>3. QED BY <4>1, <4>2
    <3>2. \E g : disk' = [x \in Id |-> g[x]]
      <4>1. PICK g : g = [id \in Id |-> IF Taken(id)
                      THEN tabs[CHOOSE i \in 1 .. Len(tabs) : tabs[i].id = id /\ \A j \in i + 1 .. Len(tabs) : tabs[j].id # id].text
                      ELSE disk[id]]
        OBVIOUS
      <4>2. QED BY <2>1, <4>1
    <3>3. QED BY <3>1, <3>2
  <2>4. NotebookShapes'
    BY <2>1, <2>3 DEF Tidy, NotebookShapes
  <2>5. ASSUME NEW i \in DOMAIN tabs' PROVE Kept(i)'
    <3>1. PICK x \in Id : x = tabs[i].id
      BY <2>1, TabsAreTold
    <3>2. disk'[x] = tabs[i].text /\ tabs[i].text \in Nat
      BY <2>1, <2>2, <3>1, TabsAreTold
    <3>3. File(x)' = tabs'[i].text /\ tabs'[i].id = x
      BY <2>1, <3>1, <3>2, NothingAssumption DEF File
    <3>4. QED BY <3>3 DEF Kept
  <2>6. \A i, j \in DOMAIN tabs' : tabs'[i].id = tabs'[j].id => i = j
    BY <2>1, TabsAreTold
  <2>7. index' = Ids(tabs')
    BY <1>1, <2>1
  <2>8. QED BY <1>1, <2>1, <2>4, <2>5, <2>6, <2>7, TidyComes
<1>7. QED BY <1>2, <1>3, <1>4, <1>5, <1>6

\* An id is put in front of ids that do not hold it.
LEMMA InFront ==
  ASSUME NEW id \in Id, NEW s \in Seq(Id), Distinct(s), \A i \in DOMAIN s : s[i] # id
  PROVE  <<id>> \o s \in Seq(Id) /\ Distinct(<<id>> \o s)
<1> DEFINE t == <<id>> \o s
<1>1. DOMAIN s = 1 .. Len(s) /\ Len(s) \in Nat
  BY LenProperties
<1>2. t \in Seq(Id) /\ Len(t) = 1 + Len(s) /\ t[1] = id /\ \A i \in 2 .. Len(s) + 1 : t[i] = s[i - 1]
  BY <1>1
<1> HIDE DEF t
<1>3. DOMAIN t = 1 .. Len(s) + 1
  BY <1>1, <1>2, LenProperties
<1>4. \A i \in DOMAIN t : i = 1 \/ (i \in 2 .. Len(s) + 1 /\ i - 1 \in DOMAIN s /\ t[i] = s[i - 1])
  BY <1>1, <1>2, <1>3
<1>5. ASSUME NEW i \in DOMAIN t, NEW j \in DOMAIN t, t[i] = t[j] PROVE i = j
  <2>1. CASE i = 1
    BY <1>2, <1>4, <1>5, <2>1
  <2>2. CASE j = 1
    BY <1>2, <1>4, <1>5, <2>2
  <2>3. CASE i # 1 /\ j # 1
    <3>1. i - 1 = j - 1
      BY <1>4, <1>5, <2>3 DEF Distinct
    <3>2. QED BY <1>3, <3>1
  <2>4. QED BY <2>1, <2>2, <2>3
<1>6. QED BY <1>2, <1>5 DEF t, Distinct

\* The number given is above those of the index.
LEMMA NextIsNew ==
  ASSUME stored.ids \in Seq(Id) PROVE \A i \in DOMAIN stored.ids : stored.ids[i] # _next_notebook_id
<1> DEFINE used == {id \in Id : id.kind = "nb" /\ (Contains(stored.ids, id) \/ disk[id] # None)}
           S == {id.n : id \in used} \union {0}
           T == {MaxSeq - x : x \in S}
<1>1. \A id \in Id : id.n \in 1 .. MaxSeq
  BY DEF Id
<1>2. S \subseteq 0 .. MaxSeq /\ 0 \in S
  BY <1>1, NotebookAssumption
<1>3. \A id \in used : id.n \in S
  OBVIOUS
<1> HIDE DEF S
<1>4. \E m \in S : \A x \in S : m >= x
  <2>1. T \subseteq Nat /\ T # {}
    <3>1. ASSUME NEW x \in S PROVE MaxSeq - x \in Nat
      <4>1. x \in 0 .. MaxSeq
        BY <1>2
      <4>2. QED BY <4>1, NotebookAssumption
    <3>2. T \subseteq Nat
      BY <3>1
    <3>3. MaxSeq - 0 \in T
      BY <1>2
    <3>4. QED BY <3>2, <3>3
  <2>2. PICK y \in T : \A z \in T : y <= z
    BY <2>1, Least
  <2>3. PICK m \in S : y = MaxSeq - m
    OBVIOUS
  <2>4. \A x \in S : MaxSeq - m <= MaxSeq - x
    BY <2>2, <2>3
  <2>5. \A x \in S : m >= x
    BY <1>2, <2>4, NotebookAssumption
  <2>6. QED BY <2>5
<1>5. Max(S) \in S /\ \A x \in S : Max(S) >= x
  BY <1>4 DEF Max
<1>6. Max(S) \in Nat /\ Max(S) + 1 \notin S
  <2>1. \A x \in S : x \in Nat
    BY <1>2, NotebookAssumption
  <2>2. PICK m : m = Max(S)
    OBVIOUS
  <2>3. m \in Nat /\ \A x \in S : m >= x
    BY <1>5, <2>1, <2>2
  <2>4. m + 1 \notin S
    BY <2>3
  <2>5. QED BY <2>2, <2>3, <2>4
<1>7. _next_notebook_id = [kind |-> "nb", n |-> Max(S) + 1]
  BY DEF _next_notebook_id, S
<1>8. _next_notebook_id.n = Max(S) + 1 /\ _next_notebook_id.kind = "nb"
  BY <1>7
<1>9. ASSUME NEW i \in DOMAIN stored.ids, stored.ids[i] = _next_notebook_id PROVE FALSE
  <2>1. stored.ids[i] \in Id /\ i \in 1 .. Len(stored.ids)
    BY LenProperties
  <2>2. Contains(stored.ids, stored.ids[i])
    BY <2>1 DEF Contains
  <2>3. stored.ids[i].kind = "nb" /\ stored.ids[i].n = Max(S) + 1
    BY <1>8, <1>9
  <2>4. stored.ids[i] \in used
    BY <2>1, <2>2, <2>3
  <2>5. Max(S) + 1 \in S
    BY <1>3, <2>3, <2>4
  <2>6. QED BY <1>6, <2>5
<1>10. QED BY <1>9

\* With the screen closed, a tool writes an index and a document.
LEMMA ToolWrites ==
  ASSUME Tidy, ~clash', NEW id \in Id, NEW ids, NEW text \in Nat \union {None}, Stored(ids, id, text),
         ids # None => ids \in Seq(Id) /\ Distinct(ids)
  PROVE  Tidy'
<1>1. /\ screen = "off" /\ screen' = "off" /\ index' = ids /\ disk' = [disk EXCEPT ![id] = text] /\ stored' = None /\ tabs' = <<>>
      /\ UNCHANGED <<picker, early, edits, tab_seq>>
  BY DEF Stored
<1>2. picker' = None
  BY <1>1 DEF Tidy, TabsListed
<1>3. NotebookShapes'
  BY <1>1 DEF Tidy, NotebookShapes
<1>4. QED BY <1>1, <1>2, <1>3, TidyEmpty

LEMMA ToolsWrite ==
  ASSUME Tidy, ~clash', StoredTool PROVE Tidy'
<1>1. /\ stored # None /\ stored.ids \in Seq(Id) /\ Distinct(stored.ids) /\ stored.text \in Nat
      /\ index # None => index \in Seq(Id) /\ Distinct(index)
      /\ disk \in [Id -> Nat \union {None}]
  BY DEF StoredTool, Tidy, TabsListed, NotebookShapes
<1>2. DOMAIN stored.ids = 1 .. Len(stored.ids) /\ \A i \in DOMAIN stored.ids : stored.ids[i] \in Id
  BY <1>1, LenProperties
<1>3. ASSUME NEW text \in Nat, _stored_create_tab(text) PROVE Tidy'
  <2>1. PICK id \in Id : id = _next_notebook_id
    BY <1>3 DEF _stored_create_tab
  <2>2. <<id>> \o stored.ids \in Seq(Id) /\ Distinct(<<id>> \o stored.ids)
    BY <1>1, <2>1, NextIsNew, InFront
  <2>3. Stored(<<id>> \o stored.ids, id, text)
    BY <1>3, <2>1 DEF _stored_create_tab
  <2>4. QED BY <2>2, <2>3, ToolWrites
<1>4. ASSUME Notebooks # <<>>, Stored(index, Head(Notebooks), stored.text) PROVE Tidy'
  <2>1. Notebooks \in Seq(Id)
    <3>1. {i \in DOMAIN stored.ids : stored.ids[i].kind = "nb"} \in SUBSET DOMAIN stored.ids
      OBVIOUS
    <3>2. QED BY <1>1, <3>1, PlacesPicked DEF Notebooks
  <2>2. Head(Notebooks) \in Id
    BY <1>4, <2>1, HeadTailProperties
  <2>3. QED BY <1>1, <1>4, <2>2, ToolWrites
<1>5. ASSUME NEW id \in ToSet(stored.ids),
             Stored(<<id>> \o AtPlaces(stored.ids, {i \in DOMAIN stored.ids : stored.ids[i] # id}), id, disk[id])
      PROVE  Tidy'
  <2> DEFINE K == {i \in DOMAIN stored.ids : stored.ids[i] # id}
             rest == AtPlaces(stored.ids, K)
  <2>1. id \in Id
    BY <1>2, <1>5 DEF ToSet
  <2>2. K \in SUBSET DOMAIN stored.ids /\ \A i \in K : i \in DOMAIN stored.ids /\ stored.ids[i] # id
    OBVIOUS
  <2>3. Stored(<<id>> \o rest, id, disk[id])
    BY <1>5
  <2> HIDE DEF K
  <2>4. rest \in Seq(Id) /\ Picks(rest, stored.ids, K)
    BY <1>1, <2>2, PlacesPicked
  <2> HIDE DEF rest
  <2>5. \A j \in DOMAIN rest : rest[j] # id
    BY <2>2, <2>4 DEF Picks
  <2>6. ASSUME NEW j \in DOMAIN rest, NEW l \in DOMAIN rest, rest[j] = rest[l], j # l PROVE FALSE
    <3>1. PICK i \in K, k \in K : i # k /\ rest[j] = stored.ids[i] /\ rest[l] = stored.ids[k]
      BY <1>1, <2>2, <2>4, <2>6, PickedOnce
    <3>2. QED BY <1>1, <2>2, <2>6, <3>1 DEF Distinct
  <2>7. Distinct(rest)
    BY <2>6 DEF Distinct
  <2>8. <<id>> \o rest \in Seq(Id) /\ Distinct(<<id>> \o rest)
    BY <2>1, <2>4, <2>5, <2>7, InFront
  <2>9. disk[id] \in Nat \union {None}
    BY <1>1, <2>1
  <2>10. QED BY <2>1, <2>3, <2>8, <2>9, ToolWrites
<1>6. 0 \in Nat
  OBVIOUS
<1>7. QED BY <1>1, <1>3, <1>4, <1>5, <1>6 DEF StoredTool

\* A clash of ids stays on record.
LEMMA ClashStays ==
  ASSUME NotebookInv, [NotebookNext]_notebookVars PROVE clash' \in BOOLEAN /\ (~clash' => ~clash)
<1>1. CASE UNCHANGED clash
  BY <1>1 DEF NotebookInv
<1>2. CASE EarlyInsert
  BY <1>2 DEF EarlyInsert
<1>3. ASSUME NEW kind, NEW text, Opened(kind, text) PROVE clash' \in BOOLEAN /\ (~clash' => ~clash)
  BY <1>3 DEF Opened, Taken, NotebookInv
<1>4. ASSUME NEW ids, NEW id, NEW text, Stored(ids, id, text) PROVE clash' \in BOOLEAN /\ (~clash' => ~clash)
  BY <1>4 DEF Stored, NotebookInv
<1>5. CASE write_cells_to_active_tab \/ \E kind \in {"nb", "py"} : _create_tab(kind)
  BY <1>3, <1>5 DEF write_cells_to_active_tab, _create_tab
<1>6. CASE StoredTool
  BY <1>4, <1>6 DEF StoredTool, _stored_create_tab
<1>7. CASE Mount \/ _load \/ Type \/ _debounced_save \/ _insert_cells \/ PickFile \/ PickNothing \/ _import_ipynb
  BY <1>1, <1>7 DEF Mount, _load, Type, _debounced_save, _insert_cells, PickFile, PickNothing, _import_ipynb
<1>8. CASE _import_script \/ _stored_tabs \/ _flush_pending_save \/ KilledOnScreen
  BY <1>1, <1>8 DEF _import_script, _stored_tabs, _flush_pending_save, KilledOnScreen
<1>9. CASE \E id \in Id : _switch_tab(id) \/ _close_tab(id)
  BY <1>1, <1>9 DEF _switch_tab, _close_tab
<1>10. CASE UNCHANGED notebookVars
  BY <1>1, <1>10 DEF notebookVars
<1>11. QED BY <1>2, <1>5, <1>6, <1>7, <1>8, <1>9, <1>10 DEF NotebookNext

LEMMA NotebookKept ==
  ASSUME NotebookInv, [NotebookNext]_notebookVars PROVE NotebookInv'
<1>1. clash' \in BOOLEAN /\ (~clash' => ~clash)
  BY ClashStays
<1>2. ASSUME ~clash' PROVE Tidy'
  <2>1. Tidy
    BY <1>1, <1>2 DEF NotebookInv
  <2>2. CASE Mount \/ EarlyInsert \/ _load \/ _flush_pending_save \/ KilledOnScreen
    BY <1>2, <2>1, <2>2, TabsComeAndGo
  <2>3. CASE (\E kind \in {"nb", "py"} : _create_tab(kind)) \/ write_cells_to_active_tab
    BY <1>2, <2>1, <2>3, TabsOpen
  <2>4. CASE \E id \in Id : _close_tab(id)
    BY <2>1, <2>4, TabsClose
  <2>5. CASE (\E id \in Id : _switch_tab(id)) \/ _debounced_save \/ PickFile \/ PickNothing \/ _stored_tabs
    BY <2>1, <2>5, TabsRest
  <2>6. CASE Type \/ _insert_cells \/ _import_ipynb \/ _import_script
    BY <2>1, <2>6, TabsChange
  <2>7. CASE StoredTool
    BY <1>2, <2>1, <2>7, ToolsWrite
  <2>8. CASE UNCHANGED notebookVars
    <3>1. UNCHANGED <<screen, tabs, active_tab_id, tab_seq, timer, picker, index, disk, early, stored, edits, skipped>>
      BY <2>8 DEF notebookVars
    <3>2. NotebookShapes' /\ TabsListed'
      BY <2>1, <3>1 DEF Tidy, NotebookShapes, TabsListed, Taken
    <3>3. \A i \in DOMAIN tabs' : Kept(i)'
      BY <2>1, <3>1 DEF Tidy, Kept, File
    <3>4. QED BY <3>2, <3>3 DEF Tidy
  <2>9. QED BY <2>2, <2>3, <2>4, <2>5, <2>6, <2>7, <2>8 DEF NotebookNext
<1>3. QED BY <1>1, <1>2 DEF NotebookInv

LEMMA NotebookInitially == NotebookInit => NotebookInv
<1> SUFFICES ASSUME NotebookInit PROVE NotebookInv
  OBVIOUS
<1>1. /\ screen = "off" /\ tabs = <<>> /\ tab_seq = 0 /\ picker = None /\ early = None /\ stored = None
      /\ index = None /\ disk = [id \in Id |-> None] /\ edits = 0 /\ clash = FALSE
  BY DEF NotebookInit
<1>2. NotebookShapes
  BY <1>1 DEF NotebookShapes
<1>3. TabsListed
  BY <1>1 DEF TabsListed
<1>4. DOMAIN tabs = {}
  BY <1>1
<1>5. QED BY <1>1, <1>2, <1>3, <1>4 DEF NotebookInv, Tidy

\* As long as no id is given twice and no tool writes under an open screen, what
\* was typed survives the debounce, the tabs and the way out of the screen: the
\* files hold the last text of every tab, or the timer or the record of what was
\* cut short names it (_debounced_save, _flush_pending_save).
THEOREM DraftsSurvive == NotebookSpec => []DraftsAreSaved
<1>1. NotebookInv => DraftsAreSaved
  <2> SUFFICES ASSUME NotebookInv, ~clash PROVE DraftsAreSaved
    BY DEF DraftsAreSaved, KeystrokesSaved, LeavingSaves
  <2>1. Tidy
    BY DEF NotebookInv
  <2>2. \A i \in 1 .. Len(tabs) : Kept(i)
    BY <2>1, TabsAreTold DEF Tidy
  <2>3. KeystrokesSaved
    BY <2>2 DEF KeystrokesSaved, Kept
  <2>4. screen = "off" /\ tabs # <<>> => index = Ids(tabs)
    BY <2>1 DEF Tidy, TabsListed
  <2>5. LeavingSaves
    BY <2>2, <2>4 DEF LeavingSaves, Kept
  <2>6. QED BY <2>3, <2>5 DEF DraftsAreSaved
<1>2. QED BY NotebookInitially, <1>1, NotebookKept, PTL DEF NotebookSpec

----------------------------------------------------------------------------
(* Documents *)

LEMMA Shapes == Current = [x \in Id |-> Current[x]] /\ Filed = [x \in Id |-> Filed[x]]
<1>1. \E e : Filed = [x \in Id |-> e[x]]
  <2>1. PICK e : e = [id \in Id |-> IF id \in Listed THEN File(id) ELSE None]
    OBVIOUS
  <2>2. QED BY <2>1 DEF Filed
<1>2. \E e : OnTabs = [x \in Id |-> e[x]]
  <2>1. PICK e : e = [id \in Id |-> IF Taken(id) THEN _get_tab(id).text ELSE None]
    OBVIOUS
  <2>2. QED BY <2>1 DEF OnTabs
<1>3. QED BY <1>1, <1>2 DEF Current

LEMMA ShapesNext == Current' = [x \in Id |-> Current'[x]] /\ Filed' = [x \in Id |-> Filed'[x]]
<1>1. \E e : Filed' = [x \in Id |-> e[x]]
  <2>1. PICK e : e = [id \in Id |-> IF id \in Listed' THEN File(id)' ELSE None]
    OBVIOUS
  <2>2. QED BY <2>1 DEF Filed
<1>2. \E e : OnTabs' = [x \in Id |-> e[x]]
  <2>1. PICK e : e = [id \in Id |-> IF Taken(id)' THEN _get_tab(id)'.text ELSE None]
    OBVIOUS
  <2>2. QED BY <2>1 DEF OnTabs
<1>3. QED BY <1>1, <1>2 DEF Current

LEMMA SaveMaps ==
  ASSUME \A x \in Id : Current'[x] = Current[x] /\ Filed'[x] \in {Filed[x], Current[x]} PROVE Docs!Next
<1>1. Current' = Current
  BY Shapes, ShapesNext
<1>2. PICK some : some = {x \in Id : Filed'[x] = Current[x]}
  OBVIOUS
<1>3. Filed' = [x \in Id |-> IF x \in some THEN Current[x] ELSE Filed[x]]
  BY <1>2, ShapesNext
<1>4. some \in SUBSET Id
  BY <1>2
<1>5. Docs!Save
  BY <1>1, <1>3, <1>4 DEF Docs!Save
<1>6. QED BY <1>5 DEF Docs!Next

LEMMA Put ==
  ASSUME NEW f, f = [x \in Id |-> f[x]], NEW g, g = [x \in Id |-> g[x]], NEW d \in Id,
         \A x \in Id : x # d => g[x] = f[x]
  PROVE  g = [f EXCEPT ![d] = g[d]]
<1>1. PICK h : h = [f EXCEPT ![d] = g[d]]
  OBVIOUS
<1>2. h = [x \in Id |-> h[x]] /\ \A x \in Id : h[x] = g[x]
  BY <1>1
<1>3. QED BY <1>1, <1>2

LEMMA WriteMaps ==
  ASSUME NEW d \in Id, NEW text \in 0 .. MaxEdits, Current[d] # None, Current'[d] = text, Filed'[d] \in {Filed[d], text},
         \A x \in Id : x # d => Current'[x] = Current[x] /\ Filed'[x] = Filed[x]
  PROVE  Docs!Next
<1>1. Current' = [Current EXCEPT ![d] = text]
  BY Shapes, ShapesNext, Put
<1>2. Filed' \in {Filed, [Filed EXCEPT ![d] = text]}
  <2>1. CASE Filed'[d] = Filed[d]
    BY <2>1, Shapes, ShapesNext
  <2>2. CASE Filed'[d] = text
    BY <2>2, Shapes, ShapesNext, Put
  <2>3. QED BY <2>1, <2>2
<1>3. Docs!Write(d, text)
  BY <1>1, <1>2 DEF Docs!Write, Docs!Exists
<1>4. QED BY <1>3 DEF Docs!Next

LEMMA OpenMaps ==
  ASSUME NEW d \in Id, NEW text \in 0 .. MaxEdits, Current[d] = None, Current'[d] = text, Filed'[d] = text,
         \A x \in Id : x # d => Current'[x] = Current[x] /\ Filed'[x] = Filed[x]
  PROVE  Docs!Next
<1>1. Current' = [Current EXCEPT ![d] = text] /\ Filed' = [Filed EXCEPT ![d] = text]
  BY Shapes, ShapesNext, Put
<1>2. Docs!Open(d, text)
  BY <1>1 DEF Docs!Open, Docs!Exists
<1>3. QED BY <1>2 DEF Docs!Next

LEMMA UnseenMaps ==
  ASSUME NEW d \in Id, NEW text \in 0 .. MaxEdits, Current[d] # None, Filed'[d] = text,
         \A x \in Id : Current'[x] = Current[x] /\ (x # d => Filed'[x] = Filed[x])
  PROVE  Docs!Next
<1>1. Current' = Current /\ Filed' = [Filed EXCEPT ![d] = text]
  BY Shapes, ShapesNext, Put
<1>2. Docs!ImportUnseen(d, text)
  BY <1>1 DEF Docs!ImportUnseen, Docs!Exists
<1>3. QED BY <1>2 DEF Docs!Next

LEMMA CloseMaps ==
  ASSUME NEW d \in Id, Current[d] # None,
         \/ /\ \E e \in Id : e # d /\ Current[e] # None
            /\ Current'[d] = None /\ Filed'[d] = None
            /\ \A x \in Id : x # d => Current'[x] = Current[x] /\ Filed'[x] = Filed[x]
         \/ /\ \A e \in Id : e # d => Current[e] = None
            /\ \A x \in Id : Current'[x] = IF x = FirstId THEN 0 ELSE None
            /\ \A x \in Id : Filed'[x] = IF x = FirstId THEN 0 ELSE None
  PROVE  Docs!Next
<1>1. CASE /\ \E e \in Id : e # d /\ Current[e] # None
           /\ Current'[d] = None /\ Filed'[d] = None
           /\ \A x \in Id : x # d => Current'[x] = Current[x] /\ Filed'[x] = Filed[x]
  <2>1. Current' = [Current EXCEPT ![d] = None] /\ Filed' = [Filed EXCEPT ![d] = None]
    BY <1>1, Shapes, ShapesNext, Put
  <2>2. Docs!Close(d)
    BY <1>1, <2>1 DEF Docs!Close, Docs!Exists
  <2>3. QED BY <2>2 DEF Docs!Next
<1>2. CASE /\ \A e \in Id : e # d => Current[e] = None
           /\ \A x \in Id : Current'[x] = IF x = FirstId THEN 0 ELSE None
           /\ \A x \in Id : Filed'[x] = IF x = FirstId THEN 0 ELSE None
  <2>1. Current' = Docs!Only(FirstId) /\ Filed' = Docs!Only(FirstId)
    BY <1>2, ShapesNext DEF Docs!Only
  <2>2. Docs!Close(d)
    BY <1>2, <2>1 DEF Docs!Close, Docs!Exists
  <2>3. QED BY <2>2 DEF Docs!Next
<1>3. QED BY <1>1, <1>2

LEMMA KillMaps == ASSUME \A x \in Id : Current'[x] = Filed[x] /\ Filed'[x] = Filed[x] PROVE Docs!Next
<1>1. Current' = Filed /\ Filed' = Filed
  BY Shapes, ShapesNext
<1>2. QED BY <1>1 DEF Docs!Kill, Docs!Next

\* What the screen shows, and what is filed of it.
OnScreen == Tidy /\ screen = "on"
WithTabs == Tidy /\ tabs # <<>>

Viewed ==
  /\ \A i \in DOMAIN tabs : tabs[i].id \in Id /\ tabs[i].text \in Nat /\ Current[tabs[i].id] = tabs[i].text
  /\ \A x \in Id : Current[x] # None <=> Taken(x)
FiledAs == \A x \in Id : Filed[x] = IF Taken(x) THEN File(x) ELSE None

LEMMA ViewOnScreen == OnScreen => Viewed /\ tabs # <<>>
<1> SUFFICES ASSUME Tidy, screen = "on" PROVE Viewed /\ tabs # <<>>
  BY DEF OnScreen
<1>1. \A x \in Id : Current[x] = IF Taken(x) THEN _get_tab(x).text ELSE None
  BY DEF Current, OnTabs
<1>2. ASSUME NEW i \in DOMAIN tabs PROVE tabs[i].id \in Id /\ tabs[i].text \in Nat /\ Current[tabs[i].id] = tabs[i].text
  BY <1>1, TabsAreTold
<1>3. ASSUME NEW x \in Id PROVE Current[x] # None <=> Taken(x)
  <2>1. CASE Taken(x)
    <3>1. PICK i \in DOMAIN tabs : tabs[i].id = x
      BY <2>1, TabOnScreen
    <3>2. QED BY <1>2, <2>1, <3>1, NothingAssumption
  <2>2. CASE ~Taken(x)
    BY <1>1, <2>2
  <2>3. QED BY <2>1, <2>2
<1>4. tabs # <<>>
  <2>1. Taken(active_tab_id)
    BY DEF Tidy, TabsListed
  <2>2. QED BY <2>1 DEF Taken
<1>5. QED BY <1>2, <1>3, <1>4 DEF Viewed

LEMMA FiledWithTabs == WithTabs => FiledAs
<1> SUFFICES ASSUME Tidy, tabs # <<>> PROVE FiledAs
  BY DEF WithTabs
<1>1. index = Ids(tabs)
  BY DEF Tidy, TabsListed
<1>2. Len(tabs) \in Nat /\ Len(tabs) # 0 /\ DOMAIN tabs = 1 .. Len(tabs) /\ \A i \in DOMAIN tabs : tabs[i].id \in Id
  <2>1. tabs \in Seq(TabDict)
    BY DEF Tidy, NotebookShapes
  <2>2. QED BY <2>1, TabsAreTold, EmptySeq
<1>3. index = [i \in 1 .. Len(tabs) |-> tabs[i].id]
  BY <1>1 DEF Ids
<1>4. index \in Seq(Id) /\ Len(index) = Len(tabs)
  <2>1. index \in [1 .. Len(tabs) -> Id]
    BY <1>2, <1>3
  <2>2. QED BY <1>2, <2>1
<1>5. index # None /\ index # <<>>
  BY <1>2, <1>4, NothingAssumption
<1>6. \A x : x \in Listed <=> Taken(x)
  <2>1. Listed = {index[i] : i \in 1 .. Len(tabs)}
    BY <1>2, <1>3, <1>5 DEF Listed, ToSet
  <2>2. QED BY <1>3, <2>1 DEF Taken
<1>7. QED BY <1>6 DEF Filed, FiledAs

LEMMA ViewOnScreenNext == OnScreen' => Viewed' /\ (tabs # <<>>)'
  BY ViewOnScreen, PTL
LEMMA FiledWithTabsNext == WithTabs' => FiledAs'
  BY FiledWithTabs, PTL

\* The tabs stay as they are and some of them are saved.
LEMMA SavingMaps ==
  ASSUME OnScreen, Tidy', screen' \in {"on", "off"}, tabs' = tabs,
         \A i \in DOMAIN tabs : File(tabs[i].id)' \in {File(tabs[i].id), tabs[i].text}
  PROVE  Docs!Next
<1>1. Viewed /\ tabs # <<>> /\ FiledAs
  BY ViewOnScreen, FiledWithTabs DEF OnScreen, WithTabs
<1>2. FiledAs'
  BY <1>1, FiledWithTabsNext DEF WithTabs
<1>3. \A x \in Id : Taken(x)' <=> Taken(x)
  BY DEF Taken
<1>4. ASSUME NEW x \in Id PROVE Filed'[x] \in {Filed[x], Current[x]} /\ Current'[x] = Current[x]
  <2>1. CASE Taken(x)
    <3>1. PICK i \in DOMAIN tabs : tabs[i].id = x
      BY <2>1, TabOnScreen DEF OnScreen
    <3>2. Current[x] = tabs[i].text /\ Filed[x] = File(x) /\ Filed'[x] = File(x)'
      BY <1>1, <1>2, <1>3, <2>1, <3>1 DEF Viewed, FiledAs
    <3>3. File(x)' \in {File(x), tabs[i].text}
      BY <3>1
    <3>4. CASE screen' = "on"
      <4>1. Viewed'
        BY <3>4, ViewOnScreenNext DEF OnScreen
      <4>2. Current'[x] = tabs[i].text
        BY <3>1, <4>1 DEF Viewed
      <4>3. QED BY <3>2, <3>3, <4>2
    <3>5. CASE screen' = "off"
      <4>1. tabs'[i] = tabs[i] /\ i \in DOMAIN tabs'
        OBVIOUS
      <4>2. Kept(i)'
        BY <4>1 DEF Tidy
      <4>3. File(x)' = tabs[i].text
        BY <3>1, <3>5, <4>1, <4>2 DEF Kept
      <4>4. Current'[x] = Filed'[x]
        BY <3>5 DEF Current
      <4>5. QED BY <3>2, <4>3, <4>4
    <3>6. QED BY <3>4, <3>5
  <2>2. CASE ~Taken(x)
    <3>1. Current[x] = None /\ Filed[x] = None /\ Filed'[x] = None
      BY <1>1, <1>2, <1>3, <2>2 DEF Viewed, FiledAs
    <3>2. Current'[x] = None
      <4>1. CASE screen' = "on"
        BY <1>3, <2>2, <4>1, ViewOnScreenNext DEF OnScreen, Viewed
      <4>2. CASE screen' = "off"
        BY <3>1, <4>2 DEF Current
      <4>3. QED BY <4>1, <4>2
    <3>3. QED BY <3>1, <3>2
  <2>3. QED BY <2>1, <2>2
<1>5. QED BY <1>4, SaveMaps

\* One tab gets a text, which may be saved.
LEMMA WritingMaps ==
  ASSUME OnScreen, OnScreen', NEW k \in DOMAIN tabs, NEW v \in TabDict, v.id = tabs[k].id, Swapped(k, v),
         v.text \in 0 .. MaxEdits, File(v.id)' \in {File(v.id), v.text},
         \A x \in Id : x # v.id => File(x)' = File(x)
  PROVE  Docs!Next
<1>1. Viewed /\ tabs # <<>> /\ FiledAs
  BY ViewOnScreen, FiledWithTabs DEF OnScreen, WithTabs
<1>2. Viewed' /\ FiledAs'
  BY ViewOnScreenNext, FiledWithTabsNext DEF OnScreen, WithTabs
<1>3. tabs \in Seq(TabDict)
  BY DEF OnScreen, Tidy, NotebookShapes
<1>4. /\ tabs' \in Seq(TabDict) /\ DOMAIN tabs' = DOMAIN tabs /\ Len(tabs') = Len(tabs) /\ tabs'[k] = v
      /\ \A i \in DOMAIN tabs : i # k => tabs'[i] = tabs[i]
  BY <1>3 DEF Swapped
<1>5. DOMAIN tabs = 1 .. Len(tabs) /\ v.id \in Id
  BY <1>3, LenProperties DEF TabDict
<1>6. \A x \in Id : Taken(x)' <=> Taken(x)
  <2>1. \A i \in DOMAIN tabs : tabs'[i].id = tabs[i].id
    BY <1>4
  <2>2. QED BY <1>4, <1>5, <2>1 DEF Taken
<1>7. Taken(v.id)
  BY <1>5 DEF Taken
<1>8. Current[v.id] # None /\ Current'[v.id] = v.text /\ Filed[v.id] = File(v.id) /\ Filed'[v.id] = File(v.id)'
  BY <1>1, <1>2, <1>4, <1>5, <1>6, <1>7 DEF Viewed, FiledAs
<1>9. ASSUME NEW x \in Id, x # v.id PROVE Current'[x] = Current[x] /\ Filed'[x] = Filed[x]
  <2>1. CASE Taken(x)
    <3>1. PICK i \in DOMAIN tabs : tabs[i].id = x
      BY <2>1, TabOnScreen DEF OnScreen
    <3>2. tabs'[i] = tabs[i] /\ i \in DOMAIN tabs'
      BY <1>4, <1>9, <3>1
    <3>3. Current[x] = tabs[i].text /\ Current'[x] = tabs[i].text
      BY <1>1, <1>2, <3>1, <3>2 DEF Viewed
    <3>4. QED BY <1>1, <1>2, <1>6, <1>9, <2>1, <3>3 DEF FiledAs
  <2>2. CASE ~Taken(x)
    BY <1>1, <1>2, <1>6, <2>2 DEF Viewed, FiledAs
  <2>3. QED BY <2>1, <2>2
<1>10. Filed'[v.id] \in {Filed[v.id], v.text}
  BY <1>8
<1>11. QED BY <1>5, <1>8, <1>9, <1>10, WriteMaps

\* The text of an import reaches the file of a tab only.
LEMMA UnseenImportMaps ==
  ASSUME OnScreen, OnScreen', NEW id \in Id, Taken(id), NEW text \in 0 .. MaxEdits, tabs' = tabs,
         File(id)' = text, \A x \in Id : x # id => File(x)' = File(x)
  PROVE  Docs!Next
<1>1. Viewed /\ tabs # <<>> /\ FiledAs
  BY ViewOnScreen, FiledWithTabs DEF OnScreen, WithTabs
<1>2. Viewed' /\ FiledAs'
  BY ViewOnScreenNext, FiledWithTabsNext DEF OnScreen, WithTabs
<1>3. \A x \in Id : Taken(x)' <=> Taken(x)
  BY DEF Taken
<1>4. ASSUME NEW x \in Id PROVE Current'[x] = Current[x]
  <2>1. CASE Taken(x)
    <3>1. PICK i \in DOMAIN tabs : tabs[i].id = x
      BY <2>1, TabOnScreen DEF OnScreen
    <3>2. QED BY <1>1, <1>2, <3>1 DEF Viewed
  <2>2. CASE ~Taken(x)
    BY <1>1, <1>2, <1>3, <2>2 DEF Viewed
  <2>3. QED BY <2>1, <2>2
<1>5. Current[id] # None /\ Filed'[id] = text
  BY <1>1, <1>2, <1>3 DEF Viewed, FiledAs
<1>6. \A x \in Id : x # id => Filed'[x] = Filed[x]
  BY <1>1, <1>2, <1>3 DEF FiledAs
<1>7. QED BY <1>4, <1>5, <1>6, UnseenMaps

\* A tab is added, its document written.
LEMMA OpeningMaps ==
  ASSUME OnScreen, Tidy', NEW kind \in {"nb", "py"}, NEW text \in 0 .. MaxEdits, Opened(kind, text), ~clash',
         screen' = screen
  PROVE  Docs!Next
<1>1. Viewed /\ tabs # <<>> /\ FiledAs
  BY ViewOnScreen, FiledWithTabs DEF OnScreen, WithTabs
<1>2. OnScreen'
  BY DEF OnScreen
<1>3. Viewed' /\ FiledAs'
  BY <1>2, ViewOnScreenNext, FiledWithTabsNext DEF OnScreen, WithTabs
<1>4. PICK id : id = [kind |-> kind, n |-> tab_seq + 1]
  OBVIOUS
<1>5. /\ tab_seq < MaxSeq /\ tabs' = Append(tabs, NewTab(id, text)) /\ disk' = [disk EXCEPT ![id] = text] /\ ~Taken(id)
  BY <1>4 DEF Opened
<1>6. tab_seq \in Nat /\ tabs \in Seq(TabDict) /\ text \in Nat
  BY NotebookAssumption DEF OnScreen, Tidy, NotebookShapes
<1>7. id \in Id
  BY <1>4, <1>5, <1>6, NotebookAssumption DEF Id
<1>8. NewTab(id, text) \in TabDict /\ NewTab(id, text).id = id /\ NewTab(id, text).text = text
  BY <1>6, <1>7 DEF NewTab, TabDict
<1>9. PICK tab \in TabDict : tab = NewTab(id, text)
  BY <1>8
<1>10. Len(tabs) \in Nat /\ DOMAIN tabs = 1 .. Len(tabs)
  BY <1>6, LenProperties
<1>11. /\ tabs' = Append(tabs, tab) /\ tab.id = id /\ tab.text = text
  BY <1>5, <1>8, <1>9
<1>12. /\ Len(tabs') = Len(tabs) + 1 /\ DOMAIN tabs' = 1 .. Len(tabs) + 1 /\ tabs'[Len(tabs) + 1] = tab
       /\ \A i \in DOMAIN tabs : tabs'[i] = tabs[i]
  BY <1>6, <1>10, <1>11, AppendProperties
<1>13. \A x : Taken(x)' <=> Taken(x) \/ x = id
  <2>1. \A i \in 1 .. Len(tabs') : i \in DOMAIN tabs \/ i = Len(tabs) + 1
    BY <1>10, <1>12
  <2>2. Len(tabs) + 1 \in 1 .. Len(tabs') /\ \A i \in DOMAIN tabs : i \in 1 .. Len(tabs')
    BY <1>10, <1>12
  <2>3. QED BY <1>10, <1>11, <1>12, <2>1, <2>2 DEF Taken
<1>14. Written(id, text)
  BY <1>5, <1>6, <1>7, WhatIsWritten DEF OnScreen
<1>15. Current[id] = None /\ Filed'[id] = text
  BY <1>1, <1>3, <1>5, <1>7, <1>13, <1>14 DEF Viewed, FiledAs, Written
<1>16. Current'[id] = text
  <2>1. Len(tabs) + 1 \in DOMAIN tabs'
    BY <1>10, <1>12
  <2>2. QED BY <1>3, <1>11, <1>12, <2>1 DEF Viewed
<1>17. ASSUME NEW x \in Id, x # id PROVE Current'[x] = Current[x] /\ Filed'[x] = Filed[x]
  <2>1. CASE Taken(x)
    <3>1. PICK i \in DOMAIN tabs : tabs[i].id = x
      BY <2>1, TabOnScreen DEF OnScreen
    <3>2. tabs'[i] = tabs[i] /\ i \in DOMAIN tabs'
      BY <1>10, <1>12, <3>1
    <3>3. Current[x] = tabs[i].text /\ Current'[x] = tabs[i].text
      BY <1>1, <1>3, <3>1, <3>2 DEF Viewed
    <3>4. QED BY <1>1, <1>3, <1>13, <1>14, <1>17, <2>1, <3>3 DEF FiledAs, Written
  <2>2. CASE ~Taken(x)
    BY <1>1, <1>3, <1>13, <1>17, <2>2 DEF Viewed, FiledAs
  <2>3. QED BY <2>1, <2>2
<1>18. QED BY <1>7, <1>15, <1>16, <1>17, OpenMaps

\* A tab is closed; its document goes.
LEMMA ClosingMaps ==
  ASSUME OnScreen, Tidy', NEW id \in Id, _close_tab(id) PROVE Docs!Next
<1> DEFINE rest == OtherTabs(id)
           new == NewTab(FirstId, 0)
           gone == [disk EXCEPT ![id] = None]
<1>1. Viewed /\ tabs # <<>> /\ FiledAs
  BY ViewOnScreen, FiledWithTabs DEF OnScreen, WithTabs
<1>2. /\ rest \in Seq(TabDict) /\ DOMAIN rest = 1 .. Len(rest) /\ Len(rest) \in Nat
      /\ \A j \in DOMAIN rest : rest[j].id # id /\ \E i \in DOMAIN tabs : rest[j] = tabs[i]
      /\ \A i \in DOMAIN tabs : tabs[i].id # id => \E j \in DOMAIN rest : rest[j] = tabs[i]
  BY TheOthers DEF OnScreen
<1>3. FirstId \in Id /\ new \in TabDict /\ new.id = FirstId /\ new.text = 0
  BY NotebookAssumption DEF Id, TabDict, NewTab, FirstId
<1>4. disk \in [Id -> Nat \union {None}]
  BY DEF OnScreen, Tidy, NotebookShapes
<1>5. gone \in [Id -> Nat \union {None}] /\ \A x \in Id : x # id => gone[x] = disk[x]
  BY <1>4
<1>6. /\ screen' = "on" /\ Taken(id) /\ tabs' = (IF rest = <<>> THEN <<new>> ELSE rest)
      /\ rest = <<>> => disk' = [gone EXCEPT ![FirstId] = 0]
      /\ rest # <<>> => disk' = gone
  BY DEF OnScreen, _close_tab, OtherTabs, FirstId
<1>7. Viewed' /\ FiledAs'
  BY <1>6, ViewOnScreenNext, FiledWithTabsNext DEF OnScreen, WithTabs
<1>8. Current[id] # None
  BY <1>1, <1>6 DEF Viewed
<1> HIDE DEF rest, new, gone
<1>9. CASE rest = <<>>
  <2>1. tabs' = <<new>> /\ DOMAIN tabs' = {1} /\ tabs'[1] = new /\ Len(tabs') = 1
    BY <1>6, <1>9
  <2>2. \A x : Taken(x)' <=> x = FirstId
    BY <1>3, <2>1 DEF Taken
  <2>3. ASSUME NEW e \in Id, e # id PROVE Current[e] = None
    <3>1. ~Taken(e)
      <4> SUFFICES ASSUME Taken(e) PROVE FALSE
        OBVIOUS
      <4>1. PICK i \in DOMAIN tabs : tabs[i].id = e
        BY TabOnScreen DEF OnScreen
      <4>2. DOMAIN rest = {}
        BY <1>9
      <4>3. QED BY <1>2, <2>3, <4>1, <4>2
    <3>2. QED BY <1>1, <3>1 DEF Viewed
  <2>4. Current'[FirstId] = 0 /\ \A x \in Id : x # FirstId => Current'[x] = None
    BY <1>3, <1>7, <2>1, <2>2 DEF Viewed
  <2>5. disk'[FirstId] = 0
    BY <1>3, <1>5, <1>6, <1>9
  <2>6. File(FirstId)' = 0
    BY <2>5, NothingAssumption DEF File
  <2>7. Filed'[FirstId] = 0 /\ \A x \in Id : x # FirstId => Filed'[x] = None
    BY <1>3, <1>7, <2>2, <2>6 DEF FiledAs
  <2>8. /\ \A x \in Id : Current'[x] = IF x = FirstId THEN 0 ELSE None
        /\ \A x \in Id : Filed'[x] = IF x = FirstId THEN 0 ELSE None
    BY <2>4, <2>7
  <2>9. QED BY <1>8, <2>3, <2>8, CloseMaps
<1>10. CASE rest # <<>>
  <2>1. tabs' = rest /\ disk' = gone
    BY <1>6, <1>10
  <2>2. 1 \in DOMAIN rest
    BY <1>2, <1>10, EmptySeq
  <2>3. \A x : Taken(x)' <=> Taken(x) /\ x # id
    <3>1. \A x : Taken(x)' <=> \E j \in DOMAIN rest : rest[j].id = x
      BY <1>2, <2>1 DEF Taken
    <3>2. \A x : Taken(x) <=> \E i \in DOMAIN tabs : tabs[i].id = x
      BY TabsAreTold DEF OnScreen, Taken
    <3>3. QED BY <1>2, <3>1, <3>2
  <2>4. \E e \in Id : e # id /\ Current[e] # None
    <3>1. PICK i \in DOMAIN tabs : rest[1] = tabs[i]
      BY <1>2, <2>2
    <3>2. tabs[i].id \in Id /\ tabs[i].id # id /\ Taken(tabs[i].id)
      BY <1>2, <2>2, <3>1, TabsAreTold DEF OnScreen
    <3>3. QED BY <1>1, <3>2 DEF Viewed
  <2>5. Current'[id] = None /\ Filed'[id] = None
    BY <1>7, <2>3 DEF Viewed, FiledAs
  <2>6. ASSUME NEW x \in Id, x # id PROVE Current'[x] = Current[x] /\ Filed'[x] = Filed[x]
    <3>1. CASE Taken(x)
      <4>1. PICK i \in DOMAIN tabs : tabs[i].id = x
        BY <3>1, TabOnScreen DEF OnScreen
      <4>2. PICK j \in DOMAIN rest : rest[j] = tabs[i]
        BY <1>2, <2>6, <4>1
      <4>3. Current[x] = tabs[i].text
        BY <1>1, <4>1 DEF Viewed
      <4>4. Current'[x] = tabs[i].text
        BY <1>7, <2>1, <4>1, <4>2 DEF Viewed
      <4>5. File(x)' = File(x)
        BY <1>5, <2>1, <2>6 DEF File
      <4>6. QED BY <1>1, <1>7, <2>3, <2>6, <3>1, <4>3, <4>4, <4>5 DEF FiledAs
    <3>2. CASE ~Taken(x)
      BY <1>1, <1>7, <2>3, <3>2 DEF Viewed, FiledAs
    <3>3. QED BY <3>1, <3>2
  <2>7. QED BY <1>8, <2>4, <2>5, <2>6, CloseMaps
<1>11. QED BY <1>9, <1>10

\* The screen comes up: what is filed is shown.
LEMMA LoadMaps ==
  ASSUME Tidy, Tidy', _load PROVE Docs!Next
<1> DEFINE ids == IF index \in {None, <<>>} THEN <<FirstId>> ELSE index
<1>1. /\ screen = "rendered" /\ screen' = "on" /\ index' = ids /\ disk' = disk
      /\ tabs' = [i \in 1 .. Len(ids) |-> NewTab(ids[i], File(ids[i]))]
  BY DEF _load, Tidy, NotebookShapes, FirstId
<1>2. Viewed' /\ tabs' # <<>> /\ FiledAs'
  BY <1>1, ViewOnScreenNext, FiledWithTabsNext DEF OnScreen, WithTabs
<1>3. ids \in Seq(Id)
  <2>1. FirstId \in Id
    BY NotebookAssumption DEF Id, FirstId
  <2>2. <<FirstId>> \in Seq(Id)
    BY <2>1
  <2>3. QED BY <2>2 DEF Tidy, TabsListed
<1>4. ToSet(ids) = Listed
  <2>1. DOMAIN <<FirstId>> = {1} /\ <<FirstId>>[1] = FirstId
    OBVIOUS
  <2>2. ToSet(<<FirstId>>) = {FirstId}
    BY <2>1 DEF ToSet
  <2>3. QED BY <2>2 DEF Listed
<1> HIDE DEF ids
<1>5. DOMAIN ids = 1 .. Len(ids) /\ Len(ids) \in Nat /\ \A i \in DOMAIN ids : ids[i] \in Id
  BY <1>3, LenProperties
<1>6. DOMAIN tabs' = DOMAIN ids /\ \A i \in DOMAIN ids : tabs'[i].id = ids[i] /\ tabs'[i].text = File(ids[i])
  BY <1>1, <1>5 DEF NewTab
<1>7. Len(tabs') \in Nat /\ DOMAIN tabs' = 1 .. Len(tabs')
  BY LenProperties DEF Tidy, NotebookShapes
<1>8. \A x : Taken(x)' <=> x \in Listed
  <2>1. \A x : Taken(x)' <=> \E i \in DOMAIN ids : ids[i] = x
    BY <1>6, <1>7 DEF Taken
  <2>2. QED BY <1>4, <2>1 DEF ToSet
<1>9. \A x \in Id : File(x)' = File(x)
  BY <1>1 DEF File
<1>10. \A x \in Id : Current[x] = IF x \in Listed THEN File(x) ELSE None
  BY <1>1 DEF Current, Filed
<1>11. \A x \in Id : Filed[x] = Current[x]
  BY <1>1 DEF Current
<1>12. \A x \in Id : Filed'[x] = Filed[x]
  BY <1>2, <1>8, <1>9, <1>10, <1>11 DEF FiledAs
<1>13. ASSUME NEW x \in Id PROVE Current'[x] = Current[x]
  <2>1. CASE x \in Listed
    <3>1. PICK i \in DOMAIN ids : ids[i] = x
      BY <1>4, <2>1 DEF ToSet
    <3>2. Current'[x] = File(x)
      BY <1>2, <1>6, <3>1 DEF Viewed
    <3>3. QED BY <1>10, <2>1, <3>2
  <2>2. CASE x \notin Listed
    BY <1>2, <1>8, <1>10, <2>2 DEF Viewed
  <2>3. QED BY <2>1, <2>2
<1>14. QED BY <1>12, <1>13, SaveMaps

\* The files and their index stay, and the screen is not there afterwards.
LEMMA NoScreenMaps ==
  ASSUME screen' # "on", UNCHANGED files PROVE Docs!Next
<1>1. Listed' = Listed /\ \A x \in Id : File(x)' = File(x)
  BY DEF files, Listed, File
<1>2. \A x \in Id : Filed'[x] = Filed[x]
  BY <1>1 DEF Filed
<1>3. \A x \in Id : Current'[x] = Filed[x]
  BY <1>2 DEF Current
<1>4. QED BY <1>2, <1>3, KillMaps

\* A tool writes one document of an index that has it, or gets it.
LEMMA ToolMaps ==
  ASSUME Tidy, screen = "off", NEW id \in Id, NEW ids, NEW text \in (0 .. MaxEdits) \union {disk[id]}, Stored(ids, id, text),
         ids \in Seq(Id), ids # <<>>, ToSet(ids) = Listed \union {id},
         text \in 0 .. MaxEdits \/ id \in Listed
  PROVE  Docs!Next
<1>1. screen' = "off" /\ index' = ids /\ disk' = [disk EXCEPT ![id] = text]
  BY DEF Stored
<1>2. disk \in [Id -> Nat \union {None}] /\ disk[id] \in Nat \union {None}
  BY DEF Tidy, NotebookShapes
<1>3. disk'[id] = text /\ \A x \in Id : x # id => disk'[x] = disk[x]
  BY <1>1, <1>2
<1>4. ids # None
  BY NothingAssumption
<1>5. Listed' = Listed \union {id}
  BY <1>1, <1>4 DEF Listed
<1>6. \A x \in Id : x # id => Filed'[x] = Filed[x]
  BY <1>3, <1>5 DEF Filed, File
<1>7. \A x \in Id : Current[x] = Filed[x] /\ Current'[x] = Filed'[x]
  BY <1>1 DEF Current
<1>8. Filed'[id] = IF text = None THEN 0 ELSE text
  BY <1>3, <1>5 DEF Filed, File
<1>9. Filed[id] # None <=> id \in Listed
  BY <1>2, NothingAssumption DEF Filed, File
<1>10. CASE text \in 0 .. MaxEdits
  <2>1. Filed'[id] = text
    BY <1>8, <1>10, NotebookAssumption, NothingAssumption
  <2>2. CASE id \in Listed
    BY <1>6, <1>7, <1>9, <1>10, <2>1, <2>2, WriteMaps
  <2>3. CASE id \notin Listed
    BY <1>6, <1>7, <1>9, <1>10, <2>1, <2>3, OpenMaps
  <2>4. QED BY <2>2, <2>3
<1>11. CASE text \notin 0 .. MaxEdits
  <2>1. Filed'[id] = Filed[id]
    BY <1>8, <1>11 DEF Filed, File
  <2>2. QED BY <1>6, <1>7, <2>1, SaveMaps
<1>12. QED BY <1>10, <1>11

\* With the index never written, nothing is filed; and what the assistant's tools
\* write is of some change.
FilesTold ==
  /\ edits \in 0 .. MaxEdits /\ index # <<>>
  /\ index = None => \A id \in Id : disk[id] = None
  /\ stored # None => stored.text \in 0 .. MaxEdits /\ (stored.ids # <<>> => index # None)

DocsInv == NotebookInv /\ (~clash => FilesTold)

Indexed == index # None /\ index # <<>>

LEMMA IndexWithTabs == WithTabs => Indexed
<1> SUFFICES ASSUME Tidy, tabs # <<>> PROVE Indexed
  BY DEF WithTabs
<1>1. index = [i \in 1 .. Len(tabs) |-> tabs[i].id]
  BY DEF Tidy, TabsListed, Ids
<1>2. Len(tabs) \in Nat /\ Len(tabs) # 0 /\ DOMAIN tabs = 1 .. Len(tabs) /\ \A i \in DOMAIN tabs : tabs[i].id \in Id
  <2>1. tabs \in Seq(TabDict)
    BY DEF Tidy, NotebookShapes
  <2>2. QED BY <2>1, TabsAreTold, EmptySeq
<1>3. index \in Seq(Id) /\ Len(index) = Len(tabs)
  <2>1. index \in [1 .. Len(tabs) -> Id]
    BY <1>1, <1>2
  <2>2. QED BY <1>2, <2>1
<1>4. QED BY <1>2, <1>3, NothingAssumption DEF Indexed

LEMMA IndexWithTabsNext == WithTabs' => Indexed'
  BY IndexWithTabs, PTL

LEMMA FrontSet ==
  ASSUME NEW id \in Id, NEW s \in Seq(Id) PROVE <<id>> \o s \in Seq(Id) /\ <<id>> \o s # <<>> /\ ToSet(<<id>> \o s) = ToSet(s) \union {id}
<1> DEFINE t == <<id>> \o s
<1>1. DOMAIN s = 1 .. Len(s) /\ Len(s) \in Nat
  BY LenProperties
<1>2. t \in Seq(Id) /\ Len(t) = 1 + Len(s) /\ t[1] = id /\ \A i \in 1 .. Len(s) : t[i + 1] = s[i]
  BY <1>1
<1> HIDE DEF t
<1>3. DOMAIN t = 1 .. Len(s) + 1 /\ t # <<>>
  BY <1>1, <1>2, LenProperties, EmptySeq
<1>4. ASSUME NEW i \in DOMAIN t PROVE t[i] \in ToSet(s) \union {id}
  <2>1. CASE i = 1
    BY <1>2, <2>1
  <2>2. CASE i # 1
    <3>1. i - 1 \in DOMAIN s /\ (i - 1) + 1 = i
      BY <1>1, <1>3, <2>2
    <3>2. t[i] = s[i - 1]
      BY <1>1, <1>2, <3>1
    <3>3. QED BY <3>1, <3>2 DEF ToSet
  <2>3. QED BY <2>1, <2>2
<1>5. ASSUME NEW i \in DOMAIN s PROVE s[i] \in ToSet(t)
  <2>1. i + 1 \in DOMAIN t /\ t[i + 1] = s[i]
    BY <1>1, <1>2, <1>3
  <2>2. QED BY <2>1 DEF ToSet
<1>6. id \in ToSet(t)
  <2>1. 1 \in DOMAIN t
    BY <1>1, <1>3
  <2>2. QED BY <1>2, <2>1 DEF ToSet
<1>7. ToSet(t) = ToSet(s) \union {id}
  BY <1>4, <1>5, <1>6 DEF ToSet
<1>8. QED BY <1>2, <1>3, <1>7 DEF t

\* The notebooks a tool has read of are of the index it has read.
LEMMA NotebooksRead ==
  ASSUME stored.ids \in Seq(Id), Notebooks # <<>>
  PROVE  Head(Notebooks) \in ToSet(stored.ids) /\ Head(Notebooks) \in Id /\ stored.ids # <<>>
<1>1. PICK K \in SUBSET DOMAIN stored.ids : K = {i \in DOMAIN stored.ids : stored.ids[i].kind = "nb"}
  OBVIOUS
<1>2. Notebooks = AtPlaces(stored.ids, K)
  BY <1>1 DEF Notebooks
<1>3. Notebooks \in Seq(Id) /\ Picks(Notebooks, stored.ids, K)
  BY <1>2, PlacesPicked
<1>4. DOMAIN Notebooks = 1 .. Len(Notebooks) /\ 1 \in DOMAIN Notebooks /\ Head(Notebooks) = Notebooks[1]
  BY <1>3, LenProperties, EmptySeq, HeadTailProperties
<1>5. PICK i \in K : Notebooks[1] = stored.ids[i]
  BY <1>3, <1>4 DEF Picks
<1>6. i \in DOMAIN stored.ids /\ stored.ids[i] \in Id
  BY <1>1, LenProperties, ElementOfSeq
<1>7. stored.ids # <<>>
  BY <1>6
<1>8. QED BY <1>4, <1>5, <1>6, <1>7 DEF ToSet

\* Nothing in use, the first number is given.
LEMMA FirstIsNext ==
  ASSUME stored.ids = <<>>, \A id \in Id : disk[id] = None PROVE _next_notebook_id = FirstId
<1> DEFINE used == {id \in Id : id.kind = "nb" /\ (Contains(stored.ids, id) \/ disk[id] # None)}
           S == {id.n : id \in used} \union {0}
<1>1. \A id \in Id : ~Contains(stored.ids, id)
  BY DEF Contains
<1>2. S = {0}
  BY <1>1
<1> HIDE DEF S
<1>3. Max(S) = 0
  BY <1>2 DEF Max
<1>4. _next_notebook_id = [kind |-> "nb", n |-> Max(S) + 1]
  BY DEF _next_notebook_id, S
<1>5. QED BY <1>3, <1>4 DEF FirstId

LEMMA StoredMaps ==
  ASSUME Tidy, FilesTold, ~clash', StoredTool, stored.ids = IF index = None THEN <<>> ELSE index PROVE Docs!Next
<1>1. /\ stored # None /\ stored.ids \in Seq(Id) /\ stored.text \in 0 .. MaxEdits
      /\ index # None => index \in Seq(Id) /\ index # <<>>
  BY DEF StoredTool, Tidy, TabsListed, FilesTold
<1>2. stored.ids # <<>> => index # None /\ index = stored.ids /\ ToSet(stored.ids) = Listed
  BY <1>1 DEF Listed
<1>3. \A ids, id, text : Stored(ids, id, text) => screen = "off"
  BY DEF Stored, Tidy, NotebookShapes
<1>4. ASSUME NEW text \in 0 .. MaxEdits, _stored_create_tab(text) PROVE Docs!Next
  <2>1. PICK id \in Id : id = _next_notebook_id
    BY <1>4 DEF _stored_create_tab
  <2>2. Stored(<<id>> \o stored.ids, id, text) /\ screen = "off"
    BY <1>3, <1>4, <2>1 DEF _stored_create_tab
  <2>3. /\ <<id>> \o stored.ids \in Seq(Id) /\ <<id>> \o stored.ids # <<>>
        /\ ToSet(<<id>> \o stored.ids) = ToSet(stored.ids) \union {id}
    BY <1>1, FrontSet
  <2>4. ToSet(stored.ids) \union {id} = Listed \union {id}
    <3>1. CASE stored.ids = <<>>
      <4>1. index = None
        BY <1>1, <3>1
      <4>2. id = FirstId
        BY <2>1, <3>1, <4>1, FirstIsNext DEF FilesTold
      <4>3. Listed = {FirstId} /\ ToSet(stored.ids) = {}
        BY <3>1, <4>1 DEF Listed, ToSet
      <4>4. QED BY <4>2, <4>3
    <3>2. CASE stored.ids # <<>>
      BY <1>2, <3>2
    <3>3. QED BY <3>1, <3>2
  <2>5. PICK ids : ids = <<id>> \o stored.ids
    OBVIOUS
  <2>6. Stored(ids, id, text) /\ ids \in Seq(Id) /\ ids # <<>> /\ ToSet(ids) = Listed \union {id}
    BY <2>2, <2>3, <2>4, <2>5
  <2>7. text \in (0 .. MaxEdits) \union {disk[id]}
    OBVIOUS
  <2>8. QED BY <2>2, <2>6, <2>7, ToolMaps
<1>5. ASSUME Notebooks # <<>>, Stored(index, Head(Notebooks), stored.text) PROVE Docs!Next
  <2>1. PICK id \in Id : id = Head(Notebooks)
    BY <1>1, <1>5, NotebooksRead
  <2>2. id \in ToSet(stored.ids) /\ stored.ids # <<>>
    BY <1>1, <1>5, <2>1, NotebooksRead
  <2>3. ToSet(index) = Listed \union {id} /\ index \in Seq(Id) /\ index # <<>>
    BY <1>1, <1>2, <2>2
  <2>4. PICK ids, text : ids = index /\ text = stored.text
    OBVIOUS
  <2>5. Stored(ids, id, text) /\ screen = "off" /\ ids \in Seq(Id) /\ ids # <<>> /\ ToSet(ids) = Listed \union {id} /\ text \in 0 .. MaxEdits
    BY <1>1, <1>3, <1>5, <2>1, <2>3, <2>4
  <2>6. text \in (0 .. MaxEdits) \union {disk[id]}
    BY <2>5
  <2>7. QED BY <2>5, <2>6, ToolMaps
<1>6. ASSUME NEW id \in ToSet(stored.ids),
             Stored(<<id>> \o AtPlaces(stored.ids, {i \in DOMAIN stored.ids : stored.ids[i] # id}), id, disk[id])
      PROVE  Docs!Next
  <2> DEFINE K == {i \in DOMAIN stored.ids : stored.ids[i] # id}
             rest == AtPlaces(stored.ids, K)
  <2>1. id \in Id /\ stored.ids # <<>>
    <3>1. PICK i \in DOMAIN stored.ids : stored.ids[i] = id
      BY DEF ToSet
    <3>2. QED BY <1>1, <3>1, LenProperties, ElementOfSeq
  <2>2. K \in SUBSET DOMAIN stored.ids /\ \A i \in DOMAIN stored.ids : i \in K <=> stored.ids[i] # id
    OBVIOUS
  <2>3. Stored(<<id>> \o rest, id, disk[id])
    BY <1>6
  <2> HIDE DEF K
  <2>4. rest \in Seq(Id) /\ Picks(rest, stored.ids, K)
    BY <1>1, <2>2, PlacesPicked
  <2> HIDE DEF rest
  <2>5. ToSet(rest) \union {id} = Listed \union {id}
    <3>1. ASSUME NEW j \in DOMAIN rest PROVE rest[j] \in ToSet(stored.ids)
      BY <2>2, <2>4 DEF Picks, ToSet
    <3>2. ASSUME NEW i \in DOMAIN stored.ids, stored.ids[i] # id PROVE stored.ids[i] \in ToSet(rest)
      BY <2>2, <2>4, <3>2 DEF Picks, ToSet
    <3>3. ToSet(rest) \subseteq ToSet(stored.ids) /\ \A x \in ToSet(stored.ids) : x # id => x \in ToSet(rest)
      BY <3>1, <3>2 DEF ToSet
    <3>4. QED BY <1>2, <2>1, <3>3
  <2>6. PICK ids, text : ids = <<id>> \o rest /\ text = disk[id]
    OBVIOUS
  <2>7. Stored(ids, id, text) /\ screen = "off" /\ ids \in Seq(Id) /\ ids # <<>> /\ ToSet(ids) = Listed \union {id}
    BY <1>3, <2>1, <2>3, <2>4, <2>5, <2>6, FrontSet
  <2>8. text \in (0 .. MaxEdits) \union {disk[id]} /\ id \in Listed
    BY <1>2, <2>1, <2>6
  <2>9. QED BY <2>1, <2>7, <2>8, ToolMaps
<1>7. 0 \in 0 .. MaxEdits
  BY NotebookAssumption
<1>8. QED BY <1>1, <1>4, <1>5, <1>6, <1>7 DEF StoredTool

\* What the steps of an open screen leave of that.
LEMMA OpenScreenSteps ==
  ASSUME Tidy, FilesTold,
         \/ \E kind \in {"nb", "py"} : _create_tab(kind)
         \/ \E id \in Id : _switch_tab(id) \/ _close_tab(id)
         \/ Type \/ _debounced_save \/ _insert_cells \/ write_cells_to_active_tab
         \/ PickFile \/ PickNothing \/ _import_ipynb \/ _import_script \/ _flush_pending_save
  PROVE  /\ screen = "on" /\ stored' = stored /\ edits' \in 0 .. MaxEdits
         /\ screen' = "on" \/ tabs' = tabs
<1>1. edits \in 0 .. MaxEdits /\ (Edited => edits' \in 0 .. MaxEdits)
  BY NotebookAssumption DEF FilesTold, Edited
<1>2. picker # None => screen = "on"
  BY DEF Tidy, TabsListed
<1>3. CASE \E kind \in {"nb", "py"} : _create_tab(kind)
  BY <1>1, <1>3 DEF _create_tab
<1>4. CASE \E id \in Id : _switch_tab(id) \/ _close_tab(id)
  BY <1>1, <1>4 DEF _switch_tab, _close_tab
<1>5. CASE Type \/ _debounced_save \/ _insert_cells \/ write_cells_to_active_tab
  BY <1>1, <1>5 DEF Type, _debounced_save, _insert_cells, write_cells_to_active_tab
<1>6. CASE PickFile \/ PickNothing \/ _import_ipynb \/ _import_script
  BY <1>1, <1>2, <1>6 DEF PickFile, PickNothing, _import_ipynb, _import_script
<1>7. CASE _flush_pending_save
  BY <1>1, <1>7 DEF _flush_pending_save
<1>8. QED BY <1>3, <1>4, <1>5, <1>6, <1>7

LEMMA StillTold ==
  ASSUME Tidy, Tidy', FilesTold, ~clash', NotebookNext PROVE FilesTold'
<1>1. CASE \/ \E kind \in {"nb", "py"} : _create_tab(kind)
           \/ \E id \in Id : _switch_tab(id) \/ _close_tab(id)
           \/ Type \/ _debounced_save \/ _insert_cells \/ write_cells_to_active_tab
           \/ PickFile \/ PickNothing \/ _import_ipynb \/ _import_script \/ _flush_pending_save
  <2>1. /\ screen = "on" /\ stored' = stored /\ edits' \in 0 .. MaxEdits
        /\ screen' = "on" \/ tabs' = tabs
    BY <1>1, OpenScreenSteps
  <2>2. tabs' # <<>>
    <3>1. CASE screen' = "on"
      BY <3>1, ViewOnScreenNext DEF OnScreen
    <3>2. CASE tabs' = tabs
      BY <2>1, <3>2, ViewOnScreen DEF OnScreen
    <3>3. QED BY <2>1, <3>1, <3>2
  <2>3. Indexed'
    BY <2>2, IndexWithTabsNext DEF WithTabs
  <2>4. QED BY <2>1, <2>3 DEF Indexed, FilesTold
<1>2. CASE Mount \/ KilledOnScreen
  BY <1>2 DEF Mount, KilledOnScreen, files, FilesTold
<1>3. CASE EarlyInsert
  BY <1>3 DEF EarlyInsert
<1>4. CASE _load
  <2>1. screen' = "on" /\ stored' = stored /\ edits' = edits
    BY <1>4 DEF _load
  <2>2. tabs' # <<>>
    BY <2>1, ViewOnScreenNext DEF OnScreen
  <2>3. Indexed'
    BY <2>2, IndexWithTabsNext DEF WithTabs
  <2>4. QED BY <2>1, <2>3 DEF Indexed, FilesTold
<1>5. CASE _stored_tabs
  <2>1. /\ edits < MaxEdits /\ edits' = edits + 1 /\ UNCHANGED <<index, disk>>
        /\ stored' = [ids |-> IF index = None THEN <<>> ELSE index, text |-> edits']
    BY <1>5 DEF _stored_tabs, Edited, files
  <2>2. edits' \in 0 .. MaxEdits
    BY <2>1, NotebookAssumption DEF FilesTold
  <2>3. stored'.text = edits' /\ (stored'.ids # <<>> => index # None)
    BY <2>1
  <2>4. QED BY <2>1, <2>2, <2>3 DEF FilesTold
<1>6. CASE StoredTool
  <2>1. stored # None /\ stored.ids \in Seq(Id) /\ (index # None => index \in Seq(Id))
    BY <1>6 DEF StoredTool, Tidy, TabsListed
  <2>2. ASSUME NEW ids, NEW id, NEW text, Stored(ids, id, text), ids # None, ids # <<>> PROVE FilesTold'
    BY <2>2 DEF Stored, FilesTold
  <2>3. ASSUME NEW id \in Id, NEW s \in Seq(Id), NEW text, Stored(<<id>> \o s, id, text) PROVE FilesTold'
    <3>1. PICK ids : ids = <<id>> \o s
      OBVIOUS
    <3>2. ids \in Seq(Id) /\ ids # <<>>
      BY <3>1, FrontSet
    <3>3. Stored(ids, id, text)
      BY <2>3, <3>1
    <3>4. QED BY <2>2, <3>2, <3>3, NothingAssumption
  <2>4. ASSUME NEW text, _stored_create_tab(text) PROVE FilesTold'
    BY <2>1, <2>3, <2>4 DEF _stored_create_tab
  <2>5. ASSUME Notebooks # <<>>, Stored(index, Head(Notebooks), stored.text) PROVE FilesTold'
    <3>1. index # None /\ index # <<>>
      BY <2>1, <2>5, NotebooksRead DEF FilesTold
    <3>2. QED BY <2>2, <2>5, <3>1
  <2>6. ASSUME NEW id \in ToSet(stored.ids),
               Stored(<<id>> \o AtPlaces(stored.ids, {i \in DOMAIN stored.ids : stored.ids[i] # id}), id, disk[id])
        PROVE  FilesTold'
    <3> DEFINE K == {i \in DOMAIN stored.ids : stored.ids[i] # id}
    <3>1. K \in SUBSET DOMAIN stored.ids /\ id \in Id
      BY <2>1, LenProperties, ElementOfSeq DEF ToSet
    <3>2. Stored(<<id>> \o AtPlaces(stored.ids, K), id, disk[id])
      BY <2>6
    <3> HIDE DEF K
    <3>3. AtPlaces(stored.ids, K) \in Seq(Id)
      BY <2>1, <3>1, PlacesPicked
    <3>4. PICK s, text : s = AtPlaces(stored.ids, K) /\ text = disk[id]
      OBVIOUS
    <3>5. s \in Seq(Id) /\ Stored(<<id>> \o s, id, text)
      BY <3>2, <3>3, <3>4
    <3>6. QED BY <2>3, <3>1, <3>5
  <2>7. QED BY <1>6, <2>4, <2>5, <2>6 DEF StoredTool
<1>7. QED BY <1>1, <1>2, <1>3, <1>4, <1>5, <1>6 DEF NotebookNext

LEMMA DocsKept ==
  ASSUME DocsInv, [NotebookNext]_notebookVars PROVE DocsInv'
<1>1. NotebookInv' /\ (~clash' => ~clash)
  BY NotebookKept, ClashStays DEF DocsInv
<1>2. ASSUME ~clash' PROVE FilesTold'
  <2>1. Tidy /\ Tidy' /\ FilesTold
    BY <1>1, <1>2 DEF DocsInv, NotebookInv
  <2>2. CASE NotebookNext
    BY <1>2, <2>1, <2>2, StillTold
  <2>3. CASE UNCHANGED notebookVars
    BY <2>1, <2>3 DEF notebookVars, FilesTold
  <2>4. QED BY <2>2, <2>3
<1>3. QED BY <1>1, <1>2 DEF DocsInv

\* A change is made in place.
LEMMA TypingMaps ==
  ASSUME Tidy, Tidy', FilesTold, screen = "on", screen' = "on", NEW id, Taken(id),
         tabs' = [tabs EXCEPT ![Place(tabs, id)].text = edits'], edits' \in 0 .. MaxEdits, disk' = disk
  PROVE  Docs!Next
<1>1. PICK k \in DOMAIN tabs : tabs[k].id = id /\ Place(tabs, id) = k
  BY TabOnScreen
<1>2. tabs[k] \in TabDict /\ edits' \in Nat
  BY TabsAreTold, NotebookAssumption
<1>3. PICK v : v = [tabs[k] EXCEPT !.text = edits']
  OBVIOUS
<1>4. v \in TabDict /\ v.id = tabs[k].id /\ v.text = edits'
  BY <1>2, <1>3 DEF TabDict
<1>5. Swapped(k, v)
  BY <1>1, <1>3 DEF Swapped
<1>6. \A x : File(x)' = File(x)
  BY DEF File
<1>7. OnScreen /\ OnScreen'
  BY DEF OnScreen
<1>8. File(v.id)' \in {File(v.id), v.text} /\ \A x \in Id : x # v.id => File(x)' = File(x)
  BY <1>6
<1>9. QED BY <1>4, <1>5, <1>7, <1>8, WritingMaps

\* A dict is published and its document saved.
LEMMA PuttingMaps ==
  ASSUME Tidy, Tidy', FilesTold, screen = "on", screen' = "on", NEW id, Taken(id),
         tabs' = [tabs EXCEPT ![Place(tabs, id)] = NewTab(@.id, edits')], edits' \in 0 .. MaxEdits,
         disk' = [disk EXCEPT ![id] = edits']
  PROVE  Docs!Next
<1>1. PICK k \in DOMAIN tabs : tabs[k].id = id /\ Place(tabs, id) = k
  BY TabOnScreen
<1>2. tabs[k] \in TabDict /\ id \in Id /\ edits' \in Nat
  BY <1>1, TabsAreTold, NotebookAssumption
<1>3. PICK v : v = NewTab(tabs[k].id, edits')
  OBVIOUS
<1>4. v \in TabDict /\ v.id = tabs[k].id /\ v.text = edits'
  BY <1>1, <1>2, <1>3 DEF TabDict, NewTab
<1>5. Swapped(k, v)
  BY <1>1, <1>3 DEF Swapped
<1>6. Written(id, edits')
  BY <1>2, WhatIsWritten
<1>7. OnScreen /\ OnScreen'
  BY DEF OnScreen
<1>8. File(v.id)' \in {File(v.id), v.text} /\ \A x \in Id : x # v.id => File(x)' = File(x)
  BY <1>1, <1>4, <1>6 DEF Written
<1>9. QED BY <1>4, <1>5, <1>7, <1>8, WritingMaps

\* The screen saves some of its tabs, or leaves with all of them saved.
LEMMA SavesMap ==
  ASSUME Tidy, Tidy', FilesTold,
         \/ \E id \in Id : _switch_tab(id)
         \/ _debounced_save \/ PickFile \/ PickNothing \/ _flush_pending_save
  PROVE  Docs!Next
<1>1. OnScreen /\ tabs' = tabs /\ screen' \in {"on", "off"}
  <2>1. screen = "on"
    BY OpenScreenSteps
  <2>2. tabs' = tabs /\ screen' \in {screen, "off"}
    BY DEF _switch_tab, _debounced_save, PickFile, PickNothing, _flush_pending_save
  <2>3. QED BY <2>1, <2>2 DEF OnScreen
<1>2. CASE disk' = disk
  <2>1. \A i \in DOMAIN tabs : File(tabs[i].id)' \in {File(tabs[i].id), tabs[i].text}
    BY <1>1, <1>2 DEF File
  <2>2. QED BY <1>1, <2>1, SavingMaps
<1>3. ASSUME NEW id, Taken(id), disk' = [disk EXCEPT ![id] = _get_tab(id).text] PROVE Docs!Next
  <2>1. PICK k \in DOMAIN tabs : tabs[k].id = id /\ _get_tab(id) = tabs[k]
    BY <1>3, TabOnScreen
  <2>2. id \in Id /\ tabs[k].text \in Nat
    BY <2>1, TabsAreTold
  <2>3. Written(id, tabs[k].text)
    BY <1>3, <2>1, <2>2, WhatIsWritten
  <2>4. ASSUME NEW i \in DOMAIN tabs PROVE File(tabs[i].id)' \in {File(tabs[i].id), tabs[i].text}
    <3>1. PICK x \in Id : x = tabs[i].id
      BY TabsAreTold
    <3>2. CASE x = id
      <4>1. i = k
        BY <2>1, <3>1, <3>2, TabsAreTold
      <4>2. File(x)' = tabs[i].text
        BY <2>3, <3>2, <4>1 DEF Written
      <4>3. QED BY <1>1, <3>1, <4>2
    <3>3. CASE x # id
      <4>1. File(x)' = File(x)
        BY <2>3, <3>3 DEF Written
      <4>2. QED BY <1>1, <3>1, <4>1
    <3>4. QED BY <3>2, <3>3
  <2>5. QED BY <1>1, <2>4, SavingMaps
<1>4. CASE \E id \in Id : _switch_tab(id)
  <2>1. disk' = [disk EXCEPT ![active_tab_id] = _get_tab(active_tab_id).text] /\ Taken(active_tab_id)
    BY <1>1, <1>4 DEF _switch_tab, Saved, OnScreen, Tidy, TabsListed
  <2>2. QED BY <1>3, <2>1
<1>5. CASE _debounced_save
  <2>1. disk' = disk \/ (Taken(timer) /\ disk' = [disk EXCEPT ![timer] = _get_tab(timer).text])
    BY <1>5 DEF _debounced_save, Saved
  <2>2. QED BY <1>2, <1>3, <2>1
<1>6. CASE PickFile \/ PickNothing
  <2>1. disk' = disk
    BY <1>6 DEF PickFile, PickNothing, files
  <2>2. QED BY <1>2, <2>1
<1>7. CASE _flush_pending_save
  <2>1. screen' = "off"
    BY <1>7 DEF _flush_pending_save
  <2>2. \A i \in DOMAIN tabs : Kept(i)'
    BY <1>1 DEF Tidy
  <2>3. \A i \in DOMAIN tabs : File(tabs[i].id)' = tabs[i].text
    BY <1>1, <2>1, <2>2 DEF Kept
  <2>4. \A i \in DOMAIN tabs : File(tabs[i].id)' \in {File(tabs[i].id), tabs[i].text}
    BY <2>3
  <2>5. QED BY <1>1, <2>4, SavingMaps
<1>8. QED BY <1>4, <1>5, <1>6, <1>7

\* Every change of a tab is one of its document.
LEMMA ChangesMap ==
  ASSUME Tidy, Tidy', FilesTold, Type \/ _insert_cells \/ _import_ipynb \/ _import_script PROVE Docs!Next
<1>1. screen = "on" /\ screen' = "on" /\ edits' \in 0 .. MaxEdits
  <2>1. screen = "on" /\ edits' \in 0 .. MaxEdits
    BY OpenScreenSteps
  <2>2. screen' = screen
    BY DEF Type, _insert_cells, _import_ipynb, _import_script
  <2>3. QED BY <2>1, <2>2
<1>2. Taken(active_tab_id) /\ (picker # None => Taken(picker.id))
  BY <1>1 DEF Tidy, TabsListed
<1>3. CASE Type
  BY <1>1, <1>2, <1>3, TypingMaps DEF Type, files
<1>4. CASE _import_script
  BY <1>1, <1>2, <1>4, TypingMaps DEF _import_script, files
<1>5. CASE _insert_cells
  BY <1>1, <1>2, <1>5, PuttingMaps DEF _insert_cells, Saved
<1>6. CASE _import_ipynb
  <2> DEFINE current == tabs[Place(tabs, picker.id)].pub = picker.pub
  <2>1. Taken(picker.id) /\ disk' = [disk EXCEPT ![picker.id] = edits']
    BY <1>2, <1>6 DEF _import_ipynb
  <2>2. CASE current
    <3>1. tabs' = [tabs EXCEPT ![Place(tabs, picker.id)] = NewTab(@.id, edits')]
      BY <1>6, <2>2 DEF _import_ipynb
    <3>2. QED BY <1>1, <2>1, <3>1, PuttingMaps
  <2>3. CASE ~current
    <3>1. tabs' = tabs
      BY <1>6, <2>3 DEF _import_ipynb
    <3>2. PICK k \in DOMAIN tabs : tabs[k].id = picker.id
      BY <2>1, TabOnScreen
    <3>3. PICK id \in Id : id = picker.id
      BY <3>2, TabsAreTold
    <3>4. edits' \in Nat
      BY <1>1, NotebookAssumption
    <3>5. Written(id, edits')
      BY <2>1, <3>3, <3>4, WhatIsWritten
    <3>6. Taken(id) /\ OnScreen /\ OnScreen'
      BY <1>1, <2>1, <3>3 DEF OnScreen
    <3>7. PICK text \in 0 .. MaxEdits : text = edits'
      BY <1>1
    <3>8. File(id)' = text /\ \A x \in Id : x # id => File(x)' = File(x)
      BY <3>5, <3>7 DEF Written
    <3>9. QED BY <3>1, <3>6, <3>8, UnseenImportMaps
  <2>4. QED BY <2>2, <2>3
<1>7. QED BY <1>3, <1>4, <1>5, <1>6

LEMMA TabsMap ==
  ASSUME Tidy, Tidy', FilesTold, ~clash',
         \/ \E kind \in {"nb", "py"} : _create_tab(kind)
         \/ write_cells_to_active_tab
         \/ \E id \in Id : _close_tab(id)
  PROVE  Docs!Next
<1>1. OnScreen /\ edits' \in 0 .. MaxEdits
  BY OpenScreenSteps DEF OnScreen
<1>2. ASSUME NEW kind \in {"nb", "py"}, _create_tab(kind) PROVE Docs!Next
  <2>1. Opened(kind, 0) /\ screen' = screen /\ 0 \in 0 .. MaxEdits
    BY <1>2, NotebookAssumption DEF _create_tab
  <2>2. QED BY <1>1, <2>1, OpeningMaps
<1>3. CASE write_cells_to_active_tab
  <2>1. Opened("nb", edits') /\ screen' = screen
    BY <1>3 DEF write_cells_to_active_tab
  <2>2. PICK text \in 0 .. MaxEdits : text = edits'
    BY <1>1
  <2>3. PICK kind \in {"nb", "py"} : kind = "nb"
    OBVIOUS
  <2>4. Opened(kind, text)
    BY <2>1, <2>2, <2>3
  <2>5. QED BY <1>1, <2>1, <2>4, OpeningMaps
<1>4. ASSUME NEW id \in Id, _close_tab(id) PROVE Docs!Next
  BY <1>1, <1>4, ClosingMaps
<1>5. QED BY <1>2, <1>3, <1>4

LEMMA VisitsMap ==
  ASSUME Tidy, Tidy', ~clash', Mount \/ EarlyInsert \/ _load \/ _stored_tabs \/ KilledOnScreen PROVE Docs!Next
<1>1. CASE Mount \/ _stored_tabs \/ KilledOnScreen
  <2>1. screen' # "on" /\ UNCHANGED files
    BY <1>1 DEF Mount, _stored_tabs, KilledOnScreen
  <2>2. QED BY <2>1, NoScreenMaps
<1>2. CASE EarlyInsert
  BY <1>2 DEF EarlyInsert
<1>3. CASE _load
  BY <1>3, LoadMaps
<1>4. QED BY <1>1, <1>2, <1>3

LEMMA ScreenRests == UNCHANGED notebookVars => UNCHANGED Docs!docVars
<1> SUFFICES ASSUME UNCHANGED notebookVars PROVE UNCHANGED Docs!docVars
  OBVIOUS
<1>1. Listed' = Listed /\ \A x : File(x)' = File(x)
  BY DEF notebookVars, Listed, File
<1>2. Filed' = Filed
  BY <1>1 DEF Filed
<1>3. OnTabs' = OnTabs
  <2>1. \A x : Taken(x)' <=> Taken(x)
    BY DEF notebookVars, Taken
  <2>2. \A x : _get_tab(x)' = _get_tab(x)
    BY DEF notebookVars, _get_tab, Place
  <2>3. QED BY <2>1, <2>2 DEF OnTabs
<1>4. Current' = Current
  BY <1>2, <1>3 DEF notebookVars, Current
<1>5. QED BY <1>2, <1>4 DEF Docs!docVars

LEMMA StepsMap ==
  ASSUME DocsInv, [NotebookNext]_notebookVars, Apart PROVE [Docs!Next]_(Docs!docVars)
<1>1. DocsInv' /\ ~clash' /\ ~clash
  BY DocsKept, ClashStays DEF DocsInv, Apart
<1>2. Tidy /\ Tidy' /\ FilesTold
  BY <1>1 DEF DocsInv, NotebookInv
<1>3. CASE NotebookNext
  <2>1. CASE (\E id \in Id : _switch_tab(id)) \/ _debounced_save \/ PickFile \/ PickNothing \/ _flush_pending_save
    BY <1>2, <2>1, SavesMap
  <2>2. CASE Type \/ _insert_cells \/ _import_ipynb \/ _import_script
    BY <1>2, <2>2, ChangesMap
  <2>3. CASE (\E kind \in {"nb", "py"} : _create_tab(kind)) \/ write_cells_to_active_tab \/ \E id \in Id : _close_tab(id)
    BY <1>1, <1>2, <2>3, TabsMap
  <2>4. CASE Mount \/ EarlyInsert \/ _load \/ _stored_tabs \/ KilledOnScreen
    BY <1>1, <1>2, <2>4, VisitsMap
  <2>5. CASE StoredTool
    BY <1>1, <1>2, <2>5, StoredMaps DEF Apart
  <2>6. QED BY <1>3, <2>1, <2>2, <2>3, <2>4, <2>5 DEF NotebookNext
<1>4. CASE UNCHANGED notebookVars
  BY <1>4, ScreenRests
<1>5. QED BY <1>3, <1>4

LEMMA DocsInitially == NotebookInit => DocsInv /\ Docs!Init
<1> SUFFICES ASSUME NotebookInit PROVE DocsInv /\ Docs!Init
  OBVIOUS
<1>1. /\ screen = "off" /\ index = None /\ disk = [id \in Id |-> None] /\ stored = None /\ edits = 0
  BY DEF NotebookInit
<1>2. FilesTold
  <2>1. 0 \in 0 .. MaxEdits /\ <<>> \in Seq(Id)
    BY NotebookAssumption
  <2>2. index # <<>>
    BY <1>1, <2>1, NothingAssumption
  <2>3. QED BY <1>1, <2>1, <2>2 DEF FilesTold
<1>3. Listed = {FirstId} /\ \A id \in Id : File(id) = 0
  BY <1>1 DEF Listed, File
<1>4. Filed = [id \in Id |-> IF id = FirstId THEN 0 ELSE None]
  BY <1>3 DEF Filed
<1>5. Current = Filed
  BY <1>1 DEF Current
<1>6. QED BY <1>2, <1>4, <1>5, NotebookInitially DEF DocsInv, Docs!Init, Docs!Only

\* As long as no id is given twice, no tool writes under an open screen and none
\* writes an index that has changed since it was read, the documents of a session
\* are what Documents says of them, however tabs, debounced saves, dialogs, visits
\* to the screen and the assistant's tools interleave (notebook_view.py,
\* script_view.py, storage_service.py): such a step is one of Documents, or none,
\* and a behaviour of such steps only is one that Documents allows.
THEOREM DocumentsAreKept ==
  NotebookSpec => Docs!Init /\ KeepsDocuments /\ ([][Apart]_notebookVars => Docs!Spec)
<1>1. DocsInv /\ [NotebookNext]_notebookVars => DocsInv'
  BY DocsKept
<1>2. DocsInv /\ [NotebookNext]_notebookVars => (Apart => [Docs!Next]_(Docs!docVars))
  BY StepsMap
<1>3. DocsInv /\ [NotebookNext]_notebookVars /\ [Apart]_notebookVars => [Docs!Next]_(Docs!docVars)
  BY <1>2, ScreenRests
<1>4. NotebookInit => DocsInv /\ Docs!Init
  BY DocsInitially
<1>5. QED BY <1>1, <1>2, <1>3, <1>4, PTL DEF NotebookSpec, KeepsDocuments, Docs!Spec

----------------------------------------------------------------------------
(* CellOutputs *)

Entry == [kind : OutputKind, at : Nat]

\* The first n entries, or as many of them as a view shows.
Shown(s, n) == SubSeq(s, 1, IF n < MaxControls THEN n ELSE MaxControls)

OutputsTypes ==
  /\ outs \in Seq(Entry) /\ outs_rev \in Nat \ {0}
  /\ cache.rev \in 0 .. outs_rev /\ cache.count \in Nat
  /\ cache.rev = 0 => cache = NoCache
  /\ removed \in BOOLEAN /\ skewed \in BOOLEAN

\* Until an entry goes the cache is what a view of that many entries shows.
CacheHolds == ~removed /\ ~skewed => cache.count <= Len(outs) /\ cache.controls = Shown(outs, cache.count)

CacheIsFresh == cache.rev = outs_rev => ~removed /\ cache.count = Len(outs)

OutputsInv == OutputsTypes /\ CacheHolds /\ CacheIsFresh

LEMMA ShownIsPrefix ==
  ASSUME NEW S, NEW s \in Seq(S), NEW t \in Seq(S), NEW n \in Nat, n <= Len(s), n <= Len(t),
         \A i \in 1 .. n : s[i] = t[i]
  PROVE  Shown(s, n) = Shown(t, n)
<1> DEFINE m == IF n < MaxControls THEN n ELSE MaxControls
<1>1. m \in Nat /\ m <= n /\ Len(s) \in Nat /\ Len(t) \in Nat
  BY OutputsAssumption, LenProperties
<1>2. Shown(s, n) = SubSeq(s, 1, m) /\ Shown(t, n) = SubSeq(t, 1, m)
  BY DEF Shown
<1> HIDE DEF m
<1>3. \A i \in 1 .. m : s[i] \in S /\ t[i] \in S /\ s[i] = t[i]
  BY <1>1, ElementOfSeq
<1>4. /\ SubSeq(s, 1, m) \in Seq(S) /\ Len(SubSeq(s, 1, m)) = m /\ \A i \in 1 .. m : SubSeq(s, 1, m)[i] = s[i]
      /\ SubSeq(t, 1, m) \in Seq(S) /\ Len(SubSeq(t, 1, m)) = m /\ \A i \in 1 .. m : SubSeq(t, 1, m)[i] = t[i]
  BY <1>1, <1>3, SubSeqProperties
<1>5. QED BY <1>2, <1>3, <1>4, SeqEqual

\* The rest of a list is put behind what is shown of its first n entries.
LEMMA RestIsShown ==
  ASSUME NEW S, NEW s \in Seq(S), NEW n \in Nat, n <= Len(s)
  PROVE  LET c == Shown(s, n)
             rest == SubSeq(s, n + 1, Len(s))
         IN  c \o SubSeq(rest, 1, IF Len(rest) + Len(c) < MaxControls THEN Len(rest) ELSE MaxControls - Len(c))
               = Shown(s, Len(s))
<1> DEFINE c == Shown(s, n)
           rest == SubSeq(s, n + 1, Len(s))
           m == IF n < MaxControls THEN n ELSE MaxControls
           k == IF Len(rest) + Len(c) < MaxControls THEN Len(rest) ELSE MaxControls - Len(c)
           r == SubSeq(rest, 1, k)
           l == IF Len(s) < MaxControls THEN Len(s) ELSE MaxControls
<1>1. m \in Nat /\ m <= n /\ Len(s) \in Nat /\ MaxControls \in Nat \ {0}
  BY OutputsAssumption, LenProperties
<1>2. \A i \in 1 .. Len(s) : s[i] \in S
  BY ElementOfSeq
<1>3. c \in Seq(S) /\ Len(c) = m
  BY <1>1, <1>2, SubSeqProperties DEF Shown
<1>4. rest \in Seq(S) /\ Len(rest) = Len(s) - n /\ \A i \in 1 .. Len(s) - n : rest[i] = s[n + i]
  BY <1>1, <1>2, SubSeqProperties
<1> HIDE DEF rest
<1>5. k \in Nat /\ k <= Len(s) - n /\ l \in Nat /\ l <= Len(s) /\ (n >= MaxControls => k = 0 /\ l = MaxControls) /\ (n < MaxControls => l = n + k)
  BY <1>1, <1>3, <1>4
<1>6. c = SubSeq(s, 1, m) /\ Shown(s, Len(s)) = SubSeq(s, 1, l)
  BY DEF Shown
<1> HIDE DEF c
<1>7. r = SubSeq(s, n + 1, n + k)
  <2>1. \A i \in 1 .. k : rest[i] \in S /\ rest[i] = s[n + i]
    BY <1>1, <1>2, <1>4, <1>5
  <2>2. \A i \in n + 1 .. n + k : s[i] \in S
    BY <1>1, <1>2, <1>5
  <2> HIDE DEF k
  <2>3. r \in Seq(S) /\ Len(r) = k /\ \A i \in 1 .. k : r[i] = rest[i]
    BY <1>5, <2>1, SubSeqProperties
  <2>4. /\ SubSeq(s, n + 1, n + k) \in Seq(S) /\ Len(SubSeq(s, n + 1, n + k)) = k
        /\ \A i \in 1 .. k : SubSeq(s, n + 1, n + k)[i] = s[n + i]
    BY <1>5, <2>2, SubSeqProperties
  <2>5. QED BY <2>1, <2>3, <2>4, SeqEqual
<1> HIDE DEF r, k, l, m
<1>8. CASE n < MaxControls
  <2>1. m = n /\ l = n + k
    BY <1>5, <1>8 DEF m
  <2>2. SubSeq(s, 1, n) \o SubSeq(s, n + 1, n + k) = SubSeq(s, 1, n + k)
    BY <1>1, <1>5, ConcatAdjacentSubSeq
  <2>3. c \o r = Shown(s, Len(s))
    BY <1>6, <1>7, <2>1, <2>2
  <2>4. QED BY <2>3 DEF c, r, k, rest
<1>9. CASE n >= MaxControls
  <2>1. m = l /\ k = 0
    BY <1>1, <1>5, <1>9 DEF m
  <2>2. r = <<>>
    BY <1>7, <2>1, SubSeqEmpty
  <2>3. c \o r = Shown(s, Len(s))
    BY <1>3, <1>6, <2>1, <2>2, ConcatEmptySeq
  <2>4. QED BY <2>3 DEF c, r, k, rest
<1>10. n < MaxControls \/ n >= MaxControls
  BY <1>1
<1>11. QED BY <1>8, <1>9, <1>10, Zenon

\* What is shown of the first n entries stays when entries are added.
LEMMA ShownStays ==
  ASSUME NEW s \in Seq(Entry), NEW e \in Entry, NEW n \in Nat, n <= Len(s)
  PROVE  Shown(Append(s, e), n) = Shown(s, n) /\ n <= Len(Append(s, e))
<1>1. PICK t : t = Append(s, e)
  OBVIOUS
<1>2. t \in Seq(Entry) /\ Len(t) = Len(s) + 1 /\ Len(s) \in Nat
  BY <1>1, AppendProperties, LenProperties
<1>3. \A i \in 1 .. n : t[i] = s[i]
  BY <1>1, <1>2, AppendProperties
<1>4. n <= Len(t)
  BY <1>2
<1>5. Shown(t, n) = Shown(s, n)
  BY <1>2, <1>3, <1>4, ShownIsPrefix
<1>6. QED BY <1>1, <1>4, <1>5

\* An entry is printed: unless another goes for it, it comes below the rest.
LEMMA Printed ==
  ASSUME OutputsInv, NEW kind \in OutputKind, _append_output(kind)
  PROVE  OutputsInv'
<1> DEFINE room == IF Len(outs) >= MaxEntries THEN Tail(outs) ELSE outs
           e == [kind |-> kind, at |-> outs_rev]
           t == Append(room, e)
<1>1. OutputsTypes /\ CacheHolds /\ CacheIsFresh
  BY DEF OutputsInv
<1>2. outs \in Seq(Entry) /\ Len(outs) \in Nat /\ outs_rev \in Nat \ {0} /\ e \in Entry
  BY <1>1, LenProperties DEF OutputsTypes, Entry
<1>3. room \in Seq(Entry) /\ (room = outs \/ Len(room) = Len(outs) - 1)
  <2>1. CASE Len(outs) >= MaxEntries
    <3>1. outs # <<>>
      BY <1>2, <2>1, OutputsAssumption
    <3>2. Tail(outs) \in Seq(Entry) /\ Len(Tail(outs)) = Len(outs) - 1
      BY <1>2, <3>1, HeadTailProperties
    <3>3. room = Tail(outs)
      BY <2>1
    <3> HIDE DEF room
    <3>4. QED BY <3>2, <3>3, Zenon
  <2>2. CASE ~(Len(outs) >= MaxEntries)
    BY <1>2, <2>2
  <2>3. QED BY <2>1, <2>2
<1>4. /\ outs_rev' = outs_rev + 1 /\ outs' = enforce_image_budget(t)
      /\ removed' = (removed \/ Len(outs') <= Len(outs)) /\ UNCHANGED <<cache, skewed>>
  BY DEF _append_output, Changes
<1> HIDE DEF room, e
<1>5. t \in Seq(Entry) /\ Len(t) = Len(room) + 1
  BY <1>2, <1>3, AppendProperties
<1>6. PICK K \in SUBSET DOMAIN t : enforce_image_budget(t) = AtPlaces(t, K)
  BY DEF enforce_image_budget
<1>7. outs' \in Seq(Entry) /\ Len(outs') <= Len(t) /\ (Len(outs') = Len(t) => outs' = t)
  BY <1>4, <1>5, <1>6, AllPlaces, PlacesPicked
<1>8. OutputsTypes'
  BY <1>1, <1>2, <1>4, <1>7 DEF OutputsTypes
<1>9. CacheHolds'
  <2>1. SUFFICES ASSUME ~removed', ~skewed' PROVE cache'.count <= Len(outs') /\ cache'.controls = Shown(outs', cache'.count)
    BY DEF CacheHolds
  <2>2. ~removed /\ ~skewed /\ Len(outs') > Len(outs)
    <3>1. ~removed /\ ~skewed /\ ~(Len(outs') <= Len(outs))
      BY <1>4, <2>1
    <3>2. Len(outs') \in Nat
      BY <1>7, LenProperties
    <3>3. QED BY <1>2, <3>1, <3>2
  <2>3. room = outs /\ outs' = Append(outs, e)
    BY <1>2, <1>3, <1>5, <1>7, <2>2, LenProperties
  <2>4. cache.count \in Nat /\ cache.count <= Len(outs) /\ cache.controls = Shown(outs, cache.count)
    BY <1>1, <2>2 DEF CacheHolds, OutputsTypes
  <2>5. Shown(Append(outs, e), cache.count) = Shown(outs, cache.count) /\ cache.count <= Len(Append(outs, e))
    BY <1>2, <2>4, ShownStays
  <2>6. QED BY <1>4, <2>3, <2>4, <2>5
<1>10. CacheIsFresh'
  BY <1>1, <1>2, <1>4 DEF CacheIsFresh, OutputsTypes
<1>11. QED BY <1>8, <1>9, <1>10 DEF OutputsInv

LEMMA Cleared ==
  ASSUME OutputsInv, Clears PROVE OutputsInv'
<1>1. OutputsTypes /\ CacheHolds /\ CacheIsFresh
  BY DEF OutputsInv
<1>2. outs_rev' = outs_rev + 1 /\ outs' = <<>> /\ removed' = (removed \/ outs # <<>>) /\ UNCHANGED <<cache, skewed>>
  BY DEF Clears, Changes
<1>3. outs_rev \in Nat \ {0} /\ outs' \in Seq(Entry)
  BY <1>1, <1>2, EmptySeq DEF OutputsTypes
<1>4. OutputsTypes'
  BY <1>1, <1>2, <1>3 DEF OutputsTypes
<1>5. CacheHolds'
  <2>1. ~removed' => ~removed /\ outs' = outs
    BY <1>1, <1>2 DEF OutputsTypes
  <2>2. QED BY <1>1, <1>2, <2>1 DEF CacheHolds
<1>6. CacheIsFresh'
  BY <1>1, <1>2, <1>3 DEF CacheIsFresh, OutputsTypes
<1>7. QED BY <1>4, <1>5, <1>6 DEF OutputsInv

LEMMA Rendered ==
  ASSUME OutputsInv, _get_output_controls PROVE OutputsInv'
<1>1. OutputsTypes /\ CacheHolds
  BY DEF OutputsInv
<1>2. /\ outs \in Seq(Entry) /\ Len(outs) \in Nat /\ outs_rev \in Nat \ {0} /\ cache.count \in Nat
      /\ removed \in BOOLEAN /\ skewed \in BOOLEAN
  BY <1>1, LenProperties DEF OutputsTypes
<1>3. /\ UNCHANGED <<outs, outs_rev>> /\ removed' = FALSE /\ skewed' = (Len(outs) > cache.count /\ (skewed \/ removed))
      /\ cache'.rev = outs_rev /\ cache'.count = Len(outs)
      /\ cache'.controls = IF Len(outs) <= cache.count /\ cache.rev # 0
                           THEN parse_outputs_to_controls(outs) ELSE cache.controls \o Room(NewEntries)
  BY DEF _get_output_controls
<1>4. OutputsTypes'
  <2>1. skewed' \in BOOLEAN
    BY <1>2, <1>3
  <2>2. outs_rev \in 0 .. outs_rev /\ outs_rev # 0
    BY <1>2
  <2>3. QED BY <1>2, <1>3, <2>1, <2>2 DEF OutputsTypes
<1>5. CacheIsFresh'
  BY <1>3 DEF CacheIsFresh
<1>6. ASSUME cache.controls = Shown(outs, cache.count), cache.count <= Len(outs)
      PROVE  cache.controls \o Room(NewEntries) = Shown(outs, Len(outs))
  BY <1>2, <1>6, RestIsShown DEF Room, NewEntries
<1>7. ASSUME ~skewed' PROVE cache'.controls = Shown(outs, Len(outs))
  <2>1. CASE Len(outs) <= cache.count /\ cache.rev # 0
    BY <1>3, <2>1 DEF parse_outputs_to_controls, Shown
  <2>2. CASE Len(outs) > cache.count
    <3>1. cache.controls = Shown(outs, cache.count) /\ cache.count <= Len(outs)
      BY <1>1, <1>2, <1>3, <1>7, <2>2 DEF CacheHolds
    <3>2. cache'.controls = cache.controls \o Room(NewEntries)
      BY <1>2, <1>3, <2>2
    <3>3. cache.controls \o Room(NewEntries) = Shown(outs, Len(outs))
      BY <1>6, <3>1
    <3>4. QED BY <3>2, <3>3
  <2>3. CASE Len(outs) <= cache.count /\ cache.rev = 0
    <3>1. cache.count = 0 /\ cache.controls = <<>>
      BY <1>1, <2>3 DEF OutputsTypes, NoCache
    <3>2. Len(outs) = 0
      BY <1>2, <2>3, <3>1
    <3>3. Shown(outs, 0) = <<>>
      BY OutputsAssumption, SubSeqEmpty DEF Shown
    <3>4. cache.controls = Shown(outs, cache.count)
      BY <3>1, <3>3
    <3>5. cache.controls \o Room(NewEntries) = Shown(outs, Len(outs))
      BY <1>6, <3>1, <3>2, <3>4
    <3>6. QED BY <1>3, <2>3, <3>5
  <2>4. QED BY <1>2, <2>1, <2>2, <2>3
<1>8. CacheHolds'
  BY <1>2, <1>3, <1>7 DEF CacheHolds
<1>9. QED BY <1>4, <1>5, <1>8 DEF OutputsInv

\* However much is printed, cleared, rotated out and evicted between two renders,
\* a view that is up to date shows the first entries of its cell, unless some
\* went and more came between the two (_get_output_controls, _append_output).
THEOREM ViewsStayCurrent == OutputsSpec => []ViewIsCurrent
<1>1. OutputsInit => OutputsInv
  <2> SUFFICES ASSUME OutputsInit PROVE OutputsInv
    OBVIOUS
  <2>1. /\ outs_rev = 1 /\ cache = NoCache /\ removed = FALSE /\ skewed = FALSE
        /\ outs = <<>> \/ \E k \in OutputKind : outs = <<[kind |-> k, at |-> 0]>>
    BY DEF OutputsInit
  <2>2. outs \in Seq(Entry)
    <3>1. \A k \in OutputKind : [kind |-> k, at |-> 0] \in Entry
      BY DEF Entry
    <3>2. \A x \in Entry : <<x>> \in Seq(Entry)
      OBVIOUS
    <3>3. QED BY <2>1, <3>1, <3>2, EmptySeq
  <2>3. cache.rev = 0 /\ cache.count = 0 /\ cache.controls = <<>>
    BY <2>1 DEF NoCache
  <2>4. Shown(outs, 0) = <<>> /\ Len(outs) \in Nat
    BY <2>2, OutputsAssumption, SubSeqEmpty, LenProperties DEF Shown
  <2>5. OutputsTypes
    <3>1. outs_rev \in Nat \ {0} /\ cache.rev \in 0 .. outs_rev /\ cache.count \in Nat
      BY <2>1, <2>3
    <3>2. QED BY <2>1, <2>2, <3>1, Zenon DEF OutputsTypes
  <2>6. CacheHolds
    BY <2>3, <2>4 DEF CacheHolds
  <2>7. CacheIsFresh
    BY <2>1, <2>3 DEF CacheIsFresh
  <2>8. QED BY <2>5, <2>6, <2>7 DEF OutputsInv
<1>2. OutputsInv /\ [OutputsNext]_outputVars => OutputsInv'
  <2> SUFFICES ASSUME OutputsInv, [OutputsNext]_outputVars PROVE OutputsInv'
    OBVIOUS
  <2>1. CASE Prints \/ StopTells
    <3>1. "stream" \in OutputKind
      BY DEF OutputKind, Bytes
    <3>2. QED BY <2>1, <3>1, Printed DEF Prints, StopTells
  <2>2. CASE RunClears \/ _clear_cell_output
    BY <2>2, Cleared DEF RunClears, _clear_cell_output
  <2>3. CASE _get_output_controls
    BY <2>3, Rendered
  <2>4. CASE Remount
    <3>1. UNCHANGED <<outs, outs_rev>> /\ cache' = NoCache /\ removed' = FALSE /\ skewed' = FALSE
      BY <2>4 DEF Remount
    <3>2. outs \in Seq(Entry) /\ outs_rev \in Nat \ {0}
      BY DEF OutputsInv, OutputsTypes
    <3>3. cache'.rev = 0 /\ cache'.count = 0 /\ cache'.controls = <<>>
      BY <3>1 DEF NoCache
    <3>4. Shown(outs, 0) = <<>> /\ Len(outs) \in Nat
      BY <3>2, OutputsAssumption, SubSeqEmpty, LenProperties DEF Shown
    <3>5. OutputsTypes'
      <4>1. cache'.rev \in 0 .. outs_rev' /\ cache'.count \in Nat /\ outs_rev' \in Nat \ {0} /\ outs' \in Seq(Entry)
        BY <3>1, <3>2, <3>3
      <4>2. QED BY <3>1, <4>1, Zenon DEF OutputsTypes
    <3>6. CacheHolds'
      <4>1. Shown(outs', 0) = <<>> /\ 0 <= Len(outs')
        BY <3>1, <3>4
      <4>2. QED BY <3>3, <4>1 DEF CacheHolds
    <3>7. CacheIsFresh'
      BY <3>1, <3>2, <3>3 DEF CacheIsFresh
    <3>8. QED BY <3>5, <3>6, <3>7 DEF OutputsInv
  <2>5. CASE RunEnds \/ UNCHANGED outputVars
    BY <2>5 DEF RunEnds, outputVars, OutputsInv, OutputsTypes, CacheHolds, CacheIsFresh
  <2>6. QED BY <2>1, <2>2, <2>3, <2>4, <2>5 DEF OutputsNext
<1>3. OutputsInv => ViewIsCurrent
  BY DEF OutputsInv, CacheHolds, CacheIsFresh, ViewIsCurrent, parse_outputs_to_controls, Shown
<1>4. QED BY <1>1, <1>2, <1>3, PTL DEF OutputsSpec
=============================================================================
