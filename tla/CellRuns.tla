------------------------------ MODULE CellRuns ------------------------------
(***************************************************************************)
(* Running cells and stopping them: _run_cell, _stop_cell and _run_all of  *)
(* screens/session/notebook_view.py over exec_code of                      *)
(* services/colab/execution.py.  Each execution has a thread; all of them  *)
(* share one cancel event.                                                 *)
(***************************************************************************)
EXTENDS Integers, FiniteSets

CONSTANTS
  Cell,       \* cells of the notebook
  Ping,       \* what the keep-alive loop executes, which prints nothing
  Run,        \* executions at one time
  MaxStops    \* bound: how often the user taps Stop

ASSUME CellRunsAssumption == Ping \notin Cell /\ MaxStops \in Nat

VARIABLES
  is_running,     \* of each cell
  run,            \* each execution: what it is for and where it is
  _cancel_event,
  outputs,        \* the executions that a cell's outputs come from
  stops,          \* taps on Stop
  cancelled,      \* history: executions that ended as cancelled
  restarted       \* history: cells that were run again before a stop took effect

cellVars == <<is_running, run, _cancel_event, outputs, stops, cancelled, restarted>>

Free == [of |-> Ping, at |-> "free"]
Going(c) == {r \in Run : run[r].of = c /\ run[r].at # "free"}
Goes(r, at) == run' = [run EXCEPT ![r].at = at]

\* A new execution, which waits for the network check.
Asked(c) == \E r \in Run : run[r].at = "free" /\ run' = [run EXCEPT ![r] = [of |-> c, at |-> "asked"]]

----------------------------------------------------------------------------
\* _run_cell up to its await: the outputs of before are cleared.
_run_cell(c) ==
  /\ ~is_running[c]
  /\ is_running' = [is_running EXCEPT ![c] = TRUE]
  /\ outputs' = [outputs EXCEPT ![c] = {}]
  /\ Asked(c)
  /\ restarted' = IF Going(c) # {} THEN restarted \union {c} ELSE restarted
  /\ UNCHANGED <<_cancel_event, stops, cancelled>>

PingAsked ==
  /\ Going(Ping) = {}
  /\ Asked(Ping)
  /\ UNCHANGED <<is_running, _cancel_event, outputs, stops, cancelled, restarted>>

\* exec_code: online, so the event is cleared and the thread starts; otherwise
\* it raises.
exec_code(r) ==
  /\ run[r].at = "asked"
  /\ \/ _cancel_event' = FALSE /\ Goes(r, "starting")
     \/ Goes(r, "ended") /\ UNCHANGED _cancel_event
  /\ UNCHANGED <<is_running, outputs, stops, cancelled, restarted>>

\* The event is taken by whoever looks: this execution raises.
Cancelled(r) ==
  /\ _cancel_event
  /\ _cancel_event' = FALSE
  /\ cancelled' = cancelled + 1
  /\ Goes(r, "ended")

ThreadStarts(r) ==
  /\ run[r].at = "starting"
  /\ \/ Cancelled(r)
     \/ ~_cancel_event /\ Goes(r, "code") /\ UNCHANGED <<_cancel_event, cancelled>>
  /\ UNCHANGED <<is_running, outputs, stops, restarted>>

\* Mutant of output_hook: the event stays set.
HookKeepsEvent(r) ==
  /\ run[r].at = "code" /\ run[r].of # Ping
  /\ \/ _cancel_event /\ cancelled' = cancelled + 1 /\ Goes(r, "ended") /\ UNCHANGED outputs
     \/ /\ ~_cancel_event
        /\ outputs' = [outputs EXCEPT ![run[r].of] = @ \union {r}]
        /\ UNCHANGED <<run, cancelled>>
  /\ UNCHANGED <<is_running, _cancel_event, stops, restarted>>

\* The code prints: only then does it notice the event.
output_hook(r) ==
  /\ run[r].at = "code" /\ run[r].of # Ping
  /\ \/ Cancelled(r) /\ UNCHANGED outputs
     \/ /\ ~_cancel_event
        /\ outputs' = [outputs EXCEPT ![run[r].of] = @ \union {r}]
        /\ UNCHANGED <<run, _cancel_event, cancelled>>
  /\ UNCHANGED <<is_running, stops, restarted>>

\* The code is done, fails, or reaches its time limit.
CodeEnds(r) ==
  /\ run[r].at = "code"
  /\ Goes(r, "ended")
  /\ UNCHANGED <<is_running, _cancel_event, outputs, stops, cancelled, restarted>>

\* _run_cell after its await: finally, whichever execution of the cell it was.
RunCellEnds(r) ==
  /\ run[r].at = "ended"
  /\ run' = [run EXCEPT ![r] = Free]
  /\ IF run[r].of = Ping THEN UNCHANGED is_running
     ELSE is_running' = [is_running EXCEPT ![run[r].of] = FALSE]
  /\ UNCHANGED <<_cancel_event, outputs, stops, cancelled, restarted>>

_stop_cell(c) ==
  /\ is_running[c]
  /\ stops < MaxStops
  /\ stops' = stops + 1
  /\ _cancel_event' = TRUE
  /\ is_running' = [is_running EXCEPT ![c] = FALSE]
  /\ UNCHANGED <<run, outputs, cancelled, restarted>>

----------------------------------------------------------------------------
CellsInit ==
  /\ is_running = [c \in Cell |-> FALSE]
  /\ run = [r \in Run |-> Free]
  /\ _cancel_event = FALSE
  /\ outputs = [c \in Cell |-> {}]
  /\ stops = 0 /\ cancelled = 0 /\ restarted = {}

RunStep(r) ==
  exec_code(r) \/ ThreadStarts(r) \/ output_hook(r) \/ CodeEnds(r) \/ RunCellEnds(r)

CellsNext ==
  \/ \E c \in Cell : _run_cell(c) \/ _stop_cell(c)
  \/ PingAsked
  \/ \E r \in Run : RunStep(r)

CellsSpec == CellsInit /\ [][CellsNext]_cellVars

----------------------------------------------------------------------------
(* Properties *)

\* One tap on Stop cancels at most one execution, though all share the event.
OneStopOneCancel == cancelled + (IF _cancel_event THEN 1 ELSE 0) <= stops

\* A cell that shows a spinner has an execution, whose end will remove it; and
\* its outputs come from one execution unless it was run again while an earlier
\* one, stopped only by the event, was still going.
SpinnerHasRun ==
  \A c \in Cell :
    /\ is_running[c] => Going(c) # {}
    /\ c \notin restarted => Cardinality(outputs[c]) <= 1

\* Both: _run_cell, _stop_cell and exec_code agree on which cell is running and
\* on which execution a Stop has ended.
StopsAndSpinnersAgree == OneStopOneCancel /\ SpinnerHasRun
=============================================================================
