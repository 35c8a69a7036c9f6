------------------------------ MODULE Routes ------------------------------
(***************************************************************************)
(* Where the application is, and how a route moves it: _apply_route of     *)
(* main.py, on the four fields of the state that a route writes.           *)
(***************************************************************************)
EXTENDS Nothing

CONSTANTS
  Runtime,   \* names of Colab sessions
  Section,   \* the tabs of the navigation bar
  Home       \* the first of them

ASSUME RoutesAssumption == Home \in Section /\ None \notin Runtime

Mode == {"notebook", "terminal", "files"}

\* /home, /notebooks_tab ...; /session, /terminal and /files of a session; /history.
Route == [path : {"tab"}, to : Section] \cup [path : Mode, to : Runtime] \cup [path : {"history"}, to : {None}]

\* The state as AppState starts it.
Start == [subview |-> "", session |-> None, mode |-> "notebook", tab |-> Home]

\* A tab leaves the session; the history leaves it where it was.
_apply_route(s, route) ==
  CASE route.path = "tab" -> [s EXCEPT !.subview = "", !.session = None, !.tab = route.to]
    [] route.path \in Mode -> [s EXCEPT !.subview = "session", !.session = route.to, !.mode = route.path]
    [] route.path = "history" -> [s EXCEPT !.subview = "history"]

Gone == [path |-> "tab", to |-> Home]
=============================================================================
