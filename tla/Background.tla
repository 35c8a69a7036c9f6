---------------------------- MODULE Background ----------------------------
(***************************************************************************)
(* What the phone is told of the session that is open: the screen's        *)
(* wakelock and the foreground service with its notification.  _navigate   *)
(* of main.py tells both after each route it applies; the lifecycle        *)
(* handler tells the wakelock again; services/session_notify.py starts and *)
(* stops the service in tasks that wait for the phone and may overlap.     *)
(***************************************************************************)
EXTENDS Naturals, Sequences, FiniteSets, Routes

CONSTANTS
  Opening,     \* bound: the modes a session is opened in
  MaxEchoes,   \* bound: routes on their way back from the client
  MaxCalls     \* bound: calls of the service under way

ASSUME BackgroundAssumption == Opening \subseteq Mode

VARIABLES
  where,       \* the state that routes write
  echoes,       \* page.route, as the client brings it back to on_route_change
  foreground,
  wakelock,
  fgs,          \* _fgs_session, or None: not _fgs_running
  service,      \* the phone: whose notification is shown
  calls,        \* start_for_session and stop under way
  tangled,      \* history: a call failed, or two overlapped, since one had it right
  followed      \* history: the phone was told of the session that the last routes leave open

phone == <<wakelock, fgs, service, calls, tangled>>
backgroundVars == <<where, echoes, foreground, phone, followed>>

BackgroundInit ==
  /\ where = Start /\ echoes = << >> /\ foreground = TRUE /\ wakelock = FALSE
  /\ fgs = None /\ service = None /\ calls = {} /\ tangled = FALSE /\ followed = TRUE

----------------------------------------------------------------------------
(* Navigation *)

\* start_for_session returns early for the session it shows, stop for no service.
Needed(session) == fgs # session

\* _sync_wakelock; _sync_session_notification, whose task tests first and waits then.
Tells(session) ==
  /\ wakelock' = (session # None)
  /\ LET overlapped == {[c EXCEPT !.alone = FALSE] : c \in calls}
     IN  calls' = overlapped \cup IF Needed(session)
                                   THEN {[for |-> session, sent |-> FALSE, alone |-> calls = {}]} ELSE {}
  /\ Cardinality(calls') \leq MaxCalls
  /\ tangled' = (tangled \/ calls # {})
  /\ UNCHANGED <<fgs, service>>

_navigate(route) ==
  /\ Len(echoes) < MaxEchoes
  /\ where' = _apply_route(where, route)
  /\ Tells(where'.session)
  /\ echoes' = Append(echoes, route)
  /\ followed' = (route.path = "history" => followed /\ echoes = << >>)
  /\ UNCHANGED foreground

\* From the home screen, a notebook list, or the end of a session's creation.
_open_session == \E n \in Runtime, m \in Opening : _navigate([path |-> m, to |-> n])

\* The back arrow, and the end of _do_stop wherever the user is by then.
_close_session == _navigate(Gone)

_open_history == _navigate([path |-> "history", to |-> None])

_navigate_tab == \E t \in Section : _navigate([path |-> "tab", to |-> t])

\* The payload names the session of the notification.
_notification_tap == service # None /\ _navigate([path |-> "notebook", to |-> service])

\* The client brings back the routes it was given, in order.
_on_route_change ==
  /\ echoes # << >>
  /\ where' = _apply_route(where, Head(echoes))
  /\ echoes' = Tail(echoes)
  /\ UNCHANGED <<foreground, phone, followed>>

\* A route from outside goes the same way, and the phone is not told.
DeepLink ==
  /\ \E r \in {q \in Route : q.path \in Mode => q.path \in Opening} : where' = _apply_route(where, r)
  /\ followed' = FALSE
  /\ UNCHANGED <<echoes, foreground, phone>>

----------------------------------------------------------------------------
(* The life of the application *)

_on_lifecycle_change ==
  /\ foreground' = ~foreground
  /\ wakelock' = (foreground' /\ where.session # None)
  /\ followed' = (followed /\ echoes = << >>)
  /\ UNCHANGED <<where, echoes, fgs, service, calls, tangled>>

\* The Exit button: the service is stopped and the process is killed.
_exit_app ==
  /\ service # None
  /\ where' = Start /\ echoes' = << >> /\ foreground' = TRUE /\ wakelock' = FALSE
  /\ fgs' = None /\ service' = None /\ calls' = {} /\ tangled' = FALSE /\ followed' = TRUE

----------------------------------------------------------------------------
(* services/session_notify.py *)

\* The permission has been asked for; the phone starts the service, or stops it.
Reaches(c) ==
  /\ ~c.sent
  /\ service' = c.for
  /\ calls' = (calls \ {c}) \cup {[c EXCEPT !.sent = TRUE]}
  /\ UNCHANGED <<where, echoes, foreground, wakelock, fgs, tangled, followed>>

StopNotNoted(c) ==
  /\ c.sent
  /\ fgs' = IF c.for = None THEN fgs ELSE c.for
  /\ calls' = calls \ {c}
  /\ tangled' = (tangled /\ ~c.alone)
  /\ UNCHANGED <<where, echoes, foreground, wakelock, service, followed>>

\* The call is back, and what it did is noted.
Noted(c) ==
  /\ c.sent
  /\ fgs' = c.for
  /\ calls' = calls \ {c}
  /\ tangled' = (tangled /\ ~c.alone)
  /\ UNCHANGED <<where, echoes, foreground, wakelock, service, followed>>

\* A start that raises notes nothing, a stop that raises notes that it stopped.
Raises(c) ==
  /\ ~c.sent
  /\ fgs' = IF c.for = None THEN None ELSE fgs
  /\ calls' = calls \ {c}
  /\ tangled' = TRUE
  /\ UNCHANGED <<where, echoes, foreground, wakelock, service, followed>>

BackgroundNext ==
  \/ _open_session \/ _close_session \/ _open_history \/ _navigate_tab \/ _notification_tap
  \/ _on_route_change \/ DeepLink \/ _on_lifecycle_change \/ _exit_app
  \/ \E c \in calls : Reaches(c) \/ Noted(c) \/ Raises(c)

BackgroundSpec == BackgroundInit /\ [][BackgroundNext]_backgroundVars

----------------------------------------------------------------------------
\* Once every route has come back and every call has returned, the screen stays
\* on exactly while a session is open, and the notification is that session's,
\* whatever was opened, closed and backgrounded on the way (main.py
\* _sync_wakelock, _sync_session_notification; session_notify.py's early returns).
\* Not promised: after a deep link, which tells the phone nothing; after a
\* history or a resume while older routes were still coming back, which go by the
\* session of those; and after two calls that overlapped or one that failed, until one has run alone.
PhoneFollowsSession ==
  echoes = << >> /\ followed
    => /\ foreground => (wakelock <=> where.session # None)
       /\ calls = {} /\ ~tangled => service = where.session
=============================================================================
