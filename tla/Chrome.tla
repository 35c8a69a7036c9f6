------------------------------ MODULE Chrome ------------------------------
(***************************************************************************)
(* The shell around the screens: app_shell.py renders one screen by the    *)
(* state's gates and routes, and its effects write the navigation bar and  *)
(* the floating button of the root view; screens/session writes the same   *)
(* button, and clears it when it leaves.  Effects run one by one, in the   *)
(* order the renders asked for them, when no render is due (Flet's loop);  *)
(* the shell's read the state, the session's what their render captured.   *)
(***************************************************************************)
EXTENDS Naturals, Sequences, Routes

CONSTANTS
  MaxEffects,  \* bound: effects waiting to run
  Openable     \* bound: the sessions opened

\* None is not a session on screen.
ASSUME ChromeAssumption ==
  Openable \subseteq Runtime /\ None \notin [key : (Runtime \cup {None}) \X Mode, tab : Mode]

VARIABLES
  open_gates,     \* those of app_ready, onboarding_done and is_authenticated that hold
  place,     \* the state that routes write
  assistant_minimized,
  due,       \* the shell is to be rendered
  seen,     \* the dependencies of its effects, as its last render left them
  mounted,   \* the SessionScreen on screen, or None
  button,    \* views[0].floating_action_button
  bar,       \* views[0].navigation_bar: its selected tab, or None
  effects    \* waiting to run

shellState == <<open_gates, place, assistant_minimized>>
slots == <<button, bar>>
chromeVars == <<shellState, due, seen, mounted, slots, effects>>

Gate == {"app_ready", "onboarding_done", "is_authenticated"}
Up == {"app_ready", "onboarding_done"} \subseteq open_gates
OnTabs == place.subview = ""

\* The shell's branches: the splash before anything; then the offline and the
\* onboarding screens, which give way to an open subview; the subviews; the tabs.
Screen ==
  CASE "app_ready" \notin open_gates -> "splash"
    [] "app_ready" \in open_gates /\ OnTabs -> "tabs"
    [] "app_ready" \in open_gates /\ place.subview = "history" -> "history"
    [] OTHER -> IF place.mode = "files" THEN "files" ELSE "session"

\* SessionScreen is keyed by its session and mode, and starts on the mode's tab.
SessionDue ==
  IF Screen = "session" THEN [key |-> <<place.session, place.mode>>, tab |-> place.mode] ELSE None

\* build_session_fab: one menu for each tab of the session.
MenuOf(m) == [owner |-> "session", menu |-> <<m.key, m.tab>>]
Assistant == [owner |-> "assistant", menu |-> IF assistant_minimized THEN "Back to Assistant" ELSE "Ask Assistant"]

BarDeps == <<open_gates, place.subview, place.tab>>
ButtonDepsOfTabs == <<open_gates, assistant_minimized>>
ButtonDeps == <<open_gates, assistant_minimized, place.subview>>
Deps == [bar |-> BarDeps, button |-> ButtonDeps]

ChromeInit ==
  /\ open_gates = {} /\ place = Start /\ assistant_minimized = FALSE
  /\ due = FALSE /\ seen = Deps
  /\ mounted = None /\ button = None /\ bar = None
  /\ effects = << [does |-> "bar"], [does |-> "button"] >>

----------------------------------------------------------------------------
(* What moves the state, and has the shell rendered *)

\* Bootstrap and sign-in open the gates, a re-authentication and a new bootstrap
\* close them again.
GatesChange ==
  /\ \E gate \in Gate : open_gates' = IF gate \in open_gates THEN open_gates \ {gate} ELSE open_gates \cup {gate}
  /\ due' = TRUE
  /\ UNCHANGED <<place, assistant_minimized, seen, mounted, slots, effects>>

Applies(route) ==
  /\ place' = _apply_route(place, route)
  /\ due' = TRUE
  /\ UNCHANGED <<open_gates, assistant_minimized, seen, mounted, slots, effects>>

\* The bar and Ctrl+1..5 on the tabs, and the palette's "Go to" on every screen but
\* the terminal, whose session suppresses the shell's shortcuts.
_global_bindings ==
  /\ open_gates = Gate /\ ~(mounted # None /\ mounted.tab = "terminal")
  /\ \E t \in Section : Applies([path |-> "tab", to |-> t])

\* A session card, a finished creation, a tap on the notification, a deep link.
OpenSession == \E m \in Mode, n \in Openable : Applies([path |-> m, to |-> n])

\* The back arrow; a stop that has ended, whatever is on screen by then.
on_back == Applies(Gone)

\* The session's View Logs.
on_view_logs == Applies([path |-> "history", to |-> None])

\* The chat comes on top, is left by its arrow or by BACK, or is closed.
MinimizedChanges ==
  /\ assistant_minimized' = ~assistant_minimized
  /\ due' = TRUE
  /\ UNCHANGED <<open_gates, place, seen, mounted, slots, effects>>

----------------------------------------------------------------------------
(* Rendering *)

Waits(list) == effects' = effects \o list /\ Len(effects') \leq MaxEffects

When(condition, effect) == IF condition THEN <<effect>> ELSE << >>

\* A render unmounts the session that left, mounts the one that came, and asks
\* for the shell's effects whose dependencies have changed.
Render ==
  /\ due /\ due' = FALSE
  /\ LET next == SessionDue
         stays == mounted # None /\ next # None /\ mounted.key = next.key
     IN  /\ mounted' = IF stays THEN mounted ELSE next
         /\ Waits(When(~stays /\ mounted # None, [does |-> "cleanup"])
                    \o When(~stays /\ next # None, [does |-> "menu", of |-> next])
                    \o When(BarDeps # seen.bar, [does |-> "bar"])
                    \o When(ButtonDeps # seen.button, [does |-> "button"]))
  /\ seen' = Deps
  /\ UNCHANGED <<shellState, slots>>

\* The session renders by itself when its tab changes: the effect's cleanup runs,
\* then the effect, with what that render saw.
_switch_to_terminal ==
  /\ mounted # None
  /\ \E t \in {"notebook", "terminal"} \ {mounted.tab} : mounted' = [mounted EXCEPT !.tab = t]
  /\ Waits(<<[does |-> "cleanup"], [does |-> "menu", of |-> mounted']>>)
  /\ UNCHANGED <<shellState, due, seen, slots>>

----------------------------------------------------------------------------
(* Effects *)

Runs(what) ==
  /\ ~due
  /\ effects # << >> /\ Head(effects).does = what /\ effects' = Tail(effects)
  /\ UNCHANGED <<shellState, due, seen, mounted>>

_sync_fab == Runs("menu") /\ button' = MenuOf(Head(effects).of) /\ UNCHANGED bar

_cleanup_fab == Runs("cleanup") /\ button' = None /\ UNCHANGED bar

_sync_navigation_bar ==
  /\ Runs("bar")
  /\ bar' = IF open_gates = Gate /\ OnTabs THEN place.tab ELSE None
  /\ UNCHANGED button

\* In a subview the shell takes only its own button away; elsewhere it takes the slot.
_sync_assistant_fab ==
  /\ Runs("button")
  /\ button' = IF Up /\ OnTabs THEN Assistant
               ELSE IF button # None /\ button.owner = "assistant" THEN None ELSE button
  /\ UNCHANGED bar

ChromeNext ==
  \/ GatesChange \/ _global_bindings \/ OpenSession \/ on_back \/ on_view_logs \/ MinimizedChanges
  \/ Render \/ _switch_to_terminal
  \/ _sync_fab \/ _cleanup_fab \/ _sync_navigation_bar \/ _sync_assistant_fab

ChromeSpec == ChromeInit /\ [][ChromeNext]_chromeVars

----------------------------------------------------------------------------
\* When the effects have run, the root view carries what the screen calls for: the
\* open session's own menu, for the tab it is on; the assistant's button with the
\* right name on the tabs, once the application is up; nothing in the files and
\* history screens; the bar exactly on the tabs of a signed-in user.  Two
\* components write one slot, for renders that may be several states old
\* (app_shell.py "OWNERSHIP IS A PURE FUNCTION OF STATE").
ChromeMatchesScreen ==
  ~due /\ effects = << >>
    => /\ button = IF mounted # None THEN MenuOf(mounted) ELSE IF Up /\ OnTabs THEN Assistant ELSE None
       /\ bar = IF open_gates = Gate /\ OnTabs THEN place.tab ELSE None
=============================================================================
