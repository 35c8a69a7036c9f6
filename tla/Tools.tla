------------------------------- MODULE Tools -------------------------------
(***************************************************************************)
(* The assistant's tools that act on sessions (services/ai_tools.py).      *)
(* The calls of one round run together; the user moves between sessions    *)
(* meanwhile, and answers the cards of the destructive ones.  The tools    *)
(* that write notebooks are in module Notebook, the card in ChatSession.   *)
(***************************************************************************)
EXTENDS Integers, Sequences, SequencesExt, Nothing

CONSTANTS
  Session,    \* names
  Call        \* calls of one round

ASSUME ToolsAssumption == None \notin Session

Destructive == {"restart", "stop", "delete"}

VARIABLES
  alive,              \* sessions whose VM runs
  active_session_name,
  active_sessions,    \* the app's list
  built_for,          \* the session build_tools was called with
  call,               \* each call of the round
  harm                \* history: what destructive calls of this round did

toolVars == <<alive, active_session_name, active_sessions, built_for, call, harm>>

sessionVars == <<alive, active_session_name, active_sessions, built_for>>

\* on: the session a call has made; card: the one in front of the user when the
\* card was shown; moved: the user has moved since.
Idle == [kind |-> "work", at |-> "idle", on |-> None, card |-> None, moved |-> FALSE]
Done == [Idle EXCEPT !.at = "done"]

\* Read now: the session on screen, the one of the build, or the first listed.
_live_session ==
  IF active_session_name # None THEN active_session_name
  ELSE IF built_for # None THEN built_for
  ELSE IF active_sessions # <<>> THEN Head(active_sessions)
  ELSE None

_has_session == _live_session # None

Updates(c, r) == call' = [call EXCEPT ![c] = r]
CallGoes(c, at) == call' = [call EXCEPT ![c].at = at]

\* The calls that wait for an answer learn that the user has moved.
Moved == [c \in Call |-> IF call[c].at \in {"asked", "act"} /\ call[c].kind \in Destructive
                         THEN [call[c] EXCEPT !.moved = TRUE] ELSE call[c]]

\* What list_sessions gives: the sessions that run, in some order.
Listing == SetToSeqs(alive)

----------------------------------------------------------------------------
(* The user and Colab *)

Opens(s) ==
  /\ s \in ToSet(active_sessions) \union {None} /\ s # active_session_name
  /\ active_session_name' = s
  /\ call' = Moved
  /\ UNCHANGED <<alive, active_sessions, built_for, harm>>

HomeLists ==
  /\ active_session_name = None
  /\ active_sessions' \in Listing /\ active_sessions' # active_sessions
  /\ call' = Moved
  /\ UNCHANGED <<alive, active_session_name, built_for, harm>>

VmEnds(s) ==
  /\ s \in alive
  /\ alive' = alive \ {s}
  /\ UNCHANGED <<active_session_name, active_sessions, built_for, call, harm>>

----------------------------------------------------------------------------
(* The model's calls *)

\* _exec, install_package, read_file, list_files, upload_file, list_variables.
Work(c) ==
  /\ call[c].at = "idle"
  /\ Updates(c, IF _has_session THEN [Idle EXCEPT !.at = "run"] ELSE Done)
  /\ UNCHANGED <<sessionVars, harm>>

\* _with_recovery: the session is read for each of two attempts.  The error of
\* a lost runtime may come after the code has run: then it runs twice.  The list
\* fetched between them is for its tokens; active_sessions is not written.
_run_once(c) ==
  /\ call[c].kind = "work" /\ call[c].at \in {"run", "again"}
  /\ \/ Updates(c, Done)
     \/ call[c].at = "run" /\ Updates(c, [call[c] EXCEPT !.at = "again"])
  /\ UNCHANGED <<sessionVars, harm>>

\* create_session: a paid shape is asked about first.
CreateAsked(c) ==
  /\ call[c].at = "idle"
  /\ \E at \in {"asked", "act"} : Updates(c, [Idle EXCEPT !.kind = "create", !.at = at])
  /\ UNCHANGED <<sessionVars, harm>>

Creates(c) ==
  /\ call[c].kind = "create" /\ call[c].at = "act"
  /\ \/ Updates(c, Done) /\ UNCHANGED alive
     \/ \E s \in Session \ alive :
          /\ alive' = alive \union {s}
          /\ Updates(c, [call[c] EXCEPT !.on = s, !.at = "created"])
  /\ UNCHANGED <<active_session_name, active_sessions, built_for, harm>>

\* The list is refreshed if it can be.  After the advertisement, the new
\* session becomes the active one if none is.
CreatedIsListed(c) ==
  /\ call[c].at = "created"
  /\ active_sessions' \in Listing \union {active_sessions}
  /\ call' = [Moved EXCEPT ![c].at = "shown"]
  /\ UNCHANGED <<alive, active_session_name, built_for, harm>>

CreatedIsActive(c) ==
  /\ call[c].at = "shown"
  /\ active_session_name' = IF active_session_name = None THEN call[c].on ELSE active_session_name
  /\ call' = [Moved EXCEPT ![c] = Done]
  /\ UNCHANGED <<alive, active_sessions, built_for, harm>>

\* restart_kernel, delete_file: the card is about the session of now.
\* stop_session: about the session it names.
DestructiveAsked(c) ==
  /\ call[c].at = "idle"
  /\ \E kind \in Destructive :
       \E card \in IF kind = "stop" THEN Session ELSE {_live_session} :
         Updates(c, [Idle EXCEPT !.kind = kind, !.at = "asked", !.card = card])
  /\ UNCHANGED <<sessionVars, harm>>

\* The card is answered; without an answer, or a gate, it is a refusal.
_approved(c) ==
  /\ call[c].at = "asked"
  /\ CallGoes(c, "act") \/ Updates(c, Done)
  /\ UNCHANGED <<sessionVars, harm>>

\* Mutant of Destroys: stop_session stops the session on screen.
DestroysLive(c) ==
  /\ call[c].kind \in Destructive /\ call[c].at = "act"
  /\ Updates(c, Done)
  /\ LET on == _live_session IN
     IF on \in alive
     THEN /\ harm' = harm \union {[kind |-> call[c].kind, on |-> on, card |-> call[c].card, moved |-> call[c].moved]}
          /\ alive' = IF call[c].kind = "stop" THEN alive \ {on} ELSE alive
     ELSE UNCHANGED <<harm, alive>>
  /\ UNCHANGED <<active_session_name, active_sessions, built_for>>

\* After the approval: the session is read again, but for stop_session.
Destroys(c) ==
  /\ call[c].kind \in Destructive /\ call[c].at = "act"
  /\ LET on == IF call[c].kind = "stop" THEN call[c].card ELSE _live_session IN
     IF _has_session /\ on \in alive
     THEN \/ /\ harm' = harm \union {[kind |-> call[c].kind, on |-> on, card |-> call[c].card, moved |-> call[c].moved]}
             /\ alive' = IF call[c].kind = "stop" THEN alive \ {on} ELSE alive
             /\ IF call[c].kind = "stop" THEN CallGoes(c, "stopped") ELSE Updates(c, Done)
          \/ Updates(c, Done) /\ UNCHANGED <<harm, alive>>
     ELSE Updates(c, Done) /\ UNCHANGED <<harm, alive>>
  /\ UNCHANGED <<active_session_name, active_sessions, built_for>>

\* stop_session refreshes the list; active_session_name keeps the name.
StoppedIsUnlisted(c) ==
  /\ call[c].at = "stopped"
  /\ active_sessions' \in Listing \union {active_sessions}
  /\ call' = [Moved EXCEPT ![c] = Done]
  /\ UNCHANGED <<alive, active_session_name, built_for, harm>>

\* The next round of the turn has the same tools.
NextRound ==
  /\ \A c \in Call : call[c].at = "done"
  /\ call' = [c \in Call |-> Idle]
  /\ harm' = {}
  /\ UNCHANGED sessionVars

----------------------------------------------------------------------------
ToolsInit ==
  /\ alive \in SUBSET Session
  /\ active_sessions \in Listing
  /\ active_session_name \in {None} \union alive
  /\ built_for = active_session_name
  /\ call = [c \in Call |-> Idle]
  /\ harm = {}

CallStep(c) ==
  \/ Work(c) \/ _run_once(c)
  \/ CreateAsked(c) \/ Creates(c) \/ CreatedIsListed(c) \/ CreatedIsActive(c)
  \/ DestructiveAsked(c) \/ _approved(c) \/ Destroys(c) \/ StoppedIsUnlisted(c)

ToolsNext ==
  \/ \E s \in Session \union {None} : Opens(s) \/ VmEnds(s)
  \/ HomeLists \/ NextRound
  \/ \E c \in Call : CallStep(c)

ToolsSpec == ToolsInit /\ [][ToolsNext]_toolVars

----------------------------------------------------------------------------
(* Properties *)

\* What a destructive tool destroys is what the user allowed: the session a
\* stop card named, and otherwise the session in front of the user when the
\* card was shown, unless the user or the list has moved since then.
DestroyedAsApproved ==
  \A h \in harm : (h.kind = "stop" \/ ~h.moved) => h.on = h.card

\* The card's session is the one that is hit.  It need not be: restart_kernel
\* and delete_file read the session again after the answer.
ApprovedHitsItsSession == \A h \in harm : h.on = h.card
=============================================================================
