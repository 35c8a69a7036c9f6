------------------------------ MODULE SignIn ------------------------------
(***************************************************************************)
(* Coming up and staying signed in: the bootstrap, resume and retry of     *)
(* main.py and app_shell.py, the sign-in of screens/onboarding, the        *)
(* re-authentication of the settings, and services/colab/auth.py on the    *)
(* one credentials file.  Checks run in threads and overlap with the user. *)
(***************************************************************************)
EXTENDS Integers, FiniteSets, Nothing

CONSTANTS
  Task,         \* bootstraps, resumes and retries under way
  MaxSignIns    \* bound: credentials issued

ASSUME SignInAssumption == MaxSignIns \in Nat

VARIABLES
  credentials,       \* TOKEN_CONFIG_PATH: which credentials, or None
  issued,            \* credentials issued so far
  revoked,           \* those that Google refuses
  task,              \* each task: its kind, where it is, the credentials its check has read
  _startup_lock,     \* the task that has the lock
  app_ready, is_online, auth_status, is_authenticated,
  onboarding_done,   \* and the flag in storage
  saved_onboarding,
  clearing,          \* _confirm_reauth: the file is gone, the state not yet
  overtaken          \* history: the last check to end had read other credentials

signVars == <<credentials, issued, revoked, task, _startup_lock, app_ready, is_online, auth_status,
              is_authenticated, onboarding_done, saved_onboarding, clearing, overtaken>>

google == <<issued, revoked>>
shell == <<_startup_lock, app_ready>>
status == <<is_online, auth_status, is_authenticated, onboarding_done, saved_onboarding>>

NoTask == [kind |-> "resume", at |-> "free", read |-> None]
TaskGoes(t, at) == task' = [task EXCEPT ![t].at = at]
TaskStarts(kind, at) ==
  \E t \in Task : task[t].at = "free" /\ task' = [task EXCEPT ![t] = [kind |-> kind, at |-> at, read |-> None]]

\* Where a task goes when Google cannot be asked.
Unanswered(t) == IF task[t].kind = "boot" THEN "failed" ELSE "end"

----------------------------------------------------------------------------
(* What starts a task *)

\* on_connectivity_change: offline, or a bootstrap, which waits for the lock.
_on_connectivity_change ==
  /\ \/ /\ is_online' = FALSE
        /\ auth_status' = IF auth_status = "unavailable" THEN "unknown" ELSE auth_status
        /\ UNCHANGED task
     \/ TaskStarts("boot", "lock") /\ UNCHANGED <<is_online, auth_status>>
  /\ UNCHANGED <<credentials, google, shell, is_authenticated, onboarding_done, saved_onboarding,
                 clearing, overtaken>>

\* The resume takes no lock; the retry is on the offline screen.
_on_lifecycle_change ==
  /\ TaskStarts("resume", "probe")
  /\ UNCHANGED <<credentials, google, shell, status, clearing, overtaken>>

_on_retry ==
  /\ app_ready /\ (~is_online \/ auth_status = "unavailable")
  /\ TaskStarts("retry", "probe")
  /\ UNCHANGED <<credentials, google, shell, status, clearing, overtaken>>

----------------------------------------------------------------------------
(* The tasks *)

_bootstrap_state(t) ==
  /\ task[t].at = "lock" /\ _startup_lock = None
  /\ _startup_lock' = t /\ app_ready' = FALSE
  /\ TaskGoes(t, "probe")
  /\ UNCHANGED <<credentials, google, status, clearing, overtaken>>

\* _ensure_online, in _refresh_auth_state and in _on_retry; check_auth, in its
\* thread, then reads the file.
_ensure_online(t) ==
  /\ task[t].at = "probe"
  /\ \/ /\ is_online' = TRUE
        /\ task' = [task EXCEPT ![t].at = "verify", ![t].read = credentials]
        /\ UNCHANGED auth_status
     \/ /\ is_online' = FALSE
        /\ auth_status' = IF auth_status = "unavailable" THEN "unknown" ELSE auth_status
        /\ TaskGoes(t, Unanswered(t))
  /\ UNCHANGED <<credentials, google, shell, is_authenticated, onboarding_done, saved_onboarding,
                 clearing, overtaken>>

\* Expired: they are refreshed and written back, whatever the file is by now.
CheckRefreshes(t) ==
  /\ task[t].at = "verify"
  /\ task[t].read \notin revoked \union {None}
  /\ credentials' = task[t].read
  /\ TaskGoes(t, "refreshed")
  /\ UNCHANGED <<google, shell, status, clearing, overtaken>>

\* Mutant of _auth_status_for_error: no answer is taken for a refusal.
AnyErrorSignsOut(refused) == "unauthenticated"

\* Only a refusal of the credentials is a sign-out: HTTP 400 or 401, or Google's word.
_auth_status_for_error(refused) == IF refused THEN "unauthenticated" ELSE "unavailable"

Verdicts(read) ==
  IF read = None THEN {"unauthenticated"}
  ELSE {_auth_status_for_error(FALSE),
        IF read \in revoked THEN _auth_status_for_error(TRUE) ELSE "authenticated"}

\* check_auth comes back: _refresh_auth_state, and _on_retry, which notes the
\* onboarding itself.
CheckEnds(t) ==
  /\ task[t].at \in {"verify", "refreshed"}
  /\ \E verdict \in Verdicts(task[t].read) :
       /\ auth_status' = verdict
       /\ IF verdict = "unavailable"
          THEN TaskGoes(t, Unanswered(t)) /\ UNCHANGED <<is_authenticated, onboarding_done, saved_onboarding>>
          ELSE /\ is_authenticated' = (verdict = "authenticated")
               /\ LET done == task[t].kind # "resume" /\ is_authenticated' IN
                  /\ onboarding_done' = (onboarding_done \/ done)
                  /\ saved_onboarding' = (saved_onboarding \/ done)
               /\ TaskGoes(t, "end")
  /\ overtaken' = (credentials # task[t].read)
  /\ UNCHANGED <<credentials, google, shell, is_online, clearing>>

\* Mutant of TaskEnds: the splash goes only if Google could be asked.
EndsIfOnline(t) ==
  /\ task[t].at \in {"end", "failed"}
  /\ task' = [task EXCEPT ![t] = NoTask]
  /\ IF _startup_lock = t THEN _startup_lock' = None /\ app_ready' = is_online ELSE UNCHANGED shell
  /\ UNCHANGED <<credentials, google, status, clearing, overtaken>>

\* The end, after list_sessions if signed in (module Sessions), and a resume's
\* reconnect of the terminals (module Terminal).  A bootstrap that could not ask
\* takes the onboarding's flag from storage.  Its finally ends the splash.
TaskEnds(t) ==
  /\ task[t].at \in {"end", "failed"}
  /\ onboarding_done' = IF task[t].at = "failed" THEN saved_onboarding ELSE onboarding_done
  /\ task' = [task EXCEPT ![t] = NoTask]
  /\ IF _startup_lock = t THEN _startup_lock' = None /\ app_ready' = TRUE ELSE UNCHANGED shell
  /\ UNCHANGED <<credentials, google, is_online, auth_status, is_authenticated, saved_onboarding, clearing,
                 overtaken>>

----------------------------------------------------------------------------
(* The user, Google and Colab *)

\* _submit_code: authenticate_oauth2 writes new credentials.
_submit_code ==
  /\ app_ready /\ is_online /\ (~onboarding_done \/ ~is_authenticated) /\ ~clearing
  /\ issued < MaxSignIns
  /\ issued' = issued + 1
  /\ credentials' = issued'
  /\ is_authenticated' = TRUE
  /\ UNCHANGED <<revoked, task, shell, is_online, auth_status, onboarding_done, saved_onboarding,
                 clearing, overtaken>>

_on_get_started ==
  /\ app_ready /\ is_authenticated /\ ~onboarding_done /\ ~clearing
  /\ onboarding_done' = TRUE /\ saved_onboarding' = TRUE
  /\ UNCHANGED <<credentials, google, task, shell, is_online, auth_status, is_authenticated,
                 clearing, overtaken>>

\* _confirm_reauth: clear_token removes the file, unless that fails.
_confirm_reauth ==
  /\ app_ready /\ is_authenticated /\ onboarding_done /\ ~clearing
  /\ clearing' = TRUE
  /\ credentials' \in {None, credentials}
  /\ UNCHANGED <<google, task, shell, status, overtaken>>

ReauthEnds ==
  /\ clearing
  /\ clearing' = FALSE
  /\ is_authenticated' = FALSE /\ onboarding_done' = FALSE /\ saved_onboarding' = FALSE
  /\ UNCHANGED <<credentials, google, task, shell, is_online, auth_status, overtaken>>

Revokes ==
  /\ credentials \notin revoked \union {None}
  /\ revoked' = revoked \union {credentials}
  /\ UNCHANGED <<credentials, issued, task, shell, status, clearing, overtaken>>

\* The app is closed, and started again: _restore_preferences comes before the
\* first bootstrap.
CloseAndLaunch ==
  /\ \E t \in Task : task' = [x \in Task |-> IF x = t THEN [NoTask EXCEPT !.kind = "boot", !.at = "lock"] ELSE NoTask]
  /\ _startup_lock' = None /\ app_ready' = FALSE
  /\ is_online' = TRUE /\ auth_status' = "unknown" /\ is_authenticated' = FALSE
  /\ onboarding_done' = saved_onboarding
  /\ clearing' = FALSE /\ overtaken' = FALSE
  /\ UNCHANGED <<credentials, google, saved_onboarding>>

----------------------------------------------------------------------------
SignInInit ==
  /\ credentials = None /\ issued = 0 /\ revoked = {}
  /\ \E t \in Task : task = [x \in Task |-> IF x = t THEN [NoTask EXCEPT !.kind = "boot", !.at = "lock"] ELSE NoTask]
  /\ _startup_lock = None /\ app_ready = FALSE
  /\ is_online = TRUE /\ auth_status = "unknown" /\ is_authenticated = FALSE
  /\ onboarding_done = FALSE /\ saved_onboarding = FALSE
  /\ clearing = FALSE /\ overtaken = FALSE

TaskStep(t) ==
  \/ _bootstrap_state(t) \/ _ensure_online(t)
  \/ CheckRefreshes(t) \/ CheckEnds(t) \/ TaskEnds(t)

SignInNext ==
  \/ _on_connectivity_change \/ _on_lifecycle_change \/ _on_retry
  \/ \E t \in Task : TaskStep(t)
  \/ _submit_code \/ _on_get_started \/ _confirm_reauth \/ ReauthEnds
  \/ Revokes \/ CloseAndLaunch

\* Every await of a task ends: the requests and the storage have time limits.
SignInFairness == \A t \in Task : WF_signVars(TaskStep(t))

SignInSpec == SignInInit /\ [][SignInNext]_signVars /\ SignInFairness

----------------------------------------------------------------------------
(* Properties *)

\* A user who is signed in stays so, whatever the network does: only the user
\* (re-authenticating, or closing the app), or Google refusing the credentials,
\* ends it; or a check that read other credentials than those the user has
\* signed in with since.
OutageIsNotSignOut ==
  [][is_authenticated /\ ~is_authenticated' =>
       \/ clearing \/ auth_status' = "unknown"
       \/ overtaken' \/ credentials \in revoked \union {None}]_signVars

\* The splash always ends, however the bootstraps overlap and fail, unless the
\* user closes the app over and over.
SplashEnds == []<>app_ready \/ []<><<CloseAndLaunch>>_signVars
=============================================================================
