--------------------------- MODULE KernelPrompts ---------------------------
(***************************************************************************)
(* A running kernel that asks the user something: a worker thread of       *)
(* services/colab/execution.py waits for the dialog of core/stdin_hook.py, *)
(* over the dialogs of screens/session/vm_ops.py (Mount Drive, Auth GCP).  *)
(* Dialogs are stacked and modal: the user has the top one, and            *)
(* page.pop_dialog takes the top one, whosever it is.                      *)
(***************************************************************************)
EXTENDS Naturals, Sequences, Nothing

CONSTANTS
  Job,         \* executions under way: drive mounts, GCP sign-ins, cells that read input
  Dialogued,   \* those that open a dialog of their own
  Drive,       \* those that want Google's Drive credentials: their prompt has no field
  Tries,       \* attempts at handing the credentials to the machine
  MaxAsks      \* bound: prompts of one execution

ASSUME KernelPromptsAssumption == Dialogued \subseteq Job /\ Drive \subseteq Job
                                  /\ Tries \in Nat \ {0} /\ MaxAsks \in Nat

VARIABLES
  job,         \* each execution: where it is, its prompts so far, the attempts made
  due,         \* prompts whose _show the page has yet to run
  dialogs,     \* open dialogs, the top one last: <<j, 0>> an execution's own, <<j, n>> its nth prompt's
  value,       \* user_input of each prompt: what was typed, or None for ""
  submitted,   \* prompts that were submitted
  submitting,  \* the prompt whose _submit_input has yet to set its event
  event,       \* prompts whose input_event is set
  answers,     \* what the kernel was answered: prompts with what their thread read
  closing,     \* executions whose success dialog closes by itself in a moment
  said,        \* history: prompts that got something typed while their thread waited
  covered      \* history: prompts taken from the screen by another's _auto_close

screenState == <<due, dialogs>>
entry == <<value, submitted, submitting, event>>
promptVars == <<job, screenState, entry, answers, closing, said, covered>>

Prompt == Job \X (1..MaxAsks)
Current(j) == <<j, job[j].asked>>
Waiting(p) == job[p[1]].at = "waits" /\ p = Current(p[1])
Top == dialogs[Len(dialogs)]
OnTop(d) == dialogs # << >> /\ Top = d
Goes(j, at) == job' = [job EXCEPT ![j].at = at]

\* page.pop_dialog takes the top dialog; dialog.open = False takes the one that
\* is submitted, which is the top one, as it is the user who submits.
Popped == SubSeq(dialogs, 1, Len(dialogs) - 1)
_close_dialog == Popped

PromptsInit ==
  /\ job = [j \in Job |-> [at |-> "idle", asked |-> 0, tries |-> 0]]
  /\ due = {} /\ dialogs = << >>
  /\ value = [p \in Prompt |-> None]
  /\ submitted = {} /\ submitting = None /\ event = {}
  /\ answers = {}
  /\ closing = {} /\ said = {} /\ covered = {}

----------------------------------------------------------------------------
(* The executions *)

\* From the menu, which is under the dialogs; the assistant or a queue may run a cell.
Opens(j) ==
  \/ j \in Dialogued /\ dialogs = << >> /\ dialogs' = << <<j, 0>> >>
  \/ j \notin Dialogued /\ UNCHANGED dialogs

Starts(j) ==
  /\ job[j].at = "idle" /\ Goes(j, "runs")
  /\ Opens(j)
  /\ UNCHANGED <<due, entry, answers, closing, said, covered>>

\* An input request, or a dry run that Google refuses with a page to open.
show_stdin_dialog(j) ==
  /\ job[j].at = "runs" /\ job[j].asked < MaxAsks
  /\ job' = [job EXCEPT ![j].at = "waits", ![j].asked = @ + 1]
  /\ due' = due \cup {<<j, job[j].asked + 1>>}
  /\ UNCHANGED <<dialogs, entry, answers, closing, said, covered>>

\* The dry run succeeds, or gives no page to open.
DryRun(j) ==
  /\ j \in Drive /\ job[j].at = "runs" /\ Goes(j, "propagates")
  /\ UNCHANGED <<screenState, entry, answers, closing, said, covered>>

\* The thread goes on with what user_input holds: the reply, or the credentials first.
Resumes(p) ==
  /\ Waiting(p)
  /\ Goes(p[1], IF p[1] \in Drive THEN "propagates" ELSE "runs")
  /\ answers' = answers \cup {<<p, value[p]>>}
  /\ UNCHANGED <<screenState, entry, closing, said, covered>>

Wakes(p) == p \in event /\ Resumes(p)

\* As a wait without a limit would have it.
WaitsForGood(p) == FALSE /\ Resumes(p)

\* input_event.wait(timeout=300), which the page does not take to show a dialog;
\* the dialog stays.
TimesOut(p) == p \notin due /\ Resumes(p)

\* The credentials are handed over, some seconds apart; the reply is sent after
\* the last attempt whatever its outcome.
_post(j) ==
  /\ job[j].at = "propagates"
  /\ \E done \in BOOLEAN :
       IF done \/ job[j].tries + 1 = Tries
       THEN job' = [job EXCEPT ![j].at = "runs", ![j].tries = 0]
       ELSE job' = [job EXCEPT ![j].tries = @ + 1]
  /\ UNCHANGED <<screenState, entry, answers, closing, said, covered>>

\* Its own dialog, if still open, tells how it went, and a success closes it later.
Tells(j, ok) ==
  closing' = IF ok /\ \E i \in 1..Len(dialogs) : dialogs[i] = <<j, 0>> THEN closing \cup {j} ELSE closing

\* An error among the outputs is a failure, as is one of the connection.
Ends(j) ==
  /\ job[j].at = "runs" /\ submitting = None /\ Goes(j, "ended")
  /\ \E ok \in BOOLEAN : Tells(j, ok)
  /\ UNCHANGED <<screenState, entry, answers, said, covered>>

----------------------------------------------------------------------------
(* The page, one handler at a time *)

_show(p) ==
  /\ p \in due /\ submitting = None
  /\ due' = due \ {p} /\ dialogs' = Append(dialogs, p)
  /\ UNCHANGED <<job, entry, answers, closing, said, covered>>

\* As one user_input for all the prompts of an execution would have it.
SharedInput(p) ==
  /\ submitting = None /\ OnTop(p) /\ p \notin submitted
  /\ \E text \in IF p[1] \in Drive THEN {None} ELSE {None, p} :
       /\ value' = [value EXCEPT ![Current(p[1])] = text]
       /\ said' = IF text # None /\ Waiting(p) THEN said \cup {p} ELSE said
  /\ dialogs' = IF p[1] \in Drive THEN dialogs ELSE _close_dialog
  /\ submitted' = submitted \cup {p} /\ submitting' = p
  /\ UNCHANGED <<job, due, event, answers, closing, covered>>

\* Submit, Confirm & Continue and Cancel do the same.
_submit_input(p) ==
  /\ submitting = None /\ OnTop(p) /\ p \notin submitted
  /\ \E text \in IF p[1] \in Drive THEN {None} ELSE {None, p} :
       /\ value' = [value EXCEPT ![p] = text]
       /\ said' = IF text # None /\ Waiting(p) THEN said \cup {p} ELSE said
  /\ dialogs' = IF p[1] \in Drive THEN dialogs ELSE _close_dialog
  /\ submitted' = submitted \cup {p} /\ submitting' = p
  /\ UNCHANGED <<job, due, event, answers, closing, covered>>

\* The thread may look at user_input from here on, and only its timeout lets it before.
SetsEvent ==
  /\ submitting # None
  /\ event' = event \cup {submitting} /\ submitting' = None
  /\ UNCHANGED <<job, screenState, value, submitted, answers, closing, said, covered>>

\* Cancel while it works, Done and Close; Cancel of a submitted Drive prompt.
_close_active_auth ==
  /\ submitting = None /\ dialogs # << >>
  /\ Top[2] = 0 \/ Top \in submitted
  /\ dialogs' = Popped
  /\ UNCHANGED <<job, due, entry, answers, closing, said, covered>>

_auto_close(j) ==
  /\ j \in closing /\ submitting = None
  /\ closing' = closing \ {j}
  /\ IF dialogs = << >> THEN UNCHANGED <<dialogs, covered>>
     ELSE dialogs' = Popped /\ covered' = IF Top = <<j, 0>> THEN covered ELSE covered \cup {Top}
  /\ UNCHANGED <<job, due, entry, answers, said>>

----------------------------------------------------------------------------
\* What the threads and the page go on with by themselves.
ThreadStep(j) == _post(j) \/ \E n \in 1..MaxAsks : Wakes(<<j, n>>) \/ TimesOut(<<j, n>>)
PageStep == SetsEvent \/ \E p \in Prompt : _show(p)

PromptsNext ==
  \/ \E j \in Job : Starts(j) \/ show_stdin_dialog(j) \/ DryRun(j) \/ Ends(j) \/ _auto_close(j) \/ ThreadStep(j)
  \/ PageStep
  \/ \E p \in Prompt : _submit_input(p)
  \/ _close_active_auth

\* The page runs its tasks and handlers in turn; the threads have timers and time limits.
PromptsFairness == WF_promptVars(PageStep) /\ \A j \in Job : WF_promptVars(ThreadStep(j))

PromptsSpec == PromptsInit /\ [][PromptsNext]_promptVars /\ PromptsFairness

----------------------------------------------------------------------------
\* The kernel is answered what was typed in that prompt's own dialog while it
\* waited, and with nothing otherwise: the dialog of an earlier prompt that timed
\* out is still on the screen, and a submission writes its value before its event
\* (stdin_hook.py show_stdin_dialog).  While a thread waits, its dialog can be
\* submitted, unless another's success dialog closed it in its stead (vm_ops.py _auto_close).
AnswersAreTheirs ==
  /\ \A a \in answers : a[2] = IF a[1] \in said THEN a[1] ELSE None
  /\ \A p \in Prompt \ (due \cup submitted \cup covered) :
       Waiting(p) => \E i \in 1..Len(dialogs) : dialogs[i] = p

\* A kernel that waits for an answer, or for credentials, goes on in the end: by
\* the 300 seconds, also when nobody answers or the dialog has been taken away, and
\* by the reply that is sent after the last attempt, whatever it got (execution.py
\* "Reply anyway so the kernel resumes").
KernelsResume == \A j \in Job : job[j].at \in {"waits", "propagates"} ~> job[j].at \in {"runs", "ended"}
=============================================================================
