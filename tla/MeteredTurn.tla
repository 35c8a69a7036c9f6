---------------------------- MODULE MeteredTurn ----------------------------
(***************************************************************************)
(* services/ai_credits.py run_metered_turn over services/kani_backend.py   *)
(* run_turn, composed with the ledger: several assistant turns (the chat,  *)
(* a cell action, terminal explain) walk their model candidates, stream,   *)
(* call tools, are stopped, cancelled or fail, and settle.  One action per *)
(* stretch of code between two suspension points.  Turn t is identified    *)
(* with the transaction id its reserve() mints.                            *)
(***************************************************************************)
EXTENDS Credits

CONSTANTS Candidates,  \* how many models turn_candidates() returns
          MaxRounds    \* max_rounds, the budget of model calls per turn

ASSUME TurnAssumption == Candidates \in Nat \ {0} /\ MaxRounds \in Nat \ {0}
ASSUME HoldCoversBudget == MaxHold > MaxRounds

VARIABLES
  pc,         \* idle, walk, round, stream, tools, done
  left,       \* candidates of the walk not tried yet
  calls,      \* run_turn's model_steps: model calls started
  own,        \* run_metered_turn's model_steps: model calls finished
  pending,    \* current_step_delivered
  shown,      \* streamed_text: the user saw a token
  text,       \* collected is not blank: what would be the answer now
  lastRound,  \* giving_final_answer: tools stripped, this call is the last
  stop,       \* should_stop(): the user asked
  cancel,     \* run_turn's own event, set when a poll of should_stop() sees it
  swept,      \* history: turns whose hold the sweep wrote off
  billed,     \* history: steps the ledger accepted at settlement
  verdict     \* the returned dict: ok, out_of_credits, cancelled or error

turnVars == <<pc, left, calls, own, pending, shown, text, lastRound, stop, cancel, swept,
              billed, verdict>>
vars == <<creditVars, turnVars>>

Running == {"walk", "round", "stream", "tools"}
Verdicts == {"none", "blocked", "answered", "answered_at_zero", "failed", "cancelled"}

----------------------------------------------------------------------------
(* Settlement.                                                             *)

\* charged_steps: delivered work is worth one step, whatever ended the turn.
charged_steps(steps, delivered) == IF delivered /\ steps < 1 THEN 1 ELSE steps

HasTx(t) == t \in minted

_settle(t, steps) == \/ steps <= 0 /\ HasTx(t) /\ rollback(t)
                     \/ steps > 0 /\ HasTx(t) /\ commit(t, steps)
                     \/ steps > 0 /\ ~HasTx(t) /\ charge(steps)

\* With no hold and no steps there is nothing to settle; a turn that was not
\* cancelled still reads the balance for its result.
NothingToSettle(t, steps, v) ==
  /\ steps <= 0 /\ ~HasTx(t)
  /\ IF v = "cancelled" THEN UNCHANGED creditVars ELSE get_balance

End(t, steps, v) ==
  /\ pc' = [pc EXCEPT ![t] = "done"]
  /\ billed' = [billed EXCEPT ![t] = IF t \in settled THEN 0 ELSE steps]
  /\ verdict' = [verdict EXCEPT ![t] = v]
  /\ _settle(t, steps) \/ NothingToSettle(t, steps, v)

\* run_turn returned: what it counted is billed, and the balance decides the flag.
Answer(t, delivered) ==
  \E v \in {"answered", "answered_at_zero"} :
    /\ End(t, charged_steps(calls[t], delivered), v)
    /\ (balance' <= 0) = (v = "answered_at_zero")

\* An exception left run_turn: what ai_credits saw itself is billed.
PendingStep(t) == IF pending[t] THEN 1 ELSE 0
\* Mutant of Seen: only finished steps are counted, and the floor is forgotten.
SeenFinishedOnly(t) == own[t]
Seen(t) == charged_steps(own[t] + PendingStep(t), shown[t])
Fail(t) == End(t, Seen(t), "failed")

----------------------------------------------------------------------------
(* The turn.                                                               *)

TurnInit == /\ pc = [t \in Tx |-> "idle"]
            /\ left = [t \in Tx |-> Candidates]
            /\ calls = [t \in Tx |-> 0]
            /\ own = [t \in Tx |-> 0]
            /\ pending = [t \in Tx |-> FALSE]
            /\ shown = [t \in Tx |-> FALSE]
            /\ text = [t \in Tx |-> FALSE]
            /\ lastRound = [t \in Tx |-> FALSE]
            /\ stop = [t \in Tx |-> FALSE]
            /\ cancel = [t \in Tx |-> FALSE]
            /\ swept = {}
            /\ billed = [t \in Tx |-> 0]
            /\ verdict = [t \in Tx |-> "none"]

\* _stopped(): a poll that finds the request keeps it in cancel.
Polled(t) == cancel' = [cancel EXCEPT ![t] = @ \/ stop[t]]

Goto(t, place) == pc' = [pc EXCEPT ![t] = place]

\* A zero balance blocks the start; otherwise the hold is taken if it can be.
Start(t) ==
  /\ pc[t] = "idle"
  /\ \/ /\ Refreshed <= 0
        /\ get_balance
        /\ Goto(t, "done")
        /\ verdict' = [verdict EXCEPT ![t] = "blocked"]
     \/ /\ Refreshed > 0
        /\ reserve(t, COST_STEP) \/ reserve_refused(COST_STEP)
        /\ Goto(t, "walk")
        /\ UNCHANGED verdict
  /\ UNCHANGED <<left, calls, own, pending, shown, text, lastRound, stop, cancel, billed, swept>>

\* The user's Stop: should_stop() turns true, and is only polled.
Stop(t) == /\ pc[t] \in Running /\ ~stop[t]
           /\ stop' = [stop EXCEPT ![t] = TRUE]
           /\ UNCHANGED <<creditVars, pc, left, calls, own, pending, shown, text,
                          lastRound, cancel, billed, verdict, swept>>

OverBudget(t) == calls[t] >= MaxRounds

\* Mutant of TryCandidate: the list of candidates is never used up.
TryCandidateAgain(t) ==
  /\ pc[t] = "walk" /\ ~stop[t] /\ left[t] > 0 /\ ~OverBudget(t)
  /\ Goto(t, "round")
  /\ text' = [text EXCEPT ![t] = FALSE]
  /\ lastRound' = [lastRound EXCEPT ![t] = FALSE]
  /\ UNCHANGED <<creditVars, left, calls, own, pending, shown, stop, cancel,
                 billed, verdict, swept>>

\* Mutant of TryCandidate: a spent budget or an exhausted list does not end the walk.
TryCandidateUnchecked(t) ==
  /\ pc[t] = "walk" /\ ~stop[t] /\ left[t] >= 0
  /\ left' = [left EXCEPT ![t] = @ - 1]
  /\ Goto(t, "round")
  /\ text' = [text EXCEPT ![t] = FALSE]
  /\ lastRound' = [lastRound EXCEPT ![t] = FALSE]
  /\ UNCHANGED <<creditVars, calls, own, pending, shown, stop, cancel, billed,
                 verdict, swept>>

\* Top of the candidate loop: no reason to end, and the engine is built or not.
TryCandidate(t) ==
  /\ pc[t] = "walk" /\ ~stop[t] /\ left[t] > 0 /\ ~OverBudget(t)
  /\ left' = [left EXCEPT ![t] = @ - 1]
  /\ \/ /\ Goto(t, "round")
        /\ text' = [text EXCEPT ![t] = FALSE]
        /\ lastRound' = [lastRound EXCEPT ![t] = FALSE]
     \/ UNCHANGED <<pc, text, lastRound>>
  /\ UNCHANGED <<creditVars, calls, own, pending, shown, stop, cancel, billed,
                 verdict, swept>>

\* Before the walk: no router could be started, or it lists no model.
NoRouter(t) ==
  /\ pc[t] = "walk" /\ left[t] = Candidates
  /\ Fail(t)
  /\ UNCHANGED <<left, calls, own, pending, shown, text, lastRound, stop, cancel, swept>>

\* The walk is over: a partial answer, a stop, the budget copy, or nobody answered.
WalkEnds(t) ==
  /\ pc[t] = "walk"
  /\ stop[t] \/ left[t] = 0 \/ OverBudget(t)
  /\ IF text[t] THEN Answer(t, TRUE)
     ELSE IF stop[t] THEN Answer(t, FALSE)
     ELSE IF OverBudget(t) THEN Answer(t, TRUE)
     ELSE Fail(t)
  /\ UNCHANGED <<left, calls, own, pending, shown, text, lastRound, stop, cancel, swept>>

\* The next manager is an assistant round: on_model_step, and the call starts.
StartCall(t) ==
  /\ pc[t] = "round" /\ ~stop[t]
  /\ ~(OverBudget(t) /\ lastRound[t])
  /\ IF own[t] > 0 /\ hold[t] > 0
     THEN reserve_more(t, COST_STEP) ELSE UNCHANGED creditVars
  /\ lastRound' = [lastRound EXCEPT ![t] = @ \/ OverBudget(t)]
  /\ calls' = [calls EXCEPT ![t] = @ + 1]
  /\ Goto(t, "stream")
  /\ UNCHANGED <<left, own, pending, shown, text, stop, cancel, billed, verdict, swept>>

\* A manager is yielded but its round is not run: stopped, budget spent, or the
\* 900 s of the turn are over (time is not tracked, so that may be at any round).
LeaveRound(t) ==
  /\ pc[t] \in {"round", "tools"}
  /\ Goto(t, "walk")
  /\ Polled(t)
  /\ UNCHANGED <<creditVars, left, calls, own, pending, shown, text, lastRound,
                 stop, billed, verdict, swept>>

\* A chunk of text arrives; after a Stop it is dropped and the stream abandoned.
Token(t) ==
  /\ pc[t] = "stream"
  /\ Polled(t)
  /\ IF stop[t]
     THEN /\ Goto(t, "walk")
          /\ UNCHANGED <<pending, shown, text>>
     ELSE /\ pending' = [pending EXCEPT ![t] = TRUE]
          /\ shown' = [shown EXCEPT ![t] = TRUE]
          /\ text' = [text EXCEPT ![t] = TRUE]
          /\ UNCHANGED pc
  /\ UNCHANGED <<creditVars, left, calls, own, lastRound, stop, billed, verdict, swept>>

\* Mutant of FinishStep: current_step_delivered is not reset.
FinishStepKeepsPending(t) == own' = [own EXCEPT ![t] = @ + 1] /\ UNCHANGED pending
FinishStep(t) == /\ own' = [own EXCEPT ![t] = @ + 1]
                 /\ pending' = [pending EXCEPT ![t] = FALSE]

\* The call completes with tool calls; kani runs them before the next manager.
CallDoneTools(t) ==
  /\ pc[t] = "stream" /\ ~lastRound[t]
  /\ FinishStep(t)
  /\ Goto(t, "tools")
  /\ UNCHANGED <<creditVars, left, calls, shown, text, lastRound, stop, cancel, billed,
                 verdict, swept>>

\* The call completes without tool calls: its text is the answer, and a silent
\* candidate hands the turn to the next one.
CallDoneFinal(t) ==
  /\ pc[t] = "stream"
  /\ IF text[t]
     THEN Answer(t, TRUE)
     ELSE Goto(t, "walk") /\ UNCHANGED <<creditVars, billed, verdict>>
  /\ FinishStep(t)
  /\ UNCHANGED <<left, calls, shown, text, lastRound, stop, cancel, swept>>

\* Tool results arrive: the text of the round before them never reaches the answer.
ToolsDone(t) ==
  /\ pc[t] = "tools" /\ ~stop[t]
  /\ Goto(t, "round")
  /\ text' = [text EXCEPT ![t] = FALSE]
  /\ UNCHANGED <<creditVars, left, calls, own, pending, shown, lastRound, stop, cancel, billed, verdict, swept>>

\* 429, 5xx, a hung stream: RouterModelFailed, and the next candidate is tried.
CandidateFails(t) ==
  /\ pc[t] = "stream"
  /\ Goto(t, "walk")
  /\ UNCHANGED <<creditVars, left, calls, own, pending, shown, text, lastRound,
                 stop, cancel, billed, verdict, swept>>

\* The connection drops: what was delivered is the answer, or nobody can answer.
ConnectionDrops(t) ==
  /\ pc[t] = "stream"
  /\ IF text[t] THEN Answer(t, TRUE) ELSE Fail(t)
  /\ UNCHANGED <<left, calls, own, pending, shown, text, lastRound, stop, cancel, swept>>

\* Any other exception is raised through run_turn.
CallRaises(t) ==
  /\ pc[t] = "stream"
  /\ Fail(t)
  /\ UNCHANGED <<left, calls, own, pending, shown, text, lastRound, stop, cancel, swept>>

\* Mutant of HardCancel: the cancellation is passed on without settling.
HardCancelUnsettled(t) ==
  /\ pc[t] \in Running
  /\ Goto(t, "done")
  /\ verdict' = [verdict EXCEPT ![t] = "cancelled"]
  /\ UNCHANGED <<creditVars, left, calls, own, pending, shown, text, lastRound, stop,
                 cancel, swept, billed>>

\* The task is cancelled at whatever it was awaiting.
HardCancel(t) ==
  /\ pc[t] \in Running
  /\ End(t, Seen(t), "cancelled")
  /\ UNCHANGED <<left, calls, own, pending, shown, text, lastRound, stop, cancel, swept>>

----------------------------------------------------------------------------

\* The app dies with its turns; the ledger restarts from storage.json.
AppRestart == /\ Restart
              /\ pc' = [t \in Tx |-> IF pc[t] \in Running THEN "done" ELSE pc[t]]
              /\ UNCHANGED <<left, calls, own, pending, shown, text, lastRound,
                             stop, cancel, billed, verdict, swept>>

Ledger == /\ add_credits \/ Tick \/ Midnight \/ LicenceChange \/ Flush
          /\ UNCHANGED turnVars

\* astart()'s loop, which knows nothing of the turns.
SweepHolds == /\ sweep_expired_holds
              /\ swept' = swept \cup Expired
              /\ UNCHANGED <<pc, left, calls, own, pending, shown, text, lastRound,
                             stop, cancel, billed, verdict>>

\* What the models, the network and the tools do to a running turn.
Progress(t) == \/ TryCandidate(t) \/ NoRouter(t) \/ WalkEnds(t)
               \/ StartCall(t) \/ LeaveRound(t) \/ ToolsDone(t)
               \/ Token(t) \/ CallDoneTools(t) \/ CallDoneFinal(t)
               \/ CandidateFails(t) \/ ConnectionDrops(t) \/ CallRaises(t)

Init == CreditsInit /\ TurnInit
Next == \/ \E t \in Tx : Start(t) \/ Stop(t) \/ HardCancel(t) \/ Progress(t)
        \/ Ledger \/ SweepHolds \/ AppRestart
Spec == Init /\ [][Next]_vars

\* Every wait inside a turn is bounded (CANDIDATE_TTFB_S, CANDIDATE_READ_S, the
\* tools' own timeouts), so a running turn always takes its next step.
FairSpec == Spec /\ \A t \in Tx : WF_vars(Progress(t))

----------------------------------------------------------------------------

\* The types of a turn's state, on top of the ledger's.
MeteredTypeOK ==
  /\ CreditsTypeOK
  /\ pc \in [Tx -> Running \cup {"idle", "done"}]
  /\ left \in [Tx -> 0..Candidates]
  /\ {calls, own, billed} \subseteq [Tx -> Nat]
  /\ {pending, shown, text, lastRound, stop, cancel} \subseteq [Tx -> BOOLEAN]
  /\ swept \subseteq Tx
  /\ verdict \in [Tx -> Verdicts]

\* Every exit of a turn settles: however it ends, no hold outlives it.
HoldsBelongToRunningTurns == \A t \in Tx : hold[t] > 0 => pc[t] \in Running

\* "One credit per model step" (ai_credits.py:7): whichever of the two step
\* counters an exit path bills from, the bill never exceeds the calls made, and
\* what the ledger took for the turn's transaction never exceeds the bill.
BilledAtMostCalls == \A t \in Tx : cost[t] <= billed[t] /\ billed[t] <= calls[t]

\* The step budget holds across candidates: one call past it, with the tools
\* stripped, and no more (kani_backend.py:538-545).
BudgetIsPerTurn == \A t \in Tx : calls[t] <= MaxRounds + 1

\* The chain from the ledger to the budget of ai_credits.py and kani_backend.py:
\* what was taken <= what was billed <= the calls made <= the budget of the turn.
BillWithinBudget == BilledAtMostCalls /\ BudgetIsPerTurn

\* What the user was shown is paid for, however the turn ended.  A hold the
\* sweep wrote off under a running turn, and a crash, are the only exceptions.
Ended(t) == pc[t] = "done" /\ verdict[t] \in Verdicts \ {"none", "blocked"}
FloorRule == \A t \in Tx : Ended(t) /\ shown[t] /\ t \notin swept => billed[t] >= 1

\* "If the user saw any text, at least one step is billed whatever ended the
\* turn" (ai_credits.py:14-15), with no exception for the sweep.
DeliveredTurnIsBilled == \A t \in Tx : Ended(t) /\ shown[t] => billed[t] >= 1

\* A running turn always comes to an end.
TurnsEnd == \A t \in Tx : pc[t] \in Running ~> pc[t] = "done"
=============================================================================
