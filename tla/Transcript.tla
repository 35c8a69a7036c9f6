----------------------------- MODULE Transcript -----------------------------
(***************************************************************************)
(* What is said in one assistant turn: the messages each candidate of the  *)
(* walk is sent (services/kani_backend.py run_turn), the tools kani runs   *)
(* in a batch, the words that become the answer, and the bubble the chat   *)
(* draws from the events (screens/assistant_view.py).  What the turn costs *)
(* is MeteredTurn's matter, which session owns it ChatSession's.           *)
(***************************************************************************)
EXTENDS Integers, Sequences, FiniteSets, SequencesExt

CONSTANTS
  Walk,        \* how many candidates the walk has
  Budget,      \* max_rounds
  Unnamed,     \* the candidates whose replies carry no tool_call_id
  MaxBatch     \* bound: tool calls in one reply

ASSUME TranscriptAssumption == Walk \in Nat \ {0} /\ Budget \in Nat \ {0} /\ MaxBatch \in Nat \ {0}

VARIABLES
  at,           \* start, walk, round, stream, tools, over
  candidate,    \* how many of the walk were tried
  model_steps,  \* model calls started; a call's number is its name
  final_round,  \* giving_final_answer
  history_msgs, \* what the next candidate is sent, after the user's messages
  chat_history, \* what this candidate was sent and has added (kani.chat_history)
  collected,    \* the calls whose text is in collected
  batch,        \* the state of each tool call of the last reply
  steps_rows,   \* the bubble's step rows
  bubble,       \* the calls whose text is in the bubble
  ran,          \* history: tool calls whose body ran to its end
  should_stop,  \* the user asked
  cancel,       \* run_turn's event: a poll has seen it
  ending        \* the terminal event: none, final, stopped, error, credits

walkVars == <<at, candidate, model_steps, final_round, should_stop, cancel, ending>>
msgVars == <<history_msgs, chat_history>>
rowVars == <<batch, steps_rows, ran>>
textVars == <<collected, bubble>>
transcriptVars == <<walkVars, msgVars, rowVars, textVars>>

Say(kind, slot) == [by |-> candidate, call |-> model_steps, kind |-> kind, slot |-> slot]

----------------------------------------------------------------------------
(* The events the chat is told *)

\* text_final, stopped, error: the words replace the bubble's, if there are any,
\* and no row is left running.
Ends(event, words) ==
  /\ at' = "over" /\ ending' = event
  /\ bubble' = IF words # {} THEN words ELSE bubble
  /\ steps_rows' = [i \in DOMAIN steps_rows |->
       IF steps_rows[i].state = "running" THEN [steps_rows[i] EXCEPT !.state = "error"] ELSE steps_rows[i]]

\* The tool_call_id a call comes with: one of its own, or none.
tool_call_id(s) == IF candidate \in Unnamed THEN 0 ELSE model_steps * (MaxBatch + 1) + s

\* The row an event is for: by the id it was opened with, or, without one, the
\* first that is still running.
RowOf(id) ==
  LET these == {i \in DOMAIN steps_rows :
                  IF id = 0 THEN steps_rows[i].state = "running" ELSE steps_rows[i].id = id}
  IN IF these = {} THEN 0 ELSE CHOOSE i \in these : \A j \in these : i <= j

----------------------------------------------------------------------------
(* The walk *)

\* A zero balance, no router, no model.
Refused ==
  /\ at = "start"
  /\ \E event \in {"credits", "error"} : Ends(event, {})
  /\ UNCHANGED <<candidate, model_steps, final_round, should_stop, cancel, msgVars, collected, batch, ran>>

Begins ==
  /\ at = "start" /\ at' = "walk"
  /\ UNCHANGED <<candidate, model_steps, final_round, should_stop, cancel, ending, msgVars, rowVars, textVars>>

Spent == model_steps >= Budget

\* Mutant of Tries: the dead candidate's words are kept.
TriesWithOldWords ==
  /\ at = "walk" /\ ~should_stop /\ candidate < Walk /\ ~Spent
  /\ candidate' = candidate + 1
  /\ \/ /\ at' = "round" /\ chat_history' = history_msgs /\ final_round' = FALSE
        /\ UNCHANGED collected
     \/ UNCHANGED <<at, chat_history, collected, final_round>>
  /\ UNCHANGED <<model_steps, should_stop, cancel, ending, history_msgs, rowVars, bubble>>

\* Its engine is built or not.
Tries ==
  /\ at = "walk" /\ ~should_stop /\ candidate < Walk /\ ~Spent
  /\ candidate' = candidate + 1
  /\ \/ /\ at' = "round" /\ chat_history' = history_msgs /\ final_round' = FALSE
        /\ collected' = {}
     \/ UNCHANGED <<at, chat_history, collected, final_round>>
  /\ UNCHANGED <<model_steps, should_stop, cancel, ending, history_msgs, rowVars, bubble>>

\* Nobody is left, the budget is spent, or the user stopped it; a stop after the
\* last candidate is not polled any more.
WalkIsOver ==
  /\ at = "walk"
  /\ should_stop \/ candidate = Walk \/ Spent
  /\ cancel' = (cancel \/ (should_stop /\ candidate < Walk))
  /\ CASE cancel' -> Ends("stopped", collected)
       [] collected # {} -> Ends("final", collected)
       [] Spent -> Ends("final", {-1})              \* the budget's own sentence
       [] OTHER -> Ends("error", {})
  /\ UNCHANGED <<candidate, model_steps, final_round, should_stop, msgVars, collected, batch, ran>>

Calls ==
  /\ at = "round" /\ ~should_stop /\ ~(Spent /\ final_round)
  /\ at' = "stream"
  /\ model_steps' = model_steps + 1
  /\ final_round' = (final_round \/ Spent)
  /\ UNCHANGED <<candidate, should_stop, cancel, ending, msgVars, rowVars, textVars>>

\* A manager that is not used: stopped, out of budget, or out of time.
Leaves ==
  /\ at = "round" \/ (at = "tools" /\ \A s \in DOMAIN batch : batch[s] = "done")
  /\ at' = "walk" /\ cancel' = should_stop
  /\ UNCHANGED <<candidate, model_steps, final_round, should_stop, ending, msgVars, rowVars, textVars>>

----------------------------------------------------------------------------
(* One model call *)

\* on_token: once the user has stopped the turn, nothing after is shown.
Streams ==
  /\ at = "stream"
  /\ IF should_stop
     THEN at' = "walk" /\ cancel' = TRUE /\ UNCHANGED textVars
     ELSE /\ collected' = collected \union {model_steps}
          /\ bubble' = bubble \union {model_steps}
          /\ UNCHANGED <<at, cancel>>
  /\ UNCHANGED <<candidate, model_steps, final_round, should_stop, ending, msgVars, rowVars>>

\* Mutant of AsksTools: the transcript is not carried forward.
AsksToolsUncarried(n) ==
  /\ at = "stream" /\ ~final_round
  /\ at' = "tools" /\ batch' = [s \in 1 .. n |-> "todo"]
  /\ chat_history' = Append(chat_history, Say("asks", 0))
  /\ UNCHANGED <<candidate, model_steps, final_round, should_stop, cancel, ending, history_msgs,
                 steps_rows, ran, textVars>>

\* The reply ends with n tool calls: the transcript so far goes to the next
\* candidate, the results of these calls not yet in it.
AsksTools(n) ==
  /\ at = "stream" /\ ~final_round
  /\ at' = "tools" /\ batch' = [s \in 1 .. n |-> "todo"]
  /\ chat_history' = Append(chat_history, Say("asks", 0))
  /\ history_msgs' = chat_history'
  /\ UNCHANGED <<candidate, model_steps, final_round, should_stop, cancel, ending, steps_rows, ran, textVars>>

\* The reply ends without: it is the answer, or silence.
Answers ==
  /\ at = "stream"
  /\ chat_history' = Append(chat_history, Say("says", 0))
  /\ IF collected # {}
     THEN /\ Ends("final", collected)
          /\ UNCHANGED history_msgs
     ELSE /\ at' = "walk" /\ history_msgs' = chat_history'
          /\ UNCHANGED <<ending, bubble, steps_rows>>
  /\ UNCHANGED <<candidate, model_steps, final_round, should_stop, cancel, collected, batch, ran>>

\* _map_failure: the model's fault, the connection's, or anybody's.
ModelFails ==
  /\ at = "stream" /\ at' = "walk"
  /\ UNCHANGED <<candidate, model_steps, final_round, should_stop, cancel, ending, msgVars, rowVars, textVars>>

ConnectionFails ==
  /\ at = "stream"
  /\ IF collected # {} THEN Ends("final", collected)
                       ELSE Ends("error", {})
  /\ UNCHANGED <<candidate, model_steps, final_round, should_stop, cancel, msgVars, collected, batch, ran>>

----------------------------------------------------------------------------
(* The tools of a reply *)

\* The lock of build_functions lets one in, in the order of the calls.  The
\* preamble is dropped, the row opens; a missing id (0) is made unique.
ToolStarts(s) ==
  /\ at = "tools" /\ batch[s] = "todo"
  /\ \A r \in DOMAIN batch : r < s => batch[r] = "done"
  /\ batch' = [batch EXCEPT ![s] = "running"]
  /\ steps_rows' = Append(steps_rows, [id |-> tool_call_id(s), call |-> model_steps, slot |-> s, state |-> "running"])
  /\ bubble' = {}
  /\ UNCHANGED <<walkVars, msgVars, ran, collected>>

\* Its body returns or raises; either way the model reads a text and the row of
\* its id closes.
ToolEnds(s, state) ==
  /\ at = "tools" /\ batch[s] = "running"
  /\ batch' = [batch EXCEPT ![s] = "done"]
  /\ ran' = ran \union {[by |-> candidate, call |-> model_steps, slot |-> s]}
  /\ steps_rows' = LET i == RowOf(tool_call_id(s)) IN
       IF i = 0 THEN steps_rows ELSE [steps_rows EXCEPT ![i].state = state]
  /\ UNCHANGED <<walkVars, msgVars, textVars>>

\* The results are in kani's history and are read; the text of a round that
\* called tools is no part of the answer.
ResultsRead ==
  /\ at = "tools" /\ ~should_stop
  /\ \A s \in DOMAIN batch : batch[s] = "done"
  /\ at' = "round"
  /\ chat_history' = chat_history \o [s \in DOMAIN batch |-> Say("result", s)]
  /\ collected' = {}
  /\ UNCHANGED <<candidate, model_steps, final_round, should_stop, cancel, ending, history_msgs, rowVars, bubble>>

----------------------------------------------------------------------------
(* The user *)

Stops ==
  /\ at \notin {"start", "over"} /\ ~should_stop
  /\ should_stop' = TRUE
  /\ UNCHANGED <<at, candidate, model_steps, final_round, cancel, ending, msgVars, rowVars, textVars>>

\* The backstop cancels the task: the tool that is running reports itself done
\* on its way out, and the chat emits the terminal event itself.
TaskCancelled ==
  /\ should_stop /\ at # "over"
  /\ at' = "over" /\ ending' = "stopped"
  /\ steps_rows' = [i \in DOMAIN steps_rows |->
       IF steps_rows[i].state = "running" THEN [steps_rows[i] EXCEPT !.state = "done"] ELSE steps_rows[i]]
  /\ UNCHANGED <<candidate, model_steps, final_round, should_stop, cancel, msgVars, batch, ran, textVars>>

TranscriptInit ==
  /\ at = "start" /\ candidate = 0 /\ model_steps = 0 /\ final_round = FALSE
  /\ history_msgs = <<>> /\ chat_history = <<>>
  /\ collected = {} /\ bubble = {} /\ batch = <<>> /\ steps_rows = <<>> /\ ran = {}
  /\ should_stop = FALSE /\ cancel = FALSE /\ ending = "none"

TranscriptNext ==
  \/ Refused \/ Begins \/ Tries \/ WalkIsOver \/ Calls \/ Leaves
  \/ Streams \/ Answers \/ ModelFails \/ ConnectionFails \/ ResultsRead
  \/ Stops \/ TaskCancelled
  \/ \E n \in 1 .. MaxBatch : AsksTools(n)
  \/ \E s \in DOMAIN batch :
       ToolStarts(s) \/ ToolEnds(s, "done") \/ ToolEnds(s, "error")

TranscriptSpec == TranscriptInit /\ [][TranscriptNext]_transcriptVars

----------------------------------------------------------------------------
(* The bubble as it is drawn *)

partial == at # "over"
Running == \E i \in DOMAIN steps_rows : steps_rows[i].state = "running"

working == IF partial /\ bubble = {} /\ steps_rows = <<>> THEN {"working"} ELSE {}
words == IF bubble = {} THEN {} ELSE IF partial THEN {"plain"} ELSE {"markdown"}
rows_drawn == {steps_rows[i].state : i \in DOMAIN steps_rows}
notices ==
  (IF ending \in {"credits", "error"} THEN {"notice"} ELSE {})
  \union (IF ending = "stopped" THEN {"stopped"} ELSE {})
\* _turn_suggestions: pills under a bubble that is not partial.  Only tools that
\* went right and have nothing to offer leave it without any.
pills == IF partial THEN {} ELSE IF steps_rows = <<>> \/ "error" \in rows_drawn THEN {"pills"} ELSE {}

drawn == working \union words \union rows_drawn \union notices \union pills

----------------------------------------------------------------------------
(* Properties *)

\* The answer is one model's, from one of its replies: no words of a candidate
\* that failed, no preamble to a tool call, nothing that was streamed after a
\* stop; and the bubble of a finished turn holds exactly that.
AnswerIsOneVoice ==
  /\ Cardinality(collected) <= 1
  /\ at = "stream" => collected \subseteq {model_steps}
  /\ ending = "final" => Cardinality(bubble) = 1 /\ bubble \subseteq {-1, model_steps}

\* What has been done for the user is told to whoever goes on with the turn: each
\* tool result is in the prompt of the candidate in force, once and in order,
\* but for those of the last reply a candidate failed after.
Told == {[by |-> chat_history[i].by, call |-> chat_history[i].call, slot |-> chat_history[i].slot] :
           i \in {j \in DOMAIN chat_history : chat_history[j].kind = "result"}}
LastAsk(c) == LET asks == {r.call : r \in {q \in ran : q.by = c}}
              IN CHOOSE k \in asks : \A l \in asks : l <= k
OnlyLastBatchIsLost ==
  at \in {"round", "stream", "tools"} =>
    /\ \A r \in ran : r \in Told \/ r.call = LastAsk(r.by)
    /\ at # "tools" => \A r \in ran : r.by = candidate => r \in Told
    /\ \A i, j \in DOMAIN chat_history :
         i < j => /\ chat_history[i].call <= chat_history[j].call
                  /\ chat_history[i] # chat_history[j]

\* One row for each call that started, one running at a time and only while its
\* tool does; a finished turn has none, and until then says that it works: it is
\* never drawn as finished, nor empty.
RowsFollowTools ==
  /\ Cardinality({i \in DOMAIN steps_rows : steps_rows[i].state = "running"}) <= 1
  /\ Running => at = "tools" /\ \E s \in DOMAIN batch : batch[s] = "running"
  /\ \A r \in ran : Cardinality({i \in DOMAIN steps_rows :
                       steps_rows[i].call = r.call /\ steps_rows[i].slot = r.slot /\ steps_rows[i].state # "running"}) = 1
  /\ drawn # {}
  /\ ending = "none" <=> drawn \intersect {"markdown", "notice", "stopped", "pills"} = {}

\* Both: what the models, the tools and the reader of one turn are told is what
\* was done (run_turn, build_functions, _emit).
TranscriptIsTrue == OnlyLastBatchIsLost /\ RowsFollowTools
=============================================================================
