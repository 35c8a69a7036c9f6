------------------------------ MODULE Explain ------------------------------
(***************************************************************************)
(* The terminal's Explain dialog (screens/session/terminal_panel.py        *)
(* _explain_terminal): a first ask, follow-ups, and handing the thread to  *)
(* the chat (screens/assistant_view.py adopt_transcript), which may be     *)
(* answering meanwhile.  Each ask is one metered turn of                   *)
(* services/ai_quick.py ask; the turn itself is in MeteredTurn.            *)
(***************************************************************************)
EXTENDS Integers, Sequences, SequencesExt

CONSTANTS
  MaxAsks,      \* bound: metered asks
  MaxAdopted    \* bound: threads handed over

ASSUME ExplainAssumption == MaxAsks \in Nat /\ MaxAdopted \in Nat

VARIABLES
  explaining,   \* "closed", "first" (the ask with its Cancel) or "thread"
  dialog_no,    \* which dialog: an ask in flight outlives the one it belongs to
  busy,         \* flags["busy"]
  history,      \* the answers of the thread, as numbers of their asks
  asks,         \* the asks in flight, each with its dialog
  asked,        \* asks made so far
  chat_busy,    \* the chat runs a turn of its own, or is closing
  adopted       \* the threads in the chat

explainVars == <<explaining, dialog_no, busy, history, asks, asked, chat_busy, adopted>>

\* ai_quick.ask is called.
Quick ==
  /\ asked < MaxAsks
  /\ asked' = asked + 1
  /\ asks' = asks \union {[n |-> asked', of |-> dialog_no']}

\* What ask gives back: a text, nothing usable, or an exception (out of
\* credits, no credit service, no model, or the Cancel button).
Replies(a, text) ==
  /\ text \in BOOLEAN
  /\ asks' = asks \ {a}

Own(a) == a.of = dialog_no /\ explaining # "closed"

----------------------------------------------------------------------------
\* _explain_terminal up to its first await.
_explain_terminal ==
  /\ explaining = "closed"
  /\ explaining' = "first" /\ dialog_no' = dialog_no + 1
  /\ busy' = FALSE /\ history' = <<>>
  /\ Quick
  /\ UNCHANGED <<chat_busy, adopted>>

\* The thread opens if there is an answer.
FirstReply(a, text) ==
  /\ explaining = "first" /\ Own(a)
  /\ Replies(a, text)
  /\ explaining' = IF text THEN "thread" ELSE "closed"
  /\ history' = IF text THEN <<a.n>> ELSE <<>>
  /\ UNCHANGED <<dialog_no, busy, asked, chat_busy, adopted>>

\* Mutant of _ask_followup: Enter sends while an ask is running.
AsksWhileBusy ==
  /\ explaining = "thread"
  /\ busy' = TRUE /\ dialog_no' = dialog_no
  /\ Quick
  /\ UNCHANGED <<explaining, history, chat_busy, adopted>>

_ask_followup ==
  /\ explaining = "thread" /\ ~busy
  /\ busy' = TRUE /\ dialog_no' = dialog_no
  /\ Quick
  /\ UNCHANGED <<explaining, history, chat_busy, adopted>>

\* The reply of a dialog that was closed is paid for and goes nowhere.
FollowupReply(a, text) ==
  /\ explaining # "first" \/ ~Own(a)
  /\ Replies(a, text)
  /\ IF Own(a)
     THEN /\ busy' = FALSE
          /\ history' = IF text THEN Append(history, a.n) ELSE history
     ELSE UNCHANGED <<busy, history>>
  /\ UNCHANGED <<explaining, dialog_no, asked, chat_busy, adopted>>

_close_dialog ==
  /\ explaining = "thread"
  /\ explaining' = "closed"
  /\ UNCHANGED <<dialog_no, busy, history, asks, asked, chat_busy, adopted>>

\* adopt_transcript: refused while the chat runs a turn, and then the thread
\* is gone, whatever the notice says.  A second tap on the button, before the
\* dialog has left the screen, hands it over again.
_continue_in_chat ==
  /\ explaining = "thread" \/ (explaining = "closed" /\ adopted # <<>> /\ Last(adopted).of = dialog_no)
  /\ Len(adopted) < MaxAdopted
  /\ explaining' = "closed"
  /\ adopted' = IF chat_busy THEN adopted
                ELSE Append(adopted, [of |-> dialog_no, answers |-> history])
  /\ UNCHANGED <<dialog_no, busy, history, asks, asked, chat_busy>>

\* A turn of the chat starts or ends.
ChatTurn ==
  /\ chat_busy' = ~chat_busy
  /\ UNCHANGED <<explaining, dialog_no, busy, history, asks, asked, adopted>>

----------------------------------------------------------------------------
ExplainInit ==
  /\ explaining = "closed" /\ dialog_no = 0 /\ busy = FALSE /\ history = <<>>
  /\ asks = {} /\ asked = 0
  /\ chat_busy \in BOOLEAN /\ adopted = <<>>

ExplainNext ==
  \/ _explain_terminal \/ _ask_followup \/ _close_dialog \/ _continue_in_chat \/ ChatTurn
  \/ \E a \in asks, text \in BOOLEAN : FirstReply(a, text) \/ FollowupReply(a, text)

ExplainSpec == ExplainInit /\ [][ExplainNext]_explainVars

----------------------------------------------------------------------------
(* Properties *)

InOrder(s) == \A i, j \in 1 .. Len(s) : i < j => s[i] < s[j]

\* A thread, on screen and in the chat, has its answers in the order of their
\* questions, with those still in flight all asked later: what a follow-up is
\* asked against is everything that came before it.
ThreadInOrder ==
  /\ explaining = "thread" =>
       /\ history # <<>> /\ InOrder(history)
       /\ \A a \in asks : Own(a) => busy /\ a.n > Last(history)
  /\ \A i \in 1 .. Len(adopted) : adopted[i].answers # <<>> /\ InOrder(adopted[i].answers)

\* Each answer lands in the chat once.  A second tap lands it twice.
AdoptedOnce ==
  \A i, j \in 1 .. Len(adopted) : adopted[i].of = adopted[j].of => i = j
=============================================================================
