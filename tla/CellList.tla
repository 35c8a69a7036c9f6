------------------------------ MODULE CellList ------------------------------
(***************************************************************************)
(* The cells of the open notebooks and the questions asked about them      *)
(* (screens/session/notebook_view.py): the user edits the list with        *)
(* buttons and shortcuts, the assistant adds cells and changes the tab,    *)
(* and the answer of an in-cell ask arrives in the middle of it.  Dialogs  *)
(* are modal for the buttons; the shortcuts work under them.  A cell is    *)
(* known by the number it was made with; what it holds is left out.        *)
(***************************************************************************)
EXTENDS Integers, Sequences, SequencesExt, FiniteSets, Places

CONSTANTS Tab,        \* the open notebooks
          HomeTab,    \* the one on screen at first
          AiTab,      \* the one called Assistant
          Ask,        \* in-cell asks under way at one time
          MaxCells,   \* bound: cells ever made
          MaxMenus    \* bound: dialogs on screen

ASSUME CellListAssumption ==
  IsFiniteSet(Tab) /\ {HomeTab, AiTab} \subseteq Tab /\ MaxMenus \in Nat

VARIABLES
  cells,           \* of each tab, in order
  made,            \* how many cells were made
  on_tab,          \* active_tab_id
  active_cell_id,  \* 0 = none; it may be gone
  popups,          \* the dialogs, the last one on top: the menu or an ask's
  cell_asks,       \* what each ask is about: cell and tab; cell 0 = not running
  deleted,         \* history: cells the user deleted
  overlapped       \* history: the menu was opened while an ask was running

listVars == <<cells, made, on_tab, active_cell_id, popups, cell_asks, deleted, overlapped>>

NoAsk == [cell |-> 0, tab |-> HomeTab]
Asking == {k \in Ask : cell_asks[k] # NoAsk}
Menu(c) == [kind |-> "menu", cell |-> c]
Working(k) == [kind |-> "working", ask |-> k]

Here == ToSet(cells[on_tab])
PlaceOf(c, s) == SelectInSeq(s, LAMBDA d : d = c)     \* 0 = not there

\* _active_cell: a cell that is gone counts as the last one.
_active_cell == IF active_cell_id \in Here THEN active_cell_id ELSE Last(cells[on_tab])

NewCell == made < MaxCells /\ made' = made + 1
Publishes(t, s) == cells' = [cells EXCEPT ![t] = s]

\* A cell on screen takes the focus when it is asked to, and reports it.
_focus_cell(c) == active_cell_id' = IF c \in ToSet(cells'[on_tab']) THEN c ELSE active_cell_id

ListInit ==
  LET n == Cardinality(Tab)
      number == CHOOSE f \in [Tab -> 1 .. n] : \A t, u \in Tab : f[t] = f[u] => t = u
  IN  /\ cells = [t \in Tab |-> <<number[t]>>] /\ made = n
      /\ on_tab = HomeTab /\ active_cell_id = number[HomeTab]
      /\ popups = << >> /\ cell_asks = [k \in Ask |-> NoAsk]
      /\ deleted = {} /\ overlapped = FALSE
-----------------------------------------------------------------------------
(* Editing the list.  Buttons need the screen, shortcuts do not. *)

Buttons == popups = << >>

_add_cell == /\ Buttons /\ NewCell
             /\ Publishes(on_tab, Append(cells[on_tab], made'))
             /\ UNCHANGED <<on_tab, active_cell_id, popups, cell_asks, deleted, overlapped>>

\* Its button, or Ctrl+Shift+D on the active cell; the active id stays.
_delete_cell(c) ==
  /\ c \in Here /\ (Buttons \/ c = _active_cell)
  /\ Publishes(on_tab, AtPlaces(cells[on_tab], {i \in DOMAIN cells[on_tab] : cells[on_tab][i] # c}))
  /\ deleted' = deleted \cup {c}
  /\ UNCHANGED <<made, on_tab, active_cell_id, popups, cell_asks, overlapped>>

_move_cell(c, direction) ==
  LET s == cells[on_tab]
      i == PlaceOf(c, s)
  IN  /\ c \in Here /\ (Buttons \/ c = _active_cell)
      /\ i + direction \in 1 .. Len(s)
      /\ Publishes(on_tab, [s EXCEPT ![i] = s[i + direction], ![i + direction] = s[i]])
      /\ UNCHANGED <<made, on_tab, active_cell_id, popups, cell_asks, deleted, overlapped>>

\* Next to the anchor, or at the end when it is not in this tab.
Near(above, anchor, s, c) ==
  LET i == PlaceOf(anchor, s)
  IN  IF i = 0 THEN Append(s, c) ELSE InsertAt(s, IF above THEN i ELSE i + 1, c)

_insert_cell_near(above, anchor) ==
  /\ NewCell
  /\ Publishes(on_tab, Near(above, anchor, cells[on_tab], made'))
  /\ active_cell_id' = made'
  /\ UNCHANGED <<on_tab, popups, cell_asks, deleted, overlapped>>

\* What follows a run from the keyboard: the next cell, or a new one.
_shortcut_run(advance) ==
  /\ Here # {} /\ advance \in {"next", "insert"}
  /\ IF advance = "insert" \/ _active_cell = Last(cells[on_tab])
     THEN _insert_cell_near(FALSE, _active_cell)
     ELSE /\ UNCHANGED <<cells, made, on_tab, popups, cell_asks, deleted, overlapped>>
          /\ _focus_cell(cells[on_tab][PlaceOf(_active_cell, cells[on_tab]) + 1])

\* The kind of a cell is left out: what remains is that it takes the focus.
_toggle_active_type == /\ Here # {}
                       /\ UNCHANGED <<cells, made, on_tab, popups, cell_asks, deleted, overlapped>>
                       /\ _focus_cell(_active_cell)

\* A tap into an editor.
_on_cell_focus(c) == /\ c \in Here /\ Buttons
                     /\ active_cell_id' = c
                     /\ UNCHANGED <<cells, made, on_tab, popups, cell_asks, deleted, overlapped>>
-----------------------------------------------------------------------------
(* The assistant and the tabs *)

Shows(t) == /\ on_tab' = t
            /\ active_cell_id' = IF cells[t] = << >> THEN active_cell_id ELSE Head(cells[t])

SwitchTab(t) ==
  /\ t # on_tab /\ Shows(t)
  /\ UNCHANGED <<cells, made, popups, cell_asks, deleted, overlapped>>

\* The assistant's cells: at the end of its tab, which it shows first.
AssistantInserts ==
  /\ NewCell
  /\ IF on_tab = AiTab THEN UNCHANGED <<on_tab, active_cell_id>> ELSE Shows(AiTab)
  /\ Publishes(AiTab, Append(cells[AiTab], made'))
  /\ UNCHANGED <<popups, cell_asks, deleted, overlapped>>

\* A step of the chat points at a cell, wherever it is now.
reveal_cell(c) == \E t \in Tab :
  /\ c \in ToSet(cells[t])
  /\ on_tab' = t /\ active_cell_id' = c
  /\ UNCHANGED <<cells, made, popups, cell_asks, deleted, overlapped>>
-----------------------------------------------------------------------------
(* Asking about a cell *)

\* The sparkle button, or Ctrl+I on the active id, over any dialog.
_show_cell_ai_menu(c) ==
  /\ c # 0 /\ (c = active_cell_id \/ (Buttons /\ c \in Here))
  /\ Len(popups) < MaxMenus
  /\ popups' = Append(popups, Menu(c))
  /\ overlapped' = (overlapped \/ Asking # {})
  /\ UNCHANGED <<cells, made, on_tab, active_cell_id, cell_asks, deleted>>

OnTop(kind) == popups # << >> /\ Last(popups).kind = kind

_menu_cancel == /\ OnTop("menu") /\ popups' = Front(popups)
                /\ UNCHANGED <<cells, made, on_tab, active_cell_id, cell_asks, deleted, overlapped>>

\* _run_cell_ai up to its await, over the dialogs below.
AskStarts(c, below) ==
  /\ IF c \notin Here THEN popups' = below /\ UNCHANGED cell_asks
     ELSE \E k \in Ask \ Asking :
            /\ cell_asks' = [cell_asks EXCEPT ![k] = [cell |-> c, tab |-> on_tab]]
            /\ popups' = Append(below, Working(k))
  /\ UNCHANGED <<cells, made, on_tab, active_cell_id, deleted, overlapped>>

_menu_pick == OnTop("menu") /\ AskStarts(Last(popups).cell, Front(popups))

_on_fix_error(c) == Buttons /\ c \in Here /\ AskStarts(c, << >>)

\* pop_dialog takes the top one, whose it may be.
Ends(k) ==
  /\ cell_asks[k] # NoAsk
  /\ cell_asks' = [cell_asks EXCEPT ![k] = NoAsk]
  /\ popups' = Front(popups)

\* Mutant of AskFails: the dialog stays.
FailsKeepingDialog(k) ==
  /\ cell_asks[k] # NoAsk /\ cell_asks' = [cell_asks EXCEPT ![k] = NoAsk]
  /\ UNCHANGED <<cells, made, on_tab, active_cell_id, popups, deleted, overlapped>>

\* Out of credits, unavailable, or nothing usable in the answer.
AskFails(k) == /\ Ends(k)
               /\ UNCHANGED <<cells, made, on_tab, active_cell_id, deleted, overlapped>>

\* The dialog's Cancel ends its own ask, which then takes the top dialog.
_cancel(k) == OnTop("working") /\ Last(popups).ask = k /\ AskFails(k)

\* Mutant of _insert_ai_answer: the tab on screen gets the answer.
AnswersOnScreen(k) ==
  /\ NewCell /\ Ends(k)
  /\ Publishes(on_tab, Near(FALSE, cell_asks[k].cell, cells[on_tab], made'))
  /\ UNCHANGED <<on_tab, deleted, overlapped>>
  /\ _focus_cell(made')

_insert_ai_answer(k) ==
  /\ NewCell /\ Ends(k)
  /\ Publishes(cell_asks[k].tab, Near(FALSE, cell_asks[k].cell, cells[cell_asks[k].tab], made'))
  /\ UNCHANGED <<on_tab, deleted, overlapped>>
  /\ _focus_cell(made')

ListNext ==
  \/ _add_cell \/ AssistantInserts \/ _toggle_active_type \/ _menu_cancel \/ _menu_pick
  \/ \E above \in BOOLEAN : _insert_cell_near(above, active_cell_id)
  \/ \E advance \in {"next", "insert"} : _shortcut_run(advance)
  \/ \E t \in Tab : SwitchTab(t)
  \/ \E c \in 1 .. made : \/ _delete_cell(c) \/ _move_cell(c, 1) \/ _move_cell(c, -1)
                          \/ _on_cell_focus(c) \/ reveal_cell(c)
                          \/ _show_cell_ai_menu(c) \/ _on_fix_error(c)
  \/ \E k \in Ask : AskFails(k) \/ _cancel(k) \/ _insert_ai_answer(k)

ListSpec == ListInit /\ [][ListNext]_listVars
-----------------------------------------------------------------------------
AnswerByItsCell ==
  \A k \in Asking : cell_asks'[k] = NoAsk /\ made' > made =>
    LET s == cells'[cell_asks[k].tab]
        i == PlaceOf(cell_asks[k].cell, s)
    IN  s # << >> /\ PlaceOf(made', s) = IF i = 0 THEN Len(s) ELSE i + 1

EachInOnePlace ==
  \A c \in 1 .. made :
    IF c \in deleted THEN \A t \in Tab : c \notin ToSet(cells[t])
    ELSE Cardinality({at \in Tab \X (1 .. made) :
                        at[2] <= Len(cells[at[1]]) /\ cells[at[1]][at[2]] = c}) = 1

\* An answer lands in the notebook it was asked from, right below its cell
\* wherever that has been moved, or at the end when it has been deleted; and
\* every cell is in one place of one notebook unless the user deleted it, from
\* whichever list it was removed or inserted meanwhile (_insert_ai_answer).
AnswersLandByTheirCell == [][AnswerByItsCell /\ EachInOnePlace']_listVars

\* A running ask is always covered by a dialog; and unless the menu was opened
\* over a running one, the dialogs on screen are the menu or that of the ask
\* that is running, whose Cancel stops it (the comment in _run_cell_ai: "an ask
\* the user can watch is an ask they can stop").
AsksAreCovered ==
  /\ Len(popups) >= Cardinality(Asking)
  /\ ~overlapped => \A i \in 1 .. Len(popups) :
                       popups[i].kind = "working" => Asking = {popups[i].ask}
=============================================================================
