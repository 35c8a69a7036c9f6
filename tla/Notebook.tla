------------------------------ MODULE Notebook ------------------------------
(***************************************************************************)
(* The documents of one session (screens/session/notebook_view.py and      *)
(* script_view.py) and their files (services/storage_service.py): tabs,    *)
(* the debounced save, the import dialogs, the assistant's bridge, leaving *)
(* the screen and coming back.  Everything runs on one event loop; a       *)
(* handler and the writes it schedules, which run in order, are one step.  *)
(***************************************************************************)
EXTENDS Integers, Sequences, SequencesExt, Places, Nothing

CONSTANTS
  MaxTabs,    \* bound: tabs on screen
  MaxSeq,     \* bound: numbers given to tabs on one visit to the screen
  MaxEdits    \* bound: changes of documents

ASSUME NotebookAssumption ==
  /\ MaxTabs \in Nat \ {0} /\ MaxSeq \in Nat \ {0} /\ MaxEdits \in Nat

\* Notebooks are nb<n>, scripts are py<n>, from one sequence of numbers.
Id == [kind : {"nb", "py"}, n : 1 .. MaxSeq]

ASSUME NothingAssumption == None \notin Nat /\ None \notin Id /\ None \notin Seq(Id)

\* A document is the number of the change that made it; 0 is a new, empty one.
VARIABLES
  screen,         \* "off", "rendered" (the tabs are not loaded yet) or "on"
  tabs,           \* tabs_ref: the tabs, in order; after leaving, those left
  active_tab_id,
  tab_seq,        \* tab_seq_ref
  timer,          \* save_debounce_ref: the tab its _save was made for
  picker,         \* the tab an open import dialog was opened for
  index,          \* the sidecar: ids in order, or None
  disk,           \* each document's file
  early,          \* the tab written by the assistant before the load
  stored,         \* the index as a tool that found the screen closed has read it,
                  \* and what it writes; or None
  edits,          \* changes made so far
  clash,          \* history: a tab got an id that was taken, or the assistant
                  \* wrote while the screen was coming up
  skipped         \* history: documents left or imported without being saved

notebookVars == <<screen, tabs, active_tab_id, tab_seq, timer, picker,
                  index, disk, early, stored, edits, clash, skipped>>

files == <<index, disk>>

\* The dict of a tab: its document, and the change that published the dict.
NewTab(id, text) == [id |-> id, pub |-> text, text |-> text]
Ids(ts) == [i \in 1 .. Len(ts) |-> ts[i].id]
Taken(id) == \E i \in 1 .. Len(tabs) : tabs[i].id = id

\* load_notebook, load_script: no file is an empty document.
File(id) == IF disk[id] = None THEN 0 ELSE disk[id]

\* _get_tab: the first tab of that id.
Place(ts, id) == CHOOSE i \in 1 .. Len(ts) : ts[i].id = id /\ \A j \in 1 .. i - 1 : ts[j].id # id
_get_tab(id) == tabs[Place(tabs, id)]

Edited == edits < MaxEdits /\ edits' = edits + 1

\* _save of a document; nothing is outstanding for it then.
Saved(id, text) ==
  /\ disk' = [disk EXCEPT ![id] = text]
  /\ skipped' = skipped \ {id}

----------------------------------------------------------------------------
(* Coming to the screen *)

Mount ==
  /\ screen = "off"
  /\ screen' = "rendered"
  /\ tabs' = <<>> /\ active_tab_id' = None /\ tab_seq' = 0
  /\ skipped' = {}
  /\ UNCHANGED <<stored, timer, picker, files, early, edits, clash>>

\* The assistant may write through the bridge before _load runs.  Its tab is
\* written afterwards, and _load knows nothing of it.
EarlyInsert ==
  /\ screen = "rendered" /\ tabs = <<>>
  /\ Edited
  /\ tab_seq' = 1
  /\ LET tab == NewTab([kind |-> "nb", n |-> 1], edits') IN
     /\ tabs' = <<tab>> /\ active_tab_id' = tab.id
     /\ early' = tab
  /\ clash' = TRUE
  /\ UNCHANGED <<stored, screen, timer, picker, files, skipped>>

_load ==
  /\ screen = "rendered"
  /\ screen' = "on"
  /\ LET ids == IF index \in {None, <<>>} THEN <<[kind |-> "nb", n |-> 1]>> ELSE index
     IN /\ tabs' = [i \in 1 .. Len(ids) |-> NewTab(ids[i], File(ids[i]))]
        /\ active_tab_id' = ids[1]
        /\ tab_seq' = tab_seq + Len(ids)
        /\ index' = IF early = None THEN ids ELSE <<early.id>>
  /\ disk' = IF early = None THEN disk ELSE [disk EXCEPT ![early.id] = early.text]
  /\ early' = None
  /\ UNCHANGED <<stored, timer, picker, edits, clash, skipped>>

----------------------------------------------------------------------------
(* Tabs *)

\* _create_tab, _create_script_tab: the tab that is left is not saved.
Opened(kind, text) ==
  LET id == [kind |-> kind, n |-> tab_seq + 1] IN
  /\ tab_seq < MaxSeq /\ Len(tabs) < MaxTabs
  /\ tab_seq' = tab_seq + 1
  /\ tabs' = Append(tabs, NewTab(id, text))
  /\ active_tab_id' = id
  /\ index' = Ids(tabs')
  /\ disk' = [disk EXCEPT ![id] = text]
  /\ clash' = (clash \/ Taken(id))
  /\ skipped' = skipped \ {id}

_create_tab(kind) ==
  /\ screen = "on" /\ picker = None
  /\ Opened(kind, 0)
  /\ UNCHANGED <<stored, screen, timer, picker, early, edits>>

_switch_tab(id) ==
  /\ screen = "on" /\ picker = None
  /\ Taken(id) /\ id # active_tab_id
  /\ Saved(active_tab_id, _get_tab(active_tab_id).text)
  /\ active_tab_id' = id
  /\ UNCHANGED <<stored, screen, tabs, tab_seq, timer, picker, index, early, edits, clash>>

\* The document goes with its tab; the last tab is followed by a new one.
_close_tab(id) ==
  LET rest == AtPlaces(tabs, {i \in DOMAIN tabs : tabs[i].id # id})
      first == [kind |-> "nb", n |-> 1]
      next == IF rest = <<>> THEN <<NewTab(first, 0)>> ELSE rest
      gone == [disk EXCEPT ![id] = None]
      stays == active_tab_id # id
  IN /\ screen = "on" /\ picker = None
     /\ Taken(id)
     /\ rest = <<>> => tab_seq < MaxSeq
     /\ tab_seq' = IF rest = <<>> THEN tab_seq + 1 ELSE tab_seq
     /\ tabs' = next
     /\ disk' = IF rest = <<>> THEN [gone EXCEPT ![first] = 0] ELSE gone
     /\ index' = Ids(next)
     /\ active_tab_id' = IF stays THEN active_tab_id ELSE next[Len(next)].id
     /\ skipped' = skipped \ IF rest = <<>> THEN {id, first} ELSE {id}
     /\ UNCHANGED <<stored, screen, timer, picker, early, edits, clash>>

----------------------------------------------------------------------------
(* Editing *)

\* The timer is cancelled and set for tab id: what it had to save of another
\* tab waits for that tab's next save.
Restarted(id) ==
  /\ timer' = id
  /\ skipped' = skipped \union {t \in {timer} \ {None, id} : Taken(t) /\ File(t) # _get_tab(t).text}

\* A keystroke, in a cell or in a script: the change is made in place, and the
\* one timer starts again for the tab on screen.
Type ==
  LET i == Place(tabs, active_tab_id) IN
  /\ screen = "on" /\ picker = None
  /\ Edited
  /\ tabs' = [tabs EXCEPT ![i].text = edits']
  /\ Restarted(active_tab_id)
  /\ UNCHANGED <<stored, screen, active_tab_id, tab_seq, picker, files, early, clash>>

\* Mutant of _debounced_save: the timer saves whichever tab is on screen.
SavesTheScreen ==
  /\ screen = "on" /\ timer # None
  /\ timer' = None
  /\ Saved(active_tab_id, _get_tab(active_tab_id).text)
  /\ UNCHANGED <<stored, screen, tabs, active_tab_id, tab_seq, picker, index, early, edits, clash>>

_debounced_save ==
  /\ screen = "on" /\ timer # None
  /\ timer' = None
  /\ IF Taken(timer) THEN Saved(timer, _get_tab(timer).text) ELSE UNCHANGED <<disk, skipped>>
  /\ UNCHANGED <<stored, screen, tabs, active_tab_id, tab_seq, picker, index, early, edits, clash>>

\* Adding, deleting and moving cells, the in-cell assistant's answer and the
\* assistant's cells: _publish makes a new dict for the tab, which is saved.
_insert_cells ==
  LET i == Place(tabs, active_tab_id) IN
  /\ screen = "on" /\ active_tab_id.kind = "nb"
  /\ Edited
  /\ tabs' = [tabs EXCEPT ![i] = NewTab(@.id, edits')]
  /\ Saved(active_tab_id, edits')
  /\ UNCHANGED <<stored, screen, active_tab_id, tab_seq, timer, picker, index, early, clash>>

\* write_cells_to_active_tab, with a script on screen: a new notebook for them.
write_cells_to_active_tab ==
  /\ screen = "on" /\ active_tab_id.kind = "py"
  /\ Edited
  /\ Opened("nb", edits')
  /\ UNCHANGED <<stored, screen, timer, picker, early>>

\* _import_ipynb, _import_script: the tab is looked up before the dialog.  The
\* dialog is the platform's: meanwhile only the assistant changes anything.
PickFile ==
  /\ screen = "on" /\ picker = None
  /\ picker' = _get_tab(active_tab_id)
  /\ UNCHANGED <<stored, screen, tabs, active_tab_id, tab_seq, timer, files, early, edits, clash, skipped>>

PickNothing ==
  /\ picker # None
  /\ picker' = None
  /\ UNCHANGED <<stored, screen, tabs, active_tab_id, tab_seq, timer, files, early, edits, clash, skipped>>

\* Cells replace those of the dict found then: if it is no longer the tab's,
\* they reach the file only.
_import_ipynb ==
  LET i == Place(tabs, picker.id)
      current == tabs[i].pub = picker.pub
  IN /\ picker # None /\ picker.id.kind = "nb"
     /\ Edited
     /\ picker' = None
     /\ tabs' = IF current THEN [tabs EXCEPT ![i] = NewTab(@.id, edits')] ELSE tabs
     /\ disk' = [disk EXCEPT ![picker.id] = edits']
     /\ skipped' = IF current THEN skipped \ {picker.id} ELSE skipped \union {picker.id}
     /\ UNCHANGED <<stored, screen, active_tab_id, tab_seq, timer, index, early, clash>>

\* The text of the file becomes the tab's.  (The editor
\* of a script is not filled again: it shows, and runs, the older text.)
_import_script ==
  LET i == Place(tabs, picker.id) IN
  /\ picker # None /\ picker.id.kind = "py"
  /\ Edited
  /\ picker' = None
  /\ tabs' = [tabs EXCEPT ![i].text = edits']
  /\ Restarted(picker.id)
  /\ UNCHANGED <<stored, screen, active_tab_id, tab_seq, files, early, clash>>

----------------------------------------------------------------------------
(* The assistant with the screen closed: it works on the files *)

\* _stored_tabs: the index is read; the screen may open before it is written.
_stored_tabs ==
  /\ screen = "off" /\ stored = None
  /\ Edited
  /\ stored' = [ids |-> IF index = None THEN <<>> ELSE index, text |-> edits']
  /\ UNCHANGED <<screen, tabs, active_tab_id, tab_seq, timer, picker, files, early, clash, skipped>>

Notebooks == AtPlaces(stored.ids, {i \in DOMAIN stored.ids : stored.ids[i].kind = "nb"})

\* _next_notebook_id: above those of the index and of the files.
_next_notebook_id ==
  LET used == {id \in Id : id.kind = "nb" /\ (Contains(stored.ids, id) \/ disk[id] # None)}
  IN [kind |-> "nb", n |-> Max({id.n : id \in used} \union {0}) + 1]

\* The tools write the files; what an open screen holds is not told.
Stored(ids, id, text) ==
  /\ index' = ids
  /\ disk' = [disk EXCEPT ![id] = text]
  /\ stored' = None
  /\ clash' = (clash \/ screen # "off")
  /\ tabs' = IF screen = "off" THEN <<>> ELSE tabs
  /\ UNCHANGED <<screen, active_tab_id, tab_seq, timer, picker, early, edits, skipped>>

\* _stored_create_tab: in front, where the screen finds its active tab.
_stored_create_tab(text) ==
  /\ _next_notebook_id \in Id /\ Len(stored.ids) < MaxTabs
  /\ Stored(<<_next_notebook_id>> \o stored.ids, _next_notebook_id, text)

\* create_notebook_tab; write_cells, into the first notebook if there is one;
\* switch_notebook_tab, which moves a tab to the front.
StoredTool ==
  /\ stored # None
  /\ \/ _stored_create_tab(0)
     \/ Notebooks = <<>> /\ _stored_create_tab(stored.text)
     \/ Notebooks # <<>> /\ Stored(index, Head(Notebooks), stored.text)
     \/ \E id \in ToSet(stored.ids) :
          Stored(<<id>> \o AtPlaces(stored.ids, {i \in DOMAIN stored.ids : stored.ids[i] # id}), id, disk[id])

----------------------------------------------------------------------------
(* Leaving *)

\* Mutant of _flush_pending_save: only the tab on screen is saved.
FlushesTheScreen ==
  /\ screen = "on" /\ picker = None
  /\ screen' = "off" /\ timer' = None
  /\ Saved(active_tab_id, _get_tab(active_tab_id).text)
  /\ UNCHANGED <<stored, tabs, active_tab_id, tab_seq, picker, index, early, edits, clash>>

\* _flush_pending_save: every tab is saved, in order.
_flush_pending_save ==
  /\ screen = "on" /\ picker = None
  /\ screen' = "off" /\ timer' = None
  /\ disk' = [id \in Id |-> IF Taken(id)
                THEN tabs[CHOOSE i \in 1 .. Len(tabs) : tabs[i].id = id /\
                            \A j \in i + 1 .. Len(tabs) : tabs[j].id # id].text
                ELSE disk[id]]
  /\ skipped' = {}
  /\ UNCHANGED <<stored, tabs, active_tab_id, tab_seq, picker, index, early, edits, clash>>

\* The app is killed: what is in memory is lost.
KilledOnScreen ==
  /\ screen # "off"
  /\ screen' = "off" /\ tabs' = <<>> /\ active_tab_id' = None
  /\ timer' = None /\ picker' = None /\ early' = None /\ stored' = None
  /\ skipped' = {}
  /\ UNCHANGED <<tab_seq, files, edits, clash>>

----------------------------------------------------------------------------
NotebookInit ==
  /\ screen = "off" /\ tabs = <<>> /\ active_tab_id = None /\ tab_seq = 0
  /\ timer = None /\ picker = None /\ early = None /\ stored = None
  /\ index = None /\ disk = [id \in Id |-> None]
  /\ edits = 0 /\ clash = FALSE /\ skipped = {}

NotebookNext ==
  \/ Mount \/ EarlyInsert \/ _load
  \/ \E kind \in {"nb", "py"} : _create_tab(kind)
  \/ \E id \in Id : _switch_tab(id) \/ _close_tab(id)
  \/ Type \/ _debounced_save \/ _insert_cells \/ write_cells_to_active_tab
  \/ PickFile \/ PickNothing \/ _import_ipynb \/ _import_script
  \/ _stored_tabs \/ StoredTool
  \/ _flush_pending_save \/ KilledOnScreen

NotebookSpec == NotebookInit /\ [][NotebookNext]_notebookVars

----------------------------------------------------------------------------
(* Properties *)

\* What the tabs hold is in their files or will be within the timer's second,
\* except for a tab whose second was cut short by a change of another tab (one
\* timer serves all), and for an import that found its tab changed.
KeystrokesSaved ==
  screen = "on" /\ ~clash =>
    \A i \in 1 .. Len(tabs) : LET t == tabs[i] IN
      File(t.id) = t.text \/ timer = t.id \/ t.id \in skipped

\* Leaving the screen saves what was on it: the files hold the last text of
\* every tab and the index lists them in order, so that coming back finds them.
LeavingSaves ==
  screen = "off" /\ tabs # <<>> /\ ~clash =>
    /\ index = Ids(tabs)
    /\ \A i \in 1 .. Len(tabs) : File(tabs[i].id) = tabs[i].text

\* What was typed survives the debounce, the tabs and the way out of the screen
\* (notebook_view.py _debounced_save, _flush_pending_save).
DraftsAreSaved == KeystrokesSaved /\ LeavingSaves

\* The documents of two tabs are two files: no two tabs have one id.  They do:
\* coming back counts the tabs from one again, and keeps their ids.
IdsAreUnique ==
  \A i, j \in 1 .. Len(tabs) : tabs[i].id = tabs[j].id => i = j

----------------------------------------------------------------------------
(* The refinement: a document is what its tab shows or, with the screen closed,
   what _load would show of its file; kept is what _load would find now. *)

FirstId == [kind |-> "nb", n |-> 1]
Listed == IF index \in {None, <<>>} THEN {FirstId} ELSE ToSet(index)
Filed == [id \in Id |-> IF id \in Listed THEN File(id) ELSE None]
OnTabs == [id \in Id |-> IF Taken(id) THEN _get_tab(id).text ELSE None]

Current == IF screen = "on" THEN OnTabs ELSE Filed

Docs == INSTANCE Documents
          WITH Doc <- Id, FirstDoc <- FirstId, Text <- 0 .. MaxEdits, doc <- Current, kept <- Filed

\* A step, not a stutter, after which no id has been given twice and no tool has
\* written under an open screen; the index a tool writes back is still as it read it.
Apart ==
  /\ notebookVars' # notebookVars
  /\ ~clash'
  /\ StoredTool => stored.ids = IF index = None THEN <<>> ELSE index

\* However tabs, saves, dialogs, visits of the screen and the assistant's tools
\* interleave, as long as they keep apart the documents are what Documents says.
KeepsDocuments == [][Apart => [Docs!Next]_(Docs!docVars)]_notebookVars
=============================================================================
