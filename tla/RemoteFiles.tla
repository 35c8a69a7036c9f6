---------------------------- MODULE RemoteFiles ----------------------------
(***************************************************************************)
(* Browsing the files of a runtime: FilesScreen and the Manage Files       *)
(* dialog (screens/files) over services/colab/files_ops.py.  Listings are  *)
(* fetched and files are changed in tasks that overlap, while the user     *)
(* goes from directory to directory.                                       *)
(***************************************************************************)
EXTENDS Integers, Sequences, SequencesExt, Nothing

CONSTANTS
  Dir,         \* directories; each lists the names in it
  Name,
  MaxFetches,  \* bound: listings on their way
  MaxJobs      \* bound: uploads, deletes, new folders and saves under way

ASSUME RemoteFilesAssumption == MaxFetches \in Nat /\ MaxJobs \in Nat

VARIABLES
  view,       \* "screen" or "modal": who browses
  path,       \* current_path
  shown,      \* the listing on screen: its names, and the directory they are of
  selected,
  dialog,     \* the names the delete dialog asks about, and the path of then
  fetches,    \* listings under way, in the order they were asked for
  jobs,       \* changes under way, each with the directory of its start
  remote,     \* the files of the VM
  behind,     \* history: the listing came after one asked for later, or is of
              \* another path, or the editor has brought back a file since
  error_msg   \* the last listing failed

fileVars == <<view, path, shown, selected, dialog, fetches, jobs, remote, behind, error_msg>>

browsing == <<view, path, shown, selected, dialog, behind, error_msg>>

\* names: what the VM answered, or None; overtaken: a later one has landed.
Fetch(d) == [dir |-> d, names |-> None, overtaken |-> FALSE]

\* The list of one fetch asked for: the dialog goes to its directory at once.
Asks(d) ==
  /\ Len(fetches) < MaxFetches
  /\ fetches' = Append(fetches, Fetch(d))
  /\ path' = IF view = "modal" THEN d ELSE path

----------------------------------------------------------------------------
(* Listings *)

\* A tap on a folder, a breadcrumb, Go up.  The screen clears the selection.
_on_navigate(d) ==
  /\ dialog = None /\ d # path
  /\ Len(fetches) < MaxFetches
  /\ fetches' = Append(fetches, Fetch(d))
  /\ path' = d
  /\ selected' = IF view = "screen" THEN {} ELSE selected
  /\ error_msg' = IF view = "screen" THEN FALSE ELSE error_msg
  /\ UNCHANGED <<view, shown, dialog, jobs, remote, behind>>

Refresh ==
  /\ dialog = None
  /\ Asks(path)
  /\ UNCHANGED <<view, shown, selected, dialog, jobs, remote, behind, error_msg>>

\* ls_impl reaches the VM.
ls(i) ==
  /\ fetches[i].names = None
  /\ fetches' = [fetches EXCEPT ![i].names = remote[fetches[i].dir]]
  /\ UNCHANGED <<browsing, jobs, remote>>

\* The fetches, the first of them marked; and the rest after one has landed.
Overtaken(last) == [j \in 1 .. Len(fetches) |->
  IF j <= last THEN [fetches[j] EXCEPT !.overtaken = TRUE] ELSE fetches[j]]
Without(i) == RemoveAt(Overtaken(i), i)

\* _fetch, _fetch_listing: whatever arrives is shown.
_fetch(i) ==
  /\ fetches[i].names # None
  /\ shown' = [dir |-> fetches[i].dir, names |-> fetches[i].names]
  /\ behind' = (fetches[i].overtaken \/ fetches[i].dir # path)
  /\ selected' = IF view = "modal" THEN {} ELSE selected
  /\ error_msg' = FALSE
  /\ fetches' = Without(i)
  /\ UNCHANGED <<view, path, dialog, jobs, remote>>

\* The screen shows the error; the dialog keeps the listing it had.
FetchFails(i) ==
  /\ error_msg' = TRUE
  /\ shown' = IF view = "screen" THEN [shown EXCEPT !.names = {}] ELSE shown
  /\ fetches' = Without(i)
  /\ UNCHANGED <<view, path, selected, dialog, jobs, remote, behind>>

----------------------------------------------------------------------------
(* Selecting and changing *)

_toggle_select(n) ==
  /\ dialog = None /\ n \in shown.names
  /\ selected' = IF n \in selected THEN selected \ {n} ELSE selected \union {n}
  /\ UNCHANGED <<view, path, shown, dialog, fetches, jobs, remote, behind, error_msg>>

_open_delete_dialog ==
  /\ dialog = None /\ selected # {}
  /\ dialog' = [dir |-> path, names |-> selected]
  /\ UNCHANGED <<view, path, shown, selected, fetches, jobs, remote, behind, error_msg>>

\* The screen deletes in the directory of the dialog; the Manage Files dialog
\* in the one it is at by then.
_confirm_delete ==
  /\ dialog # None
  /\ dialog' = None
  /\ \/ UNCHANGED jobs
     \/ /\ Len(jobs) < MaxJobs
        /\ LET d == IF view = "screen" THEN dialog.dir ELSE path IN
           jobs' = Append(jobs, [kind |-> "delete", dir |-> d, names |-> dialog.names])
  /\ UNCHANGED <<view, path, shown, selected, fetches, remote, behind, error_msg>>

\* handle_upload_async, do_new_folder_async, and saving in the text editor.
Starts(kind, n) ==
  /\ dialog = None /\ Len(jobs) < MaxJobs
  /\ kind = "save" => n \in shown.names
  /\ jobs' = Append(jobs, [kind |-> kind, dir |-> path, names |-> {n}])
  /\ UNCHANGED <<browsing, fetches, remote>>

\* Each file in turn, on the VM; one that fails is skipped, though it may
\* have been changed.  A lost token is healed and the file tried again.
DoesOne(k) ==
  \E n \in jobs[k].names :
    /\ jobs' = [jobs EXCEPT ![k].names = @ \ {n}]
    /\ LET now == remote[jobs[k].dir] IN
       \E after \in {now, IF jobs[k].kind = "delete" THEN now \ {n} ELSE now \union {n}} :
         /\ remote' = [remote EXCEPT ![jobs[k].dir] = after]
         /\ IF jobs[k].kind = "save" /\ after # now
            THEN behind' = TRUE /\ fetches' = Overtaken(Len(fetches))
            ELSE UNCHANGED <<behind, fetches>>
    /\ UNCHANGED <<view, path, shown, selected, dialog, error_msg>>

\* Mutant of JobEnds: the listing is not fetched again.
EndsWithoutList(k) ==
  /\ jobs[k].names = {}
  /\ jobs' = RemoveAt(jobs, k)
  /\ selected' = IF jobs[k].kind = "delete" THEN {} ELSE selected
  /\ UNCHANGED <<view, path, shown, dialog, fetches, remote, behind, error_msg>>

\* The job ends: the listing of the directory it was started in is fetched
\* (the editor leaves the listing alone).
JobEnds(k) ==
  /\ jobs[k].names = {}
  /\ jobs' = RemoveAt(jobs, k)
  /\ selected' = IF jobs[k].kind = "delete" THEN {} ELSE selected
  /\ IF jobs[k].kind = "save" THEN UNCHANGED <<fetches, path>> ELSE Asks(jobs[k].dir)
  /\ UNCHANGED <<view, shown, dialog, remote, behind, error_msg>>

----------------------------------------------------------------------------
FilesInit ==
  /\ view \in {"screen", "modal"}
  /\ path \in Dir
  /\ shown = [dir |-> path, names |-> {}] /\ selected = {} /\ dialog = None
  /\ fetches = <<Fetch(path)>> /\ jobs = <<>>
  /\ remote = [d \in Dir |-> Name]
  /\ behind = FALSE /\ error_msg = FALSE

FilesNext ==
  \/ \E d \in Dir : _on_navigate(d)
  \/ Refresh \/ _open_delete_dialog \/ _confirm_delete
  \/ \E n \in Name : _toggle_select(n) \/ \E kind \in {"upload", "save"} : Starts(kind, n)
  \/ \E i \in DOMAIN fetches : ls(i) \/ _fetch(i) \/ FetchFails(i)
  \/ \E k \in DOMAIN jobs : DoesOne(k) \/ JobEnds(k)

FilesSpec == FilesInit /\ [][FilesNext]_fileVars

----------------------------------------------------------------------------
(* Properties *)

\* When nothing is under way the list shows the files of the directory whose
\* path stands above it, as they are on the VM, unless the last listing failed or
\* was not the last one asked for, or the editor has brought
\* back a file that was deleted.
QuietListIsTrue ==
  fetches = <<>> /\ jobs = <<>> /\ ~behind /\ ~error_msg =>
    shown = [dir |-> path, names |-> remote[path]]
=============================================================================
