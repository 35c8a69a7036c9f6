----------------------------- MODULE Downloads -----------------------------
(***************************************************************************)
(* Saving a remote folder on the device: handle_download_async of          *)
(* screens/files/actions.py, and download_folder of services/colab/        *)
(* files_ops.py, which has the machine zip the folder into a file beside   *)
(* it, fetches that file and removes it.  The file's name is the folder's, *)
(* so downloads of one folder that overlap share it.                       *)
(***************************************************************************)
EXTENDS Naturals, FiniteSets, Nothing

CONSTANTS
  Download,   \* folder downloads started from the file screens
  Entry,      \* the entries of the folder
  MaxChanges  \* bound: entries that come or go

VARIABLES
  folder,     \* the entries of the remote folder
  zip,        \* what <folder>_temp.zip holds, or None
  late,       \* downloads that gave up on a zip command that still runs
  download,   \* where each download is
  number,     \* the "(n)" of its file on the device
  saved,      \* files on the device: number and content, and what they ought to hold
  changes,
  throughout, \* history: the entries that were there ever since the download asked for the zip
  leftover    \* history: since the last removal one failed, or a zip came late

steps == <<download, number>>
downloadVars == <<folder, zip, late, steps, saved, changes, throughout, leftover>>

DownloadsInit ==
  /\ folder \in SUBSET Entry
  /\ zip = None /\ late = {}
  /\ download = [d \in Download |-> "idle"] /\ number = [d \in Download |-> 0]
  /\ saved = {} /\ changes = 0
  /\ throughout = [d \in Download |-> {}] /\ leftover = FALSE

GoesTo(d, at) == download' = [download EXCEPT ![d] = at]

\* zip -r adds to a file that is there; make_archive, its fallback, writes it anew.
Archives ==
  \E kept \in {{}, IF zip = None THEN {} ELSE zip} : zip' = kept \cup folder

----------------------------------------------------------------------------
\* The user, a cell or the terminal.
FolderChanges ==
  /\ changes < MaxChanges /\ changes' = changes + 1
  /\ \E e \in Entry : folder' = IF e \in folder THEN folder \ {e} ELSE folder \cup {e}
  /\ throughout' = [d \in Download |-> throughout[d] \cap folder']
  /\ UNCHANGED <<zip, late, steps, saved, leftover>>

\* The name on the device is the first that is free, as of now.
handle_download_async(d) ==
  /\ download[d] = "idle" /\ GoesTo(d, "zips")
  /\ LET taken == {f.number : f \in saved}
     IN  number' = [number EXCEPT ![d] =
                      CHOOSE n \in 0..Cardinality(saved) : n \notin taken /\ 0..(n - 1) \subseteq taken]
  /\ throughout' = [throughout EXCEPT ![d] = folder]
  /\ UNCHANGED <<folder, zip, late, saved, changes, leftover>>

ErrorsNotRead(d) ==
  /\ download[d] = "zips" /\ GoesTo(d, "fetches")
  /\ Archives \/ UNCHANGED zip
  /\ UNCHANGED <<folder, late, number, saved, changes, throughout, leftover>>

\* An error among the outputs of the zip command ends the download.
Zips(d) ==
  /\ download[d] = "zips"
  /\ \/ Archives /\ GoesTo(d, "fetches")
     \/ UNCHANGED zip /\ GoesTo(d, "cleans")
  /\ UNCHANGED <<folder, late, number, saved, changes, throughout, leftover>>

\* After 120 seconds, or when the connection is lost; the machine goes on.
GivesUp(d) ==
  /\ download[d] = "zips" /\ GoesTo(d, "cleans")
  /\ late' = late \cup {d}
  /\ UNCHANGED <<folder, zip, number, saved, changes, throughout, leftover>>

ZipsLate(d) ==
  /\ d \in late /\ late' = late \ {d}
  /\ Archives /\ leftover' = TRUE
  /\ UNCHANGED <<folder, steps, saved, changes, throughout>>

\* A file of that name is replaced: it was saved while this download was under way.
_download(d) ==
  /\ download[d] \in {"fetches", "fetches again"} /\ zip # None
  /\ saved' = {f \in saved : f.number # number[d]}
                \cup {[number |-> number[d], content |-> zip, ought |-> throughout[d]]}
  /\ GoesTo(d, "cleans")
  /\ UNCHANGED <<folder, zip, late, number, changes, throughout, leftover>>

\* A 404, for a stale token or a file that is gone, is tried again once, with a fresh token.
_run_with_token_heal(d) ==
  /\ download[d] = "fetches" /\ GoesTo(d, "fetches again")
  /\ UNCHANGED <<folder, zip, late, number, saved, changes, throughout, leftover>>

FetchFails(d) ==
  /\ download[d] \in {"fetches", "fetches again"} /\ GoesTo(d, "cleans")
  /\ UNCHANGED <<folder, zip, late, number, saved, changes, throughout, leftover>>

OnlySavedCleans(d) ==
  /\ download[d] = "cleans" /\ GoesTo(d, "ended")
  /\ IF \E f \in saved : f.number = number[d]
     THEN zip' = None /\ leftover' = FALSE
     ELSE UNCHANGED <<zip, leftover>>
  /\ UNCHANGED <<folder, late, number, saved, changes, throughout>>

\* Whatever became of the download; a removal that fails is logged.
rm(d) ==
  /\ download[d] = "cleans" /\ GoesTo(d, "ended")
  /\ \/ zip' = None /\ leftover' = FALSE
     \/ leftover' = (leftover \/ zip # None) /\ UNCHANGED zip
  /\ UNCHANGED <<folder, late, number, saved, changes, throughout>>

DownloadsNext ==
  \/ FolderChanges
  \/ \E d \in Download :
       \/ handle_download_async(d) \/ Zips(d) \/ GivesUp(d) \/ ZipsLate(d)
       \/ _download(d) \/ _run_with_token_heal(d) \/ FetchFails(d) \/ rm(d)

DownloadsSpec == DownloadsInit /\ [][DownloadsNext]_downloadVars

----------------------------------------------------------------------------
\* A saved archive holds every entry that was in the folder from the request to
\* the end of the fetch, although downloads of one folder add to, fetch and remove
\* the same file; and once no download is under way that file is gone, unless its
\* removal failed or a zip came after its download had given up (files_ops.py
\* download_folder_impl).  It may hold entries that were deleted before, from a
\* file that was left.
ArchivesAreWhole ==
  /\ \A f \in saved : f.ought \subseteq f.content
  /\ (\A d \in Download : download[d] \in {"idle", "ended"}) /\ ~leftover => zip = None
=============================================================================
