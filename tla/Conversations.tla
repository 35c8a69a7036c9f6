--------------------------- MODULE Conversations ---------------------------
(***************************************************************************)
(* The store of saved chats (services/conversation_service.py) with the    *)
(* callers that fill and empty it: the assistant session, whose transcript *)
(* is written on every exit path, and the history dialog, whose rows are a *)
(* copy taken when it was opened.  What a chat says is one bit: it has     *)
(* text or not.  A file is read or written completely or not at all.       *)
(***************************************************************************)
EXTENDS Integers, Sequences, FiniteSets, SequencesExt, Places

CONSTANTS Chat,    \* conversation ids
          Limit,   \* MAX_CONVERSATIONS
          MaxTurns, \* bound: turns running side by side
          NoChat   \* the empty id, and no session

ASSUME StoreAssumption == Limit \in Nat \ {0} /\ NoChat \notin Chat

VARIABLES
  stored,    \* the files, newest first
  graves,    \* _tombstones
  active,    \* state.active_assistant_conversation
  chat,      \* the retained session's conversation_id
  spoken,    \* its transcript has text
  asking,    \* _busy
  tasks,     \* turns still running for it
  dialog,    \* the history dialog is open
  listed,    \* its rows
  binned,    \* history: chats the user deleted
  misread    \* history: the session opened on a file it could not read

sessionVars == <<active, chat, spoken, asking, tasks, misread>>
dialogVars == <<dialog, listed, binned>>
storeVars == <<stored, graves, sessionVars, dialogVars>>

Saved == ToSet(stored)
Without(s, gone) == AtPlaces(s, {i \in DOMAIN s : s[i] \notin gone})

\* uuid4: an id nothing refers to.
Fresh == Chat \ (Saved \cup graves \cup binned \cup listed \cup {active, chat})

StoreInit ==
  /\ stored = << >> /\ graves = {} /\ active = NoChat
  /\ chat = NoChat /\ spoken = FALSE /\ asking = FALSE /\ tasks = 0 /\ misread = FALSE
  /\ dialog = FALSE /\ listed = {} /\ binned = {}
-----------------------------------------------------------------------------
\* The tombstone comes first; the file may resist.
delete_conversation(c) ==
  /\ graves' = graves \cup {c}
  /\ stored' \in {Without(stored, {c}), stored}

\* What prune_conversations deletes after c was written.
Doomed(files, c) == {files[i] : i \in Limit + 1 .. Len(files)} \ {c, active}

\* Mutant: no tombstones, as before they were introduced.
save_without_tombstones(c, text) ==
  IF ~text THEN delete_conversation(c)
  ELSE LET files == <<c>> \o Without(stored, {c})
       IN  /\ stored' = Without(files, Doomed(files, c))
           /\ graves' = graves \cup Doomed(files, c)

save_conversation(c, text) ==
  \/ c \in graves /\ UNCHANGED <<stored, graves>>
  \/ c \notin graves /\ ~text /\ delete_conversation(c)
  \/ c \notin graves /\ text /\ UNCHANGED <<stored, graves>>      \* _write gave up
  \/ /\ c \notin graves /\ text
     /\ LET files == <<c>> \o Without(stored, {c})
        IN  /\ \E lost \in SUBSET Doomed(files, c) :
                 stored' = Without(files, lost)
            /\ graves' = graves \cup Doomed(files, c)

\* A tombstone is 60 s old.
_prune_tombstones == \E c \in graves : /\ graves' = graves \ {c}
                                       /\ UNCHANGED <<stored, sessionVars, dialogVars>>
-----------------------------------------------------------------------------
_persist_history == save_conversation(chat, spoken)

\* ChatSession.__init__ on the id ensure_active gives; a file that cannot be
\* read counts as an empty chat.
NewSession(id) ==
  /\ chat' = id /\ active' = id
  /\ misread' \in {FALSE, (id \in Saved)}
  /\ spoken' = (id \in Saved /\ ~misread')
  /\ asking' = FALSE /\ tasks' = 0
  /\ UNCHANGED <<stored, graves>>

\* A retained session is only shown again.
open_assistant == /\ chat = NoChat
                  /\ \E id \in IF active = NoChat THEN Fresh ELSE {active} : NewSession(id)
                  /\ UNCHANGED dialogVars

send == /\ chat # NoChat /\ ~asking
        /\ asking' = TRUE /\ spoken' = TRUE /\ tasks' = tasks + 1
        /\ UNCHANGED <<stored, graves, active, chat, misread, dialogVars>>

\* Whichever turn ends saves what the session shows by then.
_on_turn_done == /\ tasks > 0
                 /\ tasks' = tasks - 1 /\ asking' = FALSE
                 /\ _persist_history
                 /\ UNCHANGED <<active, chat, spoken, misread, dialogVars>>

adopt_transcript == /\ chat # NoChat /\ ~asking
                    /\ spoken' = TRUE
                    /\ save_conversation(chat, TRUE)
                    /\ UNCHANGED <<active, chat, asking, tasks, misread, dialogVars>>

close == /\ chat # NoChat
         /\ _persist_history
         /\ UNCHANGED <<sessionVars, dialogVars>>

shutdown == /\ chat # NoChat
            /\ _persist_history
            /\ chat' = NoChat /\ spoken' = FALSE /\ asking' = FALSE /\ tasks' = 0 /\ misread' = FALSE
            /\ UNCHANGED <<active, dialogVars>>

new_conversation(id) == /\ chat # NoChat /\ tasks < MaxTurns
                        /\ _persist_history
                        /\ chat' = id /\ active' = id
                        /\ spoken' = FALSE /\ asking' = FALSE /\ misread' = FALSE
                        /\ UNCHANGED <<tasks, dialogVars>>
-----------------------------------------------------------------------------
_show_history == /\ chat # NoChat /\ ~dialog
                 /\ dialog' = TRUE /\ listed' = Saved
                 /\ UNCHANGED <<stored, graves, sessionVars, binned>>

Closes == dialog' = FALSE /\ listed' = {} /\ UNCHANGED binned

_close == dialog /\ Closes /\ UNCHANGED <<stored, graves, sessionVars>>

\* A row's trash icon, the open chat's included.
_delete(c) == /\ dialog /\ c \in listed
              /\ delete_conversation(c)
              /\ listed' = listed \ {c} /\ binned' = binned \cup {c}
              /\ UNCHANGED <<dialog, sessionVars>>

\* The session reads the new chat, then saves the old one, then switches.
load_conversation(c) ==
  /\ _persist_history
  /\ chat' = c /\ active' = c /\ spoken' = TRUE /\ misread' = FALSE
  /\ UNCHANGED <<asking, tasks>>

\* A row that cannot be read any more only says so.
_open(c) == /\ dialog /\ c \in listed \cap Saved
            /\ Closes
            /\ IF chat = NoChat THEN NewSession(c) ELSE load_conversation(c)

\* New chat in the dialog: a retained session keeps its own chat.
_open_fresh(id) == /\ dialog /\ Closes
                   /\ IF chat = NoChat
                      THEN NewSession(id)
                      ELSE active' = id /\ UNCHANGED <<stored, graves, chat, spoken, asking, tasks, misread>>

\* The process ends and is started again.
Restart == /\ graves' = {} /\ active' = NoChat
           /\ chat' = NoChat /\ spoken' = FALSE /\ asking' = FALSE /\ tasks' = 0 /\ misread' = FALSE
           /\ dialog' = FALSE /\ listed' = {}
           /\ UNCHANGED <<stored, binned>>

StoreNext ==
  \/ _prune_tombstones \/ open_assistant \/ send \/ _on_turn_done \/ adopt_transcript
  \/ close \/ shutdown \/ _show_history \/ _close \/ Restart
  \/ \E c \in Chat : _delete(c) \/ _open(c)
  \/ \E id \in Fresh : new_conversation(id) \/ _open_fresh(id)

StoreSpec == StoreInit /\ [][StoreNext]_storeVars
-----------------------------------------------------------------------------
Newer(files, c) == {files[i] : i \in 1 .. SelectInSeq(files, LAMBDA d : d = c) - 1}

LeaveAsMeant ==
  \A c \in Saved \ ToSet(stored') :
    \/ c \in binned'
    \/ c = chat /\ misread
    \/ /\ c # active
       /\ Cardinality((Newer(stored, c) \cup {chat}) \cap ToSet(stored')) >= Limit

ReturnAsMeant == \A c \in binned \cap (ToSet(stored') \ Saved) : c = chat /\ c \notin graves

\* A chat leaves the disk only because the user deleted it, because the
\* session on it had opened without being able to read it, or because at least
\* Limit others are newer and it is not the active one; and one the user
\* deleted comes back only as the chat that is still open, after its
\* tombstone (prune_conversations, save_conversation, delete_conversation).
ChatsComeAndGoAsMeant == [][LeaveAsMeant /\ ReturnAsMeant]_storeVars
=============================================================================
