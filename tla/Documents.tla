----------------------------- MODULE Documents -----------------------------
(***************************************************************************)
(* What the notebook screen promises of the documents of a session, with   *)
(* no tabs, no timer, no index and no dialogs: the user writes documents,  *)
(* they are kept sooner or later, and only the death of the app takes a    *)
(* change back.  Leaving the screen and coming back are not steps at all.  *)
(***************************************************************************)
EXTENDS Naturals, Nothing

CONSTANTS Doc,       \* names of documents
          FirstDoc,  \* the one there is when there would be none
          Text       \* what a document may hold, 0 when it is empty

VARIABLES doc,       \* each document as the user left it, or None
          kept       \* each document as a restart of the app finds it, or None

docVars == <<doc, kept>>

Exists(d) == doc[d] # None

Only(d) == [e \in Doc |-> IF e = d THEN 0 ELSE None]

Init == doc = Only(FirstDoc) /\ kept = doc

\* A change, which may be kept at once.
Write(d, text) ==
  /\ Exists(d)
  /\ doc' = [doc EXCEPT ![d] = text]
  /\ kept' \in {kept, [kept EXCEPT ![d] = text]}

\* A new document is kept at once.
Open(d, text) ==
  /\ ~Exists(d)
  /\ doc' = [doc EXCEPT ![d] = text]
  /\ kept' = [kept EXCEPT ![d] = text]

\* One goes for good; after the last one there is an empty one again.
Close(d) ==
  /\ Exists(d)
  /\ IF \E e \in Doc : e # d /\ Exists(e)
     THEN doc' = [doc EXCEPT ![d] = None] /\ kept' = [kept EXCEPT ![d] = None]
     ELSE doc' = Only(FirstDoc) /\ kept' = Only(FirstDoc)

\* Some of the documents are kept as they are.
Save ==
  /\ doc' = doc
  /\ \E some \in SUBSET Doc : kept' = [d \in Doc |-> IF d \in some THEN doc[d] ELSE kept[d]]

\* A file is imported that the user does not get to see.
ImportUnseen(d, text) ==
  /\ Exists(d)
  /\ doc' = doc /\ kept' = [kept EXCEPT ![d] = text]

\* The app is killed.
Kill == doc' = kept /\ kept' = kept

Next ==
  \/ Save \/ Kill
  \/ \E d \in Doc : Close(d)
  \/ \E d \in Doc, text \in Text : Write(d, text) \/ Open(d, text) \/ ImportUnseen(d, text)

Spec == Init /\ [][Next]_docVars
=============================================================================
