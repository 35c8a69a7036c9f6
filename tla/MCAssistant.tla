---------------------------- MODULE MCAssistant ----------------------------
(***************************************************************************)
(* Three parts of the assistant that share no state, each explored by      *)
(* itself: a behaviour is one of the part in focus, the others rest.       *)
(***************************************************************************)
EXTENDS Transcript, Catalog, Conversations, TLC

VARIABLE focus

assistantVars == <<focus, transcriptVars, catalogVars, storeVars>>

AssistantInit ==
  /\ focus \in {"transcript", "catalog", "store"}
  /\ TranscriptInit /\ CatalogInit /\ StoreInit

AssistantNext ==
  \/ focus = "transcript" /\ TranscriptNext /\ UNCHANGED <<focus, catalogVars, storeVars>>
  \/ focus = "catalog" /\ CatalogNext /\ UNCHANGED <<focus, transcriptVars, storeVars>>
  \/ focus = "store" /\ StoreNext /\ UNCHANGED <<focus, transcriptVars, catalogVars>>

AssistantSpec == AssistantInit /\ [][AssistantNext]_assistantVars

row(i, t, l, u) == [id |-> i, tier |-> t, latency |-> l, usable |-> u]

\* A router with good models and a bad one, and one with a single good model.
AllTables ==
  { {row(1, "high", 2, TRUE), row(2, "high", 1, TRUE), row(3, "low", 1, TRUE)},
    {row(1, "medium", 1, TRUE), row(2, "high", 1, FALSE), row(3, "minimal", 1, TRUE),
     row(4, "low", 1, TRUE)} }

ChatSymmetry == Permutations(Chat)
=============================================================================
