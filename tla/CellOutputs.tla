---------------------------- MODULE CellOutputs ----------------------------
(***************************************************************************)
(* What one cell prints and what its view shows of it: the list of outputs *)
(* with its two caps (screens/session/notebook_view.py) and the cache of   *)
(* parsed entries that a render brings up to date                          *)
(* (components/notebook_cell).  Renders are batched: any number of changes *)
(* may lie between two of them.  An entry is known by the revision that    *)
(* appended it, so a list is in the order of its revisions.                *)
(***************************************************************************)
EXTENDS Naturals, Sequences, SequencesExt, FiniteSetsExt, Places

CONSTANTS MaxEntries,     \* _MAX_OUTPUT_ENTRIES
          MaxImageBytes,  \* _MAX_IMAGE_BYTES
          MaxControls,    \* the 1000 entries a view shows
          MaxRev          \* bound: changes of the outputs

ASSUME OutputsAssumption ==
  /\ {MaxEntries, MaxControls} \subseteq Nat \ {0}
  /\ {MaxImageBytes, MaxRev} \subseteq Nat

VARIABLES outs,      \* cell.outputs
          outs_rev,  \* cell.outputs_rev
          cache,     \* parse_cache: rev (0 = never), count, controls
          spins,     \* cell.is_running
          removed,   \* history: an entry has gone since the last render
          skewed     \* history: the last render found more entries than the
                     \* one before, though some of those had gone

outputVars == <<outs, outs_rev, cache, spins, removed, skewed>>

\* _image_bytes: whatever has a data payload, a figure or a plain result.
Bytes == [stream |-> 0, result |-> 1, figure |-> 2]
OutputKind == DOMAIN Bytes
TotalBytes(s) == FoldSeq(LAMBDA e, n : n + Bytes[e.kind], 0, s)

NoCache == [rev |-> 0, count |-> 0, controls |-> << >>]

\* A cell from the file may have outputs.
OutputsInit == /\ outs \in {<< >>} \cup {<<[kind |-> k, at |-> 0]>> : k \in OutputKind}
               /\ outs_rev = 1 /\ cache = NoCache
               /\ spins = FALSE /\ removed = FALSE /\ skewed = FALSE
-----------------------------------------------------------------------------
\* The oldest entries with a payload go until the rest is in budget.
enforce_image_budget(s) ==
  LET Kept(t) == AtPlaces(s, {i \in DOMAIN s : Bytes[s[i].kind] = 0 \/ s[i].at >= t})
  IN  Kept(Min({t \in 0 .. MaxRev + 1 : TotalBytes(Kept(t)) <= MaxImageBytes}))

Changes(s, lost) == /\ outs_rev < MaxRev /\ outs_rev' = outs_rev + 1
                    /\ outs' = s
                    /\ removed' = (removed \/ lost)
                    /\ UNCHANGED <<cache, skewed>>

_append_output(kind) ==
  LET room == IF Len(outs) >= MaxEntries THEN Tail(outs) ELSE outs
      s == enforce_image_budget(Append(room, [kind |-> kind, at |-> outs_rev]))
  IN  Changes(s, Len(s) <= Len(outs))

Clears == Changes(<< >>, outs # << >>)

_clear_cell_output == Clears /\ UNCHANGED spins

RunClears == ~spins /\ spins' = TRUE /\ Clears

\* The code goes on printing, whatever the spinner says.
Prints == \E k \in OutputKind : _append_output(k) /\ UNCHANGED spins

RunEnds == /\ spins /\ spins' = FALSE
           /\ UNCHANGED <<outs, outs_rev, cache, removed, skewed>>

\* "Execution cancelled by user".
StopTells == spins /\ spins' = FALSE /\ _append_output("stream")
-----------------------------------------------------------------------------
parse_outputs_to_controls(s) == SubSeq(s, 1, IF Len(s) < MaxControls THEN Len(s) ELSE MaxControls)

NewEntries == SubSeq(outs, cache.count + 1, Len(outs))

Room(s) == SubSeq(s, 1, IF Len(s) + Len(cache.controls) < MaxControls
                        THEN Len(s) ELSE MaxControls - Len(cache.controls))

\* Mutant of _get_output_controls: a list of the same length counts as the same list.
RendersOnlyShorter ==
  /\ cache.rev # outs_rev
  /\ cache' = [rev |-> outs_rev, count |-> Len(outs),
               controls |-> IF Len(outs) < cache.count /\ cache.rev # 0
                            THEN parse_outputs_to_controls(outs)
                            ELSE cache.controls \o Room(NewEntries)]
  /\ skewed' = (Len(outs) > cache.count /\ (skewed \/ removed))
  /\ removed' = FALSE
  /\ UNCHANGED <<outs, outs_rev, spins>>

\* A list that did not grow is parsed anew, of a longer one the rest.
_get_output_controls ==
  /\ cache.rev # outs_rev
  /\ cache' = [rev |-> outs_rev, count |-> Len(outs),
               controls |-> IF Len(outs) <= cache.count /\ cache.rev # 0
                            THEN parse_outputs_to_controls(outs)
                            ELSE cache.controls \o Room(NewEntries)]
  /\ skewed' = (Len(outs) > cache.count /\ (skewed \/ removed))
  /\ removed' = FALSE
  /\ UNCHANGED <<outs, outs_rev, spins>>

\* The tab is left and shown again: a new component with an empty cache.
Remount == /\ cache # NoCache /\ cache' = NoCache
           /\ removed' = FALSE /\ skewed' = FALSE
           /\ UNCHANGED <<outs, outs_rev, spins>>

OutputsNext == \/ Prints \/ RunClears \/ RunEnds \/ StopTells
               \/ _clear_cell_output \/ _get_output_controls \/ Remount

OutputsSpec == OutputsInit /\ [][OutputsNext]_outputVars
-----------------------------------------------------------------------------
\* A view that is up to date shows the first entries of the cell, though most
\* of them were parsed renders ago and entries have been cleared, rotated out
\* and evicted since; unless, between two renders, some went and more came
\* (_get_output_controls cannot tell that from growth).
ViewIsCurrent ==
  cache.rev = outs_rev /\ ~skewed => cache.controls = parse_outputs_to_controls(outs)
=============================================================================
