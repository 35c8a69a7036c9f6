------------------------------ MODULE Catalog ------------------------------
(***************************************************************************)
(* Which models a turn may try (services/model_catalog.py): the rows the   *)
(* router publishes, the user's pick, the circuit that spares a model      *)
(* which has failed, and the order in which a turn walks them.  Refreshes  *)
(* are asked for by the pill, the picker, the boot and the turns, and      *)
(* overlap.                                                                *)
(***************************************************************************)
EXTENDS Integers, Sequences, SequencesExt, FiniteSets, Places, Nothing

CONSTANTS
  Tables,      \* the catalogs a router may publish: sets of rows, one per id
  Turn,        \* turns that may walk at one time
  MaxReads     \* bound: refreshes on their way

\* A row as _normalise keeps it: its id (a number, for the order of names), its
\* tier, its latency, and whether it is an active chat model.
Tier == {"high", "medium", "low", "minimal"}
ASSUME CatalogAssumption ==
  /\ MaxReads \in Nat
  /\ \A t \in Tables : IsFiniteSet(t) /\ \A r \in t :
       /\ r \in [id : Nat \ {0}, tier : Tier, latency : Nat, usable : BOOLEAN]
       /\ \A q \in t : q.id = r.id => q = r

\* "auto", or no pick: the name of no row that is offered.
AutoPick == 0

Model == UNION {{r.id : r \in t} : t \in Tables}

ASSUME NoModelAssumption == None \notin Model

VARIABLES
  _catalog,
  fresh,                \* catalog_age is below the interval
  failed,               \* _model_failed_until: models whose circuit is open
  ai_model,             \* the pick in force, or None
  saved_model,          \* STORAGE_AI_MODEL
  reads,                \* refreshes under way: the rows the router has answered,
                        \* and the turn that waits for it
  turn                  \* each turn: the pick it was sent with, and the models it
                        \* has left to try; None before its walk

catalogVars == <<_catalog, fresh, failed, ai_model, saved_model, reads, turn>>

chosen == <<ai_model, saved_model>>
held == <<_catalog, fresh>>

----------------------------------------------------------------------------
(* The ranking *)

PICKABLE_TIERS == {"high", "medium"}
TierRank(r) == CASE r.tier = "high" -> 0 [] r.tier = "medium" -> 1 [] r.tier = "low" -> 2 [] OTHER -> 3

Before(q, r) ==
  \/ TierRank(q) < TierRank(r)
  \/ TierRank(q) = TierRank(r) /\ q.latency < r.latency
  \/ TierRank(q) = TierRank(r) /\ q.latency = r.latency /\ q.id < r.id

\* The row with k - 1 before it.
Nth(rows, k) == CHOOSE r \in rows : Cardinality({q \in rows : Before(q, r)}) = k - 1
Ranked(rows) == [k \in 1 .. Cardinality(rows) |-> Nth(rows, k).id]

Usable(rows) == {r \in rows : r.usable}
Pickable(rows) == {r \in Usable(rows) : r.tier \in PICKABLE_TIERS}
Healthy(rows) == {r \in rows : r.id \notin failed}

pickable_models ==
  LET top == Pickable(_catalog) IN {r.id : r \in IF top # {} THEN top ELSE Usable(_catalog)}

\* Mutant of candidate_models: the last resort is kept even from a walk that
\* could end with it.
CandidatesWithoutTail(rows) ==
  LET top == Healthy(Pickable(rows)) IN
  IF top # {} THEN Ranked(top) ELSE Ranked(Healthy(Usable(rows) \ Pickable(rows)))

\* The healthy high and medium rows and, behind them, every low and minimal one,
\* healthy or not; without any of the first, the healthy ones of the second.
candidate_models(rows) ==
  LET top == Healthy(Pickable(rows))
      tail == Usable(rows) \ Pickable(rows)
  IN IF top # {} THEN Ranked(top) \o Ranked(tail) ELSE Ranked(Healthy(tail))

\* An explicit pick goes first, verbatim.
turn_candidates(pick, rows) ==
  LET pool == candidate_models(rows) IN
  IF pick \in {None, AutoPick} THEN pool ELSE <<pick>> \o AtPlaces(pool, {i \in DOMAIN pool : pool[i] # pick})

serving_model(pick, rows) ==
  LET pool == candidate_models(rows) IN
  CASE pick # None /\ Contains(pool, pick) -> pick
    [] pool # <<>> -> Head(pool)
    [] OTHER -> None

\* pill_state of a router that is ready: it discovers while there is nothing to
\* pick from, else it names the model that will serve.
pill_label ==
  IF pickable_models = {} THEN None ELSE serving_model(ai_model, _catalog)

----------------------------------------------------------------------------
(* Refreshing *)

refresh_catalog(who) ==
  /\ Len(reads) < MaxReads
  /\ reads' = Append(reads, [rows |-> {}, who |-> who])

\* The pill's and the menu's Refresh, Start router; the picker, the boot.
Refreshes ==
  /\ refresh_catalog(None)
  /\ UNCHANGED <<held, failed, chosen, turn>>

\* The router answers /models; the answer is on its way.
Answered(i) ==
  /\ reads[i].rows = {}
  /\ reads' \in {[reads EXCEPT ![i].rows = rows] : rows \in Tables}
  /\ UNCHANGED <<held, failed, chosen, turn>>

\* adopt_default_model: in force, but not saved.
adopt_default_model(rows) ==
  ai_model' = LET m == serving_model(ai_model, rows) IN IF m = None THEN ai_model ELSE m

apply_catalog(i) ==
  /\ reads[i].rows # {}
  /\ _catalog' = reads[i].rows /\ fresh' = TRUE
  /\ adopt_default_model(reads[i].rows)
  /\ reads' = RemoveAt(reads, i)
  /\ UNCHANGED <<failed, saved_model, turn>>

\* Refused or empty twice, or no row of the answer is any good: the old rows stay,
\* and in the last case the pick is resolved against them again.
RefreshFails(i) ==
  /\ reads[i].rows = {}
  /\ reads' = RemoveAt(reads, i)
  /\ UNCHANGED ai_model \/ adopt_default_model(_catalog)
  /\ UNCHANGED <<held, failed, saved_model, turn>>

\* _pick_model of the header and _pick of the dialog: from a list drawn earlier.
_pick_model(m) ==
  /\ ai_model' = m /\ saved_model' = m
  /\ \/ refresh_catalog(None)
     \/ UNCHANGED reads
  /\ UNCHANGED <<held, failed, turn>>

----------------------------------------------------------------------------
(* Turns *)

NoTurn == [pick |-> None, left |-> None]

\* The pick it is sent with is read first; an empty or a stale pool is then
\* refreshed.
TurnStarts(t) ==
  /\ turn[t] = NoTurn /\ \A i \in DOMAIN reads : reads[i].who # t
  /\ turn' = [turn EXCEPT ![t].pick = IF ai_model = None THEN AutoPick ELSE ai_model]
  /\ IF candidate_models(_catalog) = <<>> \/ ~fresh
     THEN refresh_catalog(t)
     ELSE UNCHANGED reads
  /\ UNCHANGED <<held, failed, chosen>>

\* run_turn takes its candidates, the refresh done or failed.
TurnWalks(t) ==
  /\ turn[t].pick # None /\ turn[t].left = None
  /\ \A i \in DOMAIN reads : reads[i].who # t
  /\ turn' = [turn EXCEPT ![t].left = turn_candidates(turn[t].pick, _catalog)]
  /\ UNCHANGED <<held, failed, chosen, reads>>

\* The candidate does not answer: mark_model_failed.
CandidateFails(t) ==
  /\ turn[t].left \notin {None, <<>>}
  /\ failed' = failed \union {Head(turn[t].left)}
  /\ turn' = [turn EXCEPT ![t].left = Tail(@)]
  /\ UNCHANGED <<held, chosen, reads>>

\* It answers, it is stopped, or there was nobody left to ask.
TurnEnds(t) ==
  /\ turn[t].left # None
  /\ turn' = [turn EXCEPT ![t] = NoTurn]
  /\ UNCHANGED <<held, failed, chosen, reads>>

----------------------------------------------------------------------------
(* Around it *)

\* MODEL_CIRCUIT_TTL and CATALOG_REFRESH_INTERVAL go by.
model_circuit_closes(m) ==
  /\ failed' = failed \ {m}
  /\ UNCHANGED <<held, chosen, reads, turn>>

catalog_stale ==
  /\ _catalog # {}
  /\ fresh' = FALSE
  /\ UNCHANGED <<_catalog, failed, chosen, reads, turn>>

\* A restart: the pick comes from storage, everything else is forgotten.
Relaunch ==
  /\ _catalog' = {} /\ fresh' = TRUE /\ failed' = {}
  /\ ai_model' = saved_model
  /\ reads' = <<>> /\ turn' = [t \in Turn |-> NoTurn]
  /\ UNCHANGED <<saved_model>>

CatalogInit ==
  /\ _catalog = {} /\ fresh = TRUE /\ failed = {}
  /\ ai_model = None /\ saved_model = None
  /\ reads = <<>> /\ turn = [t \in Turn |-> NoTurn]

CatalogNext ==
  \/ Refreshes \/ catalog_stale \/ Relaunch
  \/ \E i \in DOMAIN reads : Answered(i) \/ apply_catalog(i) \/ RefreshFails(i)
  \/ \E m \in Model : _pick_model(m) \/ model_circuit_closes(m)
  \/ \E t \in Turn : TurnStarts(t) \/ TurnWalks(t) \/ CandidateFails(t) \/ TurnEnds(t)

CatalogSpec == CatalogInit /\ [][CatalogNext]_catalogVars

----------------------------------------------------------------------------
(* Properties *)

\* The walk of a turn that begins now: nobody is asked twice, the pick leads,
\* every active chat model that has not just failed is asked, better tiers before
\* worse and faster models before slower; one that has just failed is asked only
\* as the pick, or as the last resort behind a good one that has not.  And the
\* name on the pill is that of the walk's first model, unless the pick is one
\* that the pool leaves out.
WalkIsRight ==
  LET w == turn_candidates(ai_model, _catalog)
      row(m) == CHOOSE r \in _catalog : r.id = m
      pool == AtPlaces(w, {i \in DOMAIN w : w[i] # ai_model})
      asked == ToSet(w)
      good == {r.id : r \in Healthy(Pickable(_catalog))}
  IN /\ Cardinality(asked) = Len(w)
     /\ ai_model # None => Head(w) = ai_model
     /\ \A r \in Usable(_catalog) : r.id \notin failed => r.id \in asked
     /\ \A i, j \in 1 .. Len(pool) : i < j => Before(row(pool[i]), row(pool[j]))
     /\ \A m \in ToSet(pool) \intersect failed :
          row(m).tier \notin PICKABLE_TIERS /\ good # {}
     /\ pill_label \in Model => pill_label = Head(w) \/ (ai_model \in asked \ {pill_label})
=============================================================================
