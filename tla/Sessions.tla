------------------------------ MODULE Sessions ------------------------------
(***************************************************************************)
(* The local records of Colab sessions (services/colab/session_ops.py),    *)
(* the executions that use them (execution.py) and the keep-alive loop     *)
(* (keepalive.py).  Operations run in threads: each call of the store and  *)
(* each request to Colab is atomic, everything between them interleaves.   *)
(***************************************************************************)
EXTENDS Integers, FiniteSets, Nothing

CONSTANTS
  Machine,    \* runtimes Colab may assign
  Foreign,    \* those assigned outside the app
  User,       \* operations the screens may have in flight
  KeepAlive,  \* the keep-alive loop
  Open,       \* the session on screen, which that loop keeps alive
  MaxRenewals,\* bound: how often Colab re-mints a token
  MaxOps      \* bound: operations the user starts

ASSUME SessionsAssumption ==
  /\ Foreign \subseteq Machine /\ IsFiniteSet(Machine)
  /\ KeepAlive \notin User /\ Open \in Machine \ Foreign
  /\ MaxRenewals \in Nat /\ MaxOps \in Nat
  /\ None \notin Machine \union Nat /\ Machine \intersect Nat = {}

Proc == User \union {KeepAlive}

\* A session made by the app bears a name of its own, here that of its
\* machine; one that a listing comes across is called recovered-<number>.
Name == Machine \union 1 .. Cardinality(Machine)

VARIABLES
  assigned,   \* Colab's assignments
  born,       \* machines that were ever assigned
  tok,        \* the number of the token Colab holds valid for a machine
  store,      \* the local record of each name
  op,         \* what each process is at
  ops, renewals,
  raced       \* history: executions whose record somebody else wrote meanwhile

vars == <<assigned, born, tok, store, op, ops, renewals, raced>>

server == <<assigned, born, tok, renewals>>

Record == [ep : Machine, tok : 0 .. MaxRenewals, running : BOOLEAN]

ASSUME RecordAssumption == None \notin Record

NoNames == [m \in Machine |-> None]
NoRecords == [n \in Name |-> None]

\* kind and place of an operation, the name it is about, its copy of the
\* record, which load of the record it is at, the listing's local_sessions and
\* name_by_ep (as far as still needed), the names it will remove, the answer it
\* has still to store, its counter, whether a retry was used
\* up, whether it failed, and (history) whether it lost a request.
NoOp == [kind |-> "none", pc |-> "none", name |-> None, s |-> None,
         stage |-> "first", local |-> NoRecords, byep |-> NoNames,
         gone |-> {}, left |-> {}, count |-> 0, healed |-> FALSE, failed |-> FALSE,
         lost |-> FALSE]

Exists(n) == store[n] # None

\* Mutant of Write: a record is never removed.
WriteOnly(p, n, rec) ==
  /\ store' = IF rec = None THEN store ELSE [store EXCEPT ![n] = rec]
  /\ raced' = raced \union {q \in Proc \ {p} : op[q].kind = "exec" /\ op[q].name = n}

\* store.add and store.remove; executions on that name notice it in "raced".
Write(p, n, rec) ==
  /\ store' = [store EXCEPT ![n] = rec]
  /\ raced' = raced \union {q \in Proc \ {p} : op[q].kind = "exec" /\ op[q].name = n}

Same == UNCHANGED <<store, raced>>

At(p, kind, pc) == op[p].kind = kind /\ op[p].pc = pc
GoTo(p, o) == op' = [op EXCEPT ![p] = o]

\* The keep-alive loop lists after a failed execution.
Ends(p, o) ==
  GoTo(p, IF p = KeepAlive /\ o.kind = "exec" /\ o.failed
          THEN [NoOp EXCEPT !.kind = "list", !.pc = "snap"] ELSE NoOp)

----------------------------------------------------------------------------
(* Colab *)

Appears(m) ==
  /\ m \in Foreign \ born
  /\ assigned' = assigned \union {m} /\ born' = born \union {m}
  /\ UNCHANGED <<tok, renewals, store, op, ops, raced>>

Pruned(m) ==
  /\ m \in assigned
  /\ assigned' = assigned \ {m}
  /\ UNCHANGED <<born, tok, renewals, store, op, ops, raced>>

Renew(m) ==
  /\ m \in assigned
  /\ renewals < MaxRenewals
  /\ renewals' = renewals + 1
  /\ tok' = [tok EXCEPT ![m] = @ + 1]
  /\ UNCHANGED <<assigned, born, store, op, ops, raced>>

----------------------------------------------------------------------------
(* new_session *)

UserStarts(p) == p \in User /\ op[p] = NoOp /\ ops < MaxOps /\ ops' = ops + 1

NewSession(p, m) ==
  /\ UserStarts(p)
  /\ m \in Machine \ (Foreign \union born)
  /\ assigned' = assigned \union {m} /\ born' = born \union {m}
  /\ GoTo(p, [NoOp EXCEPT !.kind = "new", !.pc = "put", !.name = m])
  /\ UNCHANGED <<tok, renewals>> /\ Same

\* Mutant of NewStored: the session is stored before its token is known.
StoredWithoutToken(p) ==
  LET m == op[p].name IN
  /\ At(p, "new", "put")
  /\ Write(p, m, [ep |-> m, tok |-> None, running |-> FALSE])
  /\ GoTo(p, NoOp)
  /\ UNCHANGED <<server, ops>>

NewStored(p) ==
  LET m == op[p].name IN
  /\ At(p, "new", "put")
  /\ Write(p, m, [ep |-> m, tok |-> tok[m], running |-> FALSE])
  /\ GoTo(p, NoOp)
  /\ UNCHANGED <<server, ops>>

----------------------------------------------------------------------------
(* list_sessions *)

List(p) ==
  /\ UserStarts(p)
  /\ GoTo(p, [NoOp EXCEPT !.kind = "list", !.pc = "snap"])
  /\ UNCHANGED server /\ Same

Snapshot(p) ==
  /\ At(p, "list", "snap")
  /\ GoTo(p, [op[p] EXCEPT !.pc = "ask", !.local = store])
  /\ UNCHANGED <<server, ops>> /\ Same

\* name_by_ep keeps one of the names that a machine has.
Known(local) == {f \in [Machine -> Name \union {None}] : \A m \in Machine :
                   IF \E n \in Name : local[n] # None /\ local[n].ep = m
                   THEN f[m] # None /\ local[f[m]] # None /\ local[f[m]].ep = m
                   ELSE f[m] = None}

\* The part of f that is about S.
Part(f, S) == [x \in DOMAIN f |-> IF x \in S THEN f[x] ELSE None]

\* Mutant of Assignments: every name the answer did not use is pruned.
PrunesUnusedNames(p) ==
  LET o == op[p] IN
  /\ At(p, "list", "ask")
  /\ \E f \in Known(o.local) :
       GoTo(p, [o EXCEPT !.pc = "put", !.byep = Part(f, assigned), !.left = assigned,
                         !.local = Part(@, {f[m] : m \in assigned}),
                         !.gone = {n \in Name : o.local[n] # None} \ {f[m] : m \in assigned}])
  /\ UNCHANGED <<server, ops>> /\ Same

Assignments(p) ==
  LET o == op[p] IN
  /\ At(p, "list", "ask")
  /\ \E f \in Known(o.local) :
       GoTo(p, [o EXCEPT !.pc = "put", !.byep = Part(f, assigned), !.left = assigned,
                         !.local = Part(@, {f[m] : m \in assigned}),
                         !.gone = {n \in Name : o.local[n] # None /\ o.local[n].ep \notin assigned}])
  /\ UNCHANGED <<server, ops>> /\ Same

\* SessionListError: Colab could not be asked.  (Losses are the user's here;
\* one that hits the keep-alive loop costs it a round.)
ListFails(p) ==
  /\ At(p, "list", "ask")
  /\ GoTo(p, NoOp)
  /\ UNCHANGED <<server, ops>> /\ Same

\* One assignment of the answer: a known one gets its new token on top of the
\* snapshot's record, an unknown one is recovered under the next number.  (The
\* token is that of this moment; the answer came a moment earlier.)
ListPut(p, m) ==
  LET o == op[p]
      n == IF o.byep[m] = None THEN o.count + 1 ELSE o.byep[m]
      rec == IF o.byep[m] = None THEN [ep |-> m, tok |-> tok[m], running |-> FALSE]
             ELSE [o.local[n] EXCEPT !.tok = tok[m]]
      rest == o.left \ {m}
  IN /\ At(p, "list", "put")
     /\ m \in o.left
     /\ Write(p, n, rec)
     /\ GoTo(p, [o EXCEPT !.left = rest, !.byep = Part(@, rest), !.gone = @ \ {n},
                          !.local = Part([@ EXCEPT ![n] = rec], {o.byep[x] : x \in rest}),
                          !.count = IF o.byep[m] = None THEN @ + 1 ELSE @])
     /\ UNCHANGED <<server, ops>>

ListDrop(p, n) ==
  /\ At(p, "list", "put")
  /\ op[p].left = {}
  /\ n \in op[p].gone
  /\ Write(p, n, None)
  /\ GoTo(p, [op[p] EXCEPT !.gone = @ \ {n}])
  /\ UNCHANGED <<server, ops>>

Listed(p) ==
  /\ At(p, "list", "put")
  /\ op[p].left = {} /\ op[p].gone = {}
  /\ Ends(p, op[p])
  /\ UNCHANGED <<server, ops>> /\ Same

----------------------------------------------------------------------------
(* load_session_fresh, and _refresh_runtime_token_sync as its stages "heal"  *)
(* (before the code runs) and "reheal" (when it was refused)                *)

Kinds == {"exec", "stop", "restart", "refresh"}
Heals == {"heal", "reheal"}

Begin(p, kind, n) ==
  /\ IF p = KeepAlive THEN op[p] = NoOp /\ UNCHANGED ops
     ELSE UserStarts(p) /\ Exists(n)
  /\ GoTo(p, [NoOp EXCEPT !.kind = kind, !.pc = "get", !.name = n,
                !.stage = IF kind = "refresh" THEN "heal" ELSE "first"])
  /\ raced' = raced \ {p}
  /\ UNCHANGED <<server, store>>

\* Where an operation goes on with the record s that it loaded.
Loaded(o, s) ==
  CASE o.stage = "last" -> [o EXCEPT !.pc = "unmark"]
    [] o.stage = "reheal" -> [o EXCEPT !.pc = "run", !.s = s]
    [] o.kind = "refresh" -> NoOp
    [] o.kind = "stop" -> [o EXCEPT !.pc = "unassign", !.s = s]
    [] OTHER -> [o EXCEPT !.pc = "mark", !.s = s]

\* Where it goes on when there is none, or Colab cannot be asked.
NotLoaded(o) ==
  CASE o.stage = "reheal" -> [o EXCEPT !.pc = "get", !.stage = "last", !.failed = TRUE]
    [] OTHER -> [o EXCEPT !.pc = "end", !.failed = @ \/ o.stage # "last"]

\* The record is read; one close to its expiry is checked with Colab, and a
\* heal always asks.
Get(p) ==
  LET o == op[p]
      s == store[o.name]
  IN /\ o.kind \in Kinds /\ o.pc = "get"
     /\ \/ s = None /\ GoTo(p, NotLoaded(o))
        \/ s # None /\ o.stage \notin Heals /\ GoTo(p, Loaded(o, s))
        \/ s # None /\ GoTo(p, [o EXCEPT !.pc = "look", !.local[o.name] = s])
     /\ UNCHANGED <<server, ops>> /\ Same

\* Colab answers: the machine is gone, or here is its token.  A heal that
\* finds this very token in the record reports that nothing changed.
Look(p) ==
  LET o == op[p]
      s == o.local[o.name]
      fresh == [s EXCEPT !.tok = tok[s.ep]]
  IN /\ o.pc = "look"
     /\ GoTo(p, CASE s.ep \notin assigned -> [o EXCEPT !.pc = "drop"]
                  [] s.ep \in assigned /\ o.stage \in Heals /\ fresh = s ->
                       [NotLoaded(o) EXCEPT !.local = NoRecords]
                  [] OTHER -> [o EXCEPT !.pc = "put", !.local[o.name] = fresh])
     /\ UNCHANGED <<server, ops>> /\ Same

LookFails(p) ==
  /\ op[p].pc = "look"
  /\ GoTo(p, [NotLoaded(op[p]) EXCEPT !.local = NoRecords, !.lost = TRUE])
  /\ UNCHANGED <<server, ops>> /\ Same

FreshPut(p) ==
  LET o == op[p] IN
  /\ o.kind \in Kinds /\ o.pc = "put"
  /\ Write(p, o.name, o.local[o.name])
  /\ GoTo(p, [Loaded(o, o.local[o.name]) EXCEPT !.local = NoRecords])
  /\ UNCHANGED <<server, ops>>

\* SessionEndedError
FreshDrop(p) ==
  LET o == op[p] IN
  /\ o.pc = "drop"
  /\ Write(p, o.name, None)
  /\ GoTo(p, [NotLoaded(o) EXCEPT !.local = NoRecords])
  /\ UNCHANGED <<server, ops>>

----------------------------------------------------------------------------
(* exec_code and restart_kernel with their copy of the record *)

\* The runtime takes the token (the preflight, or the kernel's restart): the
\* copy goes to the store, marked as running by an execution.  Otherwise
\* 401/404: the token is healed once for the
\* preflight and once for the code, then the operation fails.
Accepted(p) == op[p].s.ep \in assigned /\ op[p].s.tok = tok[op[p].s.ep]

Mark(p) ==
  LET o == op[p]
      s == [o.s EXCEPT !.running = @ \/ o.kind = "exec"]
  IN /\ o.pc = "mark"
     /\ Accepted(p)
     /\ Write(p, o.name, s)
     /\ GoTo(p, IF o.kind = "exec" THEN [o EXCEPT !.pc = "run", !.s = s, !.healed = FALSE]
                ELSE [o EXCEPT !.pc = "end"])
     /\ UNCHANGED <<server, ops>>

\* Mutant of Refused: code that is refused is not tried again.
RefusedOnce(p) ==
  LET o == op[p] IN
  /\ o.pc \in {"mark", "run"}
  /\ ~Accepted(p)
  /\ GoTo(p, IF o.pc = "run" THEN [o EXCEPT !.pc = "get", !.stage = "last", !.failed = TRUE]
             ELSE IF ~o.healed THEN [o EXCEPT !.pc = "get", !.healed = TRUE, !.stage = "heal"]
             ELSE [o EXCEPT !.pc = "end", !.failed = TRUE])
  /\ UNCHANGED <<server, ops>> /\ Same

Refused(p) ==
  LET o == op[p] IN
  /\ o.pc \in {"mark", "run"}
  /\ ~Accepted(p)
  /\ GoTo(p, CASE ~o.healed -> [o EXCEPT !.pc = "get", !.healed = TRUE,
                                   !.stage = IF o.pc = "mark" THEN "heal" ELSE "reheal"]
               [] o.healed /\ o.pc = "run" ->
                    [o EXCEPT !.pc = "get", !.stage = "last", !.failed = TRUE]
               [] OTHER -> [o EXCEPT !.pc = "end", !.failed = TRUE])
  /\ UNCHANGED <<server, ops>> /\ Same

\* The code ran, or raised, or was cancelled; the finally block begins.
RunEnds(p) ==
  /\ op[p].pc = "run"
  /\ Accepted(p)
  /\ GoTo(p, [op[p] EXCEPT !.pc = "get", !.stage = "last", !.s.running = FALSE])
  /\ UNCHANGED <<server, ops>> /\ Same

\* The record still exists: it is overwritten with the copy.
Unmark(p) ==
  /\ op[p].pc = "unmark"
  /\ Write(p, op[p].name, [op[p].s EXCEPT !.running = FALSE])
  /\ GoTo(p, [op[p] EXCEPT !.pc = "end"])
  /\ UNCHANGED <<server, ops>>

OpEnds(p) ==
  /\ op[p].pc = "end"
  /\ Ends(p, op[p])
  /\ raced' = raced \ {p}
  /\ UNCHANGED <<server, ops, store>>

----------------------------------------------------------------------------
(* stop_session *)

Unassign(p) ==
  /\ At(p, "stop", "unassign")
  /\ assigned' = assigned \ {op[p].s.ep}
  /\ GoTo(p, [op[p] EXCEPT !.pc = "remove"])
  /\ UNCHANGED <<born, tok, renewals, ops>> /\ Same

Remove(p) ==
  /\ At(p, "stop", "remove")
  /\ Write(p, op[p].name, None)
  /\ GoTo(p, NoOp)
  /\ UNCHANGED <<server, ops>>

----------------------------------------------------------------------------
\* The store is a file: the app may start with the session of an earlier run.
Init ==
  /\ born \in {{}, {Open}} /\ assigned = born
  /\ tok = [m \in Machine |-> 0]
  /\ store = [n \in Name |-> IF n \in born
                             THEN [ep |-> Open, tok |-> 0, running |-> FALSE] ELSE None]
  /\ op = [p \in Proc |-> NoOp]
  /\ ops = 0 /\ renewals = 0 /\ raced = {}

Step(p) ==
  \/ NewStored(p)
  \/ Snapshot(p) \/ Assignments(p) \/ Listed(p)
  \/ (\E m \in Machine : ListPut(p, m)) \/ (\E n \in Name : ListDrop(p, n))
  \/ Get(p) \/ Look(p) \/ FreshPut(p) \/ FreshDrop(p)
  \/ Mark(p) \/ Refused(p) \/ RunEnds(p) \/ Unmark(p) \/ OpEnds(p)
  \/ Unassign(p) \/ Remove(p)

Wakes == Begin(KeepAlive, "exec", Open)

Next ==
  \/ \E m \in Machine : Appears(m) \/ Pruned(m) \/ Renew(m)
  \/ \E p \in User : \/ List(p)
                     \/ \E m \in Machine : NewSession(p, m)
                     \/ \E k \in Kinds, n \in Name : Begin(p, k, n)
                     \/ ListFails(p) \/ LookFails(p)
  \/ Wakes
  \/ \E p \in Proc : Step(p)

Spec == Init /\ [][Next]_vars

\* Requests and executions have time limits; the keep-alive loop wakes up
\* every four minutes, with the session that is open.
Fairness ==
  /\ \A p \in Proc : WF_vars(Step(p))
  /\ WF_vars(Wakes)

FairSpec == Spec /\ Fairness

----------------------------------------------------------------------------
(* Properties *)

\* Types.
Operation ==
  [kind : Kinds \union {"none", "new", "list"},
   pc : {"none", "put", "snap", "ask", "get", "look", "drop", "mark", "run", "unmark", "end",
         "unassign", "remove"},
   name : Name \union {None}, s : Record \union {None}, stage : {"first", "last"} \union Heals,
   local : [Name -> Record \union {None}], byep : [Machine -> Name \union {None}],
   gone : SUBSET Name, left : SUBSET Machine, count : Nat,
   healed : BOOLEAN, failed : BOOLEAN, lost : BOOLEAN]

SessionsTypeOK ==
  /\ assigned \subseteq born /\ born \subseteq Machine
  /\ renewals \in 0 .. MaxRenewals /\ ops \in 0 .. MaxOps
  /\ tok \in [Machine -> 0 .. MaxRenewals]
  /\ store \in [Name -> Record \union {None}]
  /\ op \in [Proc -> Operation]
  /\ raced \subseteq Proc

\* A session the app created stays in the store, under its own name and for
\* its own machine, as long as Colab assigns that machine: no listing, however
\* it overlaps with others, with executions and with Stop, prunes it.
CreatedStaysListed ==
  \A m \in assigned \ Foreign :
    \/ \E p \in User : At(p, "new", "put") /\ op[p].name = m
    \/ Exists(m) /\ store[m].ep = m

\* "401 and 404 can both mean a stale/expired runtime-proxy token OR a dead
\* runtime [...]; heal the token and retry first."  A stale token alone never
\* fails an execution.  It does, when a listing refreshed the record meanwhile:
\* the heal compares the record with Colab, not the copy that was refused.
OnlyStale(p) ==
  /\ op[p].kind = "exec" /\ op[p].failed /\ ~op[p].lost
  /\ op[p].s # None /\ op[p].s.ep \in assigned
  /\ renewals <= 1

StaleTokenIsHealed == \A p \in Proc : ~OnlyStale(p)

\* It never does when nobody else wrote that record during the execution.
StaleTokenIsHealedAlone == \A p \in Proc : OnlyStale(p) => p \in raced

\* The record of the open session goes when its machine is gone, though the
\* user does nothing: the keep-alive loop finds out.
DeadSessionIsForgotten ==
  (Open \in born \ assigned) ~> ~Exists(Open)
=============================================================================
