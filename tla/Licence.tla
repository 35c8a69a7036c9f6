------------------------------- MODULE Licence -------------------------------
(***************************************************************************)
(* services/license_service.py and services/premium_service.py: the stored *)
(* recovery id and token, the verdict the app runs on, and the three tasks *)
(* that ask the licence server about an order: the hourly reconcile, the   *)
(* restore dialog and one watcher per checkout.  An answer is applied as   *)
(* it was when the server gave it, whatever happened since.                *)
(***************************************************************************)
EXTENDS Naturals

CONSTANTS MaxOrders,   \* bound: orders, numbered as the server issues their ids
          Hourly,      \* the reconcile loop's task
          Dialog,      \* the restore dialog's task
          MaxEvents    \* bound: odd answers, expiries, restores, exits of the app

ASSUME LicenceAssumption == /\ MaxOrders \in Nat /\ MaxEvents \in Nat
                            /\ Hourly # Dialog /\ {Hourly, Dialog} \cap 1..MaxOrders = {}

Order == 1..MaxOrders
NoOrder == 0

\* A checkout's watcher goes by the id of its order.
Asker == {Hourly, Dialog} \cup Order

VARIABLES
  worker,       \* the server's record of each order
  verifies,     \* orders whose issued token still verifies offline
  recovery_id,  \* SETTING_RECOVERY_ID
  token,        \* SETTING_TOKEN, as the order it was issued for
  claims,       \* KiriLicenseService.claims, likewise
  unlocked,     \* _unlocked, and with it state.is_premium
  saved,         \* what storage.json holds of recovery_id and token
  email,        \* the e-mail dialog of a checkout is open
  pc,           \* asker -> "first" or "second" request of a query in flight
  about,        \* asker -> the order it asks about
  reply,        \* asker -> the answer on its way back
  watcher,      \* order -> where its checkout watcher is
  watch_task,   \* _checkout_watch_task, as the order it watches
  cancelled,    \* watchers whose task.cancel() has not landed yet
  events        \* how much of the bound is used

serverVars == <<worker, verifies>>
licenceVars == <<recovery_id, token, claims, unlocked>>
askVars == <<pc, about, reply>>
watchVars == <<watcher, watch_task, cancelled>>
vars == <<serverVars, licenceVars, saved, email, askVars, watchVars, events>>

Refusals == {"missing", "refused"}   \* HTTP 404, and 402 or 403

Init == /\ worker = [i \in Order |-> "none"]
        /\ verifies = {}
        /\ recovery_id = NoOrder
        /\ token = NoOrder
        /\ claims = NoOrder
        /\ unlocked = FALSE
        /\ saved = [recovery_id |-> NoOrder, token |-> NoOrder]
        /\ email = FALSE
        /\ pc = [a \in Asker |-> "idle"]
        /\ about = [a \in Asker |-> NoOrder]
        /\ reply = [a \in Asker |-> "none"]
        /\ watcher = [i \in Order |-> "off"]
        /\ watch_task = NoOrder
        /\ cancelled = {}
        /\ events = 0

Event == events < MaxEvents /\ events' = events + 1

----------------------------------------------------------------------------
(* The licence server: an order is placed, paid, refused, and may lapse.   *)

ServerMoves(i) == /\ \/ worker[i] = "unpaid" /\ worker' = [worker EXCEPT ![i] = "active"]
                     \/ worker[i] = "unpaid" /\ worker' = [worker EXCEPT ![i] = "refused"]
                     \/ worker[i] = "active" /\ worker' = [worker EXCEPT ![i] = "lapsed"]
                  /\ UNCHANGED <<verifies, licenceVars, saved, email, askVars, watchVars,
                                 events>>

TokenExpires(i) == /\ i \in verifies
                   /\ Event
                   /\ verifies' = verifies \ {i}
                   /\ UNCHANGED <<worker, licenceVars, saved, email, askVars, watchVars>>

Answer(i) == CASE worker[i] = "active" -> "unlocks"
               [] worker[i] = "lapsed" -> "lapsed"
               [] worker[i] = "refused" -> "refused"
               [] OTHER -> "missing"

Waiting(a) == pc[a] # "idle" /\ reply[a] = "none"

Serve(a) == /\ Waiting(a)
            /\ reply' = [reply EXCEPT ![a] = Answer(about[a])]
            /\ verifies' = IF worker[about[a]] = "active" THEN verifies \cup {about[a]}
                                                          ELSE verifies
            /\ UNCHANGED <<worker, licenceVars, saved, email, pc, about, watchVars, events>>

\* No answer, or one that is no refusal: throttled, a server error, a token that
\* does not verify, an active status without a token.
ServeOddly(a) == /\ Waiting(a)
                 /\ Event
                 /\ \E r \in {"lost", "badtoken"} \cup
                            (IF worker[about[a]] = "active" THEN {"bare"} ELSE {}) :
                      reply' = [reply EXCEPT ![a] = r]
                 /\ UNCHANGED <<serverVars, licenceVars, saved, email, pc, about, watchVars>>

----------------------------------------------------------------------------
(* What an answer does.                                                    *)

\* Mutant of _revoke: the verdict falls, the cached token stays.
RevokeInMemory == /\ unlocked' = FALSE
                  /\ claims' = NoOrder
                  /\ UNCHANGED token

_revoke == /\ unlocked' = FALSE
           /\ claims' = NoOrder
           /\ token' = NoOrder

\* _query on the answer r to its first or second request about order i.
Digest(i, r, try) ==
  \/ r = "unlocks" /\ recovery_id' = i /\ token' = i /\ claims' = i /\ unlocked' = TRUE
  \/ r = "bare" /\ recovery_id' = i /\ unlocked' = (claims # NoOrder) /\ UNCHANGED <<token, claims>>
  \/ r = "lapsed" /\ recovery_id' = i /\ _revoke
  \/ r = "badtoken" /\ _revoke /\ UNCHANGED recovery_id
  \/ r \in Refusals /\ try = "first" /\ _revoke /\ UNCHANGED recovery_id
  \/ r \in Refusals /\ try = "second" /\ UNCHANGED licenceVars
  \/ r = "lost" /\ UNCHANGED licenceVars

Quiet(a) == /\ pc' = [pc EXCEPT ![a] = "idle"]
            /\ about' = [about EXCEPT ![a] = NoOrder]
            /\ reply' = [reply EXCEPT ![a] = "none"]

\* One immediate retry of a request that was lost.
Retry(a) == /\ pc[a] = "first" /\ reply[a] = "lost"
            /\ pc' = [pc EXCEPT ![a] = "second"]
            /\ reply' = [reply EXCEPT ![a] = "none"]
            /\ UNCHANGED <<serverVars, licenceVars, saved, email, about, watchVars, events>>

Digests(a) == /\ reply[a] # "none" /\ ~(pc[a] = "first" /\ reply[a] = "lost")
              /\ Digest(about[a], reply[a], pc[a])
              /\ Quiet(a)

Asks(a, i) == /\ pc' = [pc EXCEPT ![a] = "first"]
              /\ about' = [about EXCEPT ![a] = i]
              /\ UNCHANGED reply

----------------------------------------------------------------------------
(* premium_service: the hourly loop.                                       *)

\* Mutant of reconcile: nothing to re-check without an unlock.
ReconcileUnlockedOnly == /\ pc[Hourly] = "idle" /\ recovery_id # NoOrder /\ unlocked
                         /\ Asks(Hourly, recovery_id)
                         /\ UNCHANGED <<serverVars, licenceVars, saved, email, watchVars,
                                        events>>

reconcile == /\ pc[Hourly] = "idle" /\ recovery_id # NoOrder
             /\ Asks(Hourly, recovery_id)
             /\ UNCHANGED <<serverVars, licenceVars, saved, email, watchVars, events>>

Reconciled == /\ Digests(Hourly)
              /\ UNCHANGED <<serverVars, saved, email, watchVars, events>>

----------------------------------------------------------------------------
(* The checkout watcher, a task that stop_checkout_watch can only ask to   *)
(* end, and whose last act clears _checkout_watch_task.                    *)

stop_checkout_watch == cancelled' = IF watch_task # NoOrder /\ watcher[watch_task] # "off"
                                    THEN cancelled \cup {watch_task} ELSE cancelled

WatcherEnds(i) == /\ watcher' = [watcher EXCEPT ![i] = "off"]
                  /\ watch_task' = NoOrder
                  /\ cancelled' = cancelled \ {i}

\* The head of the loop: unlocked already, or the 15 minutes are over.
LoopHead(i, premium) == \/ WatcherEnds(i)
                        \/ /\ ~premium
                           /\ watcher' = [watcher EXCEPT ![i] = "sleep"]
                           /\ UNCHANGED <<watch_task, cancelled>>

WatcherStarts(i) == /\ watcher[i] = "start"
                    /\ LoopHead(i, unlocked)
                    /\ UNCHANGED <<serverVars, licenceVars, saved, email, askVars, events>>

WatcherPolls(i) == /\ watcher[i] = "sleep"
                   /\ watcher' = [watcher EXCEPT ![i] = "poll"]
                   /\ Asks(i, i)
                   /\ UNCHANGED <<serverVars, licenceVars, saved, email, watch_task, cancelled,
                                  events>>

\* A 404 keeps it polling: a late webhook looks like one.
WatcherPolled(i) == /\ watcher[i] = "poll"
                    /\ Digests(i)
                    /\ IF reply[i] = "refused" \/ (reply[i] \in {"unlocks", "bare"} /\ unlocked')
                       THEN WatcherEnds(i)
                       ELSE LoopHead(i, unlocked')
                    /\ UNCHANGED <<serverVars, saved, email, events>>

\* A task cancelled before its first step never enters its try block.
CancelLands(i) == /\ i \in cancelled
                  /\ IF watcher[i] = "start"
                     THEN /\ watcher' = [watcher EXCEPT ![i] = "off"]
                          /\ cancelled' = cancelled \ {i}
                          /\ UNCHANGED watch_task
                     ELSE WatcherEnds(i)
                  /\ Quiet(i)
                  /\ UNCHANGED <<serverVars, licenceVars, saved, email, events>>

----------------------------------------------------------------------------
(* The user, in Settings.                                                  *)

\* Products are offered only to a user without premium; the dialog asks no more.
OfferTapped == /\ ~unlocked /\ ~email
               /\ email' = TRUE
               /\ UNCHANGED <<serverVars, licenceVars, saved, askVars, watchVars, events>>

EmailCancelled == /\ email /\ email' = FALSE
                  /\ UNCHANGED <<serverVars, licenceVars, saved, askVars, watchVars, events>>

\* The order is placed: its id replaces the stored one, and a watcher its watcher.
kiri_checkout(i) == /\ email /\ worker[i] = "none"
                    /\ \A j \in 1..(i - 1) : worker[j] # "none"
                    /\ email' = FALSE
                    /\ worker' = [worker EXCEPT ![i] = "unpaid"]
                    /\ recovery_id' = i
                    /\ stop_checkout_watch
                    /\ watch_task' = i
                    /\ watcher' = [watcher EXCEPT ![i] = "start"]
                    /\ UNCHANGED <<verifies, token, claims, unlocked, saved, askVars, events>>

\* Any id can be typed, a wrong one too.
RestoreTapped(i) == /\ pc[Dialog] = "idle"
                    /\ Event
                    /\ Asks(Dialog, i)
                    /\ UNCHANGED <<serverVars, licenceVars, saved, email, watchVars>>

kiri_restore == /\ Digests(Dialog)
                /\ IF reply[Dialog] \in {"unlocks", "bare"} /\ unlocked'
                   THEN stop_checkout_watch /\ watch_task' = NoOrder
                   ELSE UNCHANGED <<watch_task, cancelled>>
                /\ UNCHANGED <<serverVars, saved, email, watcher, events>>

----------------------------------------------------------------------------
(* Storage and restarts.                                                   *)

\* Left out once the bound leaves no restart to read it.
TokenIsWritten ==
  /\ events < MaxEvents
  /\ saved' = [recovery_id |-> recovery_id, token |-> token]
  /\ UNCHANGED <<serverVars, licenceVars, email, askVars, watchVars, events>>

\* load_local: the cached token unlocks offline, or is cleared.
load_local ==
  /\ Event
  /\ recovery_id' = saved.recovery_id
  /\ token' = IF saved.token \in verifies THEN saved.token ELSE NoOrder
  /\ claims' = token'
  /\ unlocked' = (token' # NoOrder)
  /\ email' = FALSE
  /\ pc' = [a \in Asker |-> "idle"]
  /\ about' = [a \in Asker |-> NoOrder]
  /\ reply' = [a \in Asker |-> "none"]
  /\ watcher' = [i \in Order |-> "off"]
  /\ watch_task' = NoOrder
  /\ cancelled' = {}
  /\ UNCHANGED <<serverVars, saved>>

----------------------------------------------------------------------------

Next == \/ \E i \in Order : \/ ServerMoves(i) \/ TokenExpires(i)
                            \/ WatcherStarts(i) \/ WatcherPolls(i) \/ WatcherPolled(i)
                            \/ CancelLands(i) \/ kiri_checkout(i) \/ RestoreTapped(i)
        \/ \E a \in Asker : Serve(a) \/ ServeOddly(a) \/ Retry(a)
        \/ reconcile \/ Reconciled \/ OfferTapped \/ EmailCancelled \/ kiri_restore
        \/ TokenIsWritten \/ load_local

Spec == Init /\ [][Next]_vars

\* The hourly loop runs, and a request is answered or lost and then applied.
Fairness == /\ WF_vars(reconcile) /\ WF_vars(Reconciled)
            /\ WF_vars(Serve(Hourly)) /\ WF_vars(Retry(Hourly))
FairSpec == Spec /\ Fairness

----------------------------------------------------------------------------

Replies == {"none", "unlocks", "bare", "lapsed", "badtoken", "missing", "refused", "lost"}

\* The types of the licence's state and of the tasks that ask about it.
LicenceTypeOK == /\ worker \in [Order -> {"none", "unpaid", "active", "refused", "lapsed"}]
                 /\ verifies \subseteq Order
                 /\ {recovery_id, token, claims, watch_task} \subseteq Order \cup {NoOrder}
                 /\ unlocked \in BOOLEAN /\ email \in BOOLEAN
                 /\ saved \in [recovery_id : Order \cup {NoOrder}, token : Order \cup {NoOrder}]
                 /\ pc \in [Asker -> {"idle", "first", "second"}]
                 /\ about \in [Asker -> Order \cup {NoOrder}]
                 /\ reply \in [Asker -> Replies]
                 /\ watcher \in [Order -> {"off", "start", "sleep", "poll"}]
                 /\ cancelled \subseteq Order
                 /\ events \in 0..MaxEvents

\* Premium rests on the signed token alone (license_service.py effective_unlocks,
\* _revoke): whichever answers arrive in whichever order, the app is unlocked
\* exactly while the token it would boot from is cached, and they are one order's.
VerdictHasToken == /\ unlocked <=> token # NoOrder
                   /\ claims = token

\* A paid order whose id the app holds unlocks it, although its watcher may have
\* timed out, been cancelled or lost with a restart.
PaidOrderUnlocks ==
  \A i \in Order : recovery_id = i /\ worker[i] = "active"
                   ~> unlocked \/ recovery_id # i \/ worker[i] # "active"

\* "only a restore with no valid cache (or a token the server itself disproves)
\* may revoke" (license_service.py _query).
RefusalKeepsValidToken ==
  [][\A a \in Asker : reply[a] \in Refusals /\ Digests(a) /\ token \in verifies
                      => token' = token]_vars
=============================================================================
