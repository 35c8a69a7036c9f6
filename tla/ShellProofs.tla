---------------------------- MODULE ShellProofs ----------------------------
(***************************************************************************)
(* Theorems about four parts of the app.  Licence, for any number of       *)
(* orders and of events: premium is on exactly while a token is cached,    *)
(* whichever answers come back in whichever order.  Chrome, for any number *)
(* of effects waiting: the root view matches the screen.  Transcript, for  *)
(* any walk, budget and batch: a turn's answer is one voice, and what was  *)
(* done for the user is told to whoever goes on and to the reader.         *)
(* SignIn, for any number of tasks: an outage signs nobody out.            *)
(***************************************************************************)
EXTENDS Licence, Chrome, Transcript, SignIn, SequenceTheorems, FiniteSetTheorems, TLAPS

----------------------------------------------------------------------------
(* Licence *)

(* An order's id is a positive number, so that it never looks like NoOrder.   *)
LEMMA OrderIsNotNone == \A i \in Order : i # NoOrder
BY LicenceAssumption DEF Order, NoOrder

(* _query keeps the verdict and the cached token together on every answer. *)
LEMMA DigestKeepsVerdict ==
  ASSUME VerdictHasToken, NEW i \in Order, NEW r, NEW try, Digest(i, r, try)
  PROVE  VerdictHasToken'
<1>1. CASE r \in {"unlocks", "bare"}
  BY <1>1, OrderIsNotNone, Zenon DEF VerdictHasToken, Digest, Refusals
<1>2. CASE UNCHANGED licenceVars
  BY <1>2 DEF VerdictHasToken, licenceVars
<1>3. CASE _revoke
  BY <1>3 DEF VerdictHasToken, _revoke
<1> QED BY <1>1, <1>2, <1>3 DEF Digest

(* Each task in flight asks about an order, and an answer has its question. *)
AsksAboutOrders == \A a \in Asker : IF pc[a] = "idle" THEN reply[a] = "none"
                                                     ELSE about[a] \in Order

LicenceInv == LicenceTypeOK /\ AsksAboutOrders /\ VerdictHasToken

(* An answer's order is one of the orders, so the verdict survives it.     *)
LEMMA DigestsKeepsVerdict ==
  ASSUME LicenceInv, NEW a \in Asker, Digests(a)
  PROVE  VerdictHasToken'
<1>1. about[a] \in Order
  BY DEF LicenceInv, AsksAboutOrders, Digests
<1> QED BY <1>1, DigestKeepsVerdict DEF LicenceInv, Digests

(* The types of what an answer changes, and of who still asks.             *)
LEMMA DigestsKeepsTypes ==
  ASSUME LicenceInv, NEW a \in Asker, Digests(a)
  PROVE  /\ {recovery_id', token', claims'} \subseteq Order \cup {NoOrder}
         /\ unlocked' \in BOOLEAN
         /\ pc' \in [Asker -> {"idle", "first", "second"}]
         /\ about' \in [Asker -> Order \cup {NoOrder}]
         /\ reply' \in [Asker -> Replies]
         /\ AsksAboutOrders'
<1>1. about[a] \in Order
  BY DEF LicenceInv, AsksAboutOrders, Digests
<1>2. /\ {recovery_id', token', claims'} \subseteq Order \cup {NoOrder}
      /\ unlocked' \in BOOLEAN
  BY <1>1 DEF LicenceInv, LicenceTypeOK, Digests, Digest, _revoke, licenceVars
<1> QED BY <1>2 DEF LicenceInv, LicenceTypeOK, AsksAboutOrders, Digests, Quiet, Replies

(* At the start nothing is stored, asked or watched.                       *)
LEMMA LicenceInitially == Init => LicenceInv
<1> SUFFICES ASSUME Init PROVE LicenceInv
  OBVIOUS
<1>1. LicenceTypeOK
  <2>1. worker \in [Order -> {"none", "unpaid", "active", "refused", "lapsed"}]
    BY DEF Init
  <2>2. /\ pc \in [Asker -> {"idle", "first", "second"}]
        /\ about \in [Asker -> Order \cup {NoOrder}]
        /\ reply \in [Asker -> Replies]
    BY DEF Init, Replies
  <2>3. watcher \in [Order -> {"off", "start", "sleep", "poll"}]
    BY DEF Init
  <2>4. saved \in [recovery_id : Order \cup {NoOrder}, token : Order \cup {NoOrder}]
    BY DEF Init
  <2>5. events \in 0..MaxEvents
    BY LicenceAssumption DEF Init
  <2>6. /\ {recovery_id, token, claims, watch_task} \subseteq Order \cup {NoOrder}
        /\ unlocked \in BOOLEAN /\ email \in BOOLEAN
        /\ verifies \subseteq Order /\ cancelled \subseteq Order
    BY DEF Init
  <2> QED BY <2>1, <2>2, <2>3, <2>4, <2>5, <2>6 DEF LicenceTypeOK
<1>2. AsksAboutOrders
  BY DEF Init, AsksAboutOrders
<1>3. VerdictHasToken
  BY DEF Init, VerdictHasToken
<1> QED BY <1>1, <1>2, <1>3 DEF LicenceInv

(* Every step keeps the invariant; only an answer and a restart touch the  *)
(* verdict.                                                                *)
LEMMA LicenceStep == LicenceInv /\ [Next]_vars => LicenceInv'
<1> SUFFICES ASSUME LicenceInv, [Next]_vars PROVE LicenceInv'
  OBVIOUS
<1> USE DEF LicenceInv
<1>1. ASSUME NEW i \in Order, ServerMoves(i) PROVE LicenceInv'
  BY <1>1 DEF ServerMoves, LicenceTypeOK, AsksAboutOrders, VerdictHasToken,
              licenceVars, askVars, watchVars
<1>2. ASSUME NEW i \in Order, TokenExpires(i) PROVE LicenceInv'
  BY <1>2, LicenceAssumption
     DEF TokenExpires, Event, LicenceTypeOK, AsksAboutOrders, VerdictHasToken,
         licenceVars, askVars, watchVars
<1>3. ASSUME NEW i \in Order, WatcherStarts(i) PROVE LicenceInv'
  BY <1>3 DEF WatcherStarts, LoopHead, WatcherEnds, LicenceTypeOK, AsksAboutOrders,
              VerdictHasToken, serverVars, licenceVars, askVars
<1>4. ASSUME NEW i \in Order, WatcherPolls(i) PROVE LicenceInv'
  BY <1>4 DEF WatcherPolls, Asks, Asker, LicenceTypeOK, AsksAboutOrders,
              VerdictHasToken, serverVars, licenceVars
<1>5. ASSUME NEW i \in Order, WatcherPolled(i) PROVE LicenceInv'
  <2>1. i \in Asker /\ Digests(i)
    BY <1>5 DEF WatcherPolled, Asker
  <2>2. VerdictHasToken'
    BY <2>1, DigestsKeepsVerdict
  <2> QED BY <1>5, <2>1, <2>2, DigestsKeepsTypes
       DEF WatcherPolled, LoopHead, WatcherEnds, LicenceTypeOK, serverVars
<1>6. ASSUME NEW i \in Order, CancelLands(i) PROVE LicenceInv'
  BY <1>6 DEF CancelLands, WatcherEnds, Quiet, Asker, Replies, LicenceTypeOK,
              AsksAboutOrders, VerdictHasToken, serverVars, licenceVars
<1>7. ASSUME NEW i \in Order, kiri_checkout(i) PROVE LicenceInv'
  BY <1>7 DEF kiri_checkout, stop_checkout_watch, LicenceTypeOK, AsksAboutOrders,
              VerdictHasToken, askVars
<1>8. ASSUME NEW i \in Order, RestoreTapped(i) PROVE LicenceInv'
  BY <1>8, LicenceAssumption
     DEF RestoreTapped, Event, Asks, Asker, LicenceTypeOK, AsksAboutOrders,
         VerdictHasToken, serverVars, licenceVars, watchVars
<1>9. ASSUME NEW a \in Asker, Serve(a) PROVE LicenceInv'
  <2>1. about[a] \in Order
    BY <1>9 DEF Serve, Waiting, AsksAboutOrders
  <2> QED BY <1>9, <2>1 DEF Serve, Waiting, Answer, Replies, LicenceTypeOK, AsksAboutOrders,
       VerdictHasToken, licenceVars, watchVars
<1>10. ASSUME NEW a \in Asker, ServeOddly(a) PROVE LicenceInv'
  BY <1>10, LicenceAssumption
     DEF ServeOddly, Event, Waiting, Replies, LicenceTypeOK, AsksAboutOrders,
         VerdictHasToken, serverVars, licenceVars, watchVars
<1>11. ASSUME NEW a \in Asker, Retry(a) PROVE LicenceInv'
  BY <1>11 DEF Retry, Replies, LicenceTypeOK, AsksAboutOrders, VerdictHasToken,
               serverVars, licenceVars, watchVars
<1>12. CASE reconcile
  BY <1>12 DEF reconcile, Asks, Asker, LicenceTypeOK, AsksAboutOrders, VerdictHasToken,
               serverVars, licenceVars, watchVars
<1>13. CASE Reconciled
  <2>1. Hourly \in Asker /\ Digests(Hourly)
    BY <1>13 DEF Reconciled, Asker
  <2>2. VerdictHasToken'
    BY <2>1, DigestsKeepsVerdict
  <2> QED BY <1>13, <2>1, <2>2, DigestsKeepsTypes
       DEF Reconciled, LicenceTypeOK, serverVars, watchVars
<1>14. CASE OfferTapped \/ EmailCancelled
  <2>1. /\ UNCHANGED <<serverVars, licenceVars, saved, askVars, watchVars, events>>
        /\ email' \in BOOLEAN
    BY <1>14 DEF OfferTapped, EmailCancelled
  <2> QED BY <2>1 DEF LicenceTypeOK, AsksAboutOrders, VerdictHasToken,
       serverVars, licenceVars, askVars, watchVars
<1>15. CASE kiri_restore
  <2>1. Dialog \in Asker /\ Digests(Dialog)
    BY <1>15 DEF kiri_restore, Asker
  <2>2. VerdictHasToken'
    BY <2>1, DigestsKeepsVerdict
  <2> QED BY <1>15, <2>1, <2>2, DigestsKeepsTypes
       DEF kiri_restore, stop_checkout_watch, LicenceTypeOK, serverVars
<1>16. CASE TokenIsWritten
  BY <1>16 DEF TokenIsWritten, LicenceTypeOK, AsksAboutOrders, VerdictHasToken,
               serverVars, licenceVars, askVars, watchVars
<1>17. CASE load_local
  <2>1. VerdictHasToken'
    BY <1>17, Zenon DEF load_local, VerdictHasToken
  <2>2. /\ {recovery_id', token', claims', watch_task'} \subseteq Order \cup {NoOrder}
        /\ unlocked' \in BOOLEAN /\ email' \in BOOLEAN
    BY <1>17 DEF load_local, LicenceTypeOK
  <2>3. /\ pc' \in [Asker -> {"idle", "first", "second"}]
        /\ about' \in [Asker -> Order \cup {NoOrder}]
        /\ reply' \in [Asker -> Replies]
        /\ watcher' \in [Order -> {"off", "start", "sleep", "poll"}]
    BY <1>17 DEF load_local, Replies
  <2>4. events' \in 0..MaxEvents
    BY <1>17, LicenceAssumption DEF load_local, Event, LicenceTypeOK
  <2>5. LicenceTypeOK'
    BY <1>17, <2>2, <2>3, <2>4 DEF load_local, LicenceTypeOK, serverVars
  <2>6. AsksAboutOrders'
    BY <1>17 DEF load_local, AsksAboutOrders
  <2> QED BY <2>1, <2>5, <2>6
<1>18. CASE UNCHANGED vars
  BY <1>18 DEF vars, LicenceTypeOK, AsksAboutOrders, VerdictHasToken,
               serverVars, licenceVars, askVars, watchVars
<1> QED BY <1>1, <1>2, <1>3, <1>4, <1>5, <1>6, <1>7, <1>8, <1>9, <1>10, <1>11, <1>12,
           <1>13, <1>14, <1>15, <1>16, <1>17, <1>18 DEF Next

(* The licence's state keeps its types (license_service.py, premium_service.py). *)
THEOREM LicenceTypesHold == Spec => []LicenceTypeOK
<1>1. LicenceInv => LicenceTypeOK
  BY DEF LicenceInv
<1> QED BY LicenceInitially, LicenceStep, <1>1, PTL DEF Spec

(* Premium rests on the cached token alone, for any number of orders, lost *)
(* answers, restores and restarts (license_service.py _apply, _revoke).    *)
THEOREM VerdictRestsOnToken == Spec => []VerdictHasToken
<1>1. LicenceInv => VerdictHasToken
  BY DEF LicenceInv
<1> QED BY LicenceInitially, LicenceStep, <1>1, PTL DEF Spec

----------------------------------------------------------------------------
(* Chrome *)

Place == [subview : {"", "session", "history"}, session : Runtime \union {None}, mode : Mode, tab : Section]

LEMMA StartIsAPlace == Start \in Place
  BY RoutesAssumption DEF Start, Place, Mode

LEMMA RouteApplied == ASSUME NEW s \in Place, NEW route \in Route PROVE _apply_route(s, route) \in Place
<1>1. CASE route \in [path : {"tab"}, to : Section]
  BY <1>1 DEF _apply_route, Place, Mode
<1>2. CASE route \in [path : Mode, to : Runtime]
  BY <1>2 DEF _apply_route, Place, Mode
<1>3. CASE route \in [path : {"history"}, to : {None}]
  BY <1>3 DEF _apply_route, Place, Mode
<1>4. QED BY <1>1, <1>2, <1>3 DEF Route

SessionOnScreen == [key : (Runtime \union {None}) \X Mode, tab : Mode]
Effect == [does : {"bar", "button", "cleanup"}] \union [does : {"menu"}, of : SessionOnScreen]

\* The effects of a queue that write the button for a session, and all that write it.
Swaps == {"menu", "cleanup"}
Writes == Swaps \union {"button"}

NoneOf(queue, kinds) == \A i \in 1 .. Len(queue) : queue[i].does \notin kinds

LastIs(queue, kinds, effect) ==
  \E i \in 1 .. Len(queue) : /\ queue[i] = effect /\ effect.does \in kinds
                             /\ \A j \in i + 1 .. Len(queue) : queue[j].does \notin kinds

ChromeTypes ==
  /\ place \in Place
  /\ mounted \in SessionOnScreen \union {None}
  /\ effects \in Seq(Effect)

\* While no render is due the effects' dependencies are those of the state, so
\* that what an effect will write can be told from seen.
SeenIsCurrent == ~due => seen = Deps

BarFollows ==
  NoneOf(effects, {"bar"}) =>
    bar = IF seen.bar[1] = Gate /\ seen.bar[2] = "" THEN seen.bar[3] ELSE None

MountedIsOffTabs == mounted # None => seen.button[3] # ""

\* The last swap to come, or the last that came, is of the session on screen.
MenuFollows ==
  mounted # None =>
    \/ LastIs(effects, Swaps, [does |-> "menu", of |-> mounted])
    \/ NoneOf(effects, Swaps) /\ button = MenuOf(mounted)

\* With no session on screen, the last swap takes a session's menu away.
MenuGoes ==
  mounted = None =>
    \/ LastIs(effects, Swaps, [does |-> "cleanup"])
    \/ NoneOf(effects, Swaps) /\ (button = None \/ button.owner = "assistant")

\* The shell's button comes, or goes, with what the last render saw.
SeenTabs == {"app_ready", "onboarding_done"} \subseteq seen.button[1] /\ seen.button[3] = ""
SeenAssistant ==
  [owner |-> "assistant", menu |-> IF seen.button[2] THEN "Back to Assistant" ELSE "Ask Assistant"]

AssistantFollows ==
  mounted = None =>
    IF SeenTabs THEN \/ LastIs(effects, Writes, [does |-> "button"])
                     \/ NoneOf(effects, Writes) /\ button = SeenAssistant
                ELSE NoneOf(effects, Writes) => button = None

ChromeInv ==
  /\ ChromeTypes /\ SeenIsCurrent /\ BarFollows
  /\ MountedIsOffTabs /\ MenuFollows /\ MenuGoes /\ AssistantFollows

LEMMA QueueGrows ==
  ASSUME NEW s \in Seq(Effect), NEW t \in Seq(Effect), NEW kinds
  PROVE  /\ s \o t \in Seq(Effect)
         /\ NoneOf(s \o t, kinds) <=> NoneOf(s, kinds) /\ NoneOf(t, kinds)
         /\ \A e : LastIs(t, kinds, e) => LastIs(s \o t, kinds, e)
         /\ \A e : LastIs(s, kinds, e) /\ NoneOf(t, kinds) => LastIs(s \o t, kinds, e)
<1>1. PICK u : u = s \o t
  OBVIOUS
<1>2. PICK m \in Nat, n \in Nat : m = Len(s) /\ n = Len(t)
  BY LenProperties
<1>3. /\ u \in Seq(Effect) /\ Len(u) = m + n
      /\ \A i \in 1 .. m + n : u[i] = IF i <= m THEN s[i] ELSE t[i - m]
  BY <1>1, <1>2, ConcatProperties
<1>4. /\ \A i \in 1 .. m : i \in 1 .. m + n /\ u[i] = s[i]
      /\ \A i \in 1 .. n : i + m \in 1 .. m + n /\ u[i + m] = t[i]
  <2>1. ASSUME NEW i \in 1 .. n PROVE i + m \in 1 .. m + n /\ ~(i + m <= m) /\ (i + m) - m = i
    OBVIOUS
  <2>2. QED BY <1>3, <2>1
<1>5. NoneOf(u, kinds) <=> NoneOf(s, kinds) /\ NoneOf(t, kinds)
  <2>1. ASSUME NoneOf(u, kinds) PROVE NoneOf(s, kinds) /\ NoneOf(t, kinds)
    BY <1>2, <1>3, <1>4, <2>1 DEF NoneOf
  <2>2. ASSUME NoneOf(s, kinds), NoneOf(t, kinds), NEW i \in 1 .. m + n PROVE u[i].does \notin kinds
    <3>1. (i <= m => i \in 1 .. m) /\ (~(i <= m) => i - m \in 1 .. n)
      OBVIOUS
    <3>2. CASE i <= m
      BY <1>2, <1>3, <2>2, <3>1, <3>2 DEF NoneOf
    <3>3. CASE ~(i <= m)
      BY <1>2, <1>3, <2>2, <3>1, <3>3 DEF NoneOf
    <3>4. QED BY <3>2, <3>3
  <2>3. QED BY <1>3, <2>1, <2>2 DEF NoneOf
<1>6. ASSUME NEW e, LastIs(t, kinds, e) PROVE LastIs(u, kinds, e)
  <2>1. PICK i \in 1 .. n : /\ t[i] = e /\ e.does \in kinds
                            /\ \A j \in i + 1 .. n : t[j].does \notin kinds
    BY <1>2, <1>6 DEF LastIs
  <2>2. ASSUME NEW j \in i + m + 1 .. m + n PROVE u[j].does \notin kinds
    <3>1. j - m \in i + 1 .. n /\ j \in 1 .. m + n /\ ~(j <= m)
      OBVIOUS
    <3>2. QED BY <1>3, <2>1, <3>1
  <2>3. QED BY <1>3, <1>4, <2>1, <2>2 DEF LastIs
<1>7. ASSUME NEW e, LastIs(s, kinds, e), NoneOf(t, kinds) PROVE LastIs(u, kinds, e)
  <2>1. PICK i \in 1 .. m : /\ s[i] = e /\ e.does \in kinds
                            /\ \A j \in i + 1 .. m : s[j].does \notin kinds
    BY <1>2, <1>7 DEF LastIs
  <2>2. ASSUME NEW j \in i + 1 .. m + n PROVE u[j].does \notin kinds
    <3>1. j \in 1 .. m + n /\ (j <= m => j \in i + 1 .. m) /\ (~(j <= m) => j - m \in 1 .. n)
      OBVIOUS
    <3>2. QED BY <1>2, <1>3, <1>7, <2>1, <3>1 DEF NoneOf
  <2>3. QED BY <1>3, <1>4, <2>1, <2>2 DEF LastIs
<1>8. QED BY <1>1, <1>3, <1>5, <1>6, <1>7

LEMMA QueueRuns ==
  ASSUME NEW s \in Seq(Effect), s # << >>, NEW kinds
  PROVE  /\ Head(s) \in Effect /\ Tail(s) \in Seq(Effect)
         /\ NoneOf(s, kinds) <=> Head(s).does \notin kinds /\ NoneOf(Tail(s), kinds)
         /\ \A e : LastIs(s, kinds, e) =>
              LastIs(Tail(s), kinds, e) \/ (Head(s) = e /\ e.does \in kinds /\ NoneOf(Tail(s), kinds))
<1>0. Tail(s) \in Seq(Effect) /\ Len(Tail(s)) \in Nat
  BY HeadTailProperties, LenProperties
<1>1. PICK u \in Seq(Effect), n \in Nat : u = Tail(s) /\ n = Len(u)
  BY <1>0
<1>2. /\ Head(s) \in Effect /\ u \in Seq(Effect) /\ Len(s) = n + 1 /\ Head(s) = s[1]
      /\ \A i \in 1 .. n : u[i] = s[i + 1]
  <2>1. Len(s) \in Nat
    BY LenProperties
  <2>2. QED BY <1>1, <2>1, HeadTailProperties
<1>3. NoneOf(s, kinds) <=> Head(s).does \notin kinds /\ NoneOf(u, kinds)
  <2>1. ASSUME NoneOf(s, kinds) PROVE Head(s).does \notin kinds /\ NoneOf(u, kinds)
    <3>1. ASSUME NEW i \in 1 .. n PROVE i + 1 \in 1 .. n + 1
      OBVIOUS
    <3>2. 1 \in 1 .. n + 1
      OBVIOUS
    <3>3. QED BY <1>1, <1>2, <2>1, <3>1, <3>2 DEF NoneOf
  <2>2. ASSUME Head(s).does \notin kinds, NoneOf(u, kinds), NEW i \in 1 .. n + 1
        PROVE s[i].does \notin kinds
    <3>1. i = 1 \/ (i - 1 \in 1 .. n /\ i = (i - 1) + 1)
      OBVIOUS
    <3>2. QED BY <1>1, <1>2, <2>2, <3>1 DEF NoneOf
  <2>3. QED BY <1>2, <2>1, <2>2 DEF NoneOf
<1>4. ASSUME NEW e, LastIs(s, kinds, e)
      PROVE LastIs(u, kinds, e) \/ (Head(s) = e /\ e.does \in kinds /\ NoneOf(u, kinds))
  <2>1. PICK i \in 1 .. n + 1 : /\ s[i] = e /\ e.does \in kinds
                                /\ \A j \in i + 1 .. n + 1 : s[j].does \notin kinds
    BY <1>2, <1>4 DEF LastIs
  <2>2. ASSUME NEW j \in i .. n PROVE u[j].does \notin kinds
    <3>1. j + 1 \in i + 1 .. n + 1 /\ j \in 1 .. n
      OBVIOUS
    <3>2. QED BY <1>2, <2>1, <3>1
  <2>3. CASE i = 1
    BY <1>1, <1>2, <2>1, <2>2, <2>3 DEF NoneOf
  <2>4. CASE i # 1
    <3>1. PICK k \in 1 .. n : i = k + 1
      BY <2>4
    <3>2. u[k] = e /\ \A j \in k + 1 .. n : u[j].does \notin kinds
      BY <1>2, <2>1, <2>2, <3>1
    <3>3. QED BY <1>1, <2>1, <3>2 DEF LastIs
  <2>5. QED BY <2>3, <2>4
<1>5. QED BY <1>1, <1>2, <1>3, <1>4

LEMMA NothingAndLast ==
  ASSUME NEW s \in Seq(Effect), NEW kinds, NEW e, LastIs(s, kinds, e) PROVE ~NoneOf(s, kinds)
  BY DEF LastIs, NoneOf

\* What When asks for.
LEMMA WhenAsks ==
  ASSUME NEW condition \in BOOLEAN, NEW e, condition => e \in Effect, NEW kinds
  PROVE  /\ When(condition, e) \in Seq(Effect)
         /\ ~condition \/ e.does \notin kinds => NoneOf(When(condition, e), kinds)
         /\ condition /\ e.does \in kinds => LastIs(When(condition, e), kinds, e)
<1>1. CASE condition
  <2>1. When(condition, e) = <<e>>
    BY <1>1 DEF When
  <2>2. PICK u : u = <<e>>
    OBVIOUS
  <2>3. u \in Seq(Effect) /\ Len(u) = 1 /\ u[1] = e
    BY <1>1, <2>2
  <2>4. e.does \notin kinds => NoneOf(u, kinds)
    BY <2>3 DEF NoneOf
  <2>5. e.does \in kinds => LastIs(u, kinds, e)
    BY <2>3 DEF LastIs
  <2>6. QED BY <1>1, <2>1, <2>2, <2>3, <2>4, <2>5
<1>2. CASE ~condition
  <2>1. When(condition, e) = << >>
    BY <1>2 DEF When
  <2>2. NoneOf(<< >>, kinds)
    BY DEF NoneOf
  <2>3. QED BY <1>2, <2>1, <2>2
<1>3. QED BY <1>1, <1>2

LEMMA FourQueues ==
  ASSUME NEW w1 \in Seq(Effect), NEW w2 \in Seq(Effect), NEW w3 \in Seq(Effect), NEW w4 \in Seq(Effect),
         NEW kinds
  PROVE  /\ w1 \o w2 \o w3 \o w4 \in Seq(Effect)
         /\ NoneOf(w1, kinds) /\ NoneOf(w2, kinds) /\ NoneOf(w3, kinds) /\ NoneOf(w4, kinds)
              => NoneOf(w1 \o w2 \o w3 \o w4, kinds)
         /\ \A e : \/ LastIs(w1, kinds, e) /\ NoneOf(w2, kinds) /\ NoneOf(w3, kinds) /\ NoneOf(w4, kinds)
                   \/ LastIs(w2, kinds, e) /\ NoneOf(w3, kinds) /\ NoneOf(w4, kinds)
                   \/ LastIs(w3, kinds, e) /\ NoneOf(w4, kinds)
                   \/ LastIs(w4, kinds, e)
                 => LastIs(w1 \o w2 \o w3 \o w4, kinds, e)
<1>1. /\ w1 \o w2 \in Seq(Effect)
      /\ NoneOf(w1, kinds) /\ NoneOf(w2, kinds) => NoneOf(w1 \o w2, kinds)
      /\ \A e : (LastIs(w1, kinds, e) /\ NoneOf(w2, kinds)) \/ LastIs(w2, kinds, e)
               => LastIs(w1 \o w2, kinds, e)
  BY QueueGrows
<1>2. /\ w1 \o w2 \o w3 \in Seq(Effect)
      /\ NoneOf(w1 \o w2, kinds) /\ NoneOf(w3, kinds) => NoneOf(w1 \o w2 \o w3, kinds)
      /\ \A e : (LastIs(w1 \o w2, kinds, e) /\ NoneOf(w3, kinds)) \/ LastIs(w3, kinds, e)
               => LastIs(w1 \o w2 \o w3, kinds, e)
  BY <1>1, QueueGrows
<1>3. /\ w1 \o w2 \o w3 \o w4 \in Seq(Effect)
      /\ NoneOf(w1 \o w2 \o w3, kinds) /\ NoneOf(w4, kinds) => NoneOf(w1 \o w2 \o w3 \o w4, kinds)
      /\ \A e : (LastIs(w1 \o w2 \o w3, kinds, e) /\ NoneOf(w4, kinds)) \/ LastIs(w4, kinds, e)
               => LastIs(w1 \o w2 \o w3 \o w4, kinds, e)
  BY <1>2, QueueGrows
<1>4. QED BY <1>1, <1>2, <1>3

LEMMA ChromeInitially == ChromeInit => ChromeInv
<1> SUFFICES ASSUME ChromeInit PROVE ChromeInv
  OBVIOUS
<1>1. PICK first, second : first = [does |-> "bar"] /\ second = [does |-> "button"]
  OBVIOUS
<1>2. /\ first \in Effect /\ second \in Effect /\ first.does = "bar" /\ second.does = "button"
      /\ effects = <<first, second>>
  BY <1>1 DEF ChromeInit, Effect
<1>3. /\ effects \in Seq(Effect) /\ Len(effects) = 2 /\ effects[1] = first /\ effects[2] = second
  BY <1>2
<1>4. NoneOf(effects, Swaps) /\ ~NoneOf(effects, {"bar"}) /\ ~NoneOf(effects, Writes)
  <2>1. NoneOf(effects, Swaps)
    BY <1>2, <1>3 DEF NoneOf, Swaps
  <2>2. 1 \in 1 .. Len(effects) /\ effects[1].does = "bar"
    BY <1>2, <1>3
  <2>3. 2 \in 1 .. Len(effects) /\ effects[2].does = "button"
    BY <1>2, <1>3
  <2>4. QED BY <2>1, <2>2, <2>3 DEF NoneOf, Writes
<1>5. ChromeTypes
  BY <1>3, StartIsAPlace DEF ChromeTypes, ChromeInit
<1>6. mounted = None /\ button = None /\ seen = Deps /\ ~SeenTabs
  BY DEF ChromeInit, Deps, ButtonDeps, SeenTabs
<1>7. QED BY <1>4, <1>5, <1>6 DEF ChromeInv, SeenIsCurrent, BarFollows, MountedIsOffTabs,
                                   MenuFollows, MenuGoes, AssistantFollows

\* A change of state has a render due, and moves nothing else.
LEMMA StateMoves ==
  ASSUME ChromeInv, due', place' \in Place, UNCHANGED <<seen, mounted, slots, effects>>
  PROVE  ChromeInv'
  BY DEF ChromeInv, ChromeTypes, SeenIsCurrent, BarFollows, MountedIsOffTabs, MenuFollows,
         MenuGoes, AssistantFollows, SeenTabs, SeenAssistant, slots

\* A session is on screen only in a subview.
LEMMA SessionIsOffTabs ==
  ASSUME ChromeTypes, SessionDue # None PROVE SessionDue \in SessionOnScreen /\ place.subview # ""
  BY DEF SessionDue, Screen, OnTabs, ChromeTypes, Place, SessionOnScreen, Mode

LEMMA Rendered ==
  ASSUME ChromeInv, Render PROVE ChromeInv'
<1>1. PICK next : next = SessionDue
  OBVIOUS
<1>2. PICK stays \in BOOLEAN : stays = (mounted # None /\ next # None /\ mounted.key = next.key)
  OBVIOUS
<1>3. /\ ~due' /\ mounted' = (IF stays THEN mounted ELSE next) /\ seen' = Deps
      /\ UNCHANGED <<shellState, slots>>
  BY <1>1, <1>2 DEF Render
<1>a. PICK c1 \in BOOLEAN, c2 \in BOOLEAN, c3 \in BOOLEAN, c4 \in BOOLEAN :
        /\ c1 = (~stays /\ mounted # None) /\ c2 = (~stays /\ next # None)
        /\ c3 = (BarDeps # seen.bar) /\ c4 = (ButtonDeps # seen.button)
  OBVIOUS
<1>b. PICK e1, e2, e3, e4 :
        /\ e1 = [does |-> "cleanup"] /\ e2 = [does |-> "menu", of |-> next]
        /\ e3 = [does |-> "bar"] /\ e4 = [does |-> "button"]
  OBVIOUS
<1>d. PICK w1, w2, w3, w4 : w1 = When(c1, e1) /\ w2 = When(c2, e2) /\ w3 = When(c3, e3) /\ w4 = When(c4, e4)
  OBVIOUS
<1>4. PICK list : list = w1 \o w2 \o w3 \o w4
  OBVIOUS
<1>5. effects' = effects \o list
  BY <1>1, <1>2, <1>4, <1>a, <1>b, <1>d DEF Render, Waits
<1>6. ChromeTypes /\ (next # None => next \in SessionOnScreen /\ place.subview # "")
  BY <1>1, SessionIsOffTabs DEF ChromeInv
<1>7. /\ e1.does = "cleanup" /\ e2.does = "menu" /\ e3.does = "bar" /\ e4.does = "button"
      /\ e1 \in Effect /\ (c2 => e2 \in Effect) /\ e3 \in Effect /\ e4 \in Effect
  BY <1>6, <1>a, <1>b DEF Effect
<1>c. ASSUME NEW kinds
      PROVE  /\ list \in Seq(Effect)
             /\ (~c1 \/ "cleanup" \notin kinds) /\ (~c2 \/ "menu" \notin kinds)
                  /\ (~c3 \/ "bar" \notin kinds) /\ (~c4 \/ "button" \notin kinds) => NoneOf(list, kinds)
             /\ c1 /\ "cleanup" \in kinds /\ (~c2 \/ "menu" \notin kinds)
                  /\ (~c3 \/ "bar" \notin kinds) /\ (~c4 \/ "button" \notin kinds) => LastIs(list, kinds, e1)
             /\ c2 /\ "menu" \in kinds
                  /\ (~c3 \/ "bar" \notin kinds) /\ (~c4 \/ "button" \notin kinds) => LastIs(list, kinds, e2)
             /\ c3 /\ "bar" \in kinds /\ (~c4 \/ "button" \notin kinds) => LastIs(list, kinds, e3)
             /\ c4 /\ "button" \in kinds => LastIs(list, kinds, e4)
  <2>1. w1 \in Seq(Effect) /\ (~c1 \/ "cleanup" \notin kinds => NoneOf(w1, kinds))
        /\ (c1 /\ "cleanup" \in kinds => LastIs(w1, kinds, e1))
    BY <1>7, <1>d, WhenAsks
  <2>2. w2 \in Seq(Effect) /\ (~c2 \/ "menu" \notin kinds => NoneOf(w2, kinds))
        /\ (c2 /\ "menu" \in kinds => LastIs(w2, kinds, e2))
    BY <1>7, <1>d, WhenAsks
  <2>3. w3 \in Seq(Effect) /\ (~c3 \/ "bar" \notin kinds => NoneOf(w3, kinds))
        /\ (c3 /\ "bar" \in kinds => LastIs(w3, kinds, e3))
    BY <1>7, <1>d, WhenAsks
  <2>4. w4 \in Seq(Effect) /\ (~c4 \/ "button" \notin kinds => NoneOf(w4, kinds))
        /\ (c4 /\ "button" \in kinds => LastIs(w4, kinds, e4))
    BY <1>7, <1>d, WhenAsks
  <2>5. /\ list \in Seq(Effect)
        /\ NoneOf(w1, kinds) /\ NoneOf(w2, kinds) /\ NoneOf(w3, kinds) /\ NoneOf(w4, kinds)
              => NoneOf(list, kinds)
        /\ \A e : \/ LastIs(w1, kinds, e) /\ NoneOf(w2, kinds) /\ NoneOf(w3, kinds) /\ NoneOf(w4, kinds)
                  \/ LastIs(w2, kinds, e) /\ NoneOf(w3, kinds) /\ NoneOf(w4, kinds)
                  \/ LastIs(w3, kinds, e) /\ NoneOf(w4, kinds)
                  \/ LastIs(w4, kinds, e)
                => LastIs(list, kinds, e)
    BY <1>4, <2>1, <2>2, <2>3, <2>4, FourQueues
  <2>6. QED BY <2>1, <2>2, <2>3, <2>4, <2>5
<1>8. /\ list \in Seq(Effect)
      /\ BarDeps = seen.bar => NoneOf(list, {"bar"})
      /\ BarDeps # seen.bar => LastIs(list, {"bar"}, [does |-> "bar"])
  <2>1. PICK kinds : kinds = {"bar"}
    OBVIOUS
  <2>2. "cleanup" \notin kinds /\ "menu" \notin kinds /\ "bar" \in kinds /\ "button" \notin kinds
    BY <2>1
  <2>3. list \in Seq(Effect) /\ (~c3 => NoneOf(list, kinds)) /\ (c3 => LastIs(list, kinds, e3))
    BY <1>c, <2>2
  <2>4. QED BY <1>a, <1>b, <2>1, <2>3
<1>9. /\ stays \/ (mounted = None /\ next = None) => NoneOf(list, Swaps)
      /\ ~stays /\ next # None => LastIs(list, Swaps, [does |-> "menu", of |-> next])
      /\ ~stays /\ next = None /\ mounted # None => LastIs(list, Swaps, [does |-> "cleanup"])
  <2>1. "cleanup" \in Swaps /\ "menu" \in Swaps /\ "bar" \notin Swaps /\ "button" \notin Swaps
    BY DEF Swaps
  <2>2. QED BY <1>a, <1>b, <1>c, <2>1
<1>10. /\ ButtonDeps # seen.button => LastIs(list, Writes, [does |-> "button"])
       /\ stays \/ (mounted = None /\ next = None) =>
            (ButtonDeps = seen.button => NoneOf(list, Writes))
  <2>1. "button" \in Writes /\ "bar" \notin Writes
    BY DEF Writes, Swaps
  <2>2. QED BY <1>a, <1>b, <1>c, <2>1
<1>11. effects \in Seq(Effect)
  BY <1>6 DEF ChromeTypes
<1>12. ChromeTypes'
  BY <1>3, <1>5, <1>6, <1>8, <1>11, QueueGrows DEF ChromeTypes, shellState
<1>13. SeenIsCurrent'
  BY <1>3 DEF SeenIsCurrent, Deps, BarDeps, ButtonDeps, shellState
<1>14. BarFollows'
  <2>1. CASE BarDeps = seen.bar
    <3>1. NoneOf(effects', {"bar"}) => NoneOf(effects, {"bar"})
      BY <1>5, <1>8, <1>11, QueueGrows
    <3>2. seen'.bar = seen.bar /\ bar' = bar
      BY <1>3, <2>1 DEF Deps, slots
    <3>3. QED BY <3>1, <3>2 DEF ChromeInv, BarFollows
  <2>2. CASE BarDeps # seen.bar
    <3>1. ~NoneOf(list, {"bar"})
      BY <1>8, <2>2, NothingAndLast
    <3>2. ~NoneOf(effects', {"bar"})
      BY <1>5, <1>8, <1>11, <3>1, QueueGrows
    <3>3. QED BY <3>2 DEF BarFollows
  <2>3. QED BY <2>1, <2>2
<1>15. seen'.button = ButtonDeps /\ button' = button
  BY <1>3 DEF Deps, slots
<1>16. MountedIsOffTabs'
  <2>1. ButtonDeps[3] = place.subview
    BY DEF ButtonDeps
  <2>2. mounted' # None => next # None
    BY <1>2, <1>3
  <2>3. QED BY <1>6, <1>15, <2>1, <2>2 DEF MountedIsOffTabs
<1>17. MenuFollows'
  <2>1. CASE stays
    <3>1. mounted' = mounted /\ mounted # None /\ NoneOf(list, Swaps)
      BY <1>2, <1>3, <1>9, <2>1
    <3>2. QED BY <1>5, <1>8, <1>11, <1>15, <3>1, QueueGrows DEF ChromeInv, MenuFollows, MenuOf
  <2>2. CASE ~stays
    BY <1>3, <1>5, <1>8, <1>9, <1>11, <2>2, QueueGrows DEF MenuFollows
  <2>3. QED BY <2>1, <2>2
<1>18. CASE mounted' # None
  BY <1>12, <1>13, <1>14, <1>16, <1>17, <1>18 DEF ChromeInv, MenuGoes, AssistantFollows
<1>19. CASE mounted' = None
  <2>1. ~stays /\ next = None
    BY <1>2, <1>3, <1>19
  <2>2. MenuGoes'
    <3>1. CASE mounted = None
      BY <1>5, <1>8, <1>9, <1>11, <1>15, <2>1, <3>1, QueueGrows DEF ChromeInv, MenuGoes
    <3>2. CASE mounted # None
      BY <1>5, <1>8, <1>9, <1>11, <2>1, <3>2, QueueGrows DEF MenuGoes
    <3>3. QED BY <3>1, <3>2
  <2>3. AssistantFollows'
    <3>1. CASE ButtonDeps # seen.button
      <4>1. LastIs(effects', Writes, [does |-> "button"])
        BY <1>5, <1>8, <1>10, <1>11, <3>1, QueueGrows
      <4>2. ~NoneOf(effects', Writes)
        BY <1>12, <4>1, NothingAndLast DEF ChromeTypes
      <4>3. QED BY <4>1, <4>2 DEF AssistantFollows
    <3>2. CASE ButtonDeps = seen.button /\ mounted = None
      <4>1. NoneOf(list, Writes)
        BY <1>10, <2>1, <3>2
      <4>2. (SeenTabs' <=> SeenTabs) /\ SeenAssistant' = SeenAssistant
        BY <1>15, <3>2 DEF SeenTabs, SeenAssistant
      <4>3. QED BY <1>5, <1>8, <1>11, <1>15, <3>2, <4>1, <4>2, QueueGrows
                DEF ChromeInv, AssistantFollows
    <3>3. CASE ButtonDeps = seen.button /\ mounted # None
      <4>1. ~SeenTabs'
        BY <1>15, <3>3 DEF ChromeInv, MountedIsOffTabs, SeenTabs
      <4>2. ~NoneOf(list, Writes)
        <5>1. LastIs(list, Swaps, [does |-> "cleanup"])
          BY <1>9, <2>1, <3>3
        <5>2. ~NoneOf(list, Swaps)
          BY <1>8, <5>1, NothingAndLast
        <5>3. QED BY <5>2 DEF NoneOf, Writes
      <4>3. ~NoneOf(effects', Writes)
        BY <1>5, <1>8, <1>11, <4>2, QueueGrows
      <4>4. QED BY <4>1, <4>3 DEF AssistantFollows
    <3>4. QED BY <3>1, <3>2, <3>3
  <2>4. QED BY <1>12, <1>13, <1>14, <1>16, <1>17, <2>2, <2>3 DEF ChromeInv
<1>20. QED BY <1>18, <1>19

\* The session shows another tab: the menu of the old one goes, that of the new comes.
LEMMA TabSwitched ==
  ASSUME ChromeInv, _switch_to_terminal PROVE ChromeInv'
<1>1. PICK t \in Mode : mounted # None /\ mounted' = [mounted EXCEPT !.tab = t]
  BY DEF _switch_to_terminal, Mode
<1>2. ChromeTypes /\ UNCHANGED <<shellState, due, seen, slots>>
  BY DEF ChromeInv, _switch_to_terminal
<1>3. mounted' \in SessionOnScreen /\ mounted' # None
  BY <1>1, <1>2, ChromeAssumption DEF ChromeTypes, SessionOnScreen
<1>4. PICK e1, e2 : e1 = [does |-> "cleanup"] /\ e2 = [does |-> "menu", of |-> mounted']
  OBVIOUS
<1>5. e1 \in Effect /\ e2 \in Effect /\ e1.does = "cleanup" /\ e2.does = "menu"
  BY <1>3, <1>4 DEF Effect
<1>6. PICK list : list = <<e1, e2>>
  OBVIOUS
<1>7. /\ list \in Seq(Effect) /\ Len(list) = 2 /\ list[1] = e1 /\ list[2] = e2
      /\ effects' = effects \o list
  BY <1>4, <1>5, <1>6 DEF _switch_to_terminal, Waits
<1>8. NoneOf(list, {"bar"}) /\ LastIs(list, Swaps, e2)
  <2>1. NoneOf(list, {"bar"})
    BY <1>5, <1>7 DEF NoneOf
  <2>2. 2 \in 1 .. Len(list) /\ \A j \in 3 .. Len(list) : FALSE
    BY <1>7
  <2>3. QED BY <1>5, <1>7, <2>1, <2>2 DEF LastIs, Swaps
<1>9. /\ effects \in Seq(Effect) /\ effects' \in Seq(Effect)
      /\ NoneOf(effects', {"bar"}) => NoneOf(effects, {"bar"})
      /\ LastIs(effects', Swaps, e2)
  BY <1>2, <1>7, <1>8, QueueGrows DEF ChromeTypes
<1>10. ChromeTypes'
  BY <1>2, <1>3, <1>9 DEF ChromeTypes, shellState
<1>11. SeenIsCurrent' /\ BarFollows' /\ MountedIsOffTabs'
  BY <1>1, <1>2, <1>9 DEF ChromeInv, SeenIsCurrent, BarFollows, MountedIsOffTabs, Deps, BarDeps,
                          ButtonDeps, shellState, slots
<1>12. MenuFollows' /\ MenuGoes' /\ AssistantFollows'
  BY <1>3, <1>4, <1>9 DEF MenuFollows, MenuGoes, AssistantFollows
<1>13. QED BY <1>10, <1>11, <1>12 DEF ChromeInv

\* What an effect that runs finds, and what waits after it.
LEMMA EffectRuns ==
  ASSUME ChromeInv, NEW what, Runs(what)
  PROVE  /\ UNCHANGED <<shellState, due, seen, mounted>> /\ ~due /\ seen = Deps
         /\ effects \in Seq(Effect) /\ effects # << >> /\ Head(effects).does = what /\ effects' = Tail(effects)
         /\ ChromeTypes' /\ SeenIsCurrent' /\ MountedIsOffTabs'
         /\ \A kinds : NoneOf(effects, kinds) <=> what \notin kinds /\ NoneOf(effects', kinds)
         /\ \A kinds, e : LastIs(effects, kinds, e) =>
              LastIs(effects', kinds, e) \/ (Head(effects) = e /\ what \in kinds /\ NoneOf(effects', kinds))
<1>1. /\ UNCHANGED <<shellState, due, seen, mounted>> /\ ~due /\ seen = Deps
      /\ effects \in Seq(Effect) /\ effects # << >> /\ Head(effects).does = what /\ effects' = Tail(effects)
  BY DEF Runs, ChromeInv, ChromeTypes, SeenIsCurrent
<1>2. Tail(effects) \in Seq(Effect)
  BY <1>1, QueueRuns
<1>3. ChromeTypes' /\ SeenIsCurrent' /\ MountedIsOffTabs'
  BY <1>1, <1>2 DEF ChromeInv, ChromeTypes, SeenIsCurrent, MountedIsOffTabs, Deps, BarDeps, ButtonDeps, shellState
<1>4. \A kinds : NoneOf(effects, kinds) <=> what \notin kinds /\ NoneOf(Tail(effects), kinds)
  BY <1>1, QueueRuns
<1>5. \A kinds, e : LastIs(effects, kinds, e) =>
        \/ LastIs(Tail(effects), kinds, e)
        \/ Head(effects) = e /\ what \in kinds /\ NoneOf(Tail(effects), kinds)
  BY <1>1, QueueRuns
<1>6. QED BY <1>1, <1>3, <1>4, <1>5

LEMMA BarRuns ==
  ASSUME ChromeInv, _sync_navigation_bar PROVE ChromeInv'
<1>1. Runs("bar") /\ bar' = (IF open_gates = Gate /\ OnTabs THEN place.tab ELSE None) /\ UNCHANGED button
  BY DEF _sync_navigation_bar
<1>2. BarFollows'
  <2>1. seen' = Deps
    BY <1>1, EffectRuns
  <2>2. seen'.bar[1] = open_gates /\ seen'.bar[2] = place.subview /\ seen'.bar[3] = place.tab
    BY <2>1 DEF Deps, BarDeps
  <2>3. QED BY <1>1, <2>2 DEF BarFollows, OnTabs
<1>3. "bar" \notin Swaps /\ "bar" \notin Writes
  BY DEF Swaps, Writes
<1>4. /\ UNCHANGED <<seen, mounted, button>> /\ ChromeTypes' /\ SeenIsCurrent' /\ MountedIsOffTabs'
      /\ NoneOf(effects', Swaps) <=> NoneOf(effects, Swaps)
      /\ NoneOf(effects', Writes) <=> NoneOf(effects, Writes)
      /\ \A e : LastIs(effects, Swaps, e) => LastIs(effects', Swaps, e)
      /\ \A e : LastIs(effects, Writes, e) => LastIs(effects', Writes, e)
  BY <1>1, <1>3, EffectRuns
<1>5. MenuFollows' /\ MenuGoes'
  BY <1>4 DEF ChromeInv, MenuFollows, MenuGoes, MenuOf
<1>6. AssistantFollows'
  BY <1>4 DEF ChromeInv, AssistantFollows, SeenTabs, SeenAssistant
<1>7. QED BY <1>2, <1>4, <1>5, <1>6 DEF ChromeInv

\* An effect that writes the button leaves the bar as it follows.
LEMMA BarStays ==
  ASSUME ChromeInv, NEW what, what # "bar", Runs(what), UNCHANGED bar PROVE BarFollows'
<1>1. UNCHANGED seen /\ (NoneOf(effects, {"bar"}) <=> NoneOf(effects', {"bar"}))
  BY EffectRuns
<1>2. QED BY <1>1 DEF ChromeInv, BarFollows

LEMMA MenuRuns ==
  ASSUME ChromeInv, _sync_fab PROVE ChromeInv'
<1>1. Runs("menu") /\ button' = MenuOf(Head(effects).of) /\ UNCHANGED bar
  BY DEF _sync_fab
<1>2. "menu" \in Swaps /\ "menu" \in Writes /\ "menu" # "button" /\ "menu" # "cleanup"
  BY DEF Swaps, Writes
<1>3. /\ UNCHANGED <<seen, mounted>> /\ ChromeTypes' /\ SeenIsCurrent' /\ MountedIsOffTabs'
      /\ ~NoneOf(effects, Swaps) /\ ~NoneOf(effects, Writes) /\ Head(effects).does = "menu"
      /\ \A kinds, e : LastIs(effects, kinds, e) =>
           LastIs(effects', kinds, e) \/ (Head(effects) = e /\ NoneOf(effects', kinds))
  BY <1>1, <1>2, EffectRuns
<1>4. BarFollows'
  BY <1>1, BarStays
<1>5. MenuFollows'
  <2>1. ASSUME mounted # None, Head(effects) = [does |-> "menu", of |-> mounted]
        PROVE  button' = MenuOf(mounted)
    BY <1>1, <2>1
  <2>2. QED BY <1>3, <2>1 DEF ChromeInv, MenuFollows, MenuOf
<1>6. PICK gone, mine : gone = [does |-> "cleanup"] /\ mine = [does |-> "button"]
  OBVIOUS
<1>7. gone.does = "cleanup" /\ mine.does = "button"
  BY <1>6
<1>8. /\ Head(effects) # gone /\ Head(effects) # mine
      /\ mounted = None => LastIs(effects', Swaps, gone)
  BY <1>2, <1>3, <1>6, <1>7 DEF ChromeInv, MenuGoes
<1>9. MenuGoes'
  BY <1>3, <1>6, <1>8 DEF MenuGoes
<1>10. AssistantFollows'
  <2>1. mounted = None => ~NoneOf(effects', Writes)
    <3>1. mounted = None => ~NoneOf(effects', Swaps)
      BY <1>3, <1>8, NothingAndLast DEF ChromeTypes
    <3>2. QED BY <3>1 DEF NoneOf, Writes
  <2>2. mounted = None /\ SeenTabs => LastIs(effects', Writes, mine)
    BY <1>3, <1>6, <1>8 DEF ChromeInv, AssistantFollows
  <2>3. SeenTabs' <=> SeenTabs
    BY <1>3 DEF SeenTabs
  <2>4. QED BY <1>3, <1>6, <2>1, <2>2, <2>3 DEF AssistantFollows
<1>11. QED BY <1>3, <1>4, <1>5, <1>9, <1>10 DEF ChromeInv

LEMMA CleanupRuns ==
  ASSUME ChromeInv, _cleanup_fab PROVE ChromeInv'
<1>1. Runs("cleanup") /\ button' = None /\ UNCHANGED bar
  BY DEF _cleanup_fab
<1>2. "cleanup" \in Swaps /\ "cleanup" \in Writes
  BY DEF Swaps, Writes
<1>3. /\ UNCHANGED <<seen, mounted>> /\ ChromeTypes' /\ SeenIsCurrent' /\ MountedIsOffTabs'
      /\ ~NoneOf(effects, Swaps) /\ ~NoneOf(effects, Writes) /\ Head(effects).does = "cleanup"
      /\ \A kinds, e : LastIs(effects, kinds, e) =>
           LastIs(effects', kinds, e) \/ (Head(effects) = e /\ NoneOf(effects', kinds))
  BY <1>1, <1>2, EffectRuns
<1>4. BarFollows'
  BY <1>1, BarStays
<1>5. PICK menu, mine : menu = [does |-> "menu", of |-> mounted] /\ mine = [does |-> "button"]
  OBVIOUS
<1>6. menu.does = "menu" /\ mine.does = "button"
  BY <1>5
<1>7. Head(effects) # menu /\ Head(effects) # mine
  BY <1>3, <1>6
<1>8. MenuFollows'
  BY <1>3, <1>5, <1>7 DEF ChromeInv, MenuFollows
<1>9. MenuGoes'
  BY <1>1, <1>3 DEF ChromeInv, MenuGoes
<1>10. AssistantFollows'
  <2>1. mounted = None /\ SeenTabs => LastIs(effects', Writes, mine)
    BY <1>3, <1>5, <1>7 DEF ChromeInv, AssistantFollows
  <2>2. SeenTabs' <=> SeenTabs
    BY <1>3 DEF SeenTabs
  <2>3. QED BY <1>1, <1>3, <1>5, <2>1, <2>2 DEF AssistantFollows
<1>11. QED BY <1>3, <1>4, <1>8, <1>9, <1>10 DEF ChromeInv

LEMMA ButtonRuns ==
  ASSUME ChromeInv, _sync_assistant_fab PROVE ChromeInv'
<1>1. /\ Runs("button") /\ UNCHANGED bar
      /\ button' = IF Up /\ OnTabs THEN Assistant
                   ELSE IF button # None /\ button.owner = "assistant" THEN None ELSE button
  BY DEF _sync_assistant_fab
<1>2. "button" \notin Swaps /\ "button" \in Writes
  BY DEF Swaps, Writes
<1>3. /\ UNCHANGED <<seen, mounted>> /\ seen = Deps /\ ChromeTypes' /\ SeenIsCurrent' /\ MountedIsOffTabs'
      /\ NoneOf(effects', Swaps) <=> NoneOf(effects, Swaps)
      /\ \A e : LastIs(effects, Swaps, e) => LastIs(effects', Swaps, e)
      /\ \A e : LastIs(effects, Writes, e) => LastIs(effects', Writes, e) \/ NoneOf(effects', Writes)
      /\ ~NoneOf(effects, Writes) /\ effects \in Seq(Effect) /\ effects' \in Seq(Effect)
  BY <1>1, <1>2, EffectRuns DEF ChromeTypes
<1>4. BarFollows'
  BY <1>1, BarStays
<1>5. (SeenTabs <=> Up /\ OnTabs) /\ SeenAssistant = Assistant /\ SeenAssistant' = SeenAssistant
      /\ (SeenTabs' <=> SeenTabs)
  BY <1>3 DEF SeenTabs, SeenAssistant, Up, OnTabs, Assistant, Deps, ButtonDeps
<1>6. MenuFollows'
  <2>1. ASSUME mounted # None, button = MenuOf(mounted) PROVE button' = MenuOf(mounted)
    <3>1. ~SeenTabs
      BY <2>1 DEF ChromeInv, MountedIsOffTabs, SeenTabs
    <3>2. button.owner # "assistant"
      BY <2>1 DEF MenuOf
    <3>3. QED BY <1>1, <1>5, <2>1, <3>1, <3>2
  <2>2. QED BY <1>3, <2>1 DEF ChromeInv, MenuFollows, MenuOf
<1>7. Assistant.owner = "assistant"
  BY DEF Assistant
<1>8. MenuGoes'
  BY <1>1, <1>3, <1>7 DEF ChromeInv, MenuGoes
<1>9. AssistantFollows'
  <2>1. CASE SeenTabs
    BY <1>1, <1>3, <1>5, <2>1 DEF ChromeInv, AssistantFollows
  <2>2. CASE ~SeenTabs /\ mounted = None /\ NoneOf(effects', Writes)
    <3>1. NoneOf(effects, Swaps)
      <4>1. NoneOf(effects', Swaps)
        BY <2>2 DEF NoneOf, Writes
      <4>2. QED BY <1>3, <4>1
    <3>2. button = None \/ button.owner = "assistant"
      BY <1>3, <2>2, <3>1, NothingAndLast DEF ChromeInv, MenuGoes
    <3>3. QED BY <1>1, <1>3, <1>5, <2>2, <3>2 DEF AssistantFollows
  <2>3. QED BY <1>3, <1>5, <2>1, <2>2 DEF AssistantFollows
<1>10. QED BY <1>3, <1>4, <1>6, <1>8, <1>9 DEF ChromeInv

LEMMA ChromeStep == ChromeInv /\ [ChromeNext]_chromeVars => ChromeInv'
<1> SUFFICES ASSUME ChromeInv, [ChromeNext]_chromeVars PROVE ChromeInv'
  OBVIOUS
<1>0. place \in Place
  BY DEF ChromeInv, ChromeTypes
<1>1. ASSUME GatesChange \/ MinimizedChanges PROVE ChromeInv'
  BY <1>0, <1>1, StateMoves DEF GatesChange, MinimizedChanges
<1>2. ASSUME NEW route \in Route, Applies(route) PROVE ChromeInv'
  BY <1>0, <1>2, StateMoves, RouteApplied DEF Applies
<1>3. ASSUME _global_bindings \/ OpenSession \/ on_back \/ on_view_logs
      PROVE \E route \in Route : Applies(route)
  <2>1. ASSUME NEW t \in Section PROVE [path |-> "tab", to |-> t] \in Route
    BY DEF Route
  <2>2. ASSUME NEW n \in Openable, NEW m \in Mode PROVE [path |-> m, to |-> n] \in Route
    BY ChromeAssumption DEF Route
  <2>3. Gone \in Route /\ [path |-> "history", to |-> None] \in Route
    BY RoutesAssumption DEF Route, Gone
  <2>4. QED BY <1>3, <2>1, <2>2, <2>3 DEF _global_bindings, OpenSession, on_back, on_view_logs
<1>4. CASE UNCHANGED chromeVars
  BY <1>4 DEF ChromeInv, ChromeTypes, SeenIsCurrent, BarFollows, MountedIsOffTabs, MenuFollows,
              MenuGoes, AssistantFollows, SeenTabs, SeenAssistant, Deps, BarDeps, ButtonDeps,
              chromeVars, shellState, slots, MenuOf
<1>5. QED BY <1>1, <1>2, <1>3, <1>4, Rendered, TabSwitched, BarRuns, MenuRuns, CleanupRuns, ButtonRuns
          DEF ChromeNext

\* However renders, the session's own renders, and the effects of both interleave
\* with what moves the state, the root view ends up with the button and the bar
\* that the screen calls for (app_shell.py _sync_assistant_fab, _sync_navigation_bar;
\* screens/session/__init__.py _sync_fab).
THEOREM ChromeKeepsMatching == ChromeSpec => []ChromeMatchesScreen
<1>1. ChromeInv => ChromeMatchesScreen
  <2> SUFFICES ASSUME ChromeInv, ~due, effects = << >> PROVE ChromeMatchesScreen
    BY DEF ChromeMatchesScreen
  <2>1. ASSUME NEW kinds PROVE NoneOf(effects, kinds)
    BY DEF NoneOf
  <2>2. ASSUME NEW kinds, NEW e PROVE ~LastIs(effects, kinds, e)
    BY DEF LastIs
  <2>3. seen = Deps
    BY DEF ChromeInv, SeenIsCurrent
  <2>4. /\ seen.bar[1] = open_gates /\ seen.bar[2] = place.subview /\ seen.bar[3] = place.tab
        /\ (SeenTabs <=> Up /\ OnTabs) /\ SeenAssistant = Assistant
    BY <2>3 DEF Deps, BarDeps, ButtonDeps, SeenTabs, SeenAssistant, Up, OnTabs, Assistant
  <2>5. bar = IF open_gates = Gate /\ OnTabs THEN place.tab ELSE None
    BY <2>1, <2>4 DEF ChromeInv, BarFollows, OnTabs
  <2>6. button = IF mounted # None THEN MenuOf(mounted) ELSE IF Up /\ OnTabs THEN Assistant ELSE None
    BY <2>1, <2>2, <2>4 DEF ChromeInv, MenuFollows, AssistantFollows
  <2>7. QED BY <2>5, <2>6 DEF ChromeMatchesScreen
<1>2. QED BY ChromeInitially, ChromeStep, <1>1, PTL DEF ChromeSpec
----------------------------------------------------------------------------
(* Transcript: whose words the answer is *)

TurnPlace == {"start", "walk", "round", "stream", "tools", "over"}

\* Every word of the answer to be is of the call under way or of the last one; a
\* round starts without any; the answer is there when the turn has ended with it.
VoiceInv ==
  /\ at \in TurnPlace /\ model_steps \in Nat /\ candidate \in Nat
  /\ ending \in {"none", "final", "stopped", "error", "credits"}
  /\ collected \subseteq {model_steps} /\ (at = "round" => collected = {})
  /\ ending = "none" <=> at # "over"
  /\ ending = "final" => bubble = {-1} \/ bubble = {model_steps}

LEMMA VoiceStep == VoiceInv /\ [TranscriptNext]_transcriptVars => VoiceInv'
<1> SUFFICES ASSUME VoiceInv, [TranscriptNext]_transcriptVars PROVE VoiceInv'
  OBVIOUS
<1>1. CASE Refused
  <2>1. /\ at = "start" /\ at' = "over" /\ UNCHANGED <<candidate, model_steps, collected>>
        /\ ending' = "credits" \/ ending' = "error"
    BY <1>1 DEF Refused, Ends
  <2>2. QED BY <2>1 DEF VoiceInv, TurnPlace
<1>2. CASE Begins \/ Leaves
  <2>1. at # "over" /\ at' = "walk" /\ UNCHANGED <<candidate, model_steps, ending, collected, bubble>>
    BY <1>2 DEF Begins, Leaves, textVars
  <2>2. QED BY <2>1 DEF VoiceInv, TurnPlace
<1>3. CASE Tries
  <2>1. /\ at = "walk" /\ candidate' = candidate + 1 /\ UNCHANGED <<model_steps, ending, bubble>>
        /\ (at' = "round" /\ collected' = {}) \/ UNCHANGED <<at, collected>>
    BY <1>3 DEF Tries
  <2>2. candidate' \in Nat /\ at' \in TurnPlace /\ (at' = "round" => collected' = {}) /\ at' # "over"
    BY <2>1 DEF VoiceInv, TurnPlace
  <2>3. collected' \subseteq {model_steps'}
    BY <2>1 DEF VoiceInv
  <2>4. QED BY <2>1, <2>2, <2>3 DEF VoiceInv, TurnPlace
<1>4. CASE WalkIsOver
  <2>1. /\ at = "walk" /\ at' = "over" /\ UNCHANGED <<candidate, model_steps, collected>>
        /\ \/ ending' = "stopped" \/ ending' = "error"
           \/ ending' = "final" /\ (bubble' = {-1} \/ (collected # {} /\ bubble' = collected))
    BY <1>4 DEF WalkIsOver, Ends
  <2>2. QED BY <2>1 DEF VoiceInv, TurnPlace
<1>5. CASE Calls \/ ModelFails \/ Stops \/ TaskCancelled
  BY <1>5 DEF VoiceInv, TurnPlace, Calls, ModelFails, Stops, TaskCancelled, textVars
<1>6. CASE Streams
  BY <1>6 DEF VoiceInv, TurnPlace, Streams, textVars
<1>7. CASE Answers \/ ConnectionFails
  <2>1. /\ at = "stream" /\ UNCHANGED <<candidate, model_steps, collected>>
        /\ \/ at' = "walk" /\ UNCHANGED <<ending, bubble>>
           \/ at' = "over" /\ ending' = "error"
           \/ at' = "over" /\ ending' = "final" /\ collected # {} /\ bubble' = collected
    BY <1>7 DEF Answers, ConnectionFails, Ends
  <2>2. QED BY <2>1 DEF VoiceInv, TurnPlace
<1>8. CASE ResultsRead
  BY <1>8 DEF VoiceInv, TurnPlace, ResultsRead
<1>9. ASSUME NEW n \in 1 .. MaxBatch, AsksTools(n) PROVE VoiceInv'
  BY <1>9 DEF VoiceInv, TurnPlace, AsksTools, textVars
<1>10. ASSUME NEW s \in DOMAIN batch, ToolStarts(s) \/ ToolEnds(s, "done") \/ ToolEnds(s, "error")
      PROVE  VoiceInv'
  BY <1>10 DEF VoiceInv, TurnPlace, ToolStarts, ToolEnds, walkVars, textVars
<1>11. CASE UNCHANGED transcriptVars
  BY <1>11 DEF VoiceInv, transcriptVars, walkVars, textVars
<1>12. QED BY <1>1, <1>2, <1>3, <1>4, <1>5, <1>6, <1>7, <1>8, <1>9, <1>10, <1>11 DEF TranscriptNext

LEMMA VoiceInitially == TranscriptInit => VoiceInv
  BY DEF TranscriptInit, VoiceInv, TurnPlace

\* The answer is the words of one call (or the sentence about the budget), however
\* many candidates, calls and tools the turn goes through (run_turn's collected).
THEOREM AnswersHaveOneVoice == TranscriptSpec => []AnswerIsOneVoice
<1>1. VoiceInv => AnswerIsOneVoice
  <2> SUFFICES ASSUME VoiceInv PROVE AnswerIsOneVoice
    OBVIOUS
  <2>1. Cardinality({-1}) = 1 /\ Cardinality({model_steps}) = 1 /\ Cardinality({}) = 0
    BY FS_Singleton, FS_EmptySet
  <2>2. collected = {} \/ collected = {model_steps}
    BY DEF VoiceInv
  <2>3. Cardinality(collected) \in {0, 1}
    BY <2>1, <2>2, Zenon
  <2>4. ending = "final" => Cardinality(bubble) = 1
    BY <2>1, Zenon DEF VoiceInv
  <2>5. ending = "final" => bubble \subseteq {-1, model_steps}
    BY DEF VoiceInv
  <2>6. QED BY <2>2, <2>3, <2>4, <2>5 DEF AnswerIsOneVoice
<1>2. QED BY VoiceInitially, VoiceStep, <1>1, PTL DEF TranscriptSpec

(* Transcript: what the candidates are told *)

Message == [by : Nat, call : Nat, kind : {"asks", "says", "result"}, slot : Nat]
Ran == [by : Nat, call : Nat, slot : Nat]

InOrder(h) == \A i, j \in DOMAIN h : i < j => h[i].call <= h[j].call /\ h[i] # h[j]
UpTo(h, k) == \A i \in DOMAIN h : h[i].call <= k
Tells(h, r) == \E i \in DOMAIN h :
  h[i].kind = "result" /\ h[i].by = r.by /\ h[i].call = r.call /\ h[i].slot = r.slot

\* Of the last reply of its candidate that had tools run.
OfLastReply(r) == \A q \in ran : q.by = r.by => q.call <= r.call

MessagesTypes ==
  /\ history_msgs \in Seq(Message) /\ chat_history \in Seq(Message)
  /\ batch \in Seq({"todo", "running", "done"}) /\ ran \subseteq Ran

\* Each call speaks in its own place; the candidate in force has been told all that
\* its earlier calls did, and the next one will be but for one last reply.
MessagesInv ==
  /\ InOrder(history_msgs) /\ UpTo(history_msgs, model_steps)
  /\ InOrder(chat_history) /\ UpTo(chat_history, model_steps)
  /\ at = "stream" => UpTo(chat_history, model_steps - 1)
  /\ at = "tools" => /\ history_msgs = chat_history
                     /\ \A i \in DOMAIN chat_history : chat_history[i].call = model_steps => chat_history[i].kind = "asks"
  /\ \A r \in ran : /\ r.by <= candidate /\ r.call <= model_steps
                    /\ Tells(history_msgs, r) \/ OfLastReply(r)
                    /\ at \in {"round", "stream", "tools"} => Tells(chat_history, r) \/ OfLastReply(r)
                    /\ at \in {"round", "stream"} /\ r.by = candidate => Tells(chat_history, r)
                    /\ at = "stream" => r.call < model_steps
                    /\ at = "tools" /\ r.by = candidate => r.call = model_steps \/ Tells(chat_history, r)
                    /\ at = "tools" /\ r.call = model_steps => r.by = candidate /\ r.slot \in DOMAIN batch

\* h and more, up to call k.
GoesOn(h, g, k) ==
  /\ g \in Seq(Message) /\ InOrder(g) /\ UpTo(g, k)
  /\ \A r : Tells(h, r) => Tells(g, r)
\* What g has of m's call is m.
OnlySays(g, m) == \A i \in DOMAIN g : g[i].call = m.call => g[i] = m

LEMMA OneMoreSaid ==
  ASSUME NEW h \in Seq(Message), InOrder(h), NEW m \in Message, UpTo(h, m.call - 1)
  PROVE  GoesOn(h, Append(h, m), m.call) /\ OnlySays(Append(h, m), m)
<1> DEFINE g == Append(h, m)
<1>1. /\ g \in Seq(Message) /\ DOMAIN g = 1 .. Len(h) + 1 /\ DOMAIN h = 1 .. Len(h) /\ Len(h) \in Nat
      /\ \A i \in 1 .. Len(h) : g[i] = h[i]
      /\ g[Len(h) + 1] = m
  BY AppendProperties, LenProperties
<1> HIDE DEF g
<1>2. \A i \in DOMAIN h : h[i] \in Message /\ h[i].call \in Nat /\ h[i].call < m.call
  <2>1. SUFFICES ASSUME NEW i \in DOMAIN h PROVE h[i] \in Message /\ h[i].call \in Nat /\ h[i].call < m.call
    OBVIOUS
  <2>2. h[i] \in Message
    BY <1>1
  <2>3. h[i].call \in Nat /\ m.call \in Nat
    BY <2>2 DEF Message
  <2>4. h[i].call <= m.call - 1
    BY DEF UpTo
  <2>5. QED BY <2>2, <2>3, <2>4
<1>3. m.call \in Nat
  BY DEF Message
<1>4. ASSUME NEW i \in DOMAIN g, NEW j \in DOMAIN g, i < j PROVE g[i].call <= g[j].call /\ g[i] # g[j]
  <2>1. i \in DOMAIN h /\ g[i] = h[i]
    BY <1>1, <1>4
  <2>2. CASE j \in DOMAIN h
    BY <1>1, <1>4, <2>1, <2>2 DEF InOrder
  <2>3. CASE j \notin DOMAIN h
    <3>1. g[j] = m
      BY <1>1, <1>4, <2>3
    <3>2. QED BY <1>2, <1>3, <2>1, <3>1
  <2>4. QED BY <2>2, <2>3
<1>5. InOrder(g)
  BY <1>4 DEF InOrder
<1>6. \A i \in DOMAIN g : g[i] = m \/ (i \in DOMAIN h /\ g[i] = h[i])
  BY <1>1
<1>7. UpTo(g, m.call)
  BY <1>2, <1>3, <1>6 DEF UpTo
<1>8. ASSUME NEW r, Tells(h, r) PROVE Tells(g, r)
  <2>1. PICK i \in DOMAIN h : h[i].kind = "result" /\ h[i].by = r.by /\ h[i].call = r.call /\ h[i].slot = r.slot
    BY <1>8 DEF Tells
  <2>2. i \in DOMAIN g /\ g[i] = h[i]
    BY <1>1
  <2>3. QED BY <2>1, <2>2 DEF Tells
<1>9. \A i \in DOMAIN g : g[i].call = m.call => g[i] = m
  BY <1>2, <1>3, <1>6
<1>10. GoesOn(h, g, m.call) /\ OnlySays(g, m)
  BY <1>1, <1>5, <1>7, <1>8, <1>9 DEF GoesOn, OnlySays
<1>11. QED BY <1>10 DEF g

Results(c, k, n) == [s \in 1 .. n |-> [by |-> c, call |-> k, kind |-> "result", slot |-> s]]
TellsAll(g, c, k, n) == \A r : r.by = c /\ r.call = k /\ r.slot \in 1 .. n => Tells(g, r)

\* The results of a reply, after its call.
LEMMA ResultsSaid ==
  ASSUME NEW h \in Seq(Message), InOrder(h), NEW k \in Nat, UpTo(h, k), NEW c \in Nat, NEW n \in Nat,
         \A i \in DOMAIN h : h[i].call = k => h[i].kind = "asks"
  PROVE  GoesOn(h, h \o Results(c, k, n), k) /\ TellsAll(h \o Results(c, k, n), c, k, n)
<1> DEFINE f == Results(c, k, n)
           g == h \o f
<1> DEFINE m(s) == [by |-> c, call |-> k, kind |-> "result", slot |-> s]
<1>1. \A s \in 1 .. n : /\ m(s) \in Message /\ m(s).by = c /\ m(s).call = k /\ m(s).kind = "result" /\ m(s).slot = s
                        /\ f[s] = m(s)
  BY DEF Message, Results
<1>2. f \in Seq(Message) /\ Len(f) = n
  <2>1. f \in [1 .. n -> Message]
    BY <1>1 DEF Results
  <2>2. QED BY <2>1, LenProperties
<1> HIDE DEF m, f
<1>3. /\ g \in Seq(Message) /\ DOMAIN g = 1 .. Len(h) + n /\ DOMAIN h = 1 .. Len(h) /\ Len(h) \in Nat
      /\ \A i \in 1 .. Len(h) + n : g[i] = IF i <= Len(h) THEN h[i] ELSE f[i - Len(h)]
  <2>1. /\ g \in Seq(Message) /\ Len(g) = Len(h) + Len(f)
        /\ \A i \in 1 .. Len(h) + Len(f) : g[i] = IF i <= Len(h) THEN h[i] ELSE f[i - Len(h)]
    BY <1>2, ConcatProperties, Zenon
  <2> HIDE DEF g
  <2>2. DOMAIN g = 1 .. Len(g) /\ DOMAIN h = 1 .. Len(h) /\ Len(h) \in Nat
    BY <2>1, LenProperties
  <2>3. QED BY <1>2, <2>1, <2>2
<1> HIDE DEF g
<1>4. \A i \in DOMAIN h : h[i] \in Message /\ h[i].call \in Nat /\ h[i].call <= k
  <2>1. SUFFICES ASSUME NEW i \in DOMAIN h PROVE h[i] \in Message /\ h[i].call \in Nat /\ h[i].call <= k
    OBVIOUS
  <2>2. h[i] \in Message
    BY <1>3
  <2>3. h[i].call \in Nat
    BY <2>2 DEF Message
  <2>4. QED BY <2>2, <2>3 DEF UpTo
<1>5. \A i \in DOMAIN g : \/ i \in DOMAIN h /\ g[i] = h[i]
                          \/ i > Len(h) /\ i - Len(h) \in 1 .. n /\ g[i] = m(i - Len(h))
  BY <1>1, <1>3
<1>6. ASSUME NEW i \in DOMAIN g, NEW j \in DOMAIN g, i < j PROVE g[i].call <= g[j].call /\ g[i] # g[j]
  <2>1. i \in Nat /\ j \in Nat
    BY <1>3
  <2>2. CASE j \in DOMAIN h
    <3>1. i \in DOMAIN h /\ g[i] = h[i] /\ g[j] = h[j]
      BY <1>3, <1>6, <2>1, <2>2
    <3>2. QED BY <1>6, <2>2, <3>1 DEF InOrder
  <2>3. CASE j \notin DOMAIN h /\ i \in DOMAIN h
    <3>0. j - Len(h) \in 1 .. n /\ g[j] = m(j - Len(h))
      BY <1>5, <2>3
    <3>1. g[i] = h[i] /\ j - Len(h) \in 1 .. n /\ g[j] = m(j - Len(h))
      <4>1. i \in 1 .. Len(h) + n /\ i <= Len(h)
        BY <1>3, <2>3
      <4>2. QED BY <1>3, <3>0, <4>1
    <3>2. g[i].call <= k /\ g[j].call = k /\ g[j].kind = "result"
      BY <1>1, <1>4, <2>3, <3>1
    <3>3. g[i].call = k => g[i].kind = "asks"
      BY <2>3, <3>1
    <3>4. QED BY <3>2, <3>3
  <2>4. CASE j \notin DOMAIN h /\ i \notin DOMAIN h
    <3>1. /\ i - Len(h) \in 1 .. n /\ g[i] = m(i - Len(h))
          /\ j - Len(h) \in 1 .. n /\ g[j] = m(j - Len(h))
      BY <1>5, <2>4
    <3>2. g[i].call = k /\ g[i].slot = i - Len(h) /\ g[j].call = k /\ g[j].slot = j - Len(h)
      BY <1>1, <3>1
    <3>3. i - Len(h) # j - Len(h)
      BY <1>3, <1>6, <2>1
    <3>4. QED BY <3>2, <3>3
  <2>5. QED BY <2>2, <2>3, <2>4
<1>7. InOrder(g)
  BY <1>6 DEF InOrder
<1>8. UpTo(g, k)
  BY <1>1, <1>4, <1>5 DEF UpTo
<1>9. ASSUME NEW r, Tells(h, r) PROVE Tells(g, r)
  <2>1. PICK i \in DOMAIN h : h[i].kind = "result" /\ h[i].by = r.by /\ h[i].call = r.call /\ h[i].slot = r.slot
    BY <1>9 DEF Tells
  <2>2. i \in DOMAIN g /\ g[i] = h[i]
    BY <1>3
  <2>3. QED BY <2>1, <2>2 DEF Tells
<1>10. ASSUME NEW r, r.by = c, r.call = k, r.slot \in 1 .. n PROVE Tells(g, r)
  <2>1. \A s \in 1 .. n : Len(h) + s \in 1 .. Len(h) + n /\ g[Len(h) + s] = f[s]
    BY <1>3
  <2>2. ASSUME NEW s \in 1 .. n
        PROVE  \E i \in DOMAIN g : g[i].kind = "result" /\ g[i].by = c /\ g[i].call = k /\ g[i].slot = s
    <3>1. m(s).kind = "result" /\ m(s).by = c /\ m(s).call = k /\ m(s).slot = s /\ f[s] = m(s)
      BY <1>1
    <3>2. Len(h) + s \in DOMAIN g /\ g[Len(h) + s] = f[s]
      BY <1>3, <2>1
    <3>3. QED BY <3>1, <3>2
  <2>3. r.slot \in 1 .. n
    BY <1>10
  <2>4. PICK i \in DOMAIN g : g[i].kind = "result" /\ g[i].by = c /\ g[i].call = k /\ g[i].slot = r.slot
    BY <2>2, <2>3, Zenon
  <2>5. g[i].by = r.by /\ g[i].call = r.call
    BY <1>10, <2>4, Zenon
  <2>6. QED BY <2>4, <2>5 DEF Tells
<1>11. GoesOn(h, g, k) /\ TellsAll(g, c, k, n)
  BY <1>3, <1>7, <1>8, <1>9, <1>10 DEF GoesOn, TellsAll
<1>12. QED BY <1>11 DEF f, g

LEMMA MessagesInitially == TranscriptInit => MessagesTypes /\ MessagesInv
  BY DEF TranscriptInit, MessagesTypes, MessagesInv, InOrder, UpTo

\* Where nobody speaks and no tool ends.
LEMMA MessagesStay ==
  ASSUME VoiceInv, MessagesTypes, MessagesInv, UNCHANGED <<history_msgs, chat_history, ran, model_steps>>,
         batch' \in Seq({"todo", "running", "done"}), DOMAIN batch' = DOMAIN batch,
         at' \in {at, "walk", "over"}, candidate' = candidate \/ (candidate' = candidate + 1 /\ at' = "walk")
  PROVE  MessagesTypes' /\ MessagesInv'
<1>1. MessagesTypes'
  BY DEF MessagesTypes
<1>2. \A r \in ran : r.by \in Nat
  BY DEF MessagesTypes, Ran
<1>3. /\ InOrder(history_msgs) /\ UpTo(history_msgs, model_steps)
      /\ InOrder(chat_history) /\ UpTo(chat_history, model_steps)
  BY DEF MessagesInv
<1>4. at' = "stream" => UpTo(chat_history, model_steps - 1)
  BY DEF MessagesInv
<1>5. at' = "tools" => /\ history_msgs = chat_history
                       /\ \A i \in DOMAIN chat_history :
                            chat_history[i].call = model_steps => chat_history[i].kind = "asks"
  BY DEF MessagesInv
<1>6. ASSUME NEW r \in ran
      PROVE  /\ r.by <= candidate' /\ r.call <= model_steps
             /\ Tells(history_msgs, r) \/ OfLastReply(r)
             /\ at' \in {"round", "stream", "tools"} => Tells(chat_history, r) \/ OfLastReply(r)
             /\ at' \in {"round", "stream"} /\ r.by = candidate' => Tells(chat_history, r)
             /\ at' = "stream" => r.call < model_steps
             /\ at' = "tools" /\ r.by = candidate' => r.call = model_steps \/ Tells(chat_history, r)
             /\ at' = "tools" /\ r.call = model_steps => r.by = candidate' /\ r.slot \in DOMAIN batch'
  <2>1. candidate \in Nat /\ r.by <= candidate /\ r.by \in Nat
    BY <1>2 DEF VoiceInv, MessagesInv
  <2>2. r.by <= candidate'
    BY <2>1
  <2>3. at' \in {"round", "stream", "tools"} => at' = at /\ candidate' = candidate
    OBVIOUS
  <2>4. QED BY <2>2, <2>3 DEF MessagesInv
<1>7. \A r : OfLastReply(r)' <=> OfLastReply(r)
  BY DEF OfLastReply
<1>8. QED BY <1>1, <1>3, <1>4, <1>5, <1>6, <1>7 DEF MessagesInv

LEMMA CallsNext ==
  ASSUME VoiceInv, MessagesTypes, MessagesInv, Tries \/ Calls PROVE MessagesTypes' /\ MessagesInv'
<1>1. \A r \in ran : r.by \in Nat /\ r.call \in Nat
  BY DEF MessagesTypes, Ran
<1>2. candidate \in Nat /\ model_steps \in Nat
  BY DEF VoiceInv
<1>3. \A r : OfLastReply(r) <=> \A q \in ran : q.by = r.by => q.call <= r.call
  BY DEF OfLastReply
<1>4. CASE Tries /\ at' = "round"
  <2>1. /\ at' = "round" /\ candidate' = candidate + 1 /\ chat_history' = history_msgs
        /\ UNCHANGED <<history_msgs, ran, model_steps, batch>>
    BY <1>4 DEF Tries, rowVars
  <2>2. MessagesTypes'
    BY <2>1 DEF MessagesTypes
  <2>3. InOrder(history_msgs) /\ UpTo(history_msgs, model_steps)
    BY DEF MessagesInv
  <2>4. ASSUME NEW r \in ran
        PROVE  r.by < candidate' /\ r.call <= model_steps /\ (Tells(history_msgs, r) \/ OfLastReply(r))
    BY <1>1, <1>2, <2>1 DEF MessagesInv
  <2>5. \A r : OfLastReply(r)' <=> OfLastReply(r)
    BY <2>1 DEF OfLastReply
  <2>6. \A r \in ran : r.by <= candidate' /\ r.by # candidate'
    BY <1>1, <1>2, <2>1, <2>4
  <2>7. QED BY <2>1, <2>2, <2>3, <2>4, <2>5, <2>6 DEF MessagesInv
<1>5. CASE Tries /\ at' # "round"
  <2>1. /\ UNCHANGED <<history_msgs, chat_history, ran, model_steps, batch>>
        /\ at' = "walk" /\ candidate' = candidate + 1
    BY <1>5 DEF Tries, rowVars
  <2>2. QED BY <2>1, MessagesStay DEF MessagesTypes
<1>6. CASE Calls
  <2>1. /\ at = "round" /\ at' = "stream" /\ model_steps' = model_steps + 1
        /\ UNCHANGED <<candidate, history_msgs, chat_history, ran, batch>>
    BY <1>6 DEF Calls, msgVars, rowVars
  <2>2. MessagesTypes'
    BY <2>1 DEF MessagesTypes
  <2>3. ASSUME NEW h \in Seq(Message), UpTo(h, model_steps) PROVE UpTo(h, model_steps') /\ UpTo(h, model_steps' - 1)
    <3>1. \A i \in DOMAIN h : h[i] \in Message
      OBVIOUS
    <3>2. \A i \in DOMAIN h : h[i].call \in Nat
      BY <3>1 DEF Message
    <3>3. QED BY <1>2, <2>1, <2>3, <3>2 DEF UpTo
  <2>4. /\ UpTo(history_msgs, model_steps') /\ UpTo(chat_history, model_steps') /\ UpTo(chat_history, model_steps' - 1)
        /\ InOrder(history_msgs) /\ InOrder(chat_history)
    BY <2>3 DEF MessagesInv, MessagesTypes
  <2>5. ASSUME NEW r \in ran
        PROVE  /\ r.by <= candidate /\ r.call < model_steps' /\ r.call <= model_steps'
               /\ Tells(history_msgs, r) \/ OfLastReply(r)
               /\ Tells(chat_history, r) \/ OfLastReply(r)
               /\ r.by = candidate => Tells(chat_history, r)
    <3>1. r.call <= model_steps
      BY DEF MessagesInv
    <3>2. r.call < model_steps' /\ r.call <= model_steps'
      BY <1>1, <1>2, <2>1, <3>1
    <3>3. QED BY <2>1, <3>2 DEF MessagesInv
  <2>6. \A r : OfLastReply(r)' <=> OfLastReply(r)
    BY <2>1 DEF OfLastReply
  <2>7. QED BY <2>1, <2>2, <2>4, <2>5, <2>6 DEF MessagesInv
<1>7. QED BY <1>4, <1>5, <1>6

\* A reply ends: with calls, or without.
LEMMA RepliesEnd ==
  ASSUME VoiceInv, MessagesTypes, MessagesInv, Answers \/ \E n \in 1 .. MaxBatch : AsksTools(n)
  PROVE  MessagesTypes' /\ MessagesInv'
<1>1. candidate \in Nat /\ model_steps \in Nat /\ MaxBatch \in Nat /\ \A r \in ran : r.by \in Nat /\ r.call \in Nat
  BY TranscriptAssumption DEF VoiceInv, MessagesTypes, Ran
<1>2. /\ at = "stream" /\ UNCHANGED <<candidate, model_steps, ran>>
      /\ \E kind \in {"asks", "says"} :
           /\ chat_history' = Append(chat_history, Say(kind, 0))
           /\ \/ kind = "says" /\ at' \in {"over", "walk"} /\ history_msgs' \in {history_msgs, chat_history'} /\ batch' = batch
              \/ /\ kind = "asks" /\ at' = "tools" /\ history_msgs' = chat_history'
                 /\ \E n \in 1 .. MaxBatch : batch' = [s \in 1 .. n |-> "todo"]
  BY DEF Answers, AsksTools, Ends
<1>3. PICK kind \in {"asks", "says"} :
        /\ chat_history' = Append(chat_history, Say(kind, 0))
        /\ \/ kind = "says" /\ at' \in {"over", "walk"} /\ history_msgs' \in {history_msgs, chat_history'} /\ batch' = batch
           \/ /\ kind = "asks" /\ at' = "tools" /\ history_msgs' = chat_history'
              /\ \E n \in 1 .. MaxBatch : batch' = [s \in 1 .. n |-> "todo"]
  BY <1>2
<1> DEFINE m == Say(kind, 0)
           g == Append(chat_history, m)
<1>5. m \in Message /\ m.call = model_steps /\ m.kind = kind
  BY <1>1 DEF Say, Message
<1>6. chat_history \in Seq(Message) /\ InOrder(chat_history) /\ UpTo(chat_history, m.call - 1)
  BY <1>2, <1>5 DEF MessagesTypes, MessagesInv
<1> HIDE DEF m
<1>7. GoesOn(chat_history, g, m.call) /\ OnlySays(g, m)
  BY <1>5, <1>6, OneMoreSaid
<1> HIDE DEF g
<1>8. /\ g \in Seq(Message) /\ InOrder(g) /\ UpTo(g, m.call)
      /\ \A r : Tells(chat_history, r) => Tells(g, r)
      /\ \A i \in DOMAIN g : g[i].call = m.call => g[i] = m
  BY <1>7 DEF GoesOn, OnlySays
<1>9. chat_history' = g
  BY <1>3 DEF g, m
<1>10. batch' \in Seq({"todo", "running", "done"})
  <2>1. ASSUME NEW n \in 1 .. MaxBatch PROVE [s \in 1 .. n |-> "todo"] \in Seq({"todo", "running", "done"})
    <3>1. [s \in 1 .. n |-> "todo"] \in [1 .. n -> {"todo", "running", "done"}]
      OBVIOUS
    <3>2. QED BY <1>1, <3>1
  <2>2. CASE batch' = batch
    BY <2>2 DEF MessagesTypes
  <2>3. CASE \E n \in 1 .. MaxBatch : batch' = [s \in 1 .. n |-> "todo"]
    <3>1. PICK n \in 1 .. MaxBatch : batch' = [s \in 1 .. n |-> "todo"]
      BY <2>3
    <3>2. QED BY <2>1, <3>1, Zenon
  <2>4. QED BY <1>3, <2>2, <2>3
<1>11. MessagesTypes' /\ InOrder(history_msgs') /\ UpTo(history_msgs', model_steps')
  BY <1>2, <1>3, <1>5, <1>8, <1>9, <1>10 DEF MessagesTypes, MessagesInv
<1>12. ASSUME NEW r \in ran
       PROVE  /\ r.by <= candidate /\ r.call <= model_steps /\ r.call < model_steps
              /\ Tells(g, r) \/ OfLastReply(r)
              /\ Tells(history_msgs', r) \/ OfLastReply(r)
              /\ r.by = candidate => Tells(g, r)
  <2>1. r.by <= candidate /\ r.call < model_steps /\ (Tells(history_msgs, r) \/ OfLastReply(r))
    BY <1>2 DEF MessagesInv
  <2>2. (Tells(chat_history, r) \/ OfLastReply(r)) /\ (r.by = candidate => Tells(chat_history, r))
    BY <1>2 DEF MessagesInv
  <2>3. history_msgs' = history_msgs \/ history_msgs' = g
    BY <1>3, <1>9
  <2>4. Tells(history_msgs', r) \/ OfLastReply(r)
    BY <1>2, <1>8, <2>2, <2>3 DEF MessagesInv
  <2>5. r.call <= model_steps
    BY <1>1, <2>1
  <2>6. QED BY <1>8, <2>1, <2>2, <2>4, <2>5
<1>13. \A r : OfLastReply(r)' <=> OfLastReply(r)
  BY <1>2 DEF OfLastReply
<1>14. at' = "tools" => /\ history_msgs' = g /\ \A i \in DOMAIN g : g[i].call = model_steps => g[i].kind = "asks"
  BY <1>3, <1>5, <1>8, <1>9
<1>15. at' \notin {"round", "stream"}
  BY <1>3
<1>16. \A r \in ran : r.call # model_steps
  BY <1>1, <1>12
<1>17. QED BY <1>2, <1>5, <1>8, <1>9, <1>11, <1>12, <1>13, <1>14, <1>15, <1>16 DEF MessagesInv


\* A tool's body has run.
LEMMA OneMoreRan ==
  ASSUME VoiceInv, MessagesTypes, MessagesInv, NEW s \in DOMAIN batch, NEW state, ToolEnds(s, state)
  PROVE  MessagesTypes' /\ MessagesInv'
<1> DEFINE q == [by |-> candidate, call |-> model_steps, slot |-> s]
<1>1. /\ candidate \in Nat /\ model_steps \in Nat
      /\ \A r \in ran : r.by \in Nat /\ r.call \in Nat
      /\ s \in Nat
  BY DEF VoiceInv, MessagesTypes, Ran
<1>2. /\ at = "tools" /\ batch' = [batch EXCEPT ![s] = "done"] /\ ran' = ran \union {q}
      /\ UNCHANGED <<at, candidate, model_steps, history_msgs, chat_history>>
  BY DEF ToolEnds, walkVars, msgVars
<1>3. q \in Ran /\ q.by = candidate /\ q.call = model_steps /\ q.slot = s
  BY <1>1 DEF Ran
<1> HIDE DEF q
<1>4. batch' \in Seq({"todo", "running", "done"}) /\ DOMAIN batch' = DOMAIN batch
  BY <1>2 DEF MessagesTypes
<1>5. MessagesTypes'
  BY <1>2, <1>3, <1>4 DEF MessagesTypes
<1>6. /\ InOrder(history_msgs) /\ UpTo(history_msgs, model_steps) /\ history_msgs = chat_history
      /\ \A i \in DOMAIN chat_history : chat_history[i].call = model_steps => chat_history[i].kind = "asks"
  BY <1>2 DEF MessagesInv
<1>7. \A r \in ran : /\ r.by <= candidate /\ r.call <= model_steps
                     /\ Tells(chat_history, r) \/ OfLastReply(r)
                     /\ r.by = candidate => (r.call = model_steps \/ Tells(chat_history, r))
                     /\ r.call = model_steps => r.by = candidate /\ r.slot \in DOMAIN batch
  BY <1>2, <1>6 DEF MessagesInv
<1>8. \A r : r.call = model_steps => OfLastReply(r)'
  <2>1. \A r \in ran' : r.call <= model_steps
    BY <1>1, <1>2, <1>3, <1>7
  <2>2. QED BY <2>1 DEF OfLastReply
<1>9. ASSUME NEW r \in ran, r.by # candidate, OfLastReply(r) PROVE OfLastReply(r)'
  <2>1. \A t \in ran' : t.by = r.by => t \in ran
    BY <1>2, <1>3, <1>9
  <2>2. QED BY <1>9, <2>1 DEF OfLastReply
<1>10. ASSUME NEW r \in ran'
       PROVE  /\ r.by <= candidate /\ r.call <= model_steps
              /\ Tells(chat_history, r) \/ OfLastReply(r)'
              /\ r.by = candidate => (r.call = model_steps \/ Tells(chat_history, r))
              /\ r.call = model_steps => r.by = candidate /\ r.slot \in DOMAIN batch'
  <2>1. CASE r = q
    BY <1>1, <1>3, <1>4, <1>8, <2>1
  <2>2. CASE r \in ran
    BY <1>4, <1>7, <1>8, <1>9, <2>2
  <2>3. QED BY <1>2, <2>1, <2>2
<1>11. QED BY <1>2, <1>5, <1>6, <1>10 DEF MessagesInv

\* The results of a reply are read.
LEMMA ResultsNext ==
  ASSUME VoiceInv, MessagesTypes, MessagesInv, ResultsRead PROVE MessagesTypes' /\ MessagesInv'
<1> DEFINE n == Len(batch)
           f == Results(candidate, model_steps, n)
           g == chat_history \o f
<1>1. candidate \in Nat /\ model_steps \in Nat /\ n \in Nat /\ DOMAIN batch = 1 .. n
  BY LenProperties DEF VoiceInv, MessagesTypes
<1>2. /\ at = "tools" /\ at' = "round"
      /\ UNCHANGED <<candidate, model_steps, history_msgs, batch, ran>>
  BY DEF ResultsRead, rowVars
<1>3. chat_history' = g
  <2>1. [s \in DOMAIN batch |-> Say("result", s)] = f
    BY <1>1 DEF Results, Say
  <2>2. QED BY <2>1, Zenon DEF ResultsRead
<1>4. /\ chat_history \in Seq(Message) /\ InOrder(chat_history) /\ UpTo(chat_history, model_steps)
      /\ \A i \in DOMAIN chat_history : chat_history[i].call = model_steps => chat_history[i].kind = "asks"
  BY <1>2 DEF MessagesTypes, MessagesInv
<1> HIDE DEF n
<1>5. GoesOn(chat_history, g, model_steps) /\ TellsAll(g, candidate, model_steps, n)
  BY <1>1, <1>4, ResultsSaid
<1> HIDE DEF g
<1>6. MessagesTypes' /\ InOrder(g) /\ UpTo(g, model_steps) /\ InOrder(history_msgs) /\ UpTo(history_msgs, model_steps)
  BY <1>2, <1>3, <1>5 DEF MessagesTypes, MessagesInv, GoesOn
<1>7. ASSUME NEW r \in ran
      PROVE  /\ r.by <= candidate /\ r.call <= model_steps
             /\ Tells(history_msgs, r) \/ OfLastReply(r)
             /\ Tells(g, r) \/ OfLastReply(r)
             /\ r.by = candidate => Tells(g, r)
  <2>1. /\ r.by <= candidate /\ r.call <= model_steps
        /\ Tells(history_msgs, r) \/ OfLastReply(r)
        /\ Tells(chat_history, r) \/ OfLastReply(r)
        /\ r.by = candidate => (r.call = model_steps \/ Tells(chat_history, r))
        /\ r.call = model_steps => r.by = candidate /\ r.slot \in 1 .. n
    BY <1>1, <1>2 DEF MessagesInv
  <2>2. Tells(chat_history, r) => Tells(g, r)
    BY <1>5 DEF GoesOn
  <2>3. r.by = candidate /\ r.call = model_steps /\ r.slot \in 1 .. n => Tells(g, r)
    BY <1>5 DEF TellsAll
  <2>4. QED BY <2>1, <2>2, <2>3
<1>8. \A r : OfLastReply(r)' <=> OfLastReply(r)
  BY <1>2 DEF OfLastReply
<1>9. QED BY <1>2, <1>3, <1>6, <1>7, <1>8 DEF MessagesInv

LEMMA MessagesStep ==
  VoiceInv /\ MessagesTypes /\ MessagesInv /\ [TranscriptNext]_transcriptVars => MessagesTypes' /\ MessagesInv'
<1> SUFFICES ASSUME VoiceInv, MessagesTypes, MessagesInv, [TranscriptNext]_transcriptVars
             PROVE  MessagesTypes' /\ MessagesInv'
  OBVIOUS
<1>1. CASE \/ Refused \/ Begins \/ WalkIsOver \/ Leaves \/ Streams \/ ModelFails \/ ConnectionFails \/ Stops \/ TaskCancelled
           \/ UNCHANGED transcriptVars
  <2>1. /\ UNCHANGED <<history_msgs, chat_history, ran, model_steps, batch, candidate>>
        /\ at' \in {at, "walk", "over"}
    BY <1>1 DEF Refused, Begins, WalkIsOver, Leaves, Streams, ModelFails, ConnectionFails, Stops, TaskCancelled, Ends,
                transcriptVars, walkVars, msgVars, rowVars
  <2>2. QED BY <2>1, MessagesStay DEF MessagesTypes
<1>2. ASSUME NEW s \in DOMAIN batch, ToolStarts(s) PROVE MessagesTypes' /\ MessagesInv'
  <2>1. UNCHANGED <<history_msgs, chat_history, ran, model_steps, candidate, at>> /\ batch' = [batch EXCEPT ![s] = "running"]
    BY <1>2 DEF ToolStarts, walkVars, msgVars
  <2>2. batch' \in Seq({"todo", "running", "done"}) /\ DOMAIN batch' = DOMAIN batch
    BY <2>1 DEF MessagesTypes
  <2>3. QED BY <2>1, <2>2, MessagesStay
<1>3. QED BY <1>1, <1>2, CallsNext, RepliesEnd, OneMoreRan, ResultsNext DEF TranscriptNext

(* Transcript: the rows of the bubble *)

Row == [id : Nat, call : Nat, slot : Nat, state : {"running", "done", "error"}]
IdOf(k, s) == k * (MaxBatch + 1) + s

RowsTypes == steps_rows \in Seq(Row) /\ Len(batch) <= MaxBatch

OneRowEach == \A i, j \in DOMAIN steps_rows :
  steps_rows[i].call = steps_rows[j].call /\ steps_rows[i].slot = steps_rows[j].slot => i = j

\* Of a call that was let in, under its own id or none; it runs while its tool does.
RowIsTrue(row) ==
  /\ row.call \in 1 .. model_steps /\ row.slot \in 1 .. MaxBatch
  /\ row.id \in {0, IdOf(row.call, row.slot)}
  /\ at = "stream" => row.call < model_steps
  /\ at = "tools" /\ row.call = model_steps => row.slot \in DOMAIN batch /\ batch[row.slot] # "todo"
  /\ row.state = "running" => /\ at = "tools" /\ row.call = model_steps
                              /\ row.slot \in DOMAIN batch /\ batch[row.slot] = "running"

RowOfRunning(i, s) ==
  /\ steps_rows[i].call = model_steps /\ steps_rows[i].slot = s
  /\ steps_rows[i].state = "running" /\ steps_rows[i].id = tool_call_id(s)
\* A tool that runs has its row; those before one that was let in are done.
LetIn(s) ==
  /\ batch[s] = "running" => \E i \in DOMAIN steps_rows : RowOfRunning(i, s)
  /\ batch[s] # "todo" => \A r \in DOMAIN batch : r < s => batch[r] = "done"

RowOfRan(i, r) == steps_rows[i].call = r.call /\ steps_rows[i].slot = r.slot /\ steps_rows[i].state # "running"

RowsInv ==
  /\ OneRowEach
  /\ \A i \in DOMAIN steps_rows : RowIsTrue(steps_rows[i])
  /\ at \in {"stream", "tools"} => model_steps >= 1
  /\ at = "tools" => \A s \in DOMAIN batch : LetIn(s)
  /\ \A r \in ran : \E i \in DOMAIN steps_rows : RowOfRan(i, r)

\* Two calls have two ids, none of them 0.
LEMMA IdsDiffer ==
  ASSUME NEW k \in Nat, NEW c \in 1 .. k, NEW s \in 1 .. MaxBatch, NEW t \in 1 .. MaxBatch, IdOf(c, t) = IdOf(k, s)
  PROVE  c = k /\ t = s
<1>1. MaxBatch \in Nat
  BY TranscriptAssumption
<1>2. PICK d \in Nat : k = c + d
  <2>1. k - c \in Nat /\ k = c + (k - c)
    OBVIOUS
  <2>2. QED BY <2>1
<1>3. k * (MaxBatch + 1) = c * (MaxBatch + 1) + d * (MaxBatch + 1)
  BY <1>1, <1>2
<1>4. CASE d = 0
  BY <1>1, <1>2, <1>3, <1>4 DEF IdOf
<1>5. CASE d >= 1
  <2>1. d * (MaxBatch + 1) >= MaxBatch + 1
    <3>1. PICK e \in Nat : d = e + 1
      <4>1. d - 1 \in Nat /\ d = (d - 1) + 1
        BY <1>5
      <4>2. QED BY <4>1
    <3>2. e * (MaxBatch + 1) >= 0
      BY <1>1
    <3>3. d * (MaxBatch + 1) = e * (MaxBatch + 1) + (MaxBatch + 1)
      BY <1>1, <3>1
    <3>4. QED BY <1>1, <3>2, <3>3
  <2>2. c * (MaxBatch + 1) \in Nat /\ d * (MaxBatch + 1) \in Nat
    BY <1>1
  <2>3. c * (MaxBatch + 1) + t = c * (MaxBatch + 1) + d * (MaxBatch + 1) + s
    BY <1>3 DEF IdOf
  <2>4. QED BY <1>1, <2>1, <2>2, <2>3
<1>6. QED BY <1>4, <1>5

LEMMA IdsAreIds == \A k \in Nat \ {0}, s \in 1 .. MaxBatch : IdOf(k, s) \in Nat /\ IdOf(k, s) # 0
<1> SUFFICES ASSUME NEW k \in Nat \ {0}, NEW s \in 1 .. MaxBatch PROVE IdOf(k, s) \in Nat /\ IdOf(k, s) # 0
  OBVIOUS
<1>1. MaxBatch \in Nat /\ k * (MaxBatch + 1) \in Nat
  BY TranscriptAssumption
<1>2. QED BY <1>1 DEF IdOf

LEMMA RowsInitially == TranscriptInit => RowsTypes /\ RowsInv
  BY TranscriptAssumption DEF TranscriptInit, RowsTypes, RowsInv, OneRowEach

\* Where no row changes, and no tool runs when the tools are left.
LEMMA RowsStay ==
  ASSUME VoiceInv, MessagesTypes, RowsTypes, RowsInv, UNCHANGED <<steps_rows, batch, ran, model_steps>>,
         \/ at' = at /\ candidate' = candidate
         \/ at' \notin {"stream", "tools"} /\ (at = "tools" => \A s \in DOMAIN batch : batch[s] = "done")
  PROVE  RowsTypes' /\ RowsInv'
<1>1. RowsTypes' /\ OneRowEach'
  BY DEF RowsTypes, RowsInv, OneRowEach
<1>2. \A i, r : RowOfRan(i, r)' <=> RowOfRan(i, r)
  BY DEF RowOfRan
<1>3. CASE at' = at /\ candidate' = candidate
  <2>1. \A s : tool_call_id(s)' = tool_call_id(s)
    BY <1>3 DEF tool_call_id
  <2>2. \A s : LetIn(s)' <=> LetIn(s)
    BY <2>1 DEF LetIn, RowOfRunning
  <2>3. \A i : RowIsTrue(steps_rows[i])' <=> RowIsTrue(steps_rows[i])
    BY <1>3 DEF RowIsTrue
  <2>4. QED BY <1>1, <1>2, <1>3, <2>2, <2>3 DEF RowsInv
<1>4. CASE at' \notin {"stream", "tools"} /\ (at = "tools" => \A s \in DOMAIN batch : batch[s] = "done")
  <2>1. ASSUME NEW i \in DOMAIN steps_rows PROVE RowIsTrue(steps_rows[i])'
    <3>1. RowIsTrue(steps_rows[i])
      BY DEF RowsInv
    <3>2. steps_rows[i].state # "running"
      BY <1>4, <3>1 DEF RowIsTrue
    <3>3. QED BY <1>4, <3>1, <3>2 DEF RowIsTrue
  <2>2. QED BY <1>1, <1>2, <1>4, <2>1 DEF RowsInv
<1>5. QED BY <1>3, <1>4

\* The turn ends: the rows that run are closed.
LEMMA RowsEnd ==
  ASSUME VoiceInv, MessagesTypes, RowsTypes, RowsInv, UNCHANGED <<batch, ran, model_steps>>, at' = "over",
         NEW state \in {"done", "error"},
         steps_rows' = [i \in DOMAIN steps_rows |->
           IF steps_rows[i].state = "running" THEN [steps_rows[i] EXCEPT !.state = state] ELSE steps_rows[i]]
  PROVE  RowsTypes' /\ RowsInv'
<1> DEFINE S == DOMAIN steps_rows
<1>1. S = 1 .. Len(steps_rows) /\ Len(steps_rows) \in Nat /\ \A i \in S : steps_rows[i] \in Row
  BY LenProperties DEF RowsTypes
<1>2. ASSUME NEW i \in S
      PROVE  /\ steps_rows'[i] \in Row
             /\ steps_rows'[i].call = steps_rows[i].call /\ steps_rows'[i].slot = steps_rows[i].slot
             /\ steps_rows'[i].id = steps_rows[i].id /\ steps_rows'[i].state # "running"
  <2>1. PICK row : row = steps_rows[i]
    OBVIOUS
  <2>2. row \in Row
    BY <1>1, <2>1
  <2>3. steps_rows'[i] = IF row.state = "running" THEN [row EXCEPT !.state = state] ELSE row
    BY <2>1
  <2>4. /\ [row EXCEPT !.state = state] \in Row /\ [row EXCEPT !.state = state].call = row.call
        /\ [row EXCEPT !.state = state].slot = row.slot /\ [row EXCEPT !.state = state].id = row.id
        /\ [row EXCEPT !.state = state].state = state
    BY <2>2 DEF Row
  <2>5. QED BY <2>1, <2>2, <2>3, <2>4
<1>3. DOMAIN steps_rows' = S /\ steps_rows' \in Seq(Row)
  <2>1. DOMAIN steps_rows' = S /\ steps_rows' = [i \in S |-> steps_rows'[i]]
    OBVIOUS
  <2>2. steps_rows' \in [1 .. Len(steps_rows) -> Row]
    BY <1>1, <1>2, <2>1
  <2>3. QED BY <1>1, <2>1, <2>2
<1>4. RowsTypes'
  BY <1>3 DEF RowsTypes
<1>5. OneRowEach'
  BY <1>2, <1>3 DEF RowsInv, OneRowEach
<1>6. ASSUME NEW i \in S PROVE RowIsTrue(steps_rows[i])'
  <2>1. RowIsTrue(steps_rows[i])
    BY DEF RowsInv
  <2>2. QED BY <1>2, <2>1 DEF RowIsTrue
<1>7. ASSUME NEW r \in ran PROVE \E i \in S : RowOfRan(i, r)'
  <2>1. PICK i \in S : RowOfRan(i, r)
    BY DEF RowsInv
  <2>2. QED BY <1>2, <2>1 DEF RowOfRan
<1>8. QED BY <1>3, <1>4, <1>5, <1>6, <1>7 DEF RowsInv

\* A call is made, or its reply asks for tools.
LEMMA RowsCall ==
  ASSUME VoiceInv, MessagesTypes, RowsTypes, RowsInv, Calls \/ \E n \in 1 .. MaxBatch : AsksTools(n)
  PROVE  RowsTypes' /\ RowsInv'
<1>1. MaxBatch \in Nat /\ model_steps \in Nat
  BY TranscriptAssumption DEF VoiceInv
<1>2. \A i \in DOMAIN steps_rows : steps_rows[i].call \in Nat
  <2>1. \A i \in DOMAIN steps_rows : steps_rows[i] \in Row
    BY DEF RowsTypes
  <2>2. QED BY <2>1 DEF Row
<1>3. CASE Calls
  <2>1. /\ at = "round" /\ at' = "stream" /\ model_steps' = model_steps + 1 /\ UNCHANGED <<steps_rows, batch, ran>>
    BY <1>3 DEF Calls, rowVars
  <2>2. RowsTypes' /\ OneRowEach'
    BY <2>1 DEF RowsTypes, RowsInv, OneRowEach
  <2>3. \A i, r : RowOfRan(i, r)' <=> RowOfRan(i, r)
    BY <2>1 DEF RowOfRan
  <2>4. ASSUME NEW i \in DOMAIN steps_rows PROVE RowIsTrue(steps_rows[i])'
    <3>1. RowIsTrue(steps_rows[i])
      BY DEF RowsInv
    <3>2. steps_rows[i].call \in 1 .. model_steps' /\ steps_rows[i].call < model_steps'
      BY <1>1, <1>2, <2>1, <3>1 DEF RowIsTrue
    <3>3. QED BY <2>1, <3>1, <3>2 DEF RowIsTrue, IdOf
  <2>5. QED BY <1>1, <2>1, <2>2, <2>3, <2>4 DEF RowsInv
<1>4. ASSUME NEW n \in 1 .. MaxBatch, AsksTools(n) PROVE RowsTypes' /\ RowsInv'
  <2>1. /\ at = "stream" /\ at' = "tools" /\ batch' = [s \in 1 .. n |-> "todo"]
        /\ UNCHANGED <<steps_rows, ran, model_steps>>
    BY <1>4 DEF AsksTools
  <2>2. n \in Nat /\ n <= MaxBatch /\ DOMAIN batch' = 1 .. n /\ Len(batch') = n /\ \A s \in 1 .. n : batch'[s] = "todo"
    <3>1. n \in Nat /\ n <= MaxBatch
      BY <1>1
    <3>2. DOMAIN batch' = 1 .. n /\ \A s \in 1 .. n : batch'[s] = "todo"
      BY <2>1
    <3>3. Len([s \in 1 .. n |-> "todo"]) = n
      BY <3>1
    <3>4. QED BY <2>1, <3>1, <3>2, <3>3
  <2>3. RowsTypes' /\ OneRowEach'
    BY <2>1, <2>2 DEF RowsTypes, RowsInv, OneRowEach
  <2>4. \A i, r : RowOfRan(i, r)' <=> RowOfRan(i, r)
    BY <2>1 DEF RowOfRan
  <2>5. ASSUME NEW i \in DOMAIN steps_rows PROVE RowIsTrue(steps_rows[i])'
    <3>1. RowIsTrue(steps_rows[i])
      BY DEF RowsInv
    <3>2. steps_rows[i].call # model_steps
      BY <1>1, <1>2, <2>1, <3>1 DEF RowIsTrue
    <3>3. QED BY <2>1, <3>1, <3>2 DEF RowIsTrue
  <2>6. \A s \in DOMAIN batch' : LetIn(s)'
    BY <2>2 DEF LetIn
  <2>7. QED BY <2>1, <2>3, <2>4, <2>5, <2>6 DEF RowsInv
<1>5. QED BY <1>3, <1>4

\* A tool is let in: its row opens.
LEMMA OneMoreRow ==
  ASSUME VoiceInv, MessagesTypes, RowsTypes, RowsInv, NEW s \in DOMAIN batch, ToolStarts(s)
  PROVE  RowsTypes' /\ RowsInv'
<1> DEFINE D == DOMAIN steps_rows
<1> PICK new : new = [id |-> tool_call_id(s), call |-> model_steps, slot |-> s, state |-> "running"]
  OBVIOUS
<1> PICK n : n = Len(steps_rows)
  OBVIOUS
<1>1. /\ at = "tools" /\ batch[s] = "todo" /\ \A r \in DOMAIN batch : r < s => batch[r] = "done"
      /\ batch' = [batch EXCEPT ![s] = "running"] /\ steps_rows' = Append(steps_rows, new)
      /\ UNCHANGED <<at, candidate, model_steps, ran>>
  BY DEF ToolStarts, walkVars
<1>2. MaxBatch \in Nat /\ model_steps \in Nat /\ model_steps >= 1 /\ s \in 1 .. MaxBatch /\ DOMAIN batch = 1 .. Len(batch)
  <2>1. DOMAIN batch = 1 .. Len(batch) /\ Len(batch) \in Nat
    BY LenProperties DEF MessagesTypes
  <2>2. QED BY <1>1, <2>1, TranscriptAssumption DEF VoiceInv, RowsTypes, RowsInv
<1>3. tool_call_id(s) \in Nat /\ tool_call_id(s) \in {0, IdOf(model_steps, s)}
  BY <1>2, IdsAreIds DEF tool_call_id, IdOf
<1>4. new \in Row /\ new.id = tool_call_id(s) /\ new.call = model_steps /\ new.slot = s /\ new.state = "running"
  BY <1>2, <1>3 DEF Row
<1>5. /\ steps_rows' \in Seq(Row) /\ DOMAIN steps_rows' = 1 .. n + 1 /\ D = 1 .. n /\ n \in Nat
      /\ \A i \in D : steps_rows'[i] = steps_rows[i]
      /\ steps_rows'[n + 1] = new
  <2>1. steps_rows \in Seq(Row)
    BY DEF RowsTypes
  <2>2. QED BY <1>1, <1>4, <2>1, AppendProperties, LenProperties
<1>6. /\ DOMAIN batch' = DOMAIN batch /\ batch'[s] = "running" /\ Len(batch') = Len(batch)
      /\ \A t \in DOMAIN batch : t # s => batch'[t] = batch[t]
  BY <1>1 DEF MessagesTypes
<1>7. RowsTypes'
  BY <1>5, <1>6 DEF RowsTypes
<1>8. \A i \in DOMAIN steps_rows' : (i \in D /\ steps_rows'[i] = steps_rows[i]) \/ (i = n + 1 /\ steps_rows'[i] = new)
  BY <1>5
<1>9. \A i \in D : i \in DOMAIN steps_rows' /\ i # n + 1
  BY <1>5
<1>10. \A i \in D : ~(steps_rows[i].call = model_steps /\ steps_rows[i].slot = s)
  BY <1>1 DEF RowsInv, RowIsTrue
<1>11. OneRowEach'
  <2>1. ASSUME NEW i \in DOMAIN steps_rows', NEW j \in DOMAIN steps_rows',
               steps_rows'[i].call = steps_rows'[j].call, steps_rows'[i].slot = steps_rows'[j].slot
        PROVE  i = j
    <3>1. CASE i \in D /\ j \in D
      <4>1. steps_rows[i].call = steps_rows[j].call /\ steps_rows[i].slot = steps_rows[j].slot
        BY <1>5, <2>1, <3>1
      <4>2. QED BY <3>1, <4>1 DEF RowsInv, OneRowEach
    <3>2. CASE i \notin D \/ j \notin D
      BY <1>4, <1>8, <1>10, <2>1, <3>2
    <3>3. QED BY <3>1, <3>2
  <2>2. QED BY <2>1 DEF OneRowEach
<1>12. ASSUME NEW i \in D PROVE RowIsTrue(steps_rows[i])' /\ steps_rows'[i] = steps_rows[i]
  <2>1. RowIsTrue(steps_rows[i]) /\ ~(steps_rows[i].call = model_steps /\ steps_rows[i].slot = s)
    BY <1>10 DEF RowsInv
  <2>2. QED BY <1>1, <1>5, <1>6, <2>1 DEF RowIsTrue, IdOf
<1>13. RowIsTrue(new)'
  BY <1>1, <1>2, <1>3, <1>4, <1>6 DEF RowIsTrue
<1>14. \A i \in DOMAIN steps_rows' : RowIsTrue(steps_rows[i])'
  BY <1>8, <1>12, <1>13
<1>15. ASSUME NEW t \in DOMAIN batch PROVE LetIn(t)'
  <2>1. \A u : tool_call_id(u)' = tool_call_id(u)
    BY <1>1 DEF tool_call_id
  <2>2. \A u \in DOMAIN batch : u < s => batch'[u] = "done"
    BY <1>1, <1>2, <1>6
  <2>3. LetIn(t)
    BY <1>1 DEF RowsInv
  <2>4. CASE t = s
    <3>1. RowOfRunning(n + 1, s)' /\ n + 1 \in DOMAIN steps_rows'
      BY <1>1, <1>4, <1>5, <2>1 DEF RowOfRunning
    <3>2. QED BY <1>6, <2>2, <2>4, <3>1 DEF LetIn
  <2>5. CASE t # s
    <3>1. batch'[t] = batch[t]
      BY <1>6, <2>5
    <3>2. ASSUME batch[t] = "running" PROVE \E i \in DOMAIN steps_rows' : RowOfRunning(i, t)'
      <4>1. PICK i \in D : RowOfRunning(i, t)
        BY <2>3, <3>2 DEF LetIn
      <4>2. QED BY <1>1, <1>5, <1>9, <2>1, <4>1 DEF RowOfRunning
    <3>3. ASSUME batch[t] # "todo", NEW r \in DOMAIN batch, r < t PROVE batch'[r] = "done"
      <4>1. batch[r] = "done"
        BY <2>3, <3>3 DEF LetIn
      <4>2. r # s
        BY <1>1, <4>1
      <4>3. QED BY <1>6, <4>1, <4>2
    <3>4. QED BY <1>6, <3>1, <3>2, <3>3 DEF LetIn
  <2>6. QED BY <2>4, <2>5
<1>16. ASSUME NEW r \in ran PROVE \E i \in DOMAIN steps_rows' : RowOfRan(i, r)'
  <2>1. PICK i \in D : RowOfRan(i, r)
    BY DEF RowsInv
  <2>2. QED BY <1>5, <1>9, <2>1 DEF RowOfRan
<1>17. QED BY <1>1, <1>2, <1>6, <1>7, <1>11, <1>14, <1>15, <1>16 DEF RowsInv

\* The event of a tool that ends finds the row of that tool.
LEMMA ItsRow ==
  ASSUME VoiceInv, MessagesTypes, RowsTypes, RowsInv, at = "tools", NEW s \in DOMAIN batch, batch[s] = "running"
  PROVE  \E i \in DOMAIN steps_rows :
           /\ RowOf(tool_call_id(s)) = i /\ RowOfRunning(i, s)
           /\ \A j \in DOMAIN steps_rows : steps_rows[j].state = "running" => j = i
<1> DEFINE D == DOMAIN steps_rows
<1>1. MaxBatch \in Nat /\ model_steps \in Nat /\ model_steps >= 1 /\ s \in 1 .. MaxBatch /\ DOMAIN batch = 1 .. Len(batch)
      /\ Len(batch) \in Nat
  <2>1. DOMAIN batch = 1 .. Len(batch) /\ Len(batch) \in Nat
    BY LenProperties DEF MessagesTypes
  <2>2. QED BY <2>1, TranscriptAssumption DEF VoiceInv, RowsTypes, RowsInv
<1>2. PICK i \in D : RowOfRunning(i, s)
  BY DEF RowsInv, LetIn
<1>3. \A t \in DOMAIN batch : batch[t] = "running" => t = s
  <2>1. SUFFICES ASSUME NEW t \in DOMAIN batch, batch[t] = "running", t # s PROVE FALSE
    OBVIOUS
  <2>2. t < s \/ s < t
    BY <1>1, <2>1
  <2>3. LetIn(t) /\ LetIn(s)
    BY DEF RowsInv
  <2>4. (t < s => batch[t] = "done") /\ (s < t => batch[s] = "done")
    BY <2>1, <2>3 DEF LetIn
  <2>5. QED BY <2>1, <2>2, <2>4
<1>4. \A j \in D : RowIsTrue(steps_rows[j])
  BY DEF RowsInv
<1>5. ASSUME NEW j \in D, steps_rows[j].call = model_steps, steps_rows[j].slot = s PROVE j = i
  BY <1>2, <1>5 DEF RowsInv, OneRowEach, RowOfRunning
<1>6. ASSUME NEW j \in D, steps_rows[j].state = "running" PROVE j = i
  <2>1. steps_rows[j].call = model_steps /\ steps_rows[j].slot \in DOMAIN batch /\ batch[steps_rows[j].slot] = "running"
    BY <1>4, <1>6 DEF RowIsTrue
  <2>2. steps_rows[j].slot = s
    BY <1>3, <2>1
  <2>3. QED BY <1>5, <2>1, <2>2
<1>7. ASSUME NEW j \in D, steps_rows[j].id = tool_call_id(s), tool_call_id(s) # 0 PROVE j = i
  <2>1. tool_call_id(s) = IdOf(model_steps, s)
    BY <1>7 DEF tool_call_id, IdOf
  <2>2. /\ steps_rows[j].call \in 1 .. model_steps /\ steps_rows[j].slot \in 1 .. MaxBatch
        /\ steps_rows[j].id \in {0, IdOf(steps_rows[j].call, steps_rows[j].slot)}
    BY <1>4 DEF RowIsTrue
  <2>3. IdOf(steps_rows[j].call, steps_rows[j].slot) = IdOf(model_steps, s)
    BY <1>7, <2>1, <2>2
  <2>4. steps_rows[j].call = model_steps /\ steps_rows[j].slot = s
    BY <1>1, <2>2, <2>3, IdsDiffer
  <2>5. QED BY <1>5, <2>4
<1>8. {j \in D : IF tool_call_id(s) = 0 THEN steps_rows[j].state = "running" ELSE steps_rows[j].id = tool_call_id(s)} = {i}
  BY <1>2, <1>6, <1>7 DEF RowOfRunning
<1>9. RowOf(tool_call_id(s)) = i
  <2>1. D = 1 .. Len(steps_rows) /\ Len(steps_rows) \in Nat
    BY LenProperties DEF RowsTypes
  <2>2. i <= i
    BY <2>1
  <2>3. (CHOOSE j \in {i} : \A k \in {i} : j <= k) = i
    BY <2>2
  <2>4. {i} # {}
    OBVIOUS
  <2>5. QED BY <1>8, <2>3, <2>4, Zenon DEF RowOf
<1>10. QED BY <1>2, <1>6, <1>9

\* A tool is done: its row closes.
LEMMA RowCloses ==
  ASSUME VoiceInv, MessagesTypes, RowsTypes, RowsInv, NEW s \in DOMAIN batch, NEW state \in {"done", "error"},
         ToolEnds(s, state)
  PROVE  RowsTypes' /\ RowsInv'
<1> DEFINE D == DOMAIN steps_rows
<1> PICK q : q = [by |-> candidate, call |-> model_steps, slot |-> s]
  OBVIOUS
<1>1. /\ at = "tools" /\ batch[s] = "running" /\ batch' = [batch EXCEPT ![s] = "done"] /\ ran' = ran \union {q}
      /\ UNCHANGED <<at, candidate, model_steps>>
  BY DEF ToolEnds, walkVars
<1>2. PICK i \in D :
        /\ RowOf(tool_call_id(s)) = i /\ RowOfRunning(i, s)
        /\ \A j \in D : steps_rows[j].state = "running" => j = i
  BY <1>1, ItsRow
<1>3. D = 1 .. Len(steps_rows) /\ Len(steps_rows) \in Nat /\ \A j \in D : steps_rows[j] \in Row
  BY LenProperties DEF RowsTypes
<1>4. steps_rows' = [steps_rows EXCEPT ![i].state = state]
  <2>1. i # 0
    BY <1>3
  <2>2. QED BY <1>2, <2>1, Zenon DEF ToolEnds
<1>5. DOMAIN steps_rows' = D /\ \A j \in D : j # i => steps_rows'[j] = steps_rows[j]
  BY <1>4
<1>6. /\ steps_rows'[i] \in Row /\ steps_rows'[i].state = state
      /\ steps_rows'[i].call = steps_rows[i].call /\ steps_rows'[i].slot = steps_rows[i].slot
      /\ steps_rows'[i].id = steps_rows[i].id
  <2>1. PICK row : row = steps_rows[i]
    OBVIOUS
  <2>2. row \in Row
    BY <1>3, <2>1
  <2>3. steps_rows'[i] = [row EXCEPT !.state = state]
    BY <1>4, <2>1
  <2>4. /\ [row EXCEPT !.state = state] \in Row /\ [row EXCEPT !.state = state].call = row.call
        /\ [row EXCEPT !.state = state].slot = row.slot /\ [row EXCEPT !.state = state].id = row.id
        /\ [row EXCEPT !.state = state].state = state
    BY <2>2 DEF Row
  <2>5. QED BY <2>1, <2>3, <2>4
<1>7. steps_rows' \in Seq(Row)
  <2>1. \A j \in D : steps_rows'[j] \in Row
    BY <1>3, <1>5, <1>6
  <2>2. steps_rows' = [j \in D |-> steps_rows'[j]]
    BY <1>4
  <2>3. steps_rows' \in [1 .. Len(steps_rows) -> Row]
    BY <1>3, <2>1, <2>2
  <2>4. QED BY <1>3, <2>3
<1>8. /\ DOMAIN batch' = DOMAIN batch /\ Len(batch') = Len(batch) /\ batch'[s] = "done"
      /\ \A t \in DOMAIN batch : t # s => batch'[t] = batch[t]
  BY <1>1 DEF MessagesTypes
<1>9. RowsTypes'
  BY <1>7, <1>8 DEF RowsTypes
<1>10. \A j \in D : steps_rows'[j].call = steps_rows[j].call /\ steps_rows'[j].slot = steps_rows[j].slot
                    /\ steps_rows'[j].id = steps_rows[j].id /\ steps_rows'[j].state # "running"
  BY <1>2, <1>5, <1>6
<1>11. OneRowEach'
  BY <1>5, <1>10 DEF RowsInv, OneRowEach
<1>12. ASSUME NEW j \in D PROVE RowIsTrue(steps_rows[j])'
  <2>1. RowIsTrue(steps_rows[j])
    BY DEF RowsInv
  <2>2. \A t \in DOMAIN batch : batch[t] # "todo" => batch'[t] # "todo"
    BY <1>8
  <2>3. QED BY <1>1, <1>8, <1>10, <2>1, <2>2 DEF RowIsTrue, IdOf
<1>13. ASSUME NEW t \in DOMAIN batch PROVE LetIn(t)'
  <2>1. LetIn(t) /\ LetIn(s)
    BY <1>1 DEF RowsInv
  <2>2. batch'[t] # "running"
    <3>1. SUFFICES ASSUME batch[t] = "running", t # s PROVE FALSE
      BY <1>8
    <3>2. \A u \in DOMAIN batch : u \in Nat
      BY LenProperties DEF MessagesTypes
    <3>3. t < s \/ s < t
      BY <3>1, <3>2
    <3>4. QED BY <1>1, <2>1, <3>1, <3>3 DEF LetIn
  <2>3. ASSUME batch'[t] # "todo", NEW r \in DOMAIN batch, r < t PROVE batch'[r] = "done"
    <3>1. batch[t] # "todo"
      BY <1>1, <1>8, <2>3
    <3>2. batch[r] = "done"
      BY <2>1, <2>3, <3>1 DEF LetIn
    <3>3. QED BY <1>8, <3>2
  <2>4. QED BY <1>8, <2>2, <2>3 DEF LetIn
<1>14. ASSUME NEW r \in ran' PROVE \E j \in D : RowOfRan(j, r)'
  <2>1. CASE r \in ran
    <3>1. PICK j \in D : RowOfRan(j, r)
      BY <2>1 DEF RowsInv
    <3>2. QED BY <1>10, <3>1 DEF RowOfRan
  <2>2. CASE r = q
    <3>1. q.call = model_steps /\ q.slot = s
      OBVIOUS
    <3>2. QED BY <1>2, <1>10, <2>2, <3>1 DEF RowOfRan, RowOfRunning
  <2>3. QED BY <1>1, <2>1, <2>2
<1>15. QED BY <1>1, <1>5, <1>8, <1>9, <1>11, <1>12, <1>13, <1>14 DEF RowsInv

LEMMA RowsStep ==
  VoiceInv /\ MessagesTypes /\ RowsTypes /\ RowsInv /\ [TranscriptNext]_transcriptVars => RowsTypes' /\ RowsInv'
<1> SUFFICES ASSUME VoiceInv, MessagesTypes, RowsTypes, RowsInv, [TranscriptNext]_transcriptVars
             PROVE  RowsTypes' /\ RowsInv'
  OBVIOUS
<1>1. ASSUME NEW event, NEW said, Ends(event, said), UNCHANGED <<batch, ran, model_steps>> PROVE RowsTypes' /\ RowsInv'
  <2>1. /\ at' = "over"
        /\ steps_rows' = [i \in DOMAIN steps_rows |->
             IF steps_rows[i].state = "running" THEN [steps_rows[i] EXCEPT !.state = "error"] ELSE steps_rows[i]]
    BY <1>1 DEF Ends
  <2>2. QED BY <1>1, <2>1, RowsEnd
<1>2. CASE Begins \/ Tries \/ Leaves \/ Streams \/ ModelFails \/ ResultsRead \/ Stops \/ UNCHANGED transcriptVars
  <2>1. /\ UNCHANGED <<steps_rows, batch, ran, model_steps>>
        /\ \/ at' = at /\ candidate' = candidate
           \/ at' \notin {"stream", "tools"} /\ (at = "tools" => \A s \in DOMAIN batch : batch[s] = "done")
    BY <1>2 DEF Begins, Tries, Leaves, Streams, ModelFails, ResultsRead, Stops, transcriptVars, walkVars, rowVars
  <2>2. QED BY <2>1, RowsStay
<1>3. CASE Refused
  <2>1. UNCHANGED <<batch, ran, model_steps>> /\ \E event \in {"credits", "error"} : Ends(event, {})
    BY <1>3 DEF Refused
  <2>2. QED BY <1>1, <2>1
<1>4. CASE WalkIsOver
  <2>1. /\ UNCHANGED <<batch, ran, model_steps>>
        /\ Ends("stopped", collected) \/ Ends("final", collected) \/ Ends("final", {-1}) \/ Ends("error", {})
    BY <1>4 DEF WalkIsOver
  <2>2. QED BY <1>1, <2>1
<1>5. CASE Answers
  <2>1. UNCHANGED <<batch, ran, model_steps>> /\ at = "stream"
    BY <1>5 DEF Answers
  <2>2. CASE Ends("final", collected)
    BY <1>1, <2>1, <2>2
  <2>3. CASE at' = "walk" /\ UNCHANGED steps_rows
    BY <2>1, <2>3, RowsStay
  <2>4. QED BY <1>5, <2>2, <2>3 DEF Answers
<1>6. CASE ConnectionFails
  <2>1. UNCHANGED <<batch, ran, model_steps>> /\ (Ends("final", collected) \/ Ends("error", {}))
    BY <1>6 DEF ConnectionFails
  <2>2. QED BY <1>1, <2>1
<1>7. CASE TaskCancelled
  <2>1. UNCHANGED <<batch, ran, model_steps>> /\ at' = "over"
    BY <1>7 DEF TaskCancelled
  <2>2. steps_rows' = [i \in DOMAIN steps_rows |->
          IF steps_rows[i].state = "running" THEN [steps_rows[i] EXCEPT !.state = "done"] ELSE steps_rows[i]]
    BY <1>7 DEF TaskCancelled
  <2>3. QED BY <2>1, <2>2, RowsEnd
<1>8. QED BY <1>2, <1>3, <1>4, <1>5, <1>6, <1>7, RowsCall, OneMoreRow, RowCloses DEF TranscriptNext

TranscriptInv == VoiceInv /\ MessagesTypes /\ MessagesInv /\ RowsTypes /\ RowsInv

LEMMA WhatWasToldIsTold ==
  ASSUME VoiceInv, MessagesTypes, MessagesInv PROVE OnlyLastBatchIsLost
<1>1. ASSUME NEW r \in ran, Tells(chat_history, r) PROVE r \in Told
  <2>1. PICK i \in DOMAIN chat_history :
          /\ chat_history[i].kind = "result" /\ chat_history[i].by = r.by
          /\ chat_history[i].call = r.call /\ chat_history[i].slot = r.slot
    BY <1>1 DEF Tells
  <2>2. r = [by |-> r.by, call |-> r.call, slot |-> r.slot]
    BY DEF MessagesTypes, Ran
  <2>3. r = [by |-> chat_history[i].by, call |-> chat_history[i].call, slot |-> chat_history[i].slot]
    BY <2>1, <2>2
  <2>4. i \in {j \in DOMAIN chat_history : chat_history[j].kind = "result"}
    BY <2>1
  <2>5. QED BY <2>3, <2>4, Zenon DEF Told
<1>2. ASSUME NEW r \in ran, OfLastReply(r) PROVE r.call = LastAsk(r.by)
  <2> DEFINE asks == {t.call : t \in {q \in ran : q.by = r.by}}
  <2>1. r.call \in asks
    OBVIOUS
  <2>2. \A q \in ran : q.call \in Nat
    BY DEF MessagesTypes, Ran
  <2>3. \A l \in asks : l \in Nat /\ l <= r.call
    BY <1>2, <2>2 DEF OfLastReply
  <2> HIDE DEF asks
  <2>4. \A k \in asks : (\A l \in asks : l <= k) => k = r.call
    BY <2>1, <2>3
  <2>5. (CHOOSE k \in asks : \A l \in asks : l <= k) = r.call
    BY <2>1, <2>3, <2>4
  <2>6. QED BY <2>5 DEF asks, LastAsk
<1>3. ASSUME at \in {"round", "stream", "tools"}, NEW r \in ran
      PROVE  (r \in Told \/ r.call = LastAsk(r.by)) /\ (at # "tools" /\ r.by = candidate => r \in Told)
  <2>1. (Tells(chat_history, r) \/ OfLastReply(r)) /\ (at # "tools" /\ r.by = candidate => Tells(chat_history, r))
    BY <1>3 DEF MessagesInv
  <2>2. QED BY <1>1, <1>2, <2>1
<1>4. InOrder(chat_history)
  BY DEF MessagesInv
<1>5. QED BY <1>3, <1>4 DEF OnlyLastBatchIsLost, InOrder

LEMMA RowsAreDrawn ==
  ASSUME VoiceInv, MessagesTypes, RowsTypes, RowsInv PROVE RowsFollowTools
<1> DEFINE D == DOMAIN steps_rows
           R == {i \in D : steps_rows[i].state = "running"}
<1>1. \A j \in D : RowIsTrue(steps_rows[j])
  BY DEF RowsInv
<1>2. Running => at = "tools" /\ \E s \in DOMAIN batch : batch[s] = "running"
  BY <1>1 DEF Running, RowIsTrue
<1>3. Cardinality(R) <= 1
  <2>1. CASE R = {}
    <3>1. Cardinality(R) = 0
      BY <2>1, FS_EmptySet, Zenon
    <3>2. QED BY <3>1
  <2>2. ASSUME NEW j \in R PROVE Cardinality(R) <= 1
    <3>1. at = "tools" /\ steps_rows[j].slot \in DOMAIN batch /\ batch[steps_rows[j].slot] = "running"
      BY <1>1, <2>2 DEF RowIsTrue
    <3>2. PICK i \in D : \A k \in D : steps_rows[k].state = "running" => k = i
      BY <3>1, ItsRow
    <3>3. R = {i}
      BY <2>2, <3>2
    <3>4. Cardinality(R) = 1
      BY <3>3, FS_Singleton, Zenon
    <3>5. QED BY <3>4
  <2>3. QED BY <2>1, <2>2
<1>4. ASSUME NEW r \in ran
      PROVE  Cardinality({i \in D : steps_rows[i].call = r.call /\ steps_rows[i].slot = r.slot
                                    /\ steps_rows[i].state # "running"}) = 1
  <2>1. PICK i \in D : RowOfRan(i, r)
    BY DEF RowsInv
  <2>2. {k \in D : steps_rows[k].call = r.call /\ steps_rows[k].slot = r.slot /\ steps_rows[k].state # "running"} = {i}
    BY <2>1 DEF RowsInv, OneRowEach, RowOfRan
  <2>3. QED BY <2>2, FS_Singleton, Zenon
<1>5. rows_drawn \subseteq {"running", "done", "error"} /\ (steps_rows # <<>> => rows_drawn # {})
  <2>1. \A i \in D : steps_rows[i].state \in {"running", "done", "error"}
    <3>1. \A i \in D : steps_rows[i] \in Row
      BY DEF RowsTypes
    <3>2. QED BY <3>1 DEF Row
  <2>2. steps_rows # <<>> => 1 \in D
    BY LenProperties, EmptySeq DEF RowsTypes
  <2>3. QED BY <2>1, <2>2 DEF rows_drawn
<1>6. ending = "final" => bubble # {}
  BY DEF VoiceInv
<1>7. (ending = "none" <=> partial) /\ ending \in {"none", "final", "stopped", "error", "credits"}
  BY DEF VoiceInv, partial
<1>8. drawn # {}
  <2>1. CASE partial
    BY <1>5, <2>1 DEF drawn, working, words
  <2>2. CASE ~partial
    BY <1>6, <1>7, <2>2 DEF drawn, words, notices
  <2>3. QED BY <2>1, <2>2
<1>9. ending = "none" => drawn \intersect {"markdown", "notice", "stopped", "pills"} = {}
  BY <1>5, <1>7 DEF drawn, working, words, notices, pills
<1>10. ending # "none" => drawn \intersect {"markdown", "notice", "stopped", "pills"} # {}
  BY <1>6, <1>7 DEF drawn, words, notices
<1>11. QED BY <1>2, <1>3, <1>4, <1>8, <1>9, <1>10 DEF RowsFollowTools

\* Whoever goes on with the turn has been told what was done for the user, but for
\* what the last reply of a candidate that failed had done; the bubble has one row
\* per tool, and never looks finished while the turn is on (run_turn, _emit).
THEOREM WhatWasDoneIsTold == TranscriptSpec => []TranscriptIsTrue
<1>1. TranscriptInit => TranscriptInv
  BY VoiceInitially, MessagesInitially, RowsInitially DEF TranscriptInv
<1>2. TranscriptInv /\ [TranscriptNext]_transcriptVars => TranscriptInv'
  BY VoiceStep, MessagesStep, RowsStep DEF TranscriptInv
<1>3. TranscriptInv => TranscriptIsTrue
  BY WhatWasToldIsTold, RowsAreDrawn DEF TranscriptInv, TranscriptIsTrue
<1>4. QED BY <1>1, <1>2, <1>3, PTL DEF TranscriptSpec

----------------------------------------------------------------------------
(* SignIn *)

\* A check that says no has read no credentials, or refused ones.
LEMMA WhoIsTurnedAway ==
  ASSUME NEW t \in Task, CheckEnds(t), is_authenticated, ~is_authenticated'
  PROVE  overtaken' \/ credentials \in revoked \union {None}
<1>1. PICK verdict \in Verdicts(task[t].read) :
        IF verdict = "unavailable" THEN is_authenticated' = is_authenticated
                                   ELSE is_authenticated' = (verdict = "authenticated")
  BY DEF CheckEnds
<1>2. verdict # "unavailable" /\ verdict # "authenticated"
  BY <1>1
<1>3. task[t].read = None \/ task[t].read \in revoked
  BY <1>2 DEF Verdicts, _auth_status_for_error
<1>4. overtaken' = (credentials # task[t].read)
  BY DEF CheckEnds
<1>5. CASE credentials = task[t].read
  BY <1>3, <1>5
<1>6. CASE credentials # task[t].read
  BY <1>4, <1>6
<1>7. QED BY <1>5, <1>6

\* For any number of tasks and sign-ins that overlap, whatever the network answers:
\* only the user, or Google refusing the credentials in force, or a check overtaken
\* by a sign-in, ends a sign-in (_auth_status_for_error, _refresh_auth_state).
THEOREM OutagesSignNobodyOut == SignInSpec => OutageIsNotSignOut
<1> DEFINE Excused == \/ clearing \/ auth_status' = "unknown"
                   \/ overtaken' \/ credentials \in revoked \union {None}
<1>1. ASSUME [SignInNext]_signVars, is_authenticated, ~is_authenticated' PROVE Excused
  <2>1. ASSUME NEW t \in Task, TaskStep(t) PROVE Excused
    <3>1. CASE CheckEnds(t)
      BY <1>1, <3>1, WhoIsTurnedAway
    <3>2. CASE _bootstrap_state(t) \/ _ensure_online(t) \/ CheckRefreshes(t) \/ TaskEnds(t)
      BY <1>1, <3>2 DEF _bootstrap_state, _ensure_online, CheckRefreshes, TaskEnds, status
    <3>3. QED BY <2>1, <3>1, <3>2 DEF TaskStep
  <2>2. CASE _submit_code \/ _on_connectivity_change \/ _on_lifecycle_change \/ _on_retry \/ _on_get_started
             \/ _confirm_reauth \/ Revokes \/ UNCHANGED signVars
    BY <1>1, <2>2 DEF _submit_code, _on_connectivity_change, _on_lifecycle_change, _on_retry, _on_get_started,
                      _confirm_reauth, Revokes, signVars, status
  <2>3. CASE ReauthEnds \/ CloseAndLaunch
    BY <2>3 DEF ReauthEnds, CloseAndLaunch
  <2>4. QED BY <1>1, <2>1, <2>2, <2>3 DEF SignInNext
<1>2. [SignInNext]_signVars => [is_authenticated /\ ~is_authenticated' => Excused]_signVars
  BY <1>1
<1> HIDE DEF Excused
<1>3. QED BY <1>2, PTL DEF SignInSpec, OutageIsNotSignOut, Excused
=============================================================================
