------------------------------ MODULE Credits ------------------------------
(***************************************************************************)
(* services/credit_service.py: the balance, the daily cap, the holds of    *)
(* turns in progress and the sweep that writes stale holds off.  Every     *)
(* coroutine of CreditService awaits only locks that nobody holds across a *)
(* suspension, so on the event loop each call is one step.                 *)
(***************************************************************************)
EXTENDS Integers, FiniteSetsExt

CONSTANTS Tx,          \* transaction ids reserve() may mint (uuid4, never reused)
          FreeCap,     \* DAILY_FREE_CREDITS
          PremiumCap,  \* DAILY_PREMIUM_CREDITS
          TopUp,       \* the amount add_credits() is called with
          HoldTTL,     \* ROLLBACK_SECONDS, in ticks
          MaxHold,     \* bound: a hold that grows further stays here
          MaxBalance,  \* bound: no top-up beyond this balance
          MaxDay       \* bound: the last UTC day modelled

ASSUME CapAssumption == FreeCap \in Nat /\ PremiumCap \in Nat /\ TopUp \in Nat
ASSUME HoldAssumption == HoldTTL \in Nat \ {0} /\ MaxHold \in Nat \ {0}
ASSUME BoundAssumption == MaxBalance \in Nat /\ MaxDay \in Nat \ {0}

VARIABLES balance,     \* _balance, and STORAGE_CREDITS in the storage's memory
          stamp,       \* STORAGE_LAST_RESET in the storage's memory, 0 = absent
          hold,        \* _holds: tx -> amount, 0 = no hold
          age,         \* ticks since the hold's opened_at, saturating at HoldTTL
          settled,     \* _settled
          minted,      \* every id reserve() has returned, over all runs of the app
          day,         \* _today_utc()
          premium,     \* state.is_premium
          disk,        \* the two keys as storage.json holds them
          cost         \* history: what each transaction took from the balance

creditVars == <<balance, stamp, hold, age, settled, minted, day, premium, disk, cost>>

COST_STEP == 1
DailyCap == IF premium THEN PremiumCap ELSE FreeCap

\* What outstanding holds add up to, whoever owns them.
Held == MapThenSumSet(LAMBDA t : hold[t], Tx)

\* The balance after _check_daily_reset: a new UTC day sets it to the cap.
Refreshed == IF stamp = day THEN balance ELSE DailyCap
\* Mutant of Less: the clamp at zero is forgotten.
LessUnclamped(a, b) == a - b
Less(a, b) == IF a > b THEN a - b ELSE 0

----------------------------------------------------------------------------

CreditsInit == /\ balance = 0
               /\ stamp = 0
               /\ hold = [t \in Tx |-> 0]
               /\ age = [t \in Tx |-> 0]
               /\ settled = {}
               /\ minted = {}
               /\ day = 1
               /\ premium \in BOOLEAN
               /\ disk = [balance |-> 0, stamp |-> 0]
               /\ cost = [t \in Tx |-> 0]

\* Every operation but reserve_more checks for a new day before it does anything.
SetBalance(b) == balance' = b /\ stamp' = day

get_balance == /\ SetBalance(Refreshed)
               /\ UNCHANGED <<hold, age, settled, minted, day, premium, disk, cost>>

add_credits == /\ Refreshed + TopUp <= MaxBalance
               /\ SetBalance(Refreshed + TopUp)
               /\ UNCHANGED <<hold, age, settled, minted, day, premium, disk, cost>>

CanReserve(amount) == Refreshed - Held >= amount

reserve(t, amount) ==
  /\ t \notin minted
  /\ CanReserve(amount)
  /\ SetBalance(Refreshed)
  /\ hold' = [hold EXCEPT ![t] = amount]
  /\ age' = [age EXCEPT ![t] = 0]
  /\ minted' = minted \cup {t}
  /\ UNCHANGED <<settled, day, premium, disk, cost>>

reserve_refused(amount) == ~CanReserve(amount) /\ get_balance

\* Mutant of reserve_more: growing a hold restarts its clock.
ReserveMoreRestartsClock(t, amount) ==
  /\ hold[t] > 0
  /\ hold' = [hold EXCEPT ![t] = IF @ + amount > MaxHold THEN MaxHold ELSE @ + amount]
  /\ age' = [age EXCEPT ![t] = 0]
  /\ UNCHANGED <<balance, stamp, settled, minted, day, premium, disk, cost>>

\* No daily check, and the hold keeps the age it was opened with.
reserve_more(t, amount) ==
  /\ hold[t] > 0
  /\ hold' = [hold EXCEPT ![t] = IF @ + amount > MaxHold THEN MaxHold ELSE @ + amount]
  /\ UNCHANGED <<balance, stamp, age, settled, minted, day, premium, disk, cost>>

\* The caller's id is one reserve() returned in this run of the app.
Known(t) == hold[t] > 0 \/ t \in settled

\* Mutant of Release: the id is remembered but its hold is not popped.
ReleaseKeepsHold(ts) == settled' = settled \cup ts /\ UNCHANGED <<hold, age>>

Release(ts) == /\ hold' = [t \in Tx |-> IF t \in ts THEN 0 ELSE hold[t]]
               /\ age' = [t \in Tx |-> IF t \in ts THEN 0 ELSE age[t]]
               /\ settled' = settled \cup ts

\* Mutant of commit: the settled ids are not looked at, so a late or repeated
\* commit charges again.
CommitForgetsSettled(t, amount) ==
  /\ Known(t)
  /\ SetBalance(Less(Refreshed, amount)) /\ Release({t})
  /\ cost' = [cost EXCEPT ![t] = @ + (Refreshed - balance')]
  /\ UNCHANGED <<minted, day, premium, disk>>

commit(t, amount) ==
  /\ Known(t)
  /\ IF t \in settled
     THEN SetBalance(Refreshed) /\ UNCHANGED <<hold, age, settled, cost>>
     ELSE /\ SetBalance(Less(Refreshed, amount)) /\ Release({t})
          /\ cost' = [cost EXCEPT ![t] = @ + (Refreshed - balance')]
  /\ UNCHANGED <<minted, day, premium, disk>>

\* commit(tx) with amount=None charges the whole hold.
commit_all(t) == commit(t, hold[t])

rollback(t) == /\ Known(t)
               /\ SetBalance(Refreshed)
               /\ Release({t})
               /\ UNCHANGED <<minted, day, premium, disk, cost>>

charge(amount) == /\ SetBalance(Less(Refreshed, amount))
                  /\ UNCHANGED <<hold, age, settled, minted, day, premium, disk, cost>>

Expired == {t \in Tx : hold[t] > 0 /\ age[t] >= HoldTTL}

\* A swept hold is marked settled, so a late commit charges nothing.
sweep_expired_holds == /\ SetBalance(Refreshed)
                       /\ Release(Expired)
                       /\ UNCHANGED <<minted, day, premium, disk, cost>>

----------------------------------------------------------------------------
(* The clock, the licence and the storage the ledger lives on.             *)

Tick == /\ \E t \in Tx : hold[t] > 0 /\ age[t] < HoldTTL
        /\ age' = [t \in Tx |-> IF hold[t] > 0 /\ age[t] < HoldTTL
                                THEN age[t] + 1 ELSE age[t]]
        /\ UNCHANGED <<balance, stamp, hold, settled, minted, day, premium, disk, cost>>

Midnight == /\ day < MaxDay
            /\ day' = day + 1
            /\ UNCHANGED <<balance, stamp, hold, age, settled, minted, premium, disk, cost>>

LicenceChange == /\ premium' = ~premium
                 /\ UNCHANGED <<balance, stamp, hold, age, settled, minted, day, disk, cost>>

\* The debounced write of storage.json: both keys in one atomic replace.
Flush == /\ disk' = [balance |-> balance, stamp |-> stamp]
         /\ UNCHANGED <<balance, stamp, hold, age, settled, minted, day, premium, cost>>

\* The process dies and starts again: holds and settled ids were only in memory.
Restart == /\ balance' = disk.balance
           /\ stamp' = disk.stamp
           /\ hold' = [t \in Tx |-> 0]
           /\ age' = [t \in Tx |-> 0]
           /\ settled' = {}
           /\ UNCHANGED <<minted, day, premium, disk, cost>>

----------------------------------------------------------------------------

Amounts == 0..MaxHold

CreditsNext ==
  \/ get_balance \/ add_credits \/ sweep_expired_holds
  \/ Tick \/ Midnight \/ LicenceChange \/ Flush \/ Restart
  \/ \E n \in Amounts \ {0} : reserve_refused(n) \/ charge(n)
  \/ \E t \in Tx : commit_all(t) \/ rollback(t)
  \/ \E t \in Tx, n \in Amounts \ {0} : reserve(t, n) \/ reserve_more(t, n)
  \/ \E t \in Tx, n \in Amounts : commit(t, n)

CreditsSpec == CreditsInit /\ [][CreditsNext]_creditVars

\* astart() sweeps every 60 s whatever else the app does, and time passes.
CreditsFairSpec == CreditsSpec /\ WF_creditVars(Tick)
                               /\ WF_creditVars(sweep_expired_holds)

----------------------------------------------------------------------------

\* The types of the ledger's state.
CreditsTypeOK == /\ balance \in Nat
                 /\ stamp \in 0..MaxDay
                 /\ hold \in [Tx -> 0..MaxHold]
                 /\ age \in [Tx -> 0..HoldTTL]
                 /\ settled \subseteq Tx
                 /\ minted \subseteq Tx
                 /\ day \in 1..MaxDay
                 /\ premium \in BOOLEAN
                 /\ disk \in [balance : Nat, stamp : 0..MaxDay]
                 /\ cost \in [Tx -> Nat]

\* A transaction is never both open and settled, both only come from reserve(),
\* and an open one has cost nothing yet: what makes commit, rollback and the
\* sweep exclude each other.
OpenOrSettled == /\ \A t \in settled : hold[t] = 0
                 /\ settled \subseteq minted
                 /\ \A t \in Tx : hold[t] > 0 => t \in minted
                 /\ \A t \in Tx : cost[t] > 0 => t \in minted /\ hold[t] = 0

\* "A reserve that is never settled auto-releases after ROLLBACK_SECONDS, so
\* a crashed turn cannot strand the user's balance" (credit_service.py:15-16).
HoldsAreReleased == \A t \in Tx : (hold[t] > 0) ~> (hold[t] = 0)

\* The refinement: a transaction is its ticket, and a hold or settled id that
\* only memory knew is lost with the process that knew it.
ticketOf == [t \in Tx |-> IF hold[t] > 0 THEN "open"
                          ELSE IF t \in settled THEN "closed"
                          ELSE IF t \in minted THEN "lost"
                          ELSE "none"]

Account == INSTANCE CreditAccount
             WITH Ticket <- Tx, Refills <- {FreeCap, PremiumCap},
                  purse <- balance, refilled <- stamp, today <- day,
                  saved <- [purse |-> disk.balance, refilled |-> disk.stamp],
                  ticket <- ticketOf

\* The ledger implements the account: tickets open once, close once, and are
\* charged once, in the step that closes them, what leaves the purse; the purse
\* is refilled once a day.
ImplementsAccount == Account!Spec
=============================================================================
