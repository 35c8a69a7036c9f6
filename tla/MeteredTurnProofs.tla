-------------------------- MODULE MeteredTurnProofs --------------------------
(***************************************************************************)
(* The ledger's invariants, proved for every set of transactions, every    *)
(* cap and every bound, and the simulation of CreditAccount by Credits;    *)
(* then the metered turn's, for every set of turns on that ledger, every   *)
(* number of candidates and every step budget, and that its steps run out. *)
(***************************************************************************)
EXTENDS MeteredTurn, TLAPS

----------------------------------------------------------------------------
(* Credits *)


\* The daily cap, the balance of the day and a clamped difference are naturals.
LEMMA CapType == ASSUME premium \in BOOLEAN PROVE DailyCap \in Nat
  BY CapAssumption DEF DailyCap

LEMMA RefreshedType == ASSUME CreditsTypeOK PROVE Refreshed \in Nat
  BY CapType DEF CreditsTypeOK, Refreshed

LEMMA LessType == ASSUME NEW a \in Nat, NEW b \in Nat
                  PROVE Less(a, b) \in 0..a
  BY DEF Less

\* What every operation that may refill leaves behind is well typed.
LEMMA SetBalanceType ==
  ASSUME CreditsTypeOK, NEW b \in Nat, SetBalance(b)
  PROVE  balance' \in Nat /\ stamp' \in 0..MaxDay
  BY BoundAssumption DEF CreditsTypeOK, SetBalance

LEMMA ReleaseType ==
  ASSUME CreditsTypeOK, NEW ts \in SUBSET Tx, Release(ts)
  PROVE  hold' \in [Tx -> 0..MaxHold] /\ age' \in [Tx -> 0..HoldTTL] /\ settled' \subseteq Tx
  BY HoldAssumption DEF CreditsTypeOK, Release

LEMMA TypeInit == CreditsInit => CreditsTypeOK
  BY HoldAssumption, BoundAssumption DEF CreditsInit, CreditsTypeOK

\* No operation, however the ids and amounts are chosen, breaks the types.
LEMMA TypeStep == CreditsTypeOK /\ [CreditsNext]_creditVars => CreditsTypeOK'
<1> SUFFICES ASSUME CreditsTypeOK, [CreditsNext]_creditVars
             PROVE  CreditsTypeOK'
  OBVIOUS
<1> USE HoldAssumption, BoundAssumption
<1>r. Refreshed \in Nat
  BY RefreshedType
<1>1. CASE get_balance
  BY <1>1, <1>r, SetBalanceType DEF get_balance, CreditsTypeOK
<1>2. CASE add_credits
  <2>1. Refreshed + TopUp \in Nat
    BY <1>r, CapAssumption
  <2>2. QED BY <1>2, <2>1, SetBalanceType DEF add_credits, CreditsTypeOK
<1>3. CASE sweep_expired_holds
  <2>1. Expired \subseteq Tx
    BY DEF Expired
  <2>2. QED BY <1>3, <1>r, <2>1, SetBalanceType, ReleaseType
            DEF sweep_expired_holds, CreditsTypeOK
<1>4. CASE Tick
  BY <1>4 DEF Tick, CreditsTypeOK
<1>5. CASE Midnight
  BY <1>5 DEF Midnight, CreditsTypeOK
<1>6. CASE LicenceChange
  BY <1>6 DEF LicenceChange, CreditsTypeOK
<1>7. CASE Flush
  BY <1>7 DEF Flush, CreditsTypeOK
<1>8. CASE Restart
  BY <1>8 DEF Restart, CreditsTypeOK
<1>9. ASSUME NEW n \in Amounts \ {0}, reserve_refused(n) PROVE CreditsTypeOK'
  BY <1>9, <1>1 DEF reserve_refused
<1>10. ASSUME NEW n \in Amounts \ {0}, charge(n) PROVE CreditsTypeOK'
  <2>1. Less(Refreshed, n) \in Nat
    BY <1>r, LessType DEF Amounts
  <2>2. QED BY <1>10, <2>1, SetBalanceType DEF charge, CreditsTypeOK
<1>11. ASSUME NEW t \in Tx, NEW n \in Amounts, commit(t, n) PROVE CreditsTypeOK'
  <2>1. Less(Refreshed, n) \in Nat
    BY <1>r, LessType DEF Amounts
  <2>2. CASE t \in settled
    BY <1>11, <2>2, <1>r, SetBalanceType DEF commit, CreditsTypeOK
  <2>3. CASE t \notin settled
    <3>1. balance' \in 0..Refreshed
      BY <1>11, <2>3, <1>r, LessType DEF commit, SetBalance, Amounts
    <3>2. cost' = [cost EXCEPT ![t] = @ + (Refreshed - balance')]
      BY <1>11, <2>3 DEF commit
    <3>3. cost[t] + (Refreshed - balance') \in Nat
      BY <3>1, <1>r DEF CreditsTypeOK
    <3>4. cost' \in [Tx -> Nat]
      BY <3>2, <3>3 DEF CreditsTypeOK
    <3>5. QED BY <1>11, <2>3, <2>1, <3>4, SetBalanceType, ReleaseType DEF commit, CreditsTypeOK
  <2>4. QED BY <2>2, <2>3
<1>12. ASSUME NEW t \in Tx, commit_all(t) PROVE CreditsTypeOK'
  <2>1. hold[t] \in Amounts
    BY DEF CreditsTypeOK, Amounts
  <2>2. QED BY <1>12, <2>1, <1>11 DEF commit_all
<1>13. ASSUME NEW t \in Tx, rollback(t) PROVE CreditsTypeOK'
  BY <1>13, <1>r, SetBalanceType, ReleaseType DEF rollback, CreditsTypeOK
<1>14. ASSUME NEW t \in Tx, NEW n \in Amounts \ {0}, reserve(t, n) PROVE CreditsTypeOK'
  <2>1. balance' \in Nat /\ stamp' \in 0..MaxDay
    BY <1>14, <1>r, SetBalanceType DEF reserve
  <2>2. hold' \in [Tx -> 0..MaxHold] /\ age' \in [Tx -> 0..HoldTTL]
    BY <1>14 DEF reserve, CreditsTypeOK, Amounts
  <2>3. QED BY <1>14, <2>1, <2>2 DEF reserve, CreditsTypeOK
<1>15. ASSUME NEW t \in Tx, NEW n \in Amounts \ {0}, reserve_more(t, n)
       PROVE  CreditsTypeOK'
  <2>1. hold' \in [Tx -> 0..MaxHold]
    BY <1>15 DEF reserve_more, CreditsTypeOK, Amounts
  <2>2. QED BY <1>15, <2>1 DEF reserve_more, CreditsTypeOK
<1>16. CASE UNCHANGED creditVars
  BY <1>16 DEF creditVars, CreditsTypeOK
<1>17. QED
  BY <1>1, <1>2, <1>3, <1>4, <1>5, <1>6, <1>7, <1>8, <1>9, <1>10, <1>11,
     <1>12, <1>13, <1>14, <1>15, <1>16 DEF CreditsNext

\* The ledger's state always has its types: the balance never goes negative.
THEOREM TypeCorrect == CreditsSpec => []CreditsTypeOK
  BY TypeInit, TypeStep, PTL DEF CreditsSpec

----------------------------------------------------------------------------
(* Open or settled, never both.                                            *)

\* Releasing transactions that reserve() returned keeps the two apart.
LEMMA ReleaseOpenOrSettled ==
  ASSUME OpenOrSettled, NEW ts \in SUBSET Tx, ts \subseteq minted, Release(ts),
         minted' = minted, CreditsTypeOK,
         \A t \in Tx : cost'[t] = cost[t] \/ t \in ts
  PROVE  OpenOrSettled'
  BY DEF OpenOrSettled, Release, CreditsTypeOK

LEMMA KnownIsMinted == ASSUME OpenOrSettled, NEW t \in Tx, Known(t) PROVE t \in minted
  BY DEF OpenOrSettled, Known

LEMMA OpenOrSettledStep ==
  CreditsTypeOK /\ OpenOrSettled /\ [CreditsNext]_creditVars => OpenOrSettled'
<1> SUFFICES ASSUME CreditsTypeOK, OpenOrSettled, [CreditsNext]_creditVars
             PROVE  OpenOrSettled'
  OBVIOUS
<1>1. CASE UNCHANGED <<hold, settled, minted, cost>>
  BY <1>1 DEF OpenOrSettled
<1>2. CASE sweep_expired_holds
  <2>1. Expired \subseteq Tx /\ Expired \subseteq minted
    BY DEF Expired, OpenOrSettled
  <2>2. QED BY <1>2, <2>1, ReleaseOpenOrSettled DEF sweep_expired_holds
<1>3. CASE Restart
  BY <1>3 DEF Restart, OpenOrSettled, CreditsTypeOK
<1>4. ASSUME NEW t \in Tx, NEW n \in Amounts, commit(t, n) PROVE OpenOrSettled'
  <2>1. CASE t \in settled
    BY <1>1, <1>4, <2>1 DEF commit
  <2>2. CASE t \notin settled
    <3>1. t \in minted
      BY <1>4, KnownIsMinted DEF commit
    <3>2. \A u \in Tx : cost'[u] = cost[u] \/ u \in {t}
      BY <1>4, <2>2 DEF commit, CreditsTypeOK
    <3>3. QED BY <1>4, <2>2, <3>1, <3>2, ReleaseOpenOrSettled DEF commit
  <2>3. QED BY <2>1, <2>2
<1>5. ASSUME NEW t \in Tx, commit_all(t) PROVE OpenOrSettled'
  BY <1>4, <1>5 DEF commit_all, CreditsTypeOK, Amounts
<1>6. ASSUME NEW t \in Tx, rollback(t) PROVE OpenOrSettled'
  BY <1>6, KnownIsMinted, ReleaseOpenOrSettled DEF rollback
<1>7. ASSUME NEW t \in Tx, NEW n \in Amounts \ {0}, reserve(t, n) PROVE OpenOrSettled'
  BY <1>7 DEF reserve, OpenOrSettled, CreditsTypeOK
<1>8. ASSUME NEW t \in Tx, NEW n \in Amounts \ {0}, reserve_more(t, n)
      PROVE  OpenOrSettled'
  BY <1>8, HoldAssumption DEF reserve_more, OpenOrSettled, CreditsTypeOK, Amounts
<1>9. QED
  <2>1. ASSUME get_balance \/ add_credits \/ Tick \/ Midnight \/ LicenceChange \/ Flush
               \/ \E n \in Amounts \ {0} : reserve_refused(n) \/ charge(n)
        PROVE  OpenOrSettled'
    BY <2>1, <1>1 DEF get_balance, add_credits, Tick, Midnight, LicenceChange, Flush,
                      reserve_refused, charge
  <2>2. CASE UNCHANGED creditVars
    BY <2>2, <1>1 DEF creditVars
  <2>3. QED BY <2>1, <2>2, <1>2, <1>3, <1>4, <1>5, <1>6, <1>7, <1>8 DEF CreditsNext

\* commit, rollback and the sweep exclude each other on every transaction:
\* credit_service.py pops the hold and remembers the id in the same step.
THEOREM SettlementExclusive == CreditsSpec => []OpenOrSettled
<1>1. CreditsInit => OpenOrSettled
  BY DEF CreditsInit, OpenOrSettled
<1>2. QED
  BY <1>1, TypeInit, TypeStep, OpenOrSettledStep, PTL DEF CreditsSpec

----------------------------------------------------------------------------
(* The ledger implements the account.                                      *)

\* The balance an operation starts from is one the account may open with.
LEMMA OpensWithRefreshed ==
  /\ Refreshed \in {FreeCap, PremiumCap} \cup {balance}
  /\ Account!Opening(Refreshed)
  BY DEF Refreshed, DailyCap, Account!Opening

\* What refreshing and setting the balance is to the account.
LEMMA SetsPurse == ASSUME NEW b, SetBalance(b) PROVE Account!Settled(b)
  BY DEF SetBalance, Account!Settled

\* Only minted transactions have a ticket.
LEMMA TicketOfMinted ==
  ASSUME OpenOrSettled, NEW t \in Tx
  PROVE  ticketOf[t] = "none" <=> t \notin minted
  BY DEF OpenOrSettled, ticketOf

\* Releasing open transactions closes their tickets and no others.
LEMMA ReleaseCloses ==
  ASSUME CreditsTypeOK, OpenOrSettled, NEW ts \in SUBSET Tx, Release(ts), minted' = minted
  PROVE  ticketOf' = [t \in Tx |-> IF t \in ts THEN "closed" ELSE ticketOf[t]]
  BY DEF Release, ticketOf, OpenOrSettled, CreditsTypeOK

LEMMA InitMaps == CreditsInit => Account!Init
  BY DEF CreditsInit, Account!Init, ticketOf

LEMMA StepMaps ==
  CreditsTypeOK /\ OpenOrSettled /\ [CreditsNext]_creditVars
    => [Account!Next]_(Account!accountVars)
<1> SUFFICES ASSUME CreditsTypeOK, OpenOrSettled, [CreditsNext]_creditVars
             PROVE  Account!Next \/ UNCHANGED Account!accountVars
  OBVIOUS
<1> DEFINE disked == [purse |-> disk.balance, refilled |-> disk.stamp]
<1>k. ASSUME UNCHANGED <<hold, settled, minted>> PROVE UNCHANGED ticketOf
  BY <1>k DEF ticketOf
<1>1. ASSUME SetBalance(Refreshed), UNCHANGED <<hold, settled, minted, day, disk, cost>>
      PROVE  Account!Next
  <2>1. UNCHANGED <<day, disked, ticketOf, cost>>
    BY <1>1, <1>k
  <2>2. QED BY <1>1, <2>1, OpensWithRefreshed, SetsPurse DEF Account!Refill, Account!Next
<1>2. CASE get_balance \/ \E n \in Amounts \ {0} : reserve_refused(n)
  BY <1>2, <1>1 DEF get_balance, reserve_refused
<1>3. CASE add_credits
  <2>1. UNCHANGED <<day, disked, ticketOf, cost>>
    BY <1>3, <1>k DEF add_credits
  <2>2. balance' = Refreshed + TopUp /\ stamp' = day
    BY <1>3 DEF add_credits, SetBalance
  <2>3. balance' \in Nat /\ balance' >= Refreshed
    BY <2>2, RefreshedType, CapAssumption
  <2>4. QED BY <2>1, <2>2, <2>3, OpensWithRefreshed DEF Account!Grant, Account!Next
<1>4. CASE sweep_expired_holds
  <2>1. Expired \subseteq Tx
    BY DEF Expired
  <2>2. ticketOf' = [t \in Tx |-> IF t \in Expired THEN "closed" ELSE ticketOf[t]]
    BY <1>4, <2>1, ReleaseCloses DEF sweep_expired_holds
  <2>3. Expired \in SUBSET {t \in Tx : ticketOf[t] = "open"}
    BY DEF Expired, ticketOf
  <2>4. Account!Settled(Refreshed) /\ UNCHANGED <<day, disked, cost>>
    BY <1>4, SetsPurse DEF sweep_expired_holds
  <2>5. QED BY <2>2, <2>3, <2>4, OpensWithRefreshed DEF Account!WriteOff, Account!Next
<1>5. CASE Tick \/ LicenceChange
  BY <1>5, <1>k DEF Tick, LicenceChange, Account!accountVars
<1>6. CASE Midnight
  BY <1>6, <1>k DEF Midnight, Account!NextDay, Account!Next
<1>7. CASE Flush
  BY <1>7, <1>k DEF Flush, Account!Save, Account!Next
<1>8. CASE Restart
  <2>1. ticketOf' = [t \in Tx |-> IF t \in minted THEN "lost" ELSE "none"]
    BY <1>8 DEF Restart, ticketOf
  <2>2. ticketOf' = [t \in Tx |-> IF ticketOf[t] = "none" THEN "none" ELSE "lost"]
    BY <2>1, TicketOfMinted
  <2>3. QED BY <1>8, <2>2 DEF Restart, Account!Restart, Account!Next
<1>9. ASSUME NEW n \in Amounts \ {0}, charge(n) PROVE Account!Next
  <2>1. Less(Refreshed, n) \in 0..Refreshed
    BY RefreshedType, LessType DEF Amounts
  <2>2. Account!Settled(Less(Refreshed, n)) /\ UNCHANGED <<day, disked, ticketOf, cost>>
    BY <1>9, <1>k, SetsPurse DEF charge
  <2>3. QED BY <2>1, <2>2, OpensWithRefreshed DEF Account!PayDirect, Account!Next
<1>10. ASSUME NEW t \in Tx, hold[t] > 0, NEW b \in 0..Refreshed, SetBalance(b), Release({t}),
              cost' = [cost EXCEPT ![t] = Refreshed - b], UNCHANGED <<minted, day, disk>>
       PROVE  Account!Next
  <2>1. ticketOf' = [u \in Tx |-> IF u \in {t} THEN "closed" ELSE ticketOf[u]]
    BY <1>10, ReleaseCloses
  <2>2. ticketOf' = [ticketOf EXCEPT ![t] = "closed"]
    BY <2>1 DEF ticketOf
  <2>3. ticketOf[t] = "open"
    BY <1>10 DEF ticketOf
  <2>4. Account!Settled(b)
    BY <1>10, SetsPurse
  <2>5. Account!CloseTicket(t)
    BY <1>10, <2>2, <2>3, <2>4, OpensWithRefreshed DEF Account!CloseTicket
  <2>6. QED BY <2>5 DEF Account!Next
<1>11. ASSUME NEW t \in Tx, NEW n \in Amounts, commit(t, n) PROVE Account!Next
  <2>1. CASE t \in settled
    BY <1>1, <1>11, <2>1 DEF commit
  <2>2. CASE t \notin settled
    <3>1. Less(Refreshed, n) \in 0..Refreshed
      BY RefreshedType, LessType DEF Amounts
    <3>2. cost[t] = 0 /\ balance' = Less(Refreshed, n)
      BY <1>11, <2>2 DEF commit, Known, OpenOrSettled, CreditsTypeOK, SetBalance
    <3>3. cost' = [cost EXCEPT ![t] = Refreshed - Less(Refreshed, n)]
      BY <1>11, <2>2, <3>1, <3>2, RefreshedType DEF commit, CreditsTypeOK
    <3>4. QED BY <1>10, <1>11, <2>2, <3>1, <3>3 DEF commit, Known
  <2>3. QED BY <2>1, <2>2
<1>12. ASSUME NEW t \in Tx, commit_all(t) PROVE Account!Next
  BY <1>11, <1>12 DEF commit_all, CreditsTypeOK, Amounts
<1>13. ASSUME NEW t \in Tx, rollback(t) PROVE Account!Next
  <2>1. CASE t \in settled
    <3>1. UNCHANGED <<hold, settled>>
      BY <1>13, <2>1 DEF rollback, Release, OpenOrSettled, CreditsTypeOK
    <3>2. QED BY <1>1, <1>13, <3>1 DEF rollback
  <2>2. CASE t \notin settled
    <3>1. cost[t] = 0 /\ cost' = cost
      BY <1>13, <2>2 DEF rollback, Known, OpenOrSettled, CreditsTypeOK
    <3>2. cost' = [cost EXCEPT ![t] = Refreshed - Refreshed]
      BY <3>1, RefreshedType DEF CreditsTypeOK
    <3>3. Refreshed \in 0..Refreshed
      BY RefreshedType
    <3>4. /\ hold[t] > 0
          /\ SetBalance(Refreshed) /\ Release({t}) /\ UNCHANGED <<minted, day, disk>>
      BY <1>13, <2>2 DEF rollback, Known
    <3>5. QED BY <1>10, <3>2, <3>3, <3>4
  <2>3. QED BY <2>1, <2>2
<1>14. ASSUME NEW t \in Tx, NEW n \in Amounts \ {0}, reserve(t, n) PROVE Account!Next
  <2>1. ticketOf[t] = "none"
    BY <1>14, TicketOfMinted DEF reserve
  <2>2. ticketOf' = [ticketOf EXCEPT ![t] = "open"]
    <3>1. hold'[t] > 0
      BY <1>14 DEF reserve, CreditsTypeOK, Amounts
    <3>2. \A u \in Tx : u # t => /\ hold'[u] = hold[u]
                                 /\ u \in minted' <=> u \in minted
      BY <1>14 DEF reserve, CreditsTypeOK
    <3>3. settled' = settled
      BY <1>14 DEF reserve
    <3>4. ticketOf' = [u \in Tx |-> IF u = t THEN "open" ELSE ticketOf[u]]
      BY <3>1, <3>2, <3>3 DEF ticketOf
    <3>5. QED BY <3>4 DEF ticketOf
  <2>3. Account!Settled(Refreshed) /\ UNCHANGED <<day, disked, cost>>
    BY <1>14, SetsPurse DEF reserve
  <2>4. Account!OpenTicket(t)
    BY <2>1, <2>2, <2>3, OpensWithRefreshed DEF Account!OpenTicket
  <2>5. QED BY <2>4 DEF Account!Next
<1>15. ASSUME NEW t \in Tx, NEW n \in Amounts \ {0}, reserve_more(t, n)
       PROVE  UNCHANGED Account!accountVars
  <2>1. UNCHANGED ticketOf
    BY <1>15, HoldAssumption DEF reserve_more, ticketOf, CreditsTypeOK, Amounts
  <2>2. QED BY <1>15, <2>1 DEF reserve_more, Account!accountVars
<1>16. CASE UNCHANGED creditVars
  BY <1>16, <1>k DEF creditVars, Account!accountVars
<1>17. QED
  BY <1>2, <1>3, <1>4, <1>5, <1>6, <1>7, <1>8, <1>9, <1>11, <1>12, <1>13, <1>14, <1>15,
     <1>16 DEF CreditsNext

\* Every behaviour of credit_service.py is one of the account: a ticket is
\* opened once, closed once, and costs something only in the step that closes it.
THEOREM Refinement == CreditsSpec => ImplementsAccount
<1>1. CreditsSpec => []CreditsTypeOK /\ []OpenOrSettled
  BY TypeCorrect, SettlementExclusive, PTL
<1>2. QED
  BY <1>1, InitMaps, StepMaps, PTL DEF CreditsSpec, ImplementsAccount, Account!Spec

----------------------------------------------------------------------------
(* MeteredTurn *)


\* What is known of one turn, whatever the others do: its step counters,
\* its budget, its hold and its bill.
Counted(t) == /\ own[t] + PendingStep(t) <= calls[t]
              /\ pc[t] = "stream" => own[t] < calls[t]
              /\ shown[t] \/ text[t] => calls[t] >= 1
Budgeted(t) == /\ calls[t] <= MaxRounds + 1
               /\ pc[t] \in {"round", "stream", "tools"} /\ calls[t] > MaxRounds => lastRound[t]
Covered(t) == /\ pc[t] = "idle" => t \notin minted
              /\ hold[t] > 0 => pc[t] \in Running
              /\ pc[t] # "done" => cost[t] = 0
              /\ pc[t] \in Running /\ t \in settled => t \in swept
Billed(t) == /\ cost[t] <= billed[t] /\ billed[t] <= calls[t]
             /\ verdict[t] # "none" => pc[t] = "done"
             /\ Ended(t) /\ shown[t] /\ t \notin swept => billed[t] >= 1
OneTurn(t) == Counted(t) /\ Budgeted(t) /\ Covered(t) /\ Billed(t)
TurnInv == \A t \in Tx : OneTurn(t)

\* The inductive invariant.
IInv == MeteredTypeOK /\ OpenOrSettled /\ TurnInv

----------------------------------------------------------------------------
(* Frames: what an action of one turn leaves alone.                        *)

\* A step that changes nothing the ledger, or the turn itself, knows of turn u.
LedgerKeeps(u) == /\ hold'[u] = hold[u] /\ cost'[u] = cost[u]
                  /\ u \in minted' <=> u \in minted
                  /\ u \in settled' <=> u \in settled
TurnKeeps(u) == /\ UNCHANGED <<pc[u], calls[u], own[u], pending[u], shown[u], text[u],
                               lastRound[u], billed[u], verdict[u]>>
                /\ u \in swept' <=> u \in swept

LEMMA Framed ==
  ASSUME NEW u \in Tx, OneTurn(u), LedgerKeeps(u), TurnKeeps(u)
  PROVE  OneTurn(u)'
  BY DEF OneTurn, Counted, Budgeted, Covered, Billed, LedgerKeeps, TurnKeeps, PendingStep, Ended

\* A bill never exceeds the hold's bound, from whichever counter it is made.
LEMMA StepsFit ==
  ASSUME IInv, NEW t \in Tx
  PROVE  /\ calls[t] \in 0..MaxHold
         /\ Seen(t) \in 0..MaxHold /\ Seen(t) <= calls[t]
         /\ shown[t] => Seen(t) >= 1
         /\ \A d \in BOOLEAN : charged_steps(calls[t], d) \in 0..MaxHold
  BY TurnAssumption, HoldAssumption, HoldCoversBudget
     DEF IInv, MeteredTypeOK, TurnInv, OneTurn, Counted, Budgeted, Seen, charged_steps,
         PendingStep

\* Settling is an operation of the ledger, and it frees the turn's hold and no other.
LEMMA Settles ==
  ASSUME CreditsTypeOK, OpenOrSettled, NEW t \in Tx, NEW steps \in 0..MaxHold, NEW v,
         _settle(t, steps) \/ NothingToSettle(t, steps, v)
  PROVE  /\ CreditsNext \/ UNCHANGED creditVars
         /\ hold'[t] = 0 /\ minted' = minted
         /\ cost'[t] <= cost[t] + (IF t \in settled THEN 0 ELSE steps)
         /\ \A u \in Tx \ {t} : LedgerKeeps(u)
<1>c. ASSUME UNCHANGED cost
      PROVE  cost'[t] <= cost[t] + (IF t \in settled THEN 0 ELSE steps)
  BY <1>c DEF CreditsTypeOK
<1>1. CASE steps = 0 /\ t \in minted /\ rollback(t)
  <2>1. hold'[t] = 0 /\ minted' = minted /\ \A u \in Tx \ {t} : LedgerKeeps(u)
    BY <1>1 DEF rollback, Release, LedgerKeeps
  <2>2. QED BY <1>1, <1>c, <2>1 DEF CreditsNext, rollback
<1>2. CASE steps > 0 /\ t \in minted /\ commit(t, steps)
  <2>1. hold'[t] = 0 /\ minted' = minted /\ \A u \in Tx \ {t} : LedgerKeeps(u)
    BY <1>2 DEF commit, Release, LedgerKeeps, OpenOrSettled, CreditsTypeOK
  <2>2. cost'[t] <= cost[t] + (IF t \in settled THEN 0 ELSE steps)
    <3>1. CASE t \in settled
      BY <1>2, <1>c, <3>1 DEF commit
    <3>2. CASE t \notin settled
      <4>1. Refreshed \in Nat /\ cost[t] \in Nat
        BY RefreshedType DEF CreditsTypeOK
      <4>2. cost'[t] = cost[t] + (Refreshed - Less(Refreshed, steps))
        BY <1>2, <3>2 DEF commit, SetBalance, CreditsTypeOK
      <4>3. QED BY <3>2, <4>1, <4>2 DEF Less
    <3>3. QED BY <3>1, <3>2
  <2>3. QED BY <1>2, <2>1, <2>2 DEF CreditsNext, Amounts
<1>3. CASE steps > 0 /\ t \notin minted /\ charge(steps)
  <2>1. hold[t] = 0
    BY <1>3 DEF OpenOrSettled, CreditsTypeOK
  <2>2. hold'[t] = 0 /\ minted' = minted /\ \A u \in Tx \ {t} : LedgerKeeps(u)
    BY <1>3, <2>1 DEF charge, LedgerKeeps
  <2>3. QED BY <1>3, <1>c, <2>2 DEF CreditsNext, Amounts, charge
<1>4. CASE t \notin minted /\ NothingToSettle(t, steps, v)
  <2>1. hold[t] = 0
    BY <1>4 DEF OpenOrSettled, CreditsTypeOK
  <2>2. CASE get_balance
    BY <1>c, <2>1, <2>2 DEF get_balance, LedgerKeeps, CreditsNext
  <2>3. CASE UNCHANGED creditVars
    BY <1>c, <2>1, <2>3 DEF creditVars, LedgerKeeps
  <2>4. QED BY <1>4, <2>2, <2>3 DEF NothingToSettle
<1>5. QED
  BY <1>1, <1>2, <1>3, <1>4 DEF _settle, NothingToSettle, HasTx

----------------------------------------------------------------------------
(* The ways a turn ends.                                                   *)

\* Ending a turn bills what it may and leaves the other turns as they were.
LEMMA EndStep ==
  ASSUME IInv, NEW t \in Tx, pc[t] \in Running, NEW steps \in 0..MaxHold, NEW v,
         v \in Verdicts \ {"none", "blocked"},
         steps <= calls[t], shown[t] => steps >= 1,
         End(t, steps, v), Counted(t)',
         \A u \in Tx \ {t} : UNCHANGED <<own[u], pending[u]>>,
         UNCHANGED <<calls, shown, text, lastRound, swept>>
  PROVE  TurnInv' /\ (CreditsNext \/ UNCHANGED creditVars)
<1>1. /\ CreditsNext \/ UNCHANGED creditVars
      /\ hold'[t] = 0 /\ minted' = minted
      /\ cost'[t] <= cost[t] + (IF t \in settled THEN 0 ELSE steps)
      /\ \A u \in Tx \ {t} : LedgerKeeps(u)
  BY Settles DEF End, IInv, MeteredTypeOK
<1>2. /\ pc' = [pc EXCEPT ![t] = "done"]
      /\ billed' = [billed EXCEPT ![t] = IF t \in settled THEN 0 ELSE steps]
      /\ verdict' = [verdict EXCEPT ![t] = v]
  BY DEF End
<1>t. /\ pc \in [Tx -> Running \cup {"idle", "done"}] /\ verdict \in [Tx -> Verdicts]
      /\ billed \in [Tx -> Nat] /\ calls \in [Tx -> Nat]
  BY DEF IInv, MeteredTypeOK
<1>3. ASSUME NEW u \in Tx \ {t} PROVE OneTurn(u)'
  <2>1. TurnKeeps(u)
    BY <1>2, <1>t DEF TurnKeeps
  <2>2. QED BY <1>1, <2>1, Framed DEF IInv, TurnInv
<1>4. OneTurn(t)'
  <2>1. pc'[t] = "done" /\ verdict'[t] = v
    BY <1>2, <1>t
  <2>2. Budgeted(t)'
    BY <2>1 DEF Budgeted, IInv, TurnInv, OneTurn
  <2>3. Covered(t)'
    BY <1>1, <2>1 DEF Covered, Running
  <2>4. t \in settled => t \in swept
    BY DEF IInv, TurnInv, OneTurn, Covered
  <2>5. billed'[t] = IF t \in settled THEN 0 ELSE steps
    BY <1>2, <1>t
  <2>6. Billed(t)'
    <3>1. cost[t] = 0
      BY DEF IInv, TurnInv, OneTurn, Covered, Running
    <3>2. cost'[t] <= billed'[t]
      BY <1>1, <2>5, <3>1
    <3>3. QED BY <1>t, <2>1, <2>4, <2>5, <3>2 DEF Billed, Ended
  <2>7. QED BY <2>2, <2>3, <2>6 DEF OneTurn
<1>5. QED BY <1>1, <1>3, <1>4 DEF TurnInv

\* The counters of a turn that ends without a new step stay as they were.
LEMMA CountedKept ==
  ASSUME IInv, NEW t \in Tx, UNCHANGED <<calls, own, pending, shown, text>>, pc'[t] = "done"
  PROVE  Counted(t)'
  BY DEF Counted, PendingStep, IInv, TurnInv, OneTurn

LEMMA FailStep ==
  ASSUME IInv, NEW t \in Tx, pc[t] \in Running, NEW v,
         v \in Verdicts \ {"none", "blocked"}, End(t, Seen(t), v),
         UNCHANGED <<calls, own, pending, shown, text, lastRound, swept>>
  PROVE  TurnInv' /\ (CreditsNext \/ UNCHANGED creditVars)
<1>1. pc'[t] = "done"
  BY DEF End, IInv, MeteredTypeOK
<1>2. Counted(t)'
  BY <1>1, CountedKept
<1>3. QED BY <1>2, StepsFit, EndStep

LEMMA AnswerStep ==
  ASSUME IInv, NEW t \in Tx, pc[t] \in Running, NEW d \in BOOLEAN, Answer(t, d),
         d => calls[t] >= 1, Counted(t)',
         \A u \in Tx \ {t} : UNCHANGED <<own[u], pending[u]>>,
         UNCHANGED <<calls, shown, text, lastRound, swept>>
  PROVE  TurnInv' /\ (CreditsNext \/ UNCHANGED creditVars)
<1> DEFINE steps == charged_steps(calls[t], d)
<1>1. PICK v \in {"answered", "answered_at_zero"} : End(t, steps, v)
  BY DEF Answer
<1>2. calls[t] \in 0..MaxHold /\ steps \in 0..MaxHold
  BY StepsFit
<1>3. shown[t] => calls[t] >= 1
  BY DEF IInv, TurnInv, OneTurn, Counted
<1>4. steps <= calls[t] /\ (shown[t] => steps >= 1)
  BY <1>2, <1>3 DEF charged_steps
<1>5. QED BY <1>1, <1>2, <1>4, EndStep DEF Verdicts

----------------------------------------------------------------------------
(* Every step preserves the invariant and is a step of the ledger.         *)

\* An action that touches one turn and not the ledger.
LEMMA OneTurnStep ==
  ASSUME IInv, NEW t \in Tx, OneTurn(t)', UNCHANGED creditVars,
         \A u \in Tx \ {t} : TurnKeeps(u)
  PROVE  TurnInv'
<1>1. ASSUME NEW u \in Tx \ {t} PROVE OneTurn(u)'
  BY <1>1, Framed DEF creditVars, LedgerKeeps, IInv, TurnInv
<1>2. QED BY <1>1 DEF TurnInv

\* Starting a turn: blocked, with a hold, or without one.
LEMMA StartStep ==
  ASSUME IInv, NEW t \in Tx, Start(t)
  PROVE  TurnInv' /\ CreditsNext
<1>t. /\ pc \in [Tx -> Running \cup {"idle", "done"}] /\ verdict \in [Tx -> Verdicts]
      /\ hold \in [Tx -> 0..MaxHold] /\ minted \subseteq Tx
  BY DEF IInv, MeteredTypeOK, CreditsTypeOK
<1>0. pc[t] = "idle" /\ t \notin minted /\ t \notin settled /\ OneTurn(t)
  BY DEF Start, IInv, TurnInv, OneTurn, Covered, OpenOrSettled
<1>1. UNCHANGED <<calls, own, pending, shown, text, lastRound, billed, swept, settled, cost>>
  BY DEF Start, get_balance, reserve, reserve_refused
<1>2. CreditsNext /\ \A u \in Tx \ {t} : LedgerKeeps(u)
  <2>1. CASE get_balance \/ reserve_refused(COST_STEP)
    BY <2>1, HoldAssumption
       DEF get_balance, reserve_refused, LedgerKeeps, CreditsNext, Amounts, COST_STEP
  <2>2. CASE reserve(t, COST_STEP)
    <3>1. COST_STEP \in Amounts \ {0}
      BY HoldAssumption DEF Amounts, COST_STEP
    <3>2. CreditsNext
      BY <2>2, <3>1 DEF CreditsNext
    <3>3. \A u \in Tx \ {t} : LedgerKeeps(u)
      BY <2>2, <1>t DEF reserve, LedgerKeeps
    <3>4. QED BY <3>2, <3>3
  <2>3. QED BY <2>1, <2>2 DEF Start
<1>3. ASSUME NEW u \in Tx \ {t} PROVE OneTurn(u)'
  <2>1. TurnKeeps(u)
    BY <1>t, <1>1 DEF Start, Goto, TurnKeeps
  <2>2. QED BY <1>2, <2>1, Framed DEF IInv, TurnInv
<1>4. OneTurn(t)'
  <2>1. CASE pc'[t] = "walk" /\ UNCHANGED verdict
    BY <2>1, <1>0, <1>1 DEF OneTurn, Counted, Budgeted, Covered, Billed, PendingStep,
                            Ended, Running
  <2>2. CASE pc'[t] = "done" /\ verdict'[t] = "blocked" /\ get_balance
    BY <2>2, <1>0, <1>1, <1>t
       DEF OneTurn, Counted, Budgeted, Covered, Billed, PendingStep, Ended, Running,
           get_balance, IInv, OpenOrSettled
  <2>3. QED BY <2>1, <2>2, <1>t DEF Start, Goto
<1>5. QED BY <1>2, <1>3, <1>4 DEF TurnInv

\* The actions that neither start nor end a turn.
LEMMA RunningStep ==
  ASSUME IInv, NEW t \in Tx, UNCHANGED creditVars,
         \/ Stop(t) \/ TryCandidate(t) \/ LeaveRound(t) \/ Token(t)
         \/ CallDoneTools(t) \/ ToolsDone(t) \/ CandidateFails(t)
  PROVE  TurnInv'
<1> USE DEF IInv, MeteredTypeOK
<1>0. OneTurn(t)
  BY DEF TurnInv
<1>h. UNCHANGED <<hold, minted, settled, cost>>
  BY DEF creditVars
<1>1. \A u \in Tx \ {t} : TurnKeeps(u)
  BY DEF TurnKeeps, Stop, TryCandidate, LeaveRound, Token, CallDoneTools, ToolsDone,
         CandidateFails, Goto, FinishStep
<1>2. Covered(t)'
  BY <1>0, <1>h DEF OneTurn, Covered, Stop, TryCandidate, LeaveRound, Token,
         CallDoneTools, ToolsDone, CandidateFails, Goto, FinishStep, Running
<1>3. Billed(t)'
  BY <1>0, <1>h DEF OneTurn, Billed, Ended, Stop, TryCandidate, LeaveRound, Token,
         CallDoneTools, ToolsDone, CandidateFails, Goto, FinishStep, Running
<1>4. Budgeted(t)'
  BY <1>0, TurnAssumption
     DEF OneTurn, Budgeted, Stop, TryCandidate, LeaveRound, Token,
         CallDoneTools, ToolsDone, CandidateFails, Goto, FinishStep, OverBudget
<1>5. Counted(t)'
  BY <1>0 DEF OneTurn, Counted, PendingStep, Stop, TryCandidate, LeaveRound, Token,
         CallDoneTools, ToolsDone, CandidateFails, Goto, FinishStep
<1>6. QED BY <1>1, <1>2, <1>3, <1>4, <1>5, OneTurnStep DEF OneTurn

\* A model call starts, and the hold may grow.
LEMMA StartCallStep ==
  ASSUME IInv, NEW t \in Tx, StartCall(t)
  PROVE  TurnInv' /\ (CreditsNext \/ UNCHANGED creditVars)
<1> USE DEF IInv, MeteredTypeOK
<1>0. OneTurn(t) /\ pc[t] = "round"
  BY DEF TurnInv, StartCall
<1>1. /\ CreditsNext \/ UNCHANGED creditVars
      /\ UNCHANGED <<minted, settled, cost>>
      /\ \A u \in Tx \ {t} : LedgerKeeps(u)
  <2>1. CASE reserve_more(t, COST_STEP)
    <3>1. COST_STEP \in Amounts \ {0}
      BY HoldAssumption DEF Amounts, COST_STEP
    <3>2. CreditsNext
      BY <2>1, <3>1 DEF CreditsNext
    <3>3. QED BY <2>1, <3>2 DEF reserve_more, LedgerKeeps, CreditsTypeOK
  <2>2. CASE UNCHANGED creditVars
    BY <2>2 DEF creditVars, LedgerKeeps
  <2>3. QED BY <2>1, <2>2 DEF StartCall
<1>2. ASSUME NEW u \in Tx \ {t} PROVE OneTurn(u)'
  <2>1. TurnKeeps(u)
    BY DEF StartCall, Goto, TurnKeeps
  <2>2. QED BY <1>1, <2>1, Framed DEF TurnInv
<1>3. /\ pc'[t] = "stream" /\ calls'[t] = calls[t] + 1
      /\ lastRound'[t] = (lastRound[t] \/ OverBudget(t))
      /\ ~(OverBudget(t) /\ lastRound[t])
      /\ UNCHANGED <<own, pending, shown, text, billed, verdict, swept>>
  BY DEF StartCall, Goto
<1>4. Counted(t)'
  BY <1>0, <1>3 DEF OneTurn, Counted, PendingStep
<1>5. Budgeted(t)'
  <2>1. calls[t] \in Nat /\ calls'[t] = calls[t] + 1
    BY <1>3
  <2>2. calls[t] <= MaxRounds
    BY <1>0, <1>3, <2>1, TurnAssumption DEF OneTurn, Budgeted, OverBudget
  <2>3. calls[t] >= MaxRounds => lastRound'[t]
    BY <1>3 DEF OverBudget
  <2>4. QED BY <2>1, <2>2, <2>3, TurnAssumption DEF Budgeted
<1>6. Covered(t)'
  BY <1>0, <1>1, <1>3 DEF OneTurn, Covered, Running
<1>7. Billed(t)'
  BY <1>0, <1>1, <1>3 DEF OneTurn, Billed, Ended
<1>8. QED BY <1>1, <1>2, <1>4, <1>5, <1>6, <1>7 DEF TurnInv, OneTurn

\* A call ends without tool calls: the answer, or the next candidate.
LEMMA CallDoneFinalStep ==
  ASSUME IInv, NEW t \in Tx, CallDoneFinal(t)
  PROVE  TurnInv' /\ (CreditsNext \/ UNCHANGED creditVars)
<1> USE DEF IInv, MeteredTypeOK
<1>0. OneTurn(t) /\ pc[t] = "stream" /\ calls[t] >= 1
  BY DEF TurnInv, CallDoneFinal, OneTurn, Counted
<1>1. /\ own' = [own EXCEPT ![t] = @ + 1] /\ pending' = [pending EXCEPT ![t] = FALSE]
      /\ UNCHANGED <<calls, shown, text, lastRound, swept>>
  BY DEF CallDoneFinal, FinishStep
<1>2. pc'[t] # "stream"
  BY DEF CallDoneFinal, Answer, End, Goto
<1>3. Counted(t)'
  BY <1>0, <1>1, <1>2 DEF OneTurn, Counted, PendingStep
<1>4. CASE Answer(t, TRUE)
  <2>1. \A u \in Tx \ {t} : UNCHANGED <<own[u], pending[u]>>
    BY <1>1
  <2>2. QED BY <1>0, <1>1, <1>3, <1>4, <2>1, AnswerStep DEF Running
<1>5. CASE Goto(t, "walk") /\ UNCHANGED <<creditVars, billed, verdict>>
  <2>1. \A u \in Tx \ {t} : TurnKeeps(u)
    BY <1>1, <1>5 DEF Goto, TurnKeeps
  <2>2. Budgeted(t)' /\ Billed(t)'
    BY <1>0, <1>1, <1>5 DEF OneTurn, Budgeted, Billed, Ended, Goto, creditVars
  <2>3. Covered(t)'
    BY <1>0, <1>1, <1>5 DEF OneTurn, Covered, Goto, creditVars, Running
  <2>4. QED BY <1>3, <1>5, <2>1, <2>2, <2>3, OneTurnStep DEF OneTurn
<1>6. QED BY <1>4, <1>5 DEF CallDoneFinal

\* The exits that bill without finishing a step.
LEMMA ExitStep ==
  ASSUME IInv, NEW t \in Tx,
         NoRouter(t) \/ WalkEnds(t) \/ ConnectionDrops(t) \/ CallRaises(t) \/ HardCancel(t)
  PROVE  TurnInv' /\ (CreditsNext \/ UNCHANGED creditVars)
<1>0. /\ pc[t] \in Running
      /\ UNCHANGED <<calls, own, pending, shown, text, lastRound, swept>>
  BY DEF NoRouter, WalkEnds, ConnectionDrops, CallRaises, HardCancel, Running
<1>1. text[t] => calls[t] >= 1
  BY DEF IInv, TurnInv, OneTurn, Counted
<1>2. ASSUME NEW d \in BOOLEAN, Answer(t, d), d => calls[t] >= 1
      PROVE  TurnInv' /\ (CreditsNext \/ UNCHANGED creditVars)
  <2>1. pc'[t] = "done"
    BY <1>2 DEF Answer, End, IInv, MeteredTypeOK
  <2>2. Counted(t)'
    BY <1>0, <2>1, CountedKept
  <2>3. QED BY <1>0, <1>2, <2>2, AnswerStep
<1>3. ASSUME NEW v \in {"failed", "cancelled"}, End(t, Seen(t), v)
      PROVE  TurnInv' /\ (CreditsNext \/ UNCHANGED creditVars)
  BY <1>0, <1>3, FailStep DEF Verdicts
<1>4. CASE WalkEnds(t)
  <2>1. OverBudget(t) => calls[t] >= 1
    BY TurnAssumption DEF OverBudget, IInv, MeteredTypeOK
  <2>2. (Answer(t, TRUE) /\ calls[t] >= 1) \/ Answer(t, FALSE) \/ Fail(t)
    BY <1>1, <1>4, <2>1 DEF WalkEnds
  <2>3. QED BY <1>2, <1>3, <2>2 DEF Fail
<1>5. CASE ConnectionDrops(t)
  BY <1>1, <1>2, <1>3, <1>5 DEF ConnectionDrops, Fail
<1>6. CASE NoRouter(t) \/ CallRaises(t) \/ HardCancel(t)
  BY <1>3, <1>6 DEF NoRouter, CallRaises, HardCancel, Fail
<1>7. QED BY <1>4, <1>5, <1>6

\* The crash ends every running turn and empties the ledger's memory.
LEMMA AppRestartStep ==
  ASSUME IInv, AppRestart
  PROVE  TurnInv' /\ CreditsNext
<1>1. CreditsNext
  BY DEF AppRestart, CreditsNext
<1>2. ASSUME NEW u \in Tx PROVE OneTurn(u)'
  <2> USE DEF IInv, MeteredTypeOK
  <2>1. /\ pc'[u] = IF pc[u] \in Running THEN "done" ELSE pc[u]
        /\ pc'[u] \notin Running
        /\ hold'[u] = 0 /\ settled' = {} /\ minted' = minted /\ cost' = cost
        /\ UNCHANGED <<calls, own, pending, shown, text, lastRound, billed, verdict, swept>>
    BY DEF AppRestart, Restart, Running
  <2>2. OneTurn(u)
    BY DEF TurnInv
  <2>3. Counted(u)' /\ Billed(u)'
    BY <2>1, <2>2 DEF OneTurn, Counted, PendingStep, Billed, Ended, Running
  <2>4. Covered(u)'
    BY <2>1, <2>2 DEF OneTurn, Covered, Running
  <2>5. Budgeted(u)'
    BY <2>1, <2>2 DEF OneTurn, Budgeted, Running
  <2>6. QED BY <2>3, <2>4, <2>5 DEF OneTurn
<1>3. QED BY <1>1, <1>2 DEF TurnInv

\* Whatever the ledger does by itself, and its sweep.
LEMMA LedgerStep ==
  ASSUME IInv, Ledger \/ SweepHolds
  PROVE  TurnInv' /\ CreditsNext
<1>1. CreditsNext
  BY DEF Ledger, SweepHolds, CreditsNext
<1>2. CASE Ledger
  <2>1. \A u \in Tx : LedgerKeeps(u) /\ TurnKeeps(u)
    BY <1>2 DEF Ledger, add_credits, Tick, Midnight, LicenceChange, Flush, turnVars,
                LedgerKeeps, TurnKeeps
  <2>2. QED BY <1>1, <2>1, Framed DEF IInv, TurnInv
<1>3. CASE SweepHolds
  <2>1. ASSUME NEW u \in Tx PROVE OneTurn(u)'
    <3>1. /\ hold'[u] = (IF u \in Expired THEN 0 ELSE hold[u]) /\ minted' = minted /\ cost' = cost
          /\ settled' = settled \cup Expired /\ swept' = swept \cup Expired
          /\ UNCHANGED <<pc, calls, own, pending, shown, text, lastRound, billed, verdict>>
      BY <1>3 DEF SweepHolds, sweep_expired_holds, Release
    <3>2. OneTurn(u)
      BY DEF IInv, TurnInv
    <3>3. Counted(u)' /\ Budgeted(u)'
      BY <3>1, <3>2 DEF OneTurn, Counted, PendingStep, Budgeted
    <3>4. Covered(u)'
      BY <3>1, <3>2 DEF OneTurn, Covered
    <3>5. Billed(u)'
      BY <3>1, <3>2 DEF OneTurn, Billed, Ended
    <3>6. QED BY <3>3, <3>4, <3>5 DEF OneTurn
  <2>2. QED BY <1>1, <2>1 DEF TurnInv
<1>4. QED BY <1>2, <1>3

LEMMA TurnStep ==
  IInv /\ [Next]_vars => TurnInv' /\ [CreditsNext]_creditVars
<1> SUFFICES ASSUME IInv, [Next]_vars
             PROVE  TurnInv' /\ (CreditsNext \/ UNCHANGED creditVars)
  OBVIOUS
<1>1. ASSUME NEW t \in Tx,
             \/ Stop(t) \/ TryCandidate(t) \/ LeaveRound(t) \/ Token(t)
             \/ CallDoneTools(t) \/ ToolsDone(t) \/ CandidateFails(t)
      PROVE  TurnInv' /\ UNCHANGED creditVars
  <2>1. UNCHANGED creditVars
    BY <1>1 DEF Stop, TryCandidate, LeaveRound, Token, CallDoneTools, ToolsDone,
                CandidateFails
  <2>2. QED BY <1>1, <2>1, RunningStep
<1>2. ASSUME NEW t \in Tx, Start(t) \/ Stop(t) \/ HardCancel(t) \/ Progress(t)
      PROVE  TurnInv' /\ (CreditsNext \/ UNCHANGED creditVars)
  BY <1>1, <1>2, StartStep, StartCallStep, CallDoneFinalStep, ExitStep DEF Progress
<1>3. CASE UNCHANGED vars
  <2>1. \A u \in Tx : LedgerKeeps(u) /\ TurnKeeps(u)
    BY <1>3 DEF vars, creditVars, turnVars, LedgerKeeps, TurnKeeps
  <2>2. UNCHANGED creditVars
    BY <1>3 DEF vars
  <2>3. QED BY <2>1, <2>2, Framed DEF IInv, TurnInv
<1>4. QED BY <1>2, <1>3, LedgerStep, AppRestartStep DEF Next

----------------------------------------------------------------------------
(* Types.                                                                  *)

\* What an end does to the turn's own variables.
LEMMA EndTypes ==
  ASSUME IInv, NEW t \in Tx, NEW steps \in Nat, NEW v \in Verdicts, End(t, steps, v)
  PROVE  /\ pc' \in [Tx -> Running \cup {"idle", "done"}]
         /\ billed' \in [Tx -> Nat] /\ verdict' \in [Tx -> Verdicts]
  BY DEF End, IInv, MeteredTypeOK

LEMMA AnswerTypes ==
  ASSUME IInv, NEW t \in Tx, NEW d \in BOOLEAN, Answer(t, d)
  PROVE  /\ pc' \in [Tx -> Running \cup {"idle", "done"}]
         /\ billed' \in [Tx -> Nat] /\ verdict' \in [Tx -> Verdicts]
<1>1. charged_steps(calls[t], d) \in Nat
  BY StepsFit, HoldAssumption
<1>2. PICK v \in Verdicts : End(t, charged_steps(calls[t], d), v)
  BY DEF Answer, Verdicts
<1>3. QED BY <1>1, <1>2, EndTypes

LEMMA FailTypes ==
  ASSUME IInv, NEW t \in Tx, NEW v \in Verdicts, End(t, Seen(t), v)
  PROVE  /\ pc' \in [Tx -> Running \cup {"idle", "done"}]
         /\ billed' \in [Tx -> Nat] /\ verdict' \in [Tx -> Verdicts]
  BY StepsFit, HoldAssumption, EndTypes

\* Setting one flag of a turn.
LEMMA FlagType == ASSUME NEW f \in [Tx -> BOOLEAN], NEW t \in Tx, NEW b \in BOOLEAN
                  PROVE  [f EXCEPT ![t] = b] \in [Tx -> BOOLEAN]
  OBVIOUS

\* A poll sets or keeps the turn's cancel flag.
LEMMA PolledType == ASSUME MeteredTypeOK, NEW t \in Tx, Polled(t)
                    PROVE  cancel' \in [Tx -> BOOLEAN]
<1>1. (cancel[t] \/ stop[t]) \in BOOLEAN
  OBVIOUS
<1>2. cancel \in [Tx -> BOOLEAN]
  BY DEF MeteredTypeOK
<1>3. cancel' = [cancel EXCEPT ![t] = cancel[t] \/ stop[t]]
  BY <1>2, Zenon DEF Polled
<1>4. QED BY <1>1, <1>2, <1>3, FlagType

LEMMA TurnTypes == IInv /\ [Next]_vars => MeteredTypeOK'
<1> SUFFICES ASSUME IInv, [Next]_vars PROVE MeteredTypeOK'
  OBVIOUS
<1>0. CreditsTypeOK'
  BY TurnStep, TypeStep DEF IInv, MeteredTypeOK
<1>t. MeteredTypeOK
  BY DEF IInv
<1>1. ASSUME NEW t \in Tx,
             NoRouter(t) \/ WalkEnds(t) \/ ConnectionDrops(t) \/ CallRaises(t) \/ HardCancel(t)
      PROVE  MeteredTypeOK'
  <2>1. \/ \E d \in BOOLEAN : Answer(t, d)
        \/ \E v \in Verdicts : End(t, Seen(t), v)
    BY <1>1 DEF NoRouter, WalkEnds, ConnectionDrops, CallRaises, HardCancel, Fail, Verdicts
  <2>2. /\ pc' \in [Tx -> Running \cup {"idle", "done"}]
        /\ billed' \in [Tx -> Nat] /\ verdict' \in [Tx -> Verdicts]
    BY <2>1, AnswerTypes, FailTypes
  <2>3. UNCHANGED <<left, calls, own, pending, shown, text, lastRound, stop, cancel, swept>>
    BY <1>1 DEF NoRouter, WalkEnds, ConnectionDrops, CallRaises, HardCancel
  <2>4. QED BY <1>0, <1>t, <2>2, <2>3 DEF MeteredTypeOK
<1>2. ASSUME NEW t \in Tx, CallDoneFinal(t) PROVE MeteredTypeOK'
  <2>1. /\ pc' \in [Tx -> Running \cup {"idle", "done"}]
        /\ billed' \in [Tx -> Nat] /\ verdict' \in [Tx -> Verdicts]
    BY <1>2, <1>t, AnswerTypes DEF CallDoneFinal, Goto, MeteredTypeOK, Running
  <2>2. own' \in [Tx -> Nat] /\ pending' \in [Tx -> BOOLEAN]
    BY <1>t, <1>2 DEF CallDoneFinal, FinishStep, MeteredTypeOK
  <2>3. UNCHANGED <<left, calls, shown, text, lastRound, stop, cancel, swept>>
    BY <1>2 DEF CallDoneFinal
  <2>4. QED BY <1>0, <1>t, <2>1, <2>2, <2>3 DEF MeteredTypeOK
<1>3. ASSUME NEW t \in Tx, Start(t) PROVE MeteredTypeOK'
  BY <1>0, <1>t, <1>3 DEF Start, Goto, MeteredTypeOK, Running, Verdicts
<1>4. ASSUME NEW t \in Tx, TryCandidate(t) PROVE MeteredTypeOK'
  <2>1. left' \in [Tx -> 0..Candidates]
    BY <1>t, <1>4, TurnAssumption DEF TryCandidate, MeteredTypeOK
  <2>2. /\ pc' \in [Tx -> Running \cup {"idle", "done"}]
        /\ text' \in [Tx -> BOOLEAN] /\ lastRound' \in [Tx -> BOOLEAN]
    BY <1>t, <1>4, FlagType DEF TryCandidate, Goto, MeteredTypeOK, Running
  <2>3. UNCHANGED <<calls, own, pending, shown, stop, cancel, billed, verdict, swept>>
    BY <1>4 DEF TryCandidate
  <2>4. QED BY <1>0, <1>t, <2>1, <2>2, <2>3 DEF MeteredTypeOK
<1>5. ASSUME NEW t \in Tx, Stop(t) \/ LeaveRound(t) \/ ToolsDone(t) \/ CandidateFails(t)
      PROVE  MeteredTypeOK'
  <2>1. pc' \in [Tx -> Running \cup {"idle", "done"}]
    BY <1>t, <1>5 DEF Stop, LeaveRound, ToolsDone, CandidateFails, Goto, MeteredTypeOK, Running
  <2>2. {stop', cancel', text'} \subseteq [Tx -> BOOLEAN]
    <3>1. CASE LeaveRound(t)
      <4>1. cancel' \in [Tx -> BOOLEAN]
        BY <1>t, <3>1, PolledType DEF LeaveRound
      <4>2. QED BY <1>t, <3>1, <4>1 DEF LeaveRound, MeteredTypeOK
    <3>2. CASE Stop(t) \/ ToolsDone(t) \/ CandidateFails(t)
      BY <1>t, <3>2 DEF Stop, ToolsDone, CandidateFails, MeteredTypeOK
    <3>3. QED BY <1>5, <3>1, <3>2
  <2>3. UNCHANGED <<left, calls, own, pending, shown, lastRound, billed, verdict,
                    swept>>
    BY <1>5 DEF Stop, LeaveRound, ToolsDone, CandidateFails
  <2>4. QED BY <1>0, <1>t, <2>1, <2>2, <2>3 DEF MeteredTypeOK
<1>6. ASSUME NEW t \in Tx, StartCall(t) PROVE MeteredTypeOK'
  BY <1>0, <1>t, <1>6 DEF StartCall, Goto, OverBudget, MeteredTypeOK, Running
<1>7. ASSUME NEW t \in Tx, Token(t) PROVE MeteredTypeOK'
  <2>1. pc' \in [Tx -> Running \cup {"idle", "done"}]
    BY <1>t, <1>7 DEF Token, Goto, MeteredTypeOK, Running
  <2>2. {pending', shown', text', cancel'} \subseteq [Tx -> BOOLEAN]
    <3>1. cancel' \in [Tx -> BOOLEAN]
      BY <1>t, <1>7, PolledType DEF Token
    <3>2. {pending', shown', text'} \subseteq [Tx -> BOOLEAN]
      <4>1. {pending, shown, text} \subseteq [Tx -> BOOLEAN]
        BY <1>t DEF MeteredTypeOK
      <4>2. \/ UNCHANGED <<pending, shown, text>>
            \/ /\ pending' = [pending EXCEPT ![t] = TRUE]
               /\ shown' = [shown EXCEPT ![t] = TRUE]
               /\ text' = [text EXCEPT ![t] = TRUE]
        BY <1>7 DEF Token
      <4>3. QED BY <4>1, <4>2
    <3>3. QED BY <3>1, <3>2
  <2>3. UNCHANGED <<left, calls, own, lastRound, stop, billed, verdict, swept>>
    BY <1>7 DEF Token
  <2>4. QED BY <1>0, <1>t, <2>1, <2>2, <2>3 DEF MeteredTypeOK
<1>8. ASSUME NEW t \in Tx, CallDoneTools(t) PROVE MeteredTypeOK'
  BY <1>0, <1>t, <1>8 DEF CallDoneTools, FinishStep, Goto, MeteredTypeOK, Running
<1>9. CASE AppRestart
  BY <1>0, <1>t, <1>9 DEF AppRestart, MeteredTypeOK
<1>10. CASE Ledger
  BY <1>0, <1>t, <1>10 DEF Ledger, turnVars, MeteredTypeOK
<1>11. CASE SweepHolds
  BY <1>0, <1>t, <1>11 DEF SweepHolds, Expired, MeteredTypeOK
<1>12. CASE UNCHANGED vars
  BY <1>0, <1>t, <1>12 DEF vars, turnVars, MeteredTypeOK
<1>13. QED
  BY <1>1, <1>2, <1>3, <1>4, <1>5, <1>6, <1>7, <1>8, <1>9, <1>10, <1>11, <1>12
     DEF Next, Progress

----------------------------------------------------------------------------
(* The theorems.                                                           *)

LEMMA Invariance == Spec => []IInv
<1>1. Init => IInv
  <2> SUFFICES ASSUME Init PROVE IInv
    OBVIOUS
  <2>1. CreditsTypeOK /\ OpenOrSettled
    BY TypeInit DEF Init, CreditsInit, OpenOrSettled
  <2>2. MeteredTypeOK
    BY <2>1, TurnAssumption DEF Init, TurnInit, MeteredTypeOK, Running, Verdicts
  <2>3. TurnInv
    BY TurnAssumption
       DEF Init, TurnInit, CreditsInit, TurnInv, OneTurn, Counted, Budgeted, Covered, Billed,
           PendingStep, Ended, Running
  <2>4. QED BY <2>1, <2>2, <2>3 DEF IInv
<1>2. IInv /\ [Next]_vars => IInv'
  BY TurnStep, TurnTypes, OpenOrSettledStep DEF IInv, MeteredTypeOK
<1>3. QED BY <1>1, <1>2, PTL DEF Spec

\* Turns use the ledger only through its operations and within its bounds, so
\* everything proved of the ledger holds under any number of interleaved turns.
THEOREM TurnsUseTheLedger == Spec => CreditsSpec
<1>1. Init => CreditsInit
  BY DEF Init
<1>2. IInv /\ [Next]_vars => [CreditsNext]_creditVars
  BY TurnStep
<1>3. QED BY <1>1, <1>2, Invariance, PTL DEF Spec, CreditsSpec

\* The turns' state always has its types, the ledger's among them.
THEOREM TurnTypeCorrect == Spec => []MeteredTypeOK
<1>1. IInv => MeteredTypeOK
  BY DEF IInv
<1>2. QED BY <1>1, Invariance, PTL

\* However a turn ends, settled, cancelled or killed, no hold outlives it.
THEOREM NoStrandedHold == Spec => []HoldsBelongToRunningTurns
<1>1. IInv => HoldsBelongToRunningTurns
  BY DEF IInv, TurnInv, OneTurn, Covered, HoldsBelongToRunningTurns
<1>2. QED BY <1>1, Invariance, PTL

\* The two step counters, run_turn's and run_metered_turn's, never bill more
\* model calls than were made, the ledger takes no more than the bill, and the
\* budget bounds the calls of the whole walk, not of one candidate.
THEOREM NeverOverbilled == Spec => []BillWithinBudget
<1>1. IInv => BilledAtMostCalls
  BY DEF IInv, TurnInv, OneTurn, Billed, BilledAtMostCalls
<1>2. IInv => BudgetIsPerTurn
  BY DEF IInv, TurnInv, OneTurn, Budgeted, BudgetIsPerTurn
<1>3. IInv => BillWithinBudget
  BY <1>1, <1>2 DEF BillWithinBudget
<1>4. QED BY <1>3, Invariance, PTL

\* The floor rule, with the sweep's write-off as its only exception.
THEOREM FloorRuleHolds == Spec => []FloorRule
<1>1. IInv => FloorRule
  BY DEF IInv, TurnInv, OneTurn, Billed, FloorRule
<1>2. QED BY <1>1, Invariance, PTL

----------------------------------------------------------------------------
(* How long a turn can run *)

\* What a turn may still do: the calls and the candidates it has left, and within
\* a call what its stream can still show.
ToShow(t) == (IF pending[t] THEN 0 ELSE 1) + (IF shown[t] THEN 0 ELSE 1) + (IF text[t] THEN 0 ELSE 1)
StepsOfCall(t) == CASE pc[t] = "stream" -> 4 + ToShow(t)
                    [] pc[t] = "tools" -> 3
                    [] pc[t] \in {"round", "idle"} -> 2
                    [] pc[t] = "walk" -> 1
                    [] OTHER -> 0
Work(t) == 8 * ((MaxRounds + 1 - calls[t]) + left[t]) + StepsOfCall(t)

WorkRunsOut ==
  \A t \in Tx : Work(t)' <= Work(t) /\ (Progress(t) => Work(t)' < Work(t))

SameWork(t) ==
  /\ calls'[t] = calls[t] /\ left'[t] = left[t] /\ pc'[t] = pc[t]
  /\ pending'[t] = pending[t] /\ shown'[t] = shown[t] /\ text'[t] = text[t]

LEMMA WorkIsNumber == IInv => \A t \in Tx : Work(t) \in Nat
  BY TurnAssumption DEF IInv, MeteredTypeOK, TurnInv, OneTurn, Budgeted, Work, StepsOfCall, ToShow

LEMMA WorkStays == ASSUME NEW t \in Tx, SameWork(t) PROVE Work(t)' = Work(t)
  BY DEF SameWork, Work, StepsOfCall, ToShow

\* A step of turn u is work of u alone.
LEMMA WorkOfOne ==
  ASSUME IInv, NEW u \in Tx, Start(u) \/ Stop(u) \/ HardCancel(u) \/ Progress(u)
  PROVE  \A t \in Tx \ {u} : SameWork(t)
<1> USE DEF IInv, MeteredTypeOK
<1>1. CASE Start(u) \/ Stop(u) \/ HardCancel(u)
  BY <1>1 DEF Start, Stop, HardCancel, End, Goto, SameWork
<1>2. CASE TryCandidate(u)
  BY <1>2 DEF TryCandidate, Goto, SameWork
<1>3. CASE NoRouter(u)
  BY <1>3 DEF NoRouter, Answer, Fail, End, SameWork
<1>4. CASE WalkEnds(u)
  BY <1>4 DEF WalkEnds, Answer, Fail, End, SameWork
<1>5. CASE StartCall(u)
  BY <1>5 DEF StartCall, Goto, SameWork
<1>6. CASE LeaveRound(u)
  BY <1>6 DEF LeaveRound, Goto, SameWork
<1>7. CASE ToolsDone(u)
  BY <1>7 DEF ToolsDone, Goto, SameWork
<1>8. CASE Token(u)
  BY <1>8 DEF Token, Goto, SameWork
<1>9. CASE CallDoneTools(u)
  BY <1>9 DEF CallDoneTools, FinishStep, Goto, SameWork
<1>10. CASE CallDoneFinal(u)
  BY <1>10 DEF CallDoneFinal, Answer, Fail, End, FinishStep, Goto, SameWork
<1>11. CASE CandidateFails(u)
  BY <1>11 DEF CandidateFails, Goto, SameWork
<1>12. CASE ConnectionDrops(u)
  BY <1>12 DEF ConnectionDrops, Answer, Fail, End, SameWork
<1>13. CASE CallRaises(u)
  BY <1>13 DEF CallRaises, Answer, Fail, End, SameWork
<1>14. QED BY <1>1, <1>2, <1>3, <1>4, <1>5, <1>6, <1>7, <1>8, <1>9, <1>10, <1>11, <1>12, <1>13 DEF Progress

LEMMA SetAlready ==
  ASSUME NEW f \in [Tx -> BOOLEAN], NEW t \in Tx, f[t] = TRUE PROVE [f EXCEPT ![t] = TRUE] = f
  OBVIOUS

\* Each step of a turn takes something off what it may still do.
LEMMA WorkFalls ==
  ASSUME IInv, NEW t \in Tx, Progress(t), vars' # vars
  PROVE  Work(t)' < Work(t)
<1> USE DEF IInv, MeteredTypeOK, Running
<1>1. /\ calls[t] \in Nat /\ left[t] \in Nat /\ MaxRounds \in Nat
      /\ {pending[t], shown[t], text[t]} \subseteq BOOLEAN
  BY TurnAssumption
<1>2. ToShow(t) \in 0..3
  BY DEF ToShow
<1> DEFINE Ends == pc[t] \in Running /\ pc'[t] = "done" /\ calls'[t] = calls[t] /\ left'[t] = left[t]
<1>3. ASSUME Ends PROVE Work(t)' < Work(t)
  BY <1>1, <1>2, <1>3 DEF Work, StepsOfCall
<1>4. CASE TryCandidate(t)
  <2>1. pc[t] = "walk" /\ pc'[t] \in {"walk", "round"} /\ calls'[t] = calls[t] /\ left'[t] = left[t] - 1
    BY <1>4 DEF TryCandidate, Goto
  <2>2. QED BY <1>1, <1>2, <2>1 DEF Work, StepsOfCall
<1>5. CASE NoRouter(t)
  <2>1. Ends
    BY <1>5 DEF NoRouter, Answer, Fail, End
  <2>2. QED BY <1>3, <2>1
<1>6. CASE WalkEnds(t)
  <2>1. Ends
    BY <1>6 DEF WalkEnds, Answer, Fail, End
  <2>2. QED BY <1>3, <2>1
<1>7. CASE StartCall(t)
  <2>1. pc[t] = "round" /\ pc'[t] = "stream" /\ calls'[t] = calls[t] + 1 /\ left'[t] = left[t]
    BY <1>7 DEF StartCall, Goto
  <2>2. ToShow(t)' \in 0..3
    BY DEF ToShow
  <2>3. QED BY <1>1, <2>1, <2>2 DEF Work, StepsOfCall
<1>8. CASE LeaveRound(t)
  <2>1. pc[t] \in {"round", "tools"} /\ pc'[t] = "walk" /\ calls'[t] = calls[t] /\ left'[t] = left[t]
    BY <1>8 DEF LeaveRound, Goto
  <2>2. QED BY <1>1, <1>2, <2>1 DEF Work, StepsOfCall
<1>9. CASE ToolsDone(t)
  <2>1. pc[t] = "tools" /\ pc'[t] = "round" /\ calls'[t] = calls[t] /\ left'[t] = left[t]
    BY <1>9 DEF ToolsDone, Goto
  <2>2. QED BY <1>1, <1>2, <2>1 DEF Work, StepsOfCall
<1>10. CASE Token(t)
  <2>1. calls'[t] = calls[t] /\ left'[t] = left[t] /\ pc[t] = "stream"
    BY <1>10 DEF Token
  <2>2. CASE stop[t]
    <3>1. pc'[t] = "walk"
      BY <1>10, <2>2 DEF Token, Goto
    <3>2. QED BY <1>1, <1>2, <2>1, <3>1 DEF Work, StepsOfCall
  <2>3. CASE ~stop[t]
    <3>1. pc'[t] = "stream" /\ pending'[t] /\ shown'[t] /\ text'[t]
      BY <1>10, <2>1, <2>3 DEF Token
    <3>2. ~(pending[t] /\ shown[t] /\ text[t])
      <4> SUFFICES ASSUME pending[t], shown[t], text[t] PROVE FALSE
        OBVIOUS
      <4>1. pending' = pending /\ shown' = shown /\ text' = text
        <5>1. pending[t] = TRUE /\ shown[t] = TRUE /\ text[t] = TRUE
          BY <1>1
        <5>2. /\ pending' = [pending EXCEPT ![t] = TRUE] /\ shown' = [shown EXCEPT ![t] = TRUE]
              /\ text' = [text EXCEPT ![t] = TRUE]
          BY <1>10, <2>3 DEF Token
        <5>3. {pending, shown, text} \subseteq [Tx -> BOOLEAN]
          OBVIOUS
        <5>4. QED BY ONLY <5>1, <5>2, <5>3, SetAlready
      <4>2. cancel' = cancel
        BY <1>10, <2>3 DEF Token, Polled
      <4>3. UNCHANGED <<creditVars, pc, left, calls, own, lastRound, stop, billed, verdict, swept>>
        BY <1>10, <2>3 DEF Token
      <4>4. QED BY <4>1, <4>2, <4>3 DEF vars, turnVars
    <3>3. ToShow(t) >= 1 /\ ToShow(t)' = 0
      BY <1>1, <3>1, <3>2 DEF ToShow
    <3>4. QED BY <1>1, <1>2, <2>1, <3>1, <3>3 DEF Work, StepsOfCall
  <2>4. QED BY <2>2, <2>3
<1>11. CASE CallDoneTools(t)
  <2>1. pc[t] = "stream" /\ pc'[t] = "tools" /\ calls'[t] = calls[t] /\ left'[t] = left[t]
    BY <1>11 DEF CallDoneTools, Goto
  <2>2. QED BY <1>1, <1>2, <2>1 DEF Work, StepsOfCall
<1>12. CASE CallDoneFinal(t)
  <2>1. pc[t] = "stream" /\ pc'[t] \in {"walk", "done"} /\ calls'[t] = calls[t] /\ left'[t] = left[t]
    BY <1>12 DEF CallDoneFinal, Answer, End, Goto
  <2>2. QED BY <1>1, <1>2, <2>1 DEF Work, StepsOfCall
<1>13. CASE CandidateFails(t)
  <2>1. pc[t] = "stream" /\ pc'[t] = "walk" /\ calls'[t] = calls[t] /\ left'[t] = left[t]
    BY <1>13 DEF CandidateFails, Goto
  <2>2. QED BY <1>1, <1>2, <2>1 DEF Work, StepsOfCall
<1>14. CASE ConnectionDrops(t)
  <2>1. Ends
    BY <1>14 DEF ConnectionDrops, Answer, Fail, End
  <2>2. QED BY <1>3, <2>1
<1>15. CASE CallRaises(t)
  <2>1. Ends
    BY <1>15 DEF CallRaises, Answer, Fail, End
  <2>2. QED BY <1>3, <2>1
<1>16. QED
  BY <1>4, <1>5, <1>6, <1>7, <1>8, <1>9, <1>10, <1>11, <1>12, <1>13, <1>14, <1>15 DEF Progress

\* Whoever steps, no turn is given work back.
LEMMA WorkStep == IInv /\ [Next]_vars => [WorkRunsOut]_vars
<1> SUFFICES ASSUME IInv, Next, vars' # vars PROVE WorkRunsOut
  OBVIOUS
<1>1. \A t \in Tx : Work(t) \in Nat
  BY WorkIsNumber
<1>2. ASSUME NEW u \in Tx, Start(u) \/ Stop(u) \/ HardCancel(u) \/ Progress(u)
      PROVE  \A t \in Tx : Work(t)' <= Work(t)
  <2>1. \A t \in Tx \ {u} : Work(t)' = Work(t)
    BY <1>2, WorkOfOne, WorkStays
  <2>2. Work(u)' <= Work(u)
    <3>1. CASE Progress(u)
      <4>1. Work(u)' < Work(u)
        BY <3>1, WorkFalls
      <4>2. Work(u)' \in Int
        <5>1. MeteredTypeOK'
          BY TurnTypes
        <5>2. QED BY <5>1, TurnAssumption DEF MeteredTypeOK, Work, StepsOfCall, ToShow
      <4>3. QED BY <1>1, <4>1, <4>2
    <3>2. CASE Start(u) \/ Stop(u) \/ HardCancel(u)
      <4> USE DEF IInv, MeteredTypeOK, Running
      <4>1. /\ calls[u] \in Nat /\ left[u] \in Nat /\ MaxRounds \in Nat
            /\ {pending[u], shown[u], text[u]} \subseteq BOOLEAN /\ ToShow(u) \in 0..3
        BY TurnAssumption DEF ToShow
      <4>2. CASE Start(u)
        <5>1. pc[u] = "idle" /\ pc'[u] \in {"walk", "done"} /\ calls'[u] = calls[u] /\ left'[u] = left[u]
          BY <4>2 DEF Start, Goto
        <5>2. QED BY <4>1, <5>1 DEF Work, StepsOfCall
      <4>3. CASE Stop(u)
        <5>1. SameWork(u)
          BY <4>3 DEF Stop, SameWork
        <5>2. QED BY <1>1, <5>1, WorkStays
      <4>4. CASE HardCancel(u)
        <5>1. pc[u] \in Running /\ pc'[u] = "done" /\ calls'[u] = calls[u] /\ left'[u] = left[u]
          BY <4>4 DEF HardCancel, End
        <5>2. QED BY <4>1, <5>1 DEF Work, StepsOfCall
      <4>5. QED BY <3>2, <4>2, <4>3, <4>4
    <3>3. QED BY <1>2, <3>1, <3>2
  <2>3. QED BY <1>1, <2>1, <2>2
<1>3. ASSUME Ledger \/ SweepHolds PROVE \A t \in Tx : Work(t)' <= Work(t)
  <2>1. UNCHANGED <<pc, calls, left, pending, shown, text>>
    BY <1>3 DEF Ledger, SweepHolds, turnVars
  <2>2. \A t \in Tx : SameWork(t)
    BY <2>1 DEF SameWork
  <2>3. QED BY <1>1, <2>2, WorkStays
<1>4. ASSUME AppRestart PROVE \A t \in Tx : Work(t)' <= Work(t)
  <2>1. ASSUME NEW t \in Tx PROVE Work(t)' <= Work(t)
    <3>1. CASE pc[t] \notin Running
      <4>1. SameWork(t)
        BY <1>4, <3>1 DEF AppRestart, SameWork, IInv, MeteredTypeOK
      <4>2. QED BY <1>1, <4>1, WorkStays
    <3>2. CASE pc[t] \in Running
      <4>1. pc'[t] = "done" /\ calls'[t] = calls[t] /\ left'[t] = left[t]
        BY <1>4, <3>2 DEF AppRestart
      <4>2. /\ calls[t] \in Nat /\ left[t] \in Nat /\ MaxRounds \in Nat
            /\ {pending[t], shown[t], text[t]} \subseteq BOOLEAN /\ ToShow(t) \in 0..3
        BY TurnAssumption DEF ToShow, IInv, MeteredTypeOK
      <4>3. QED BY <3>2, <4>1, <4>2 DEF Work, StepsOfCall, Running
    <3>3. QED BY <3>1, <3>2
  <2>2. QED BY <2>1
<1>5. \A t \in Tx : Work(t)' <= Work(t)
  BY <1>2, <1>3, <1>4 DEF Next
<1>6. \A t \in Tx : Progress(t) => Work(t)' < Work(t)
  BY WorkFalls
<1>7. QED BY <1>5, <1>6 DEF WorkRunsOut

\* A turn is over after so many steps of its own as its budget of calls and its list
\* of candidates allow: each of them takes from a number that nothing ever raises
\* (the loops of run_turn, for any budget and any list).
THEOREM TurnsRunOut == Spec => [](\A t \in Tx : Work(t) \in Nat) /\ [][WorkRunsOut]_vars
<1>1. IInv => \A t \in Tx : Work(t) \in Nat
  BY WorkIsNumber
<1>2. IInv /\ [Next]_vars => [WorkRunsOut]_vars
  BY WorkStep
<1>3. QED BY <1>1, <1>2, Invariance, PTL DEF Spec

\* The account of CreditAccount is kept under any number of interleaved turns: what the
\* turns do to the ledger, ending, failing, cancelled or killed, opens a ticket or
\* closes one, once.
THEOREM TurnsKeepTheAccount == Spec => ImplementsAccount /\ []OpenOrSettled
<1>1. QED BY TurnsUseTheLedger, Refinement, SettlementExclusive, PTL
=============================================================================
