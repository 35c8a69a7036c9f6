--------------------------- MODULE CreditAccount ---------------------------
(***************************************************************************)
(* What the assistant's credit ledger promises, with no holds, no ages and *)
(* no sweep: a purse that is refilled at most once a day, and tickets (one *)
(* per reserved turn) that are opened once, closed once, and can move the  *)
(* purse only in the step that closes them.                                *)
(***************************************************************************)
EXTENDS Naturals

CONSTANTS Ticket,      \* one ticket per reserved turn
          Refills      \* the amounts a daily refill may set the purse to

VARIABLES purse,       \* credits left
          refilled,    \* the day the purse was last refilled, 0 = never
          today,       \* the current UTC day
          saved,       \* what a restart will read back: purse and refill day
          ticket,      \* ticket -> "none" | "open" | "closed" | "lost"
          cost         \* ticket -> what it took from the purse

accountVars == <<purse, refilled, today, saved, ticket, cost>>

\* The purse an operation starts from: yesterday's is replaced, today's is kept.
Opening(p) == \/ refilled = today /\ p = purse
              \/ refilled # today /\ p \in Refills

Init == /\ purse = 0
        /\ refilled = 0
        /\ today = 1
        /\ saved = [purse |-> 0, refilled |-> 0]
        /\ ticket = [t \in Ticket |-> "none"]
        /\ cost = [t \in Ticket |-> 0]

\* Any operation may find a new day and refill first.
Settled(p) == purse' = p /\ refilled' = today

Refill == \E p \in Refills \cup {purse} :
             Opening(p) /\ Settled(p) /\ UNCHANGED <<today, saved, ticket, cost>>

OpenTicket(t) == /\ ticket[t] = "none"
                 /\ \E p \in Refills \cup {purse} : Opening(p) /\ Settled(p)
                 /\ ticket' = [ticket EXCEPT ![t] = "open"]
                 /\ UNCHANGED <<today, saved, cost>>

\* The only way a ticket costs anything: it is open, and this step closes it
\* and takes from the purse exactly what the ticket costs.
CloseTicket(t) == /\ ticket[t] = "open"
                  /\ \E p \in Refills \cup {purse} :
                       /\ Opening(p)
                       /\ \E left \in 0..p : /\ Settled(left)
                                             /\ cost' = [cost EXCEPT ![t] = p - left]
                  /\ ticket' = [ticket EXCEPT ![t] = "closed"]
                  /\ UNCHANGED <<today, saved>>

\* Stale tickets are written off together and cost nothing.
WriteOff == /\ \E p \in Refills \cup {purse} : Opening(p) /\ Settled(p)
            /\ \E stale \in SUBSET {t \in Ticket : ticket[t] = "open"} :
                 ticket' = [t \in Ticket |-> IF t \in stale THEN "closed"
                                             ELSE ticket[t]]
            /\ UNCHANGED <<today, saved, cost>>

\* A turn without a ticket pays directly.
PayDirect == /\ \E p \in Refills \cup {purse} :
                  Opening(p) /\ \E left \in 0..p : Settled(left)
             /\ UNCHANGED <<today, saved, ticket, cost>>

\* Credits granted outside the daily refill (an advert watched to the end).
Grant == /\ \E p \in Refills \cup {purse} : Opening(p) /\ purse' >= p
         /\ purse' \in Nat
         /\ refilled' = today
         /\ UNCHANGED <<today, saved, ticket, cost>>

NextDay == /\ today' = today + 1
           /\ UNCHANGED <<purse, refilled, saved, ticket, cost>>

Save == /\ saved' = [purse |-> purse, refilled |-> refilled]
        /\ UNCHANGED <<purse, refilled, today, ticket, cost>>

\* The process dies: open tickets are lost with it, the purse is what was saved.
Restart == /\ purse' = saved.purse
           /\ refilled' = saved.refilled
           /\ ticket' = [t \in Ticket |-> IF ticket[t] = "none" THEN "none"
                                          ELSE "lost"]
           /\ UNCHANGED <<today, saved, cost>>

Next == \/ Refill \/ WriteOff \/ PayDirect \/ Grant
        \/ NextDay \/ Save \/ Restart
        \/ \E t \in Ticket : OpenTicket(t) \/ CloseTicket(t)

Spec == Init /\ [][Next]_accountVars
=============================================================================
