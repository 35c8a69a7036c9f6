------------------------------- MODULE Router -------------------------------
(***************************************************************************)
(* services/router.py with the loop of services/router_watchdog.py: which  *)
(* port the app sends its model calls to, the server it embeds when no     *)
(* router is there, and what the screens are told.  Callers overlap at     *)
(* every await: each probe of a port, each health check, the download of   *)
(* the engine.  What listens on the ports is the environment.              *)
(***************************************************************************)
EXTENDS Naturals

CONSTANTS Caller,      \* turns and "Start router" taps that may overlap
          Watchdog,    \* the status loop, which also makes the call at boot
          Span,        \* ports 1..Span stand for 8082..8092
          EngineSees,  \* the ports where acquire_server finds a router to attach to
          MaxCalls,    \* bound: calls of turns and taps
          MaxEvents    \* bound: changes around the app, slow answers included

ASSUME RouterAssumption == /\ Span \in Nat \ {0}
                           /\ EngineSees \subseteq 1..Span
                           /\ Watchdog \notin Caller
                           /\ MaxCalls \in Nat /\ MaxEvents \in Nat

Port == 1..Span
NoPort == 0
Process == Caller \cup {Watchdog}

VARIABLES
  listener,        \* port -> who answers there; "foreign" answers /health, but not as a router
  router_server,   \* _router_server, as its port; NoPort = None
  router_port,     \* _router_port
  probe_miss,      \* _probe_miss_until is in the future
  router_failed,   \* _router_failed_until is in the future
  ai_router,       \* state.ai_router_status and state.ai_router_port
  last,            \* the watchdog's _last; Unseen = None
  pc,              \* process -> the await it is at
  kind,            \* process -> the call it makes
  at,              \* process -> the port it probes, checks or sends to
  calls, events    \* how much of the two bounds is used

ownVars == <<router_server, router_port, probe_miss, router_failed>>
shownVars == <<ai_router, last>>
procVars == <<pc, kind, at>>
boundVars == <<calls, events>>
vars == <<listener, ownVars, shownVars, procVars, boundVars>>

Report(status, port) == [status |-> status, port |-> port]
Unseen == Report("unseen", NoPort)

Kiri(p) == listener[p] \in {"user", "embedded"}
Answers(p) == listener[p] # "free"

Init == /\ listener = [p \in Port |-> "free"]
        /\ router_server = NoPort
        /\ router_port = NoPort
        /\ probe_miss = FALSE
        /\ router_failed = FALSE
        /\ ai_router = Report("starting", NoPort)
        /\ last = Unseen
        /\ pc = [c \in Process |-> IF c = Watchdog THEN "boot" ELSE "idle"]
        /\ kind = [c \in Process |-> IF c = Watchdog THEN "boot" ELSE "turn"]
        /\ at = [c \in Process |-> NoPort]
        /\ calls = 0
        /\ events = 0

Goto(c, place, p) == /\ pc' = [pc EXCEPT ![c] = place]
                     /\ at' = [at EXCEPT ![c] = p]
_publish_status(status, port) == ai_router' = Report(status, port)

\* A call comes back with port p: a turn sends its request there.
Return(c, p) == IF kind[c] = "turn" /\ p # NoPort THEN Goto(c, "request", p)
                                                 ELSE Goto(c, "idle", NoPort)

Event == events < MaxEvents /\ events' = events + 1
\* The answer to a probe or health check of port p: yes, no, or too late.
Yes(p) == Answers(p) /\ UNCHANGED events
No(p) == (~Answers(p) /\ UNCHANGED events) \/ (Answers(p) /\ Event)

----------------------------------------------------------------------------
(* ensure_router, from its first line to its return.                       *)

\* Mutant of stop_router: the server object is dropped, never shut down.
StopDropsOnly == /\ router_server' = NoPort
                 /\ router_port' = NoPort
                 /\ UNCHANGED listener

\* Only an embedded server is shut down; the remembered port goes in any case.
stop_router == /\ router_server' = NoPort
               /\ router_port' = NoPort
               /\ listener' = [p \in Port |-> IF p = router_server THEN "free" ELSE listener[p]]

\* Nobody found: what we still hold is taken for dead, and the engine is fetched.
\* The screens are told only if there was a server to stop.
Missed(c, shown) == /\ stop_router
                    /\ ai_router' = IF router_server = NoPort THEN shown
                                                             ELSE Report("stopped", NoPort)
                    /\ Goto(c, "load", NoPort)

\* No port is held: the scan, or its remembered miss, which needs no await.
Attach(c) == IF probe_miss
             THEN Missed(c, Report("starting", NoPort))
             ELSE /\ _publish_status("starting", NoPort)
                  /\ Goto(c, "scan", 1)
                  /\ UNCHANGED <<listener, router_server, router_port>>

\* The hot path trusts the port it holds.
ensure_router(c) == IF router_port # NoPort
                    THEN /\ Return(c, router_port)
                         /\ UNCHANGED <<listener, router_server, router_port, ai_router>>
                    ELSE Attach(c)

Call(c, k) == /\ c \in Caller /\ pc[c] = "idle" /\ calls < MaxCalls
              /\ calls' = calls + 1
              /\ kind' = [kind EXCEPT ![c] = k]

Boot == /\ pc[Watchdog] = "boot"
        /\ ensure_router(Watchdog)
        /\ UNCHANGED <<probe_miss, router_failed, last, kind, boundVars>>

\* router_base outside a blackout.
TurnCalls(c) == /\ Call(c, "turn") /\ ~router_failed
                /\ IF router_port # NoPort
                   THEN /\ Goto(c, "request", router_port)
                        /\ UNCHANGED <<listener, router_server, router_port, ai_router>>
                   ELSE Attach(c)
                /\ UNCHANGED <<probe_miss, router_failed, last, events>>

\* router_base in a blackout: no port, no turn; a port is asked once more.
TurnInBlackout(c) == /\ Call(c, "turn") /\ router_failed
                     /\ IF router_port = NoPort THEN UNCHANGED <<pc, at>>
                                                ELSE Goto(c, "blackout", router_port)
                     /\ UNCHANGED <<listener, ownVars, shownVars, events>>

BlackoutLifts(c) == /\ pc[c] = "blackout" /\ Yes(at[c])
                    /\ router_failed' = FALSE
                    /\ ensure_router(c)
                    /\ UNCHANGED <<probe_miss, last, kind, calls>>

BlackoutStays(c) == /\ pc[c] = "blackout" /\ No(at[c])
                    /\ Goto(c, "idle", NoPort)
                    /\ UNCHANGED <<listener, ownVars, shownVars, kind, calls>>

\* The Start button: ensure_router(verify=True).
StartTapped(c) == /\ Call(c, "start")
                  /\ IF router_port # NoPort
                     THEN /\ Goto(c, "verify", router_port)
                          /\ UNCHANGED <<listener, router_server, router_port, ai_router>>
                     ELSE Attach(c)
                  /\ UNCHANGED <<probe_miss, router_failed, last, events>>

VerifiedAlive(c) == /\ pc[c] = "verify" /\ Yes(at[c])
                    /\ Return(c, at[c])
                    /\ UNCHANGED <<listener, ownVars, shownVars, kind, calls>>

\* The port is dead: forgotten, unless another call replaced it meanwhile, and
\* the remembered miss with it, so that the rescan is real.
VerifiedDead(c) == /\ pc[c] = "verify" /\ No(at[c])
                   /\ router_port' = IF router_port = at[c] THEN NoPort ELSE router_port
                   /\ probe_miss' = FALSE
                   /\ _publish_status("starting", NoPort)
                   /\ Goto(c, "scan", 1)
                   /\ UNCHANGED <<listener, router_server, router_failed, last, kind, calls>>

\* _probe_existing_router, one port per step: only a Kiri router is accepted.
Accepts(p) == Kiri(p) /\ UNCHANGED events
Refuses(p) == (~Kiri(p) /\ UNCHANGED events) \/ (Kiri(p) /\ Event)

ScanHit(c) == /\ pc[c] = "scan" /\ Accepts(at[c])
              /\ router_port' = at[c]
              /\ probe_miss' = FALSE
              /\ _publish_status("ready", at[c])
              /\ Return(c, at[c])
              /\ UNCHANGED <<listener, router_server, router_failed, last, kind, calls>>

ScanGoesOn(c) == /\ pc[c] = "scan" /\ at[c] < Span /\ Refuses(at[c])
                 /\ at' = [at EXCEPT ![c] = @ + 1]
                 /\ UNCHANGED <<listener, ownVars, shownVars, pc, kind, calls>>

ScanMisses(c) == /\ pc[c] = "scan" /\ at[c] = Span /\ Refuses(Span)
                 /\ probe_miss' = TRUE
                 /\ Missed(c, ai_router)
                 /\ UNCHANGED <<router_failed, last, kind, calls>>

\* The HTTP client cannot be built: nobody found, and no miss to remember.
ScanBreaks(c) == /\ pc[c] = "scan" /\ at[c] = 1 /\ Event
                 /\ Missed(c, ai_router)
                 /\ UNCHANGED <<probe_miss, router_failed, last, kind, calls>>

Lowest(ports) == CHOOSE p \in ports : \A q \in ports : p <= q
Running == {p \in EngineSees : Kiri(p)}
Free == {p \in Port : listener[p] = "free"}

\* acquire_server lost the race for the port: attach to the winner.
LoadAttaches(c) == /\ pc[c] = "load" /\ Running # {}
                   /\ router_port' = Lowest(Running)
                   /\ probe_miss' = FALSE
                   /\ _publish_status("ready", router_port')
                   /\ Return(c, router_port')
                   /\ UNCHANGED <<listener, router_server, router_failed, last, kind, boundVars>>

LoadEmbeds(c) == /\ pc[c] = "load" /\ Running = {} /\ Free # {}
                 /\ listener' = [listener EXCEPT ![Lowest(Free)] = "embedded"]
                 /\ router_server' = Lowest(Free)
                 /\ router_port' = Lowest(Free)
                 /\ probe_miss' = FALSE
                 /\ _publish_status("ready", Lowest(Free))
                 /\ Return(c, Lowest(Free))
                 /\ UNCHANGED <<router_failed, last, kind, boundVars>>

\* The blackout starts; the port is kept.
_mark_router_failed == /\ router_failed' = TRUE
                       /\ _publish_status("starting", router_port)
                       /\ UNCHANGED <<router_server, router_port, probe_miss>>

\* No engine, no free port, or any other failure to start.
LoadFails(c) == /\ pc[c] = "load"
                /\ _mark_router_failed
                /\ Goto(c, "idle", NoPort)
                /\ UNCHANGED <<listener, last, kind, boundVars>>

\* The turn's request: answered or walked away from, or refused by the port.
RequestEnds(c) == /\ pc[c] = "request"
                  /\ Goto(c, "idle", NoPort)
                  /\ UNCHANGED <<listener, ownVars, shownVars, kind, boundVars>>

RequestRefused(c) == /\ pc[c] = "request" /\ ~Answers(at[c])
                     /\ _mark_router_failed
                     /\ Goto(c, "idle", NoPort)
                     /\ UNCHANGED <<listener, last, kind, boundVars>>

----------------------------------------------------------------------------
(* The watchdog's loop, once its boot call has returned.                   *)

\* Mutant of Observe: only the first observation is compared and published.
ObserveOnce(status, port) == IF last = Unseen /\ Report(status, port) # ai_router
                             THEN last' = Report(status, port) /\ ai_router' = last'
                             ELSE UNCHANGED shownVars

\* Published only if it differs from the previous observation.
Observe(status, port) ==
  LET believed == IF last = Unseen THEN ai_router ELSE last IN
  IF Report(status, port) # believed
  THEN last' = Report(status, port) /\ ai_router' = last'
  ELSE UNCHANGED shownVars

Tick == /\ pc[Watchdog] = "idle"
        /\ IF router_port # NoPort
           THEN Goto(Watchdog, "look", router_port) /\ UNCHANGED shownVars
           ELSE IF probe_miss
           THEN Observe("unavailable", NoPort) /\ UNCHANGED <<pc, at>>
           ELSE Goto(Watchdog, "lookscan", 1) /\ UNCHANGED shownVars
        /\ UNCHANGED <<listener, ownVars, kind, boundVars>>

Look == /\ pc[Watchdog] = "look"
        /\ \/ Yes(at[Watchdog]) /\ Observe("ready", at[Watchdog])
           \/ No(at[Watchdog]) /\ Observe("stopped", at[Watchdog])
        /\ Goto(Watchdog, "idle", NoPort)
        /\ UNCHANGED <<listener, ownVars, kind, calls>>

\* A router found by the status loop is reported, not attached to.
LookScan == /\ pc[Watchdog] = "lookscan"
            /\ \/ /\ Accepts(at[Watchdog])
                  /\ probe_miss' = FALSE
                  /\ Observe("ready", at[Watchdog])
                  /\ Goto(Watchdog, "idle", NoPort)
               \/ /\ at[Watchdog] = Span /\ Refuses(Span)
                  /\ probe_miss' = TRUE
                  /\ Observe("unavailable", NoPort)
                  /\ Goto(Watchdog, "idle", NoPort)
               \/ /\ at[Watchdog] < Span /\ Refuses(at[Watchdog])
                  /\ at' = [at EXCEPT ![Watchdog] = @ + 1]
                  /\ UNCHANGED <<probe_miss, shownVars, pc>>
            /\ UNCHANGED <<listener, router_server, router_port, router_failed, kind, calls>>

----------------------------------------------------------------------------
(* Around the app.                                                         *)

\* The user's own router, or another program, comes and goes.
PortChanges(p) == /\ Event /\ listener[p] # "embedded"
                  /\ \E who \in {"free", "user", "foreign"} \ {listener[p]} :
                       listener' = [listener EXCEPT ![p] = who]
                  /\ UNCHANGED <<ownVars, shownVars, procVars, calls>>

MissExpires == /\ probe_miss /\ probe_miss' = FALSE
               /\ UNCHANGED <<listener, router_server, router_port, router_failed,
                              shownVars, procVars, boundVars>>

BlackoutExpires == /\ router_failed /\ router_failed' = FALSE
                   /\ UNCHANGED <<listener, router_server, router_port, probe_miss,
                                  shownVars, procVars, boundVars>>

----------------------------------------------------------------------------

Waits(c) == \/ BlackoutLifts(c) \/ BlackoutStays(c) \/ VerifiedAlive(c) \/ VerifiedDead(c)
            \/ ScanHit(c) \/ ScanGoesOn(c) \/ ScanMisses(c) \/ ScanBreaks(c)
            \/ LoadAttaches(c) \/ LoadEmbeds(c) \/ LoadFails(c)
            \/ RequestEnds(c) \/ RequestRefused(c)

Next == \/ Boot
        \/ \E c \in Caller : TurnCalls(c) \/ TurnInBlackout(c) \/ StartTapped(c)
        \/ \E c \in Process : Waits(c)
        \/ Tick \/ Look \/ LookScan
        \/ \E p \in Port : PortChanges(p)
        \/ MissExpires \/ BlackoutExpires

Spec == Init /\ [][Next]_vars

\* Every await has a time limit, the loop ticks, and deadlines pass.
Fairness == /\ WF_vars(Boot) /\ WF_vars(Tick) /\ WF_vars(Look) /\ WF_vars(LookScan)
            /\ WF_vars(MissExpires)
            /\ \A c \in Process : WF_vars(Waits(c))
FairSpec == Spec /\ Fairness

----------------------------------------------------------------------------

Reports == [status : {"starting", "ready", "stopped", "unavailable"}, port : Port \cup {NoPort}]

\* The types of the router's state and of its callers.
RouterTypeOK == /\ listener \in [Port -> {"free", "foreign", "user", "embedded"}]
                /\ router_server \in Port \cup {NoPort}
                /\ router_port \in Port \cup {NoPort}
                /\ probe_miss \in BOOLEAN /\ router_failed \in BOOLEAN
                /\ ai_router \in Reports /\ last \in Reports \cup {Unseen}
                /\ pc \in [Process -> {"boot", "idle", "blackout", "verify", "scan", "load",
                                       "request", "look", "lookscan"}]
                /\ kind \in [Process -> {"boot", "turn", "start"}]
                /\ at \in [Process -> Port \cup {NoPort}]
                /\ calls \in 0..MaxCalls /\ events \in 0..MaxEvents

\* "A re-embed can never leak the previous listener" (router.py:283-284): the
\* server object and the one listener it stands for exist together, although
\* calls overlap, probes fail on a live server and ports are forgotten.
OneServer == \A p \in Port : listener[p] = "embedded" <=> router_server = p

\* What probe_router would say of the ports as they are.
Truth == IF router_port # NoPort
         THEN Report(IF Answers(router_port) THEN "ready" ELSE "stopped", router_port)
         ELSE IF \E p \in Port : Kiri(p)
         THEN Report("ready", Lowest({p \in Port : Kiri(p)}))
         ELSE Report("unavailable", NoPort)
Observed == IF last = Unseen THEN ai_router ELSE last

\* Once the ports stay as they are, the status loop comes to know them, whatever
\* misses were remembered and whatever the calls did in between.
LoopLearnsTheTruth == <>[](Observed = Truth)
=============================================================================
