---------------------------- MODULE ServicesProofs ----------------------------
(***************************************************************************)
(* Proofs about Router, for any number of callers, ports, calls and events *)
(* around the app: no listener the app started is ever left running with   *)
(* nobody holding it.  The engine is taken at its word, EngineSees = Port: *)
(* acquire_server attaches to any router it could have found.  About       *)
(* KernelPrompts, for any number of executions and prompts: an answer is   *)
(* what was typed for it.  About Conversations, for any number of chats    *)
(* and any limit: which files may go, and which may come back.  And about  *)
(* Catalog, for any rows and failures: whom a turn asks, and in what order.*)
(***************************************************************************)
EXTENDS Router, KernelPrompts, Conversations, Catalog, PlacesProofs

----------------------------------------------------------------------------
(* Router *)

Inv == /\ DOMAIN listener = Port
       /\ listener = [p \in Port |-> listener[p]]
       /\ OneServer

(* Nothing listens at the start.                                           *)
LEMMA InitInv == Init => Inv
BY RouterAssumption DEF Init, Inv, OneServer, Port, NoPort

(* stop_router frees the one port that was embedded.                       *)
LEMMA StopKeepsInv ==
  ASSUME Inv, stop_router
  PROVE  Inv' /\ \A p \in Port : listener'[p] # "embedded"
BY RouterAssumption DEF Inv, OneServer, stop_router, Port, NoPort

(* Whether or not the call stops a server, it leaves at most the one held. *)
LEMMA AttachKeepsInv ==
  ASSUME Inv, NEW c, Attach(c) PROVE Inv'
<1>1. CASE stop_router
  BY <1>1, StopKeepsInv
<1>2. CASE UNCHANGED <<listener, router_server>>
  BY <1>2 DEF Inv, OneServer
<1> QED BY <1>1, <1>2 DEF Attach, Missed

(* Most steps leave the listeners and the held server alone.               *)
LEMMA IdleKeepsInv ==
  ASSUME Inv, UNCHANGED <<listener, router_server>> PROVE Inv'
BY DEF Inv, OneServer

(* Embedding happens only where no router answers anywhere, ours included. *)
LEMMA EmbedKeepsInv ==
  ASSUME EngineSees = Port, Inv, NEW c, LoadEmbeds(c) PROVE Inv'
<1>1. \A p \in Port : listener[p] # "embedded"
  BY DEF LoadEmbeds, Running, Kiri
<1>2. /\ listener' = [listener EXCEPT ![Lowest(Free)] = "embedded"]
      /\ router_server' = Lowest(Free)
  BY DEF LoadEmbeds
<1> QED BY <1>1, <1>2 DEF Inv, OneServer

(* The user's router and other programs never take an embedded port.       *)
LEMMA PortChangesKeepsInv ==
  ASSUME Inv, NEW p \in Port, PortChanges(p) PROVE Inv'
BY DEF Inv, OneServer, PortChanges, ownVars

LEMMA NextInv ==
  ASSUME EngineSees = Port PROVE Inv /\ [Next]_vars => Inv'
<1> SUFFICES ASSUME Inv, [Next]_vars PROVE Inv'
  OBVIOUS
<1>1. ASSUME NEW c, ensure_router(c) PROVE Inv'
  BY <1>1, AttachKeepsInv, IdleKeepsInv DEF ensure_router
<1>2. CASE Boot
  BY <1>2, <1>1 DEF Boot
<1>3. ASSUME NEW c \in Caller, TurnCalls(c) PROVE Inv'
  BY <1>3, AttachKeepsInv, IdleKeepsInv DEF TurnCalls
<1>4. ASSUME NEW c \in Caller, StartTapped(c) PROVE Inv'
  BY <1>4, AttachKeepsInv, IdleKeepsInv DEF StartTapped
<1>5. ASSUME NEW c \in Caller, TurnInBlackout(c) PROVE Inv'
  BY <1>5, IdleKeepsInv DEF TurnInBlackout, ownVars
<1>6. ASSUME NEW c \in Process, Waits(c) PROVE Inv'
  <2>1. CASE BlackoutLifts(c)
    BY <2>1, <1>1 DEF BlackoutLifts
  <2>2. CASE ScanMisses(c) \/ ScanBreaks(c)
    BY <2>2, StopKeepsInv DEF ScanMisses, ScanBreaks, Missed
  <2>3. CASE LoadEmbeds(c)
    BY <2>3, EmbedKeepsInv
  <2>4. CASE \/ BlackoutStays(c) \/ VerifiedAlive(c) \/ VerifiedDead(c)
             \/ ScanHit(c) \/ ScanGoesOn(c)
    BY <2>4, IdleKeepsInv
       DEF BlackoutStays, VerifiedAlive, VerifiedDead, ScanHit, ScanGoesOn, ownVars
  <2>5. CASE \/ LoadAttaches(c) \/ LoadFails(c) \/ RequestEnds(c) \/ RequestRefused(c)
    BY <2>5, IdleKeepsInv
       DEF LoadAttaches, LoadFails, RequestEnds, RequestRefused, _mark_router_failed, ownVars
  <2> QED BY <1>6, <2>1, <2>2, <2>3, <2>4, <2>5 DEF Waits
<1>7. CASE Tick \/ Look \/ LookScan
  BY <1>7, IdleKeepsInv DEF Tick, Look, LookScan, ownVars
<1>8. ASSUME NEW p \in Port, PortChanges(p) PROVE Inv'
  BY <1>8, PortChangesKeepsInv
<1>9. CASE MissExpires \/ BlackoutExpires \/ UNCHANGED vars
  BY <1>9, IdleKeepsInv DEF MissExpires, BlackoutExpires, vars, ownVars
<1> QED BY <1>2, <1>3, <1>4, <1>5, <1>6, <1>7, <1>8, <1>9 DEF Next

(* A re-embed never leaks the previous listener (router.py ensure_router,  *)
(* stop_router), however the calls, the probes and the downloads overlap.  *)
THEOREM RouterHoldsItsServer ==
  ASSUME EngineSees = Port PROVE Spec => []OneServer
<1>1. Inv => OneServer
  BY DEF Inv
<1>2. Inv /\ [Next]_vars => Inv'
  BY NextInv
<1> QED BY InitInv, <1>1, <1>2, PTL DEF Spec

----------------------------------------------------------------------------
(* KernelPrompts *)

PromptsTypes ==
  /\ job \in [Job -> [at : {"idle", "runs", "waits", "propagates", "ended"}, asked : Nat, tries : Nat]]
  /\ dialogs \in Seq(Job \X Nat)
  /\ value \in [Prompt -> Prompt \union {None}]
  /\ due \subseteq Prompt /\ submitted \subseteq Prompt /\ said \subseteq submitted

Asked(p) == p[2] <= job[p[1]].asked

DialogsAreAsked == \A i \in 1 .. Len(dialogs) : Asked(dialogs[i])

\* Nothing is on its way, on screen or submitted that was not asked for.
PromptsAreAsked ==
  /\ \A p \in due \union submitted : Asked(p)
  /\ DialogsAreAsked
  /\ \A a \in answers : a[1] \in Prompt /\ Asked(a[1]) /\ ~Waiting(a[1])

\* What a waiting thread will read is what was typed for it, if anything was.
ValuesAreTheirs ==
  \A p \in Prompt : Waiting(p) \/ ~Asked(p) => value[p] = IF p \in said THEN p ELSE None

RepliesAreTheirs == \A a \in answers : a[2] = IF a[1] \in said THEN a[1] ELSE None

OnScreen(p) == \E i \in 1 .. Len(dialogs) : dialogs[i] = p

WaitingAreShown == \A p \in Prompt \ (due \union submitted \union covered) : Waiting(p) => OnScreen(p)

PromptsInv == PromptsTypes /\ PromptsAreAsked /\ ValuesAreTheirs /\ RepliesAreTheirs /\ WaitingAreShown

LEMMA PromptsInitially == PromptsInit => PromptsInv
<1> SUFFICES ASSUME PromptsInit PROVE PromptsInv
  OBVIOUS
<1>1. PromptsTypes
  BY EmptySeq DEF PromptsInit, PromptsTypes
<1>2. PromptsAreAsked /\ ValuesAreTheirs /\ RepliesAreTheirs /\ WaitingAreShown
  BY DEF PromptsInit, PromptsAreAsked, DialogsAreAsked, ValuesAreTheirs, RepliesAreTheirs,
         WaitingAreShown, Waiting, Prompt
<1>3. QED BY <1>1, <1>2 DEF PromptsInv

\* The top dialog goes: the others stay on screen.
LEMMA TopGoes ==
  ASSUME PromptsTypes, PromptsAreAsked, dialogs # << >>, dialogs' = Popped,
         \A j \in Job : job'[j].asked = job[j].asked
  PROVE  /\ dialogs' \in Seq(Job \X Nat)
         /\ DialogsAreAsked'
         /\ \A p : p # Top /\ OnScreen(p) => OnScreen(p)'
         /\ Top \in Job \X Nat /\ Asked(Top)
<1> DEFINE n == Len(dialogs) - 1
<1>1. Len(dialogs) = n + 1 /\ n \in Nat /\ \A i \in 1 .. n + 1 : dialogs[i] \in Job \X Nat
  <2>1. Len(dialogs) \in Nat \ {0}
    BY EmptySeq DEF PromptsTypes
  <2>2. QED BY <2>1, ElementOfSeq DEF PromptsTypes
<1>2. Popped = SubSeq(dialogs, 1, n)
  BY DEF Popped
<1> HIDE DEF n
<1>3. /\ SubSeq(dialogs, 1, n) \in Seq(Job \X Nat)
      /\ Len(SubSeq(dialogs, 1, n)) = IF 1 <= n THEN n - 1 + 1 ELSE 0
      /\ \A i \in 1 .. n - 1 + 1 : SubSeq(dialogs, 1, n)[i] = dialogs[1 + i - 1]
  <2>1. 1 \in Int /\ n \in Int /\ \A i \in 1 .. n : dialogs[i] \in Job \X Nat
    BY <1>1
  <2>2. QED BY <2>1, SubSeqProperties
<1>4. /\ dialogs' \in Seq(Job \X Nat) /\ Len(dialogs') = n
      /\ \A i \in 1 .. n : dialogs'[i] = dialogs[i]
  <2>1. n - 1 + 1 = n /\ \A i \in 1 .. n : 1 + i - 1 = i
    BY <1>1
  <2>2. QED BY <1>1, <1>2, <1>3, <2>1
<1>5. \A i \in 1 .. n + 1 : Asked(dialogs[i])
  BY <1>1 DEF PromptsAreAsked, DialogsAreAsked
<1>6. DialogsAreAsked'
  BY <1>1, <1>4, <1>5 DEF Asked, DialogsAreAsked
<1>7. \A p : p # Top /\ OnScreen(p) => OnScreen(p)'
  BY <1>1, <1>4 DEF OnScreen, Top
<1>8. Top \in Job \X Nat /\ Asked(Top)
  BY <1>1, <1>5 DEF Top
<1>9. QED BY <1>4, <1>6, <1>7, <1>8

\* A dialog comes on top: the others stay on screen.
LEMMA DialogComes ==
  ASSUME PromptsTypes, PromptsAreAsked, NEW d \in Job \X Nat, Asked(d), dialogs' = Append(dialogs, d),
         UNCHANGED job
  PROVE  /\ dialogs' \in Seq(Job \X Nat)
         /\ DialogsAreAsked'
         /\ \A p : OnScreen(p) \/ p = d => OnScreen(p)'
<1>1. /\ dialogs' \in Seq(Job \X Nat) /\ Len(dialogs') = Len(dialogs) + 1 /\ Len(dialogs) \in Nat
      /\ \A i \in 1 .. Len(dialogs) : dialogs'[i] = dialogs[i]
      /\ dialogs'[Len(dialogs) + 1] = d
  BY AppendProperties, LenProperties DEF PromptsTypes
<1>2. DialogsAreAsked'
  <2>1. \A i \in 1 .. Len(dialogs') : Asked(dialogs'[i])
    BY <1>1 DEF PromptsAreAsked, DialogsAreAsked
  <2>2. QED BY <2>1 DEF DialogsAreAsked, Asked
<1>3. \A p : OnScreen(p) \/ p = d => OnScreen(p)'
  BY <1>1 DEF OnScreen
<1>4. QED BY <1>1, <1>2, <1>3

JobState == [at : {"idle", "runs", "waits", "propagates", "ended"}, asked : Nat, tries : Nat]

\* An execution goes on without a new prompt.
LEMMA JobGoes ==
  ASSUME PromptsTypes, NEW j \in Job, NEW r \in JobState, r.at # "waits", r.asked = job[j].asked,
         job' = [job EXCEPT ![j] = r]
  PROVE  /\ job' \in [Job -> JobState]
         /\ \A k \in Job : job'[k].asked = job[k].asked
         /\ \A p \in Prompt : Waiting(p)' => Waiting(p) /\ p[1] # j
  BY DEF PromptsTypes, JobState, Waiting, Current, Prompt

\* A step that leaves the prompts themselves alone: nobody begins to wait, what
\* is answered is what the prompt holds, and no waiting prompt goes uncovered.
LEMMA PromptsRest ==
  ASSUME PromptsInv, job' \in [Job -> JobState],
         \A k \in Job : job'[k].asked = job[k].asked,
         \A p \in Prompt : Waiting(p)' => Waiting(p),
         UNCHANGED <<due, value, submitted, said>>, covered \subseteq covered',
         \/ UNCHANGED answers
         \/ \E p \in Prompt : Waiting(p) /\ ~Waiting(p)' /\ answers' = answers \union {<<p, value[p]>>},
         dialogs' \in Seq(Job \X Nat), DialogsAreAsked',
         \A p \in Prompt : OnScreen(p) => OnScreen(p)' \/ p \in submitted \/ p \in covered'
  PROVE  PromptsInv'
<1>1. PromptsTypes'
  BY DEF PromptsInv, PromptsTypes, JobState, Prompt
<1>2. \A p \in Prompt : Asked(p)' <=> Asked(p)
  BY DEF Asked, Prompt
<1>3. PromptsAreAsked'
  <2>1. \A p \in due' \union submitted' : Asked(p)'
    BY <1>2 DEF PromptsInv, PromptsTypes, PromptsAreAsked
  <2>2. ASSUME NEW a \in answers' PROVE a[1] \in Prompt /\ Asked(a[1])' /\ ~Waiting(a[1])'
    <3>1. CASE a \in answers
      BY <1>2, <3>1 DEF PromptsInv, PromptsAreAsked
    <3>2. CASE \E p \in Prompt : Waiting(p) /\ ~Waiting(p)' /\ a = <<p, value[p]>>
      <4>1. PICK p \in Prompt : Waiting(p) /\ ~Waiting(p)' /\ a = <<p, value[p]>>
        BY <3>2
      <4>2. Asked(p)
        BY <4>1 DEF Waiting, Current, Asked, Prompt, PromptsInv, PromptsTypes
      <4>3. QED BY <1>2, <4>1, <4>2
    <3>3. QED BY <2>2, <3>1, <3>2
  <2>3. QED BY <2>1, <2>2 DEF PromptsAreAsked
<1>4. ValuesAreTheirs'
  BY <1>2 DEF PromptsInv, ValuesAreTheirs, Prompt
<1>5. RepliesAreTheirs'
  BY DEF PromptsInv, RepliesAreTheirs, ValuesAreTheirs
<1>6. WaitingAreShown'
  BY DEF PromptsInv, WaitingAreShown, Prompt
<1>7. QED BY <1>1, <1>3, <1>4, <1>5, <1>6 DEF PromptsInv

\* A new prompt has no value yet, and its dialog is on its way.
LEMMA PromptMade ==
  ASSUME PromptsInv, NEW j \in Job, show_stdin_dialog(j) PROVE PromptsInv'
<1>0. /\ job \in [Job -> JobState] /\ job[j] \in JobState /\ job[j].asked \in Nat
      /\ MaxAsks \in Nat /\ job[j].asked < MaxAsks
  BY KernelPromptsAssumption DEF show_stdin_dialog, PromptsInv, PromptsTypes, JobState
<1>a. PICK n \in Nat : n = job[j].asked + 1
  BY <1>0
<1>b. PICK new : new = <<j, n>>
  OBVIOUS
<1>c. PICK r : r = [job[j] EXCEPT !.at = "waits", !.asked = @ + 1]
  OBVIOUS
<1>1. /\ new \in Prompt /\ ~Asked(new)
      /\ r \in JobState /\ r.at = "waits" /\ r.asked = n /\ job' = [job EXCEPT ![j] = r]
  <2>1. n \in 1 .. MaxAsks
    BY <1>0, <1>a
  <2>2. r.at = "waits" /\ r.asked = n
    BY <1>0, <1>a, <1>c DEF JobState
  <2>3. job' = [job EXCEPT ![j] = [job[j] EXCEPT !.at = "waits", !.asked = @ + 1]]
    BY DEF show_stdin_dialog
  <2>4. r \in JobState
    <3>1. job[j].asked + 1 \in Nat
      BY <1>0
    <3>2. QED BY <1>0, <1>c, <3>1 DEF JobState
  <2>5. new \in Prompt
    BY <1>b, <2>1 DEF Prompt
  <2>6. ~Asked(new)
    BY <1>0, <1>a, <1>b DEF Asked
  <2>7. QED BY <1>c, <2>2, <2>3, <2>4, <2>5, <2>6
<1>2. /\ job' \in [Job -> JobState]
      /\ job'[j].asked = n /\ n = job[j].asked + 1 /\ job'[j].at = "waits"
      /\ \A k \in Job : k # j => job'[k] = job[k]
  BY <1>0, <1>1, <1>a
<1>3. \A p \in Prompt : (Waiting(p)' <=> p = new \/ (p[1] # j /\ Waiting(p)))
  BY <1>1, <1>2, <1>b DEF Waiting, Current, Prompt
<1>4. /\ \A p \in Job \X Nat : Asked(p) => Asked(p)'
      /\ Asked(new)' /\ \A p \in Prompt : Asked(p)' => Asked(p) \/ p = new
  <2>1. \A k \in Job : job[k].asked \in Nat /\ (k # j => job'[k].asked = job[k].asked)
    BY <1>0, <1>2 DEF JobState
  <2>2. ASSUME NEW p \in Job \X Nat PROVE Asked(p) => Asked(p)'
    BY <1>2, <2>1 DEF Asked
  <2>3. Asked(new)'
    BY <1>2, <1>b DEF Asked
  <2>4. ASSUME NEW p \in Prompt, Asked(p)' PROVE Asked(p) \/ p = new
    <3>1. p[1] \in Job /\ p[2] \in Nat /\ p = <<p[1], p[2]>>
      BY <1>0 DEF Prompt
    <3>2. CASE p[1] = j
      BY <1>0, <1>2, <1>b, <2>4, <3>1, <3>2 DEF Asked
    <3>3. CASE p[1] # j
      BY <2>1, <2>4, <3>1, <3>3 DEF Asked
    <3>4. QED BY <3>2, <3>3
  <2>5. QED BY <2>2, <2>3, <2>4
<1>5. due' = due \union {new} /\ UNCHANGED <<dialogs, entry, answers, closing, said, covered>>
  BY <1>a, <1>b DEF show_stdin_dialog
<1>6. PromptsTypes'
  BY <1>1, <1>2, <1>5 DEF PromptsInv, PromptsTypes, JobState, entry, Prompt
<1>7. PromptsAreAsked'
  <2>1. \A p \in due' \union submitted' : Asked(p)'
    <3>1. \A p \in due \union submitted : p \in Job \X Nat /\ Asked(p)
      BY <1>0 DEF PromptsInv, PromptsTypes, PromptsAreAsked, Prompt
    <3>2. QED BY <1>4, <1>5, <3>1 DEF entry
  <2>2. DialogsAreAsked'
    <3>1. \A i \in 1 .. Len(dialogs) : dialogs[i] \in Job \X Nat
      BY ElementOfSeq DEF PromptsInv, PromptsTypes
    <3>2. QED BY <1>4, <1>5, <3>1 DEF PromptsInv, PromptsAreAsked, DialogsAreAsked
  <2>3. \A a \in answers' : a[1] \in Prompt /\ Asked(a[1])' /\ ~Waiting(a[1])'
    BY <1>1, <1>3, <1>4, <1>5 DEF PromptsInv, PromptsAreAsked, Prompt
  <2>4. QED BY <2>1, <2>2, <2>3 DEF PromptsAreAsked
<1>8. ValuesAreTheirs'
  <2>1. \A p \in Prompt : Waiting(p)' \/ ~Asked(p)' => Waiting(p) \/ ~Asked(p)
    BY <1>1, <1>3, <1>4 DEF Prompt
  <2>2. QED BY <1>5, <2>1 DEF PromptsInv, ValuesAreTheirs, entry, Prompt
<1>9. RepliesAreTheirs'
  BY <1>5 DEF PromptsInv, RepliesAreTheirs
<1>10. WaitingAreShown'
  BY <1>3, <1>5 DEF PromptsInv, WaitingAreShown, OnScreen, entry, Prompt
<1>11. QED BY <1>6, <1>7, <1>8, <1>9, <1>10 DEF PromptsInv

LEMMA PromptShown ==
  ASSUME PromptsInv, NEW p \in Prompt, _show(p) PROVE PromptsInv'
<1>1. p \in Job \X Nat /\ Asked(p) /\ dialogs' = Append(dialogs, p) /\ UNCHANGED job
  BY KernelPromptsAssumption DEF PromptsInv, PromptsAreAsked, _show, Prompt
<1>2. /\ dialogs' \in Seq(Job \X Nat)
      /\ DialogsAreAsked'
      /\ \A q : OnScreen(q) \/ q = p => OnScreen(q)'
  BY <1>1, DialogComes DEF PromptsInv
<1>3. due' = due \ {p} /\ UNCHANGED <<job, value, submitted, said, answers, covered>>
  BY DEF _show, entry
<1>4. \A q : (Waiting(q)' <=> Waiting(q)) /\ (Asked(q)' <=> Asked(q))
  BY <1>3 DEF Waiting, Current, Asked
<1>5. PromptsTypes'
  BY <1>2, <1>3 DEF PromptsInv, PromptsTypes, Prompt
<1>6. PromptsAreAsked'
  BY <1>2, <1>3, <1>4 DEF PromptsInv, PromptsAreAsked, Prompt
<1>7. ValuesAreTheirs' /\ RepliesAreTheirs'
  BY <1>3, <1>4 DEF PromptsInv, ValuesAreTheirs, RepliesAreTheirs, Prompt
<1>8. WaitingAreShown'
  BY <1>2, <1>3, <1>4 DEF PromptsInv, WaitingAreShown, Prompt
<1>9. QED BY <1>5, <1>6, <1>7, <1>8 DEF PromptsInv

\* A submission writes the value of its own prompt, once.
LEMMA PromptSubmitted ==
  ASSUME PromptsInv, NEW p \in Prompt, _submit_input(p) PROVE PromptsInv'
<1>1. PICK text \in {None, p} :
        /\ value' = [value EXCEPT ![p] = text]
        /\ said' = IF text # None /\ Waiting(p) THEN said \union {p} ELSE said
  BY DEF _submit_input
<1>2. /\ submitted' = submitted \union {p} /\ p \notin submitted /\ p \notin said
      /\ UNCHANGED <<job, due, answers, covered>>
      /\ dialogs # << >> /\ Top = p /\ (dialogs' = dialogs \/ dialogs' = Popped)
  BY DEF _submit_input, OnTop, _close_dialog, PromptsInv, PromptsTypes
<1>3. \A q : (Waiting(q)' <=> Waiting(q)) /\ (Asked(q)' <=> Asked(q))
  BY <1>2 DEF Waiting, Current, Asked
<1>4. /\ dialogs' \in Seq(Job \X Nat)
      /\ DialogsAreAsked'
      /\ \A q : q # p /\ OnScreen(q) => OnScreen(q)'
      /\ Asked(p)
  <2>1. CASE dialogs' = Popped
    BY <1>2, <2>1, TopGoes DEF PromptsInv
  <2>2. CASE dialogs' = dialogs
    <3>1. Asked(Top)
      <4>1. Len(dialogs) \in 1 .. Len(dialogs)
        BY <1>2, EmptySeq DEF PromptsInv, PromptsTypes
      <4>2. QED BY <4>1 DEF Top, PromptsInv, PromptsAreAsked, DialogsAreAsked
    <3>2. QED BY <1>2, <1>3, <2>2, <3>1
              DEF PromptsInv, PromptsTypes, PromptsAreAsked, DialogsAreAsked, OnScreen
  <2>3. QED BY <1>2, <2>1, <2>2
<1>5. PromptsTypes'
  BY <1>1, <1>2, <1>4 DEF PromptsInv, PromptsTypes, Prompt
<1>6. PromptsAreAsked'
  BY <1>2, <1>3, <1>4 DEF PromptsInv, PromptsAreAsked, Prompt
<1>7. ValuesAreTheirs'
  <2>1. value \in [Prompt -> Prompt \union {None}]
    BY DEF PromptsInv, PromptsTypes
  <2>2. \A q \in Prompt : q # p => value'[q] = value[q] /\ (q \in said' <=> q \in said)
    BY <1>1, <2>1
  <2>3. Waiting(p) => value'[p] = IF p \in said' THEN p ELSE None
    BY <1>1, <1>2, <2>1
  <2>4. QED BY <1>3, <1>4, <2>2, <2>3 DEF PromptsInv, ValuesAreTheirs, Prompt
<1>8. RepliesAreTheirs'
  <2>1. \A a \in answers : a[1] \in said' <=> a[1] \in said
    BY <1>1 DEF PromptsInv, PromptsAreAsked
  <2>2. QED BY <1>2, <2>1 DEF PromptsInv, RepliesAreTheirs
<1>9. WaitingAreShown'
  BY <1>2, <1>3, <1>4 DEF PromptsInv, WaitingAreShown, Prompt
<1>10. QED BY <1>5, <1>6, <1>7, <1>8, <1>9 DEF PromptsInv

LEMMA PromptsStep == PromptsInv /\ [PromptsNext]_promptVars => PromptsInv'
<1> SUFFICES ASSUME PromptsInv, [PromptsNext]_promptVars PROVE PromptsInv'
  OBVIOUS
<1>0. /\ job \in [Job -> JobState] /\ dialogs \in Seq(Job \X Nat)
      /\ PromptsTypes /\ PromptsAreAsked
      /\ \A j \in Job : job[j] \in JobState
  BY DEF PromptsInv, PromptsTypes, JobState
<1>1. ASSUME NEW j \in Job, Starts(j) PROVE PromptsInv'
  <2>1. [job[j] EXCEPT !.at = "runs"] \in JobState /\ [job[j] EXCEPT !.at = "runs"].at # "waits"
        /\ [job[j] EXCEPT !.at = "runs"].asked = job[j].asked
    BY <1>0 DEF JobState
  <2>2. job' = [job EXCEPT ![j] = [job[j] EXCEPT !.at = "runs"]]
    BY <1>1 DEF Starts, Goes
  <2>3. /\ job' \in [Job -> JobState]
        /\ \A k \in Job : job'[k].asked = job[k].asked
        /\ \A p \in Prompt : Waiting(p)' => Waiting(p) /\ p[1] # j
    BY <1>0, <2>1, <2>2, JobGoes
  <2>4. /\ dialogs' \in Seq(Job \X Nat) /\ DialogsAreAsked'
        /\ \A p : OnScreen(p) => OnScreen(p)'
    <3>1. CASE UNCHANGED dialogs
      <4>1. \A i \in 1 .. Len(dialogs) : dialogs[i] \in Job \X Nat
        BY <1>0, ElementOfSeq
      <4>2. QED BY <1>0, <2>3, <3>1, <4>1 DEF PromptsAreAsked, DialogsAreAsked, Asked, OnScreen
    <3>2. CASE dialogs = << >> /\ dialogs' = << <<j, 0>> >>
      <4>1. dialogs' \in Seq(Job \X Nat) /\ Len(dialogs') = 1 /\ dialogs'[1] = <<j, 0>>
        BY <3>2
      <4>2. DialogsAreAsked'
        BY <2>3, <4>1 DEF DialogsAreAsked, Asked, JobState
      <4>3. QED BY <3>2, <4>1, <4>2 DEF OnScreen
    <3>3. QED BY <1>1, <3>1, <3>2 DEF Starts, Opens
  <2>5. QED BY <1>1, <2>3, <2>4, PromptsRest DEF Starts, entry
<1>2. ASSUME NEW j \in Job, NEW r \in JobState, r.at # "waits", r.asked = job[j].asked,
             job' = [job EXCEPT ![j] = r], UNCHANGED <<screenState, entry, said, covered>>,
             \/ UNCHANGED answers
             \/ \E p \in Prompt : p[1] = j /\ Waiting(p) /\ answers' = answers \union {<<p, value[p]>>}
      PROVE  PromptsInv'
  <2>1. /\ job' \in [Job -> JobState]
        /\ \A k \in Job : job'[k].asked = job[k].asked
        /\ \A p \in Prompt : Waiting(p)' => Waiting(p) /\ p[1] # j
    BY <1>0, <1>2, JobGoes
  <2>2. \A i \in 1 .. Len(dialogs) : dialogs[i] \in Job \X Nat
    BY <1>0, ElementOfSeq
  <2>3. DialogsAreAsked'
    BY <1>0, <1>2, <2>1, <2>2 DEF PromptsAreAsked, DialogsAreAsked, Asked, screenState
  <2>4. QED BY <1>0, <1>2, <2>1, <2>3, PromptsRest DEF OnScreen, screenState, entry
<1>3. ASSUME NEW j \in Job, show_stdin_dialog(j) PROVE PromptsInv'
  BY <1>3, PromptMade
<1>4. ASSUME NEW j \in Job, DryRun(j) \/ Ends(j) PROVE PromptsInv'
  <2>1. PICK to \in {"propagates", "ended"} : job' = [job EXCEPT ![j] = [job[j] EXCEPT !.at = to]]
    BY <1>4 DEF DryRun, Ends, Goes
  <2>2. /\ [job[j] EXCEPT !.at = to] \in JobState /\ [job[j] EXCEPT !.at = to].at # "waits"
        /\ [job[j] EXCEPT !.at = to].asked = job[j].asked
    BY <1>0 DEF JobState
  <2>3. QED BY <1>2, <1>4, <2>1, <2>2 DEF DryRun, Ends
<1>5. ASSUME NEW j \in Job, _post(j) PROVE PromptsInv'
  <2>1. PICK r \in {[job[j] EXCEPT !.at = "runs", !.tries = 0], [job[j] EXCEPT !.tries = @ + 1]} :
             job' = [job EXCEPT ![j] = r]
    BY <1>5 DEF _post
  <2>2. r \in JobState /\ r.at # "waits" /\ r.asked = job[j].asked
    BY <1>0, <1>5, <2>1 DEF JobState, _post
  <2>3. QED BY <1>2, <1>5, <2>1, <2>2 DEF _post
<1>6. ASSUME NEW p \in Prompt, Resumes(p) PROVE PromptsInv'
  <2>1. p[1] \in Job /\ Waiting(p)
    BY <1>6 DEF Resumes, Prompt
  <2>2. PICK to \in {"propagates", "runs"} : job' = [job EXCEPT ![p[1]] = [job[p[1]] EXCEPT !.at = to]]
    BY <1>6 DEF Resumes, Goes
  <2>3. /\ [job[p[1]] EXCEPT !.at = to] \in JobState /\ [job[p[1]] EXCEPT !.at = to].at # "waits"
        /\ [job[p[1]] EXCEPT !.at = to].asked = job[p[1]].asked
    BY <1>0, <2>1 DEF JobState
  <2>4. QED BY <1>2, <1>6, <2>1, <2>2, <2>3 DEF Resumes
<1>7. ASSUME NEW p \in Prompt, _show(p) PROVE PromptsInv'
  BY <1>7, PromptShown
<1>8. ASSUME NEW p \in Prompt, _submit_input(p) PROVE PromptsInv'
  BY <1>8, PromptSubmitted
<1>9. ASSUME UNCHANGED <<job, due, value, submitted, said, answers>>, covered \subseteq covered',
             \/ UNCHANGED dialogs
             \/ /\ dialogs # << >> /\ dialogs' = Popped
                /\ Top[2] = 0 \/ Top \in submitted \/ Top \in covered'
      PROVE  PromptsInv'
  <2>1. \A q : (Waiting(q)' <=> Waiting(q)) /\ (Asked(q)' <=> Asked(q))
    BY <1>9 DEF Waiting, Current, Asked
  <2>2. CASE UNCHANGED dialogs
    <3>1. DialogsAreAsked'
      BY <1>0, <2>1, <2>2 DEF PromptsAreAsked, DialogsAreAsked
    <3>2. QED BY <1>0, <1>9, <2>1, <2>2, <3>1, PromptsRest DEF OnScreen
  <2>3. CASE dialogs # << >> /\ dialogs' = Popped /\ (Top[2] = 0 \/ Top \in submitted \/ Top \in covered')
    <3>1. /\ dialogs' \in Seq(Job \X Nat)
          /\ DialogsAreAsked'
          /\ \A p : p # Top /\ OnScreen(p) => OnScreen(p)'
      BY <1>0, <1>9, <2>3, TopGoes
    <3>2. \A p \in Prompt : p = Top => p \in submitted \/ p \in covered'
      BY <2>3 DEF Prompt
    <3>3. QED BY <1>0, <1>9, <2>1, <3>1, <3>2, PromptsRest
  <2>4. QED BY <1>9, <2>2, <2>3
<1>10. CASE SetsEvent \/ _close_active_auth \/ UNCHANGED promptVars
  BY <1>9, <1>10 DEF SetsEvent, _close_active_auth, promptVars, screenState, entry
<1>11. ASSUME NEW j \in Job, _auto_close(j) PROVE PromptsInv'
  BY <1>9, <1>11 DEF _auto_close, entry
<1>12. ASSUME NEW j \in Job, ThreadStep(j) PROVE PromptsInv'
  <2>1. \A n \in 1..MaxAsks : <<j, n>> \in Prompt
    BY DEF Prompt
  <2>2. QED BY <1>5, <1>6, <1>12, <2>1 DEF ThreadStep, Wakes, TimesOut
<1>13. QED BY <1>1, <1>3, <1>4, <1>7, <1>8, <1>10, <1>11, <1>12 DEF PromptsNext, PageStep

\* For any number of executions and prompts, whichever time out and whatever
\* dialogs are left of them: a kernel is answered what was typed for that prompt
\* while it waited, and while a thread waits its dialog is there unless it was
\* covered (show_stdin_dialog, _submit_input, _auto_close).
THEOREM KernelsGetTheirAnswers == PromptsSpec => []AnswersAreTheirs
<1>1. PromptsInv => AnswersAreTheirs
  BY DEF PromptsInv, RepliesAreTheirs, WaitingAreShown, OnScreen, AnswersAreTheirs
<1>2. QED BY PromptsInitially, PromptsStep, <1>1, PTL DEF PromptsSpec
----------------------------------------------------------------------------
(* Conversations *)

StoreTypes ==
  /\ stored \in Seq(Chat) /\ Distinct(stored)
  /\ chat \in Chat \union {NoChat} /\ active \in Chat \union {NoChat}
  /\ graves \in SUBSET Chat /\ listed \in SUBSET Chat
  /\ spoken \in BOOLEAN /\ misread \in BOOLEAN
  /\ tasks \in Nat /\ (chat = NoChat => tasks = 0)

\* A session with nothing in its transcript has no file, unless it could not read it or
\* the user has deleted it.
SilentHasNoFile == chat \in Saved /\ ~spoken => misread \/ chat \in binned

StoreInv == StoreTypes /\ SilentHasNoFile

\* Without keeps a list of chats such a list, and takes from it what it should.
LEMMA WithoutLeaves ==
  ASSUME NEW s \in Seq(Chat), Distinct(s), NEW gone
  PROVE  /\ Without(s, gone) \in Seq(Chat) /\ Distinct(Without(s, gone))
         /\ ToSet(Without(s, gone)) = ToSet(s) \ gone
<1> DEFINE K == {i \in DOMAIN s : s[i] \notin gone}
<1>1. Without(s, gone) = AtPlaces(s, K) /\ K \in SUBSET DOMAIN s
  BY DEF Without
<1>2. {s[i] : i \in K} = ToSet(s) \ gone
  BY DEF ToSet
<1> HIDE DEF K
<1>3. QED BY <1>1, <1>2, PickedSet

\* A list with a chat put before the others.
LEMMA ComesFirst ==
  ASSUME NEW c \in Chat, NEW s \in Seq(Chat), Distinct(s), c \notin ToSet(s)
  PROVE  LET files == <<c>> \o s IN
         /\ files \in Seq(Chat) /\ Distinct(files) /\ ToSet(files) = {c} \union ToSet(s)
         /\ Len(files) = Len(s) + 1 /\ files[1] = c
         /\ \A i \in 2 .. Len(files) : i - 1 \in DOMAIN s /\ files[i] = s[i - 1]
<1> DEFINE files == <<c>> \o s
<1>1. DOMAIN s = 1 .. Len(s) /\ Len(s) \in Nat
  BY LenProperties
<1>2. files \in Seq(Chat) /\ Len(files) = Len(s) + 1 /\ DOMAIN files = 1 .. Len(s) + 1 /\ files[1] = c
  BY <1>1, LenProperties
<1>3. \A i \in 2 .. Len(files) : i - 1 \in DOMAIN s /\ files[i] = s[i - 1]
  BY <1>1, <1>2
<1>4. \A i \in DOMAIN s : i + 1 \in DOMAIN files /\ files[i + 1] = s[i]
  BY <1>1, <1>2
<1> HIDE DEF files
<1>5. \A i \in DOMAIN files : i = 1 \/ i \in 2 .. Len(files)
  BY <1>1, <1>2
<1>6. \A i \in DOMAIN s : s[i] # c
  BY DEF ToSet
<1>7. Distinct(files)
  <2>1. ASSUME NEW i \in DOMAIN files, NEW k \in DOMAIN files, files[i] = files[k] PROVE i = k
    <3>1. CASE i = 1 \/ k = 1
      BY <1>2, <1>3, <1>5, <1>6, <2>1, <3>1
    <3>2. CASE i \in 2 .. Len(files) /\ k \in 2 .. Len(files)
      <4>1. i - 1 = k - 1
        BY <1>3, <2>1, <3>2 DEF Distinct
      <4>2. QED BY <1>1, <1>2, <3>2, <4>1
    <3>3. QED BY <1>5, <3>1, <3>2
  <2>2. QED BY <2>1 DEF Distinct
<1>8. ToSet(files) = {c} \union ToSet(s)
  <2>1. \A x \in ToSet(files) : x = c \/ x \in ToSet(s)
    BY <1>2, <1>3, <1>5 DEF ToSet
  <2>2. \A x \in ToSet(s) : x \in ToSet(files)
    BY <1>4 DEF ToSet
  <2>3. c \in ToSet(files)
    BY <1>1, <1>2 DEF ToSet
  <2>4. QED BY <2>1, <2>2, <2>3
<1>9. QED BY <1>2, <1>3, <1>7, <1>8 DEF files

\* What the last files of a full list have before them.
LEMMA LastAreOld ==
  ASSUME StoreTypes, NEW c \in Chat,
         NEW i, i \in Limit + 1 .. Len(<<c>> \o Without(stored, {c})),
         NEW T, IsFiniteSet(T), {(<<c>> \o Without(stored, {c}))[j] : j \in 1 .. Limit} \subseteq T
  PROVE  LET d == (<<c>> \o Without(stored, {c}))[i] IN
         d \in Saved /\ Cardinality((Newer(stored, d) \union {c}) \intersect T) >= Limit
<1> DEFINE K == {k \in DOMAIN stored : stored[k] \notin {c}}
           rest == Without(stored, {c})
           files == <<c>> \o rest
           d == files[i]
           F == {files[j] : j \in 1 .. Limit}
<1>1. stored \in Seq(Chat) /\ Distinct(stored) /\ Limit \in Nat \ {0}
  BY StoreAssumption DEF StoreTypes
<1>2. DOMAIN stored = 1 .. Len(stored) /\ Len(stored) \in Nat
  BY <1>1, LenProperties
<1>3. rest \in Seq(Chat) /\ Distinct(rest) /\ ToSet(rest) = ToSet(stored) \ {c}
  BY <1>1, WithoutLeaves
<1>4. Picks(rest, stored, K)
  BY <1>1, PlacesPicked DEF Without
<1> HIDE DEF rest
<1>5. /\ files \in Seq(Chat) /\ Distinct(files) /\ Len(files) = Len(rest) + 1 /\ files[1] = c
      /\ \A j \in 2 .. Len(files) : j - 1 \in DOMAIN rest /\ files[j] = rest[j - 1]
  BY <1>3, ComesFirst
<1>6. Len(files) \in Nat /\ DOMAIN files = 1 .. Len(files)
  BY <1>5, LenProperties
<1>7. i \in Limit + 1 .. Len(files) /\ F \subseteq T
  BY DEF rest
<1> HIDE DEF files
<1>8. i \in 2 .. Len(files) /\ \A j \in 1 .. Limit : j \in DOMAIN files /\ j < i /\ (j = 1 \/ j \in 2 .. Len(files))
  BY <1>1, <1>6, <1>7
<1>9. PICK b \in DOMAIN stored : d = stored[b]
  BY <1>4, <1>5, <1>8 DEF Picks
<1>10. ASSUME NEW a \in DOMAIN stored, a < b PROVE stored[a] \in Newer(stored, d)
  <2>1. SelectInSeq(stored, LAMBDA e : e = d) = b
    BY <1>1, <1>9, FoundAt DEF SelectInSeq
  <2>2. a \in 1 .. b - 1
    BY <1>2, <1>10
  <2>3. QED BY <2>1, <2>2 DEF Newer
<1>11. ASSUME NEW j \in 2 .. Len(files), j < i PROVE files[j] \in Newer(stored, d)
  <2>1. j - 1 \in DOMAIN rest /\ i - 1 \in DOMAIN rest /\ j - 1 < i - 1 /\ files[j] = rest[j - 1] /\ d = rest[i - 1]
    BY <1>5, <1>6, <1>8, <1>11
  <2>2. PICK a \in K, k \in K : a < k /\ rest[j - 1] = stored[a] /\ rest[i - 1] = stored[k]
    BY <1>4, <2>1 DEF Picks
  <2>3. k = b
    BY <1>1, <1>9, <2>1, <2>2 DEF Distinct
  <2>4. QED BY <1>10, <2>1, <2>2, <2>3
<1>12. F \subseteq (Newer(stored, d) \union {c}) \intersect T
  <2>1. \A j \in 1 .. Limit : files[j] \in Newer(stored, d) \union {c}
    BY <1>5, <1>8, <1>11
  <2>2. QED BY <1>7, <2>1
<1>13. IsFiniteSet(F) /\ Cardinality(F) = Limit
  <2> DEFINE f == [j \in 1 .. Limit |-> files[j]]
  <2>1. \A j \in 1 .. Limit : f[j] = files[j] /\ files[j] \in F
    OBVIOUS
  <2>2. f \in Bijection(1 .. Limit, F)
    <3>1. \A j, l \in 1 .. Limit : f[j] = f[l] => j = l
      BY <1>5, <1>8, <2>1 DEF Distinct
    <3>2. f \in [1 .. Limit -> F]
      OBVIOUS
    <3>3. \A x \in F : \E j \in 1 .. Limit : f[j] = x
      OBVIOUS
    <3> HIDE DEF f, F
    <3>4. QED BY <3>1, <3>2, <3>3 DEF Bijection, Injection, Surjection, IsInjective
  <2>3. IsFiniteSet(1 .. Limit) /\ Cardinality(1 .. Limit) = Limit
    <3>1. \A n \in Nat \ {0} : IsFiniteSet(1 .. n) /\ Cardinality(1 .. n) = n
      BY FS_Interval
    <3>2. QED BY <1>1, <3>1
  <2> HIDE DEF f, F
  <2>4. ExistsBijection(1 .. Limit, F)
    BY <2>2 DEF ExistsBijection
  <2>5. QED BY <2>3, <2>4, FS_Bijection
<1> HIDE DEF F
<1>14. Cardinality((Newer(stored, d) \union {c}) \intersect T) >= Limit
  <2>1. IsFiniteSet((Newer(stored, d) \union {c}) \intersect T)
    BY FS_Subset
  <2>2. Cardinality(F) <= Cardinality((Newer(stored, d) \union {c}) \intersect T)
    BY <1>12, <2>1, FS_Subset
  <2>3. QED BY <1>1, <1>13, <2>1, <2>2, FS_CardinalityType
<1>15. d \in Saved
  BY <1>9 DEF Saved, ToSet
<1>16. QED BY <1>14, <1>15 DEF d, files, rest

LEMMA SomeFiles == ASSUME NEW s \in Seq(Chat) PROVE IsFiniteSet(ToSet(s))
<1>1. DOMAIN s = 1 .. Len(s) /\ Len(s) \in Nat
  BY LenProperties
<1> DEFINE f == [i \in DOMAIN s |-> s[i]]
<1>2. f \in Surjection(DOMAIN s, ToSet(s))
  <2>1. f \in [DOMAIN s -> ToSet(s)] /\ \A x \in ToSet(s) : \E i \in DOMAIN s : f[i] = x
    BY DEF ToSet
  <2> HIDE DEF f
  <2>2. QED BY <2>1 DEF Surjection
<1>3. IsFiniteSet(DOMAIN s)
  BY <1>1, FS_Interval
<1> HIDE DEF f
<1>4. QED BY <1>2, <1>3, FS_Surjection DEF ExistsSurjection

\* What deleting a chat does, and what writing one does.
LEMMA FileRemoved ==
  ASSUME StoreTypes, NEW c \in Chat, delete_conversation(c)
  PROVE  /\ stored' \in Seq(Chat) /\ Distinct(stored') /\ graves' \in SUBSET Chat
         /\ ToSet(stored') \subseteq Saved /\ Saved \ ToSet(stored') \subseteq {c}
<1>1. stored' = Without(stored, {c}) \/ stored' = stored
  BY DEF delete_conversation
<1>2. graves' \in SUBSET Chat
  BY DEF delete_conversation, StoreTypes
<1>3. CASE stored' = Without(stored, {c})
  BY <1>2, <1>3, WithoutLeaves DEF StoreTypes, Saved
<1>4. CASE stored' = stored
  BY <1>2, <1>4 DEF StoreTypes, Saved
<1>5. QED BY <1>1, <1>3, <1>4

LEMMA FileWritten ==
  ASSUME StoreTypes, NEW c \in Chat, NEW text \in BOOLEAN, save_conversation(c, text)
  PROVE  /\ stored' \in Seq(Chat) /\ Distinct(stored') /\ graves' \in SUBSET Chat
         /\ \A d \in Saved \ ToSet(stored') :
              \/ d = c /\ ~text
              \/ d # active /\ Cardinality((Newer(stored, d) \union {c}) \intersect ToSet(stored')) >= Limit
         /\ \A d \in ToSet(stored') \ Saved : d = c /\ c \notin graves /\ text
<1>1. stored \in Seq(Chat) /\ Distinct(stored) /\ graves \in SUBSET Chat
  BY DEF StoreTypes
<1>2. CASE UNCHANGED <<stored, graves>>
  BY <1>1, <1>2 DEF Saved
<1>3. CASE ~text /\ delete_conversation(c)
  BY <1>3, FileRemoved
<1> DEFINE files == <<c>> \o Without(stored, {c})
<1>4. ASSUME c \notin graves, text, NEW lost \in SUBSET Doomed(files, c),
             stored' = Without(files, lost), graves' = graves \union Doomed(files, c)
      PROVE  /\ stored' \in Seq(Chat) /\ Distinct(stored') /\ graves' \in SUBSET Chat
             /\ \A d \in Saved \ ToSet(stored') :
                  d # active /\ Cardinality((Newer(stored, d) \union {c}) \intersect ToSet(stored')) >= Limit
             /\ \A d \in ToSet(stored') \ Saved : d = c
  <2>1. files \in Seq(Chat) /\ Distinct(files) /\ ToSet(files) = {c} \union Saved
    <3> DEFINE rest == Without(stored, {c})
    <3>1. rest \in Seq(Chat) /\ Distinct(rest) /\ ToSet(rest) = Saved \ {c}
      BY <1>1, WithoutLeaves DEF Saved
    <3> HIDE DEF rest
    <3>2. /\ <<c>> \o rest \in Seq(Chat) /\ Distinct(<<c>> \o rest)
          /\ ToSet(<<c>> \o rest) = {c} \union ToSet(rest)
      BY <3>1, ComesFirst
    <3>3. {c} \union ToSet(rest) = {c} \union Saved
      BY <3>1
    <3>4. QED BY <3>2, <3>3 DEF rest
  <2>2. /\ Doomed(files, c) \subseteq ToSet(files) /\ c \notin Doomed(files, c) /\ active \notin Doomed(files, c)
        /\ \A d \in Doomed(files, c) : \E i \in Limit + 1 .. Len(files) : d = files[i]
    <3>1. DOMAIN files = 1 .. Len(files) /\ Len(files) \in Nat /\ Limit \in Nat
      BY <2>1, LenProperties, StoreAssumption
    <3> HIDE DEF files
    <3>2. QED BY <3>1 DEF Doomed, ToSet
  <2>3. stored' \in Seq(Chat) /\ Distinct(stored') /\ ToSet(stored') = ToSet(files) \ lost
    BY <1>4, <2>1, WithoutLeaves
  <2>4. graves' \in SUBSET Chat
    <3>1. ToSet(files) \subseteq Chat
      BY <2>1 DEF ToSet
    <3>2. QED BY <1>1, <1>4, <2>2, <3>1
  <2>5. {files[j] : j \in 1 .. Limit} \subseteq ToSet(stored')
           \/ ~ (Limit \in 1 .. Len(files))
    <3>1. DOMAIN files = 1 .. Len(files) /\ Len(files) \in Nat /\ Limit \in Nat
      BY <2>1, LenProperties, StoreAssumption
    <3> HIDE DEF files
    <3>2. ASSUME Limit \in 1 .. Len(files), NEW j \in 1 .. Limit PROVE files[j] \in ToSet(stored')
      <4>1. j \in DOMAIN files /\ \A i \in Limit + 1 .. Len(files) : i \in DOMAIN files /\ i # j
        BY <3>1, <3>2
      <4>2. files[j] \notin Doomed(files, c)
        BY <2>1, <2>2, <4>1 DEF Distinct
      <4>3. QED BY <1>4, <2>3, <4>1, <4>2 DEF ToSet
    <3>3. QED BY <3>2
  <2>6. ASSUME NEW d \in Saved \ ToSet(stored')
        PROVE  d # active /\ Cardinality((Newer(stored, d) \union {c}) \intersect ToSet(stored')) >= Limit
    <3>1. d \in Doomed(files, c)
      BY <1>4, <2>1, <2>3, <2>6
    <3>2. PICK i \in Limit + 1 .. Len(files) : d = files[i]
      BY <2>2, <3>1
    <3>3. Limit \in 1 .. Len(files)
      <4>1. Len(files) \in Nat /\ Limit \in Nat \ {0}
        BY <2>1, LenProperties, StoreAssumption
      <4> HIDE DEF files
      <4>2. QED BY <3>2, <4>1
    <3>4. IsFiniteSet(ToSet(stored')) /\ {files[j] : j \in 1 .. Limit} \subseteq ToSet(stored')
      BY <2>3, <2>5, <3>3, SomeFiles
    <3>5. Cardinality((Newer(stored, files[i]) \union {c}) \intersect ToSet(stored')) >= Limit
      BY <3>2, <3>4, LastAreOld
    <3>6. QED BY <2>2, <3>1, <3>2, <3>5
  <2>7. QED BY <2>1, <2>3, <2>4, <2>6
<1>5. CASE c \notin graves /\ text /\ \E lost \in SUBSET Doomed(files, c) :
             stored' = Without(files, lost) /\ graves' = graves \union Doomed(files, c)
  BY <1>4, <1>5
<1>6. QED BY <1>2, <1>3, <1>5 DEF save_conversation

\* A save of the open chat, by whatever calls it.
LEMMA OpenChatSaved ==
  ASSUME StoreInv, chat # NoChat, NEW text \in {spoken, TRUE}, save_conversation(chat, text), binned' = binned
  PROVE  /\ stored' \in Seq(Chat) /\ Distinct(stored') /\ graves' \in SUBSET Chat
         /\ ToSet(stored') \subseteq Saved \union {chat}
         /\ chat \in ToSet(stored') /\ ~text => misread \/ chat \in binned
         /\ LeaveAsMeant /\ ReturnAsMeant
<1>1. chat \in Chat /\ text \in BOOLEAN
  BY DEF StoreInv, StoreTypes
<1>2. /\ stored' \in Seq(Chat) /\ Distinct(stored') /\ graves' \in SUBSET Chat
      /\ \A d \in Saved \ ToSet(stored') :
           \/ d = chat /\ ~text
           \/ d # active /\ Cardinality((Newer(stored, d) \union {chat}) \intersect ToSet(stored')) >= Limit
      /\ \A d \in ToSet(stored') \ Saved : d = chat /\ chat \notin graves /\ text
  BY <1>1, FileWritten DEF StoreInv
<1>3. chat \in Saved /\ ~text => misread \/ chat \in binned
  BY DEF StoreInv, SilentHasNoFile
<1>4. LeaveAsMeant
  BY <1>2, <1>3 DEF LeaveAsMeant
<1>5. ReturnAsMeant
  BY <1>2 DEF ReturnAsMeant
<1>6. QED BY <1>2, <1>3, <1>4, <1>5

LEMMA FilesRest == ASSUME stored' = stored PROVE LeaveAsMeant /\ ReturnAsMeant
  BY DEF LeaveAsMeant, ReturnAsMeant, Saved

\* A session that is made reads its file.
LEMMA SessionMade ==
  ASSUME StoreInv, NEW id \in Chat, NewSession(id), listed' \in SUBSET Chat, binned' = binned
  PROVE  StoreInv' /\ LeaveAsMeant /\ ReturnAsMeant
<1>1. misread' \in BOOLEAN /\ spoken' \in BOOLEAN /\ (id \in Saved /\ ~spoken' => misread')
  <2>1. misread' \in {FALSE, (id \in Saved)} /\ spoken' = (id \in Saved /\ ~misread')
    BY DEF NewSession
  <2>2. misread' \in BOOLEAN
    <3>1. \A b \in BOOLEAN : misread' \in {FALSE, b} => misread' \in BOOLEAN
      OBVIOUS
    <3>2. (id \in Saved) \in BOOLEAN
      OBVIOUS
    <3>3. QED BY <2>1, <3>1, <3>2, Zenon
  <2>3. spoken' \in BOOLEAN /\ (id \in Saved /\ ~spoken' => misread')
    BY <2>1, Zenon
  <2>4. QED BY <2>2, <2>3
<1>2. StoreTypes' /\ LeaveAsMeant /\ ReturnAsMeant
  BY <1>1, StoreAssumption, FilesRest DEF NewSession, StoreInv, StoreTypes
<1>3. SilentHasNoFile'
  BY <1>1 DEF NewSession, SilentHasNoFile, Saved
<1>4. QED BY <1>2, <1>3 DEF StoreInv

LEMMA StoreInitially == StoreInit => StoreInv
<1> SUFFICES ASSUME StoreInit PROVE StoreInv
  OBVIOUS
<1>1. stored \in Seq(Chat) /\ Distinct(stored)
  BY DEF StoreInit, Distinct
<1>2. chat \notin Saved
  <2>1. chat = NoChat /\ \A i \in DOMAIN stored : FALSE
    BY DEF StoreInit
  <2>2. QED BY <2>1 DEF Saved, ToSet
<1>3. QED BY <1>1, <1>2 DEF StoreInit, StoreInv, StoreTypes, SilentHasNoFile

LEMMA StoreStep == StoreInv /\ [StoreNext]_storeVars => StoreInv' /\ LeaveAsMeant /\ ReturnAsMeant
<1> SUFFICES ASSUME StoreInv, [StoreNext]_storeVars PROVE StoreInv' /\ LeaveAsMeant /\ ReturnAsMeant
  OBVIOUS
<1> USE DEF StoreInv
<1>1. CASE UNCHANGED storeVars
  BY <1>1, FilesRest DEF storeVars, sessionVars, dialogVars, StoreTypes, SilentHasNoFile, Saved
<1>2. CASE _prune_tombstones \/ _show_history \/ _close \/ send
  <2>1. stored' = stored /\ UNCHANGED <<active, chat, misread, binned>> /\ spoken' \in {spoken, TRUE}
    BY <1>2 DEF _prune_tombstones, _show_history, _close, Closes, send, sessionVars, dialogVars
  <2>2. graves' \in SUBSET Chat /\ listed' \in SUBSET Chat
    BY <1>2 DEF _prune_tombstones, _show_history, _close, Closes, send, sessionVars, dialogVars, StoreTypes, Saved, ToSet
  <2>3. tasks' \in Nat /\ (chat = NoChat => tasks' = 0)
    BY <1>2 DEF _prune_tombstones, _show_history, _close, Closes, send, sessionVars, dialogVars, StoreTypes
  <2>4. StoreTypes'
    BY <2>1, <2>2, <2>3 DEF StoreTypes
  <2>5. SilentHasNoFile'
    BY <2>1 DEF SilentHasNoFile, Saved
  <2>6. QED BY <2>1, <2>4, <2>5, FilesRest
<1>3. CASE open_assistant
  <2>1. PICK id \in Chat : NewSession(id)
    BY <1>3 DEF open_assistant, Fresh, StoreTypes
  <2>2. QED BY <1>3, <2>1, SessionMade DEF open_assistant, dialogVars, StoreTypes
<1>4. CASE _on_turn_done
  <2>1. chat # NoChat /\ save_conversation(chat, spoken) /\ tasks' \in Nat
        /\ UNCHANGED <<active, chat, spoken, misread, listed, binned>>
    BY <1>4 DEF _on_turn_done, _persist_history, dialogVars, StoreTypes
  <2>2. QED BY <2>1, OpenChatSaved DEF StoreTypes, SilentHasNoFile, Saved
<1>5. CASE adopt_transcript
  <2>1. chat # NoChat /\ save_conversation(chat, TRUE)
        /\ UNCHANGED <<active, chat, tasks, misread, listed, binned>> /\ spoken' = TRUE
    BY <1>5 DEF adopt_transcript, dialogVars
  <2>2. QED BY <2>1, OpenChatSaved DEF StoreTypes, SilentHasNoFile
<1>6. CASE close
  <2>1. chat # NoChat /\ save_conversation(chat, spoken)
        /\ UNCHANGED <<active, chat, spoken, tasks, misread, listed, binned>>
    BY <1>6 DEF close, _persist_history, sessionVars, dialogVars
  <2>2. QED BY <2>1, OpenChatSaved DEF StoreTypes, SilentHasNoFile, Saved
<1>7. CASE shutdown
  <2>1. chat # NoChat /\ save_conversation(chat, spoken)
        /\ chat' = NoChat /\ spoken' = FALSE /\ tasks' = 0 /\ misread' = FALSE
        /\ UNCHANGED <<active, listed, binned>>
    BY <1>7 DEF shutdown, _persist_history, dialogVars
  <2>2. stored' \in Seq(Chat) /\ chat' \notin ToSet(stored')
    <3>1. stored' \in Seq(Chat)
      BY <2>1, OpenChatSaved
    <3>2. \A i \in DOMAIN stored' : stored'[i] \in Chat
      BY <3>1
    <3>3. QED BY <2>1, <3>1, <3>2, StoreAssumption DEF ToSet
  <2>3. QED BY <2>1, <2>2, OpenChatSaved DEF StoreTypes, SilentHasNoFile, Saved
<1>8. ASSUME NEW id \in Fresh, new_conversation(id) PROVE StoreInv' /\ LeaveAsMeant /\ ReturnAsMeant
  <2>1. chat # NoChat /\ save_conversation(chat, spoken)
        /\ chat' = id /\ active' = id /\ spoken' = FALSE /\ misread' = FALSE
        /\ UNCHANGED <<tasks, listed, binned>>
    BY <1>8 DEF new_conversation, _persist_history, dialogVars
  <2>2. id \in Chat /\ id \notin Saved /\ id # chat
    BY DEF Fresh
  <2>3. QED BY <2>1, <2>2, OpenChatSaved, StoreAssumption DEF StoreTypes, SilentHasNoFile, Saved
<1>9. ASSUME NEW id \in Fresh, _open_fresh(id) PROVE StoreInv' /\ LeaveAsMeant /\ ReturnAsMeant
  <2>1. id \in Chat /\ listed' \in SUBSET Chat /\ binned' = binned
    BY <1>9 DEF Fresh, _open_fresh, Closes
  <2>2. CASE chat = NoChat
    BY <1>9, <2>1, <2>2, SessionMade DEF _open_fresh
  <2>3. CASE chat # NoChat
    <3>1. active' = id /\ UNCHANGED <<stored, graves, chat, spoken, tasks, misread>>
      BY <1>9, <2>3 DEF _open_fresh
    <3>2. QED BY <2>1, <3>1, FilesRest DEF StoreTypes, SilentHasNoFile, Saved
  <2>4. QED BY <2>2, <2>3
<1>10. ASSUME NEW c \in Chat, _open(c) PROVE StoreInv' /\ LeaveAsMeant /\ ReturnAsMeant
  <2>1. listed' \in SUBSET Chat /\ binned' = binned
    BY <1>10 DEF _open, Closes
  <2>2. CASE chat = NoChat
    BY <1>10, <2>1, <2>2, SessionMade DEF _open
  <2>3. CASE chat # NoChat
    <3>1. save_conversation(chat, spoken) /\ chat' = c /\ active' = c /\ spoken' = TRUE /\ misread' = FALSE /\ tasks' = tasks
      BY <1>10, <2>3 DEF _open, load_conversation, _persist_history
    <3>2. c # NoChat
      BY StoreAssumption
    <3>3. QED BY <2>1, <2>3, <3>1, <3>2, OpenChatSaved DEF StoreTypes, SilentHasNoFile
  <2>4. QED BY <2>2, <2>3
<1>11. ASSUME NEW c \in Chat, _delete(c) PROVE StoreInv' /\ LeaveAsMeant /\ ReturnAsMeant
  <2>1. delete_conversation(c) /\ listed' = listed \ {c} /\ binned' = binned \union {c}
        /\ UNCHANGED <<active, chat, spoken, tasks, misread>>
    BY <1>11 DEF _delete, sessionVars
  <2>2. /\ stored' \in Seq(Chat) /\ Distinct(stored') /\ graves' \in SUBSET Chat
        /\ ToSet(stored') \subseteq Saved /\ Saved \ ToSet(stored') \subseteq {c}
    BY <2>1, FileRemoved
  <2>3. LeaveAsMeant /\ ReturnAsMeant
    BY <2>1, <2>2 DEF LeaveAsMeant, ReturnAsMeant
  <2>4. QED BY <2>1, <2>2, <2>3 DEF StoreTypes, SilentHasNoFile, Saved
<1>12. CASE Restart
  <2>1. stored' = stored /\ binned' = binned /\ graves' = {} /\ active' = NoChat /\ chat' = NoChat
        /\ spoken' = FALSE /\ tasks' = 0 /\ misread' = FALSE /\ listed' = {}
    BY <1>12 DEF Restart
  <2>2. NoChat \notin ToSet(stored)
    BY StoreAssumption DEF StoreTypes, ToSet
  <2>3. QED BY <2>1, <2>2, FilesRest DEF StoreTypes, SilentHasNoFile, Saved
<1>13. QED
  BY <1>1, <1>2, <1>3, <1>4, <1>5, <1>6, <1>7, <1>8, <1>9, <1>10, <1>11, <1>12 DEF StoreNext

\* A chat leaves the disk only when the user deleted it, when its session could not
\* read it, or when Limit others are newer; and a deleted one returns only while it is
\* the open chat (save_conversation, prune_conversations, delete_conversation).
THEOREM ChatsKeepTheirPlace == StoreSpec => ChatsComeAndGoAsMeant
<1>1. StoreInv /\ [StoreNext]_storeVars => StoreInv' /\ [LeaveAsMeant /\ ReturnAsMeant]_storeVars
  BY StoreStep
<1>2. QED BY StoreInitially, <1>1, PTL DEF StoreSpec, ChatsComeAndGoAsMeant

----------------------------------------------------------------------------
(* Catalog *)

Row == [id : Nat \ {0}, tier : Tier, latency : Nat, usable : BOOLEAN]

\* Rows that differ, differ in their ids.
Told(rows) == IsFiniteSet(rows) /\ rows \subseteq Row /\ \A q, r \in rows : q.id = r.id => q = r

IdsOf(rows) == {r.id : r \in rows}

\* s names the rows, each once, those that come before first.
InOrder(s, rows) ==
  /\ s \in Seq(IdsOf(rows)) /\ Distinct(s) /\ ToSet(s) = IdsOf(rows)
  /\ \A j, k \in DOMAIN s : j < k =>
       \A q, r \in rows : q.id = s[j] /\ r.id = s[k] => Before(q, r)

LEMMA BeforeOrders ==
  /\ \A q \in Row : ~Before(q, q)
  /\ \A q, r, s \in Row : Before(q, r) /\ Before(r, s) => Before(q, s)
  /\ \A q, r \in Row : q.id # r.id => Before(q, r) \/ Before(r, q)
<1>1. \A q \in Row : TierRank(q) \in Nat /\ q.latency \in Nat /\ q.id \in Nat
  BY DEF Row, TierRank, Tier
<1>2. QED BY <1>1 DEF Before

LEMMA RankedInOrder == ASSUME NEW rows, Told(rows) PROVE InOrder(Ranked(rows), rows)
<1> DEFINE n == Cardinality(rows)
           R == {p \in rows \X rows : Before(p[1], p[2])}
           place == [k \in 1 .. n |-> CHOOSE r \in rows : Cardinality({q \in rows : <<q, r>> \in R}) = k - 1]
<1>1. \A q, r \in rows : <<q, r>> \in R <=> Before(q, r)
  OBVIOUS
<1> HIDE DEF R
<1>2. /\ \A k \in 1 .. n : place[k] \in rows
      /\ \A r \in rows : \E k \in 1 .. n : place[k] = r
      /\ \A j, k \in 1 .. n : j < k => <<place[j], place[k]>> \in R
  <2>1. \A q \in rows : <<q, q>> \notin R
    BY <1>1, BeforeOrders DEF Told
  <2>2. \A q, r, s \in rows : <<q, r>> \in R /\ <<r, s>> \in R => <<q, s>> \in R
    BY <1>1, BeforeOrders DEF Told
  <2>3. \A q, r \in rows : q # r => <<q, r>> \in R \/ <<r, q>> \in R
    BY <1>1, BeforeOrders DEF Told
  <2>4. IsFiniteSet(rows)
    BY DEF Told
  <2> HIDE DEF place
  <2>5. QED BY <2>1, <2>2, <2>3, <2>4, RanksOnce DEF place
<1>3. \A k \in 1 .. n : Nth(rows, k) = place[k]
  <2>1. \A r \in rows : {q \in rows : <<q, r>> \in R} = {q \in rows : Before(q, r)}
    BY <1>1
  <2>2. ASSUME NEW k \in 1 .. n PROVE Nth(rows, k) = place[k]
    <3>1. Nth(rows, k) = CHOOSE r \in rows : Cardinality({q \in rows : Before(q, r)}) = k - 1
      BY DEF Nth
    <3>2. QED BY <2>1, <3>1
  <2>3. QED BY <2>2
<1> HIDE DEF place
<1>4. n \in Nat
  BY FS_CardinalityType DEF Told
<1>5. DOMAIN Ranked(rows) = 1 .. n /\ \A k \in 1 .. n : Ranked(rows)[k] = place[k].id
  BY <1>3 DEF Ranked
<1>6. Ranked(rows) \in Seq(IdsOf(rows))
  <2>1. \A k \in 1 .. n : place[k].id \in IdsOf(rows)
    BY <1>2 DEF IdsOf
  <2>2. Ranked(rows) = [k \in 1 .. n |-> place[k].id]
    BY <1>3 DEF Ranked
  <2>3. Ranked(rows) \in [1 .. n -> IdsOf(rows)]
    BY <2>1, <2>2
  <2>4. QED BY <1>4, <2>3
<1> HIDE DEF n
<1>7. \A j, k \in 1 .. n : j < k => Before(place[j], place[k])
  BY <1>1, <1>2
<1>8. Distinct(Ranked(rows))
  <2>1. ASSUME NEW j \in 1 .. n, NEW k \in 1 .. n, place[j].id = place[k].id PROVE j = k
    <3>1. place[j] = place[k] /\ ~Before(place[j], place[k]) /\ ~Before(place[k], place[j])
      BY <1>2, <2>1, BeforeOrders DEF Told
    <3>2. ~(j < k) /\ ~(k < j)
      BY <1>7, <3>1
    <3>3. QED BY <1>4, <3>2
  <2>2. QED BY <1>5, <2>1 DEF Distinct
<1>9. ToSet(Ranked(rows)) = IdsOf(rows)
  <2>1. \A r \in rows : \E k \in 1 .. n : Ranked(rows)[k] = r.id
    BY <1>2, <1>5
  <2>2. \A k \in 1 .. n : Ranked(rows)[k] \in IdsOf(rows)
    BY <1>2, <1>5 DEF IdsOf
  <2>3. QED BY <1>5, <2>1, <2>2 DEF ToSet, IdsOf
<1>10. ASSUME NEW j \in 1 .. n, NEW k \in 1 .. n, j < k, NEW q \in rows, NEW r \in rows,
              q.id = Ranked(rows)[j], r.id = Ranked(rows)[k]
       PROVE  Before(q, r)
  <2>1. q = place[j] /\ r = place[k]
    BY <1>2, <1>5, <1>10 DEF Told
  <2>2. QED BY <1>7, <1>10, <2>1
<1>11. QED BY <1>5, <1>6, <1>8, <1>9, <1>10 DEF InOrder

\* Rows of which all of the first come before all of the others.
LEMMA JoinedInOrder ==
  ASSUME NEW a, NEW b, Told(a \union b), NEW s, NEW t, InOrder(s, a), InOrder(t, b),
         \A q \in a, r \in b : Before(q, r)
  PROVE  InOrder(s \o t, a \union b)
<1> DEFINE u == s \o t
           S == IdsOf(a \union b)
<1>1. s \in Seq(S) /\ t \in Seq(S)
  <2>1. IdsOf(a) \subseteq S /\ IdsOf(b) \subseteq S
    BY DEF IdsOf
  <2> HIDE DEF S
  <2>2. QED BY <2>1, SeqGrows DEF InOrder
<1>2. /\ Len(s) \in Nat /\ DOMAIN s = 1 .. Len(s) /\ Len(t) \in Nat /\ DOMAIN t = 1 .. Len(t)
  BY <1>1, LenProperties
<1>3. /\ u \in Seq(S) /\ Len(u) = Len(s) + Len(t)
      /\ \A i \in 1 .. Len(s) + Len(t) : u[i] = IF i <= Len(s) THEN s[i] ELSE t[i - Len(s)]
  BY <1>1, ConcatProperties
<1> HIDE DEF u, S
<1>4. DOMAIN u = 1 .. Len(s) + Len(t)
  BY <1>3, LenProperties
<1>5. ASSUME NEW i \in DOMAIN u
      PROVE  \/ i \in DOMAIN s /\ u[i] = s[i]
             \/ i - Len(s) \in DOMAIN t /\ i > Len(s) /\ u[i] = t[i - Len(s)]
  BY <1>2, <1>3, <1>4
<1>6. /\ \A i \in DOMAIN s : i \in DOMAIN u /\ u[i] = s[i]
      /\ \A i \in DOMAIN t : i + Len(s) \in DOMAIN u /\ u[i + Len(s)] = t[i]
  <2>1. ASSUME NEW i \in DOMAIN s PROVE i \in DOMAIN u /\ u[i] = s[i]
    BY <1>2, <1>3, <1>4
  <2>2. ASSUME NEW i \in DOMAIN t PROVE i + Len(s) \in DOMAIN u /\ u[i + Len(s)] = t[i]
    <3>1. i + Len(s) \in 1 .. Len(s) + Len(t) /\ ~(i + Len(s) <= Len(s)) /\ (i + Len(s)) - Len(s) = i
      BY <1>2
    <3>2. QED BY <1>3, <1>4, <3>1
  <2>3. QED BY <2>1, <2>2
<1>7. ToSet(u) = S
  <2>1. \A x \in ToSet(u) : x \in ToSet(s) \/ x \in ToSet(t)
    BY <1>5 DEF ToSet
  <2>2. \A x : x \in ToSet(s) \/ x \in ToSet(t) => x \in ToSet(u)
    BY <1>6 DEF ToSet
  <2>3. QED BY <2>1, <2>2 DEF InOrder, IdsOf, S
<1>8. \A i \in DOMAIN s : \E q \in a : q.id = s[i]
  <2>1. \A i \in DOMAIN s : s[i] \in ToSet(s)
    BY DEF ToSet
  <2>2. QED BY <2>1 DEF InOrder, IdsOf
<1>9. \A i \in DOMAIN t : \E q \in b : q.id = t[i]
  <2>1. \A i \in DOMAIN t : t[i] \in ToSet(t)
    BY DEF ToSet
  <2>2. QED BY <2>1 DEF InOrder, IdsOf
<1>10. ASSUME NEW j \in DOMAIN u, NEW k \in DOMAIN u, j < k,
              NEW q \in a \union b, NEW r \in a \union b, q.id = u[j], r.id = u[k]
       PROVE  Before(q, r)
  <2>1. CASE j \in DOMAIN s /\ k \in DOMAIN s
    <3>1. u[j] = s[j] /\ u[k] = s[k]
      BY <1>6, <2>1
    <3>2. q \in a /\ r \in a
      BY <1>8, <1>10, <2>1, <3>1 DEF Told
    <3>3. QED BY <1>10, <2>1, <3>1, <3>2 DEF InOrder
  <2>2. CASE j \in DOMAIN s /\ k \notin DOMAIN s
    <3>1. u[j] = s[j] /\ k - Len(s) \in DOMAIN t /\ u[k] = t[k - Len(s)]
      BY <1>5, <1>6, <2>2
    <3>2. q \in a /\ r \in b
      BY <1>8, <1>9, <1>10, <2>2, <3>1 DEF Told
    <3>3. QED BY <3>2
  <2>3. CASE j \notin DOMAIN s
    <3>1. /\ j - Len(s) \in DOMAIN t /\ u[j] = t[j - Len(s)] /\ j > Len(s)
      BY <1>5, <2>3
    <3>2. k \notin DOMAIN s
      BY <1>2, <1>4, <1>10, <3>1
    <3>3. k - Len(s) \in DOMAIN t /\ u[k] = t[k - Len(s)]
      BY <1>5, <3>2
    <3>4. q \in b /\ r \in b
      BY <1>9, <1>10, <3>1, <3>3 DEF Told
    <3>5. j - Len(s) < k - Len(s)
      BY <1>2, <1>4, <1>10
    <3>6. QED BY <1>10, <3>1, <3>3, <3>4, <3>5 DEF InOrder
  <2>4. QED BY <2>1, <2>2, <2>3
<1>11. Distinct(u)
  <2>1. ASSUME NEW j \in DOMAIN u, NEW k \in DOMAIN u, j < k, u[j] = u[k] PROVE FALSE
    <3>1. \E q \in a \union b : q.id = u[j]
      BY <1>5, <1>8, <1>9
    <3>2. PICK q \in a \union b : q.id = u[j]
      BY <3>1
    <3>3. Before(q, q)
      BY <1>10, <2>1, <3>2
    <3>4. QED BY <3>3, BeforeOrders DEF Told
  <2>2. \A j, k \in DOMAIN u : u[j] = u[k] => ~(j < k) /\ ~(k < j)
    BY <2>1
  <2>3. \A j, k \in DOMAIN u : ~(j < k) /\ ~(k < j) => j = k
    BY <1>2, <1>4
  <2>4. QED BY <2>2, <2>3 DEF Distinct
<1>12. QED BY <1>3, <1>7, <1>10, <1>11 DEF InOrder, u, S

\* What is left of a list, and of a table, without one id.
Spared(w, p) == AtPlaces(w, {i \in DOMAIN w : w[i] # p})
Others(rows, p) == {r \in rows : r.id # p}

LEMMA LeftInOrder ==
  ASSUME NEW rows, Told(rows), NEW s, InOrder(s, rows), NEW S, IdsOf(rows) \subseteq S, NEW p \in S,
         NEW head \in {<<>>, <<p>>}
  PROVE  InOrder(Spared(head \o s, p), Others(rows, p))
<1> DEFINE w == head \o s
           K == {i \in DOMAIN w : w[i] # p}
           r == AtPlaces(w, K)
           rest == {x \in rows : x.id # p}
           h == Len(head)
<1>1. s \in Seq(S) /\ head \in Seq(S) /\ h \in {0, 1} /\ \A i \in 1 .. h : head[i] = p
  <2>1. s \in Seq(IdsOf(rows))
    BY DEF InOrder
  <2>2. s \in Seq(S)
    BY <2>1, SeqGrows
  <2>3. CASE head = <<>>
    BY <2>2, <2>3
  <2>4. CASE head = <<p>>
    BY <2>2, <2>4
  <2>5. QED BY <2>3, <2>4
<1>2. Len(s) \in Nat /\ DOMAIN s = 1 .. Len(s)
  BY <1>1, LenProperties
<1>3. /\ w \in Seq(S) /\ Len(w) = h + Len(s)
      /\ \A i \in 1 .. h + Len(s) : w[i] = IF i <= h THEN head[i] ELSE s[i - h]
  BY <1>1, ConcatProperties
<1>4. DOMAIN w = 1 .. h + Len(s)
  BY <1>3, LenProperties
<1> HIDE DEF h, w
<1>5. /\ \A i \in K : i \in DOMAIN w /\ w[i] # p /\ i - h \in DOMAIN s /\ w[i] = s[i - h]
      /\ \A i \in DOMAIN s : s[i] # p => i + h \in K /\ w[i + h] = s[i]
  <2>1. ASSUME NEW i \in K PROVE i \in DOMAIN w /\ w[i] # p /\ i - h \in DOMAIN s /\ w[i] = s[i - h]
    <3>1. i \in 1 .. h + Len(s) /\ ~(i <= h)
      BY <1>1, <1>2, <1>3, <1>4
    <3>2. QED BY <1>1, <1>2, <1>3, <1>4, <3>1
  <2>2. ASSUME NEW i \in DOMAIN s, s[i] # p PROVE i + h \in K /\ w[i + h] = s[i]
    <3>1. i + h \in 1 .. h + Len(s) /\ ~(i + h <= h) /\ (i + h) - h = i
      BY <1>1, <1>2
    <3>2. QED BY <1>3, <1>4, <2>2, <3>1
  <2>3. QED BY <2>1, <2>2
<1>6. r \in Seq(S) /\ Picks(r, w, K)
  BY <1>3, PlacesPicked
<1> HIDE DEF K, r
<1>7. ToSet(s) = IdsOf(rows)
  BY DEF InOrder
<1>8. ToSet(r) = IdsOf(rest)
  <2>1. ASSUME NEW j \in DOMAIN r PROVE r[j] \in ToSet(s) /\ r[j] # p
    <3>1. PICK i \in K : r[j] = w[i]
      BY <1>6 DEF Picks
    <3>2. w[i] # p /\ w[i] \in ToSet(s)
      BY <1>5 DEF ToSet
    <3>3. QED BY <3>1, <3>2
  <2>2. ASSUME NEW i \in DOMAIN s, s[i] # p PROVE s[i] \in ToSet(r)
    <3>1. i + h \in K /\ w[i + h] = s[i]
      BY <1>5, <2>2
    <3>2. PICK j \in DOMAIN r : r[j] = w[i + h]
      BY <1>6, <3>1 DEF Picks
    <3>3. QED BY <3>1, <3>2 DEF ToSet
  <2>4. \A x : x \in ToSet(r) <=> x \in ToSet(s) /\ x # p
    BY <2>1, <2>2 DEF ToSet
  <2>5. QED BY <1>7, <2>4 DEF IdsOf
<1>9. r \in Seq(IdsOf(rest))
  <2>1. DOMAIN r = 1 .. Len(r) /\ Len(r) \in Nat /\ r = [i \in 1 .. Len(r) |-> r[i]]
    BY <1>6, LenProperties
  <2>2. \A i \in 1 .. Len(r) : r[i] \in IdsOf(rest)
    BY <1>8, <2>1 DEF ToSet
  <2>3. r \in [1 .. Len(r) -> IdsOf(rest)]
    BY <2>1, <2>2
  <2>4. QED BY <2>1, <2>3
<1>10. \A i, k \in K : i < k => i - h \in DOMAIN s /\ k - h \in DOMAIN s /\ i - h < k - h
  BY <1>1, <1>4, <1>5
<1>11. ASSUME NEW j \in DOMAIN r, NEW l \in DOMAIN r, j < l, NEW x \in rest, NEW y \in rest, x.id = r[j], y.id = r[l]
       PROVE  Before(x, y)
  <2>1. PICK i \in K, k \in K : i < k /\ r[j] = w[i] /\ r[l] = w[k]
    BY <1>6, <1>11 DEF Picks
  <2>2. x.id = s[i - h] /\ y.id = s[k - h]
    BY <1>5, <1>11, <2>1
  <2>3. QED BY <1>10, <2>1, <2>2 DEF InOrder
<1>12. Distinct(r)
  <2>1. \A i, k \in K : i # k => i - h # k - h
    BY <1>1, <1>4, <1>5
  <2>2. \A i, k \in K : i # k => w[i] # w[k]
    BY <1>5, <2>1 DEF InOrder, Distinct
  <2>3. ASSUME NEW j \in DOMAIN r, NEW l \in DOMAIN r, r[j] = r[l], j # l PROVE FALSE
    <3>1. \E i, k \in K : i # k /\ r[j] = w[i] /\ r[l] = w[k]
      <4>1. K \in SUBSET DOMAIN w
        BY <1>5
      <4>2. QED BY ONLY <1>3, <1>6, <2>3, <4>1, PickedOnce
    <3>2. QED BY <2>2, <2>3, <3>1
  <2>4. QED BY <2>3 DEF Distinct
<1>13. InOrder(r, rest)
  <2> HIDE DEF rest
  <2>1. QED BY <1>8, <1>9, <1>11, <1>12 DEF InOrder
<1>14. QED BY <1>13 DEF K, r, w, Spared, Others

\* The rows of which a walk without a pick consists.
Walkable(rows) ==
  LET top == Healthy(Pickable(rows))
      tail == Usable(rows) \ Pickable(rows)
  IN IF top # {} THEN top \union tail ELSE Healthy(tail)

LEMMA LeftTwice ==
  ASSUME NEW rows, Told(rows), NEW s, InOrder(s, rows), NEW S, IdsOf(rows) \subseteq S, NEW p \in S
  PROVE  InOrder(Spared(s, p), Others(rows, p)) /\ InOrder(Spared(<<p>> \o s, p), Others(rows, p))
<1>1. s \in Seq(IdsOf(rows))
  BY DEF InOrder
<1>2. s = <<>> \o s
  BY <1>1
<1>3. QED BY <1>2, LeftInOrder

LEMMA SomeTold == ASSUME NEW rows, Told(rows), NEW part \in SUBSET rows PROVE Told(part)
  BY FS_Subset DEF Told

LEMMA PoolInOrder ==
  ASSUME NEW rows, Told(rows) PROVE InOrder(candidate_models(rows), Walkable(rows)) /\ Walkable(rows) \subseteq rows
<1> DEFINE top == Healthy(Pickable(rows))
           tail == Usable(rows) \ Pickable(rows)
<1>1. top \subseteq rows /\ tail \subseteq rows /\ Healthy(tail) \subseteq rows
  BY DEF Healthy, Pickable, Usable
<1>2. \A q \in top, r \in tail : Before(q, r)
  <2>1. ASSUME NEW q \in top, NEW r \in tail PROVE Before(q, r)
    <3>1. q \in Row /\ r \in Row
      BY <1>1 DEF Told
    <3>2. q.tier \in PICKABLE_TIERS /\ r.tier \notin PICKABLE_TIERS
      BY DEF Healthy, Pickable, Usable
    <3>3. TierRank(q) \in {0, 1} /\ TierRank(r) \in {2, 3}
      BY <3>1, <3>2 DEF PICKABLE_TIERS, TierRank, Row, Tier
    <3>4. QED BY <3>3 DEF Before
  <2>2. QED BY <2>1
<1>3. Told(top) /\ Told(tail) /\ Told(Healthy(tail)) /\ Told(top \union tail)
  BY <1>1, SomeTold
<1>4. InOrder(Ranked(top), top) /\ InOrder(Ranked(tail), tail) /\ InOrder(Ranked(Healthy(tail)), Healthy(tail))
  BY <1>3, RankedInOrder
<1>5. InOrder(Ranked(top) \o Ranked(tail), top \union tail)
  BY <1>2, <1>3, <1>4, JoinedInOrder
<1>6. /\ candidate_models(rows) = IF top # {} THEN Ranked(top) \o Ranked(tail) ELSE Ranked(Healthy(tail))
      /\ Walkable(rows) = IF top # {} THEN top \union tail ELSE Healthy(tail)
  BY DEF candidate_models, Walkable
<1> HIDE DEF top, tail
<1>7. QED BY <1>1, <1>4, <1>5, <1>6

Read == [rows : Tables \union {{}}, who : Turn \union {None}]

\* The rows are those of one table, and the pick is of some row.
CatalogInv ==
  /\ _catalog \in Tables \union {{}}
  /\ ai_model \in Model \union {None} /\ saved_model \in Model \union {None}
  /\ reads \in Seq(Read)

LEMMA TableTold == ASSUME NEW rows \in Tables \union {{}} PROVE Told(rows) /\ IdsOf(rows) \subseteq Model
<1>1. CASE rows \in Tables
  BY <1>1, CatalogAssumption DEF Told, Row, IdsOf, Model
<1>2. CASE rows = {}
  BY <1>2, FS_EmptySet DEF Told, IdsOf
<1>3. QED BY <1>1, <1>2

LEMMA ModelIsNumber == Model \subseteq Nat \ {0}
  BY CatalogAssumption DEF Model

\* What will serve a pick is of some row, too.
LEMMA Served ==
  ASSUME NEW rows \in Tables \union {{}}, NEW pick \in Model \union {None}
  PROVE  serving_model(pick, rows) \in Model \union {None}
<1> DEFINE pool == candidate_models(rows)
<1>1. InOrder(pool, Walkable(rows)) /\ IdsOf(Walkable(rows)) \subseteq Model
  BY PoolInOrder, TableTold DEF IdsOf
<1> HIDE DEF pool
<1>2. ASSUME pool # <<>> PROVE Head(pool) \in Model
  <2>1. pool \in Seq(IdsOf(Walkable(rows)))
    BY <1>1 DEF InOrder
  <2>2. QED BY <1>1, <1>2, <2>1, HeadTailProperties
<1>3. QED BY <1>2 DEF serving_model, pool

LEMMA CatalogInitially == CatalogInit => CatalogInv
  BY DEF CatalogInit, CatalogInv

LEMMA CatalogStep == CatalogInv /\ [CatalogNext]_catalogVars => CatalogInv'
<1> SUFFICES ASSUME CatalogInv, [CatalogNext]_catalogVars PROVE CatalogInv'
  OBVIOUS
<1> USE DEF CatalogInv
<1>1. ASSUME NEW who \in Turn \union {None}, refresh_catalog(who) PROVE reads' \in Seq(Read)
  BY <1>1, AppendProperties DEF refresh_catalog, Read
<1>2. ASSUME NEW rows \in Tables \union {{}}, adopt_default_model(rows) PROVE ai_model' \in Model \union {None}
  BY <1>2, Served DEF adopt_default_model
<1>3. DOMAIN reads = 1 .. Len(reads) /\ \A i \in DOMAIN reads : reads[i] \in Read
  BY LenProperties
<1>4. \A i \in DOMAIN reads : RemoveAt(reads, i) \in Seq(Read)
  BY <1>3, RemovedAt
<1>5. CASE Refreshes
  BY <1>1, <1>5 DEF Refreshes, held, chosen
<1>6. CASE catalog_stale
  BY <1>6 DEF catalog_stale, chosen
<1>7. CASE Relaunch
  BY <1>7 DEF Relaunch
<1>8. ASSUME NEW i \in DOMAIN reads, Answered(i) PROVE CatalogInv'
  <2>1. PICK rows \in Tables : reads' = [reads EXCEPT ![i].rows = rows]
    BY <1>8 DEF Answered
  <2>2. reads' = [reads EXCEPT ![i] = [reads[i] EXCEPT !.rows = rows]] /\ [reads[i] EXCEPT !.rows = rows] \in Read
    BY <1>3, <2>1 DEF Read
  <2>3. reads' \in Seq(Read)
    BY <2>2, ExceptSeq
  <2>4. QED BY <1>8, <2>3 DEF Answered, held, chosen
<1>9. ASSUME NEW i \in DOMAIN reads, apply_catalog(i) PROVE CatalogInv'
  <2>1. reads[i].rows \in Tables
    BY <1>3, <1>9 DEF apply_catalog, Read
  <2>2. QED BY <1>2, <1>4, <1>9, <2>1 DEF apply_catalog
<1>10. ASSUME NEW i \in DOMAIN reads, RefreshFails(i) PROVE CatalogInv'
  BY <1>2, <1>4, <1>10 DEF RefreshFails, held
<1>11. ASSUME NEW m \in Model, _pick_model(m) PROVE CatalogInv'
  BY <1>1, <1>11 DEF _pick_model, held
<1>12. ASSUME NEW m \in Model, model_circuit_closes(m) PROVE CatalogInv'
  BY <1>12 DEF model_circuit_closes, held, chosen
<1>13. ASSUME NEW t \in Turn, TurnStarts(t) PROVE CatalogInv'
  BY <1>1, <1>13 DEF TurnStarts, held, chosen
<1>14. ASSUME NEW t \in Turn, TurnWalks(t) \/ CandidateFails(t) \/ TurnEnds(t) PROVE CatalogInv'
  BY <1>14 DEF TurnWalks, CandidateFails, TurnEnds, held, chosen
<1>15. CASE UNCHANGED catalogVars
  BY <1>15 DEF catalogVars
<1>16. QED
  BY <1>5, <1>6, <1>7, <1>8, <1>9, <1>10, <1>11, <1>12, <1>13, <1>14, <1>15 DEF CatalogNext

LEMMA WalkFollows == CatalogInv => WalkIsRight
<1> SUFFICES ASSUME CatalogInv PROVE WalkIsRight
  OBVIOUS
<1> USE DEF CatalogInv
<1> DEFINE pool == candidate_models(_catalog)
           rows == Walkable(_catalog)
           others == Others(rows, ai_model)
           w == turn_candidates(ai_model, _catalog)
           left == Spared(w, ai_model)
           row(m) == CHOOSE r \in _catalog : r.id = m
           good == {r.id : r \in Healthy(Pickable(_catalog))}
           S == Model \union {None}
<1>1. Told(_catalog) /\ IdsOf(_catalog) \subseteq Model
  BY TableTold
<1>2. InOrder(pool, rows) /\ rows \subseteq _catalog /\ Told(rows) /\ IdsOf(rows) \subseteq Model
  BY <1>1, PoolInOrder, SomeTold DEF IdsOf
<1>3. pool \in Seq(Model) /\ Distinct(pool) /\ ToSet(pool) = IdsOf(rows)
  BY <1>2, SeqGrows DEF InOrder
<1>4. None \notin Model /\ AutoPick \notin Model
  BY ModelIsNumber, NoModelAssumption DEF AutoPick
<1> DEFINE rest == Spared(pool, ai_model)
<1>5. w = IF ai_model = None THEN pool ELSE <<ai_model>> \o rest
  BY <1>4 DEF turn_candidates, Spared
<1>6. InOrder(rest, others) /\ Told(others)
  <2>1. IdsOf(rows) \subseteq S /\ ai_model \in S
    BY <1>2
  <2> HIDE DEF pool, rows, S
  <2>2. InOrder(rest, others)
    BY <1>2, <2>1, LeftTwice
  <2>3. QED BY <1>2, <2>2, SomeTold DEF Others
<1>7. InOrder(left, others)
  <2>1. CASE ai_model = None
    BY <1>5, <1>6, <2>1
  <2>2. CASE ai_model # None
    <3> HIDE DEF rest, pool, rows, w
    <3>1. w = <<ai_model>> \o rest /\ IdsOf(others) \subseteq S /\ ai_model \in S
      BY <1>2, <1>5, <2>2 DEF IdsOf, Others
    <3> HIDE DEF S, others
    <3>2. InOrder(left, Others(others, ai_model))
      BY <1>6, <3>1, LeftTwice
    <3>3. Others(others, ai_model) = others
      BY DEF others, Others
    <3>4. QED BY <3>2, <3>3
  <2>3. QED BY <2>1, <2>2
<1>8. rest \in Seq(S) /\ Distinct(rest) /\ ToSet(rest) = {m \in ToSet(pool) : m # ai_model}
  <2>1. IdsOf(others) \subseteq S /\ IdsOf(others) = {m \in IdsOf(rows) : m # ai_model}
    BY <1>2 DEF IdsOf, Others
  <2>2. QED BY <1>3, <1>6, <2>1, SeqGrows DEF InOrder
<1>9. /\ w \in Seq(S) /\ Distinct(w)
      /\ ToSet(w) = IF ai_model = None THEN ToSet(pool) ELSE {ai_model} \union ToSet(rest)
      /\ ai_model # None => Head(w) = ai_model
  <2>1. CASE ai_model = None
    BY <1>3, <1>5, <2>1, SeqGrows
  <2>2. CASE ai_model # None
    <3> HIDE DEF rest, pool, w
    <3>1. /\ w \in Seq(S) /\ Len(w) = Len(rest) + 1 /\ w[1] = ai_model
          /\ \A i \in 1 .. Len(rest) : w[i + 1] = rest[i]
      BY <1>5, <1>8, <2>2
    <3>2. Len(rest) \in Nat /\ DOMAIN rest = 1 .. Len(rest) /\ DOMAIN w = 1 .. Len(rest) + 1
      BY <1>8, <3>1, LenProperties
    <3>3. Widens(w, rest, 1, ai_model)
      BY <3>1, <3>2 DEF Widens
    <3>4. ai_model \in S /\ ai_model \notin ToSet(rest) /\ 1 \in 1 .. Len(rest) + 1
      BY <1>8, <3>2
    <3>5. Distinct(w) /\ ToSet(w) = ToSet(rest) \union {ai_model}
      BY <1>8, <3>1, <3>3, <3>4, Widened
    <3>6. Head(w) = ai_model
      BY <3>1, <3>2
    <3>7. QED BY <2>2, <3>1, <3>5, <3>6
  <2>3. QED BY <2>1, <2>2
<1>10. \A r \in rows : row(r.id) = r
  BY <1>1, <1>2 DEF Told
<1>11. Cardinality(ToSet(w)) = Len(w)
  BY <1>9, DistinctCount
<1>12. ASSUME NEW r \in Usable(_catalog), r.id \notin failed PROVE r.id \in ToSet(w)
  <2>1. r \in rows
    BY <1>12 DEF Walkable, Healthy, Usable, Pickable
  <2>2. r.id \in ToSet(pool)
    BY <1>3, <2>1 DEF IdsOf
  <2>3. QED BY <1>8, <1>9, <2>2
<1>13. ToSet(left) = IdsOf(others) /\ left \in Seq(IdsOf(others))
  BY <1>7 DEF InOrder
<1>14. ASSUME NEW i \in 1 .. Len(left), NEW j \in 1 .. Len(left), i < j PROVE Before(row(left[i]), row(left[j]))
  <2> HIDE DEF left, row
  <2>1. DOMAIN left = 1 .. Len(left) /\ left[i] \in IdsOf(others) /\ left[j] \in IdsOf(others)
    BY <1>13, LenProperties, ElementOfSeq
  <2>2. PICK q \in others, r \in others : q.id = left[i] /\ r.id = left[j]
    BY <2>1 DEF IdsOf
  <2>3. row(left[i]) = q /\ row(left[j]) = r
    BY <1>10, <2>2 DEF Others
  <2>4. QED BY <1>7, <1>14, <2>1, <2>2, <2>3 DEF InOrder
<1>15. ASSUME NEW m \in ToSet(left) \intersect failed PROVE row(m).tier \notin PICKABLE_TIERS /\ good # {}
  <2>1. PICK r \in others : r.id = m
    BY <1>13 DEF IdsOf, Others
  <2>2. row(m) = r /\ r \in rows /\ r.id \in failed
    BY <1>10, <2>1 DEF Others
  <2>3. r.tier \notin PICKABLE_TIERS /\ Healthy(Pickable(_catalog)) # {}
    BY <2>2 DEF Walkable, Healthy, Usable, Pickable
  <2>4. QED BY <2>2, <2>3
<1>16. pill_label \in Model => pill_label = Head(w) \/ (ai_model \in ToSet(w) \ {pill_label})
  <2> SUFFICES ASSUME pill_label \in Model PROVE pill_label = Head(w) \/ (ai_model \in ToSet(w) \ {pill_label})
    OBVIOUS
  <2>1. pill_label = serving_model(ai_model, _catalog)
    BY <1>4 DEF pill_label
  <2>2. CASE ai_model = None
    <3>1. pill_label = Head(pool)
      BY <1>4, <2>1, <2>2 DEF serving_model
    <3>2. QED BY <1>5, <2>2, <3>1
  <2>3. CASE ai_model # None /\ Contains(pool, ai_model)
    BY <1>9, <2>1, <2>3 DEF serving_model
  <2>4. CASE ai_model # None /\ ~Contains(pool, ai_model)
    <3>1. pool # <<>> /\ pill_label = Head(pool)
      BY <1>4, <2>1, <2>4 DEF serving_model
    <3>2. Len(pool) \in Nat /\ Len(pool) > 0 /\ Head(pool) = pool[1] /\ 1 \in 1 .. Len(pool)
      BY <1>3, <3>1, LenProperties, HeadTailProperties
    <3>3. pill_label # ai_model
      BY <2>4, <3>1, <3>2 DEF Contains
    <3>4. QED BY <1>9, <2>4, <3>3
  <2>5. QED BY <2>2, <2>3, <2>4
<1> HIDE DEF w, left, row, good
<1>17. QED BY <1>9, <1>11, <1>12, <1>14, <1>15, <1>16 DEF WalkIsRight, Spared, w, left, row, good

\* However refreshes, failures, picks and turns interleave, for any catalogs: a turn
\* that begins now walks the models in the order that is promised, and the pill names
\* the one that will serve (turn_candidates, candidate_models, pill_state).
THEOREM WalksAreRight == CatalogSpec => []WalkIsRight
<1>1. QED BY CatalogInitially, CatalogStep, WalkFollows, PTL DEF CatalogSpec
=============================================================================
