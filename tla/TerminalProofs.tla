--------------------------- MODULE TerminalProofs ---------------------------
(***************************************************************************)
(* Theorems about module Terminal, for any number of shells, sockets and   *)
(* tabs: a client and its socket agree whatever the order of connects,     *)
(* drops, closes, back-off attempts and resume sweeps.                     *)
(***************************************************************************)
EXTENDS Terminal, WellFoundedInduction, TLAPS

Unborn == {"unborn", "session", "heal"}

\* A socket in use belongs to a client; the one a client holds is its own and
\* not closed, and so is the one its reader serves.
SocketsAreOwned ==
  /\ \A s \in Sock : sock[s].of = None => sock[s] = Free
  /\ \A c \in Client, s \in Sock :
       /\ ws[c] = s => sock[s].of = c /\ sock[s].up # "free"
       /\ _read_task[c] = s => sock[s].of = c /\ sock[s].read

\* Nor has a client that never overlapped any other socket.
OneSocketEach ==
  \A c \in Client \ overlap, s \in Sock : sock[s].of = c => ws[c] = s /\ _read_task[c] = s

\* Whoever dials for it finds it without one.
OneDialEach ==
  \A c \in Client \ overlap :
    /\ opener[c].pc # "done" => ws[c] = None /\ mend[c] = Idle
    /\ mend[c] # Idle => ws[c] = None

\* No tab has a client before its shell is made, and nobody mends it.
UnbornIsUnknown ==
  \A c \in Client : opener[c].pc \in Unborn =>
    ~_running[c] /\ ~quiet[c] /\ mend[c] = Idle /\ \A t \in Tab : client[t] # c

Agreement ==
  /\ SocketsAreOwned /\ OneSocketEach /\ OneDialEach /\ UnbornIsUnknown
  /\ RunningIsTended /\ QuietCloseIsFinal

TerminalInv == TerminalTypeOK /\ Agreement

----------------------------------------------------------------------------
(* Pieces of the actions *)

LEMMA LeastTab == ASSUME NEW ts \in SUBSET Tab, ts # {} PROVE Min(ts) \in ts
<1>1. ts \subseteq Nat
  BY TerminalAssumption DEF Tab
<1>2. PICK less : less = {ss \in Nat \X Nat : ss[1] < ss[2]}
  OBVIOUS
<1>3. IsWellFoundedOn(less, Nat)
  BY <1>2, NatLessThanWellFounded DEF OpToRel
<1>4. PICK x \in ts : \A y \in ts : <<y, x>> \notin less
  BY <1>1, <1>3, WFMin
<1>5. ASSUME NEW a \in Nat, NEW b \in Nat, a < b PROVE <<a, b>> \in less
  <2>1. PICK p : p = <<a, b>>
    OBVIOUS
  <2>2. p \in Nat \X Nat /\ p[1] = a /\ p[2] = b
    BY <2>1
  <2>3. p \in less
    BY <1>2, <1>5, <2>2
  <2>4. QED BY <2>1, <2>3
<1>6. ASSUME NEW y \in ts PROVE x =< y
  <2>1. x \in Nat /\ y \in Nat /\ <<y, x>> \notin less
    BY <1>1, <1>4
  <2>2. ~(y < x)
    BY <1>5, <2>1, Zenon
  <2>3. QED BY <2>1, <2>2
<1>7. QED BY <1>6 DEF Min

\* What closing some clients at once leaves of each client and each socket.
Ends(cs, s) == sock[s].up = "free" \/ \E c \in cs : ws[c] = s
Stopped(cs, s) == ~sock[s].read \/ \E c \in cs : _read_task[c] = s

LEMMA Closing ==
  ASSUME TerminalTypeOK, NEW cs \in SUBSET Client, close(cs)
  PROVE  /\ _running' \in [Client -> BOOLEAN] /\ _abandoned' \in [Client -> BOOLEAN]
         /\ ws' \in [Client -> Sock \union {None}]
         /\ _read_task' \in [Client -> Sock \union {None}]
         /\ sock' \in [Sock -> [of : Client \union {None}, up : {"free", "open", "dead"},
                                read : BOOLEAN]]
         /\ quiet' \in [Client -> BOOLEAN]
         /\ \A c \in Client : /\ _running'[c] <=> _running[c] /\ c \notin cs
                              /\ ws'[c] = IF c \in cs THEN None ELSE ws[c]
                              /\ _read_task'[c] = IF c \in cs THEN None ELSE _read_task[c]
                              /\ quiet'[c] <=> IF c \in cs THEN mend[c] = Idle ELSE quiet[c]
         /\ \A s \in Sock :
              /\ Ends(cs, s) /\ Stopped(cs, s) => sock'[s] = Free
              /\ ~(Ends(cs, s) /\ Stopped(cs, s)) =>
                   /\ sock'[s].of = sock[s].of
                   /\ sock'[s].up = IF Ends(cs, s) THEN "free" ELSE sock[s].up
                   /\ sock'[s].read <=> ~Stopped(cs, s)
<1>1. /\ _running' \in [Client -> BOOLEAN] /\ _abandoned' \in [Client -> BOOLEAN]
      /\ \A c \in Client : _running'[c] <=> _running[c] /\ c \notin cs
  BY DEF close, _teardown_socket
<1>2. /\ ws' \in [Client -> Sock \union {None}]
      /\ _read_task' \in [Client -> Sock \union {None}]
      /\ \A c \in Client : /\ ws'[c] = IF c \in cs THEN None ELSE ws[c]
                           /\ _read_task'[c] = IF c \in cs THEN None ELSE _read_task[c]
  BY DEF close, _teardown_socket, TerminalTypeOK
<1>3. /\ quiet' \in [Client -> BOOLEAN]
      /\ \A c \in Client : quiet'[c] <=> IF c \in cs THEN mend[c] = Idle ELSE quiet[c]
  BY DEF close, TerminalTypeOK
<1>4. PICK k : k = [s \in Sock |->
               [of |-> sock[s].of,
                up |-> IF \E c \in cs : ws[c] = s THEN "free" ELSE sock[s].up,
                read |-> sock[s].read /\ \A c \in cs : _read_task[c] # s]]
  OBVIOUS
<1>5. \A s \in Sock : /\ k[s] \in [of : Client \union {None}, up : {"free", "open", "dead"}, read : BOOLEAN]
                      /\ k[s].of = sock[s].of
                      /\ k[s].up = IF Ends(cs, s) THEN "free" ELSE sock[s].up
                      /\ k[s].read <=> ~Stopped(cs, s)
  BY <1>4 DEF TerminalTypeOK, Ends, Stopped
<1>6. sock' = [s \in Sock |-> IF k[s].up = "free" /\ ~k[s].read THEN Free ELSE k[s]]
  BY <1>4 DEF close, _teardown_socket, Recycle
<1>7. \A s \in Sock : k[s].up = "free" <=> Ends(cs, s)
  BY <1>5 DEF Ends
<1>8. /\ sock' \in [Sock -> [of : Client \union {None}, up : {"free", "open", "dead"}, read : BOOLEAN]]
      /\ \A s \in Sock : sock'[s] = IF Ends(cs, s) /\ Stopped(cs, s) THEN Free ELSE k[s]
  BY <1>5, <1>6, <1>7 DEF Free
<1>9. QED BY <1>1, <1>2, <1>3, <1>5, <1>8

\* Tabs are opened by clients that have no shell yet.
OpenersMove == \A c \in Client : \/ opener'[c] = opener[c]
                                 \/ opener[c].pc = "unborn" /\ opener'[c].pc = "session"

LEMMA ClosingKeeps ==
  ASSUME TerminalInv, NEW cs \in SUBSET Client, \A c \in cs : opener[c].pc \notin Unborn,
         close(cs), OpenersMove, UNCHANGED <<client, mend, overlap>>
  PROVE  Agreement'
<1> USE TerminalAssumption
<1>0. /\ TerminalTypeOK /\ SocketsAreOwned /\ OneSocketEach /\ OneDialEach /\ UnbornIsUnknown
      /\ RunningIsTended /\ QuietCloseIsFinal
  BY DEF TerminalInv, Agreement
<1>1. \A c \in Client : /\ _running'[c] <=> _running[c] /\ c \notin cs
                        /\ ws'[c] = IF c \in cs THEN None ELSE ws[c]
                        /\ _read_task'[c] = IF c \in cs THEN None ELSE _read_task[c]
                        /\ quiet'[c] <=> IF c \in cs THEN mend[c] = Idle ELSE quiet[c]
  BY <1>0, Closing
<1>2. \A s \in Sock :
        /\ Ends(cs, s) /\ Stopped(cs, s) => sock'[s] = Free
        /\ ~(Ends(cs, s) /\ Stopped(cs, s)) =>
             /\ sock'[s].of = sock[s].of
             /\ sock'[s].up = IF Ends(cs, s) THEN "free" ELSE sock[s].up
             /\ sock'[s].read <=> ~Stopped(cs, s)
  BY <1>0, Closing
<1>3. Free.of = None
  BY DEF Free
<1>4. \A c \in Client, s \in Sock :
        /\ c \notin cs /\ ws[c] = s => sock[s].of = c /\ ~Ends(cs, s)
        /\ c \notin cs /\ _read_task[c] = s => sock[s].of = c /\ ~Stopped(cs, s)
  BY <1>0 DEF SocketsAreOwned, Ends, Stopped
<1>5. SocketsAreOwned'
  <2>1. ASSUME NEW s \in Sock, sock'[s].of = None PROVE sock'[s] = Free
    <3>1. CASE sock[s].of = None
      <4>1. sock[s].up = "free" /\ ~sock[s].read
        BY <1>0, <3>1 DEF SocketsAreOwned, Free
      <4>2. QED BY <1>2, <4>1 DEF Ends, Stopped
    <3>2. CASE sock[s].of # None
      BY <1>2, <2>1, <3>2
    <3>3. QED BY <3>1, <3>2
  <2>2. ASSUME NEW c \in Client, NEW s \in Sock, ws'[c] = s
        PROVE  sock'[s].of = c /\ sock'[s].up # "free"
    <3>1. c \notin cs /\ ws[c] = s
      BY <1>1, <2>2
    <3>2. ~Ends(cs, s) /\ sock[s].of = c /\ sock[s].up # "free"
      BY <1>0, <1>4, <3>1 DEF SocketsAreOwned
    <3>3. QED BY <1>2, <3>2
  <2>3. ASSUME NEW c \in Client, NEW s \in Sock, _read_task'[c] = s
        PROVE  sock'[s].of = c /\ sock'[s].read
    <3>1. c \notin cs /\ _read_task[c] = s
      BY <1>1, <2>3
    <3>2. ~Stopped(cs, s) /\ sock[s].of = c
      BY <1>4, <3>1
    <3>3. QED BY <1>2, <3>2
  <2>4. QED BY <2>1, <2>2, <2>3 DEF SocketsAreOwned
<1>6. OneSocketEach'
  <2>1. ASSUME NEW c \in Client \ overlap, NEW s \in Sock, sock'[s].of = c
        PROVE  ws'[c] = s /\ _read_task'[c] = s
    <3>1. ~(Ends(cs, s) /\ Stopped(cs, s)) /\ sock[s].of = c
      BY <1>2, <1>3, <2>1
    <3>2. ws[c] = s /\ _read_task[c] = s
      BY <1>0, <3>1 DEF OneSocketEach
    <3>3. c \notin cs
      BY <3>1, <3>2 DEF Ends, Stopped
    <3>4. QED BY <1>1, <3>2, <3>3
  <2>2. QED BY <2>1 DEF OneSocketEach
<1>7. OneDialEach'
  <2>1. ASSUME NEW c \in Client, opener'[c].pc # "done" PROVE opener[c].pc # "done"
    BY <2>1 DEF OpenersMove
  <2>2. QED BY <1>0, <1>1, <2>1 DEF OneDialEach
<1>8. UnbornIsUnknown'
  <2>1. ASSUME NEW c \in Client, opener'[c].pc \in Unborn PROVE opener[c].pc \in Unborn
    BY <2>1 DEF OpenersMove, Unborn
  <2>2. \A c \in Client : opener'[c].pc \in Unborn => c \notin cs
    BY <2>1
  <2>3. QED BY <1>0, <1>1, <2>1, <2>2 DEF UnbornIsUnknown
<1>9. RunningIsTended'
  <2>1. ASSUME NEW c \in Client \ overlap, _running'[c]
        PROVE  \/ ws'[c] # None /\ sock'[ws'[c]].read
               \/ opener'[c].pc = "dial"
               \/ mend[c].pc \in {"dial", "now_dial"}
    <3>1. _running[c] /\ c \notin cs /\ ws'[c] = ws[c] /\ _read_task'[c] = _read_task[c]
      BY <1>1, <2>1
    <3>2. CASE ws[c] # None /\ sock[ws[c]].read
      <4>1. ws[c] \in Sock
        BY <1>0, <3>2 DEF TerminalTypeOK
      <4>2. sock[ws[c]].of = c /\ ~Ends(cs, ws[c])
        BY <1>4, <3>1, <4>1
      <4>3. _read_task[c] = ws[c]
        BY <1>0, <4>1, <4>2 DEF OneSocketEach
      <4>4. ~Stopped(cs, ws[c])
        BY <1>4, <3>1, <4>1, <4>3
      <4>5. QED BY <1>2, <3>1, <3>2, <4>1, <4>2, <4>4
    <3>3. CASE opener[c].pc = "dial"
      BY <3>3 DEF OpenersMove
    <3>4. QED BY <1>0, <3>1, <3>2, <3>3 DEF RunningIsTended
  <2>2. QED BY <2>1 DEF RunningIsTended
<1>10. QuietCloseIsFinal'
  BY <1>0, <1>1 DEF QuietCloseIsFinal
<1>11. QED BY <1>5, <1>6, <1>7, <1>8, <1>9, <1>10 DEF Agreement

----------------------------------------------------------------------------
(* One client at a time *)

\* The part of the agreement that is about a single client.
Agrees(c) ==
  /\ c \notin overlap => /\ opener[c].pc # "done" => ws[c] = None /\ mend[c] = Idle
                         /\ mend[c] # Idle => ws[c] = None
  /\ opener[c].pc \in Unborn =>
       ~_running[c] /\ ~quiet[c] /\ mend[c] = Idle /\ \A t \in Tab : client[t] # c
  /\ c \notin overlap /\ _running[c] => \/ ws[c] # None /\ sock[ws[c]].read
                                        \/ opener[c].pc = "dial"
                                        \/ mend[c].pc \in {"dial", "now_dial"}
  /\ quiet[c] => ~_running[c] /\ mend[c] = Idle

LEMMA AgreementIsByClient ==
  Agreement <=> SocketsAreOwned /\ OneSocketEach /\ \A c \in Client : Agrees(c)
<1>1. OneDialEach <=> \A c \in Client : c \notin overlap =>
                        /\ opener[c].pc # "done" => ws[c] = None /\ mend[c] = Idle
                        /\ mend[c] # Idle => ws[c] = None
  BY DEF OneDialEach
<1>2. RunningIsTended <=> \A c \in Client : c \notin overlap /\ _running[c] =>
        \/ ws[c] # None /\ sock[ws[c]].read
        \/ opener[c].pc = "dial"
        \/ mend[c].pc \in {"dial", "now_dial"}
  BY DEF RunningIsTended
<1>3. QED BY <1>1, <1>2 DEF Agreement, UnbornIsUnknown, QuietCloseIsFinal, Agrees

\* A step leaves client c alone.
Untouched(c) ==
  /\ opener'[c] = opener[c] /\ mend'[c] = mend[c] /\ ws'[c] = ws[c]
  /\ _running'[c] <=> _running[c]
  /\ quiet'[c] <=> quiet[c]
  /\ c \in overlap' <=> c \in overlap
  /\ ws[c] # None => (sock'[ws[c]].read <=> sock[ws[c]].read)
  /\ \A t \in Tab : client'[t] = c => client[t] = c

LEMMA UntouchedAgrees ==
  ASSUME NEW c \in Client, Agrees(c), Untouched(c) PROVE Agrees(c)'
  BY DEF Agrees, Untouched

LEMMA InvIsByClient ==
  ASSUME TerminalInv
  PROVE  TerminalTypeOK /\ SocketsAreOwned /\ OneSocketEach /\ \A c \in Client : Agrees(c)
  BY AgreementIsByClient DEF TerminalInv

LEMMA OneClientAtATime ==
  ASSUME TerminalInv, SocketsAreOwned', OneSocketEach', NEW cs \in SUBSET Client,
         \A c \in Client \ cs : Untouched(c), \A c \in cs : Agrees(c)'
  PROVE  Agreement'
<1>1. ASSUME NEW c \in Client PROVE Agrees(c)'
  <2>1. CASE c \in cs
    BY <2>1
  <2>2. CASE c \notin cs
    BY <2>2, InvIsByClient, UntouchedAgrees
  <2>3. QED BY <2>1, <2>2
<1>2. (SocketsAreOwned /\ OneSocketEach /\ \A c \in Client : Agrees(c))'
  BY <1>1
<1>3. QED BY <1>2, AgreementIsByClient, PTL

LEMMA OneClientMoves ==
  ASSUME TerminalInv, SocketsAreOwned', OneSocketEach', NEW c \in Client,
         \A d \in Client \ {c} : Untouched(d), Agrees(c)'
  PROVE  Agreement'
<1>1. PICK cs \in SUBSET Client : cs = {c}
  OBVIOUS
<1>2. /\ \A d \in Client \ cs : Untouched(d)
      /\ \A d \in cs : Agrees(d)'
  BY <1>1
<1>3. QED BY <1>2, OneClientAtATime

\* connect() finds the client without a socket, or among those that overlap.
LEMMA SocketComesUp ==
  ASSUME TerminalInv, NEW c \in Client, Up(c), c \notin overlap => ws[c] = None,
         overlap \subseteq overlap', c \in overlap' => c \in overlap
  PROVE  /\ ws' \in [Client -> Sock \union {None}]
         /\ _read_task' \in [Client -> Sock \union {None}]
         /\ sock' \in [Sock -> [of : Client \union {None}, up : {"free", "open", "dead"},
                                read : BOOLEAN]]
         /\ SocketsAreOwned' /\ OneSocketEach'
         /\ ws'[c] # None /\ sock'[ws'[c]].read
         /\ \A d \in Client \ {c} : /\ ws'[d] = ws[d]
                                    /\ ws[d] # None => sock'[ws[d]] = sock[ws[d]]
<1> USE TerminalAssumption
<1>0. TerminalTypeOK /\ SocketsAreOwned /\ OneSocketEach
  BY InvIsByClient
<1>1. PICK s \in Sock : s = NewSock /\ sock[s] = Free
  BY DEF Up, NewSock
<1>2. /\ ws' = [ws EXCEPT ![c] = s] /\ _read_task' = [_read_task EXCEPT ![c] = s]
      /\ sock' = [sock EXCEPT ![s] = [of |-> c, up |-> "open", read |-> TRUE]]
  BY <1>1 DEF Up
<1>3. /\ ws' \in [Client -> Sock \union {None}]
      /\ _read_task' \in [Client -> Sock \union {None}]
      /\ sock' \in [Sock -> [of : Client \union {None}, up : {"free", "open", "dead"}, read : BOOLEAN]]
  BY <1>0, <1>2 DEF TerminalTypeOK
<1>4. /\ \A d \in Client : /\ ws'[d] = IF d = c THEN s ELSE ws[d]
                           /\ _read_task'[d] = IF d = c THEN s ELSE _read_task[d]
      /\ \A x \in Sock \ {s} : sock'[x] = sock[x]
      /\ sock'[s].of = c /\ sock'[s].up = "open" /\ sock'[s].read
  BY <1>0, <1>2 DEF TerminalTypeOK
<1>5. \A d \in Client : ws[d] # s /\ _read_task[d] # s
  BY <1>0, <1>1 DEF SocketsAreOwned, Free
<1>6. SocketsAreOwned'
  BY <1>0, <1>4, <1>5 DEF SocketsAreOwned
<1>7. ASSUME NEW d \in Client \ overlap', NEW x \in Sock, sock'[x].of = d
      PROVE  ws'[d] = x /\ _read_task'[d] = x
  <2>1. d \in Client \ overlap
    BY <1>7
  <2>2. CASE x = s
    BY <1>4, <1>7, <2>2
  <2>3. CASE x # s
    <3>1. ws[d] = x /\ _read_task[d] = x
      BY <1>0, <1>4, <1>7, <2>1, <2>3 DEF OneSocketEach
    <3>2. d # c
      BY <2>1, <3>1
    <3>3. QED BY <1>4, <3>1, <3>2
  <2>4. QED BY <2>2, <2>3
<1>8. OneSocketEach'
  BY <1>7 DEF OneSocketEach
<1>9. \A d \in Client \ {c} : ws[d] # None => ws[d] \in Sock \ {s}
  BY <1>0, <1>5 DEF TerminalTypeOK
<1>10. QED BY <1>3, <1>4, <1>6, <1>8, <1>9

LEMMA SocketGoesDown ==
  ASSUME TerminalInv, NEW c \in Client, Down(c), c \notin overlap => ws[c] = None,
         overlap \subseteq overlap', c \in overlap' => c \in overlap
  PROVE  /\ ws' \in [Client -> Sock \union {None}]
         /\ _read_task' = _read_task /\ sock' = sock
         /\ SocketsAreOwned' /\ OneSocketEach'
         /\ ws'[c] = None
         /\ \A d \in Client \ {c} : ws'[d] = ws[d]
<1> USE TerminalAssumption
<1>0. TerminalTypeOK /\ SocketsAreOwned /\ OneSocketEach
  BY InvIsByClient
<1>1. /\ ws' \in [Client -> Sock \union {None}]
      /\ \A d \in Client : ws'[d] = IF d = c THEN None ELSE ws[d]
      /\ _read_task' = _read_task /\ sock' = sock
  BY <1>0 DEF Down, TerminalTypeOK
<1>2. SocketsAreOwned'
  BY <1>0, <1>1 DEF SocketsAreOwned
<1>3. ASSUME NEW d \in Client \ overlap', NEW x \in Sock, sock[x].of = d
      PROVE  ws'[d] = x /\ _read_task[d] = x
  <2>1. ws[d] = x /\ _read_task[d] = x
    BY <1>0, <1>3 DEF OneSocketEach
  <2>2. d # c
    BY <1>3, <2>1
  <2>3. QED BY <1>1, <2>1, <2>2
<1>4. OneSocketEach'
  BY <1>1, <1>3 DEF OneSocketEach
<1>5. QED BY <1>1, <1>2, <1>4

----------------------------------------------------------------------------
(* The panel *)

Openers == [pc : {"unborn", "session", "heal", "dial", "done"}, tab : Tab]
Mends == [pc : {"none", "sleep", "creds", "dial", "now_creds", "now_dial"}, n : 0 .. MaxAttempts]
Sweeps == [on : Client \union {None}, left : SUBSET Tab]

LEMMA ConnectingMoves ==
  ASSUME TerminalTypeOK, NEW t \in Tab, Connecting(t)
  PROVE  OpenersMove /\ opener' \in [Client -> Openers]
<1>1. PICK c \in Client : /\ opener[c].pc = "unborn"
                          /\ opener' = [opener EXCEPT ![c] = [pc |-> "session", tab |-> t]]
  BY DEF Connecting
<1>2. opener' \in [Client -> Openers]
  BY <1>1 DEF TerminalTypeOK, Openers
<1>3. \A d \in Client : opener'[d] = IF d = c THEN [pc |-> "session", tab |-> t] ELSE opener[d]
  BY <1>1 DEF TerminalTypeOK
<1>4. QED BY <1>1, <1>2, <1>3 DEF OpenersMove

LEMMA NewTabTypes ==
  ASSUME TerminalTypeOK, NewTab
  PROVE  /\ OpenersMove /\ opener' \in [Client -> Openers]
         /\ next_id + 1 \in Tab /\ next_id' = next_id + 1 /\ next_id' \in 0 .. MaxTabs
         /\ next_id + 1 \in 1 .. next_id' /\ 1 .. next_id \subseteq 1 .. next_id'
<1>1. PICK t : t = next_id + 1
  OBVIOUS
<1>2. /\ t \in Tab /\ next_id' = t /\ t \in 0 .. MaxTabs
      /\ t \in 1 .. next_id' /\ 1 .. next_id \subseteq 1 .. next_id'
  BY <1>1, TerminalAssumption DEF NewTab, TerminalTypeOK, Tab
<1>3. Connecting(t)
  BY <1>1 DEF NewTab
<1>4. QED BY <1>1, <1>2, <1>3, ConnectingMoves

\* A client that a tab shows has been born.
LEMMA KnownIsBorn ==
  ASSUME TerminalInv, NEW t \in Tab, client[t] # None
  PROVE  client[t] \in Client /\ opener[client[t]].pc \notin Unborn
<1>1. client[t] \in Client
  BY DEF TerminalInv, TerminalTypeOK
<1>2. QED BY <1>1 DEF TerminalInv, Agreement, UnbornIsUnknown

LEMMA HeldIsBorn ==
  ASSUME TerminalInv
  PROVE  Held \in SUBSET Client /\ \A c \in Held : opener[c].pc \notin Unborn
<1>1. terminals \subseteq Tab
  BY TerminalAssumption DEF TerminalInv, TerminalTypeOK, Tab
<1>2. QED BY <1>1, KnownIsBorn DEF Held

\* Everything a panel handler closes and opens, in one step.
LEMMA PanelKeeps ==
  ASSUME TerminalInv, NEW cs \in SUBSET Client, \A c \in cs : opener[c].pc \notin Unborn,
         close(cs), OpenersMove, opener' \in [Client -> Openers],
         mounted' \in BOOLEAN, next_id' \in 0 .. MaxTabs, terminals' \subseteq 1 .. next_id',
         sweep' \in Sweeps, UNCHANGED <<client, mend, overlap>>
  PROVE  TerminalInv'
<1>1. TerminalTypeOK
  BY DEF TerminalInv
<1>2. Agreement'
  BY ClosingKeeps
<1>3. /\ _running' \in [Client -> BOOLEAN] /\ _abandoned' \in [Client -> BOOLEAN]
      /\ ws' \in [Client -> Sock \union {None}]
      /\ _read_task' \in [Client -> Sock \union {None}]
      /\ sock' \in [Sock -> [of : Client \union {None}, up : {"free", "open", "dead"},
                             read : BOOLEAN]]
      /\ quiet' \in [Client -> BOOLEAN]
  BY <1>1, Closing
<1>4. /\ client' \in [Tab -> Client \union {None}] /\ mend' \in [Client -> Mends]
      /\ overlap' \subseteq Client
  BY <1>1 DEF TerminalTypeOK, Mends
<1>5. TerminalTypeOK'
  BY <1>3, <1>4 DEF TerminalTypeOK, Openers, Mends, Sweeps
<1>6. QED BY <1>2, <1>5 DEF TerminalInv

\* A run of _connect begins and nothing else.
LEMMA OpeningKeeps ==
  ASSUME TerminalInv, OpenersMove, opener' \in [Client -> Openers],
         mounted' \in BOOLEAN, next_id' \in 0 .. MaxTabs, terminals' \subseteq 1 .. next_id',
         sweep' \in Sweeps, UNCHANGED <<client, conn, mend, overlap, quiet>>
  PROVE  TerminalInv'
<1>1. TerminalTypeOK'
  BY DEF TerminalInv, TerminalTypeOK, Openers, Sweeps, conn
<1>2. SocketsAreOwned' /\ OneSocketEach'
  BY DEF TerminalInv, Agreement, SocketsAreOwned, OneSocketEach, conn
<1>3. ASSUME NEW c \in Client PROVE Agrees(c)'
  <2>1. Agrees(c)
    BY InvIsByClient
  <2>2. CASE opener'[c] = opener[c]
    BY <2>1, <2>2 DEF Agrees, conn
  <2>3. CASE opener[c].pc = "unborn" /\ opener'[c].pc = "session"
    BY <2>1, <2>3 DEF Agrees, Unborn, conn
  <2>4. QED BY <2>2, <2>3 DEF OpenersMove
<1>4. Agreement'
  BY <1>2, <1>3, OneClientAtATime
<1>5. QED BY <1>1, <1>4 DEF TerminalInv

LEMMA PanelSteps ==
  ASSUME TerminalInv PROVE _init_panel \/ _cleanup \/ _create_terminal => TerminalInv'
<1>0. TerminalTypeOK
  BY DEF TerminalInv
<1>1. PICK cs \in SUBSET Client : cs = Held /\ \A c \in cs : opener[c].pc \notin Unborn
  BY HeldIsBorn
<1>2. ASSUME _init_panel PROVE TerminalInv'
  <2>1. close(cs)
    BY <1>1, <1>2 DEF _init_panel
  <2>2. /\ OpenersMove /\ opener' \in [Client -> Openers] /\ next_id' \in 0 .. MaxTabs
        /\ next_id + 1 \in 1 .. next_id'
    BY <1>0, <1>2, NewTabTypes DEF _init_panel
  <2>3. sweep' \in Sweeps
    BY <1>0, <1>2 DEF _init_panel, TerminalTypeOK, Sweeps
  <2>4. /\ mounted' \in BOOLEAN /\ terminals' \subseteq 1 .. next_id'
        /\ UNCHANGED <<client, mend, overlap>>
    BY <1>2, <2>2 DEF _init_panel
  <2>5. QED BY <1>1, <2>1, <2>2, <2>3, <2>4, PanelKeeps
<1>3. ASSUME _cleanup PROVE TerminalInv'
  <2>1. close(cs)
    BY <1>1, <1>3 DEF _cleanup
  <2>2. /\ OpenersMove /\ opener' \in [Client -> Openers] /\ next_id' \in 0 .. MaxTabs
        /\ mounted' \in BOOLEAN /\ terminals' \subseteq 1 .. next_id'
        /\ sweep' \in Sweeps /\ UNCHANGED <<client, mend, overlap>>
    BY <1>0, <1>3 DEF _cleanup, TerminalTypeOK, OpenersMove, Openers, Sweeps
  <2>3. QED BY <1>1, <2>1, <2>2, PanelKeeps
<1>4. ASSUME _create_terminal PROVE TerminalInv'
  <2>1. /\ OpenersMove /\ opener' \in [Client -> Openers] /\ next_id + 1 \in Tab
        /\ next_id' \in 0 .. MaxTabs
        /\ next_id + 1 \in 1 .. next_id' /\ 1 .. next_id \subseteq 1 .. next_id'
    BY <1>0, <1>4, NewTabTypes DEF _create_terminal
  <2>2. sweep' \in Sweeps
    BY <1>0, <1>4, <2>1 DEF _create_terminal, TerminalTypeOK, Sweeps
  <2>3. mounted' \in BOOLEAN /\ terminals' \subseteq 1 .. next_id'
    BY <1>0, <1>4, <2>1 DEF _create_terminal, TerminalTypeOK
  <2>4. UNCHANGED <<client, conn, mend, overlap, quiet>>
    BY <1>4 DEF _create_terminal
  <2>5. QED BY <2>1, <2>2, <2>3, <2>4, OpeningKeeps
<1>5. QED BY <1>2, <1>3, <1>4

LEMMA CloseTabStep ==
  ASSUME TerminalInv, NEW t \in Tab, _close_terminal(t) PROVE TerminalInv'
<1>0. TerminalTypeOK
  BY DEF TerminalInv
<1>1. PICK cs \in SUBSET Client : /\ cs = {client[t]} \ {None}
                                  /\ \A c \in cs : opener[c].pc \notin Unborn
  <2>1. \A c \in {client[t]} \ {None} : c \in Client /\ opener[c].pc \notin Unborn
    BY KnownIsBorn
  <2>2. QED BY <2>1
<1>2. close(cs) /\ UNCHANGED <<mounted, client, mend, overlap>>
  BY <1>1 DEF _close_terminal
<1>3. /\ OpenersMove /\ opener' \in [Client -> Openers] /\ next_id' \in 0 .. MaxTabs
      /\ terminals' \subseteq 1 .. next_id' /\ (terminals = {t} => next_id + 1 \in Tab)
  <2>1. CASE terminals = {t}
    <3>1. NewTab /\ terminals' = {next_id + 1}
      BY <2>1 DEF _close_terminal
    <3>2. QED BY <1>0, <3>1, NewTabTypes
  <2>2. CASE terminals # {t}
    BY <1>0, <2>2 DEF _close_terminal, TerminalTypeOK, OpenersMove, Openers
  <2>3. QED BY <2>1, <2>2
<1>4. sweep' \in Sweeps
  <2>1. PICK rest \in SUBSET Tab, new \in SUBSET Tab : sweep' = [sweep EXCEPT !.left = rest \union new]
    BY <1>0, <1>3 DEF _close_terminal, TerminalTypeOK
  <2>2. QED BY <1>0, <2>1 DEF TerminalTypeOK, Sweeps
<1>5. mounted' \in BOOLEAN
  BY <1>0, <1>2 DEF TerminalTypeOK
<1>6. QED BY <1>1, <1>2, <1>3, <1>4, <1>5, PanelKeeps

----------------------------------------------------------------------------
(* Reconnecting *)

\* A client a sweep or the button may reconnect.
Dropped(c) == ~alive(c) /\ mend[c] = Idle /\ opener[c].pc \notin Unborn

LEMMA StopsAreDropped ==
  ASSUME TerminalInv, NEW ts \in SUBSET Tab
  PROVE  Stops(ts) \subseteq ts /\ \A t \in Stops(ts) : client[t] \in Client /\ Dropped(client[t])
  BY KnownIsBorn DEF Stops, Dropped

LEMMA Reattaching ==
  ASSUME TerminalTypeOK, NEW cs \in SUBSET Client, NEW m \in [Client -> Mends], Reattach(cs, m)
  PROVE  /\ mend' \in [Client -> Mends] /\ _abandoned' \in [Client -> BOOLEAN]
         /\ quiet' \in [Client -> BOOLEAN] /\ overlap' \subseteq Client
         /\ \A c \in cs : /\ mend'[c].pc = "now_creds" /\ mend'[c] # Idle /\ ~quiet'[c]
                          /\ c \notin overlap' => opener[c].pc # "dial" /\ ws[c] = None
         /\ \A c \in Client \ cs : /\ mend'[c] = m[c] /\ (quiet'[c] <=> quiet[c])
                                   /\ c \in overlap' <=> c \in overlap
         /\ overlap \subseteq overlap'
<1>1. \A c \in Client : mend'[c] = IF c \in cs THEN [pc |-> "now_creds", n |-> 0] ELSE m[c]
  BY DEF Reattach
<1>2. mend' \in [Client -> Mends]
  BY TerminalAssumption DEF Reattach, Mends
<1>3. /\ _abandoned' \in [Client -> BOOLEAN] /\ quiet' \in [Client -> BOOLEAN]
      /\ \A c \in Client : quiet'[c] <=> quiet[c] /\ c \notin cs
  BY DEF Reattach, TerminalTypeOK
<1>4. overlap' = overlap \union {c \in cs : opener[c].pc = "dial" \/ ws[c] # None}
  BY DEF Reattach
<1>5. overlap' \subseteq Client
  BY <1>4 DEF TerminalTypeOK
<1>6. [pc |-> "now_creds", n |-> 0] # Idle /\ [pc |-> "now_creds", n |-> 0].pc = "now_creds"
  BY DEF Idle
<1>7. \A c \in cs : /\ mend'[c].pc = "now_creds" /\ mend'[c] # Idle /\ ~quiet'[c]
                    /\ c \notin overlap' => opener[c].pc # "dial" /\ ws[c] = None
  BY <1>1, <1>3, <1>4, <1>6
<1>8. \A c \in Client \ cs : /\ mend'[c] = m[c] /\ (quiet'[c] <=> quiet[c])
                             /\ c \in overlap' <=> c \in overlap
  BY <1>1, <1>3, <1>4
<1>9. QED BY <1>2, <1>3, <1>4, <1>5, <1>7, <1>8

\* A reattached client that no longer runs and keeps its socket agrees.
LEMMA ReattachedAgrees ==
  ASSUME TerminalInv, NEW cs \in SUBSET Client, NEW m \in [Client -> Mends], Reattach(cs, m),
         NEW c \in cs, Dropped(c), ~_running'[c], ws'[c] = ws[c], opener'[c] = opener[c],
         UNCHANGED client
  PROVE  Agrees(c)'
<1>0. TerminalTypeOK /\ opener[c].pc \in {"unborn", "session", "heal", "dial", "done"}
  BY DEF TerminalInv, TerminalTypeOK
<1>1. /\ ~quiet'[c]
      /\ c \notin overlap' => opener[c].pc # "dial" /\ ws[c] = None
  BY <1>0, Reattaching
<1>2. opener[c].pc \in {"dial", "done"}
  BY <1>0 DEF Dropped, Unborn
<1>3. QED BY <1>1, <1>2 DEF Agrees, Unborn

\* The sweep goes on with one client or is over.
LEMMA Sweeping ==
  ASSUME TerminalInv, NEW ts \in SUBSET Tab, NEW m, SweepOn(ts, m)
  PROVE  \E cs \in SUBSET Client :
           /\ Reattach(cs, m) /\ \A c \in cs : Dropped(c)
           /\ sweep' \in Sweeps /\ \A c \in Client : c \in cs <=> c = sweep'.on
<1>1. CASE Stops(ts) = {}
  <2>1. Reattach({}, m) /\ sweep' = NoSweep
    BY <1>1 DEF SweepOn
  <2>2. sweep' \in Sweeps /\ \A c \in Client : c # sweep'.on
    BY <2>1, TerminalAssumption DEF NoSweep, Sweeps
  <2>3. QED BY <2>1, <2>2
<1>2. CASE Stops(ts) # {}
  <2>1. PICK t : t = Min(Stops(ts))
    OBVIOUS
  <2>2. Stops(ts) \in SUBSET Tab
    BY DEF Stops
  <2>3. t \in ts /\ client[t] \in Client /\ Dropped(client[t])
    BY <1>2, <2>1, <2>2, LeastTab, StopsAreDropped
  <2>4. sweep' = [on |-> client[t], left |-> {u \in ts : u > t}] /\ Reattach({client[t]}, m)
    BY <1>2, <2>1 DEF SweepOn
  <2>5. PICK d \in Client : d = client[t]
    BY <2>3
  <2>6. Reattach({d}, m) /\ sweep'.on = d /\ sweep' \in Sweeps
    BY <2>4, <2>5 DEF Sweeps
  <2>7. QED BY <2>3, <2>5, <2>6
<1>3. QED BY <1>1, <1>2

\* A reconnect returns.  Whoever it leaves or picks up, nobody else is touched.
LEMMA Returning ==
  ASSUME TerminalInv, NEW c \in Client, mend[c].pc \in {"now_creds", "now_dial"}, Returns(c)
  PROVE  \E cs \in SUBSET (Client \ {c}), m \in [Client -> Mends] :
           /\ m = [mend EXCEPT ![c] = Idle]
           /\ Reattach(cs, m) /\ \A d \in cs : Dropped(d)
           /\ sweep' \in Sweeps
           /\ \A d \in Client : d \in cs <=> ~(sweep' = sweep \/ d # sweep'.on)
<1>0. TerminalTypeOK
  BY DEF TerminalInv
<1>1. PICK m \in [Client -> Mends] : m = [mend EXCEPT ![c] = Idle]
  <2>1. Idle \in Mends
    BY TerminalAssumption DEF Idle, Mends
  <2>2. QED BY <1>0, <2>1 DEF TerminalTypeOK, Mends
<1>2. ~Dropped(c)
  BY DEF Dropped, Idle
<1>3. CASE sweep.on = c
  <2>1. PICK ts \in SUBSET Tab : ts = sweep.left
    BY <1>0 DEF TerminalTypeOK
  <2>2. SweepOn(ts, m)
    BY <1>1, <1>3, <2>1 DEF Returns
  <2>3. PICK cs \in SUBSET Client :
          /\ Reattach(cs, m) /\ \A d \in cs : Dropped(d)
          /\ sweep' \in Sweeps /\ \A d \in Client : d \in cs <=> d = sweep'.on
    BY <2>2, Sweeping
  <2>4. c \notin cs /\ cs \in SUBSET (Client \ {c})
    BY <1>2, <2>3
  <2>5. sweep' # sweep
    BY <1>3, <2>3, <2>4
  <2>6. QED BY <1>1, <2>3, <2>4, <2>5
<1>4. CASE sweep.on # c
  <2>1. Reattach({}, m) /\ sweep' = sweep
    BY <1>1, <1>4 DEF Returns
  <2>2. sweep \in Sweeps
    BY <1>0 DEF TerminalTypeOK, Sweeps
  <2>3. PICK cs \in SUBSET (Client \ {c}) : cs = {}
    OBVIOUS
  <2>4. /\ Reattach(cs, m) /\ \A d \in cs : Dropped(d)
        /\ sweep' \in Sweeps
        /\ \A d \in Client : d \in cs <=> ~(sweep' = sweep \/ d # sweep'.on)
    BY <2>1, <2>2, <2>3
  <2>5. QED BY <1>1, <2>4
<1>5. QED BY <1>3, <1>4

\* Reconnects begin, one may have given up, and no socket changes.
LEMMA ReattachKeeps ==
  ASSUME TerminalInv, NEW cs \in SUBSET Client, NEW m \in [Client -> Mends], Reattach(cs, m),
         \A c \in cs : Dropped(c),
         \A c \in Client : m[c] = mend[c] \/ (mend[c].pc = "now_creds" /\ m[c] = Idle),
         _running' \in [Client -> BOOLEAN],
         \A c \in Client : _running'[c] <=> _running[c] /\ c \notin cs,
         sweep' \in Sweeps, UNCHANGED <<panel, opener, ws, _read_task, sock>>
  PROVE  TerminalInv'
<1>0. TerminalTypeOK /\ SocketsAreOwned /\ OneSocketEach
  BY InvIsByClient
<1>1. /\ mend' \in [Client -> Mends] /\ _abandoned' \in [Client -> BOOLEAN]
      /\ quiet' \in [Client -> BOOLEAN] /\ overlap' \subseteq Client
      /\ \A c \in Client \ cs : /\ mend'[c] = m[c] /\ (quiet'[c] <=> quiet[c])
                                /\ c \in overlap' <=> c \in overlap
      /\ overlap \subseteq overlap'
  BY <1>0, Reattaching
<1>2. TerminalTypeOK'
  BY <1>0, <1>1 DEF TerminalTypeOK, Mends, Sweeps, panel
<1>3. SocketsAreOwned' /\ OneSocketEach'
  BY <1>0, <1>1 DEF SocketsAreOwned, OneSocketEach
<1>4. ASSUME NEW c \in cs PROVE Agrees(c)'
  BY <1>4, ReattachedAgrees DEF panel
<1>5. ASSUME NEW c \in Client \ cs, m[c] = mend[c] PROVE Agrees(c)'
  <2>1. Untouched(c)
    BY <1>1, <1>5 DEF Untouched, panel
  <2>2. QED BY <2>1, InvIsByClient, UntouchedAgrees
<1>6. ASSUME NEW c \in Client \ cs, mend[c].pc = "now_creds", m[c] = Idle PROVE Agrees(c)'
  <2>1. Agrees(c) /\ mend[c] # Idle
    BY <1>6, InvIsByClient DEF Idle
  <2>2. /\ mend'[c] = Idle
        /\ quiet'[c] <=> quiet[c]
        /\ c \in overlap' <=> c \in overlap
        /\ _running'[c] <=> _running[c]
    BY <1>1, <1>6
  <2>3. QED BY <1>6, <2>1, <2>2 DEF Agrees, panel
<1>7. Agreement'
  <2>1. \A c \in Client : Agrees(c)'
    BY <1>4, <1>5, <1>6
  <2>2. QED BY <1>3, <2>1, OneClientAtATime
<1>8. QED BY <1>2, <1>7 DEF TerminalInv

LEMMA ButtonStep ==
  ASSUME TerminalInv, NEW t \in Tab, _reconnect_active(t) PROVE TerminalInv'
<1>0. TerminalTypeOK
  BY DEF TerminalInv
<1>1. CASE Connecting(t) /\ UNCHANGED <<conn, mend, overlap, quiet>>
  <2>1. OpenersMove /\ opener' \in [Client -> Openers]
    BY <1>0, <1>1, ConnectingMoves
  <2>2. UNCHANGED <<panel, sweep>>
    BY DEF _reconnect_active
  <2>3. /\ mounted' \in BOOLEAN /\ next_id' \in 0 .. MaxTabs /\ terminals' \subseteq 1 .. next_id'
        /\ sweep' \in Sweeps /\ client' = client
    BY <1>0, <2>2 DEF TerminalTypeOK, Sweeps, panel
  <2>4. QED BY <1>1, <2>1, <2>3, OpeningKeeps
<1>2. CASE /\ Stops({t}) # {}
           /\ Reattach({client[t]}, mend)
           /\ _running' = [_running EXCEPT ![client[t]] = FALSE]
           /\ UNCHANGED <<opener, ws, _read_task, sock>>
  <2>1. client[t] \in Client /\ Dropped(client[t])
    BY <1>2, StopsAreDropped
  <2>2. PICK cs \in SUBSET Client, m \in [Client -> Mends] : cs = {client[t]} /\ m = mend
    BY <1>0, <2>1 DEF TerminalTypeOK, Mends
  <2>3. Reattach(cs, m) /\ \A c \in cs : Dropped(c)
    BY <1>2, <2>1, <2>2
  <2>4. /\ _running' \in [Client -> BOOLEAN]
        /\ \A c \in Client : _running'[c] <=> _running[c] /\ c \notin cs
    BY <1>0, <1>2, <2>2 DEF TerminalTypeOK
  <2>5. /\ UNCHANGED <<panel, opener, ws, _read_task, sock>> /\ sweep' \in Sweeps
    BY <1>0, <1>2 DEF _reconnect_active, TerminalTypeOK, Sweeps
  <2>6. QED BY <2>2, <2>3, <2>4, <2>5, ReattachKeeps
<1>3. QED BY <1>1, <1>2 DEF _reconnect_active

LEMMA ResumeStep ==
  ASSUME TerminalInv, _reconnect_dead PROVE TerminalInv'
<1>0. TerminalTypeOK
  BY DEF TerminalInv
<1>1. PICK ts \in SUBSET Tab, m \in [Client -> Mends] : ts = terminals /\ m = mend
  BY <1>0, TerminalAssumption DEF TerminalTypeOK, Mends, Tab
<1>2. SweepOn(ts, m) /\ Stops(ts) # {}
  BY <1>1 DEF _reconnect_dead
<1>3. PICK t \in Tab : t = Min(Stops(ts)) /\ client[t] \in Client
  BY <1>2, LeastTab, StopsAreDropped
<1>4. PICK cs \in SUBSET Client :
        /\ Reattach(cs, m) /\ \A c \in cs : Dropped(c)
        /\ sweep' \in Sweeps /\ \A c \in Client : c \in cs <=> c = sweep'.on
  BY <1>2, Sweeping
<1>5. sweep'.on = client[t]
  BY <1>2, <1>3 DEF SweepOn
<1>6. /\ _running' \in [Client -> BOOLEAN]
      /\ \A c \in Client : _running'[c] <=> _running[c] /\ c \notin cs
  <2>1. _running' = [_running EXCEPT ![client[t]] = FALSE]
    BY <1>1, <1>3 DEF _reconnect_dead
  <2>2. QED BY <1>0, <1>4, <1>5, <2>1 DEF TerminalTypeOK
<1>7. UNCHANGED <<panel, opener, ws, _read_task, sock>>
  BY DEF _reconnect_dead
<1>8. QED BY <1>1, <1>4, <1>6, <1>7, ReattachKeeps

LEMMA SessionEndedStep ==
  ASSUME TerminalInv, NEW c \in Client, SessionEnded(c) PROVE TerminalInv'
<1>0. TerminalTypeOK /\ SocketsAreOwned /\ OneSocketEach /\ Agrees(c)
  BY InvIsByClient
<1>1. UNCHANGED <<panel, opener, ws, _read_task, sock>>
  BY DEF SessionEnded
<1>2. CASE /\ mend[c].pc = "creds"
           /\ mend' = [mend EXCEPT ![c] = Idle]
           /\ _running' = [_running EXCEPT ![c] = FALSE]
           /\ UNCHANGED <<_abandoned, sweep, overlap, quiet>>
  <2>1. /\ mend' \in [Client -> Mends] /\ mend'[c] = Idle /\ \A d \in Client \ {c} : mend'[d] = mend[d]
    BY <1>0, <1>2, TerminalAssumption DEF TerminalTypeOK, Mends, Idle
  <2>2. /\ _running' \in [Client -> BOOLEAN] /\ ~_running'[c]
        /\ \A d \in Client \ {c} : _running'[d] <=> _running[d]
    BY <1>0, <1>2 DEF TerminalTypeOK
  <2>3. TerminalTypeOK'
    BY <1>0, <1>1, <1>2, <2>1, <2>2 DEF TerminalTypeOK, Mends, panel
  <2>4. SocketsAreOwned' /\ OneSocketEach'
    BY <1>0, <1>1, <1>2 DEF SocketsAreOwned, OneSocketEach
  <2>5. Agrees(c)'
    BY <1>0, <1>1, <1>2, <2>1, <2>2 DEF Agrees, panel, Idle
  <2>6. \A d \in Client \ {c} : Untouched(d)
    BY <1>1, <1>2, <2>1, <2>2 DEF Untouched, panel
  <2>7. Agreement'
    BY <2>4, <2>5, <2>6, OneClientMoves
  <2>8. QED BY <2>3, <2>7 DEF TerminalInv
<1>3. CASE /\ mend[c].pc = "now_creds"
           /\ Returns(c)
           /\ _running' = [x \in Client |-> _running[x] /\ (sweep' = sweep \/ x # sweep'.on)]
  <2>1. PICK cs \in SUBSET (Client \ {c}), m \in [Client -> Mends] :
          /\ m = [mend EXCEPT ![c] = Idle]
          /\ Reattach(cs, m) /\ \A d \in cs : Dropped(d)
          /\ sweep' \in Sweeps
          /\ \A d \in Client : d \in cs <=> ~(sweep' = sweep \/ d # sweep'.on)
    BY <1>3, Returning
  <2>2. \A d \in Client : m[d] = mend[d] \/ (mend[d].pc = "now_creds" /\ m[d] = Idle)
    BY <1>0, <1>3, <2>1 DEF TerminalTypeOK
  <2>3. /\ _running' \in [Client -> BOOLEAN]
        /\ \A d \in Client : _running'[d] <=> _running[d] /\ d \notin cs
    BY <1>3, <2>1
  <2>4. /\ cs \in SUBSET Client /\ \A d \in cs : Dropped(d)
        /\ Reattach(cs, m) /\ sweep' \in Sweeps
    BY <2>1
  <2>5. UNCHANGED <<panel, opener, ws, _read_task, sock>>
    BY <1>1
  <2>6. QED BY ONLY TerminalInv, <2>2, <2>3, <2>4, <2>5, ReattachKeeps
<1>4. QED BY <1>2, <1>3 DEF SessionEnded

----------------------------------------------------------------------------
(* _connect, connect() and the attempts *)

LEMMA OpenSteps ==
  ASSUME TerminalInv, NEW c \in Client, Opens(c) \/ OpenFails(c) PROVE TerminalInv'
<1>0. TerminalTypeOK /\ SocketsAreOwned /\ OneSocketEach /\ Agrees(c)
  BY InvIsByClient
<1>1. opener[c].pc \in Unborn /\ opener[c].tab \in Tab
  BY <1>0 DEF Opens, OpenFails, Unborn, TerminalTypeOK
<1>2. /\ UNCHANGED <<mounted, next_id, terminals, _abandoned, ws, _read_task, sock,
                     mend, sweep, overlap, quiet>>
  BY DEF Opens, Dials, OpenFails, panel, conn
<1>3. /\ opener' \in [Client -> Openers] /\ \A d \in Client \ {c} : opener'[d] = opener[d]
      /\ opener'[c].pc \in {"heal", "dial", "done"}
  <2>1. PICK p \in {"heal", "dial", "done"} : opener' = [opener EXCEPT ![c].pc = p]
    BY DEF Opens, Dials, OpenFails
  <2>2. opener \in [Client -> Openers] /\ [opener[c] EXCEPT !.pc = p] \in Openers
    BY <1>0 DEF TerminalTypeOK, Openers
  <2>3. opener' = [opener EXCEPT ![c] = [opener[c] EXCEPT !.pc = p]]
    BY <2>1
  <2>4. opener'[c].pc = p
    BY <2>2, <2>3 DEF Openers
  <2>5. QED BY <2>2, <2>3, <2>4
<1>4. /\ _running' \in [Client -> BOOLEAN]
      /\ \A d \in Client \ {c} : _running'[d] <=> _running[d]
      /\ client' \in [Tab -> Client \union {None}]
      /\ \A t \in Tab : client'[t] \in {client[t], c}
      /\ opener'[c].pc # "dial" => (_running'[c] <=> _running[c]) /\ client' = client
  <2>1. CASE Opens(c)
    <3>1. /\ client' = [client EXCEPT ![opener[c].tab] = c]
          /\ _running' = [_running EXCEPT ![c] = TRUE]
          /\ opener' = [opener EXCEPT ![c].pc = "dial"]
      BY <2>1 DEF Opens, Dials
    <3>2. opener'[c].pc = "dial"
      BY <1>0, <3>1 DEF TerminalTypeOK
    <3>3. /\ client' \in [Tab -> Client \union {None}]
          /\ \A t \in Tab : client'[t] \in {client[t], c}
      BY <1>0, <1>1, <3>1 DEF TerminalTypeOK
    <3>4. /\ _running' \in [Client -> BOOLEAN]
          /\ \A d \in Client \ {c} : _running'[d] <=> _running[d]
      BY <1>0, <3>1 DEF TerminalTypeOK
    <3>5. QED BY <3>2, <3>3, <3>4
  <2>2. CASE OpenFails(c)
    BY <1>0, <2>2 DEF OpenFails, TerminalTypeOK, panel, conn
  <2>3. QED BY <2>1, <2>2
<1>5. TerminalTypeOK'
  BY <1>0, <1>2, <1>3, <1>4 DEF TerminalTypeOK, Openers
<1>6. SocketsAreOwned' /\ OneSocketEach'
  BY <1>0, <1>2 DEF SocketsAreOwned, OneSocketEach
<1>7. Agrees(c)'
  BY <1>0, <1>1, <1>2, <1>3, <1>4 DEF Agrees, Unborn
<1>8. \A d \in Client \ {c} : Untouched(d)
  BY <1>2, <1>3, <1>4 DEF Untouched
<1>9. QED BY <1>5, <1>6, <1>7, <1>8, OneClientMoves DEF TerminalInv

LEMMA FirstDialStep ==
  ASSUME TerminalInv, NEW c \in Client, FirstDialEnds(c) PROVE TerminalInv'
<1>0. TerminalTypeOK /\ SocketsAreOwned /\ OneSocketEach /\ Agrees(c)
  BY InvIsByClient
<1>1. opener[c].pc = "dial" /\ UNCHANGED <<panel, _abandoned, mend, sweep, overlap, quiet>>
  BY DEF FirstDialEnds, Connected, ConnectRaises
<1>2. /\ opener' \in [Client -> Openers] /\ opener'[c].pc = "done"
      /\ \A d \in Client \ {c} : opener'[d] = opener[d]
  <2>1. opener' = [opener EXCEPT ![c] = [opener[c] EXCEPT !.pc = "done"]]
    BY DEF FirstDialEnds
  <2>2. opener \in [Client -> Openers] /\ [opener[c] EXCEPT !.pc = "done"] \in Openers
    BY <1>0 DEF TerminalTypeOK, Openers
  <2>3. QED BY <2>1, <2>2 DEF Openers
<1>3. c \notin overlap => ws[c] = None /\ mend[c] = Idle
  BY <1>0, <1>1 DEF Agrees
<1>4. CASE Connected(c)
  <2>1. /\ ws' \in [Client -> Sock \union {None}] /\ _read_task' \in [Client -> Sock \union {None}]
        /\ sock' \in [Sock -> [of : Client \union {None}, up : {"free", "open", "dead"},
                               read : BOOLEAN]]
        /\ SocketsAreOwned' /\ OneSocketEach'
        /\ ws'[c] # None /\ sock'[ws'[c]].read
        /\ \A d \in Client \ {c} : ws'[d] = ws[d] /\ (ws[d] # None => sock'[ws[d]] = sock[ws[d]])
    BY <1>1, <1>3, <1>4, SocketComesUp DEF Connected
  <2>2. _running' = _running
    BY <1>4 DEF Connected
  <2>3. TerminalTypeOK'
    BY <1>0, <1>1, <1>2, <2>1, <2>2 DEF TerminalTypeOK, Openers, panel
  <2>4. Agrees(c)'
    BY <1>0, <1>1, <1>2, <1>3, <2>1, <2>2 DEF Agrees, Unborn
  <2>5. \A d \in Client \ {c} : Untouched(d)
    BY <1>1, <1>2, <2>1, <2>2 DEF Untouched, panel
  <2>6. QED BY <2>1, <2>3, <2>4, <2>5, OneClientMoves DEF TerminalInv
<1>5. CASE ConnectRaises(c)
  <2>1. /\ ws' \in [Client -> Sock \union {None}] /\ _read_task' = _read_task /\ sock' = sock
        /\ SocketsAreOwned' /\ OneSocketEach'
        /\ ws'[c] = None /\ \A d \in Client \ {c} : ws'[d] = ws[d]
    BY <1>1, <1>3, <1>5, SocketGoesDown DEF ConnectRaises
  <2>2. /\ _running' \in [Client -> BOOLEAN] /\ ~_running'[c]
        /\ \A d \in Client \ {c} : _running'[d] <=> _running[d]
    BY <1>0, <1>5 DEF ConnectRaises, TerminalTypeOK
  <2>3. TerminalTypeOK'
    BY <1>0, <1>1, <1>2, <2>1, <2>2 DEF TerminalTypeOK, Openers, panel
  <2>4. Agrees(c)'
    BY <1>0, <1>1, <1>2, <1>3, <2>1, <2>2 DEF Agrees, Unborn
  <2>5. \A d \in Client \ {c} : Untouched(d)
    BY <1>1, <1>2, <2>1, <2>2 DEF Untouched, panel
  <2>6. QED BY <2>1, <2>3, <2>4, <2>5, OneClientMoves DEF TerminalInv
<1>6. QED BY <1>4, <1>5 DEF FirstDialEnds

LEMMA AttemptSteps ==
  ASSUME TerminalInv, NEW c \in Client, Wake(c) \/ Credentials(c) PROVE TerminalInv'
<1>0. TerminalTypeOK /\ SocketsAreOwned /\ OneSocketEach /\ Agrees(c)
  BY InvIsByClient
<1>1. UNCHANGED <<panel, opener, _abandoned, ws, _read_task, sock, sweep, overlap, quiet>>
  BY DEF Wake, Credentials, conn
<1>2. mend[c] # Idle /\ mend[c].pc \notin {"dial", "now_dial"}
  BY DEF Wake, Credentials, Idle
<1>3. /\ mend' \in [Client -> Mends] /\ \A d \in Client \ {c} : mend'[d] = mend[d]
      /\ _running' \in [Client -> BOOLEAN] /\ \A d \in Client \ {c} : _running'[d] <=> _running[d]
  <2>1. Idle \in Mends
    BY TerminalAssumption DEF Idle, Mends
  <2>2. CASE Wake(c)
    BY <1>0, <2>1, <2>2 DEF Wake, TerminalTypeOK, Mends, conn
  <2>3. CASE Credentials(c)
    BY <1>0, <2>3 DEF Credentials, TerminalTypeOK, Mends
  <2>4. QED BY <2>2, <2>3
<1>4. (_running'[c] <=> _running[c]) \/ mend'[c].pc \in {"dial", "now_dial"}
  BY <1>0 DEF Wake, Credentials, TerminalTypeOK, conn
<1>5. TerminalTypeOK'
  BY <1>0, <1>1, <1>3 DEF TerminalTypeOK, Mends, panel
<1>6. SocketsAreOwned' /\ OneSocketEach'
  BY <1>0, <1>1 DEF SocketsAreOwned, OneSocketEach
<1>7. Agrees(c)'
  BY <1>0, <1>1, <1>2, <1>4 DEF Agrees, panel
<1>8. \A d \in Client \ {c} : Untouched(d)
  BY <1>1, <1>3 DEF Untouched, panel
<1>9. QED BY <1>5, <1>6, <1>7, <1>8, OneClientMoves DEF TerminalInv

LEMMA MendSteps ==
  ASSUME TerminalInv, NEW c \in Client, MendUp(c) \/ MendFails(c) PROVE TerminalInv'
<1>0. TerminalTypeOK /\ SocketsAreOwned /\ OneSocketEach /\ Agrees(c)
  BY InvIsByClient
<1>1. /\ mend[c].pc = "dial" /\ mend[c] # Idle
      /\ UNCHANGED <<panel, opener, _abandoned, sweep, overlap, quiet>>
  BY DEF MendUp, MendFails, Connected, ConnectRaises, Idle
<1>2. /\ c \notin overlap => ws[c] = None /\ opener[c].pc = "done"
      /\ opener[c].pc \notin Unborn /\ ~quiet[c]
  BY <1>0, <1>1 DEF Agrees
<1>3. CASE MendUp(c)
  <2>1. /\ ws' \in [Client -> Sock \union {None}] /\ _read_task' \in [Client -> Sock \union {None}]
        /\ sock' \in [Sock -> [of : Client \union {None}, up : {"free", "open", "dead"},
                               read : BOOLEAN]]
        /\ SocketsAreOwned' /\ OneSocketEach'
        /\ ws'[c] # None /\ sock'[ws'[c]].read
        /\ \A d \in Client \ {c} : ws'[d] = ws[d] /\ (ws[d] # None => sock'[ws[d]] = sock[ws[d]])
    BY <1>1, <1>2, <1>3, SocketComesUp DEF MendUp, Connected
  <2>2. /\ _running' = _running /\ mend' \in [Client -> Mends] /\ mend'[c] = Idle
        /\ \A d \in Client \ {c} : mend'[d] = mend[d]
    <3>1. Idle \in Mends
      BY TerminalAssumption DEF Idle, Mends
    <3>2. QED BY <1>0, <1>3, <3>1 DEF MendUp, Connected, TerminalTypeOK, Mends
  <2>3. TerminalTypeOK'
    BY <1>0, <1>1, <2>1, <2>2 DEF TerminalTypeOK, Mends, panel
  <2>4. Agrees(c)'
    BY <1>1, <1>2, <2>1, <2>2 DEF Agrees
  <2>5. \A d \in Client \ {c} : Untouched(d)
    BY <1>1, <2>1, <2>2 DEF Untouched, panel
  <2>6. QED BY <2>1, <2>3, <2>4, <2>5, OneClientMoves DEF TerminalInv
<1>4. CASE MendFails(c)
  <2>1. /\ ws' \in [Client -> Sock \union {None}] /\ _read_task' = _read_task /\ sock' = sock
        /\ SocketsAreOwned' /\ OneSocketEach'
        /\ ws'[c] = None /\ \A d \in Client \ {c} : ws'[d] = ws[d]
    BY <1>1, <1>2, <1>4, SocketGoesDown DEF MendFails, ConnectRaises
  <2>2. /\ _running' \in [Client -> BOOLEAN] /\ ~_running'[c]
        /\ \A d \in Client \ {c} : _running'[d] <=> _running[d]
    BY <1>0, <1>4 DEF MendFails, ConnectRaises, TerminalTypeOK
  <2>3. mend' \in [Client -> Mends] /\ \A d \in Client \ {c} : mend'[d] = mend[d]
    <3>1. PICK m \in Mends : mend' = [mend EXCEPT ![c] = m]
      <4>1. CASE /\ mend[c].n < MaxAttempts
                 /\ mend' = [mend EXCEPT ![c] = [pc |-> "sleep", n |-> @.n + 1]]
        <5>1. mend[c].n \in 0 .. MaxAttempts
          BY <1>0 DEF TerminalTypeOK
        <5>2. [pc |-> "sleep", n |-> mend[c].n + 1] \in Mends
          BY <4>1, <5>1, TerminalAssumption DEF Mends
        <5>3. QED BY <4>1, <5>2
      <4>2. CASE mend' = [mend EXCEPT ![c] = Idle]
        <5>1. Idle \in Mends
          BY TerminalAssumption DEF Idle, Mends
        <5>2. QED BY <4>2, <5>1
      <4>3. QED BY <1>4, <4>1, <4>2 DEF MendFails
    <3>2. QED BY <1>0, <3>1 DEF TerminalTypeOK, Mends
  <2>4. TerminalTypeOK'
    BY <1>0, <1>1, <2>1, <2>2, <2>3 DEF TerminalTypeOK, Mends, panel
  <2>5. Agrees(c)'
    BY <1>1, <1>2, <2>1, <2>2 DEF Agrees
  <2>6. \A d \in Client \ {c} : Untouched(d)
    BY <1>1, <2>1, <2>2, <2>3 DEF Untouched, panel
  <2>7. QED BY <2>1, <2>4, <2>5, <2>6, OneClientMoves DEF TerminalInv
<1>5. QED BY <1>3, <1>4

LEMMA NowStep ==
  ASSUME TerminalInv, NEW c \in Client, NowEnds(c) PROVE TerminalInv'
<1>0. TerminalTypeOK /\ SocketsAreOwned /\ OneSocketEach /\ Agrees(c)
  BY InvIsByClient
<1>1. mend[c].pc = "now_dial" /\ mend[c] # Idle /\ Returns(c) /\ UNCHANGED <<panel, opener>>
  BY DEF NowEnds, Idle
<1>2. /\ c \notin overlap => ws[c] = None /\ opener[c].pc = "done"
      /\ opener[c].pc \notin Unborn /\ ~quiet[c]
  BY <1>0, <1>1 DEF Agrees
<1>3. PICK cs \in SUBSET (Client \ {c}), m \in [Client -> Mends] :
        /\ m = [mend EXCEPT ![c] = Idle]
        /\ Reattach(cs, m) /\ \A d \in cs : Dropped(d)
        /\ sweep' \in Sweeps
        /\ \A d \in Client : d \in cs <=> ~(sweep' = sweep \/ d # sweep'.on)
  BY <1>1, Returning
<1>4. PICK up \in BOOLEAN :
        /\ _running' = [x \in Client |->
             CASE x = c -> _running[c] /\ up
               [] OTHER -> _running[x] /\ (sweep' = sweep \/ x # sweep'.on)]
        /\ IF up THEN Up(c) ELSE Down(c)
  BY DEF NowEnds
<1>5. /\ _running' \in [Client -> BOOLEAN]
      /\ _running'[c] => up
      /\ \A d \in Client \ {c} : _running'[d] <=> _running[d] /\ d \notin cs
  <2>1. /\ \A d \in Client \ {c} : _running'[d] = (_running[d] /\ (sweep' = sweep \/ d # sweep'.on))
        /\ _running'[c] = (_running[c] /\ up) /\ DOMAIN _running' = Client
        /\ _running' = [d \in Client |-> _running'[d]]
    BY <1>4
  <2>2. \A d \in Client \ {c} : _running'[d] \in BOOLEAN /\ (_running'[d] <=> _running[d] /\ d \notin cs)
    BY <1>3, <2>1
  <2>3. _running'[c] \in BOOLEAN /\ (_running'[c] => up)
    BY <2>1
  <2>4. \A d \in Client : _running'[d] \in BOOLEAN
    BY <2>2, <2>3
  <2>5. _running' \in [Client -> BOOLEAN]
    BY <2>1, <2>4
  <2>6. QED BY <2>2, <2>3, <2>5
<1>6. /\ mend' \in [Client -> Mends] /\ _abandoned' \in [Client -> BOOLEAN]
      /\ quiet' \in [Client -> BOOLEAN] /\ overlap' \subseteq Client
      /\ \A d \in Client \ cs : /\ mend'[d] = m[d]
                                /\ quiet'[d] <=> quiet[d]
                                /\ d \in overlap' <=> d \in overlap
      /\ overlap \subseteq overlap'
  <2>1. cs \in SUBSET Client /\ Reattach(cs, m) /\ TerminalTypeOK
    BY <1>0, <1>3
  <2>2. QED BY <2>1, Reattaching
<1>7. /\ mend'[c] = Idle /\ ~quiet'[c]
      /\ c \in overlap' <=> c \in overlap
      /\ \A d \in Client \ (cs \union {c}) : mend'[d] = mend[d]
  BY <1>0, <1>2, <1>3, <1>6 DEF TerminalTypeOK
<1>8. /\ ws' \in [Client -> Sock \union {None}]
      /\ _read_task' \in [Client -> Sock \union {None}]
      /\ sock' \in [Sock -> [of : Client \union {None}, up : {"free", "open", "dead"},
                             read : BOOLEAN]]
      /\ SocketsAreOwned' /\ OneSocketEach'
      /\ up => ws'[c] # None /\ sock'[ws'[c]].read
      /\ \A d \in Client \ {c} : ws'[d] = ws[d] /\ (ws[d] # None => sock'[ws[d]] = sock[ws[d]])
  <2>1. c \in overlap' <=> c \in overlap
    BY <1>7
  <2>2. CASE up
    BY <1>2, <1>4, <1>6, <2>1, <2>2, SocketComesUp
  <2>3. CASE ~up
    <3>1. Down(c)
      BY <1>4, <2>3
    <3>2. /\ ws' \in [Client -> Sock \union {None}] /\ _read_task' = _read_task /\ sock' = sock
          /\ SocketsAreOwned' /\ OneSocketEach' /\ \A d \in Client \ {c} : ws'[d] = ws[d]
      BY <1>2, <1>6, <2>1, <3>1, SocketGoesDown
    <3>3. QED BY <1>0, <2>3, <3>2 DEF TerminalTypeOK
  <2>4. QED BY <2>2, <2>3
<1>9. TerminalTypeOK'
  <2>1. sweep' \in Sweeps /\ _running' \in [Client -> BOOLEAN] /\ UNCHANGED <<panel, opener>>
    BY <1>1, <1>3, <1>5
  <2>2. /\ ws' \in [Client -> Sock \union {None}]
        /\ _read_task' \in [Client -> Sock \union {None}]
        /\ sock' \in [Sock -> [of : Client \union {None}, up : {"free", "open", "dead"},
                               read : BOOLEAN]]
    BY <1>8
  <2>3. QED BY <1>0, <1>6, <2>1, <2>2 DEF TerminalTypeOK, Mends, Sweeps, panel
<1>10. Agrees(c)'
  <2>1. opener'[c] = opener[c]
    BY <1>1
  <2>2. c \notin overlap' => opener'[c].pc = "done"
    BY <1>2, <1>7, <2>1
  <2>3. _running'[c] => ws'[c] # None /\ sock'[ws'[c]].read
    BY <1>5, <1>8
  <2>4. QED BY <1>2, <1>7, <2>1, <2>2, <2>3 DEF Agrees
<1>11. ASSUME NEW d \in cs PROVE Agrees(d)'
  <2>1. d \in Client \ {c} /\ ~_running'[d] /\ ws'[d] = ws[d]
    BY <1>5, <1>8
  <2>2. opener'[d] = opener[d] /\ client' = client
    BY <1>1 DEF panel
  <2>3. QED BY <1>3, <2>1, <2>2, ReattachedAgrees
<1>12. ASSUME NEW d \in Client \ (cs \union {c}) PROVE Untouched(d)
  BY <1>1, <1>5, <1>6, <1>7, <1>8 DEF Untouched, panel
<1>13. PICK both \in SUBSET Client : both = cs \union {c}
  OBVIOUS
<1>14. /\ \A d \in both : Agrees(d)'
       /\ \A d \in Client \ both : Untouched(d)
  BY <1>10, <1>11, <1>12, <1>13
<1>15. QED BY <1>8, <1>9, <1>14, OneClientAtATime DEF TerminalInv

----------------------------------------------------------------------------
(* The reader *)

LEMMA CutStep ==
  ASSUME TerminalInv, NEW s \in Sock, Cut(s) PROVE TerminalInv'
<1>0. TerminalTypeOK /\ SocketsAreOwned /\ OneSocketEach
  BY InvIsByClient
<1>1. /\ UNCHANGED <<panel, opener, _running, _abandoned, ws, _read_task, mend,
                     sweep, overlap, quiet>>
      /\ sock' \in [Sock -> [of : Client \union {None}, up : {"free", "open", "dead"},
                             read : BOOLEAN]]
      /\ \A x \in Sock : /\ sock'[x].of = sock[x].of /\ sock'[x].read = sock[x].read
                         /\ x # s => sock'[x] = sock[x]
      /\ sock[s].read /\ sock'[s].up = "dead"
  BY <1>0 DEF Cut, TerminalTypeOK
<1>2. TerminalTypeOK'
  BY <1>0, <1>1 DEF TerminalTypeOK, panel
<1>3. SocketsAreOwned'
  <2>1. sock[s].of # None
    BY <1>0, <1>1 DEF SocketsAreOwned, Free
  <2>2. QED BY <1>0, <1>1, <2>1 DEF SocketsAreOwned
<1>4. OneSocketEach'
  BY <1>0, <1>1 DEF OneSocketEach
<1>5. ASSUME NEW c \in Client PROVE Agrees(c)'
  <2>1. ws[c] # None => ws[c] \in Sock
    BY <1>0 DEF TerminalTypeOK
  <2>2. Untouched(c)
    BY <1>1, <2>1 DEF Untouched, panel
  <2>3. QED BY <2>2, InvIsByClient, UntouchedAgrees
<1>6. QED BY <1>2, <1>3, <1>4, <1>5, OneClientAtATime DEF TerminalInv

\* What the end of a reader leaves of each socket.
LEMMA ReaderEnds ==
  ASSUME TerminalInv, NEW s \in Sock, NEW c \in Client, sock[s].of = c, _read_loop(s)
  PROVE  /\ sock' \in [Sock -> [of : Client \union {None}, up : {"free", "open", "dead"},
                                read : BOOLEAN]]
         /\ \A x \in Sock : sock[x].of # c =>
              sock'[x] = sock[x] \/ (sock[x].up = "free" /\ ~sock[x].read)
         /\ \A x \in Sock : /\ sock'[x].of \in {sock[x].of, None}
                            /\ sock'[x].of = None => sock'[x] = Free
         /\ c \notin overlap => \A x \in Sock : sock[x].of = c => sock'[x] = Free
<1> USE TerminalAssumption
<1>0. TerminalTypeOK /\ SocketsAreOwned /\ OneSocketEach
  BY InvIsByClient
<1>1. PICK w \in Sock \union {None}, r \in Sock \union {None} : w = ws[c] /\ r = _read_task[c]
  BY <1>0 DEF TerminalTypeOK
<1>2. PICK left : left = Unread(Unread(Shut(sock, w), r), s)
  OBVIOUS
<1>3. PICK k : k = [left EXCEPT ![s].up = IF @ = "dead" THEN "free" ELSE @]
  OBVIOUS
<1>4. sock' = Recycle(k)
  BY <1>1, <1>2, <1>3 DEF _read_loop
<1> DEFINE Record == [of : Client \union {None}, up : {"free", "open", "dead"}, read : BOOLEAN]
<1>5. PICK k1 : k1 = Shut(sock, w)
  OBVIOUS
<1>6. PICK k2 : k2 = Unread(k1, r)
  OBVIOUS
<1>7. /\ k1 \in [Sock -> Record]
      /\ \A x \in Sock : /\ k1[x].of = sock[x].of /\ k1[x].read = sock[x].read
                         /\ k1[x].up = IF x = w THEN "free" ELSE sock[x].up
  <2>1. CASE w = None
    BY <1>0, <1>5, <2>1 DEF Shut, TerminalTypeOK
  <2>2. CASE w \in Sock
    <3>1. Shut(sock, w) = [sock EXCEPT ![w].up = "free"]
      BY <2>2 DEF Shut
    <3>2. sock[w] \in Record
      BY <1>0, <2>2 DEF TerminalTypeOK
    <3>3. [sock[w] EXCEPT !.up = "free"] \in Record
      BY <3>2
    <3>4. PICK rec \in Record : rec = [sock[w] EXCEPT !.up = "free"]
      BY <3>3
    <3>5. k1 = [sock EXCEPT ![w] = rec]
      BY <1>5, <3>1, <3>4
    <3>6. \A x \in Sock : k1[x] = IF x = w THEN rec ELSE sock[x]
      BY <1>0, <2>2, <3>5 DEF TerminalTypeOK
    <3>7. k1 \in [Sock -> Record]
      BY <1>0, <3>4, <3>5 DEF TerminalTypeOK
    <3>8. rec.of = sock[w].of /\ rec.read = sock[w].read /\ rec.up = "free"
      BY <1>0, <2>2, <3>4 DEF TerminalTypeOK
    <3>9. QED BY <3>6, <3>7, <3>8
  <2>3. QED BY <2>1, <2>2
<1>8. /\ k2 \in [Sock -> Record]
      /\ \A x \in Sock : /\ k2[x].of = k1[x].of /\ k2[x].up = k1[x].up
                         /\ k2[x].read <=> k1[x].read /\ x # r
  <2>1. CASE r = None
    BY <1>7, <1>6, <2>1 DEF Unread
  <2>2. CASE r \in Sock
    <3>1. Unread(k1, r) = [k1 EXCEPT ![r].read = FALSE]
      BY <2>2 DEF Unread
    <3>2. k1[r] \in Record
      BY <1>7, <2>2
    <3>3. [k1[r] EXCEPT !.read = FALSE] \in Record
      BY <3>2
    <3>4. PICK rec \in Record : rec = [k1[r] EXCEPT !.read = FALSE]
      BY <3>3
    <3>5. k2 = [k1 EXCEPT ![r] = rec]
      BY <1>6, <3>1, <3>4
    <3>6. \A x \in Sock : k2[x] = IF x = r THEN rec ELSE k1[x]
      BY <1>7, <3>5
    <3>7. k2 \in [Sock -> Record]
      BY <1>7, <3>4, <3>5
    <3>8. rec.of = k1[r].of /\ ~rec.read /\ rec.up = k1[r].up
      BY <1>7, <2>2, <3>4
    <3>9. QED BY <3>6, <3>7, <3>8
  <2>3. QED BY <2>1, <2>2
<1>9. /\ left \in [Sock -> Record]
      /\ \A x \in Sock : /\ left[x].of = k2[x].of /\ left[x].up = k2[x].up
                         /\ left[x].read <=> k2[x].read /\ x # s
  <2>1. left = [k2 EXCEPT ![s].read = FALSE]
    BY <1>2, <1>5, <1>6, TerminalAssumption DEF Unread
  <2>2. k2[s] \in Record
    BY <1>8
  <2>3. [k2[s] EXCEPT !.read = FALSE] \in Record
    BY <2>2
  <2>4. PICK rec \in Record : rec = [k2[s] EXCEPT !.read = FALSE]
    BY <2>3
  <2>5. left = [k2 EXCEPT ![s] = rec]
    BY <2>1, <2>4
  <2>6. \A x \in Sock : left[x] = IF x = s THEN rec ELSE k2[x]
    BY <1>8, <2>5
  <2>7. left \in [Sock -> Record]
    BY <1>8, <2>4, <2>5
  <2>8. rec.of = k2[s].of /\ ~rec.read /\ rec.up = k2[s].up
    BY <2>2, <2>4
  <2>9. QED BY <2>6, <2>7, <2>8
<1>10. /\ k \in [Sock -> Record]
      /\ \A x \in Sock : /\ k[x].of = left[x].of /\ k[x].read = left[x].read
                         /\ k[x].up = IF x = s /\ left[s].up = "dead" THEN "free" ELSE left[x].up
  BY <1>3, <1>9
<1>11. \A x \in Sock :
        /\ k[x].of = sock[x].of
        /\ k[x].read <=> sock[x].read /\ x # r /\ x # s
        /\ k[x].up = IF x = w \/ (x = s /\ sock[s].up = "dead") THEN "free" ELSE sock[x].up
  BY <1>7, <1>8, <1>9, <1>10
<1>12. Free \in Record
  BY DEF Free
<1>13. /\ sock' \in [Sock -> Record]
       /\ \A x \in Sock : sock'[x] = IF k[x].up = "free" /\ ~k[x].read THEN Free ELSE k[x]
  BY <1>4, <1>10, <1>12 DEF Recycle
<1>14. w # None => sock[w].of = c
  BY <1>0, <1>1 DEF SocketsAreOwned
<1>15. r # None => sock[r].of = c
  BY <1>0, <1>1 DEF SocketsAreOwned
<1>16. ASSUME NEW x \in Sock, sock[x].of # c, sock[x].up # "free" \/ sock[x].read
       PROVE  sock'[x] = sock[x]
  <2>1. x # w /\ x # r /\ x # s
    BY <1>14, <1>15, <1>16
  <2>2. k[x].of = sock[x].of /\ (k[x].read <=> sock[x].read) /\ k[x].up = sock[x].up
    BY <1>11, <2>1
  <2>3. k[x] \in Record /\ sock[x] \in Record
    BY <1>0, <1>10 DEF TerminalTypeOK
  <2>4. k[x] = sock[x]
    BY <2>2, <2>3
  <2>5. QED BY <1>13, <1>16, <2>2, <2>4
<1>17. ASSUME NEW x \in Sock
       PROVE  /\ sock'[x].of \in {sock[x].of, None}
              /\ sock'[x].of = None => sock'[x] = Free
  <2>1. CASE sock[x].of = None
    <3>1. sock[x].up = "free" /\ ~sock[x].read
      BY <1>0, <2>1 DEF SocketsAreOwned, Free
    <3>2. k[x].up = "free" /\ ~k[x].read
      BY <1>11, <3>1
    <3>3. QED BY <1>13, <3>2 DEF Free
  <2>2. CASE sock[x].of # None
    BY <1>11, <1>13, <2>2 DEF Free
  <2>3. QED BY <2>1, <2>2
<1>18. ASSUME c \notin overlap, NEW x \in Sock, sock[x].of = c PROVE sock'[x] = Free
  <2>1. x = w /\ x = r
    BY <1>0, <1>1, <1>18 DEF OneSocketEach
  <2>2. k[x].up = "free" /\ ~k[x].read
    BY <1>11, <2>1
  <2>3. QED BY <1>13, <2>2
<1>19. QED BY <1>13, <1>16, <1>17, <1>18

LEMMA ReaderStep ==
  ASSUME TerminalInv, NEW s \in Sock, _read_loop(s) PROVE TerminalInv'
<1> USE TerminalAssumption
<1>0. TerminalTypeOK /\ SocketsAreOwned /\ OneSocketEach
  BY InvIsByClient
<1>1. PICK c \in Client : sock[s].of = c
  <2>1. sock[s].read
    BY DEF _read_loop
  <2>2. sock[s].of # None
    BY <1>0, <2>1 DEF SocketsAreOwned, Free
  <2>3. QED BY <1>0, <2>2 DEF TerminalTypeOK
<1>2. /\ sock' \in [Sock -> [of : Client \union {None}, up : {"free", "open", "dead"},
                             read : BOOLEAN]]
      /\ \A x \in Sock : sock[x].of # c =>
           sock'[x] = sock[x] \/ (sock[x].up = "free" /\ ~sock[x].read)
      /\ \A x \in Sock : /\ sock'[x].of \in {sock[x].of, None}
                         /\ sock'[x].of = None => sock'[x] = Free
      /\ c \notin overlap => \A x \in Sock : sock[x].of = c => sock'[x] = Free
  BY <1>1, ReaderEnds
<1>3. UNCHANGED <<panel, opener, _abandoned, sweep, overlap, quiet>>
  BY DEF _read_loop
<1>4. /\ _running' \in [Client -> BOOLEAN] /\ ws' \in [Client -> Sock \union {None}]
      /\ _read_task' \in [Client -> Sock \union {None}]
      /\ \A d \in Client \ {c} : /\ _running'[d] <=> _running[d]
                                 /\ ws'[d] = ws[d] /\ _read_task'[d] = _read_task[d]
      /\ ~_running'[c] /\ ws'[c] = None /\ _read_task'[c] = None
  <2>1. /\ _running' = [_running EXCEPT ![c] = FALSE]
        /\ ws' = [ws EXCEPT ![c] = None]
        /\ _read_task' = [_read_task EXCEPT ![c] = None]
    BY <1>1 DEF _read_loop
  <2>2. QED BY <1>0, <2>1 DEF TerminalTypeOK
<1>5. /\ mend' \in [Client -> Mends] /\ \A d \in Client \ {c} : mend'[d] = mend[d]
      /\ mend'[c] = mend[c] \/ (_running[c] /\ mend[c] = Idle)
  <2>1. mend' = IF (_running[c] /\ ~_abandoned[c]) /\ mend[c] = Idle
                THEN [mend EXCEPT ![c] = [pc |-> "sleep", n |-> 1]] ELSE mend
    BY <1>1 DEF _read_loop
  <2>2. [pc |-> "sleep", n |-> 1] \in Mends
    BY DEF Mends
  <2>3. QED BY <1>0, <2>1, <2>2 DEF TerminalTypeOK, Mends
<1>6. TerminalTypeOK'
  BY <1>0, <1>2, <1>3, <1>4, <1>5 DEF TerminalTypeOK, Mends, panel
<1>7. ASSUME NEW d \in Client \ {c}, NEW x \in Sock, ws[d] = x \/ _read_task[d] = x
      PROVE  sock'[x] = sock[x]
  BY <1>0, <1>2, <1>7 DEF SocketsAreOwned
<1>8. SocketsAreOwned'
  <2>1. ASSUME NEW d \in Client, NEW x \in Sock, ws'[d] = x \/ _read_task'[d] = x
        PROVE  /\ ws'[d] = x => sock'[x].of = d /\ sock'[x].up # "free"
               /\ _read_task'[d] = x => sock'[x].of = d /\ sock'[x].read
    <3>1. d # c /\ ws'[d] = ws[d] /\ _read_task'[d] = _read_task[d]
      BY <1>4, <2>1
    <3>2. sock'[x] = sock[x]
      BY <1>7, <2>1, <3>1
    <3>3. QED BY <1>0, <3>1, <3>2 DEF SocketsAreOwned
  <2>2. QED BY <1>2, <2>1 DEF SocketsAreOwned
<1>9. OneSocketEach'
  <2>1. ASSUME NEW d \in Client \ overlap, NEW x \in Sock, sock'[x].of = d
        PROVE  ws'[d] = x /\ _read_task'[d] = x
    <3>1. sock[x].of = d
      BY <1>2, <2>1
    <3>2. d # c
      BY <1>2, <2>1, <3>1 DEF Free
    <3>3. QED BY <1>0, <1>4, <3>1, <3>2 DEF OneSocketEach
  <2>2. QED BY <1>3, <2>1 DEF OneSocketEach
<1>10. Agrees(c)'
  <2>1. Agrees(c)
    BY InvIsByClient
  <2>2. c \notin overlap => ws[c] = s
    BY <1>0, <1>1 DEF OneSocketEach
  <2>3. c \notin overlap => opener[c].pc = "done"
    BY <2>1, <2>2 DEF Agrees
  <2>4. QED BY <1>3, <1>4, <1>5, <2>1, <2>3 DEF Agrees, panel
<1>11. ASSUME NEW d \in Client \ {c} PROVE Untouched(d)
  <2>1. ws[d] # None => ws[d] \in Sock
    BY <1>0 DEF TerminalTypeOK
  <2>2. ws[d] # None => sock'[ws[d]] = sock[ws[d]]
    BY <1>7, <2>1
  <2>3. QED BY <1>3, <1>4, <1>5, <2>2 DEF Untouched, panel
<1>12. QED BY <1>6, <1>8, <1>9, <1>10, <1>11, OneClientMoves DEF TerminalInv

----------------------------------------------------------------------------
(* The specification *)

LEMMA TerminalInitially == Init => TerminalInv
<1> SUFFICES ASSUME Init PROVE TerminalInv
  OBVIOUS
<1> USE TerminalAssumption
<1>1. TerminalTypeOK
  <2>1. /\ mounted \in BOOLEAN /\ next_id \in 0 .. MaxTabs /\ terminals \subseteq 1 .. next_id
        /\ 1 \in Tab
    <3>1. 0 \in 0 .. MaxTabs /\ 1 \in 1 .. MaxTabs
      OBVIOUS
    <3>2. QED BY <3>1 DEF Init, Tab
  <2>2. /\ client \in [Tab -> Client \union {None}]
        /\ opener \in [Client -> [pc : {"unborn", "session", "heal", "dial", "done"}, tab : Tab]]
        /\ _running \in [Client -> BOOLEAN] /\ _abandoned \in [Client -> BOOLEAN]
        /\ ws \in [Client -> Sock \union {None}] /\ _read_task \in [Client -> Sock \union {None}]
    BY <2>1 DEF Init
  <2>3. /\ sock \in [Sock -> [of : Client \union {None}, up : {"free", "open", "dead"},
                              read : BOOLEAN]]
        /\ mend \in [Client -> Mends] /\ sweep \in Sweeps
        /\ overlap \subseteq Client /\ quiet \in [Client -> BOOLEAN]
    BY DEF Init, Free, Idle, NoSweep, Mends, Sweeps
  <2>4. QED BY <2>1, <2>2, <2>3 DEF TerminalTypeOK, Mends, Sweeps
<1>2. SocketsAreOwned /\ OneSocketEach
  BY DEF Init, SocketsAreOwned, OneSocketEach, Free
<1>3. \A c \in Client : Agrees(c)
  BY DEF Init, Agrees
<1>4. QED BY <1>1, <1>2, <1>3, AgreementIsByClient DEF TerminalInv

LEMMA TerminalSteps == TerminalInv /\ [Next]_vars => TerminalInv'
<1> SUFFICES ASSUME TerminalInv, [Next]_vars PROVE TerminalInv'
  OBVIOUS
<1>1. ASSUME NEW c \in Client, ClientStep(c) PROVE TerminalInv'
  BY <1>1, OpenSteps, FirstDialStep, AttemptSteps, SessionEndedStep, MendSteps, NowStep
  DEF ClientStep
<1>2. CASE UNCHANGED vars
  <2>1. TerminalTypeOK' /\ SocketsAreOwned' /\ OneSocketEach'
    <3>1. TerminalTypeOK /\ SocketsAreOwned /\ OneSocketEach
      BY InvIsByClient
    <3>2. TerminalTypeOK'
      BY <1>2, <3>1 DEF TerminalTypeOK, vars, panel, conn
    <3>3. SocketsAreOwned' /\ OneSocketEach'
      BY <1>2, <3>1 DEF SocketsAreOwned, OneSocketEach, vars, panel, conn
    <3>4. QED BY <3>2, <3>3
  <2>2. \A c \in Client : Untouched(c)
    BY <1>2 DEF Untouched, vars, panel, conn
  <2>3. PICK cs \in SUBSET Client : cs = {}
    OBVIOUS
  <2>4. /\ \A c \in Client \ cs : Untouched(c)
        /\ \A c \in cs : Agrees(c)'
    BY <2>2, <2>3
  <2>5. QED BY <2>1, <2>4, OneClientAtATime DEF TerminalInv
<1>3. QED BY <1>1, <1>2, PanelSteps, CloseTabStep, ButtonStep, ResumeStep, CutStep, ReaderStep
       DEF Next

LEMMA SocketsOfTheAgreement == TerminalInv => SocketsAreTended
<1> SUFFICES ASSUME TerminalInv PROVE SocketsAreTended
  OBVIOUS
<1>1. TerminalTypeOK /\ SocketsAreOwned /\ OneSocketEach
  BY InvIsByClient
<1>2. ASSUME NEW s \in Sock, sock[s].up # "free", sock[s].of \notin overlap
      PROVE  ws[sock[s].of] = s /\ sock[s].read
  <2>1. sock[s].of \in Client
    BY <1>1, <1>2 DEF TerminalTypeOK, SocketsAreOwned, Free
  <2>2. PICK c \in Client : c = sock[s].of
    BY <2>1
  <2>3. ws[c] = s /\ _read_task[c] = s
    BY <1>1, <1>2, <2>2 DEF OneSocketEach
  <2>4. QED BY <1>1, <2>2, <2>3 DEF SocketsAreOwned
<1>3. QED BY <1>2 DEF TerminalInv, Agreement, SocketsAreTended, OnlyOverlapLeaks

\* The types of the panel's and the clients' variables.
THEOREM TerminalTypesHold == Spec => []TerminalTypeOK
<1>1. TerminalInv => TerminalTypeOK
  BY DEF TerminalInv
<1>2. QED BY <1>1, TerminalInitially, TerminalSteps, PTL DEF Spec

\* Whatever the order of first dials, drops, back-off attempts, resume sweeps,
\* closes and tabs (terminal_client.py, terminal_panel.py): a socket is orphaned
\* only where a reconnect overlapped another dial, a client meant to run has a
\* served socket or somebody who dials, and a client closed quietly stays down.
THEOREM ShellsStayTended == Spec => []SocketsAreTended
<1>1. TerminalInv => SocketsAreTended
  BY SocketsOfTheAgreement
<1>2. QED BY <1>1, TerminalInitially, TerminalSteps, PTL DEF Spec
=============================================================================
