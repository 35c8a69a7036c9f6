------------------------------ MODULE Terminal ------------------------------
(***************************************************************************)
(* The terminal panel (screens/session/terminal_panel.py) and its clients  *)
(* (services/colab/terminal_client.py).  A client stands for the shell     *)
(* (PTY) it was created with: connect() gives it a WebSocket, a reader     *)
(* serves that socket, and a dropped socket is replaced by a back-off loop *)
(* or by the sweep that runs when the app resumes.                         *)
(***************************************************************************)
EXTENDS Integers, FiniteSets, FiniteSetsExt

CONSTANTS
  Client,       \* runs of _connect; each creates at most one client
  Sock,         \* sockets, reused when closed and unread
  None,
  MaxTabs,      \* bound: tabs ever created
  MaxAttempts   \* max_attempts of _reconnect_with_backoff

ASSUME TerminalAssumption ==
  /\ MaxTabs \in Nat \ {0}
  /\ MaxAttempts \in Nat \ {0}
  /\ None \notin Client \union Sock

Tab == 1 .. MaxTabs

VARIABLES
  mounted,    \* the panel is on screen and registered its resume hook
  next_id,    \* tabs created so far
  terminals,  \* ps.terminals: the tabs shown
  client,     \* entry.client of each tab
  opener,     \* each run of _connect: where it waits and its tab
  _running,
  _abandoned,
  ws,         \* the socket a client holds
  _read_task, \* the socket of the reader a client remembers
  sock,       \* each socket: its client, its state, whether a reader serves it
  mend,       \* _reconnecting, and where the attempt waits
  sweep,      \* _reconnect_dead: the client it waits for and the tabs to come
  overlap,    \* history: clients told to reconnect with a socket held or on its way
  quiet       \* history: clients closed while no reconnect was under way

panel == <<mounted, next_id, terminals, client>>
conn == <<_running, _abandoned, ws, _read_task, sock>>
vars == <<panel, opener, conn, mend, sweep, overlap, quiet>>

Idle == [pc |-> "none", n |-> 0]
Free == [of |-> None, up |-> "free", read |-> FALSE]
NoSweep == [on |-> None, left |-> {}]

alive(c) == _running[c] /\ ws[c] # None

----------------------------------------------------------------------------
(* Pieces the handlers share *)

\* A run of _connect for tab t.  Runs have no identity of their own.
Connecting(t) ==
  LET c == CHOOSE c \in Client : opener[c].pc = "unborn" IN
  /\ \E x \in Client : opener[x].pc = "unborn"
  /\ opener' = [opener EXCEPT ![c] = [pc |-> "session", tab |-> t]]

\* _create_terminal: a tab, and a run of _connect for it.
NewTab ==
  /\ next_id < MaxTabs
  /\ next_id' = next_id + 1
  /\ Connecting(next_id + 1)

\* A reader stops; a socket is closed; what is closed and unread is free again.
Unread(k, s) == IF s = None THEN k ELSE [k EXCEPT ![s].read = FALSE]
Shut(k, s) == IF s = None THEN k ELSE [k EXCEPT ![s].up = "free"]
Recycle(k) == [s \in Sock |-> IF k[s].up = "free" /\ ~k[s].read THEN Free ELSE k[s]]

\* Mutant of _teardown_socket: the socket is dropped without being closed.
TeardownKeepsSocket(cs) ==
  /\ _running' = [c \in Client |-> _running[c] /\ c \notin cs]
  /\ ws' = [c \in Client |-> IF c \in cs THEN None ELSE ws[c]]
  /\ _read_task' = [c \in Client |-> IF c \in cs THEN None ELSE _read_task[c]]
  /\ sock' = [s \in Sock |-> [sock[s] EXCEPT !.read = @ /\ \A c \in cs : _read_task[c] # s]]

\* Mutant of _teardown_socket: the client is not stopped.
TeardownKeepsRunning(cs) ==
  /\ ws' = [c \in Client |-> IF c \in cs THEN None ELSE ws[c]]
  /\ _read_task' = [c \in Client |-> IF c \in cs THEN None ELSE _read_task[c]]
  /\ sock' = Recycle([s \in Sock |->
               [of |-> sock[s].of,
                up |-> IF \E c \in cs : ws[c] = s THEN "free" ELSE sock[s].up,
                read |-> sock[s].read /\ \A c \in cs : _read_task[c] # s]])
  /\ UNCHANGED _running

\* What _teardown_socket leaves: the reader the client remembers is cancelled
\* (it never reaches its own teardown) and the socket it holds is closed.
_teardown_socket(cs) ==
  /\ _running' = [c \in Client |-> _running[c] /\ c \notin cs]
  /\ ws' = [c \in Client |-> IF c \in cs THEN None ELSE ws[c]]
  /\ _read_task' = [c \in Client |-> IF c \in cs THEN None ELSE _read_task[c]]
  /\ sock' = Recycle([s \in Sock |->
               [of |-> sock[s].of,
                up |-> IF \E c \in cs : ws[c] = s THEN "free" ELSE sock[s].up,
                read |-> sock[s].read /\ \A c \in cs : _read_task[c] # s]])

\* close() of several clients at once.
close(cs) ==
  /\ _abandoned' = [c \in Client |-> _abandoned[c] \/ c \in cs]
  /\ _teardown_socket(cs)
  /\ quiet' = [c \in Client |-> IF c \in cs THEN mend[c] = Idle ELSE quiet[c]]

Held == {client[t] : t \in terminals} \ {None}

\* The tab _reconnect_dead stops at next: its client is neither alive nor
\* being mended already.
Stops(ts) == {t \in ts : /\ client[t] # None
                         /\ ~alive(client[t])
                         /\ mend[client[t]] = Idle}

\* reconnect() up to its first await, for the clients of cs.
Reattach(cs, m) ==
  /\ mend' = [c \in Client |-> IF c \in cs THEN [pc |-> "now_creds", n |-> 0] ELSE m[c]]
  /\ _abandoned' = [c \in Client |-> _abandoned[c] /\ c \notin cs]
  /\ quiet' = [c \in Client |-> quiet[c] /\ c \notin cs]
  /\ overlap' = overlap \union {c \in cs : opener[c].pc = "dial" \/ ws[c] # None}

\* _reconnect_dead goes on with the tabs ts.
SweepOn(ts, m) ==
  LET s == Stops(ts) IN
  IF s = {} THEN sweep' = NoSweep /\ Reattach({}, m)
  ELSE LET t == Min(s) IN
       /\ sweep' = [on |-> client[t], left |-> {u \in ts : u > t}]
       /\ Reattach({client[t]}, m)

\* The reconnect of client c returns; a sweep that waited for it goes on.
Returns(c) ==
  IF sweep.on = c
  THEN SweepOn(sweep.left, [mend EXCEPT ![c] = Idle])
  ELSE Reattach({}, [mend EXCEPT ![c] = Idle]) /\ UNCHANGED sweep

----------------------------------------------------------------------------
(* The panel *)

_init_panel ==
  /\ ~mounted
  /\ mounted' = TRUE
  /\ NewTab
  /\ terminals' = {next_id + 1}
  /\ close(Held)
  /\ sweep' = [sweep EXCEPT !.left = {}]
  /\ UNCHANGED <<client, mend, overlap>>

_cleanup ==
  /\ mounted
  /\ mounted' = FALSE
  /\ close(Held)
  /\ UNCHANGED <<next_id, terminals, client, opener, mend, sweep, overlap>>

_create_terminal ==
  /\ mounted
  /\ NewTab
  /\ terminals' = terminals \union {next_id + 1}
  /\ sweep' = IF sweep.on = None THEN sweep
              ELSE [sweep EXCEPT !.left = @ \union {next_id + 1}]
  /\ UNCHANGED <<mounted, client, conn, mend, overlap, quiet>>

\* Closing the last tab opens a new one.  A sweep iterates over the list that
\* shrinks under it: closing a tab it has passed makes it skip the next.
_close_terminal(t) ==
  /\ mounted
  /\ t \in terminals
  /\ close({client[t]} \ {None})
  /\ IF terminals = {t}
     THEN NewTab /\ terminals' = {next_id + 1}
     ELSE terminals' = terminals \ {t} /\ UNCHANGED <<next_id, opener>>
  /\ LET rest == IF t \in sweep.left \/ sweep.left = {} THEN sweep.left \ {t}
                 ELSE sweep.left \ {Min(sweep.left)}
         new == IF terminals = {t} /\ sweep.on # None THEN {next_id + 1} ELSE {}
     IN sweep' = [sweep EXCEPT !.left = rest \union new]
  /\ UNCHANGED <<mounted, client, mend, overlap>>

\* The reconnect button of the tab shown.
_reconnect_active(t) ==
  /\ mounted
  /\ t \in terminals
  /\ \/ /\ client[t] = None
        /\ Connecting(t)
        /\ UNCHANGED <<conn, mend, overlap, quiet>>
     \/ /\ Stops({t}) # {}
        /\ Reattach({client[t]}, mend)
        /\ _running' = [_running EXCEPT ![client[t]] = FALSE]
        /\ UNCHANGED <<opener, ws, _read_task, sock>>
  /\ UNCHANGED <<panel, sweep>>

\* The app resumes.  A second resume during the sweep is left out.
_reconnect_dead ==
  /\ mounted
  /\ sweep = NoSweep
  /\ Stops(terminals) # {}
  /\ SweepOn(terminals, mend)
  /\ _running' = [_running EXCEPT ![client[Min(Stops(terminals))]] = FALSE]
  /\ UNCHANGED <<panel, opener, ws, _read_task, sock>>

----------------------------------------------------------------------------
(* _connect *)

\* _get_terminal_session returned; the client is built (its shell is created
\* by a blocking POST) and starts to dial in the same stretch.
Dials(c) ==
  /\ client' = [client EXCEPT ![opener[c].tab] = c]
  /\ _running' = [_running EXCEPT ![c] = TRUE]
  /\ opener' = [opener EXCEPT ![c].pc = "dial"]
  /\ UNCHANGED <<mounted, next_id, terminals, _abandoned, ws, _read_task, sock>>

Opens(c) ==
  /\ opener[c].pc \in {"session", "heal"}
  /\ Dials(c)
  /\ UNCHANGED <<mend, sweep, overlap, quiet>>

\* No such session, or no shell: an error.  After a first 404 the token is
\* fetched again and the session looked up once more ("heal").
OpenFails(c) ==
  /\ \/ /\ opener[c].pc \in {"session", "heal"}
        /\ opener' = [opener EXCEPT ![c].pc = "done"]
     \/ /\ opener[c].pc = "session"
        /\ opener' = [opener EXCEPT ![c].pc = "heal"]
  /\ UNCHANGED <<panel, conn, mend, sweep, overlap, quiet>>

----------------------------------------------------------------------------
(* connect(), from the point where websocket_connect returns or raises *)

\* Sockets have no identity of their own: any free one will do.
NewSock == CHOOSE s \in Sock : sock[s] = Free

Up(c) ==
  /\ \E s \in Sock : sock[s] = Free
  /\ ws' = [ws EXCEPT ![c] = NewSock]
  /\ _read_task' = [_read_task EXCEPT ![c] = NewSock]
  /\ sock' = [sock EXCEPT ![NewSock] = [of |-> c, up |-> "open", read |-> TRUE]]

Down(c) == ws' = [ws EXCEPT ![c] = None] /\ UNCHANGED <<_read_task, sock>>

\* Mutant of ConnectRaises: the client still counts as running.
RaisesRunning(c) == Down(c) /\ UNCHANGED <<_running, _abandoned>>

Connected(c) == Up(c) /\ UNCHANGED <<_running, _abandoned>>

ConnectRaises(c) ==
  /\ Down(c)
  /\ _running' = [_running EXCEPT ![c] = FALSE]
  /\ UNCHANGED _abandoned

FirstDialEnds(c) ==
  /\ opener[c].pc = "dial"
  /\ opener' = [opener EXCEPT ![c].pc = "done"]
  /\ Connected(c) \/ ConnectRaises(c)
  /\ UNCHANGED <<panel, mend, sweep, overlap, quiet>>

----------------------------------------------------------------------------
(* The reader *)

\* The network cuts a socket; the reader that waits on it is told, or finds out
\* by a ping.  Nobody notices the end of a socket without a reader.
Cut(s) ==
  /\ sock[s].up = "open" /\ sock[s].read
  /\ sock' = [sock EXCEPT ![s].up = "dead"]
  /\ UNCHANGED <<panel, opener, _running, _abandoned, ws, _read_task, mend,
                 sweep, overlap, quiet>>

\* The loop of _read_loop ends for the reader of s: its socket is gone, or
\* the client was stopped or holds another socket.  It tears down whatever
\* the client holds by now.
_read_loop(s) ==
  LET c == sock[s].of
      wanted == _running[c] /\ ~_abandoned[c]
      left == Unread(Unread(Shut(sock, ws[c]), _read_task[c]), s)
  IN /\ sock[s].read
     /\ \/ sock[s].up = "dead"
        \/ ~_running[c]
        \/ ws[c] # s
     /\ sock' = Recycle([left EXCEPT ![s].up = IF @ = "dead" THEN "free" ELSE @])
     /\ _running' = [_running EXCEPT ![c] = FALSE]
     /\ ws' = [ws EXCEPT ![c] = None]
     /\ _read_task' = [_read_task EXCEPT ![c] = None]
     /\ mend' = IF wanted /\ mend[c] = Idle
                THEN [mend EXCEPT ![c] = [pc |-> "sleep", n |-> 1]] ELSE mend
     /\ UNCHANGED <<panel, opener, _abandoned, sweep, overlap, quiet>>

----------------------------------------------------------------------------
(* _reconnect_attempts *)

\* The delay is over: an abandoned client is left alone.
Wake(c) ==
  /\ mend[c].pc = "sleep"
  /\ mend' = IF _abandoned[c] THEN [mend EXCEPT ![c] = Idle]
             ELSE [mend EXCEPT ![c].pc = "creds"]
  /\ UNCHANGED <<panel, opener, conn, sweep, overlap, quiet>>

\* The record was read again (or not: its token is kept), connect() begins.
\* Nothing looks at _abandoned any more.
Credentials(c) ==
  /\ mend[c].pc \in {"creds", "now_creds"}
  /\ mend' = [mend EXCEPT ![c].pc = IF @ = "creds" THEN "dial" ELSE "now_dial"]
  /\ _running' = [_running EXCEPT ![c] = TRUE]
  /\ UNCHANGED <<panel, opener, _abandoned, ws, _read_task, sock, sweep, overlap, quiet>>

\* SessionEndedError: the runtime is gone.
SessionEnded(c) ==
  /\ \/ /\ mend[c].pc = "creds"
        /\ mend' = [mend EXCEPT ![c] = Idle]
        /\ _running' = [_running EXCEPT ![c] = FALSE]
        /\ UNCHANGED <<_abandoned, sweep, overlap, quiet>>
     \/ /\ mend[c].pc = "now_creds"
        /\ Returns(c)
        /\ _running' = [x \in Client |-> _running[x] /\ (sweep' = sweep \/ x # sweep'.on)]
  /\ UNCHANGED <<panel, opener, ws, _read_task, sock>>

MendUp(c) ==
  /\ mend[c].pc = "dial"
  /\ mend' = [mend EXCEPT ![c] = Idle]
  /\ Connected(c)
  /\ UNCHANGED <<panel, opener, sweep, overlap, quiet>>

\* Mutant of MendFails: the attempts are not counted.
MendsForever(c) ==
  /\ mend[c].pc = "dial"
  /\ mend' = [mend EXCEPT ![c].pc = "sleep"]
  /\ ConnectRaises(c)
  /\ UNCHANGED <<panel, opener, sweep, overlap, quiet>>

\* The dial failed: the next attempt, or the end of them.
MendFails(c) ==
  /\ mend[c].pc = "dial"
  /\ \/ /\ mend[c].n < MaxAttempts
        /\ mend' = [mend EXCEPT ![c] = [pc |-> "sleep", n |-> @.n + 1]]
     \/ mend' = [mend EXCEPT ![c] = Idle]
  /\ ConnectRaises(c)
  /\ UNCHANGED <<panel, opener, sweep, overlap, quiet>>

\* reconnect() returns.  The sweep may go on to another client at once, whose
\* _running is reset.
NowEnds(c) ==
  /\ mend[c].pc = "now_dial"
  /\ Returns(c)
  /\ \E up \in BOOLEAN :
       /\ _running' = [x \in Client |->
            CASE x = c -> _running[c] /\ up
              [] OTHER -> _running[x] /\ (sweep' = sweep \/ x # sweep'.on)]
       /\ IF up THEN Up(c) ELSE Down(c)
  /\ UNCHANGED <<panel, opener>>

----------------------------------------------------------------------------
Init ==
  /\ mounted = FALSE /\ next_id = 0 /\ terminals = {}
  /\ client = [t \in Tab |-> None]
  /\ opener = [c \in Client |-> [pc |-> "unborn", tab |-> 1]]
  /\ _running = [c \in Client |-> FALSE]
  /\ _abandoned = [c \in Client |-> FALSE]
  /\ ws = [c \in Client |-> None]
  /\ _read_task = [c \in Client |-> None]
  /\ sock = [s \in Sock |-> Free]
  /\ mend = [c \in Client |-> Idle]
  /\ sweep = NoSweep
  /\ overlap = {}
  /\ quiet = [c \in Client |-> FALSE]

ClientStep(c) ==
  \/ Opens(c) \/ OpenFails(c) \/ FirstDialEnds(c)
  \/ Wake(c) \/ Credentials(c) \/ SessionEnded(c)
  \/ MendUp(c) \/ MendFails(c) \/ NowEnds(c)

Next ==
  \/ _init_panel \/ _create_terminal
  \/ \E c \in Client : ClientStep(c)
  \/ \E t \in Tab : _close_terminal(t) \/ _reconnect_active(t)
  \/ _cleanup \/ _reconnect_dead
  \/ \E s \in Sock : Cut(s) \/ _read_loop(s)

Spec == Init /\ [][Next]_vars

\* Every await of a client has a time limit and a reader wakes up at least
\* every ten seconds.  Nothing is asked of the user or of the network.
Fairness ==
  /\ \A c \in Client : WF_vars(ClientStep(c))
  /\ \A s \in Sock : WF_vars(_read_loop(s))

FairSpec == Spec /\ Fairness

----------------------------------------------------------------------------
(* Properties *)

\* Types.
TerminalTypeOK ==
  /\ mounted \in BOOLEAN /\ next_id \in 0 .. MaxTabs
  /\ terminals \subseteq 1 .. next_id
  /\ client \in [Tab -> Client \union {None}]
  /\ opener \in [Client -> [pc : {"unborn", "session", "heal", "dial", "done"},
                            tab : Tab]]
  /\ _running \in [Client -> BOOLEAN] /\ _abandoned \in [Client -> BOOLEAN]
  /\ ws \in [Client -> Sock \union {None}]
  /\ _read_task \in [Client -> Sock \union {None}]
  /\ sock \in [Sock -> [of : Client \union {None}, up : {"free", "open", "dead"},
                        read : BOOLEAN]]
  /\ mend \in [Client -> [pc : {"none", "sleep", "creds", "dial", "now_creds", "now_dial"},
                          n : 0 .. MaxAttempts]]
  /\ sweep \in [on : Client \union {None}, left : SUBSET Tab]
  /\ overlap \subseteq Client /\ quiet \in [Client -> BOOLEAN]

\* A socket that is open is held by the client it was opened for and served by
\* a reader, unless the client was told to reconnect during its first dial or
\* before its reader had noticed a close: the second dial then replaces a
\* socket that nobody closes.
OnlyOverlapLeaks ==
  \A s \in Sock : sock[s].up # "free" /\ sock[s].of \notin overlap
                  => ws[sock[s].of] = s /\ sock[s].read

\* A client that is meant to run has a served socket or somebody who dials:
\* no drop, failed dial or close leaves a shell that looks alive and is not.
RunningIsTended ==
  \A c \in Client \ overlap : _running[c] =>
    \/ ws[c] # None /\ sock[ws[c]].read
    \/ opener[c].pc = "dial"
    \/ mend[c].pc \in {"dial", "now_dial"}

\* A client closed while no reconnect is under way stays down and is never
\* mended, also when it was closed in the middle of its first dial.
QuietCloseIsFinal ==
  \A c \in Client : quiet[c] => ~_running[c] /\ mend[c] = Idle

\* Between its connects, drops and closes a client and its socket agree
\* (terminal_client.py): no orphaned socket, no dead shell that looks alive, no
\* mending of what was closed.
SocketsAreTended == OnlyOverlapLeaks /\ RunningIsTended /\ QuietCloseIsFinal

\* close(): "Permanently close the client: no reconnect attempts will follow."
\* An attempt that already read the credentials dials on and connects.
CloseIsFinal == \A c \in Client : _abandoned[c] => ~alive(c)

\* A drop is settled: the client has a working socket again, or it is down
\* and no attempt is under way.
Settled(c) ==
  \/ alive(c) /\ sock[ws[c]].up = "open"
  \/ ~_running[c] /\ mend[c] = Idle

DropsAreSettled ==
  \A c \in Client : (ws[c] # None /\ sock[ws[c]].up = "dead") ~> Settled(c)
=============================================================================
