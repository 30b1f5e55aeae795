------------------------------- MODULE HttpServer -------------------------------
(***************************************************************************)
(* The socket HTTP server of the standard library                          *)
(* (runtime/native/vm_low_level_http_server.cpp): one accept thread for    *)
(* each open server and the one thread of the virtual machine, which runs  *)
(* the program's calls open, next, send and close to the end one after     *)
(* another.  They share                                                    *)
(*   - gLowHttpServers and gLowHttpRequests, under gLowHttpMu;             *)
(*   - each server's queue, under its mtx, with its condition variable cv; *)
(*   - each server's atomic running flag;                                  *)
(*   - the process's file descriptors, numbers that are used again.        *)
(* A region under a lock is one step; between two regions the other        *)
(* threads run.  A file descriptor is closed by its number, whatever it    *)
(* stands for by then.  Calls that return an error without changing        *)
(* anything (an unknown server or request, a bind that fails) are          *)
(* stuttering steps and do not appear.                                     *)
(***************************************************************************)
EXTENDS Naturals, Sequences, FiniteSets, Functions

CONSTANTS
  Servers,   \* server ids, in the order gLowHttpNextServerId gives them
  Clients,   \* connections; each sends at most one request ("Connection: close")
  Fds        \* bound: the file descriptors the process may have open

ASSUME ServersAssumption == Servers \subseteq Nat
ASSUME FdsAssumption == Fds \subseteq Nat /\ IsFiniteSet(Fds)

VARIABLES
  running,    \* LowLevelHttpServer::running
  queue,      \* LowLevelHttpServer::queue, request ids
  listenFd,   \* LowLevelHttpServer::listenFd
  servers,    \* the keys of gLowHttpServers
  table,      \* gLowHttpRequests: request id -> [server, fd]
  seed,       \* gLowHttpNextReqSeed; the id of a request is its seed
  opened,     \* gLowHttpNextServerId: the servers that have had an id
  apc,        \* per server: where its accept thread is
  hand,       \* per server: clientFd and reqId of its accept thread
  vm,         \* the VM thread: [at |-> what it is doing, on |-> server, fd |-> socket]
  fds,        \* what each file descriptor stands for
  to,         \* per client: the server it connects to
  conn,       \* per client: "idle", "backlog", "accepted" or "closed"
  sent,       \* per client: how much of a request it has written
  hung,       \* per client: it has hung up
  got,        \* per client: the clients whose requests it was sent the answers of
  origin,     \* history: request id -> the client it was read from
  handed      \* history: the request ids the program has been given

sockets == <<fds, conn>>
clients == <<to, sent, hung>>
flags == <<running, listenFd, servers, opened>>
vars == <<running, queue, listenFd, servers, table, seed, opened, apc, hand, vm, fds,
          to, conn, sent, hung, got, origin, handed>>

Free == <<"free", 0>>
Conn(c) == <<"conn", c>>
Listening(s) == <<"listen", s>>
Down(s) == <<"down", s>>          \* after shutdown()

\* the descriptor a new socket gets: the lowest that is free
FreeFds == {n \in Fds : fds[n] = Free}
IsNext(n) == n \in FreeFds /\ \A m \in FreeFds : n <= m

ConnOf(n) == {c \in Clients : n \in Fds /\ fds[n] = Conn(c)}
\* closing a set of descriptors, and what that does to connections
Closing(ns) ==
  /\ fds' = [n \in Fds |-> IF n \in ns THEN Free ELSE fds[n]]
  /\ conn' = [c \in Clients |-> IF \E n \in ns \cap Fds : fds[n] = Conn(c) THEN "closed" ELSE conn[c]]

Idle == [at |-> "idle", on |-> 0, fd |-> 0]
NoHand == [fd |-> 0, id |-> 0]

Init ==
  /\ running = [s \in Servers |-> FALSE]
  /\ queue = [s \in Servers |-> <<>>]
  /\ listenFd = [s \in Servers |-> 0]
  /\ servers = {}
  /\ table = [id \in {} |-> 0]
  /\ seed = 1
  /\ opened = {}
  /\ apc = [s \in Servers |-> "none"]
  /\ hand = [s \in Servers |-> NoHand]
  /\ vm = Idle
  /\ fds = [n \in Fds |-> Free]
  /\ to \in [Clients -> Servers]
  /\ conn = [c \in Clients |-> "idle"]
  /\ sent = [c \in Clients |-> "nothing"]
  /\ hung = [c \in Clients |-> FALSE]
  /\ got = [c \in Clients |-> <<>>]
  /\ origin = [id \in {} |-> 0]
  /\ handed = {}
-----------------------------------------------------------------------------
(* Clients: connect while the server listens, write a head that announces  *)
(* a body, a whole request, or something that is no request, and hang up.  *)

Connect(c) ==
  /\ conn[c] = "idle"
  /\ \E n \in Fds : fds[n] = Listening(to[c])
  /\ conn' = [conn EXCEPT ![c] = "backlog"]
  /\ UNCHANGED <<flags, queue, table, seed, apc, hand, vm, fds, clients, got, origin, handed>>

Write(c, what) ==
  /\ conn[c] \in {"backlog", "accepted"}
  /\ ~hung[c]
  /\ <<sent[c], what>> \in {<<"nothing", "head">>, <<"nothing", "all">>, <<"nothing", "junk">>,
                            <<"head", "all">>}
  /\ sent' = [sent EXCEPT ![c] = what]
  /\ UNCHANGED <<flags, queue, table, seed, apc, hand, vm, sockets, to, hung, got, origin, handed>>

HangUp(c) ==
  /\ conn[c] \in {"backlog", "accepted"}
  /\ ~hung[c]
  /\ hung' = [hung EXCEPT ![c] = TRUE]
  /\ UNCHANGED <<flags, queue, table, seed, apc, hand, vm, sockets, to, sent, got, origin, handed>>
-----------------------------------------------------------------------------
(* The accept thread of server s                                           *)

\* where the thread goes, when it changes nothing else
Turn(s, from, next) ==
  /\ apc[s] = from
  /\ apc' = [apc EXCEPT ![s] = next]
  /\ UNCHANGED <<flags, queue, table, seed, hand, vm, sockets, clients, got, origin, handed>>

CheckRunning(s) == Turn(s, "check", IF running[s] THEN "accept" ELSE "ended")

Accept(s) ==
  /\ apc[s] = "accept"
  /\ fds[listenFd[s]] = Listening(s)
  /\ \E c \in Clients, n \in Fds :
       /\ conn[c] = "backlog" /\ to[c] = s
       /\ IsNext(n)
       /\ fds' = [fds EXCEPT ![n] = Conn(c)]
       /\ conn' = [conn EXCEPT ![c] = "accepted"]
       /\ hand' = [hand EXCEPT ![s] = [fd |-> n, id |-> 0]]
  /\ apc' = [apc EXCEPT ![s] = "recv"]
  /\ UNCHANGED <<flags, queue, table, seed, vm, clients, got, origin, handed>>

\* accept fails: the socket was shut down (which also wakes a thread blocked
\* in accept) or closed, or its number is another one's by now; there is no
\* descriptor left; the client has given up
AcceptFails(s) ==
  /\ Turn(s, "accept", "failed")
  /\ \/ fds[listenFd[s]] # Listening(s)
     \/ FreeFds = {}
     \/ \E c \in Clients : conn[c] = "backlog" /\ to[c] = s /\ hung[c]

AfterFailure(s) == Turn(s, "failed", IF running[s] THEN "check" ELSE "ended")

\* recvHttpRequest: a body that is cut short is still a request
Receive(s) ==
  /\ Turn(s, "recv", "name")
  /\ \E c \in ConnOf(hand[s].fd) : sent[c] = "all" \/ (sent[c] = "head" /\ hung[c])

\* slip: the socket of a client that sent no request stays open
ReceiveFailsLeaking(s) ==
  /\ apc[s] = "recv"
  /\ \E c \in ConnOf(hand[s].fd) : sent[c] = "junk" \/ (sent[c] = "nothing" /\ hung[c])
  /\ hand' = [hand EXCEPT ![s] = NoHand]
  /\ apc' = [apc EXCEPT ![s] = "check"]
  /\ UNCHANGED <<flags, queue, table, seed, vm, sockets, clients, got, origin, handed>>

ReceiveFails(s) ==
  /\ apc[s] = "recv"
  /\ \E c \in ConnOf(hand[s].fd) : sent[c] = "junk" \/ (sent[c] = "nothing" /\ hung[c])
  /\ Closing({hand[s].fd})
  /\ hand' = [hand EXCEPT ![s] = NoHand]
  /\ apc' = [apc EXCEPT ![s] = "check"]
  /\ UNCHANGED <<flags, queue, table, seed, vm, clients, got, origin, handed>>

\* makeLowHttpReqId
Name(s) ==
  /\ apc[s] = "name"
  /\ hand' = [hand EXCEPT ![s].id = seed]
  /\ \E c \in ConnOf(hand[s].fd) :
       origin' = [id \in DOMAIN origin \cup {seed} |-> IF id = seed THEN c ELSE origin[id]]
  /\ seed' = seed + 1
  /\ apc' = [apc EXCEPT ![s] = "register"]
  /\ UNCHANGED <<flags, queue, table, vm, sockets, clients, got, handed>>

Entry(s) == [server |-> s, fd |-> hand[s].fd]
Registered(id, entry) == [i \in DOMAIN table \cup {id} |-> IF i = id THEN entry ELSE table[i]]

Register(s) ==
  /\ apc[s] = "register"
  /\ table' = Registered(hand[s].id, Entry(s))
  /\ apc' = [apc EXCEPT ![s] = "queue"]
  /\ UNCHANGED <<flags, queue, seed, hand, vm, sockets, clients, got, origin, handed>>

\* slip: the newest request is served first
EnqueueFirst(s) ==
  /\ apc[s] = "queue"
  /\ queue' = [queue EXCEPT ![s] = <<hand[s].id>> \o @]
  /\ apc' = [apc EXCEPT ![s] = "notify"]
  /\ UNCHANGED <<flags, table, seed, hand, vm, sockets, clients, got, origin, handed>>

Enqueue(s) ==
  /\ apc[s] = "queue"
  /\ queue' = [queue EXCEPT ![s] = Append(@, hand[s].id)]
  /\ apc' = [apc EXCEPT ![s] = "notify"]
  /\ UNCHANGED <<flags, table, seed, hand, vm, sockets, clients, got, origin, handed>>

Woken(s) == IF vm.at = "asleep" /\ vm.on = s THEN [vm EXCEPT !.at = "next"] ELSE vm

\* slip: nobody is notified
NotifyNobody(s) ==
  /\ apc[s] = "notify"
  /\ hand' = [hand EXCEPT ![s] = NoHand]
  /\ apc' = [apc EXCEPT ![s] = "check"]
  /\ UNCHANGED <<flags, queue, table, seed, vm, sockets, clients, got, origin, handed>>

Notify(s) ==
  /\ apc[s] = "notify"
  /\ vm' = Woken(s)
  /\ hand' = [hand EXCEPT ![s] = NoHand]
  /\ apc' = [apc EXCEPT ![s] = "check"]
  /\ UNCHANGED <<flags, queue, table, seed, sockets, clients, got, origin, handed>>
-----------------------------------------------------------------------------
(* The VM thread: the program's calls, one at a time                       *)

Calling(at, on, fd) == [at |-> at, on |-> on, fd |-> fd]

\* runLowLevelHttpServerOpen: the thread starts before the table has the server
Open(s) ==
  /\ vm.at = "idle"
  /\ s \in Servers \ opened /\ \A r \in Servers \ opened : s <= r
  /\ \E n \in Fds :
       /\ IsNext(n)
       /\ fds' = [fds EXCEPT ![n] = Listening(s)]
       /\ listenFd' = [listenFd EXCEPT ![s] = n]
  /\ opened' = opened \cup {s}
  /\ running' = [running EXCEPT ![s] = TRUE]
  /\ apc' = [apc EXCEPT ![s] = "check"]
  /\ vm' = Calling("open", s, 0)
  /\ UNCHANGED <<servers, queue, table, seed, hand, conn, clients, got, origin, handed>>

OpenRegisters ==
  /\ vm.at = "open"
  /\ servers' = servers \cup {vm.on}
  /\ vm' = Idle
  /\ UNCHANGED <<running, listenFd, opened, queue, table, seed, apc, hand, sockets, clients,
                 got, origin, handed>>

\* runLowLevelHttpServerNext: cv.wait with its predicate, under mtx
NextCalled(s) ==
  /\ vm.at = "idle" /\ s \in servers
  /\ vm' = Calling("next", s, 0)
  /\ UNCHANGED <<flags, queue, table, seed, apc, hand, sockets, clients, got, origin, handed>>

NextSleeps ==
  /\ vm.at = "next"
  /\ running[vm.on] /\ queue[vm.on] = <<>>
  /\ vm' = [vm EXCEPT !.at = "asleep"]
  /\ UNCHANGED <<flags, queue, table, seed, apc, hand, sockets, clients, got, origin, handed>>

SpuriousWakeup ==
  /\ vm.at = "asleep"
  /\ vm' = [vm EXCEPT !.at = "next"]
  /\ UNCHANGED <<flags, queue, table, seed, apc, hand, sockets, clients, got, origin, handed>>

NextReturns ==
  /\ vm.at = "next"
  /\ ~running[vm.on] \/ queue[vm.on] # <<>>
  /\ IF queue[vm.on] = <<>> THEN UNCHANGED <<queue, handed>>
     ELSE /\ queue' = [queue EXCEPT ![vm.on] = Tail(@)]
          /\ handed' = handed \cup {Head(queue[vm.on])}
  /\ vm' = Idle
  /\ UNCHANGED <<flags, table, seed, apc, hand, sockets, clients, got, origin>>

\* runLowLevelHttpServerSend, for a request the program was given: out of the
\* table first, then the response, then the socket
\* (slip: it stays in the table)
SendKeeping(id) ==
  /\ vm.at = "idle" /\ id \in handed \cap DOMAIN table
  /\ vm' = Calling("send", id, table[id].fd)
  /\ UNCHANGED <<flags, queue, table, seed, apc, hand, sockets, clients, got, origin, handed>>

Send(id) ==
  /\ vm.at = "idle" /\ id \in handed \cap DOMAIN table
  /\ vm' = Calling("send", id, table[id].fd)
  /\ table' = Restrict(table, DOMAIN table \ {id})
  /\ UNCHANGED <<flags, queue, seed, apc, hand, sockets, clients, got, origin, handed>>

\* the response goes to whatever the descriptor stands for; to a client that
\* has hung up it is sent in vain or fails
SendResponds ==
  /\ vm.at = "send"
  /\ got' = [c \in Clients |-> IF c \in ConnOf(vm.fd) /\ ~hung[c]
                                 THEN Append(got[c], origin[vm.on]) ELSE got[c]]
  /\ vm' = [vm EXCEPT !.at = "sent"]
  /\ UNCHANGED <<flags, queue, table, seed, apc, hand, sockets, clients, origin, handed>>

SendCloses ==
  /\ vm.at = "sent"
  /\ Closing({vm.fd})
  /\ vm' = Idle
  /\ UNCHANGED <<flags, queue, table, seed, apc, hand, clients, got, origin, handed>>

\* slip: the server is not told to stop
CloseStopsNot(s) ==
  /\ vm.at = "idle" /\ s \in servers
  /\ vm' = Calling("stop", s, 0)
  /\ UNCHANGED <<flags, queue, table, seed, apc, hand, sockets, clients, got, origin, handed>>

\* runLowLevelHttpServerClose
CloseStops(s) ==
  /\ vm.at = "idle" /\ s \in servers
  /\ running' = [running EXCEPT ![s] = FALSE]
  /\ vm' = Calling("stop", s, 0)
  /\ UNCHANGED <<listenFd, servers, opened, queue, table, seed, apc, hand, sockets, clients,
                 got, origin, handed>>

CloseShutsDown ==
  /\ vm.at = "stop"
  /\ fds' = [fds EXCEPT ![listenFd[vm.on]] = Down(vm.on)]
  /\ vm' = [vm EXCEPT !.at = "shut"]
  /\ UNCHANGED <<flags, queue, table, seed, apc, hand, conn, clients, got, origin, handed>>

\* clients that were never accepted are reset with the listening socket
CloseListener ==
  /\ vm.at = "shut"
  /\ fds' = [fds EXCEPT ![listenFd[vm.on]] = Free]
  /\ conn' = [c \in Clients |-> IF conn[c] = "backlog" /\ to[c] = vm.on THEN "closed" ELSE conn[c]]
  /\ vm' = [vm EXCEPT !.at = "join"]
  /\ UNCHANGED <<flags, queue, table, seed, apc, hand, clients, got, origin, handed>>

\* slip: the thread is not waited for
CloseWithoutJoining ==
  /\ vm.at = "join"
  /\ vm' = [vm EXCEPT !.at = "sweep"]
  /\ UNCHANGED <<flags, queue, table, seed, apc, hand, sockets, clients, got, origin, handed>>

CloseJoins ==
  /\ vm.at = "join"
  /\ apc[vm.on] = "ended"
  /\ vm' = [vm EXCEPT !.at = "sweep"]
  /\ UNCHANGED <<flags, queue, table, seed, apc, hand, sockets, clients, got, origin, handed>>

RequestsOf(s) == {id \in DOMAIN table : table[id].server = s}

\* slip: the requests of every server are swept away
CloseSweepsAll ==
  /\ vm.at = "sweep"
  /\ servers' = servers \ {vm.on}
  /\ queue' = [queue EXCEPT ![vm.on] = <<>>]
  /\ table' = [id \in {} |-> 0]
  /\ Closing({table[id].fd : id \in DOMAIN table})
  /\ vm' = Idle
  /\ UNCHANGED <<running, listenFd, opened, seed, apc, hand, clients, got, origin, handed>>

\* the server goes, its queue with it, and so do the requests it left
CloseSweeps ==
  /\ vm.at = "sweep"
  /\ servers' = servers \ {vm.on}
  /\ queue' = [queue EXCEPT ![vm.on] = <<>>]
  /\ table' = Restrict(table, DOMAIN table \ RequestsOf(vm.on))
  /\ Closing({table[id].fd : id \in RequestsOf(vm.on)})
  /\ vm' = Idle
  /\ UNCHANGED <<running, listenFd, opened, seed, apc, hand, clients, got, origin, handed>>
-----------------------------------------------------------------------------
AcceptThread(s) ==
  \/ CheckRunning(s) \/ Accept(s) \/ AcceptFails(s) \/ AfterFailure(s)
  \/ Receive(s) \/ ReceiveFails(s) \/ Name(s) \/ Register(s) \/ Enqueue(s) \/ Notify(s)

\* a call that has begun goes on
VmThread ==
  \/ OpenRegisters \/ NextSleeps \/ NextReturns \/ SendResponds \/ SendCloses
  \/ CloseShutsDown \/ CloseListener \/ CloseJoins \/ CloseSweeps

Call ==
  \/ \E s \in Servers : Open(s) \/ NextCalled(s) \/ CloseStops(s)
  \/ \E id \in handed : Send(id)

Client(c) == Connect(c) \/ HangUp(c) \/ \E what \in {"head", "all", "junk"} : Write(c, what)

Next ==
  \/ \E s \in Servers : AcceptThread(s)
  \/ VmThread \/ Call \/ SpuriousWakeup
  \/ \E c \in Clients : Client(c)

Spec == Init /\ [][Next]_vars

\* The threads run: each goes on when it can.  A client that has connected
\* finishes its request or hangs up; nothing in the code makes it.
ThreadsRun == WF_vars(VmThread) /\ \A s \in Servers : WF_vars(AcceptThread(s))
ClientsFinish == \A c \in Clients : WF_vars(Write(c, "all") \/ HangUp(c))
FairSpec == Spec /\ ThreadsRun /\ ClientsFinish
-----------------------------------------------------------------------------
\* Who is to close a descriptor: the accept thread that reads from it, the
\* table entry it is kept in, or the send that answers on it.
HoldingThreads(n) == {s \in Servers : hand[s].fd = n /\ apc[s] \in {"recv", "name", "register"}}
HoldingEntries(n) == {id \in DOMAIN table : table[id].fd = n}
HoldingSends(n) == IF vm.at \in {"send", "sent"} /\ vm.fd = n THEN {n} ELSE {}
Holders(n) == Cardinality(HoldingThreads(n)) + Cardinality(HoldingEntries(n))
              + Cardinality(HoldingSends(n))

\* Every connection the process has open is held by exactly one of them, and
\* nothing else is held: no socket is leaked or closed twice, although its
\* number may be another connection's by then.
OneHolder == \A n \in Fds : Holders(n) = IF ConnOf(n) = {} THEN 0 ELSE 1

\* What a queue holds can be answered: the table has each of its requests, as
\* one of this server, on a socket that is still that of the client it was
\* read from.
Answerable ==
  \A s \in Servers : \A i \in DOMAIN queue[s] :
    /\ queue[s][i] \in RequestsOf(s)
    /\ fds[table[queue[s][i]].fd] = Conn(origin[queue[s][i]])

\* A client is sent at most one response, the one to its own request.
OwnResponse == \A c \in Clients : got[c] \in {<<>>, <<c>>}

\* Once close has returned, nothing of the server is left: no request, no
\* descriptor, no client that waits for it.
ClosedClean ==
  \A s \in opened \ servers : vm # Calling("open", s, 0) =>
    /\ apc[s] = "ended" /\ RequestsOf(s) = {}
    /\ \A n \in Fds : fds[n] \notin {Listening(s), Down(s)}
    /\ \A c \in Clients : to[c] = s => conn[c] \notin {"backlog", "accepted"}

\* A call of next that waits while a request is queued comes back with it.
NextComesBack ==
  \A s \in Servers :
    (vm.at \in {"next", "asleep"} /\ vm.on = s /\ queue[s] # <<>>) ~> (vm.at = "idle")

\* If clients finish what they send or hang up, close comes back.
CloseComesBack == (vm.at = "stop") ~> (vm.at = "idle")

\* The promise RequestFlow states is kept.
ClientsOf(ids) == [i \in DOMAIN ids |-> origin[ids[i]]]
Named(c) == \E id \in DOMAIN origin : origin[id] = c
Given(c) == \E id \in handed : origin[id] = c
StageOf(c) ==
  CASE got[c] # <<>>                                  -> "answered"
    [] got[c] = <<>> /\ Named(c) /\ conn[c] = "closed" -> "dropped"
    [] got[c] = <<>> /\ conn[c] # "closed" /\ Given(c) -> "handed"
    [] got[c] = <<>> /\ conn[c] # "closed" /\ ~Given(c)
       /\ \E i \in DOMAIN queue[to[c]] : origin[queue[to[c]][i]] = c -> "waiting"
    [] OTHER                                          -> "new"

Flow == INSTANCE RequestFlow WITH
          open <- servers \cup (IF vm.at = "open" THEN {vm.on} ELSE {}),
          line <- [s \in Servers |-> ClientsOf(queue[s])],
          stage <- [c \in Clients |-> StageOf(c)],
          at <- to
ImplementsFlow == Flow!Spec
==============================================================================
