---------------------------- MODULE HttpServerProofs ----------------------------
(***************************************************************************)
(* The safety of HttpServer for every set of servers and clients and every *)
(* finite set of file descriptors.                                         *)
(***************************************************************************)
EXTENDS HttpServer, FiniteSetTheorems, TLAPS

-----------------------------------------------------------------------------
(* The inductive invariant *)

Places == {"none", "check", "accept", "failed", "recv", "name", "register", "queue", "notify", "ended"}
InServer == {"open", "next", "asleep", "stop", "shut", "join", "sweep"}
InSend == {"send", "sent"}
Ids == 1..(seed - 1)

\* Each variable has its type.
Kinds ==
  /\ running \in [Servers -> BOOLEAN] /\ listenFd \in [Servers -> Nat]
  /\ servers \subseteq opened /\ opened \subseteq Servers
  /\ queue \in [Servers -> Seq(Nat)] /\ seed \in Nat \ {0}
  /\ table \in [DOMAIN table -> [server : Servers, fd : Fds]]
  /\ apc \in [Servers -> Places] /\ hand \in [Servers -> [fd : Nat, id : Nat]]
  /\ vm \in [at : {"idle"} \cup InServer \cup InSend, on : Nat, fd : Nat]
  /\ DOMAIN fds = Fds /\ to \in [Clients -> Servers]
  /\ conn \in [Clients -> {"idle", "backlog", "accepted", "closed"}]
  /\ sent \in [Clients -> {"nothing", "head", "all", "junk"}] /\ hung \in [Clients -> BOOLEAN]
  /\ got \in [Clients -> Seq(Clients)]
  /\ origin \in [Ids -> Clients] /\ DOMAIN table \subseteq Ids /\ handed \subseteq Ids

\* the servers that are open, being opened or not yet quite closed
Live == servers \cup (IF vm.at = "open" THEN {vm.on} ELSE {})
\* a call of close on s that has come at least this far
ShutDown(s) == vm.at \in {"shut", "join", "sweep"} /\ vm.on = s
Unlistening(s) == vm.at \in {"join", "sweep"} /\ vm.on = s

\* A call is about a server that is there, and a closed server's thread has ended.
Calls ==
  /\ vm.at = "open" => vm.on \in opened \ servers /\ vm.fd = 0
  /\ vm.at \in InServer \ {"open"} => vm.on \in servers
  /\ vm.at = "sweep" => apc[vm.on] = "ended"
  /\ \A s \in Servers : (apc[s] = "none") <=> (s \notin opened)
  /\ \A s \in opened \ Live : apc[s] = "ended"

\* A server listens on its own descriptor and on no other, until close has shut it down.
Listens ==
  /\ \A s \in Live : ~ShutDown(s) => listenFd[s] \in Fds /\ fds[listenFd[s]] = Listening(s)
  /\ vm.at = "shut" => listenFd[vm.on] \in Fds /\ fds[listenFd[vm.on]] = Down(vm.on)
  /\ \A n \in Fds, s \in Servers :
       /\ fds[n] = Listening(s) => s \in Live /\ ~ShutDown(s)
       /\ fds[n] = Down(s) => vm.at = "shut" /\ vm.on = s
       /\ fds[n] \in {Listening(s), Down(s)} => n = listenFd[s]

\* An accepted connection has one descriptor, and its server is still there.
Connections ==
  /\ \A n, m \in Fds, c \in Clients : fds[n] = Conn(c) /\ fds[m] = Conn(c) => n = m
  /\ \A c \in Clients :
       /\ (conn[c] = "accepted") <=> (\E n \in Fds : fds[n] = Conn(c))
       /\ conn[c] \in {"backlog", "accepted"} => to[c] \in Live
       /\ conn[c] = "backlog" => ~Unlistening(to[c])

\* A client's request is read once, from a connection that was accepted.
Names ==
  /\ \A i, j \in Ids : origin[i] = origin[j] => i = j
  /\ \A i \in Ids : conn[origin[i]] \in {"accepted", "closed"}

\* The accept thread reads from a connection of its server's; before the request has a name
\* nobody else knows of it, and until it is queued only the thread does.
Reading(s) == apc[s] \in {"recv", "name", "register"}
Thread(s) ==
  /\ Reading(s) => /\ hand[s].fd \in Fds
                   /\ \E c \in Clients : fds[hand[s].fd] = Conn(c) /\ to[c] = s
  /\ apc[s] \in {"recv", "name"} => \A i \in Ids : fds[hand[s].fd] # Conn(origin[i])
  /\ apc[s] = "register" => /\ hand[s].id \in Ids \ (DOMAIN table \cup handed)
                            /\ fds[hand[s].fd] = Conn(origin[hand[s].id])
  /\ apc[s] = "queue" => /\ hand[s].id \in RequestsOf(s) \ handed
                         /\ \A i \in DOMAIN queue[s] : queue[s][i] # hand[s].id
Threads == \A s \in Servers : Thread(s)

\* An entry of the table is a request of its server's, on the socket it was read from; it has
\* been handed out, waits, or is just about to.
InLine(s, id) == \E i \in DOMAIN queue[s] : queue[s][i] = id
Recorded(id) ==
  /\ fds[table[id].fd] = Conn(origin[id]) /\ table[id].server = to[origin[id]]
  /\ \/ id \in handed
     \/ InLine(table[id].server, id)
     \/ apc[table[id].server] = "queue" /\ hand[table[id].server].id = id
Entries == \A id \in DOMAIN table : Recorded(id)

\* What waits is in the table, has not been handed out and waits once.
Queues ==
  \A s \in Servers : \A i \in DOMAIN queue[s] :
    /\ queue[s][i] \in RequestsOf(s) \ handed
    /\ \A j \in DOMAIN queue[s] : queue[s][i] = queue[s][j] => i = j

\* A send answers a request it has taken out of the table, on its client's socket; a client
\* that was answered is closed next.
Sends ==
  /\ vm.at \in InSend => /\ vm.on \in handed \ DOMAIN table /\ vm.fd \in Fds
                         /\ fds[vm.fd] = Conn(origin[vm.on])
  /\ \A c \in Clients : got[c] # <<>> =>
       conn[c] = "closed" \/ (vm.at = "sent" /\ origin[vm.on] = c)

\* Every connection that is open is somebody's to close.
Held ==
  \A n \in Fds : \A c \in Clients : fds[n] = Conn(c) =>
    \/ \E s \in Servers : Reading(s) /\ hand[s].fd = n
    \/ \E id \in DOMAIN table : table[id].fd = n
    \/ vm.at \in InSend /\ vm.fd = n

Inv == Calls /\ Listens /\ Connections /\ Names /\ Threads /\ Entries /\ Queues /\ Sends
       /\ Held /\ OwnResponse

-----------------------------------------------------------------------------
(* What a descriptor stands for *)

\* The four things a descriptor can stand for are told apart.
LEMMA Sockets ==
  /\ \A c, d : Conn(c) = Conn(d) => c = d
  /\ \A s, r : (Listening(s) = Listening(r) => s = r) /\ (Down(s) = Down(r) => s = r)
  /\ \A c, s : /\ Conn(c) # Free /\ Listening(s) # Free /\ Down(s) # Free
              /\ Conn(c) # Listening(s) /\ Conn(c) # Down(s)
  /\ \A s, r : Listening(s) # Down(r)
BY DEF Conn, Free, Listening, Down

-----------------------------------------------------------------------------
(* Types *)

LEMMA KindsInit == Init => Kinds
<1> SUFFICES ASSUME Init PROVE Kinds OBVIOUS
<1> USE ServersAssumption, FdsAssumption DEF Init
<1>1. Ids = {} BY DEF Ids
<1>2. /\ running \in [Servers -> BOOLEAN] /\ listenFd \in [Servers -> Nat]
      /\ servers \subseteq opened /\ opened \subseteq Servers
      /\ queue \in [Servers -> Seq(Nat)] /\ seed \in Nat \ {0}
  OBVIOUS
<1>3. table \in [DOMAIN table -> [server : Servers, fd : Fds]] /\ DOMAIN table = {} OBVIOUS
<1>4. apc \in [Servers -> Places] /\ hand \in [Servers -> [fd : Nat, id : Nat]]
  BY DEF Places, NoHand
<1>5. vm \in [at : {"idle"} \cup InServer \cup InSend, on : Nat, fd : Nat] BY DEF Idle
<1>6. DOMAIN fds = Fds /\ to \in [Clients -> Servers]
  OBVIOUS
<1>7. /\ conn \in [Clients -> {"idle", "backlog", "accepted", "closed"}]
      /\ sent \in [Clients -> {"nothing", "head", "all", "junk"}] /\ hung \in [Clients -> BOOLEAN]
      /\ got \in [Clients -> Seq(Clients)]
  OBVIOUS
<1>8. origin \in [Ids -> Clients] /\ handed \subseteq Ids BY <1>1
<1> QED BY <1>2, <1>3, <1>4, <1>5, <1>6, <1>7, <1>8 DEF Kinds

LEMMA KindsAccept ==
  ASSUME Kinds, Threads, NEW s \in Servers, AcceptThread(s)
  PROVE  Kinds'
<1> USE ServersAssumption, FdsAssumption DEF Kinds, flags, sockets, clients, Places
<1>1. CASE CheckRunning(s) BY <1>1 DEF CheckRunning, Turn, Ids
<1>2. CASE Accept(s)
  <2>1. PICK c \in Clients, n \in Fds :
          /\ fds' = [fds EXCEPT ![n] = Conn(c)] /\ conn' = [conn EXCEPT ![c] = "accepted"]
          /\ hand' = [hand EXCEPT ![s] = [fd |-> n, id |-> 0]]
    BY <1>2 DEF Accept
  <2>2. [fd |-> n, id |-> 0] \in [fd : Nat, id : Nat] OBVIOUS
  <2>3. hand' \in [Servers -> [fd : Nat, id : Nat]] BY <2>1, <2>2
  <2> QED BY <1>2, <2>1, <2>3 DEF Accept, Ids
<1>3. CASE AcceptFails(s) BY <1>3 DEF AcceptFails, Turn, Ids
<1>4. CASE AfterFailure(s) BY <1>4 DEF AfterFailure, Turn, Ids
<1>5. CASE Receive(s) BY <1>5 DEF Receive, Turn, Ids
<1>6. CASE ReceiveFails(s) BY <1>6 DEF ReceiveFails, Closing, NoHand, Ids
<1>7. CASE Name(s)
  <2>1. PICK c \in ConnOf(hand[s].fd) :
          origin' = [id \in DOMAIN origin \cup {seed} |-> IF id = seed THEN c ELSE origin[id]]
    BY <1>7 DEF Name
  <2>2. c \in Clients BY DEF ConnOf
  <2>3. Ids' = Ids \cup {seed} BY <1>7 DEF Name, Ids
  <2>4. origin' \in [Ids' -> Clients] BY <2>1, <2>2, <2>3
  <2>5. hand' \in [Servers -> [fd : Nat, id : Nat]] BY <1>7 DEF Name
  <2>6. seed' \in Nat \ {0} BY <1>7 DEF Name
  <2> QED BY <1>7, <2>3, <2>4, <2>5, <2>6 DEF Name
<1>8. CASE Register(s)
  <2>1. Entry(s) \in [server : Servers, fd : Fds] /\ hand[s].id \in Ids
    BY <1>8 DEF Entry, Threads, Thread, Reading, Register
  <2>2. table' \in [DOMAIN table' -> [server : Servers, fd : Fds]] /\ DOMAIN table' \subseteq Ids
    BY <1>8, <2>1 DEF Register, Registered
  <2> QED BY <1>8, <2>2 DEF Register, Ids
<1>9. CASE Enqueue(s)
  <2>1. hand[s].id \in Nat /\ queue[s] \in Seq(Nat) OBVIOUS
  <2>2. Append(queue[s], hand[s].id) \in Seq(Nat) BY <2>1
  <2> QED BY <1>9, <2>2 DEF Enqueue, Ids
<1>10. CASE Notify(s) BY <1>10 DEF Notify, Woken, NoHand, InServer, Ids
<1> QED BY <1>1, <1>2, <1>3, <1>4, <1>5, <1>6, <1>7, <1>8, <1>9, <1>10 DEF AcceptThread

LEMMA KindsVm ==
  ASSUME Kinds, Calls, Queues, Sends, VmThread \/ Call \/ SpuriousWakeup
  PROVE  Kinds'
<1> USE ServersAssumption, FdsAssumption DEF Kinds, flags, sockets, clients, InServer, InSend
<1>1. CASE OpenRegisters BY <1>1 DEF OpenRegisters, Calls, Idle, Ids
<1>2. CASE NextSleeps \/ SpuriousWakeup BY <1>2 DEF NextSleeps, SpuriousWakeup, Ids
<1>3. CASE NextReturns
  <2>1. vm' \in [at : {"idle"} \cup InServer \cup InSend, on : Nat, fd : Nat]
    BY <1>3 DEF NextReturns, Idle
  <2>2. CASE queue[vm.on] = <<>> BY <1>3, <2>1, <2>2 DEF NextReturns, Ids
  <2>3. CASE queue[vm.on] # <<>>
    <3>1. vm.on \in Servers BY <1>3 DEF NextReturns, Calls
    <3>2. queue[vm.on] \in Seq(Nat) BY <3>1
    <3>3. Tail(queue[vm.on]) \in Seq(Nat) /\ 1 \in DOMAIN queue[vm.on] BY <3>2, <2>3
    <3>4. Head(queue[vm.on]) \in Ids BY <3>1, <3>2, <3>3 DEF Queues, RequestsOf
    <3>5. queue' \in [Servers -> Seq(Nat)] BY <1>3, <2>3, <3>3 DEF NextReturns
    <3>6. handed' \subseteq Ids' BY <1>3, <2>3, <3>4 DEF NextReturns, Ids
    <3> QED BY <1>3, <2>1, <3>5, <3>6 DEF NextReturns, Ids
  <2> QED BY <2>2, <2>3
<1>4. CASE SendResponds
  <2>1. \A c \in Clients : got[c] \in Seq(Clients) OBVIOUS
  <2>2. SUFFICES got' \in [Clients -> Seq(Clients)] BY <1>4 DEF SendResponds, Ids
  <2>3. origin[vm.on] \in Clients BY <1>4 DEF SendResponds, Sends
  <2>4. \A c \in Clients : Append(got[c], origin[vm.on]) \in Seq(Clients) BY <2>1, <2>3
  <2> QED BY <1>4, <2>1, <2>4 DEF SendResponds
<1>5. CASE SendCloses BY <1>5 DEF SendCloses, Closing, Idle, Ids
<1>6. CASE CloseShutsDown BY <1>6 DEF CloseShutsDown, Ids
<1>7. CASE CloseListener BY <1>7 DEF CloseListener, Ids
<1>8. CASE CloseJoins BY <1>8 DEF CloseJoins, Ids
<1>9. CASE CloseSweeps
  <2>0. <<>> \in Seq(Nat) OBVIOUS
  <2>1. queue' \in [Servers -> Seq(Nat)] BY <1>9, <2>0 DEF CloseSweeps
  <2>2. table' \in [DOMAIN table' -> [server : Servers, fd : Fds]] /\ DOMAIN table' \subseteq Ids
    BY <1>9 DEF CloseSweeps, Restrict
  <2> QED BY <1>9, <2>1, <2>2 DEF CloseSweeps, Closing, Idle, Ids
<1>10. ASSUME NEW s \in Servers, Open(s) PROVE Kinds'
  <2>1. PICK n \in Fds : fds' = [fds EXCEPT ![n] = Listening(s)] /\ listenFd' = [listenFd EXCEPT ![s] = n]
    BY <1>10 DEF Open
  <2> QED BY <1>10, <2>1 DEF Open, Calling, Places, Ids
<1>11. ASSUME NEW s \in Servers, NextCalled(s) PROVE Kinds' BY <1>11 DEF NextCalled, Calling, Ids
<1>12. ASSUME NEW s \in Servers, CloseStops(s) PROVE Kinds' BY <1>12 DEF CloseStops, Calling, Ids
<1>13. ASSUME NEW id \in handed, Send(id) PROVE Kinds'
  <2>1. id \in Nat /\ table[id].fd \in Nat BY <1>13 DEF Send, Ids
  <2>2. table' \in [DOMAIN table' -> [server : Servers, fd : Fds]] /\ DOMAIN table' \subseteq Ids
    BY <1>13 DEF Send, Restrict
  <2> QED BY <1>13, <2>1, <2>2 DEF Send, Calling, Ids
<1> QED
  BY <1>1, <1>2, <1>3, <1>4, <1>5, <1>6, <1>7, <1>8, <1>9, <1>10, <1>11, <1>12, <1>13 DEF VmThread, Call

LEMMA KindsClient ==
  ASSUME Kinds, NEW c \in Clients, Client(c)
  PROVE  Kinds'
<1> USE DEF Kinds, flags, sockets, clients, Ids
<1>1. CASE Connect(c) BY <1>1 DEF Connect
<1>2. CASE HangUp(c) BY <1>2 DEF HangUp
<1>3. ASSUME NEW what \in {"head", "all", "junk"}, Write(c, what) PROVE Kinds' BY <1>3 DEF Write
<1> QED BY <1>1, <1>2, <1>3 DEF Client

-----------------------------------------------------------------------------
(* What a step leaves alone keeps the parts of the invariant that are about it *)

LEMMA Kept ==
  /\ Calls /\ UNCHANGED <<vm, opened, servers, apc>> => Calls'
  /\ Listens /\ UNCHANGED <<vm, servers, listenFd, fds>> => Listens'
  /\ Connections /\ UNCHANGED <<vm, servers, fds, conn, to>> => Connections'
  /\ Names /\ UNCHANGED <<seed, origin, conn>> => Names'
  /\ Threads /\ UNCHANGED <<apc, hand, fds, to, seed, origin, table, handed, queue>> => Threads'
  /\ Entries /\ UNCHANGED <<apc, hand, fds, to, origin, table, handed, queue>> => Entries'
  /\ Queues /\ UNCHANGED <<table, handed, queue>> => Queues'
  /\ Sends /\ UNCHANGED <<vm, fds, table, handed, origin, got, conn>> => Sends'
  /\ Held /\ UNCHANGED <<vm, fds, table, apc, hand>> => Held'
  /\ OwnResponse /\ UNCHANGED got => OwnResponse'
<1> USE DEF Live, ShutDown, Unlistening, Ids, Reading, RequestsOf, InLine
<1>1. Calls /\ UNCHANGED <<vm, opened, servers, apc>> => Calls' BY DEF Calls
<1>2. Listens /\ UNCHANGED <<vm, servers, listenFd, fds>> => Listens' BY DEF Listens
<1>3. Connections /\ UNCHANGED <<vm, servers, fds, conn, to>> => Connections' BY DEF Connections
<1>4. Names /\ UNCHANGED <<seed, origin, conn>> => Names' BY DEF Names
<1>5. Threads /\ UNCHANGED <<apc, hand, fds, to, seed, origin, table, handed, queue>> => Threads'
  BY DEF Threads, Thread
<1>6. Entries /\ UNCHANGED <<apc, hand, fds, to, origin, table, handed, queue>> => Entries'
  BY DEF Entries, Recorded
<1>7. Queues /\ UNCHANGED <<table, handed, queue>> => Queues' BY DEF Queues
<1>8. Sends /\ UNCHANGED <<vm, fds, table, handed, origin, got, conn>> => Sends' BY DEF Sends
<1>9. Held /\ UNCHANGED <<vm, fds, table, apc, hand>> => Held' BY DEF Held
<1>10. OwnResponse /\ UNCHANGED got => OwnResponse' BY DEF OwnResponse
<1> QED BY <1>1, <1>2, <1>3, <1>4, <1>5, <1>6, <1>7, <1>8, <1>9, <1>10

LEMMA InvInit == Init => Inv
<1> SUFFICES ASSUME Init PROVE Inv OBVIOUS
<1> USE DEF Init
<1>1. Calls BY DEF Calls, Idle, InServer
<1>2. Listens BY Sockets DEF Listens, Live, Idle
<1>3. Connections BY Sockets DEF Connections
<1>4. Names BY DEF Names, Ids
<1>5. Threads BY DEF Threads, Thread, Reading
<1>6. Entries /\ Queues BY DEF Entries, Queues
<1>7. Sends BY DEF Sends, Idle, InSend
<1>8. Held BY Sockets DEF Held
<1>9. OwnResponse BY DEF OwnResponse
<1> QED BY <1>1, <1>2, <1>3, <1>4, <1>5, <1>6, <1>7, <1>8, <1>9 DEF Inv

\* Opening and closing connections changes nothing about who listens.
LEMMA ListensOn ==
  ASSUME Kinds, Calls, Listens, UNCHANGED listenFd,
         Live' = Live, vm'.on = vm.on \/ {vm.at, vm'.at} \cap {"shut", "join", "sweep"} = {},
         (vm'.at = "shut") <=> (vm.at = "shut"), \A r : ShutDown(r)' <=> ShutDown(r),
         \A m \in Fds, r \in Servers :
           /\ (fds'[m] = Listening(r)) <=> (fds[m] = Listening(r))
           /\ (fds'[m] = Down(r)) <=> (fds[m] = Down(r))
  PROVE  Listens'
<1>1. vm.at = "shut" => vm.on \in Servers BY DEF Calls, InServer, Kinds
<1>2. Live \subseteq Servers BY DEF Live, Calls, Kinds
<1>3. \A s \in Live' : ~ShutDown(s)' => listenFd'[s] \in Fds /\ fds'[listenFd'[s]] = Listening(s)
  BY <1>2 DEF Listens
<1>4. vm'.at = "shut" => vm'.on = vm.on OBVIOUS
<1>5. vm'.at = "shut" => listenFd'[vm'.on] \in Fds /\ fds'[listenFd'[vm'.on]] = Down(vm'.on)
  BY <1>1, <1>4 DEF Listens
<1>6. \A n \in Fds, s \in Servers :
        /\ fds'[n] = Listening(s) => s \in Live' /\ ~ShutDown(s)'
        /\ fds'[n] = Down(s) => vm'.at = "shut" /\ vm'.on = s
        /\ fds'[n] \in {Listening(s), Down(s)} => n = listenFd'[s]
  BY <1>4 DEF Listens
<1> QED BY <1>3, <1>5, <1>6 DEF Listens

\* What is left of the sockets when those of some connections are closed.
LEMMA ClosingSockets ==
  ASSUME Kinds, Connections, NEW ns \in SUBSET Fds,
         \A n \in ns : \E c \in Clients : fds[n] = Conn(c), Closing(ns)
  PROVE  /\ \A m \in Fds, r \in Servers :
              /\ (fds'[m] = Listening(r)) <=> (fds[m] = Listening(r))
              /\ (fds'[m] = Down(r)) <=> (fds[m] = Down(r))
         /\ \A m \in Fds, d \in Clients : (fds'[m] = Conn(d)) <=> (m \notin ns /\ fds[m] = Conn(d))
         /\ \A d \in Clients :
              /\ (conn'[d] = "accepted") <=> (\E m \in Fds : fds'[m] = Conn(d))
              /\ conn'[d] # "closed" => conn'[d] = conn[d]
              /\ conn'[d] = conn[d] \/ (conn[d] = "accepted" /\ conn'[d] = "closed")
              /\ conn[d] = "closed" => conn'[d] = "closed"
              /\ (\E n \in ns : fds[n] = Conn(d)) => conn'[d] = "closed"
<1>1. \A m \in Fds : fds'[m] = IF m \in ns THEN Free ELSE fds[m]
  BY DEF Closing
<1>2. \A d \in Clients : conn'[d] = IF \E n \in ns : fds[n] = Conn(d) THEN "closed" ELSE conn[d]
  BY DEF Closing
<1>3. \A m \in Fds, r \in Servers :
        /\ (fds'[m] = Listening(r)) <=> (fds[m] = Listening(r))
        /\ (fds'[m] = Down(r)) <=> (fds[m] = Down(r))
  BY <1>1, Sockets
<1>4. \A m \in Fds, d \in Clients : (fds'[m] = Conn(d)) <=> (m \notin ns /\ fds[m] = Conn(d))
  BY <1>1, Sockets
<1>5. \A d \in Clients : (conn[d] = "accepted") <=> (\E m \in Fds : fds[m] = Conn(d))
  BY DEF Connections
<1>6. \A n, m \in Fds, c \in Clients : fds[n] = Conn(c) /\ fds[m] = Conn(c) => n = m
  BY DEF Connections
<1>7. ASSUME NEW d \in Clients
      PROVE  /\ (conn'[d] = "accepted") <=> (\E m \in Fds : fds'[m] = Conn(d))
             /\ conn'[d] # "closed" => conn'[d] = conn[d]
             /\ conn'[d] = conn[d] \/ (conn[d] = "accepted" /\ conn'[d] = "closed")
             /\ conn[d] = "closed" => conn'[d] = "closed"
             /\ (\E n \in ns : fds[n] = Conn(d)) => conn'[d] = "closed"
  <2>1. CASE \E n \in ns : fds[n] = Conn(d) BY <2>1, <1>2, <1>4, <1>5, <1>6
  <2>2. CASE ~ \E n \in ns : fds[n] = Conn(d) BY <2>2, <1>2, <1>4, <1>5
  <2> QED BY <2>1, <2>2
<1> QED BY <1>3, <1>4, <1>7

-----------------------------------------------------------------------------
(* The accept thread *)

\* A thread's step changes its own place and hand and what it holds; of the call the VM is in it
\* can only end the sleep.
LEMMA ThreadStep ==
  ASSUME Kinds, Inv, NEW s \in Servers, AcceptThread(s)
  PROVE  /\ UNCHANGED <<flags, clients, got, handed>>
         /\ vm' = vm \/ (vm.at = "asleep" /\ vm'.at = "next" /\ vm'.on = vm.on)
         /\ apc[s] \notin {"none", "ended"} /\ apc'[s] # "none"
         /\ \A r \in Servers \ {s} : apc'[r] = apc[r] /\ hand'[r] = hand[r]
<1>1. UNCHANGED <<flags, clients, got, handed>> /\ (vm' = vm \/ vm' = Woken(s))
  BY DEF AcceptThread, CheckRunning, Turn, Accept, AcceptFails, AfterFailure, Receive, ReceiveFails,
         Name, Register, Enqueue, Notify
<1>2. /\ apc[s] \notin {"none", "ended"} /\ apc'[s] # "none"
      /\ \A r \in Servers \ {s} : apc'[r] = apc[r] /\ hand'[r] = hand[r]
  BY DEF Kinds, AcceptThread, CheckRunning, Turn, Accept, AcceptFails, AfterFailure, Receive,
         ReceiveFails, Name, Register, Enqueue, Notify
<1>3. vm' = vm \/ (vm.at = "asleep" /\ vm'.at = "next" /\ vm'.on = vm.on)
  BY <1>1 DEF Woken, Kinds
<1> QED BY <1>1, <1>2, <1>3

LEMMA ThreadCalls ==
  ASSUME Kinds, Inv, NEW s \in Servers, AcceptThread(s)
  PROVE  /\ Calls' /\ OwnResponse'
         /\ Live' = Live /\ s \in Live
         /\ \A r : ShutDown(r)' = ShutDown(r) /\ Unlistening(r)' = Unlistening(r)
<1>1. Live' = Live /\ \A r : ShutDown(r)' = ShutDown(r) /\ Unlistening(r)' = Unlistening(r)
  BY ThreadStep DEF Live, ShutDown, Unlistening, flags
<1>2. s \in Live BY ThreadStep DEF Inv, Calls
<1>3. Calls'
  <2> USE ThreadStep DEF Inv, Calls, flags, InServer
  <2>1. /\ vm'.at = "open" => vm'.on \in opened \ servers /\ vm'.fd = 0
        /\ vm'.at \in InServer \ {"open"} => vm'.on \in servers
    OBVIOUS
  <2>2. vm'.at = "sweep" => apc'[vm'.on] = "ended" BY DEF Kinds
  <2>3. \A r \in Servers : (apc'[r] = "none") <=> (r \notin opened) BY DEF Kinds
  <2>4. \A r \in opened \ Live' : apc'[r] = "ended" BY <1>1, <1>2 DEF Kinds
  <2> QED BY <2>1, <2>2, <2>3, <2>4
<1> QED BY <1>1, <1>2, <1>3, ThreadStep, Kept DEF Inv, flags

\* steps that only move the thread on, and do not change what it knows of a request
LEMMA InvTurn ==
  ASSUME Kinds, Inv, NEW s \in Servers,
         CheckRunning(s) \/ AcceptFails(s) \/ AfterFailure(s) \/ Receive(s)
  PROVE  Inv'
<1>1. /\ UNCHANGED <<flags, queue, table, seed, hand, vm, sockets, clients, got, origin, handed>>
      /\ AcceptThread(s)
  BY DEF CheckRunning, AcceptFails, AfterFailure, Receive, Turn, AcceptThread
<1>2. /\ \A r \in Servers \ {s} : apc'[r] = apc[r]
      /\ UNCHANGED <<flags, clients, got, handed>>
  BY <1>1, ThreadStep
<1>3. /\ apc[s] # "queue" /\ apc'[s] \notin {"register", "queue"}
      /\ apc'[s] \in {"recv", "name"} => apc[s] \in {"recv", "name"}
      /\ apc[s] = "register" => FALSE
      /\ apc[s] \in {"recv", "name"} => apc'[s] \in {"recv", "name"}
  BY DEF CheckRunning, AcceptFails, AfterFailure, Receive, Turn, Kinds
<1>4. \A r \in Servers : Reading(r)' <=> Reading(r)
  BY <1>2, <1>3 DEF Reading
<1> USE <1>1 DEF flags, sockets, clients
<1>5. Threads' BY <1>2, <1>3, <1>4 DEF Inv, Threads, Thread, Ids, RequestsOf
<1>6. Entries'
  <2>1. \A id \in DOMAIN table : table[id].server \in Servers BY DEF Kinds
  <2> QED BY <1>2, <1>3, <2>1 DEF Inv, Entries, Recorded, InLine
<1>7. Held' BY <1>4 DEF Inv, Held
<1>8. Listens' /\ Connections' /\ Names' /\ Queues' /\ Sends' BY <1>2, Kept DEF Inv
<1> QED BY <1>5, <1>6, <1>7, <1>8, ThreadCalls DEF Inv

\* a connection waits no longer in the listener's backlog, but on a descriptor of its own
LEMMA InvAccept ==
  ASSUME Kinds, Inv, NEW s \in Servers, Accept(s)
  PROVE  Inv'
<1>0. AcceptThread(s) BY DEF AcceptThread
<1>1. PICK c \in Clients, n \in Fds :
        /\ conn[c] = "backlog" /\ to[c] = s /\ fds[n] = Free
        /\ fds' = [fds EXCEPT ![n] = Conn(c)] /\ conn' = [conn EXCEPT ![c] = "accepted"]
        /\ hand' = [hand EXCEPT ![s] = [fd |-> n, id |-> 0]]
  BY DEF Accept, IsNext, FreeFds
<1>2. UNCHANGED <<flags, queue, table, seed, vm, clients, got, origin, handed>>
  BY DEF Accept
<1>3. fds'[n] = Conn(c) /\ \A m \in Fds \ {n} : fds'[m] = fds[m]
  BY <1>1 DEF Kinds
<1>4. conn'[c] = "accepted" /\ \A d \in Clients \ {c} : conn'[d] = conn[d]
  BY <1>1 DEF Kinds
<1>5. apc'[s] = "recv" /\ hand'[s].fd = n BY <1>1 DEF Accept, Kinds
<1>6. \A m \in Fds : fds[m] # Conn(c)
  BY <1>1 DEF Inv, Connections
<1>7. \A i \in Ids : origin[i] # c BY <1>1 DEF Inv, Names
<1>8. \A m \in Fds, d \in Clients : fds[m] = Conn(d) => m # n /\ d # c /\ fds'[m] = Conn(d)
  BY <1>1, <1>3, <1>6, Sockets
<1>9. \A r \in Servers \ {s} : apc'[r] = apc[r] /\ hand'[r] = hand[r]
  BY <1>0, ThreadStep
<1>10. Reading(s)' /\ ~Reading(s) /\ \A r \in Servers : Reading(r) => Reading(r)' /\ hand'[r] = hand[r]
  BY <1>5, <1>9 DEF Accept, Reading
<1> USE <1>2 DEF flags, clients
<1>11. Listens'
  <2>1. \A m \in Fds, r \in Servers :
          /\ fds'[m] = Listening(r) => fds[m] = Listening(r)
          /\ fds'[m] = Down(r) => fds[m] = Down(r)
    BY <1>3, Sockets
  <2>2. \A m \in Fds, r \in Servers :
          /\ fds[m] = Listening(r) => fds'[m] = Listening(r)
          /\ fds[m] = Down(r) => fds'[m] = Down(r)
    BY <1>1, <1>3, Sockets
  <2>3. Live' = Live /\ \A r : ShutDown(r)' = ShutDown(r) BY <1>0, ThreadCalls
  <2> QED BY <2>1, <2>2, <2>3, ListensOn DEF Inv
<1>12. Connections'
  <2>1. \A m1, m2 \in Fds, d \in Clients : fds'[m1] = Conn(d) /\ fds'[m2] = Conn(d) => m1 = m2
    BY <1>3, <1>6, Sockets DEF Inv, Connections
  <2>2. \A d \in Clients : (conn'[d] = "accepted") <=> (\E m \in Fds : fds'[m] = Conn(d))
    BY <1>3, <1>4, <1>8, Sockets DEF Inv, Connections
  <2>3. \A d \in Clients : conn'[d] \in {"backlog", "accepted"} => to[d] \in Live
    BY <1>1, <1>4 DEF Inv, Connections
  <2>4. \A d \in Clients : conn'[d] = "backlog" => ~Unlistening(to[d])
    BY <1>1, <1>4 DEF Inv, Connections
  <2>5. Live' = Live /\ \A r : Unlistening(r)' = Unlistening(r) BY <1>0, ThreadCalls
  <2> QED BY <2>1, <2>2, <2>3, <2>4, <2>5 DEF Connections
<1>13. Names' BY <1>4, <1>7 DEF Inv, Names, Kinds, Ids
<1>14. Threads'
  <2>1. Thread(s)' BY <1>1, <1>3, <1>5, <1>7, Sockets DEF Accept, Thread, Reading, Kinds, Ids
  <2>2. ASSUME NEW r \in Servers \ {s} PROVE Thread(r)'
    <3>1. Thread(r) /\ apc'[r] = apc[r] /\ hand'[r] = hand[r] BY <1>9, <2>2 DEF Inv, Threads
    <3>2. Reading(r) => fds'[hand[r].fd] = fds[hand[r].fd] BY <3>1, <1>8 DEF Thread
    <3> QED BY <3>1, <3>2 DEF Thread, Reading, Ids, RequestsOf
  <2> QED BY <2>1, <2>2 DEF Threads
<1>15. Entries'
  <2>1. ASSUME NEW id \in DOMAIN table PROVE Recorded(id)'
    <3>1. Recorded(id) /\ table[id].server \in Servers /\ table[id].fd \in Fds /\ origin[id] \in Clients
      BY DEF Inv, Entries, Kinds
    <3>2. fds'[table[id].fd] = Conn(origin[id]) BY <3>1, <1>8 DEF Recorded
    <3>3. apc[s] # "queue" BY DEF Accept
    <3> QED BY <3>1, <3>2, <3>3, <1>9 DEF Recorded, InLine
  <2> QED BY <2>1 DEF Entries
<1>16. Sends'
  <2>1. vm.at \in InSend => fds'[vm.fd] = Conn(origin[vm.on])
    BY <1>8 DEF Inv, Sends, Kinds
  <2>2. \A d \in Clients : conn[d] = "closed" => conn'[d] = "closed" BY <1>1, <1>4
  <2> QED BY <2>1, <2>2 DEF Inv, Sends
<1>17. Held'
  <2>1. ASSUME NEW m \in Fds, NEW d \in Clients, fds'[m] = Conn(d)
        PROVE  \/ \E r \in Servers : Reading(r)' /\ hand'[r].fd = m
               \/ \E id \in DOMAIN table : table[id].fd = m
               \/ vm.at \in InSend /\ vm.fd = m
    <3>1. CASE m = n BY <3>1, <1>5, <1>10
    <3>2. CASE m # n
      <4>1. fds[m] = Conn(d) BY <2>1, <3>2, <1>3
      <4>2. \A r \in Servers : Reading(r) => Reading(r)' /\ hand'[r] = hand[r] BY <1>10
      <4> QED BY <4>1, <4>2 DEF Inv, Held
    <3> QED BY <3>1, <3>2
  <2> QED BY <2>1 DEF Held
<1> QED BY <1>0, <1>11, <1>12, <1>13, <1>14, <1>15, <1>16, <1>17, ThreadCalls, Kept DEF Inv

\* the socket of a client that sent no request is closed; nobody else knows of it
LEMMA InvReceiveFails ==
  ASSUME Kinds, Inv, NEW s \in Servers, ReceiveFails(s)
  PROVE  Inv'
<1>0. AcceptThread(s) BY DEF AcceptThread
<1>1. PICK c \in Clients : fds[hand[s].fd] = Conn(c) /\ hand[s].fd \in Fds
  BY DEF ReceiveFails, ConnOf
<1> DEFINE n == hand[s].fd
<1>2. /\ UNCHANGED <<flags, queue, table, seed, vm, clients, got, origin, handed>>
      /\ Closing({n}) /\ apc[s] = "recv" /\ apc'[s] = "check"
  BY DEF ReceiveFails, Kinds
<1>3. /\ \A m \in Fds, r \in Servers :
           /\ (fds'[m] = Listening(r)) <=> (fds[m] = Listening(r))
           /\ (fds'[m] = Down(r)) <=> (fds[m] = Down(r))
      /\ \A m \in Fds, d \in Clients : (fds'[m] = Conn(d)) <=> (m # n /\ fds[m] = Conn(d))
      /\ \A d \in Clients :
           /\ (conn'[d] = "accepted") <=> (\E m \in Fds : fds'[m] = Conn(d))
           /\ conn'[d] # "closed" => conn'[d] = conn[d]
           /\ conn'[d] = conn[d] \/ (conn[d] = "accepted" /\ conn'[d] = "closed")
           /\ conn[d] = "closed" => conn'[d] = "closed"
  <2>1. {n} \in SUBSET Fds BY <1>1
  <2>2. \A m \in {n} : \E d \in Clients : fds[m] = Conn(d) BY <1>1
  <2>3. Connections BY DEF Inv
  <2> QED BY <1>2, <2>1, <2>2, <2>3, ClosingSockets
<1>4. \A r \in Servers \ {s} : apc'[r] = apc[r] /\ hand'[r] = hand[r] BY <1>0, ThreadStep
<1>5. Live' = Live /\ \A r : ShutDown(r)' = ShutDown(r) /\ Unlistening(r)' = Unlistening(r)
  BY <1>0, ThreadCalls
<1>6. \A i \in Ids : origin[i] # c BY <1>1, <1>2, Sockets DEF Inv, Threads, Thread
<1>7. \A m \in Fds, d \in Clients : fds[m] = Conn(d) /\ d # c => fds'[m] = Conn(d)
  BY <1>1, <1>3, Sockets
<1> HIDE DEF n
<1> USE <1>2 DEF flags, clients
<1>11. Listens' BY <1>3, <1>5, ListensOn DEF Inv
<1>12. Connections' BY <1>3, <1>5 DEF Inv, Connections
<1>13. Names'
  <2>1. UNCHANGED <<origin, Ids>> BY <1>2 DEF Ids
  <2>2. \A i \in Ids : origin[i] \in Clients BY DEF Kinds, Ids
  <2>3. Names BY DEF Inv
  <2>4. \A i \in Ids : conn'[origin[i]] \in {"accepted", "closed"}
    <3>1. \A i \in Ids : conn[origin[i]] \in {"accepted", "closed"} BY <2>3 DEF Names
    <3> QED BY <3>1, <2>2, <1>3
  <2> QED BY <2>1, <2>3, <2>4 DEF Names
<1>14. Threads'
  <2>1. Thread(s)' BY DEF Thread, Reading
  <2>2. ASSUME NEW r \in Servers \ {s} PROVE Thread(r)'
    <3>1. Thread(r) /\ apc'[r] = apc[r] /\ hand'[r] = hand[r] BY <1>4, <2>2 DEF Inv, Threads
    <3>2. CASE Reading(r)
      <4>1. PICK d \in Clients : fds[hand[r].fd] = Conn(d) /\ to[d] = r /\ hand[r].fd \in Fds
        BY <3>1, <3>2 DEF Thread
      <4>2. \E e \in Clients : fds[n] = Conn(e) /\ to[e] = s
        BY <1>2 DEF n, Inv, Threads, Thread, Reading
      <4>3. d # c BY <4>1, <4>2, <1>1, Sockets DEF n
      <4>4. fds'[hand[r].fd] = Conn(d) BY <4>1, <4>3, <1>7
      <4> QED BY <3>1, <4>1, <4>4 DEF Thread, Ids, RequestsOf
    <3>3. CASE ~Reading(r) BY <3>1, <3>3 DEF Thread, Reading, Ids, RequestsOf
    <3> QED BY <3>2, <3>3
  <2> QED BY <2>1, <2>2 DEF Threads
<1>15. Entries'
  <2>1. ASSUME NEW id \in DOMAIN table PROVE Recorded(id)'
    <3>1. /\ Recorded(id) /\ table[id].server \in Servers /\ table[id].fd \in Fds
          /\ origin[id] \in Clients /\ id \in Ids
      BY DEF Inv, Entries, Kinds
    <3>2. fds'[table[id].fd] = Conn(origin[id]) BY <3>1, <1>6, <1>7 DEF Recorded
    <3> QED BY <3>1, <3>2, <1>4 DEF Recorded, InLine
  <2> QED BY <2>1 DEF Entries
<1>16. Sends'
  <2>1. vm.at \in InSend => fds'[vm.fd] = Conn(origin[vm.on])
    BY <1>6, <1>7 DEF Inv, Sends, Kinds
  <2> QED BY <2>1, <1>3 DEF Inv, Sends
<1>17. Held'
  <2>1. ASSUME NEW m \in Fds, NEW d \in Clients, fds'[m] = Conn(d)
        PROVE  \/ \E r \in Servers : Reading(r)' /\ hand'[r].fd = m
               \/ \E id \in DOMAIN table : table[id].fd = m
               \/ vm.at \in InSend /\ vm.fd = m
    <3>1. m # n /\ fds[m] = Conn(d) BY <2>1, <1>3
    <3>2. \A r \in Servers : Reading(r) /\ hand[r].fd = m => Reading(r)' /\ hand'[r].fd = m
      BY <1>4, <3>1 DEF Reading, n
    <3> QED BY <3>1, <3>2 DEF Inv, Held
  <2> QED BY <2>1 DEF Held
<1> QED BY <1>0, <1>11, <1>12, <1>13, <1>14, <1>15, <1>16, <1>17, ThreadCalls, Kept DEF Inv

\* the request gets an id no other has, and its client no other request
LEMMA InvName ==
  ASSUME Kinds, Inv, NEW s \in Servers, Name(s)
  PROVE  Inv'
<1>0. AcceptThread(s) BY DEF AcceptThread
<1>1. PICK c \in Clients :
        /\ fds[hand[s].fd] = Conn(c) /\ hand[s].fd \in Fds
        /\ origin' = [id \in DOMAIN origin \cup {seed} |-> IF id = seed THEN c ELSE origin[id]]
  BY DEF Name, ConnOf
<1>2. /\ UNCHANGED <<flags, queue, table, vm, sockets, clients, got, handed>>
      /\ apc[s] = "name" /\ apc'[s] = "register" /\ hand'[s] = [hand[s] EXCEPT !.id = seed]
  BY DEF Name, Kinds
<1>3. Ids' = Ids \cup {seed} /\ seed \notin Ids BY DEF Name, Kinds, Ids
<1>4. origin'[seed] = c /\ \A i \in Ids : origin'[i] = origin[i] BY <1>1, <1>3 DEF Kinds
<1>5. \A r \in Servers \ {s} : apc'[r] = apc[r] /\ hand'[r] = hand[r] BY <1>0, ThreadStep
<1>6. \A i \in Ids : origin[i] # c BY <1>1, <1>2, Sockets DEF Inv, Threads, Thread
<1>7. hand'[s].fd = hand[s].fd /\ hand'[s].id = seed BY <1>2 DEF Kinds
<1>8. to[c] = s BY <1>1, <1>2, Sockets DEF Inv, Threads, Thread, Reading
<1>9. DOMAIN table \subseteq Ids /\ handed \subseteq Ids BY DEF Kinds
<1> USE <1>2 DEF flags, sockets, clients
<1>11. Names'
  <2>1. conn[c] = "accepted" BY <1>1 DEF Inv, Connections
  <2> QED BY <1>3, <1>4, <1>6, <2>1 DEF Inv, Names
<1>12. Threads'
  <2>1. Thread(s)' BY <1>1, <1>3, <1>4, <1>7, <1>8, <1>9 DEF Thread, Reading
  <2>2. ASSUME NEW r \in Servers \ {s} PROVE Thread(r)'
    <3>1. Thread(r) /\ apc'[r] = apc[r] /\ hand'[r] = hand[r] BY <1>5, <2>2 DEF Inv, Threads
    <3>2. Reading(r) => fds[hand[r].fd] # Conn(c) BY <3>1, <1>8, Sockets DEF Thread
    <3> QED BY <3>1, <3>2, <1>3, <1>4, <1>9 DEF Thread, Reading, RequestsOf
  <2> QED BY <2>1, <2>2 DEF Threads
<1>13. Entries'
  <2>1. ASSUME NEW id \in DOMAIN table PROVE Recorded(id)'
    <3>1. Recorded(id) /\ table[id].server \in Servers /\ id \in Ids BY DEF Inv, Entries, Kinds
    <3> QED BY <3>1, <1>4, <1>5 DEF Recorded, InLine
  <2> QED BY <2>1 DEF Entries
<1>14. Sends' BY <1>4, <1>9 DEF Inv, Sends, InSend
<1>15. Held'
  <2>1. \A r \in Servers : Reading(r) => Reading(r)' /\ hand'[r].fd = hand[r].fd
    BY <1>5, <1>7 DEF Reading
  <2> QED BY <2>1 DEF Inv, Held
<1> QED BY <1>0, <1>11, <1>12, <1>13, <1>14, <1>15, ThreadCalls, Kept DEF Inv

\* the thread passes the connection on to the table
LEMMA InvRegister ==
  ASSUME Kinds, Inv, NEW s \in Servers, Register(s)
  PROVE  Inv'
<1>0. AcceptThread(s) BY DEF AcceptThread
<1>a. PICK id : id = hand[s].id OBVIOUS
<1>1. /\ UNCHANGED <<flags, queue, seed, hand, vm, sockets, clients, got, origin, handed>>
      /\ apc[s] = "register" /\ apc'[s] = "queue"
  BY DEF Register, Kinds
<1>2. /\ id \in Ids \ (DOMAIN table \cup handed) /\ fds[hand[s].fd] = Conn(origin[id])
      /\ hand[s].fd \in Fds /\ to[origin[id]] = s
  BY <1>a, <1>1, Sockets DEF Inv, Threads, Thread, Reading
<1>3. /\ DOMAIN table' = DOMAIN table \cup {id}
      /\ table'[id] = [server |-> s, fd |-> hand[s].fd] /\ \A i \in DOMAIN table : table'[i] = table[i]
  BY <1>a, <1>2 DEF Register, Registered, Entry
<1>4. \A r \in Servers \ {s} : apc'[r] = apc[r] BY <1>0, ThreadStep
<1>5. \A r \in Servers : RequestsOf(r) \subseteq RequestsOf(r)' /\ id \in RequestsOf(s)'
  BY <1>3 DEF RequestsOf
<1> USE <1>1 DEF flags, sockets, clients
<1>11. Threads'
  <2>1. Thread(s)' BY <1>a, <1>2, <1>5 DEF Thread, Reading, Inv, Queues, RequestsOf
  <2>2. ASSUME NEW r \in Servers \ {s} PROVE Thread(r)'
    <3>1. Thread(r) /\ apc'[r] = apc[r] BY <1>4, <2>2 DEF Inv, Threads
    <3>2. CASE apc[r] = "register"
      <4>1. fds[hand[r].fd] = Conn(origin[hand[r].id]) /\ to[origin[hand[r].id]] = r
        BY <3>1, <3>2, Sockets DEF Thread, Reading
      <4>2. hand[r].id # id BY <4>1, <1>2, <2>2
      <4> QED BY <3>1, <3>2, <4>2, <1>3 DEF Thread, Reading, Ids
    <3>3. CASE apc[r] # "register" BY <3>1, <3>3, <1>5 DEF Thread, Reading, Ids
    <3> QED BY <3>2, <3>3
  <2> QED BY <2>1, <2>2 DEF Threads
<1>12. Entries'
  <2>1. Recorded(id)' BY <1>a, <1>2, <1>3 DEF Recorded
  <2>2. ASSUME NEW i \in DOMAIN table PROVE Recorded(i)'
    <3>1. Recorded(i) /\ table[i].server \in Servers BY DEF Inv, Entries, Kinds
    <3>2. table[i].server = s => apc[s] # "queue" OBVIOUS
    <3> QED BY <3>1, <3>2, <1>3, <1>4 DEF Recorded, InLine
  <2> QED BY <2>1, <2>2, <1>3 DEF Entries
<1>13. Queues' BY <1>5 DEF Inv, Queues
<1>14. Sends'
  <2>1. vm.at \in InSend => vm.on \in handed \ DOMAIN table' BY <1>2, <1>3 DEF Inv, Sends
  <2> QED BY <2>1 DEF Inv, Sends
<1>15. Held'
  <2>1. \A r \in Servers : Reading(r) => Reading(r)' \/ (r = s /\ table'[id].fd = hand[r].fd)
    BY <1>3, <1>4 DEF Reading
  <2> QED BY <2>1, <1>3 DEF Inv, Held
<1> QED BY <1>0, <1>11, <1>12, <1>13, <1>14, <1>15, ThreadCalls, Kept DEF Inv

\* the request goes to the end of the line
LEMMA InvEnqueue ==
  ASSUME Kinds, Inv, NEW s \in Servers, Enqueue(s)
  PROVE  Inv'
<1>0. AcceptThread(s) BY DEF AcceptThread
<1> DEFINE id == hand[s].id
<1>1. /\ UNCHANGED <<flags, table, seed, hand, vm, sockets, clients, got, origin, handed>>
      /\ apc[s] = "queue" /\ apc'[s] = "notify" /\ queue'[s] = Append(queue[s], id)
  BY DEF Enqueue, Kinds
<1>2. \A r \in Servers \ {s} : apc'[r] = apc[r] /\ queue'[r] = queue[r]
  BY <1>0, ThreadStep DEF Enqueue, Kinds
<1>3. /\ id \in RequestsOf(s) \ handed /\ \A i \in DOMAIN queue[s] : queue[s][i] # id
      /\ id \in Nat
  BY <1>1 DEF Inv, Threads, Thread, Kinds
<1> DEFINE l == Len(queue[s])
<1>4. /\ DOMAIN queue[s] = 1..l /\ l \in Nat /\ DOMAIN queue'[s] = 1..(l + 1)
      /\ queue'[s][l + 1] = id /\ \A i \in 1..l : queue'[s][i] = queue[s][i]
  <2>1. queue[s] \in Seq(Nat) BY DEF Kinds
  <2> QED BY <1>1, <1>3, <2>1
<1> HIDE DEF id, l
<1>5. \A i \in 1..(l + 1) : i \in 1..l \/ i = l + 1 BY <1>4
<1> USE <1>1 DEF flags, sockets, clients
<1>11. Threads'
  <2>1. Thread(s)' BY DEF Thread, Reading
  <2>2. ASSUME NEW r \in Servers \ {s} PROVE Thread(r)'
    BY <1>2 DEF Inv, Threads, Thread, Reading, Ids, RequestsOf
  <2> QED BY <2>1, <2>2 DEF Threads
<1>12. Entries'
  <2>1. ASSUME NEW i \in DOMAIN table PROVE Recorded(i)'
    <3>1. Recorded(i) /\ table[i].server \in Servers BY DEF Inv, Entries, Kinds
    <3>2. CASE table[i].server = s
      <4>1. InLine(s, i) => InLine(s, i)' BY <1>4 DEF InLine
      <4>2. hand[s].id = i => InLine(s, i)' BY <1>4 DEF InLine, id
      <4> QED BY <3>1, <3>2, <4>1, <4>2 DEF Recorded
    <3>3. CASE table[i].server # s BY <3>1, <3>3, <1>2 DEF Recorded, InLine
    <3> QED BY <3>2, <3>3
  <2> QED BY <2>1 DEF Entries
<1>13. Queues'
  <2>1. ASSUME NEW r \in Servers, NEW i \in DOMAIN queue'[r]
        PROVE  /\ queue'[r][i] \in RequestsOf(r) \ handed
               /\ \A j \in DOMAIN queue'[r] : queue'[r][i] = queue'[r][j] => i = j
    <3>1. CASE r # s BY <2>1, <3>1, <1>2 DEF Inv, Queues
    <3>2. CASE r = s BY <2>1, <3>2, <1>3, <1>4, <1>5 DEF Inv, Queues
    <3> QED BY <3>1, <3>2
  <2> QED BY <2>1 DEF Queues, RequestsOf
<1>14. Held'
  <2>1. \A r \in Servers : Reading(r) => Reading(r)' BY <1>2 DEF Reading
  <2> QED BY <2>1 DEF Inv, Held
<1> QED BY <1>0, <1>11, <1>12, <1>13, <1>14, ThreadCalls, Kept DEF Inv

\* the thread forgets the request; at most it wakes the VM
LEMMA InvNotify ==
  ASSUME Kinds, Inv, NEW s \in Servers, Notify(s)
  PROVE  Inv'
<1>0. AcceptThread(s) BY DEF AcceptThread
<1>1. /\ UNCHANGED <<flags, queue, table, seed, sockets, clients, got, origin, handed>>
      /\ apc[s] = "notify" /\ apc'[s] = "check"
  BY DEF Notify, Kinds
<1>2. \A r \in Servers \ {s} : apc'[r] = apc[r] /\ hand'[r] = hand[r] BY <1>0, ThreadStep
<1>3. vm' = vm \/ (vm.at = "asleep" /\ vm'.at = "next" /\ vm'.on = vm.on) BY <1>0, ThreadStep
<1>4. Live' = Live /\ \A r : ShutDown(r)' = ShutDown(r) /\ Unlistening(r)' = Unlistening(r)
  BY <1>0, ThreadCalls
<1>5. \A r \in Servers : Reading(r)' => Reading(r) BY <1>1, <1>2 DEF Reading
<1>6. \A r \in Servers : Reading(r) => Reading(r)' /\ hand'[r] = hand[r]
  BY <1>1, <1>2 DEF Reading
<1> USE <1>1 DEF flags, sockets, clients
<1>10. Listens' BY <1>3, <1>4, ListensOn DEF Inv
<1>11. Connections' BY <1>4 DEF Inv, Connections
<1>12. Threads'
  <2>1. Thread(s)' BY DEF Thread, Reading
  <2>2. ASSUME NEW r \in Servers \ {s} PROVE Thread(r)'
    BY <1>2 DEF Inv, Threads, Thread, Reading, Ids, RequestsOf
  <2> QED BY <2>1, <2>2 DEF Threads
<1>13. Entries'
  <2>1. ASSUME NEW i \in DOMAIN table PROVE Recorded(i)'
    <3>1. Recorded(i) /\ table[i].server \in Servers BY DEF Inv, Entries, Kinds
    <3> QED BY <3>1, <1>2 DEF Recorded, InLine
  <2> QED BY <2>1 DEF Entries
<1>14. Sends' BY <1>3 DEF Inv, Sends, InSend
<1>15. Held' BY <1>3, <1>6 DEF Inv, Held, InSend
<1> QED BY <1>0, <1>10, <1>11, <1>12, <1>13, <1>14, <1>15, ThreadCalls, Kept DEF Inv

-----------------------------------------------------------------------------
(* The VM thread *)

\* A call that moves on and touches no socket keeps the rest of the invariant.
LEMMA CallMoves ==
  ASSUME Kinds, Inv, Calls', Live' = Live,
         UNCHANGED <<queue, listenFd, table, seed, apc, hand, sockets, to, got, origin, handed>>,
         vm.at \notin InSend \cup {"shut"}, vm'.at \notin InSend \cup {"shut"},
         vm'.on = vm.on \/ (vm.at \notin {"join", "sweep"} /\ vm'.at \notin {"join", "sweep"}),
         (vm'.at \in {"join", "sweep"}) <=> (vm.at \in {"join", "sweep"})
  PROVE  Inv'
<1> USE DEF sockets
<1>1. \A r : /\ ShutDown(r)' <=> ShutDown(r)
             /\ Unlistening(r)' <=> Unlistening(r)
  BY DEF ShutDown, Unlistening
<1>2. Listens' BY <1>1, ListensOn DEF Inv
<1>3. Connections' BY <1>1 DEF Inv, Connections
<1>4. Sends' BY DEF Inv, Sends, InSend
<1>5. Held' BY DEF Inv, Held, Reading
<1> QED BY <1>2, <1>3, <1>4, <1>5, Kept DEF Inv

LEMMA InvGoesOn ==
  ASSUME Kinds, Inv,
         \/ OpenRegisters \/ NextSleeps \/ SpuriousWakeup \/ CloseJoins
         \/ \E s \in Servers : NextCalled(s) \/ CloseStops(s)
  PROVE  Inv'
<1>1. UNCHANGED <<queue, listenFd, opened, table, seed, apc, hand, sockets, to, got, origin, handed>>
  BY DEF OpenRegisters, NextSleeps, SpuriousWakeup, CloseJoins, NextCalled, CloseStops, flags, clients,
         sockets
<1>2. Calls BY DEF Inv
<1>3. CASE OpenRegisters
  <2>1. /\ vm.at = "open" /\ vm'.at = "idle" /\ vm.on \in opened \ servers
        /\ servers' = servers \cup {vm.on}
    BY <1>2, <1>3 DEF OpenRegisters, Idle, Calls
  <2>2. Live' = Live BY <2>1 DEF Live
  <2>3. Calls' BY <1>1, <1>2, <2>1, <2>2 DEF Calls, InServer
  <2> QED BY <1>1, <2>1, <2>2, <2>3, CallMoves DEF InSend
<1>4. CASE NextSleeps \/ SpuriousWakeup \/ CloseJoins
  <2>1. vm' \in {[vm EXCEPT !.at = "asleep"], [vm EXCEPT !.at = "next"], [vm EXCEPT !.at = "sweep"]}
    BY <1>4 DEF NextSleeps, SpuriousWakeup, CloseJoins
  <2>2. UNCHANGED servers BY <1>4 DEF NextSleeps, SpuriousWakeup, CloseJoins, flags
  <2>3. vm'.on = vm.on BY <2>1 DEF Kinds
  <2>4. \/ vm.at = "next" /\ vm'.at = "asleep"
        \/ vm.at = "asleep" /\ vm'.at = "next"
        \/ vm.at = "join" /\ vm'.at = "sweep" /\ apc[vm.on] = "ended"
    <3>1. CASE NextSleeps
      <4>1. vm.at = "next" /\ vm' = [vm EXCEPT !.at = "asleep"] BY <3>1 DEF NextSleeps
      <4>2. vm'.at = "asleep" BY <4>1 DEF Kinds
      <4> QED BY <4>1, <4>2
    <3>2. CASE SpuriousWakeup BY <3>2 DEF SpuriousWakeup, Kinds
    <3>3. CASE CloseJoins BY <3>3 DEF CloseJoins, Kinds
    <3> QED BY <1>4, <3>1, <3>2, <3>3
  <2>5. Live' = Live BY <2>2, <2>4 DEF Live
  <2>6. Calls' BY <1>1, <1>2, <2>2, <2>3, <2>4, <2>5 DEF Calls, InServer
  <2> QED BY <1>1, <2>3, <2>4, <2>5, <2>6, CallMoves DEF InSend
<1>5. ASSUME NEW s \in Servers, NextCalled(s) \/ CloseStops(s) PROVE Inv'
  <2>1. /\ s \in servers /\ vm.at = "idle" /\ vm'.at \in {"next", "stop"} /\ vm'.on = s
        /\ UNCHANGED servers
    BY <1>5 DEF NextCalled, CloseStops, Calling, flags
  <2>2. Live' = Live BY <2>1 DEF Live
  <2>3. Calls' BY <1>1, <1>2, <2>1, <2>2 DEF Calls, InServer
  <2> QED BY <1>1, <2>1, <2>2, <2>3, CallMoves DEF InSend
<1> QED BY <1>3, <1>4, <1>5

\* the oldest request of the line is handed out; the table keeps it
LEMMA InvNextReturns ==
  ASSUME Kinds, Inv, NextReturns
  PROVE  Inv'
<1>1. /\ UNCHANGED <<flags, table, seed, apc, hand, sockets, clients, got, origin>>
      /\ vm.at = "next" /\ vm' = Idle
  BY DEF NextReturns
<1>2. Calls BY DEF Inv
<1>3. Live' = Live /\ vm'.at = "idle" BY <1>1 DEF Live, Idle, flags
<1>4. Calls' BY <1>1, <1>2, <1>3 DEF Calls, InServer, flags
<1>5. CASE queue[vm.on] = <<>>
  <2>1. UNCHANGED <<queue, handed>> BY <1>5 DEF NextReturns
  <2> QED BY <1>1, <1>3, <1>4, <2>1, CallMoves DEF InSend, flags, clients
<1>6. CASE queue[vm.on] # <<>>
  <2>1. PICK s \in Servers : s = vm.on BY <1>1, <1>2 DEF Calls, InServer, Kinds
  <2>2. queue[s] \in Seq(Nat) /\ queue[s] # <<>> BY <1>6, <2>1 DEF Kinds
  <2>3. PICK id : id = Head(queue[s]) OBVIOUS
  <2>4. PICK l \in Nat : l = Len(queue[s]) BY <2>2
  <2>5. /\ DOMAIN queue[s] = 1..l /\ l >= 1 /\ id = queue[s][1]
        /\ queue' = [queue EXCEPT ![s] = Tail(queue[s])] /\ handed' = handed \cup {id}
    BY <1>6, <2>1, <2>2, <2>3, <2>4 DEF NextReturns
  <2>6. /\ DOMAIN queue'[s] = 1..(l - 1) /\ \A i \in 1..(l - 1) : queue'[s][i] = queue[s][i + 1]
        /\ \A r \in Servers \ {s} : queue'[r] = queue[r]
    BY <2>2, <2>4, <2>5 DEF Kinds
  <2>7. \A i \in 1..(l - 1) : i + 1 \in 1..l /\ i + 1 # 1 BY <2>4
  <2>8. /\ id \in RequestsOf(s) \ handed /\ id \in Ids
        /\ \A i \in 2..l : queue[s][i] # id /\ i # 1 /\ i \in 1..l
    <3>1. 1 \in 1..l /\ \A i \in 2..l : i # 1 /\ i \in 1..l BY <2>4, <2>5
    <3>2. id \in RequestsOf(s) \ handed BY <2>5, <3>1 DEF Inv, Queues
    <3>3. id \in Ids BY <3>2 DEF RequestsOf, Kinds
    <3>4. \A i \in 2..l : queue[s][i] # id BY <2>5, <3>1 DEF Inv, Queues
    <3> QED BY <3>1, <3>2, <3>3, <3>4
  <2>9. \A r \in Servers \ {s} : id \notin RequestsOf(r) BY <2>8 DEF RequestsOf
  <2> USE <1>1 DEF flags, sockets, clients
  <2>11. Listens'
    <3>1. \A r : ShutDown(r)' <=> ShutDown(r) BY <1>3 DEF ShutDown
    <3> QED BY <1>3, <3>1, ListensOn DEF Inv
  <2>12. Connections' BY <1>3 DEF Inv, Connections, Unlistening
  <2>13. Threads'
    <3>1. ASSUME NEW r \in Servers PROVE Thread(r)'
      <4>1. Thread(r) BY DEF Inv, Threads
      <4>2. apc[r] = "register" => hand[r].id \notin handed' BY <4>1, <2>5, <2>8 DEF Thread, RequestsOf
      <4>3. CASE r = s
        <5>1. apc[s] = "queue" => hand[s].id # id BY <4>1, <4>3, <2>5, <2>4 DEF Thread
        <5>2. \A i \in DOMAIN queue'[s] : \E j \in DOMAIN queue[s] : queue'[s][i] = queue[s][j]
          BY <2>5, <2>6, <2>7
        <5> QED BY <4>1, <4>2, <4>3, <5>1, <5>2, <2>5 DEF Thread, Reading, Ids, RequestsOf
      <4>4. CASE r # s BY <4>1, <4>2, <4>4, <2>5, <2>6, <2>9 DEF Thread, Reading, Ids, RequestsOf
      <4> QED BY <4>3, <4>4
    <3> QED BY <3>1 DEF Threads
  <2>14. Entries'
    <3>1. ASSUME NEW i \in DOMAIN table PROVE Recorded(i)'
      <4>1. Recorded(i) /\ table[i].server \in Servers BY DEF Inv, Entries, Kinds
      <4>2. InLine(s, i) => InLine(s, i)' \/ i = id
        <5>1. ASSUME NEW j \in 1..l, j # 1, queue[s][j] = i PROVE InLine(s, i)'
          <6>1. j - 1 \in 1..(l - 1) /\ (j - 1) + 1 = j BY <5>1, <2>4
          <6> QED BY <5>1, <6>1, <2>6 DEF InLine
        <5> QED BY <5>1, <2>5 DEF InLine
      <4> QED BY <4>1, <4>2, <2>5, <2>6 DEF Recorded, InLine
    <3> QED BY <3>1 DEF Entries
  <2>15. Queues'
    <3>1. ASSUME NEW r \in Servers, NEW i \in DOMAIN queue'[r]
          PROVE  /\ queue'[r][i] \in RequestsOf(r) \ handed'
                 /\ \A j \in DOMAIN queue'[r] : queue'[r][i] = queue'[r][j] => i = j
      <4>1. CASE r # s BY <3>1, <4>1, <2>5, <2>6, <2>9 DEF Inv, Queues
      <4>2. CASE r = s
        <5>1. /\ queue'[s][i] = queue[s][i + 1] /\ i + 1 \in 1..l /\ i + 1 \in 2..l /\ i \in Nat
              /\ \A j \in DOMAIN queue'[s] : queue'[s][j] = queue[s][j + 1] /\ j + 1 \in 1..l /\ j \in Nat
          BY <3>1, <4>2, <2>4, <2>6
        <5>2. queue[s][i + 1] \in RequestsOf(s) \ handed' BY <5>1, <2>5, <2>8 DEF Inv, Queues
        <5>3. \A j \in DOMAIN queue'[s] : queue[s][i + 1] = queue[s][j + 1] => i + 1 = j + 1
          BY <5>1, <2>5 DEF Inv, Queues
        <5>4. \A j \in DOMAIN queue'[s] : i + 1 = j + 1 => i = j BY <5>1
        <5> QED BY <4>2, <5>1, <5>2, <5>3, <5>4
      <4> QED BY <4>1, <4>2
    <3> QED BY <3>1 DEF Queues, RequestsOf
  <2>16. Sends' BY <1>3 DEF Inv, Sends, InSend
  <2>17. Held' BY <1>3 DEF Inv, Held, InSend, Reading
  <2> QED BY <1>4, <2>11, <2>12, <2>13, <2>14, <2>15, <2>16, <2>17, Kept DEF Inv
<1> QED BY <1>5, <1>6

\* the request leaves the table; its connection is the call's to close
LEMMA InvSend ==
  ASSUME Kinds, Inv, NEW id \in handed, Send(id)
  PROVE  Inv'
<1>1. /\ UNCHANGED <<flags, queue, seed, apc, hand, sockets, clients, got, origin, handed>>
      /\ vm.at = "idle" /\ id \in DOMAIN table
      /\ vm'.at = "send" /\ vm'.on = id /\ vm'.fd = table[id].fd
  BY DEF Send, Calling
<1>2. /\ DOMAIN table' = DOMAIN table \ {id} /\ \A i \in DOMAIN table' : table'[i] = table[i]
  BY DEF Send, Restrict
<1>3. Live' = Live /\ \A r : (ShutDown(r)' <=> ShutDown(r)) /\ (Unlistening(r)' <=> Unlistening(r))
  BY <1>1 DEF Live, ShutDown, Unlistening, flags
<1>4. \A r \in Servers : RequestsOf(r) \ handed \subseteq RequestsOf(r)' /\ RequestsOf(r)' \subseteq RequestsOf(r)
  BY <1>2 DEF RequestsOf
<1> USE <1>1 DEF flags, sockets, clients
<1>10. Calls' BY <1>3 DEF Inv, Calls, InServer
<1>11. Listens' BY <1>3, ListensOn DEF Inv
<1>12. Connections' BY <1>3 DEF Inv, Connections
<1>13. Threads'
  <2>1. ASSUME NEW r \in Servers PROVE Thread(r)'
    <3>1. Thread(r) BY DEF Inv, Threads
    <3>2. apc[r] = "queue" => hand[r].id \in RequestsOf(r)' \ handed BY <3>1, <1>4 DEF Thread
    <3> QED BY <3>1, <3>2, <1>2 DEF Thread, Reading, Ids
  <2> QED BY <2>1 DEF Threads
<1>14. Entries'
  <2>1. ASSUME NEW i \in DOMAIN table' PROVE Recorded(i)'
    BY <1>2 DEF Inv, Entries, Recorded, InLine
  <2> QED BY <2>1 DEF Entries
<1>15. Queues' BY <1>4 DEF Inv, Queues
<1>16. Sends'
  <2>1. Recorded(id) /\ table[id].fd \in Fds BY DEF Inv, Entries, Kinds
  <2> QED BY <2>1, <1>2 DEF Inv, Sends, Recorded
<1>17. Held'
  <2>1. ASSUME NEW m \in Fds, NEW i \in DOMAIN table, table[i].fd = m
        PROVE  (\E j \in DOMAIN table' : table'[j].fd = m) \/ vm'.fd = m
    BY <2>1, <1>2
  <2> QED BY <2>1 DEF Inv, Held, Reading, InSend
<1> QED BY <1>10, <1>11, <1>12, <1>13, <1>14, <1>15, <1>16, <1>17, Kept DEF Inv

\* the response goes to the client the request was read from
LEMMA InvSendResponds ==
  ASSUME Kinds, Inv, SendResponds
  PROVE  Inv'
<1>1. /\ UNCHANGED <<flags, queue, table, seed, apc, hand, sockets, clients, origin, handed>>
      /\ vm.at = "send" /\ vm'.at = "sent" /\ vm'.on = vm.on /\ vm'.fd = vm.fd
  BY DEF SendResponds, Kinds
<1> DEFINE c == origin[vm.on]
<1>2. /\ vm.on \in handed \ DOMAIN table /\ vm.fd \in Fds /\ fds[vm.fd] = Conn(c) /\ c \in Clients
  BY <1>1 DEF Inv, Sends, InSend, Kinds
<1>3. got[c] = <<>>
  <2>1. conn[c] = "accepted" BY <1>2 DEF Inv, Connections
  <2> QED BY <1>1, <1>2, <2>1 DEF Inv, Sends
<1>4. \A d \in Clients : d # c => d \notin ConnOf(vm.fd) BY <1>2, Sockets DEF ConnOf
<1>5. got'[c] \in {<<>>, <<c>>} /\ \A d \in Clients : d # c => got'[d] = got[d]
  <2>1. got'[c] = got[c] \/ got'[c] = Append(<<>>, c) BY <1>2, <1>3 DEF SendResponds
  <2>2. Append(<<>>, c) = <<c>> OBVIOUS
  <2>3. \A d \in Clients : d # c => got'[d] = got[d] BY <1>4 DEF SendResponds
  <2> QED BY <1>3, <2>1, <2>2, <2>3
<1> HIDE DEF c
<1>6. Live' = Live BY <1>1 DEF Live, flags
<1> USE <1>1 DEF flags, sockets, clients
<1>10. Calls' BY <1>6 DEF Inv, Calls, InServer
<1>11. Listens'
  <2>1. \A r : ShutDown(r)' <=> ShutDown(r) BY DEF ShutDown
  <2> QED BY <1>6, <2>1, ListensOn DEF Inv
<1>12. Connections' BY <1>6 DEF Inv, Connections, Unlistening
<1>13. Sends' BY <1>2, <1>5 DEF Inv, Sends, InSend, c
<1>14. Held' BY DEF Inv, Held, InSend, Reading
<1>15. OwnResponse' BY <1>5 DEF Inv, OwnResponse
<1> QED BY <1>10, <1>11, <1>12, <1>13, <1>14, <1>15, Kept DEF Inv

\* the answered client's connection is closed; nobody else holds it
LEMMA InvSendCloses ==
  ASSUME Kinds, Inv, SendCloses
  PROVE  Inv'
<1> DEFINE n == vm.fd
           c == origin[vm.on]
<1>1. /\ UNCHANGED <<flags, queue, table, seed, apc, hand, clients, got, origin, handed>>
      /\ vm.at = "sent" /\ vm' = Idle /\ vm'.at = "idle" /\ Closing({n})
  BY DEF SendCloses, Idle
<1>2. /\ vm.on \in handed \ DOMAIN table /\ n \in Fds /\ fds[n] = Conn(c) /\ c \in Clients
      /\ vm.on \in Ids
  BY <1>1 DEF Inv, Sends, InSend, Kinds
<1>3. /\ \A m \in Fds, r \in Servers :
           /\ (fds'[m] = Listening(r)) <=> (fds[m] = Listening(r))
           /\ (fds'[m] = Down(r)) <=> (fds[m] = Down(r))
      /\ \A m \in Fds, d \in Clients : (fds'[m] = Conn(d)) <=> (m # n /\ fds[m] = Conn(d))
      /\ \A d \in Clients :
           /\ (conn'[d] = "accepted") <=> (\E m \in Fds : fds'[m] = Conn(d))
           /\ conn'[d] # "closed" => conn'[d] = conn[d]
           /\ conn'[d] = conn[d] \/ (conn[d] = "accepted" /\ conn'[d] = "closed")
           /\ conn[d] = "closed" => conn'[d] = "closed"
      /\ conn'[c] = "closed"
  <2>1. {n} \in SUBSET Fds BY <1>2
  <2>2. \A m \in {n} : \E d \in Clients : fds[m] = Conn(d) BY <1>2
  <2>3. Connections BY DEF Inv
  <2> QED BY <1>1, <1>2, <2>1, <2>2, <2>3, ClosingSockets
<1>4. \A i \in Ids : origin[i] = c => i = vm.on BY <1>2 DEF Inv, Names
<1>5. \A m \in Fds, d \in Clients : fds[m] = Conn(d) /\ d # c => fds'[m] = Conn(d)
  BY <1>2, <1>3, Sockets
<1>6. Live' = Live BY <1>1 DEF Live, flags
<1> HIDE DEF n, c
<1> USE <1>1 DEF flags, clients
<1>10. Calls' BY <1>6 DEF Inv, Calls, InServer
<1>11. Listens'
  <2>1. \A r : ShutDown(r)' <=> ShutDown(r) BY DEF ShutDown
  <2> QED BY <1>3, <1>6, <2>1, ListensOn DEF Inv
<1>12. Connections' BY <1>3, <1>6 DEF Inv, Connections, Unlistening
<1>13. Names' BY <1>3 DEF Inv, Names, Ids, Kinds
<1>14. Threads'
  <2>1. ASSUME NEW r \in Servers PROVE Thread(r)'
    <3>1. Thread(r) BY DEF Inv, Threads
    <3>2. CASE Reading(r)
      <4>1. PICK d \in Clients : fds[hand[r].fd] = Conn(d) /\ to[d] = r /\ hand[r].fd \in Fds
        BY <3>1, <3>2 DEF Thread
      <4>2. CASE apc[r] = "register"
        <5>1. hand[r].id \in Ids \ handed /\ d = origin[hand[r].id]
          BY <3>1, <4>1, <4>2, Sockets DEF Thread
        <5>2. d # c BY <5>1, <1>2, <1>4
        <5> QED BY <3>1, <4>1, <5>2, <1>5 DEF Thread, Reading, Ids, RequestsOf
      <4>3. CASE apc[r] # "register"
        <5>1. apc[r] \in {"recv", "name"} BY <3>2, <4>3 DEF Reading
        <5>2. d # c BY <3>1, <5>1, <4>1, <1>2 DEF Thread, c
        <5> QED BY <3>1, <4>1, <5>1, <5>2, <1>5 DEF Thread, Reading, Ids, RequestsOf
      <4> QED BY <4>2, <4>3
    <3>3. CASE ~Reading(r) BY <3>1, <3>3 DEF Thread, Reading, Ids, RequestsOf
    <3> QED BY <3>2, <3>3
  <2> QED BY <2>1 DEF Threads
<1>15. Entries'
  <2>1. ASSUME NEW id \in DOMAIN table PROVE Recorded(id)'
    <3>1. /\ Recorded(id) /\ table[id].fd \in Fds /\ origin[id] \in Clients /\ id \in Ids /\ id # vm.on
      BY <1>2 DEF Inv, Entries, Kinds
    <3>2. fds'[table[id].fd] = Conn(origin[id]) BY <3>1, <1>4, <1>5 DEF Recorded
    <3> QED BY <3>1, <3>2 DEF Recorded, InLine
  <2> QED BY <2>1 DEF Entries
<1>16. Sends' BY <1>3 DEF Inv, Sends, InSend, c
<1>17. Held'
  <2>1. \A m \in Fds, d \in Clients : fds'[m] = Conn(d) => fds[m] = Conn(d) /\ m # vm.fd BY <1>3 DEF n
  <2> QED BY <2>1 DEF Inv, Held, Reading
<1> QED BY <1>10, <1>11, <1>12, <1>13, <1>14, <1>15, <1>16, <1>17, Kept DEF Inv

\* What happens to listening sockets changes nothing about requests.
LEMMA RequestsGoOn ==
  ASSUME Kinds, Inv, UNCHANGED <<hand, to, seed, origin, table, handed, queue, got>>,
         vm.at \notin InSend, vm'.at \notin InSend,
         \A r \in Servers : apc'[r] = apc[r] \/ (apc[r] = "none" /\ apc'[r] = "check"),
         \A m \in Fds, d \in Clients : (fds'[m] = Conn(d)) <=> (fds[m] = Conn(d)),
         \A d \in Clients : conn[d] = "closed" => conn'[d] = "closed"
  PROVE  Threads' /\ Entries' /\ Queues' /\ Sends' /\ Held' /\ OwnResponse'
<1>1. Threads'
  <2>1. ASSUME NEW r \in Servers PROVE Thread(r)'
    <3>1. Thread(r) BY DEF Inv, Threads
    <3>2. Ids \subseteq DOMAIN origin /\ \A i \in Ids : origin[i] \in Clients BY DEF Kinds
    <3>3. CASE Reading(r) BY <3>1, <3>2, <3>3 DEF Thread, Reading, Ids, RequestsOf
    <3>4. CASE ~Reading(r) BY <3>1, <3>4 DEF Thread, Reading, Ids, RequestsOf
    <3> QED BY <3>3, <3>4
  <2> QED BY <2>1 DEF Threads
<1>2. Entries'
  <2>1. ASSUME NEW id \in DOMAIN table PROVE Recorded(id)'
    <3>1. /\ Recorded(id) /\ table[id].fd \in Fds /\ origin[id] \in Clients
          /\ table[id].server \in Servers
      BY DEF Inv, Entries, Kinds
    <3> QED BY <3>1 DEF Recorded, InLine
  <2> QED BY <2>1 DEF Entries
<1>3. Sends' BY DEF Inv, Sends, InSend
<1>4. Held'
  <2>1. \A r \in Servers : Reading(r) => Reading(r)' BY DEF Reading
  <2> QED BY <2>1 DEF Inv, Held
<1> QED BY <1>1, <1>2, <1>3, <1>4, Kept DEF Inv

\* a new server listens on a descriptor nobody has, and has a thread before the table has it
LEMMA InvOpen ==
  ASSUME Kinds, Inv, NEW s \in Servers, Open(s)
  PROVE  Inv'
<1>1. PICK n \in Fds :
        fds[n] = Free /\ fds' = [fds EXCEPT ![n] = Listening(s)] /\ listenFd' = [listenFd EXCEPT ![s] = n]
  BY DEF Open, IsNext, FreeFds
<1>2. /\ UNCHANGED <<servers, queue, table, seed, hand, conn, clients, got, origin, handed>>
      /\ vm.at = "idle" /\ vm'.at = "open" /\ vm'.on = s /\ vm'.fd = 0
      /\ s \notin opened /\ opened' = opened \cup {s} /\ apc' = [apc EXCEPT ![s] = "check"]
  BY DEF Open, Calling
<1>3. /\ fds'[n] = Listening(s) /\ \A m \in Fds \ {n} : fds'[m] = fds[m]
      /\ listenFd'[s] = n /\ \A r \in Servers \ {s} : listenFd'[r] = listenFd[r]
      /\ apc'[s] = "check" /\ \A r \in Servers \ {s} : apc'[r] = apc[r]
  BY <1>1, <1>2 DEF Kinds
<1>4. Live = servers /\ Live' = servers \cup {s} BY <1>2 DEF Live
<1>5. servers \subseteq opened /\ opened \subseteq Servers BY DEF Kinds
<1>6. apc[s] = "none" BY <1>2 DEF Inv, Calls
<1> USE <1>2 DEF clients
<1>10. Calls'
  <2>1. \A r \in Servers : (apc'[r] = "none") <=> (r \notin opened') BY <1>3 DEF Inv, Calls
  <2>2. \A r \in opened' \ Live' : apc'[r] = "ended" BY <1>3, <1>4, <1>5 DEF Inv, Calls
  <2> QED BY <1>5, <2>1, <2>2 DEF Calls, InServer
<1>11. Listens'
  <2>1. ASSUME NEW r \in Live' PROVE listenFd'[r] \in Fds /\ fds'[listenFd'[r]] = Listening(r)
    <3>1. CASE r = s BY <3>1, <1>3
    <3>2. CASE r # s
      <4>1. r \in Live /\ ~ShutDown(r) /\ r \in Servers BY <3>2, <1>4, <1>5 DEF ShutDown
      <4>2. listenFd[r] \in Fds /\ fds[listenFd[r]] = Listening(r) BY <4>1 DEF Inv, Listens
      <4> QED BY <3>2, <4>1, <4>2, <1>1, <1>3, Sockets
    <3> QED BY <3>1, <3>2
  <2>2. ASSUME NEW m \in Fds, NEW r \in Servers
        PROVE  /\ fds'[m] = Listening(r) => r \in Live'
               /\ fds'[m] # Down(r)
               /\ fds'[m] = Listening(r) => m = listenFd'[r]
    <3>1. CASE m = n BY <3>1, <1>3, <1>4, Sockets
    <3>2. CASE m # n
      <4>1. fds'[m] = fds[m] BY <3>2, <1>3
      <4>2. fds[m] = Listening(r) => r # s BY <1>4, <1>5 DEF Inv, Listens
      <4> QED BY <4>1, <4>2, <1>3, <1>4 DEF Inv, Listens
    <3> QED BY <3>1, <3>2
  <2> QED BY <2>1, <2>2 DEF Listens, ShutDown
<1>12. \A m \in Fds, d \in Clients : (fds'[m] = Conn(d)) <=> (fds[m] = Conn(d))
  BY <1>1, <1>3, Sockets
<1>13. Connections' BY <1>4, <1>12 DEF Inv, Connections, Unlistening
<1>14. Threads' /\ Entries' /\ Queues' /\ Sends' /\ Held' /\ OwnResponse'
  <2>1. \A r \in Servers : apc'[r] = apc[r] \/ (apc[r] = "none" /\ apc'[r] = "check") BY <1>3, <1>6
  <2> QED BY <1>12, <2>1, RequestsGoOn DEF InSend
<1> QED BY <1>10, <1>11, <1>13, <1>14, Kept DEF Inv

\* the listening socket is shut down, and then closed with what waits in its backlog
LEMMA InvCloseListening ==
  ASSUME Kinds, Inv, CloseShutsDown \/ CloseListener
  PROVE  Inv'
<1>1. /\ UNCHANGED <<flags, queue, table, seed, apc, hand, clients, got, origin, handed>>
      /\ vm'.on = vm.on
      /\ \/ vm.at = "stop" /\ vm'.at = "shut" /\ UNCHANGED conn
         \/ vm.at = "shut" /\ vm'.at = "join"
  BY DEF CloseShutsDown, CloseListener, Kinds
<1>2. PICK s \in Servers : s = vm.on /\ s \in servers BY <1>1 DEF Inv, Calls, InServer, Kinds
<1>3. Live' = Live /\ s \in Live BY <1>1, <1>2 DEF Live, flags
<1>4. PICK n \in Fds : n = listenFd[s] /\ fds[n] \in {Listening(s), Down(s)}
  BY <1>1, <1>2, <1>3 DEF Inv, Listens, ShutDown
<1>5. /\ \A m \in Fds \ {n} : fds'[m] = fds[m]
      /\ vm.at = "stop" => fds'[n] = Down(s)
      /\ vm.at = "shut" => fds'[n] = Free
  BY <1>2, <1>4 DEF CloseShutsDown, CloseListener, Kinds
<1> USE <1>1 DEF flags, clients
<1>10. Calls' BY <1>3 DEF Inv, Calls, InServer
<1>11. Listens'
  <2>1. \A r \in Live : ~ShutDown(r)' => r # s /\ ~ShutDown(r) /\ r \in Servers
    BY <1>2 DEF ShutDown, Live, Kinds
  <2>2. \A r \in Live : ~ShutDown(r)' => listenFd[r] \in Fds /\ fds'[listenFd[r]] = Listening(r)
    BY <2>1, <1>4, <1>5, Sockets DEF Inv, Listens
  <2>3. vm'.at = "shut" => listenFd[s] \in Fds /\ fds'[listenFd[s]] = Down(s) BY <1>4, <1>5
  <2>4. ASSUME NEW m \in Fds, NEW r \in Servers
        PROVE  /\ fds'[m] = Listening(r) => r \in Live /\ ~ShutDown(r)'
               /\ fds'[m] = Down(r) => vm'.at = "shut" /\ r = s
               /\ fds'[m] \in {Listening(r), Down(r)} => m = listenFd[r]
    <3>1. CASE m = n BY <3>1, <1>4, <1>5, Sockets
    <3>2. CASE m # n
      <4>1. fds'[m] = fds[m] BY <3>2, <1>5
      <4>2. fds[m] # Listening(s) /\ fds[m] # Down(s) BY <3>2, <1>4 DEF Inv, Listens
      <4>3. fds[m] # Down(r) BY <4>2, <1>2 DEF Inv, Listens
      <4>4. fds[m] = Listening(r) => r # s BY <4>2
      <4> QED BY <4>1, <4>3, <4>4, <1>2 DEF Inv, Listens, ShutDown
    <3> QED BY <3>1, <3>2
  <2> QED BY <2>2, <2>3, <2>4, <1>2, <1>3 DEF Listens
<1>12. \A m \in Fds, d \in Clients : (fds'[m] = Conn(d)) <=> (fds[m] = Conn(d))
  BY <1>4, <1>5, Sockets
<1>13. \A d \in Clients :
         \/ conn'[d] = conn[d] /\ (conn[d] = "backlog" /\ to[d] = s => vm'.at = "shut")
         \/ conn[d] = "backlog" /\ conn'[d] = "closed"
  <2>1. CASE vm.at = "stop" BY <1>1, <2>1
  <2>2. CASE vm.at = "shut"
    <3>1. conn' = [d \in Clients |-> IF conn[d] = "backlog" /\ to[d] = s THEN "closed" ELSE conn[d]]
      BY <1>1, <1>2, <2>2 DEF CloseShutsDown, CloseListener
    <3> QED BY <3>1
  <2> QED BY <1>1, <2>1, <2>2
<1>14. Connections' BY <1>2, <1>3, <1>12, <1>13 DEF Inv, Connections, Unlistening
<1>15. Names' BY <1>13 DEF Inv, Names, Ids, Kinds
<1>16. Threads' /\ Entries' /\ Queues' /\ Sends' /\ Held' /\ OwnResponse'
  BY <1>12, <1>13, RequestsGoOn DEF InSend
<1> QED BY <1>10, <1>11, <1>14, <1>15, <1>16 DEF Inv

\* When close sweeps, a connection is its server's exactly if a request the server left holds it.
LEMMA Swept ==
  ASSUME Kinds, Inv, vm.at = "sweep", NEW m \in Fds, NEW d \in Clients, fds[m] = Conn(d)
  PROVE  (\E id \in RequestsOf(vm.on) : table[id].fd = m /\ origin[id] = d) <=> to[d] = vm.on
<1>1. \A id \in DOMAIN table : table[id].fd = m => origin[id] = d /\ to[d] = table[id].server
  BY Sockets DEF Inv, Entries, Recorded, Kinds
<1>2. \A r \in Servers : Reading(r) /\ hand[r].fd = m => to[d] = r /\ r # vm.on
  BY Sockets DEF Inv, Threads, Thread, Reading, Calls
<1>3. \/ \E r \in Servers : Reading(r) /\ hand[r].fd = m
      \/ \E id \in DOMAIN table : table[id].fd = m
  BY DEF Inv, Held, InSend
<1> QED BY <1>1, <1>2, <1>3 DEF RequestsOf

\* the server goes with the requests it left: by now only the table holds its connections
LEMMA InvCloseSweeps ==
  ASSUME Kinds, Inv, CloseSweeps
  PROVE  Inv'
<1>1. /\ UNCHANGED <<running, listenFd, opened, seed, apc, hand, clients, got, origin, handed>>
      /\ vm.at = "sweep" /\ vm'.at = "idle" /\ apc[vm.on] = "ended"
  BY DEF CloseSweeps, Idle, Inv, Calls
<1>2. PICK s \in Servers : s = vm.on /\ s \in servers BY <1>1 DEF Inv, Calls, InServer, Kinds
<1>3. servers' = servers \ {s} /\ Live = servers /\ Live' = servers'
  BY <1>1, <1>2 DEF CloseSweeps, Live
<1>4. /\ DOMAIN table' = DOMAIN table \ RequestsOf(s) /\ \A i \in DOMAIN table' : table'[i] = table[i]
      /\ \A i \in DOMAIN table' : table[i].server # s
      /\ queue'[s] = <<>> /\ \A r \in Servers \ {s} : queue'[r] = queue[r]
  BY <1>1, <1>2 DEF CloseSweeps, Restrict, Kinds, RequestsOf
<1> DEFINE ns == {table[id].fd : id \in RequestsOf(s)}
<1>5. /\ \A m \in Fds, r \in Servers :
           /\ (fds'[m] = Listening(r)) <=> (fds[m] = Listening(r))
           /\ (fds'[m] = Down(r)) <=> (fds[m] = Down(r))
      /\ \A m \in Fds, d \in Clients : (fds'[m] = Conn(d)) <=> (m \notin ns /\ fds[m] = Conn(d))
      /\ \A d \in Clients :
           /\ (conn'[d] = "accepted") <=> (\E m \in Fds : fds'[m] = Conn(d))
           /\ conn'[d] # "closed" => conn'[d] = conn[d]
           /\ conn'[d] = conn[d] \/ (conn[d] = "accepted" /\ conn'[d] = "closed")
           /\ conn[d] = "closed" => conn'[d] = "closed"
  <2>1. ns \in SUBSET Fds BY DEF RequestsOf, Kinds
  <2>2. \A m \in ns : \E d \in Clients : fds[m] = Conn(d)
    BY DEF RequestsOf, Inv, Entries, Recorded, Kinds
  <2>3. Closing(ns) BY <1>2 DEF CloseSweeps
  <2>4. Connections BY DEF Inv
  <2> QED BY <2>1, <2>2, <2>3, <2>4, ClosingSockets
<1>6. ASSUME NEW m \in Fds, NEW d \in Clients, fds[m] = Conn(d)
      PROVE  m \in ns <=> to[d] = s
  <2>1. (\E id \in RequestsOf(s) : table[id].fd = m /\ origin[id] = d) <=> to[d] = s
    BY <1>1, <1>2, <1>6, Swept
  <2>2. \A id \in RequestsOf(s) : table[id].fd = m => origin[id] = d
    BY <1>6, Sockets DEF RequestsOf, Inv, Entries, Recorded
  <2> QED BY <2>1, <2>2
<1>7. \A m \in Fds, d \in Clients : fds[m] = Conn(d) /\ to[d] # s => fds'[m] = Conn(d)
  BY <1>5, <1>6
<1>8. \A m \in Fds, d \in Clients : fds'[m] = Conn(d) => fds[m] = Conn(d) /\ to[d] # s
  BY <1>5, <1>6
<1> HIDE DEF ns
<1> USE <1>1 DEF clients
<1>10. Calls' BY <1>2, <1>3 DEF Inv, Calls, InServer, Kinds
<1>11. Listens'
  <2>1. Live \subseteq Servers BY <1>3 DEF Kinds
  <2>2. \A r \in Live' : r # s /\ r \in Live /\ r \in Servers /\ ~ShutDown(r) BY <1>2, <1>3, <2>1 DEF ShutDown
  <2>3. \A r \in Live' : listenFd[r] \in Fds /\ fds'[listenFd[r]] = Listening(r)
    BY <2>2, <1>5 DEF Inv, Listens
  <2>4. \A m \in Fds, r \in Servers :
          /\ fds'[m] = Listening(r) => r \in Live' /\ m = listenFd[r]
          /\ fds'[m] # Down(r)
    BY <1>2, <1>3, <1>5 DEF Inv, Listens, ShutDown
  <2> QED BY <2>3, <2>4 DEF Listens, ShutDown
<1>12. Connections'
  <2>1. \A d \in Clients : conn'[d] = "backlog" => to[d] \in Live'
    BY <1>2, <1>3, <1>5 DEF Inv, Connections, Unlistening
  <2>2. \A d \in Clients : conn'[d] = "accepted" => to[d] \in Live'
    BY <1>3, <1>5, <1>8 DEF Inv, Connections
  <2> QED BY <2>1, <2>2, <1>5 DEF Inv, Connections, Unlistening
<1>13. Names'
  <2>1. UNCHANGED <<origin, Ids>> BY <1>1, <1>3 DEF Ids
  <2>2. \A i \in Ids : origin[i] \in Clients BY DEF Kinds, Ids
  <2>3. Names BY DEF Inv
  <2>4. \A i \in Ids : conn'[origin[i]] \in {"accepted", "closed"}
    <3>1. \A i \in Ids : conn[origin[i]] \in {"accepted", "closed"} BY <2>3 DEF Names
    <3> QED BY <3>1, <2>2, <1>5
  <2> QED BY <2>1, <2>3, <2>4 DEF Names
<1>14. Threads'
  <2>1. ASSUME NEW r \in Servers PROVE Thread(r)'
    <3>1. Thread(r) BY DEF Inv, Threads
    <3>2. r # s => RequestsOf(r) = RequestsOf(r)' BY <1>4 DEF RequestsOf
    <3>3. CASE Reading(r)
      <4>1. PICK d \in Clients : fds[hand[r].fd] = Conn(d) /\ to[d] = r /\ hand[r].fd \in Fds
        BY <3>1, <3>3 DEF Thread
      <4>2. r # s BY <1>2, <3>3 DEF Reading
      <4>3. fds'[hand[r].fd] = Conn(d) BY <1>7, <4>1, <4>2
      <4> QED BY <3>1, <3>3, <4>1, <4>3, <1>4 DEF Thread, Reading, Ids
    <3>4. CASE ~Reading(r)
      <4>1. apc[r] = "queue" => r # s BY <1>2
      <4> QED BY <3>1, <3>2, <3>4, <4>1, <1>4 DEF Thread, Reading, Ids
    <3> QED BY <3>3, <3>4
  <2> QED BY <2>1 DEF Threads
<1>15. Entries'
  <2>1. ASSUME NEW id \in DOMAIN table' PROVE Recorded(id)'
    <3>1. /\ Recorded(id) /\ table[id].fd \in Fds /\ origin[id] \in Clients
          /\ table[id].server \in Servers \ {s} /\ table'[id] = table[id]
      BY <1>4 DEF Inv, Entries, Kinds
    <3>2. fds'[table[id].fd] = Conn(origin[id]) BY <3>1, <1>7 DEF Recorded
    <3> QED BY <3>1, <3>2, <1>4 DEF Recorded, InLine
  <2> QED BY <2>1 DEF Entries
<1>16. Queues'
  <2>1. \A r \in Servers \ {s} : RequestsOf(r) = RequestsOf(r)' BY <1>4 DEF RequestsOf
  <2>2. DOMAIN queue'[s] = {} BY <1>4
  <2> QED BY <2>1, <2>2, <1>4 DEF Inv, Queues
<1>17. Sends' BY <1>5 DEF Inv, Sends, InSend
<1>18. Held'
  <2>1. ASSUME NEW m \in Fds, NEW d \in Clients, fds'[m] = Conn(d)
        PROVE  \/ \E r \in Servers : Reading(r) /\ hand[r].fd = m
               \/ \E id \in DOMAIN table' : table'[id].fd = m
    <3>1. fds[m] = Conn(d) /\ m \notin ns BY <2>1, <1>5
    <3>2. \A id \in DOMAIN table : table[id].fd = m => id \in DOMAIN table' /\ table'[id] = table[id]
      BY <3>1, <1>4 DEF ns
    <3> QED BY <3>1, <3>2 DEF Inv, Held, InSend
  <2> QED BY <2>1 DEF Held, Reading
<1> QED BY <1>10, <1>11, <1>12, <1>13, <1>14, <1>15, <1>16, <1>17, <1>18, Kept DEF Inv

-----------------------------------------------------------------------------
(* The clients, and the whole *)

LEMMA InvClient ==
  ASSUME Kinds, Inv, NEW c \in Clients, Client(c)
  PROVE  Inv'
<1>1. /\ UNCHANGED <<flags, queue, table, seed, apc, hand, vm, fds, to, got, origin, handed>>
      /\ \/ UNCHANGED conn
         \/ /\ conn[c] = "idle" /\ conn' = [conn EXCEPT ![c] = "backlog"]
            /\ \E n \in Fds : fds[n] = Listening(to[c])
  BY DEF Client, Connect, HangUp, Write, sockets, clients
<1> USE <1>1 DEF flags
<1>2. Connections' /\ Names' /\ Sends'
  <2>1. CASE UNCHANGED conn BY <2>1, Kept DEF Inv
  <2>2. CASE ~UNCHANGED conn
    <3>1. to[c] \in Live /\ ~ShutDown(to[c]) BY <2>2 DEF Inv, Listens, Kinds
    <3>2. Live' = Live BY DEF Live
    <3>3. conn'[c] = "backlog" /\ \A d \in Clients \ {c} : conn'[d] = conn[d] BY <2>2 DEF Kinds
    <3>4. Connections' BY <2>2, <3>1, <3>2, <3>3 DEF Inv, Connections, ShutDown, Unlistening
    <3>5. Names'
      <4>1. \A i \in Ids : origin[i] \in Clients \ {c} BY <2>2 DEF Inv, Names, Kinds
      <4> QED BY <3>3, <4>1 DEF Inv, Names, Ids
    <3>6. Sends' BY <2>2, <3>3 DEF Inv, Sends
    <3> QED BY <3>4, <3>5, <3>6
  <2> QED BY <2>1, <2>2
<1> QED BY <1>2, Kept DEF Inv

LEMMA InvStep == Kinds /\ Inv /\ [Next]_vars => Kinds' /\ Inv'
<1> SUFFICES ASSUME Kinds, Inv, [Next]_vars PROVE Kinds' /\ Inv' OBVIOUS
<1>1. CASE UNCHANGED vars
  <2>1. Kinds' BY <1>1 DEF vars, Kinds, Ids
  <2> QED BY <1>1, <2>1, Kept DEF Inv, vars
<1>2. ASSUME NEW s \in Servers, AcceptThread(s) PROVE Kinds' /\ Inv'
  <2>1. Kinds' BY <1>2, KindsAccept DEF Inv
  <2> QED
    BY <1>2, <2>1, InvTurn, InvAccept, InvReceiveFails, InvName, InvRegister, InvEnqueue, InvNotify
       DEF AcceptThread
<1>3. CASE VmThread \/ Call \/ SpuriousWakeup
  <2>1. Kinds' BY <1>3, KindsVm DEF Inv
  <2> QED
    BY <1>3, <2>1, InvGoesOn, InvNextReturns, InvSend, InvSendResponds, InvSendCloses, InvOpen,
       InvCloseListening, InvCloseSweeps
       DEF VmThread, Call
<1>4. ASSUME NEW c \in Clients, Client(c) PROVE Kinds' /\ Inv'
  BY <1>4, KindsClient, InvClient
<1> QED BY <1>1, <1>2, <1>3, <1>4 DEF Next

LEMMA InvHolds == Spec => [](Kinds /\ Inv)
BY KindsInit, InvInit, InvStep, PTL DEF Spec

-----------------------------------------------------------------------------
(* What follows for the program and its clients *)

\* Whoever holds a connection holds it alone.
LEMMA HoldersAlone ==
  ASSUME Kinds, Inv, NEW n \in Fds
  PROVE  /\ \A r, s \in HoldingThreads(n) : r = s
         /\ \A i, j \in HoldingEntries(n) : i = j
         /\ HoldingThreads(n) = {} \/ HoldingEntries(n) = {}
         /\ HoldingThreads(n) = {} \/ HoldingSends(n) = {}
         /\ HoldingEntries(n) = {} \/ HoldingSends(n) = {}
<1> USE DEF HoldingThreads, HoldingEntries, HoldingSends
<1>1. \A s \in HoldingThreads(n) : Reading(s) /\ Thread(s) /\ hand[s].fd = n /\ s \in Servers
  BY DEF Reading, Inv, Threads
<1>2. ASSUME NEW s \in HoldingThreads(n)
      PROVE  \E c \in Clients :
               /\ fds[n] = Conn(c) /\ to[c] = s
               /\ \A i \in Ids : origin[i] = c => i \notin DOMAIN table /\ i \notin handed
  <2>1. PICK c \in Clients : fds[n] = Conn(c) /\ to[c] = s BY <1>1, <1>2 DEF Thread
  <2>2. CASE apc[s] = "register"
    <3>1. c = origin[hand[s].id] /\ hand[s].id \in Ids \ (DOMAIN table \cup handed)
      BY <1>1, <2>1, <2>2, Sockets DEF Thread
    <3> QED BY <2>1, <3>1 DEF Inv, Names
  <2>3. CASE apc[s] # "register"
    <3>1. \A i \in Ids : origin[i] # c BY <1>1, <2>1, <2>3 DEF Thread, Reading
    <3> QED BY <2>1, <3>1
  <2> QED BY <2>2, <2>3
<1>3. \A i \in HoldingEntries(n) : i \in Ids /\ i \in DOMAIN table /\ fds[n] = Conn(origin[i])
  BY DEF Inv, Entries, Recorded, Kinds
<1>4. HoldingSends(n) # {} =>
        vm.on \in Ids /\ vm.on \in handed /\ vm.on \notin DOMAIN table /\ fds[n] = Conn(origin[vm.on])
  BY DEF Inv, Sends, InSend, Kinds
<1>5. \A r, s \in HoldingThreads(n) : r = s BY <1>2, Sockets
<1>6. \A i, j \in HoldingEntries(n) : i = j BY <1>3, Sockets DEF Inv, Names
<1>7. HoldingThreads(n) = {} \/ HoldingEntries(n) = {} BY <1>2, <1>3, Sockets
<1>8. HoldingThreads(n) = {} \/ HoldingSends(n) = {} BY <1>2, <1>4, Sockets
<1>9. HoldingEntries(n) = {} \/ HoldingSends(n) = {} BY <1>3, <1>4, Sockets DEF Inv, Names
<1> QED BY <1>5, <1>6, <1>7, <1>8, <1>9

LEMMA OneOrNone ==
  ASSUME NEW S, \A x, y \in S : x = y
  PROVE  Cardinality(S) = IF S = {} THEN 0 ELSE 1
<1>1. CASE S = {} BY <1>1, FS_EmptySet
<1>2. CASE S # {}
  <2>1. PICK x : x \in S BY <1>2
  <2>2. S = {x} BY <2>1
  <2> QED BY <1>2, <2>2, FS_Singleton
<1> QED BY <1>1, <1>2

\* No socket is leaked or closed twice: each open connection is held by exactly one of the
\* accept thread that reads it, its entry of gLowHttpRequests and the send that answers it, and
\* what they hold is open.
THEOREM ConnectionsHaveOneHolder == Spec => []OneHolder
<1>1. ASSUME Kinds, Inv PROVE OneHolder
  <2>1. ASSUME NEW n \in Fds PROVE Holders(n) = IF ConnOf(n) = {} THEN 0 ELSE 1
    <3>1. /\ Cardinality(HoldingThreads(n)) = IF HoldingThreads(n) = {} THEN 0 ELSE 1
          /\ Cardinality(HoldingEntries(n)) = IF HoldingEntries(n) = {} THEN 0 ELSE 1
          /\ Cardinality(HoldingSends(n)) = IF HoldingSends(n) = {} THEN 0 ELSE 1
      <4>1. \A x, y \in HoldingSends(n) : x = y BY DEF HoldingSends
      <4> QED BY <1>1, <4>1, HoldersAlone, OneOrNone
    <3>2. ConnOf(n) = {} <=>
            HoldingThreads(n) = {} /\ HoldingEntries(n) = {} /\ HoldingSends(n) = {}
      <4>1. ASSUME NEW c \in ConnOf(n)
            PROVE  HoldingThreads(n) # {} \/ HoldingEntries(n) # {} \/ HoldingSends(n) # {}
        BY <1>1, <4>1
           DEF ConnOf, Inv, Held, HoldingThreads, HoldingEntries, HoldingSends, Reading, InSend
      <4>2. \A s \in HoldingThreads(n) : \E c \in Clients : fds[n] = Conn(c)
        BY <1>1 DEF HoldingThreads, Inv, Threads, Thread, Reading
      <4>3. \A i \in HoldingEntries(n) : \E c \in Clients : fds[n] = Conn(c)
        BY <1>1 DEF HoldingEntries, Inv, Entries, Recorded, Kinds
      <4>4. HoldingSends(n) # {} => \E c \in Clients : fds[n] = Conn(c)
        BY <1>1 DEF HoldingSends, Inv, Sends, InSend, Kinds
      <4> QED BY <4>1, <4>2, <4>3, <4>4 DEF ConnOf
    <3> QED BY <1>1, <3>1, <3>2, HoldersAlone DEF Holders
  <2> QED BY <2>1 DEF OneHolder
<1> QED BY <1>1, InvHolds, PTL

\* What next will hand out can be answered: the table has it, on the socket it was read from.
THEOREM QueuedRequestsAreAnswerable == Spec => []Answerable
<1>1. ASSUME Kinds, Inv PROVE Answerable
  BY <1>1 DEF Inv, Queues, Entries, Recorded, Answerable, RequestsOf
<1> QED BY <1>1, InvHolds, PTL

\* A client is sent at most one response, its own, although descriptors are used again.
THEOREM ResponsesReachTheirClient == Spec => []OwnResponse
<1>1. Inv => OwnResponse BY DEF Inv
<1> QED BY <1>1, InvHolds, PTL

\* Nothing of a server is left once lowHttpServerClose has returned.
THEOREM CloseLeavesNothing == Spec => []ClosedClean
<1>1. ASSUME Kinds, Inv PROVE ClosedClean
  <2>1. ASSUME NEW s \in opened \ servers, vm # Calling("open", s, 0)
        PROVE  /\ apc[s] = "ended" /\ RequestsOf(s) = {}
               /\ \A n \in Fds : fds[n] \notin {Listening(s), Down(s)}
               /\ \A c \in Clients : to[c] = s => conn[c] \notin {"backlog", "accepted"}
    <3>1. s \in Servers /\ s \notin Live
      BY <1>1, <2>1 DEF Live, Inv, Calls, Calling, Kinds
    <3>2. apc[s] = "ended" BY <1>1, <2>1, <3>1 DEF Inv, Calls
    <3>3. \A n \in Fds : fds[n] \notin {Listening(s), Down(s)}
      BY <1>1, <3>1 DEF Inv, Listens, Live, Calls, InServer
    <3>4. \A c \in Clients : to[c] = s => conn[c] \notin {"backlog", "accepted"}
      BY <1>1, <3>1 DEF Inv, Connections
    <3>5. \A id \in DOMAIN table : to[origin[id]] # s
      <4>1. ASSUME NEW id \in DOMAIN table PROVE conn[origin[id]] = "accepted" /\ origin[id] \in Clients
        BY <1>1 DEF Inv, Entries, Recorded, Connections, Kinds
      <4> QED BY <3>4, <4>1
    <3>6. RequestsOf(s) = {} BY <1>1, <3>5 DEF RequestsOf, Inv, Entries, Recorded
    <3> QED BY <3>2, <3>3, <3>4, <3>6
  <2> QED BY <2>1 DEF ClosedClean
<1> QED BY <1>1, InvHolds, PTL

-----------------------------------------------------------------------------
(* The promise of RequestFlow is kept *)

Line == [s \in Servers |-> ClientsOf(queue[s])]
Stage == [c \in Clients |-> StageOf(c)]
Waits(c) == \E i \in DOMAIN queue[to[c]] : origin[queue[to[c]][i]] = c

\* The request of a client that is connected and not yet answered.
LEMMA InFlight ==
  ASSUME Kinds, Inv, NEW id \in Ids, conn[origin[id]] = "accepted"
  PROVE  /\ ~(vm.at = "sent" /\ vm.on = id) => got[origin[id]] = <<>>
         /\ Given(origin[id]) <=> id \in handed
         /\ Waits(origin[id]) <=> InLine(to[origin[id]], id)
         /\ Named(origin[id])
<1>1. origin[id] \in Clients /\ to[origin[id]] \in Servers BY DEF Kinds
<1>2. \A i \in Ids : origin[i] = origin[id] <=> i = id BY DEF Inv, Names
<1>3. ~(vm.at = "sent" /\ vm.on = id) => got[origin[id]] = <<>>
  BY <1>1, <1>2 DEF Inv, Sends, InSend, Kinds
<1>4. Given(origin[id]) <=> id \in handed BY <1>2 DEF Given, Kinds
<1>5. Waits(origin[id]) <=> InLine(to[origin[id]], id)
  <2>1. \A i \in DOMAIN queue[to[origin[id]]] : queue[to[origin[id]]][i] \in Ids
    BY <1>1 DEF Inv, Queues, RequestsOf, Kinds
  <2> QED BY <1>2, <2>1 DEF Waits, InLine
<1>6. Named(origin[id]) BY DEF Named, Kinds
<1> QED BY <1>3, <1>4, <1>5, <1>6

LEMMA StageStays ==
  ASSUME NEW c \in Clients, UNCHANGED got[c],
         (Named(c) /\ conn[c] = "closed")' <=> (Named(c) /\ conn[c] = "closed"),
         Given(c)' <=> Given(c), Waits(c)' <=> Waits(c),
         Given(c) \/ Waits(c) => ((conn'[c] = "closed") <=> (conn[c] = "closed"))
  PROVE  StageOf(c)' = StageOf(c)
BY DEF StageOf, Waits

\* Steps that neither open nor close a server, queue, hand out or answer a request are none of
\* RequestFlow's business.
LEMMA FlowStutters ==
  ASSUME Kinds, Inv, UNCHANGED <<queue, got, handed, to>>, Live' = Live,
         Ids \subseteq Ids', DOMAIN origin' = Ids', \A i \in Ids : origin'[i] = origin[i],
         \A i \in Ids' \ Ids : conn'[origin'[i]] # "closed",
         \A i \in Ids : (conn'[origin[i]] = "closed") <=> (conn[origin[i]] = "closed")
  PROVE  UNCHANGED <<Live, Line, Stage, to>>
<1>1. /\ DOMAIN origin = Ids /\ handed \subseteq Ids
      /\ \A s \in Servers : \A i \in DOMAIN queue[s] : queue[s][i] \in Ids
  BY DEF Inv, Queues, RequestsOf, Kinds
<1>2. ASSUME NEW c \in Clients PROVE StageOf(c)' = StageOf(c)
  <2>1. Given(c)' <=> Given(c) BY <1>1 DEF Given
  <2>2. Waits(c)' <=> Waits(c)
    <3>1. to[c] \in Servers BY DEF Kinds
    <3> QED BY <1>1, <3>1 DEF Waits
  <2>3. (Named(c) /\ conn[c] = "closed")' <=> (Named(c) /\ conn[c] = "closed")
    BY <1>1 DEF Named
  <2>4. Given(c) \/ Waits(c) => \E i \in Ids : origin[i] = c
    <3>1. to[c] \in Servers BY DEF Kinds
    <3> QED BY <1>1, <3>1 DEF Given, Waits
  <2> QED BY <2>1, <2>2, <2>3, <2>4, StageStays
<1>3. Line' = Line BY <1>1 DEF Line, ClientsOf
<1> QED BY <1>2, <1>3 DEF Stage

\* the steps RequestFlow takes, by its variables
LEMMA FlowStep ==
  /\ UNCHANGED <<Live, Line, Stage, to>> => UNCHANGED Flow!vars
  /\ \A s \in Servers : Live' = Live \cup {s} /\ UNCHANGED <<Line, Stage, to>> => Flow!Next
  /\ \A c \in Clients :
       /\ to[c] \in Live /\ to[c] \in Servers /\ Stage[c] = "new"
       /\ Stage' = [Stage EXCEPT ![c] = "waiting"]
       /\ Line' = [Line EXCEPT ![to[c]] = Append(@, c)] /\ UNCHANGED <<Live, to>>
       => Flow!Next
  /\ \A s \in Servers :
       /\ Line[s] # <<>> /\ Stage' = [Stage EXCEPT ![Head(Line[s])] = "handed"]
       /\ Line' = [Line EXCEPT ![s] = Tail(@)] /\ UNCHANGED <<Live, to>>
       => Flow!Next
  /\ \A c \in Clients : \A outcome \in {"answered", "dropped"} :
       /\ Stage[c] = "handed" /\ Stage' = [Stage EXCEPT ![c] = outcome]
       /\ UNCHANGED <<Live, Line, to>>
       => Flow!Next
  /\ \A s \in Servers :
       /\ Live' = Live \ {s} /\ Line' = [Line EXCEPT ![s] = <<>>]
       /\ Stage' = [c \in Clients |-> IF to[c] = s /\ Stage[c] \in {"waiting", "handed"}
                                         THEN "dropped" ELSE Stage[c]]
       /\ UNCHANGED to
       => Flow!Next
<1> USE DEF Live, Line, Stage
<1>1. UNCHANGED <<Live, Line, Stage, to>> => UNCHANGED Flow!vars BY DEF Flow!vars
<1>2. \A s \in Servers : Live' = Live \cup {s} /\ UNCHANGED <<Line, Stage, to>> => Flow!Open(s)
  BY DEF Flow!Open
<1>3. \A c \in Clients :
       /\ to[c] \in Live /\ to[c] \in Servers /\ Stage[c] = "new"
       /\ Stage' = [Stage EXCEPT ![c] = "waiting"]
       /\ Line' = [Line EXCEPT ![to[c]] = Append(@, c)] /\ UNCHANGED <<Live, to>>
       => Flow!Arrive(c)
  BY DEF Flow!Arrive
<1>4. \A s \in Servers :
       /\ Line[s] # <<>> /\ Stage' = [Stage EXCEPT ![Head(Line[s])] = "handed"]
       /\ Line' = [Line EXCEPT ![s] = Tail(@)] /\ UNCHANGED <<Live, to>>
       => Flow!Hand(s)
  BY DEF Flow!Hand
<1>5. \A c \in Clients : \A outcome \in {"answered", "dropped"} :
       /\ Stage[c] = "handed" /\ Stage' = [Stage EXCEPT ![c] = outcome]
       /\ UNCHANGED <<Live, Line, to>>
       => Flow!Answer(c)
  BY DEF Flow!Answer
<1>6. \A s \in Servers :
       /\ Live' = Live \ {s} /\ Line' = [Line EXCEPT ![s] = <<>>]
       /\ Stage' = [c \in Clients |-> IF to[c] = s /\ Stage[c] \in {"waiting", "handed"}
                                         THEN "dropped" ELSE Stage[c]]
       /\ UNCHANGED to
       => Flow!Close(s)
  BY DEF Flow!Close
<1> QED BY <1>1, <1>2, <1>3, <1>4, <1>5, <1>6 DEF Flow!Next

LEMMA FlowEnqueue ==
  ASSUME Kinds, Inv, NEW s \in Servers, Enqueue(s)
  PROVE  Flow!Next
<1>1. PICK id : id = hand[s].id OBVIOUS
<1>2. /\ UNCHANGED <<flags, table, seed, hand, vm, sockets, clients, got, origin, handed>>
      /\ apc[s] = "queue" /\ queue' = [queue EXCEPT ![s] = Append(queue[s], id)]
  BY <1>1 DEF Enqueue
<1>3. /\ id \in RequestsOf(s) \ handed /\ ~InLine(s, id) /\ id \in Ids
  BY <1>1, <1>2 DEF Inv, Threads, Thread, Kinds, InLine, RequestsOf
<1>4. PICK c \in Clients : c = origin[id] BY <1>3 DEF Kinds
<1>5. conn[c] = "accepted" /\ to[c] = s /\ to[c] \in Live
  <2>1. /\ fds[table[id].fd] = Conn(c) /\ table[id].fd \in Fds /\ table[id].server = to[c]
        /\ table[id].server = s
    BY <1>3, <1>4 DEF RequestsOf, Inv, Entries, Recorded, Kinds
  <2> QED BY <2>1 DEF Inv, Connections
<1>6. /\ got[c] = <<>> /\ ~Given(c) /\ ~Waits(c) /\ Named(c)
  <2>1. ~(vm.at = "sent" /\ vm.on = id) BY <1>3 DEF Inv, Sends, InSend
  <2> QED BY <1>3, <1>4, <1>5, <2>1, InFlight
<1>7. StageOf(c) = "new" BY <1>5, <1>6 DEF StageOf, Waits
<1>a. queue[s] \in Seq(Nat) /\ DOMAIN queue = Servers BY DEF Kinds
<1>8. PICK l \in Nat : l = Len(queue[s]) /\ DOMAIN queue[s] = 1..l BY <1>a
<1>9. /\ queue'[s] = Append(queue[s], id) /\ \A r \in Servers \ {s} : queue'[r] = queue[r]
      /\ queue[s] \in Seq(Nat) /\ id \in Nat
  BY <1>a, <1>2, <1>3 DEF Ids
<1>10. /\ DOMAIN queue'[s] = 1..(l + 1) /\ queue'[s][l + 1] = id /\ Len(queue'[s]) = l + 1
       /\ \A i \in 1..l : queue'[s][i] = queue[s][i]
       /\ \A i \in 1..(l + 1) : i \in 1..l \/ i = l + 1
  BY <1>8, <1>9
<1> USE <1>2 DEF flags, sockets, clients
<1>11. Line' = [Line EXCEPT ![s] = Append(@, c)]
  <2>1. \A i \in 1..l : origin[queue[s][i]] \in Clients
    BY <1>8 DEF Inv, Queues, RequestsOf, Kinds
  <2>2. ClientsOf(queue[s]) \in Seq(Clients) /\ Len(ClientsOf(queue[s])) = l
    <3>1. ClientsOf(queue[s]) = [i \in 1..l |-> origin[queue[s][i]]] BY <1>8 DEF ClientsOf
    <3> QED BY <2>1, <3>1
  <2>3. Append(ClientsOf(queue[s]), c) = [i \in 1..(l + 1) |-> IF i = l + 1 THEN c ELSE ClientsOf(queue[s])[i]]
    BY <2>2
  <2>4. ClientsOf(queue[s])' = [i \in 1..(l + 1) |-> origin[queue'[s][i]]] BY <1>10 DEF ClientsOf
  <2>5. \A i \in 1..(l + 1) : origin[queue'[s][i]] = IF i = l + 1 THEN c ELSE ClientsOf(queue[s])[i]
    BY <1>4, <1>8, <1>10 DEF ClientsOf
  <2>6. ClientsOf(queue[s])' = Append(ClientsOf(queue[s]), c) BY <2>3, <2>4, <2>5
  <2>7. \A r \in Servers \ {s} : ClientsOf(queue[r])' = ClientsOf(queue[r]) BY <1>9 DEF ClientsOf
  <2> QED BY <2>6, <2>7 DEF Line
<1>12. StageOf(c)' = "waiting"
  <2>1. Waits(c)' BY <1>4, <1>5, <1>10 DEF Waits
  <2>2. ~Given(c)' BY <1>6 DEF Given
  <2> QED BY <1>5, <1>6, <2>1, <2>2 DEF StageOf, Waits
<1>13. ASSUME NEW d \in Clients \ {c} PROVE StageOf(d)' = StageOf(d)
  <2>1. Waits(d)' <=> Waits(d)
    <3>1. CASE to[d] = s
      <4>1. Waits(d) => Waits(d)' BY <3>1, <1>8, <1>10 DEF Waits
      <4>2. ASSUME NEW i \in DOMAIN queue'[s], origin[queue'[s][i]] = d PROVE Waits(d)
        <5>1. i # l + 1 BY <4>2, <1>4, <1>10
        <5> QED BY <3>1, <4>2, <5>1, <1>8, <1>10 DEF Waits
      <4> QED BY <3>1, <4>1, <4>2 DEF Waits
    <3>2. CASE to[d] # s
      <4>1. to[d] \in Servers BY DEF Kinds
      <4> QED BY <3>2, <4>1, <1>9 DEF Waits
    <3> QED BY <3>1, <3>2
  <2>2. Given(d)' <=> Given(d) BY DEF Given
  <2>3. Named(d)' <=> Named(d) BY DEF Named
  <2> QED BY <2>1, <2>2, <2>3, StageStays
<1>14. Stage' = [Stage EXCEPT ![c] = "waiting"] BY <1>12, <1>13 DEF Stage
<1>15. Live' = Live BY DEF Live
<1>16. Stage[c] = "new" BY <1>7 DEF Stage
<1> QED BY <1>5, <1>11, <1>14, <1>15, <1>16, FlowStep

LEMMA FlowNextReturns ==
  ASSUME Kinds, Inv, NextReturns
  PROVE  Flow!Next \/ UNCHANGED <<Live, Line, Stage, to>>
<1>1. /\ UNCHANGED <<flags, table, seed, apc, hand, sockets, clients, got, origin>>
      /\ vm.at = "next" /\ vm'.at = "idle"
  BY DEF NextReturns, Idle
<1>2. Live' = Live BY <1>1 DEF Live, flags
<1>3. CASE queue[vm.on] = <<>>
  <2>1. UNCHANGED <<queue, handed>> BY <1>3 DEF NextReturns
  <2>2. Ids' = Ids /\ DOMAIN origin' = Ids' BY <1>1 DEF Ids, Kinds
  <2> QED BY <1>1, <1>2, <2>1, <2>2, FlowStutters DEF clients, sockets
<1>4. CASE queue[vm.on] # <<>>
  <2>1. PICK s \in Servers : s = vm.on BY <1>1 DEF Inv, Calls, InServer, Kinds
  <2>2. queue[s] \in Seq(Nat) /\ queue[s] # <<>> /\ DOMAIN queue = Servers BY <1>4, <2>1 DEF Kinds
  <2>3. PICK id : id = Head(queue[s]) OBVIOUS
  <2>4. PICK l \in Nat : l = Len(queue[s]) /\ DOMAIN queue[s] = 1..l /\ l >= 1 /\ 1 \in 1..l BY <2>2
  <2>5. /\ id = queue[s][1] /\ queue' = [queue EXCEPT ![s] = Tail(queue[s])] /\ handed' = handed \cup {id}
    BY <1>4, <2>1, <2>2, <2>3, <2>4 DEF NextReturns
  <2>6. /\ DOMAIN queue'[s] = 1..(l - 1) /\ \A i \in 1..(l - 1) : queue'[s][i] = queue[s][i + 1]
        /\ \A r \in Servers \ {s} : queue'[r] = queue[r]
    BY <2>2, <2>4, <2>5
  <2>7. id \in RequestsOf(s) \ handed /\ id \in Ids
    BY <2>4, <2>5 DEF Inv, Queues, RequestsOf, Kinds
  <2>8. PICK c \in Clients : c = origin[id] BY <2>7 DEF Kinds
  <2>9. conn[c] = "accepted" /\ to[c] = s
    <3>1. /\ fds[table[id].fd] = Conn(c) /\ table[id].fd \in Fds /\ table[id].server = to[c]
          /\ table[id].server = s
      BY <2>7, <2>8 DEF RequestsOf, Inv, Entries, Recorded, Kinds
    <3> QED BY <3>1 DEF Inv, Connections
  <2>10. got[c] = <<>>
    BY <1>1, <2>7, <2>8, <2>9, InFlight
  <2> USE <1>1 DEF flags, sockets, clients
  <2>11. StageOf(c)' = "handed"
    <3>1. Given(c)' BY <2>5, <2>8 DEF Given
    <3> QED BY <2>9, <2>10, <3>1 DEF StageOf
  <2>12. ASSUME NEW d \in Clients \ {c} PROVE StageOf(d)' = StageOf(d)
    <3>1. Waits(d)' <=> Waits(d)
      <4>1. CASE to[d] = s
        <5>1. ASSUME NEW i \in 1..(l - 1), origin[queue'[s][i]] = d PROVE Waits(d)
          <6>1. i + 1 \in 1..l BY <2>4
          <6> QED BY <4>1, <5>1, <6>1, <2>4, <2>6 DEF Waits
        <5>2. ASSUME NEW i \in 1..l, origin[queue[s][i]] = d PROVE Waits(d)'
          <6>1. i # 1 BY <5>2, <2>5, <2>8
          <6>2. i - 1 \in 1..(l - 1) /\ (i - 1) + 1 = i BY <6>1, <2>4
          <6>3. queue'[s][i - 1] = queue[s][i] BY <6>2, <2>6
          <6> QED BY <4>1, <5>2, <6>2, <6>3, <2>6 DEF Waits
        <5> QED BY <4>1, <5>1, <5>2, <2>4, <2>6 DEF Waits
      <4>2. CASE to[d] # s
        <5>1. to[d] \in Servers BY DEF Kinds
        <5> QED BY <4>2, <5>1, <2>6 DEF Waits
      <4> QED BY <4>1, <4>2
    <3>2. Given(d)' <=> Given(d) BY <2>5, <2>8 DEF Given
    <3>3. Named(d)' <=> Named(d) BY DEF Named
    <3> QED BY <3>1, <3>2, <3>3, StageStays
  <2>13. /\ ClientsOf(queue[s]) = [i \in 1..l |-> origin[queue[s][i]]]
         /\ ClientsOf(queue[s]) \in Seq(Clients) /\ Len(ClientsOf(queue[s])) = l
    <3>1. ClientsOf(queue[s]) = [i \in 1..l |-> origin[queue[s][i]]] BY <2>4 DEF ClientsOf
    <3>2. \A i \in 1..l : origin[queue[s][i]] \in Clients
      BY <2>4 DEF Inv, Queues, RequestsOf, Kinds
    <3> QED BY <3>1, <3>2
  <2>14. Line[s] # <<>> /\ Head(Line[s]) = c
    BY <2>4, <2>5, <2>8, <2>13 DEF Line
  <2>15. Line' = [Line EXCEPT ![s] = Tail(@)]
    <3>1. Tail(ClientsOf(queue[s])) = [i \in 1..(l - 1) |-> ClientsOf(queue[s])[i + 1]] BY <2>4, <2>13
    <3>2. \A i \in 1..(l - 1) : i + 1 \in 1..l BY <2>4
    <3>3. ClientsOf(queue[s])' = [i \in 1..(l - 1) |-> origin[queue'[s][i]]] BY <2>6 DEF ClientsOf
    <3>4. \A i \in 1..(l - 1) : origin[queue'[s][i]] = ClientsOf(queue[s])[i + 1]
      BY <3>2, <2>6, <2>13
    <3>5. ClientsOf(queue[s])' = Tail(ClientsOf(queue[s])) BY <3>1, <3>3, <3>4
    <3>6. \A r \in Servers \ {s} : ClientsOf(queue[r])' = ClientsOf(queue[r]) BY <2>6 DEF ClientsOf
    <3> QED BY <3>5, <3>6 DEF Line
  <2>16. Stage' = [Stage EXCEPT ![Head(Line[s])] = "handed"] BY <2>11, <2>12, <2>14 DEF Stage
  <2> QED BY <1>2, <2>14, <2>15, <2>16, FlowStep
<1> QED BY <1>3, <1>4

\* an answer that reaches its client, and one that comes too late for it
LEMMA FlowSend ==
  ASSUME Kinds, Inv, SendResponds \/ SendCloses
  PROVE  Flow!Next \/ UNCHANGED <<Live, Line, Stage, to>>
<1> USE DEF flags, sockets, clients
<1>1. /\ UNCHANGED <<servers, queue, table, seed, apc, hand, to, origin, handed>>
      /\ vm.at \in {"send", "sent"} /\ vm'.at \in {"sent", "idle"}
  BY DEF SendResponds, SendCloses, Idle, Kinds
<1>2. PICK id : id = vm.on OBVIOUS
<1>3. /\ id \in handed /\ id \in Ids /\ vm.fd \in Fds /\ fds[vm.fd] = Conn(origin[id])
  BY <1>1, <1>2 DEF Inv, Sends, InSend, Kinds
<1>4. PICK c \in Clients : c = origin[id] BY <1>3 DEF Kinds
<1>5. conn[c] = "accepted" BY <1>3, <1>4 DEF Inv, Connections
<1>6. /\ vm.at = "send" => got[c] = <<>>
      /\ Given(c) /\ Named(c)
  BY <1>2, <1>3, <1>4, <1>5, InFlight
<1>7. StageOf(c) = IF got[c] = <<>> THEN "handed" ELSE "answered"
  BY <1>5, <1>6 DEF StageOf
<1>8. Live' = Live /\ Line' = Line BY <1>1 DEF Live, Line, ClientsOf
<1>9. \A d \in Clients : (Given(d)' <=> Given(d)) /\ (Waits(d)' <=> Waits(d)) /\ (Named(d)' <=> Named(d))
  BY <1>1 DEF Given, Waits, Named
<1>10. \A d \in Clients \ {c} : d \notin ConnOf(vm.fd) BY <1>3, <1>4, Sockets DEF ConnOf
<1>11. CASE SendResponds
  <2>1. UNCHANGED conn /\ \A d \in Clients \ {c} : got'[d] = got[d]
    BY <1>10, <1>11 DEF SendResponds
  <2>2. \A d \in Clients \ {c} : StageOf(d)' = StageOf(d) BY <1>9, <2>1, StageStays
  <2>3. got'[c] = got[c] \/ got'[c] # <<>>
    <3>1. got'[c] \in {got[c], Append(got[c], c)} BY <1>2, <1>4, <1>11 DEF SendResponds
    <3>2. got[c] \in Seq(Clients) BY DEF Kinds
    <3> QED BY <3>1, <3>2
  <2>4. CASE got'[c] = got[c]
    <3>1. StageOf(c)' = StageOf(c) BY <1>9, <2>1, <2>4, StageStays
    <3> QED BY <1>1, <1>8, <2>2, <3>1 DEF Stage
  <2>5. CASE got'[c] # <<>>
    <3>1. StageOf(c)' = "answered" BY <2>5 DEF StageOf
    <3>2. got[c] = <<>> BY <1>6, <1>11 DEF SendResponds
    <3>3. Stage[c] = "handed" /\ Stage' = [Stage EXCEPT ![c] = "answered"]
      BY <1>7, <2>2, <3>1, <3>2 DEF Stage
    <3> QED BY <1>1, <1>8, <3>3, FlowStep
  <2> QED BY <2>3, <2>4, <2>5
<1>12. CASE SendCloses
  <2>1. UNCHANGED got /\ conn'[c] = "closed" /\ \A d \in Clients \ {c} : conn'[d] = conn[d]
    BY <1>3, <1>4, <1>12, Sockets DEF SendCloses, Closing
  <2>2. \A d \in Clients \ {c} : StageOf(d)' = StageOf(d) BY <1>9, <2>1, StageStays
  <2>3. CASE got[c] = <<>>
    <3>1. StageOf(c)' = "dropped" BY <1>6, <1>9, <2>1, <2>3 DEF StageOf
    <3>2. Stage[c] = "handed" /\ Stage' = [Stage EXCEPT ![c] = "dropped"]
      BY <1>7, <2>2, <2>3, <3>1 DEF Stage
    <3> QED BY <1>1, <1>8, <3>2, FlowStep
  <2>4. CASE got[c] # <<>>
    <3>1. StageOf(c)' = StageOf(c) BY <1>7, <2>1, <2>4 DEF StageOf
    <3> QED BY <1>1, <1>8, <2>2, <3>1 DEF Stage
  <2> QED BY <2>3, <2>4
<1> QED BY <1>11, <1>12

LEMMA FlowCloseSweeps ==
  ASSUME Kinds, Inv, CloseSweeps
  PROVE  Flow!Next
<1>1. /\ UNCHANGED <<running, listenFd, opened, seed, apc, hand, clients, got, origin, handed>>
      /\ vm.at = "sweep" /\ vm'.at = "idle" /\ apc[vm.on] = "ended"
  BY DEF CloseSweeps, Idle, Inv, Calls
<1>2. PICK s \in Servers : s = vm.on /\ s \in servers BY <1>1 DEF Inv, Calls, InServer, Kinds
<1>3. Live' = Live \ {s} BY <1>1, <1>2 DEF CloseSweeps, Live
<1>4. /\ queue'[s] = <<>> /\ \A r \in Servers \ {s} : queue'[r] = queue[r]
      /\ queue' = [queue EXCEPT ![s] = <<>>]
  BY <1>1, <1>2 DEF CloseSweeps, Kinds
<1>5. \A d \in Clients : conn'[d] = IF \E id \in RequestsOf(s) : fds[table[id].fd] = Conn(d)
                                     THEN "closed" ELSE conn[d]
  <2>1. Closing({table[id].fd : id \in RequestsOf(s)}) BY <1>2 DEF CloseSweeps
  <2>2. \A id \in RequestsOf(s) : table[id].fd \in Fds BY DEF RequestsOf, Kinds
  <2> QED BY <2>1, <2>2 DEF Closing
<1>6. ASSUME NEW d \in Clients, conn[d] = "accepted", to[d] = s
      PROVE  conn'[d] = "closed" /\ \E id \in RequestsOf(s) : origin[id] = d
  <2>1. PICK m \in Fds : fds[m] = Conn(d) BY <1>6 DEF Inv, Connections
  <2>2. \E id \in RequestsOf(s) : table[id].fd = m /\ origin[id] = d
    BY <1>1, <1>2, <1>6, <2>1, Swept
  <2> QED BY <1>5, <2>1, <2>2
<1>7. ASSUME NEW d \in Clients, to[d] # s PROVE conn'[d] = conn[d]
  <2>1. \A id \in RequestsOf(s) : fds[table[id].fd] # Conn(d)
    BY <1>7, Sockets DEF RequestsOf, Inv, Entries, Recorded
  <2> QED BY <1>5, <2>1
<1>8. \A d \in Clients : conn[d] = "closed" => conn'[d] = "closed" BY <1>5
<1> USE <1>1 DEF clients
<1>9. ASSUME NEW d \in Clients
      PROVE  StageOf(d)' = IF to[d] = s /\ StageOf(d) \in {"waiting", "handed"}
                             THEN "dropped" ELSE StageOf(d)
  <2>1. CASE to[d] # s
    <3>1. to[d] \in Servers BY DEF Kinds
    <3>2. Waits(d)' <=> Waits(d) BY <2>1, <3>1, <1>4 DEF Waits
    <3>3. (Given(d)' <=> Given(d)) /\ (Named(d)' <=> Named(d)) BY DEF Given, Named
    <3>4. StageOf(d)' = StageOf(d) BY <2>1, <3>2, <3>3, <1>7, StageStays
    <3> QED BY <2>1, <3>4
  <2>2. CASE to[d] = s
    <3>1. ~Waits(d)' BY <2>2, <1>4 DEF Waits
    <3>2. (Given(d)' <=> Given(d)) /\ (Named(d)' <=> Named(d)) BY DEF Given, Named
    <3>3. Given(d) \/ Waits(d) => Named(d)
      <4>1. \A i \in DOMAIN queue[s] : queue[s][i] \in DOMAIN origin
        BY DEF Inv, Queues, RequestsOf, Kinds
      <4> QED BY <2>2, <4>1 DEF Given, Waits, Named, Kinds
    <3>4. Named(d) => conn[d] \in {"accepted", "closed"} BY DEF Named, Inv, Names, Kinds
    <3>5. ASSUME conn[d] = "accepted" PROVE Given(d) \/ Waits(d)
      <4>1. PICK id \in RequestsOf(s) : origin[id] = d BY <1>6, <2>2, <3>5
      <4>2. id \in DOMAIN table /\ table[id].server = s /\ Recorded(id) BY DEF RequestsOf, Inv, Entries
      <4>3. id \in handed \/ InLine(s, id) BY <4>2, <1>2 DEF Recorded
      <4> QED BY <2>2, <4>1, <4>3 DEF Given, Waits, InLine
    <3>6. conn[d] = "accepted" => conn'[d] = "closed" BY <1>6, <2>2
    <3>7. CASE got[d] # <<>>
      <4>1. StageOf(d) = "answered" /\ StageOf(d)' = "answered" BY <3>7 DEF StageOf
      <4> QED BY <4>1
    <3>8. CASE got[d] = <<>> /\ Named(d) /\ conn[d] = "closed"
      <4>1. StageOf(d) = "dropped" /\ StageOf(d)' = "dropped" BY <3>2, <3>8, <1>8 DEF StageOf
      <4> QED BY <4>1
    <3>9. CASE got[d] = <<>> /\ Named(d) /\ conn[d] = "accepted"
      <4>1. StageOf(d) \in {"waiting", "handed"} BY <3>5, <3>9 DEF StageOf, Waits
      <4>2. StageOf(d)' = "dropped" BY <3>2, <3>6, <3>9 DEF StageOf
      <4> QED BY <2>2, <4>1, <4>2
    <3>10. CASE got[d] = <<>> /\ ~Named(d)
      <4>1. StageOf(d) = "new" BY <3>3, <3>10 DEF StageOf, Waits
      <4>2. StageOf(d)' = "new" BY <3>1, <3>2, <3>3, <3>10 DEF StageOf, Waits
      <4> QED BY <4>1, <4>2
    <3> QED BY <3>4, <3>7, <3>8, <3>9, <3>10
  <2> QED BY <2>1, <2>2
<1>10. Stage' = [c \in Clients |-> IF to[c] = s /\ Stage[c] \in {"waiting", "handed"}
                                     THEN "dropped" ELSE Stage[c]]
  BY <1>9 DEF Stage
<1>11. Line' = [Line EXCEPT ![s] = <<>>]
  <2>1. ClientsOf(queue[s])' = <<>> BY <1>4 DEF ClientsOf
  <2>2. \A r \in Servers \ {s} : ClientsOf(queue[r])' = ClientsOf(queue[r]) BY <1>4 DEF ClientsOf
  <2> QED BY <2>1, <2>2 DEF Line
<1> QED BY <1>3, <1>10, <1>11, FlowStep

LEMMA FlowOpen ==
  ASSUME Kinds, Inv, NEW s \in Servers, Open(s)
  PROVE  Flow!Next
<1>1. /\ UNCHANGED <<servers, queue, conn, to, got, origin, handed>>
      /\ vm.at = "idle" /\ vm'.at = "open" /\ vm'.on = s
  BY DEF Open, Calling, clients
<1>2. Live' = Live \cup {s} BY <1>1 DEF Live
<1>3. Line' = Line BY <1>1 DEF Line, ClientsOf
<1>4. Stage' = Stage
  <2>1. ASSUME NEW d \in Clients PROVE StageOf(d)' = StageOf(d)
    BY <1>1, StageStays DEF Given, Named, Waits
  <2> QED BY <2>1 DEF Stage
<1> QED BY <1>1, <1>2, <1>3, <1>4, FlowStep

\* everything else
LEMMA FlowOthers ==
  ASSUME Kinds, Inv, Kinds',
         \/ \E s \in Servers : AcceptThread(s) /\ ~Enqueue(s)
         \/ OpenRegisters \/ NextSleeps \/ SpuriousWakeup \/ CloseJoins \/ CloseShutsDown \/ CloseListener
         \/ \E s \in Servers : NextCalled(s) \/ CloseStops(s)
         \/ \E id \in handed : Send(id)
         \/ \E c \in Clients : Client(c)
  PROVE  UNCHANGED <<Live, Line, Stage, to>>
<1> USE DEF flags, sockets, clients
<1>1. CASE \E s \in Servers : AcceptThread(s) /\ ~Enqueue(s)
  <2>1. PICK s \in Servers : AcceptThread(s) /\ ~Enqueue(s) BY <1>1
  <2>2. UNCHANGED <<queue, got, handed, to>>
    BY <2>1 DEF AcceptThread, CheckRunning, Turn, Accept, AcceptFails, AfterFailure, Receive, ReceiveFails,
                Name, Register, Notify
  <2>3. Live' = Live BY <2>1, ThreadCalls
  <2>4. DOMAIN origin = Ids /\ DOMAIN origin' = Ids' BY DEF Kinds
  <2>5. CASE Name(s)
    <3>a. seed' = seed + 1 /\ seed \in Nat \ {0} BY <2>5 DEF Name, Kinds
    <3>1. Ids' = Ids \cup {seed} /\ seed \notin Ids BY <3>a DEF Ids
    <3>2. PICK c \in Clients :
            /\ fds[hand[s].fd] = Conn(c) /\ hand[s].fd \in Fds
            /\ origin' = [id \in DOMAIN origin \cup {seed} |-> IF id = seed THEN c ELSE origin[id]]
      BY <2>5 DEF Name, ConnOf
    <3>3. conn[c] = "accepted" /\ UNCHANGED conn BY <2>5, <3>2 DEF Inv, Connections, Name
    <3>4. origin'[seed] = c /\ \A i \in Ids : origin'[i] = origin[i] BY <2>4, <3>1, <3>2
    <3> QED BY <2>2, <2>3, <2>4, <3>1, <3>3, <3>4, FlowStutters
  <2>6. CASE ~Name(s)
    <3>1. UNCHANGED <<seed, origin>>
      BY <2>1, <2>6 DEF AcceptThread, CheckRunning, Turn, Accept, AcceptFails, AfterFailure, Receive,
                        ReceiveFails, Register, Notify
    <3>2. Ids' = Ids BY <3>1 DEF Ids
    <3>3. CASE ReceiveFails(s)
      <4>1. \A i \in Ids : fds[hand[s].fd] # Conn(origin[i])
        BY <3>3 DEF ReceiveFails, Inv, Threads, Thread
      <4>2. \A i \in Ids : conn'[origin[i]] = conn[origin[i]]
        BY <3>3, <4>1 DEF ReceiveFails, Closing, Kinds
      <4> QED BY <2>2, <2>3, <2>4, <3>1, <3>2, <4>2, FlowStutters
    <3>4. CASE Accept(s)
      <4>1. \A d \in Clients : (conn'[d] = "closed") <=> (conn[d] = "closed")
        BY <3>4 DEF Accept, Kinds
      <4>2. \A i \in Ids : origin[i] \in Clients BY DEF Kinds
      <4> QED BY <2>2, <2>3, <2>4, <3>1, <3>2, <4>1, <4>2, FlowStutters
    <3>5. CASE ~ReceiveFails(s) /\ ~Accept(s)
      <4>1. UNCHANGED conn
        BY <2>1, <2>6, <3>5 DEF AcceptThread, CheckRunning, Turn, AcceptFails, AfterFailure, Receive,
                                Register, Notify
      <4> QED BY <2>2, <2>3, <2>4, <3>1, <3>2, <4>1, FlowStutters
    <3> QED BY <3>3, <3>4, <3>5
  <2> QED BY <2>5, <2>6
<1>2. CASE ~ \E s \in Servers : AcceptThread(s) /\ ~Enqueue(s)
  <2>1. UNCHANGED <<queue, got, handed, to, seed, origin>>
    BY <1>2 DEF OpenRegisters, NextSleeps, SpuriousWakeup, CloseJoins, CloseShutsDown, CloseListener,
                NextCalled, CloseStops, Send, Client, Connect, HangUp, Write
  <2>2. Ids' = Ids /\ DOMAIN origin = Ids /\ \A i \in Ids : origin[i] \in Clients BY <2>1 DEF Ids, Kinds
  <2>3. Live' = Live
    <3>1. CASE OpenRegisters
      BY <3>1 DEF OpenRegisters, Live, Idle
    <3>2. CASE NextSleeps \/ SpuriousWakeup \/ CloseJoins \/ CloseShutsDown \/ CloseListener
      BY <3>2 DEF NextSleeps, SpuriousWakeup, CloseJoins, CloseShutsDown, CloseListener, Live, Kinds
    <3>3. CASE \E s \in Servers : NextCalled(s) \/ CloseStops(s)
      BY <3>3 DEF NextCalled, CloseStops, Calling, Live
    <3>4. CASE \E id \in handed : Send(id)
      BY <3>4 DEF Send, Calling, Live
    <3>5. CASE \E c \in Clients : Client(c)
      BY <3>5 DEF Client, Connect, HangUp, Write, Live
    <3> QED BY <1>2, <3>1, <3>2, <3>3, <3>4, <3>5
  <2>4. \A i \in Ids : (conn'[origin[i]] = "closed") <=> (conn[origin[i]] = "closed")
    <3>1. \A i \in Ids : conn[origin[i]] \in {"accepted", "closed"} BY DEF Inv, Names
    <3>2. CASE CloseListener BY <2>2, <3>1, <3>2 DEF CloseListener, Kinds
    <3>3. CASE \E c \in Clients : Client(c)
      BY <2>2, <3>1, <3>3 DEF Client, Connect, HangUp, Write, Kinds
    <3>4. CASE ~CloseListener /\ ~ \E c \in Clients : Client(c)
      BY <1>2, <3>4 DEF OpenRegisters, NextSleeps, SpuriousWakeup, CloseJoins, CloseShutsDown,
                        NextCalled, CloseStops, Send
    <3> QED BY <3>2, <3>3, <3>4
  <2> QED BY <2>1, <2>2, <2>3, <2>4, FlowStutters
<1> QED BY <1>1, <1>2

\* The socket server implements RequestFlow: the requests of a server form one line, each is handed
\* out at most once and in order, only what was handed out is answered, and close drops the rest.
THEOREM ServerImplementsFlow == Spec => ImplementsFlow
<1>1. Init => Flow!Init
  <2> SUFFICES ASSUME Init PROVE Flow!Init OBVIOUS
  <2>1. ASSUME NEW c \in Clients PROVE StageOf(c) = "new"
    <3>1. got[c] = <<>> /\ ~Named(c) /\ ~Given(c) /\ ~Waits(c) BY DEF Init, Named, Given, Waits
    <3> QED BY <3>1 DEF StageOf, Waits
  <2>2. \A s \in Servers : ClientsOf(queue[s]) = <<>> BY DEF Init, ClientsOf
  <2>3. vm.at # "open" /\ servers = {} BY DEF Init, Idle
  <2> QED BY <2>1, <2>2, <2>3 DEF Init, Flow!Init
<1>2. Kinds /\ Inv /\ Kinds' /\ [Next]_vars => [Flow!Next]_(Flow!vars)
  <2> SUFFICES ASSUME Kinds, Inv, Kinds', [Next]_vars PROVE Flow!Next \/ UNCHANGED Flow!vars OBVIOUS
  <2>1. CASE UNCHANGED vars
    BY <2>1 DEF vars, Flow!vars, StageOf, Named, Given, ClientsOf
  <2>2. CASE Next
    <3>1. Flow!Next \/ UNCHANGED <<Live, Line, Stage, to>>
      BY <2>2, FlowEnqueue, FlowNextReturns, FlowSend, FlowCloseSweeps, FlowOpen, FlowOthers
         DEF Next, VmThread, Call
    <3> QED BY <3>1, FlowStep
  <2> QED BY <2>1, <2>2
<1> QED BY <1>1, <1>2, InvHolds, PTL DEF Spec, ImplementsFlow, Flow!Spec
==============================================================================
