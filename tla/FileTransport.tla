------------------------------ MODULE FileTransport ------------------------------
(***************************************************************************)
(* vm_low_level_http_server.cpp, the file transport: when the environment   *)
(* names a directory, requests and responses of one port go from process to *)
(* process as files of its directory. A client here is one call of          *)
(* tryLowLevelHttpFileTransportRequest, which makes one request id; a       *)
(* server is a process that opens, serves and closes the port, one session  *)
(* after the other. Nothing keeps two servers off the same port. Either     *)
(* side may stop at any step, also in the middle of a file. What is in a    *)
(* request is left out, but for whether the file is whole. MaxFaults bounds *)
(* the errors that the code does not look at.                               *)
(***************************************************************************)
EXTENDS Integers

CONSTANTS Clients, Servers,
          MaxSessions,    \* how often the port is opened in all
          MaxFaults       \* how many errors may go unseen

ASSUME BoundsAssumption == MaxSessions \in Nat /\ MaxFaults \in Nat
ASSUME WritersAssumption == Clients \cap Servers = {}

VARIABLES
  ready,    \* the file "ready" is there
  req,      \* per client: its .req file
  resp,     \* per client: its .resp file
  draft,    \* per client and server: the temporary file it is writing
  client,   \* per client: where its call is
  late,     \* clients whose deadline has passed
  server,   \* per server: where it is
  has,      \* per server: the request it is busy with
  table,    \* per server: gLowHttpRequests, the requests it may answer
  opened,   \* how often the port has been opened
  session,  \* per server: which of those it was when it opened the port last
  faults,   \* how many errors have gone unseen
  \* history, each but the first a set of clients
  handed,   \* per client: the sessions whose program got its request
  again,    \* a session's program got the request more than once
  lost,     \* a session had taken the request and will not answer
  shared,   \* two servers at once had found the request
  cut,      \* the request or a response was not flushed to its end, unseen
  stuck     \* the request or the response was not removed when it should be

files == <<ready, req, resp, draft>>
sessions == <<opened, session>>
marks == <<faults, cut, stuck>>
history == <<handed, again, lost, shared, marks>>
vars == <<files, client, late, server, has, table, sessions, history>>

FileStates   == {"none", "partial", "whole"}
ClientStates == {"looking", "writing", "renaming", "awaiting", "withdrawing", "reading", "read",
                 "garbled", "done", "failed", "gone"}
ServerStates == {"down", "opening", "idle", "seeking", "found", "decoded", "registered",
                 "sending", "renaming", "closing"}
None == "none"
ASSUME NoneAssumption == None \notin Clients
Sessions == 1..MaxSessions

Init ==
  /\ ready = FALSE
  /\ req = [c \in Clients |-> "none"] /\ resp = [c \in Clients |-> "none"]
  /\ draft = [w \in Clients \cup Servers |-> "none"]
  /\ client = [c \in Clients |-> "looking"] /\ late = {}
  /\ server = [s \in Servers |-> "down"] /\ has = [s \in Servers |-> None]
  /\ table = [s \in Servers |-> {}] /\ opened = 0 /\ session = [s \in Servers |-> 0]
  /\ handed = [c \in Clients |-> {}] /\ again = {} /\ lost = {} /\ shared = {}
  /\ faults = 0 /\ cut = {} /\ stuck = {}

-----------------------------------------------------------------------------
(* Files *)

Unseen == faults < MaxFaults /\ faults' = faults + 1

\* writeAtomicFile. The temporary file is opened, empty;
Begin(w) == draft' = [draft EXCEPT ![w] = "partial"]

\* it is filled and closed, and what closing fails to flush goes unseen: the stream is
\* looked at before it is closed;
Fill(w, c) == /\ \/ draft' = [draft EXCEPT ![w] = "whole"] /\ UNCHANGED <<faults, cut>>
                 \/ Unseen /\ cut' = cut \cup {c} /\ UNCHANGED draft
              /\ UNCHANGED stuck

\* it is renamed,
Rename(w, c, file) == [file EXCEPT ![c] = draft[w]]

\* or after an error removed; left behind, when that fails too or the writer stops, it has a
\* name that nobody looks for.
Drop(w) == draft' = [draft EXCEPT ![w] = "none"]

\* std::filesystem::remove of c's file, its error ignored
Remove(c, file) ==
  /\ \/ file' = [file EXCEPT ![c] = "none"] /\ UNCHANGED <<faults, stuck>>
     \/ file[c] # "none" /\ Unseen /\ stuck' = stuck \cup {c} /\ UNCHANGED file
  /\ UNCHANGED cut

-----------------------------------------------------------------------------
(* The client: tryLowLevelHttpFileTransportRequest *)

Client(c, from, to) == client[c] = from /\ client' = [client EXCEPT ![c] = to]
ClientOnly == UNCHANGED <<server, has, table, sessions, handed, again, lost, shared>>

\* twenty seconds from the start of the call, for the server to be ready and to answer
Expire(c) ==
  /\ client[c] \in {"looking", "awaiting"} /\ c \notin late
  /\ late' = late \cup {c}
  /\ ClientOnly /\ UNCHANGED <<files, client, marks>>

FindReady(c) ==
  /\ ready /\ Client(c, "looking", "writing")
  /\ Begin(c)
  /\ ClientOnly /\ UNCHANGED <<ready, req, resp, late, marks>>

NotReady(c) ==
  /\ ~ready /\ c \in late /\ Client(c, "looking", "failed")
  /\ ClientOnly /\ UNCHANGED <<files, late, marks>>

FillRequest(c) ==
  /\ Client(c, "writing", "renaming")
  /\ Fill(c, c)
  /\ ClientOnly /\ UNCHANGED <<ready, req, resp, late>>

WriteRequest(c) ==
  /\ Client(c, "renaming", "awaiting")
  /\ req' = Rename(c, c, req) /\ Drop(c)
  /\ ClientOnly /\ UNCHANGED <<ready, resp, late, marks>>

\* the temporary file cannot be opened, written or renamed
CannotWrite(c) ==
  /\ Client(c, "writing", "failed") \/ Client(c, "renaming", "failed")
  /\ Drop(c)
  /\ ClientOnly /\ UNCHANGED <<ready, req, resp, late, marks>>

FindResponse(c) ==
  /\ resp[c] # "none" /\ Client(c, "awaiting", "reading")
  /\ ClientOnly /\ UNCHANGED <<files, late, marks>>

\* slip: only the wait for the server looks at the clock
WaitOn(c) == c \in late /\ UNCHANGED vars

\* no response when it looked, and past the deadline when it looked at the clock
GiveUp(c) ==
  /\ resp[c] = "none" /\ c \in late /\ Client(c, "awaiting", "withdrawing")
  /\ ClientOnly /\ UNCHANGED <<files, late, marks>>

\* slip: the request stays when its client gives up
WithdrawNothing(c) ==
  /\ Client(c, "withdrawing", "failed")
  /\ ClientOnly /\ UNCHANGED <<files, late, marks>>

\* slip: the error is not set
WithdrawSilently(c) ==
  /\ Client(c, "withdrawing", "done")
  /\ Remove(c, req)
  /\ ClientOnly /\ UNCHANGED <<ready, resp, draft, late>>

Withdraw(c) ==
  /\ Client(c, "withdrawing", "failed")
  /\ Remove(c, req)
  /\ ClientOnly /\ UNCHANGED <<ready, resp, draft, late>>

\* a piece of a response is taken for one when the first line is in it; the file may fail
\* to open, and stays then
Read(c) ==
  /\ \/ resp[c] # "none" /\ Client(c, "reading", "read")
     \/ resp[c] = "partial" /\ Client(c, "reading", "garbled")
     \/ Client(c, "reading", "failed")
  /\ ClientOnly /\ UNCHANGED <<files, late, marks>>

RemoveResponse(c) ==
  /\ Client(c, "read", "done") \/ Client(c, "garbled", "failed")
  /\ Remove(c, resp)
  /\ ClientOnly /\ UNCHANGED <<ready, req, draft, late>>

ClientStep(c) ==
  \/ FindReady(c) \/ NotReady(c) \/ FillRequest(c) \/ WriteRequest(c) \/ CannotWrite(c)
  \/ FindResponse(c) \/ GiveUp(c) \/ Withdraw(c) \/ Read(c) \/ RemoveResponse(c)

\* the process of the client stops; its files stay
Stops(c) ==
  /\ client[c] \notin {"done", "failed", "gone"}
  /\ client' = [client EXCEPT ![c] = "gone"]
  /\ Drop(c)
  /\ ClientOnly /\ UNCHANGED <<ready, req, resp, late, marks>>

-----------------------------------------------------------------------------
(* The server: open, next, send and close, called by one thread *)

Server(s, from, to) == server[s] = from /\ server' = [server EXCEPT ![s] = to]
ServerOnly == UNCHANGED <<client, late>>
Taking == {"found", "decoded", "registered"}
Answering == {"sending", "renaming"}
\* requests that only session s can still answer
Held(s) == {c \in table[s] : req[c] = "none"} \cup (IF server[s] \in Answering THEN {has[s]} ELSE {})

\* openFileTransportServer: the directories, the server, then "ready"
Open(s) ==
  /\ opened < MaxSessions /\ Server(s, "down", "opening")
  /\ opened' = opened + 1
  /\ session' = [session EXCEPT ![s] = opened + 1]
  /\ ServerOnly /\ UNCHANGED <<files, has, table, history>>

\* nobody reads "ready": that it is there is all that counts
WriteReady(s) ==
  /\ Server(s, "opening", "idle")
  /\ ready' = TRUE
  /\ ServerOnly /\ UNCHANGED <<req, resp, draft, has, table, sessions, history>>

CannotOpen(s) ==
  /\ Server(s, "opening", "down")
  /\ ServerOnly /\ UNCHANGED <<files, has, table, sessions, history>>

\* enqueueNextFileTransportRequest: any of the files may be the first in the listing the
\* iterator gives, which is no snapshot of the directory
NextCalled(s) ==
  /\ Server(s, "idle", "seeking")
  /\ ServerOnly /\ UNCHANGED <<files, has, table, sessions, history>>

Find(s, c) ==
  /\ req[c] # "none" /\ Server(s, "seeking", "found")
  /\ has' = [has EXCEPT ![s] = c]
  /\ shared' = IF \E r \in Servers : has[r] = c /\ server[r] \in Taking
               THEN shared \cup {c} ELSE shared
  /\ ServerOnly /\ UNCHANGED <<files, table, sessions, handed, again, lost, marks>>

\* slip: the file is removed as soon as it is read
DecodeAndRemove(s) ==
  /\ Server(s, "found", "decoded") /\ req[has[s]] = "whole"
  /\ req' = [req EXCEPT ![has[s]] = "none"]
  /\ ServerOnly /\ UNCHANGED <<ready, resp, draft, has, table, sessions, history>>

\* a piece of a request is never decoded: the size of its body comes before the body
Decode(s) ==
  /\ Server(s, "found", "decoded") /\ req[has[s]] = "whole"
  /\ ServerOnly /\ UNCHANGED <<files, has, table, sessions, history>>

\* slip: a file that has gone since it was listed is not a file that cannot be decoded
DiscardUnlessGone(s) ==
  /\ Server(s, "found", "seeking") /\ req[has[s]] = "partial"
  /\ Remove(has[s], req)
  /\ has' = [has EXCEPT ![s] = None]
  /\ ServerOnly /\ UNCHANGED <<ready, resp, draft, table, sessions, handed, again, lost, shared>>

\* a file that cannot be decoded is removed
Discard(s) ==
  /\ Server(s, "found", "seeking") /\ req[has[s]] # "whole"
  /\ Remove(has[s], req)
  /\ has' = [has EXCEPT ![s] = None]
  /\ ServerOnly /\ UNCHANGED <<ready, resp, draft, table, sessions, handed, again, lost, shared>>

Register(s) ==
  /\ Server(s, "decoded", "registered")
  /\ table' = [table EXCEPT ![s] = @ \cup {has[s]}]
  /\ ServerOnly /\ UNCHANGED <<files, has, sessions, history>>

\* the program of s has the request
HandOut(s) ==
  /\ handed' = [handed EXCEPT ![has[s]] = @ \cup {session[s]}]
  /\ again' = IF session[s] \in handed[has[s]] THEN again \cup {has[s]} ELSE again
  /\ has' = [has EXCEPT ![s] = None]

\* slip: the file stays
NextReturnsOnly(s) ==
  /\ Server(s, "registered", "idle")
  /\ HandOut(s)
  /\ ServerOnly /\ UNCHANGED <<files, table, sessions, lost, shared, marks>>

NextReturns(s) ==
  /\ Server(s, "registered", "idle")
  /\ Remove(has[s], req) /\ HandOut(s)
  /\ ServerOnly /\ UNCHANGED <<ready, resp, draft, table, sessions, lost, shared>>

\* runLowLevelHttpServerSend
SendCalled(s, c) ==
  /\ c \in table[s] /\ Server(s, "idle", "sending")
  /\ table' = [table EXCEPT ![s] = @ \ {c}]
  /\ has' = [has EXCEPT ![s] = c]
  /\ Begin(s)
  /\ ServerOnly /\ UNCHANGED <<ready, req, resp, sessions, history>>

FillResponse(s) ==
  /\ Server(s, "sending", "renaming")
  /\ Fill(s, has[s])
  /\ ServerOnly
  /\ UNCHANGED <<ready, req, resp, has, table, sessions, handed, again, lost, shared>>

WriteResponse(s) ==
  /\ Server(s, "renaming", "idle")
  /\ resp' = Rename(s, has[s], resp) /\ Drop(s)
  /\ has' = [has EXCEPT ![s] = None]
  /\ ServerOnly /\ UNCHANGED <<ready, req, table, sessions, history>>

CannotSend(s) ==
  /\ Server(s, "sending", "idle") \/ Server(s, "renaming", "idle")
  /\ Drop(s)
  /\ lost' = lost \cup {has[s]}
  /\ has' = [has EXCEPT ![s] = None]
  /\ ServerOnly /\ UNCHANGED <<ready, req, resp, table, sessions, handed, again, shared, marks>>

\* runLowLevelHttpServerClose
CloseCalled(s) ==
  /\ Server(s, "idle", "closing")
  /\ ready' = FALSE
  /\ ServerOnly /\ UNCHANGED <<req, resp, draft, has, table, sessions, history>>

CloseReturns(s) ==
  /\ Server(s, "closing", "down")
  /\ lost' = lost \cup Held(s)
  /\ table' = [table EXCEPT ![s] = {}]
  /\ ServerOnly /\ UNCHANGED <<files, has, sessions, handed, again, shared, marks>>

\* the process of the server stops; its files stay
Crash(s) ==
  /\ server[s] # "down" /\ server' = [server EXCEPT ![s] = "down"]
  /\ lost' = lost \cup Held(s)
  /\ table' = [table EXCEPT ![s] = {}] /\ has' = [has EXCEPT ![s] = None]
  /\ Drop(s)
  /\ ServerOnly /\ UNCHANGED <<ready, req, resp, sessions, handed, again, shared, marks>>

\* the rest of a call the program has made
InCall(s) ==
  \/ WriteReady(s) \/ CannotOpen(s) \/ Decode(s) \/ Discard(s) \/ Register(s) \/ NextReturns(s)
  \/ FillResponse(s) \/ WriteResponse(s) \/ CannotSend(s) \/ CloseReturns(s)
  \/ \E c \in Clients : Find(s, c)

ServerStep(s) ==
  \/ Open(s) \/ NextCalled(s) \/ CloseCalled(s) \/ InCall(s)
  \/ \E c \in Clients : SendCalled(s, c)

Next ==
  \/ \E c \in Clients : Expire(c) \/ ClientStep(c) \/ Stops(c)
  \/ \E s \in Servers : ServerStep(s) \/ Crash(s)

Spec == Init /\ [][Next]_vars

\* A thread goes on with a call it has begun, and the clock goes on. What the programs call
\* next, and whether a process stops, is not promised.
Fairness ==
  /\ \A c \in Clients : WF_vars(ClientStep(c)) /\ WF_vars(Expire(c))
  /\ \A s \in Servers : WF_vars(InCall(s))

FairSpec == Spec /\ Fairness

-----------------------------------------------------------------------------
Busy == Taking \cup Answering

Kinds ==
  /\ ready \in BOOLEAN
  /\ req \in [Clients -> FileStates] /\ resp \in [Clients -> FileStates]
  /\ draft \in [Clients \cup Servers -> FileStates]
  /\ client \in [Clients -> ClientStates] /\ late \subseteq Clients
  /\ server \in [Servers -> ServerStates] /\ has \in [Servers -> Clients \cup {None}]
  /\ table \in [Servers -> SUBSET Clients] /\ opened \in 0..MaxSessions
  /\ faults \in 0..MaxFaults
  /\ session \in [Servers -> 0..MaxSessions]
  /\ handed \in [Clients -> SUBSET Sessions]
  /\ again \subseteq Clients /\ lost \subseteq Clients /\ shared \subseteq Clients
  /\ cut \subseteq Clients /\ stuck \subseteq Clients
InHand(s) == has[s] \in Clients <=> server[s] \in Busy
InSession(s) == server[s] # "down" => session[s] \in Sessions

\* The kinds of the variables; and a server has a request in hand exactly while next or send
\* is busy with one, and is in a session while it is up.
TypeOK == Kinds /\ \A s \in Servers : InHand(s) /\ InSession(s)

\* Under its name a file is whole or not there (writeAtomicFile), although it is written in
\* steps and its writer may fail or stop after each: but for what closing failed to flush,
\* no piece of a request or of a response is to be found there, so that a server removes a
\* request unread only when it has gone already, and no client goes on with a piece.
WholeFiles ==
  \A c \in Clients \ cut :
    /\ req[c] # "partial" /\ resp[c] # "partial" /\ client[c] # "garbled"
    /\ client[c] = "read" => resp[c] = "whole"

\* The request of a client that waits is somewhere: in its file, in the table of a running
\* server, in the response being written or written, unless a session that had taken it
\* ended without an answer, or it or its response was cut short. A server that stops between
\* registering a request and removing its file loses nothing
\* (enqueueNextFileTransportRequest registers first).
Accounted ==
  \A c \in Clients \ cut : client[c] = "awaiting" =>
    \/ req[c] = "whole" \/ resp[c] = "whole" \/ c \in lost
    \/ \E s \in Servers : c \in table[s] \/ (server[s] \in Answering /\ has[s] = c)

\* A request is given to one session's program only, and once, even when its client gives up
\* or a server stops and opens again, unless two servers of the port had found it at once or
\* a file of it could not be removed.
TakenOnce ==
  \A c \in Clients \ (shared \cup stuck) : c \notin again /\ \A m, n \in handed[c] : m = n

\* A call that has returned leaves nothing behind: no request file for a later session to
\* run and, when it returned the answer, no response file, unless the request was shared or
\* a file of it could not be removed.
LeftClean ==
  \A c \in Clients \ stuck :
    /\ client[c] \in {"done", "failed"} => req[c] = "none"
    /\ client[c] = "done" /\ c \notin shared => resp[c] = "none"

\* The transport implements calls: run after they are made, and answered only if run.
CallOf(c) ==
  CASE client[c] \in {"looking", "writing", "renaming"} -> "none"
    [] client[c] \in {"awaiting", "withdrawing", "reading", "read", "garbled"} -> "pending"
    [] client[c] = "done" -> "answered"
    [] OTHER -> "failed"
Calls == INSTANCE RemoteCall WITH call <- [c \in Clients |-> CallOf(c)], runs <- handed
ImplementsCall == Calls!Spec

\* A call comes back, answered or not, whatever the servers do: both waits of the client look
\* at the clock (tryLowLevelHttpFileTransportRequest).
ClientReturns ==
  \A c \in Clients : client[c] = "looking" ~> client[c] \in {"done", "failed", "gone"}

\* next takes a request while there is one: it returns, or it has seen every file go and looks
\* for the next, a file that goes between listing and reading being passed over; but a piece
\* of a request that cannot be removed is found for ever.
NextServes ==
  \A s \in Servers :
    (server[s] = "seeking" /\ \E c \in Clients : req[c] = "whole")
      ~> \/ server[s] \in {"idle", "down"}
         \/ server[s] = "seeking" /\ \A c \in Clients : req[c] = "none"
         \/ \E c \in stuck : req[c] = "partial"
=================================================================================
