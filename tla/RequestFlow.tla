------------------------------ MODULE RequestFlow ------------------------------
(***************************************************************************)
(* What the HTTP server of the standard library promises its program: the  *)
(* requests that reach an open server form one line, each is handed to the *)
(* program at most once and in the order of the line, only a request that  *)
(* was handed out is answered, and at most once; closing a server drops    *)
(* what it has not answered and takes nothing more.  Sockets, threads and  *)
(* tables do not appear.                                                   *)
(***************************************************************************)
EXTENDS Sequences

CONSTANTS Servers, Clients

VARIABLES
  open,    \* servers that take requests
  line,    \* per server: clients whose request waits, oldest first
  stage,   \* per client: "new", "waiting", "handed", "answered" or "dropped"
  at       \* per client: the server its request goes to

vars == <<open, line, stage, at>>

Init ==
  /\ open = {}
  /\ line = [s \in Servers |-> <<>>]
  /\ stage = [c \in Clients |-> "new"]
  /\ at \in [Clients -> Servers]

Open(s) ==
  /\ open' = open \cup {s}
  /\ UNCHANGED <<line, stage, at>>

Arrive(c) ==
  /\ at[c] \in open
  /\ stage[c] = "new"
  /\ stage' = [stage EXCEPT ![c] = "waiting"]
  /\ line' = [line EXCEPT ![at[c]] = Append(@, c)]
  /\ UNCHANGED <<open, at>>

Hand(s) ==
  /\ line[s] # <<>>
  /\ stage' = [stage EXCEPT ![Head(line[s])] = "handed"]
  /\ line' = [line EXCEPT ![s] = Tail(@)]
  /\ UNCHANGED <<open, at>>

\* the answer reaches the client, or the client is gone
Answer(c) ==
  /\ stage[c] = "handed"
  /\ \E outcome \in {"answered", "dropped"} : stage' = [stage EXCEPT ![c] = outcome]
  /\ UNCHANGED <<open, line, at>>

Close(s) ==
  /\ open' = open \ {s}
  /\ line' = [line EXCEPT ![s] = <<>>]
  /\ stage' = [c \in Clients |-> IF at[c] = s /\ stage[c] \in {"waiting", "handed"}
                                   THEN "dropped" ELSE stage[c]]
  /\ UNCHANGED at

Next ==
  \/ \E s \in Servers : Open(s) \/ Hand(s) \/ Close(s)
  \/ \E c \in Clients : Arrive(c) \/ Answer(c)

Spec == Init /\ [][Next]_vars
==============================================================================
