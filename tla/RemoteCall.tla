------------------------------- MODULE RemoteCall -------------------------------
(***************************************************************************)
(* What the file transport promises the two programs it connects: a call is *)
(* run by a session of a server only after it was made, it is answered only *)
(* if it was run, and how it ended is final. A call may be run and never    *)
(* answered, and run after its caller has given up. A session that runs a   *)
(* call again does nothing new here; TakenOnce of FileTransport speaks of   *)
(* that. Files, deadlines and crashes do not appear.                        *)
(***************************************************************************)
CONSTANTS Clients, Sessions

VARIABLES
  call,   \* per client: "none", "pending", "answered" or "failed"
  runs    \* per client: the sessions that ran its call

vars == <<call, runs>>

Init == /\ call = [c \in Clients |-> "none"]
        /\ runs = [c \in Clients |-> {}]

Make(c) == /\ call[c] = "none"
           /\ call' = [call EXCEPT ![c] = "pending"]
           /\ UNCHANGED runs

Run(c, n) == /\ call[c] # "none"
             /\ n \notin runs[c]
             /\ runs' = [runs EXCEPT ![c] = @ \cup {n}]
             /\ UNCHANGED call

Reply(c) == /\ call[c] = "pending"
            /\ runs[c] # {}
            /\ call' = [call EXCEPT ![c] = "answered"]
            /\ UNCHANGED runs

\* the caller gives up or stops, before the call is made or after
Fail(c) == /\ call[c] \in {"none", "pending"}
           /\ call' = [call EXCEPT ![c] = "failed"]
           /\ UNCHANGED runs

Next == \E c \in Clients : \/ Make(c) \/ Reply(c) \/ Fail(c)
                           \/ \E n \in Sessions : Run(c, n)

Spec == Init /\ [][Next]_vars
=================================================================================
