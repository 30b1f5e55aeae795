-------------------------- MODULE FileTransportProofs --------------------------
(***************************************************************************)
(* The safety of FileTransport for every set of clients and servers and any *)
(* number of sessions.                                                      *)
(***************************************************************************)
EXTENDS FileTransport, TLAPS

-----------------------------------------------------------------------------
(* Type correctness *)

LEMMA TypeInit == Init => TypeOK
<1> SUFFICES ASSUME Init PROVE TypeOK OBVIOUS
<1> USE BoundsAssumption DEF Init
<1>1. ready \in BOOLEAN /\ late \subseteq Clients /\ again \subseteq Clients /\ lost \subseteq Clients
      /\ shared \subseteq Clients /\ cut \subseteq Clients /\ stuck \subseteq Clients
  OBVIOUS
<1>0. 0 \in 0..MaxSessions /\ 0 \in 0..MaxFaults OBVIOUS
<1>5. faults \in 0..MaxFaults /\ opened \in 0..MaxSessions /\ session \in [Servers -> 0..MaxSessions]
  BY <1>0
<1>2. /\ req \in [Clients -> FileStates] /\ resp \in [Clients -> FileStates]
      /\ draft \in [Clients \cup Servers -> FileStates]
      /\ client \in [Clients -> ClientStates] /\ server \in [Servers -> ServerStates]
  BY DEF FileStates, ClientStates, ServerStates
<1>3. /\ has \in [Servers -> Clients \cup {None}] /\ table \in [Servers -> SUBSET Clients]
      /\ handed \in [Clients -> SUBSET Sessions]
  OBVIOUS
<1>4. \A s \in Servers : InHand(s) /\ InSession(s)
  BY NoneAssumption DEF InHand, InSession, Busy, Taking, Answering
<1> QED BY <1>1, <1>2, <1>3, <1>4, <1>5 DEF TypeOK, Kinds

LEMMA TypeClient ==
  ASSUME TypeOK, NEW c \in Clients, Expire(c) \/ ClientStep(c) \/ Stops(c)
  PROVE  TypeOK'
<1>1. Kinds'
  <2> USE BoundsAssumption DEF TypeOK, Kinds, FileStates, ClientStates, Client, ClientOnly, sessions, files, marks, Begin, Fill, Rename, Drop, Remove, Unseen
  <2>1. CASE Expire(c) BY <2>1 DEF Expire
  <2>2. CASE FindReady(c) BY <2>2 DEF FindReady
  <2>3. CASE NotReady(c) BY <2>3 DEF NotReady
  <2>4. CASE WriteRequest(c) BY <2>4 DEF WriteRequest
  <2>12. CASE FillRequest(c) BY <2>12 DEF FillRequest
  <2>5. CASE CannotWrite(c) BY <2>5 DEF CannotWrite
  <2>6. CASE FindResponse(c) BY <2>6 DEF FindResponse
  <2>7. CASE GiveUp(c) BY <2>7 DEF GiveUp
  <2>8. CASE Withdraw(c) BY <2>8 DEF Withdraw
  <2>9. CASE Read(c) BY <2>9 DEF Read
  <2>10. CASE RemoveResponse(c) BY <2>10 DEF RemoveResponse
  <2>11. CASE Stops(c) BY <2>11 DEF Stops
  <2> QED BY <2>1, <2>2, <2>3, <2>4, <2>5, <2>6, <2>7, <2>8, <2>9, <2>10, <2>11, <2>12 DEF ClientStep
<1>2. UNCHANGED <<server, has, session>>
  BY DEF Expire, ClientStep, FindReady, NotReady, FillRequest, WriteRequest, CannotWrite, FindResponse, GiveUp,
         Withdraw, Read, RemoveResponse, Stops, ClientOnly, sessions, files, marks
<1> QED BY <1>1, <1>2 DEF TypeOK, InHand, InSession

LEMMA TypeServer ==
  ASSUME TypeOK, NEW s \in Servers, ServerStep(s) \/ Crash(s)
  PROVE  TypeOK'
<1> USE DEF TypeOK, Server, ServerOnly, sessions, files, marks, history, Taking, Answering, Begin, Fill, Rename, Drop, Remove, Unseen, HandOut
<1>1. Kinds'
  <2> USE BoundsAssumption DEF Kinds, FileStates, ServerStates
  <2>1. CASE Open(s) BY <2>1 DEF Open
  <2>2. CASE WriteReady(s) BY <2>2 DEF WriteReady
  <2>3. CASE CannotOpen(s) BY <2>3 DEF CannotOpen
  <2>4. CASE NextCalled(s) BY <2>4 DEF NextCalled
  <2>5. ASSUME NEW c \in Clients, Find(s, c) PROVE Kinds' BY <2>5 DEF Find
  <2>6. CASE Decode(s) BY <2>6 DEF Decode
  <2>7. CASE Discard(s) BY <2>7 DEF Discard, InHand, Busy
  <2>8. CASE Register(s) BY <2>8 DEF Register, InHand, Busy
  <2>9. CASE NextReturns(s)
    <3>1. has[s] \in Clients /\ session[s] \in Sessions BY <2>9 DEF NextReturns, InHand, InSession, Busy
    <3> QED BY <2>9, <3>1 DEF NextReturns
  <2>10. ASSUME NEW c \in Clients, SendCalled(s, c) PROVE Kinds'
    BY <2>10 DEF SendCalled
  <2>11. CASE WriteResponse(s) BY <2>11 DEF WriteResponse
  <2>17. CASE FillResponse(s) BY <2>17 DEF FillResponse, InHand, Busy
  <2>12. CASE CannotSend(s) BY <2>12 DEF CannotSend, InHand, Busy
  <2>13. CASE CloseCalled(s) BY <2>13 DEF CloseCalled
  <2>14. Held(s) \subseteq Clients BY DEF Held, InHand, Busy
  <2>15. CASE CloseReturns(s) BY <2>14, <2>15 DEF CloseReturns
  <2>16. CASE Crash(s) BY <2>14, <2>16 DEF Crash
  <2> QED
    BY <2>1, <2>2, <2>3, <2>4, <2>5, <2>6, <2>7, <2>8, <2>9, <2>10, <2>11, <2>12, <2>13, <2>15,
       <2>16, <2>17 DEF ServerStep, InCall
<1>2. \A r \in Servers \ {s} : has'[r] = has[r] /\ server'[r] = server[r] /\ session'[r] = session[r]
  BY DEF Kinds, ServerStep, InCall, Open, WriteReady, CannotOpen, NextCalled, Find, Decode, Discard,
         Register, NextReturns, SendCalled, FillResponse, WriteResponse, CannotSend, CloseCalled, CloseReturns, Crash
<1>3. InHand(s)'
  BY NoneAssumption
     DEF Kinds, InHand, Busy, ServerStep, InCall, Open, WriteReady, CannotOpen, NextCalled, Find, Decode,
         Discard, Register, NextReturns, SendCalled, FillResponse, WriteResponse, CannotSend, CloseCalled,
         CloseReturns, Crash
<1>4. InSession(s)'
  <2>1. CASE Open(s) BY <2>1, BoundsAssumption DEF Open, InSession, Kinds, Sessions
  <2>2. CASE ~Open(s)
    BY <2>2 DEF Kinds, InSession, ServerStep, InCall, WriteReady, CannotOpen, NextCalled, Find, Decode,
         Discard, Register, NextReturns, SendCalled, FillResponse, WriteResponse, CannotSend, CloseCalled,
         CloseReturns, Crash
  <2> QED BY <2>1, <2>2
<1> QED BY <1>1, <1>2, <1>3, <1>4 DEF InHand, InSession

LEMMA TypeStep == TypeOK /\ [Next]_vars => TypeOK'
<1> SUFFICES ASSUME TypeOK, [Next]_vars PROVE TypeOK' OBVIOUS
<1>1. CASE UNCHANGED vars BY <1>1 DEF vars, files, sessions, history, marks, TypeOK, Kinds, InHand, InSession
<1>2. CASE Next BY <1>2, TypeClient, TypeServer DEF Next
<1> QED BY <1>1, <1>2

\* The variables keep their types, and a server has a request in hand exactly while it is
\* busy with one.
THEOREM TypeCorrect == Spec => []TypeOK
BY TypeInit, TypeStep, PTL DEF Spec

-----------------------------------------------------------------------------
(* The inductive invariant *)

Takes(s, c)   == has[s] = c /\ server[s] \in Taking
Sending(s, c) == has[s] = c /\ server[s] \in Answering
Engaged(s, c) == has[s] = c \/ c \in table[s]
Answered(c)   == resp[c] # "none" \/ client[c] \in {"reading", "read", "garbled", "done"}

\* a file is renamed when it is filled; what is not whole then, and is found under a name
\* later, was cut short
Drafted(w, at, c) ==
  /\ at[w] \in {"writing", "sending"} => draft[w] = "partial"
  /\ at[w] = "renaming" => draft[w] = "whole" \/ (draft[w] = "partial" /\ c \in cut)
Pieces ==
  /\ \A c \in Clients : /\ Drafted(c, client, c)
                        /\ req[c] = "partial" \/ resp[c] = "partial" => c \in cut
                        /\ client[c] = "garbled" => c \in cut
  /\ \A s \in Servers : Drafted(s, server, has[s])

\* before its file is written nobody knows of a request
Unknown(c) == /\ req[c] = "none" /\ resp[c] = "none" /\ handed[c] = {}
              /\ \A s \in Servers : ~Engaged(s, c)
Before == \A c \in Clients : client[c] \in {"looking", "writing", "renaming"} => Unknown(c)

\* the file goes before the program has the request, and for good, unless it is stuck; a
\* response is there only after that, and until its client has read it
Behind == \A c \in Clients :
  /\ c \notin stuck /\ (handed[c] # {} \/ client[c] \in {"done", "failed"}) => req[c] = "none"
  /\ client[c] \in {"reading", "read", "garbled"} => resp[c] # "none"
  /\ Answered(c) => handed[c] # {}

\* what is in a table has been handed out, but for the request next has just put there
Kept == \A s \in Servers, c \in Clients :
  /\ server[s] = "registered" /\ has[s] = c => c \in table[s]
  /\ c \in table[s] \/ Sending(s, c) =>
      (handed[c] # {} \/ (server[s] = "registered" /\ has[s] = c))

\* a request that is not shared and not stuck is with one server at most, which has it either
\* to hand it out or to answer it, and no longer once there is an answer
Single(c) ==
  /\ c \notin again /\ \A m, n \in handed[c] : m = n
  /\ client[c] = "done" => resp[c] = "none"
  /\ \A r, s \in Servers : Engaged(r, c) /\ Engaged(s, c) => r = s
  /\ \A s \in Servers :
       /\ Takes(s, c) => handed[c] = {}
       /\ Sending(s, c) => c \notin table[s]
       /\ Answered(c) => ~Engaged(s, c)
Singles == \A c \in Clients \ (shared \cup stuck) : Single(c)

IInv == Pieces /\ Before /\ Behind /\ Kept /\ Singles /\ Accounted

LEMMA InvInit == Init => IInv
<1> SUFFICES ASSUME Init PROVE IInv OBVIOUS
<1> USE NoneAssumption DEF Init
<1>1. Pieces BY DEF Pieces, Drafted
<1>2. Before BY DEF Before, Unknown, Engaged
<1>3. Behind BY DEF Behind, Answered
<1>4. Kept BY DEF Kept, Sending
<1>5. Singles BY DEF Singles, Single, Engaged, Takes, Sending, Answered
<1>6. Accounted BY DEF Accounted
<1> QED BY <1>1, <1>2, <1>3, <1>4, <1>5, <1>6 DEF IInv

LEMMA InvClient ==
  ASSUME TypeOK, IInv, NEW c \in Clients, Expire(c) \/ ClientStep(c) \/ Stops(c)
  PROVE  IInv'
<1>0. \A d \in Clients, r \in Servers : d # r BY WritersAssumption
<1> USE <1>0 DEF TypeOK, Kinds, IInv, Client, ClientOnly, sessions, files, marks, Begin, Fill, Rename, Drop, Remove, Unseen, FileStates, ClientStates
<1>1. CASE Expire(c)
  <2> USE <1>1 DEF Expire
  <2>1. Pieces' BY DEF Pieces, Drafted
  <2>2. Before' BY DEF Before, Unknown, Engaged
  <2>3. Behind' BY DEF Behind, Answered
  <2>4. Kept' BY DEF Kept, Sending
  <2>5. Singles' BY DEF Singles, Single, Takes, Sending, Engaged, Answered
  <2>6. Accounted' BY DEF Accounted
  <2> QED BY <2>1, <2>2, <2>3, <2>4, <2>5, <2>6
<1>2. CASE FindReady(c)
  <2> USE <1>2 DEF FindReady
  <2>1. Pieces' BY DEF Pieces, Drafted
  <2>2. Before' BY DEF Before, Unknown, Engaged
  <2>3. Behind' BY DEF Behind, Answered
  <2>4. Kept' BY DEF Kept, Sending
  <2>5. Singles' BY DEF Singles, Single, Takes, Sending, Engaged, Answered
  <2>6. Accounted' BY DEF Accounted
  <2> QED BY <2>1, <2>2, <2>3, <2>4, <2>5, <2>6
<1>3. CASE NotReady(c)
  <2> USE <1>3 DEF NotReady
  <2>1. Pieces' BY DEF Pieces, Drafted
  <2>2. Before' BY DEF Before, Unknown, Engaged
  <2>3. Behind' BY DEF Before, Unknown, Behind, Answered
  <2>4. Kept' BY DEF Kept, Sending
  <2>5. Singles' BY DEF Singles, Single, Takes, Sending, Engaged, Answered
  <2>6. Accounted' BY DEF Accounted
  <2> QED BY <2>1, <2>2, <2>3, <2>4, <2>5, <2>6
<1>4. CASE WriteRequest(c)
  <2> USE <1>4 DEF WriteRequest
  <2>1. Pieces' BY DEF Pieces, Drafted
  <2>2. Before' BY DEF Before, Unknown, Engaged
  <2>3. Behind' BY DEF Before, Unknown, Behind, Answered
  <2>4. Kept' BY DEF Kept, Sending
  <2>5. Singles' BY DEF Singles, Single, Takes, Sending, Engaged, Answered
  <2>6. Accounted' BY DEF Accounted, Pieces, Drafted
  <2> QED BY <2>1, <2>2, <2>3, <2>4, <2>5, <2>6
<1>12. CASE FillRequest(c)
  <2> USE <1>12 DEF FillRequest
  <2>1. Pieces' BY DEF Pieces, Drafted
  <2>2. Before' BY DEF Before, Unknown, Engaged
  <2>3. Behind' BY DEF Behind, Answered
  <2>4. Kept' BY DEF Kept, Sending
  <2>5. Singles' BY DEF Singles, Single, Takes, Sending, Engaged, Answered
  <2>6. Accounted' BY DEF Accounted
  <2> QED BY <2>1, <2>2, <2>3, <2>4, <2>5, <2>6
<1>5. CASE CannotWrite(c)
  <2> USE <1>5 DEF CannotWrite
  <2>1. Pieces' BY DEF Pieces, Drafted
  <2>2. Before' BY DEF Before, Unknown, Engaged
  <2>3. Behind' BY DEF Before, Unknown, Behind, Answered
  <2>4. Kept' BY DEF Kept, Sending
  <2>5. Singles' BY DEF Singles, Single, Takes, Sending, Engaged, Answered
  <2>6. Accounted' BY DEF Accounted
  <2> QED BY <2>1, <2>2, <2>3, <2>4, <2>5, <2>6
<1>6. CASE FindResponse(c)
  <2> USE <1>6 DEF FindResponse
  <2>8. resp[c] # "none" OBVIOUS
  <2>1. Pieces' BY DEF Pieces, Drafted
  <2>2. Before' BY DEF Before, Unknown, Engaged
  <2>3. Behind' BY <2>8 DEF Behind, Answered
  <2>4. Kept' BY DEF Kept, Sending
  <2>7. \A d \in Clients : Answered(d)' <=> Answered(d) BY <2>8 DEF Answered
  <2>5. Singles' BY <2>7 DEF Singles, Single, Takes, Sending, Engaged
  <2>6. Accounted' BY DEF Accounted
  <2> QED BY <2>1, <2>2, <2>3, <2>4, <2>5, <2>6
<1>7. CASE GiveUp(c)
  <2> USE <1>7 DEF GiveUp
  <2>1. Pieces' BY DEF Pieces, Drafted
  <2>2. Before' BY DEF Before, Unknown, Engaged
  <2>3. Behind' BY DEF Behind, Answered
  <2>4. Kept' BY DEF Kept, Sending
  <2>5. Singles' BY DEF Singles, Single, Takes, Sending, Engaged, Answered
  <2>6. Accounted' BY DEF Accounted
  <2> QED BY <2>1, <2>2, <2>3, <2>4, <2>5, <2>6
<1>8. CASE Withdraw(c)
  <2> USE <1>8 DEF Withdraw
  <2>1. Pieces' BY DEF Pieces, Drafted
  <2>2. Before' BY DEF Before, Unknown, Engaged
  <2>3. Behind' BY DEF Behind, Answered
  <2>4. Kept' BY DEF Kept, Sending
  <2>5. Singles' BY DEF Singles, Single, Takes, Sending, Engaged, Answered
  <2>6. Accounted' BY DEF Accounted
  <2> QED BY <2>1, <2>2, <2>3, <2>4, <2>5, <2>6
<1>9. CASE Read(c)
  <2> USE <1>9 DEF Read
  <2>1. Pieces' BY DEF Pieces, Drafted, Behind
  <2>2. Before' BY DEF Before, Unknown, Engaged
  <2>3. Behind' BY DEF Behind, Answered
  <2>4. Kept' BY DEF Kept, Sending
  <2>5. Singles' BY DEF Singles, Single, Takes, Sending, Engaged, Answered
  <2>6. Accounted' BY DEF Accounted
  <2> QED BY <2>1, <2>2, <2>3, <2>4, <2>5, <2>6
<1>10. CASE RemoveResponse(c)
  <2> USE <1>10 DEF RemoveResponse
  <2>1. Pieces' BY DEF Pieces, Drafted
  <2>2. Before' BY DEF Before, Unknown, Engaged
  <2>3. Behind' BY DEF Behind, Answered
  <2>4. Kept' BY DEF Kept, Sending
  <2>5. Singles' BY DEF Singles, Single, Takes, Sending, Engaged, Answered
  <2>6. Accounted' BY DEF Accounted
  <2> QED BY <2>1, <2>2, <2>3, <2>4, <2>5, <2>6
<1>11. CASE Stops(c)
  <2> USE <1>11 DEF Stops
  <2>1. Pieces' BY DEF Pieces, Drafted
  <2>2. Before' BY DEF Before, Unknown, Engaged
  <2>3. Behind' BY DEF Behind, Answered
  <2>4. Kept' BY DEF Kept, Sending
  <2>5. Singles' BY DEF Singles, Single, Takes, Sending, Engaged, Answered
  <2>6. Accounted' BY DEF Accounted
  <2> QED BY <2>1, <2>2, <2>3, <2>4, <2>5, <2>6
<1> QED BY <1>1, <1>2, <1>3, <1>4, <1>5, <1>6, <1>7, <1>8, <1>9, <1>10, <1>11, <1>12 DEF ClientStep

LEMMA InvServer ==
  ASSUME TypeOK, TypeOK', IInv, NEW s \in Servers, ServerStep(s) \/ Crash(s)
  PROVE  IInv'
<1>0. \A d \in Clients, r \in Servers : d # r BY WritersAssumption
<1> USE <1>0, NoneAssumption DEF TypeOK, Kinds, IInv, Server, ServerOnly, sessions, files, marks, history, Taking, Answering, Begin, Fill, Rename, Drop, Remove, Unseen, HandOut, FileStates, ServerStates
<1>1. CASE Open(s)
  <2> USE <1>1 DEF Open
  <2>1. Pieces' BY DEF Pieces, Drafted
  <2>2. Before' BY DEF Before, Unknown, Engaged
  <2>3. Behind' BY DEF Behind, Answered
  <2>4. Kept' BY DEF Kept, Sending
  <2>5. Singles' BY DEF Singles, Single, Takes, Sending, Engaged, Answered
  <2>6. Accounted' BY DEF Accounted
  <2> QED BY <2>1, <2>2, <2>3, <2>4, <2>5, <2>6
<1>2. CASE WriteReady(s)
  <2> USE <1>2 DEF WriteReady
  <2>1. Pieces' BY DEF Pieces, Drafted
  <2>2. Before' BY DEF Before, Unknown, Engaged
  <2>3. Behind' BY DEF Behind, Answered
  <2>4. Kept' BY DEF Kept, Sending
  <2>5. Singles' BY DEF Singles, Single, Takes, Sending, Engaged, Answered
  <2>6. Accounted' BY DEF Accounted
  <2> QED BY <2>1, <2>2, <2>3, <2>4, <2>5, <2>6
<1>3. CASE CannotOpen(s)
  <2> USE <1>3 DEF CannotOpen
  <2>1. Pieces' BY DEF Pieces, Drafted
  <2>2. Before' BY DEF Before, Unknown, Engaged
  <2>3. Behind' BY DEF Behind, Answered
  <2>4. Kept' BY DEF Kept, Sending
  <2>5. Singles' BY DEF Singles, Single, Takes, Sending, Engaged, Answered
  <2>6. Accounted' BY DEF Accounted
  <2> QED BY <2>1, <2>2, <2>3, <2>4, <2>5, <2>6
<1>4. CASE NextCalled(s)
  <2> USE <1>4 DEF NextCalled
  <2>1. Pieces' BY DEF Pieces, Drafted
  <2>2. Before' BY DEF Before, Unknown, Engaged
  <2>3. Behind' BY DEF Behind, Answered
  <2>4. Kept' BY DEF Kept, Sending
  <2>5. Singles' BY DEF Singles, Single, Takes, Sending, Engaged, Answered
  <2>6. Accounted' BY DEF Accounted
  <2> QED BY <2>1, <2>2, <2>3, <2>4, <2>5, <2>6
<1>5. ASSUME NEW c \in Clients, Find(s, c) PROVE IInv'
  <2> USE <1>5 DEF Find
  <2>1. Pieces' BY DEF Pieces, Drafted
  <2>2. Before' BY DEF Before, Unknown, Engaged
  <2>3. Behind' BY DEF Behind, Answered
  <2>4. Kept' BY DEF Kept, Sending
  <2>5. Singles'
    <3>1. c \notin stuck => handed[c] = {} /\ ~Answered(c) BY DEF Behind
    <3>2. ASSUME c \notin shared' \cup stuck, NEW r \in Servers PROVE ~Engaged(r, c)
      <4>1. ~(has[r] = c /\ server[r] \in Taking) BY <3>2
      <4>2. c \notin table[r] /\ ~Sending(r, c) BY <3>1, <3>2, <4>1 DEF Kept
      <4>3. has[r] = c => server[r] \in Busy BY DEF InHand
      <4> QED BY <4>1, <4>2, <4>3 DEF Engaged, Sending, Busy
    <3>3. \A d \in Clients : Answered(d)' = Answered(d) BY DEF Answered
    <3>4. ASSUME c \notin shared' \cup stuck PROVE Single(c)'
      <4>1. client'[c] # "done" BY <3>1, <3>4 DEF Answered
      <4>2. c \notin shared BY <3>4
      <4>3. Single(c) BY <3>4, <4>2 DEF Singles
      <4> QED BY <3>1, <3>2, <3>3, <3>4, <4>1, <4>3 DEF Single, Takes, Sending, Engaged
    <3>5. ASSUME NEW d \in Clients \ (shared \cup stuck), d # c PROVE Single(d)'
      <4>1. Single(d) BY <3>5 DEF Singles
      <4> QED BY <3>3, <3>5, <4>1 DEF Single, Takes, Sending, Engaged
    <3> QED BY <3>4, <3>5 DEF Singles
  <2>6. Accounted' BY DEF Accounted
  <2> QED BY <2>1, <2>2, <2>3, <2>4, <2>5, <2>6
<1>6. CASE Decode(s)
  <2> USE <1>6 DEF Decode
  <2>1. Pieces' BY DEF Pieces, Drafted
  <2>2. Before' BY DEF Before, Unknown, Engaged
  <2>3. Behind' BY DEF Behind, Answered
  <2>4. Kept' BY DEF Kept, Sending
  <2>5. Singles' BY DEF Singles, Single, Takes, Sending, Engaged, Answered
  <2>6. Accounted' BY DEF Accounted
  <2> QED BY <2>1, <2>2, <2>3, <2>4, <2>5, <2>6
<1>7. CASE Discard(s)
  <2> USE <1>7 DEF Discard
  <2>1. Pieces' BY DEF Pieces, Drafted
  <2>2. Before' BY DEF Before, Unknown, Engaged
  <2>3. Behind' BY DEF Behind, Answered
  <2>4. Kept' BY DEF Kept, Sending
  <2>5. Singles' BY DEF Singles, Single, Takes, Sending, Engaged, Answered
  <2>6. Accounted' BY DEF Accounted
  <2> QED BY <2>1, <2>2, <2>3, <2>4, <2>5, <2>6
<1>8. CASE Register(s)
  <2> USE <1>8 DEF Register
  <2>1. Pieces' BY DEF Pieces, Drafted
  <2>2. Before' BY DEF Before, Unknown, Engaged
  <2>3. Behind' BY DEF Behind, Answered
  <2>4. Kept' BY DEF Kept, Sending
  <2>5. Singles' BY DEF Singles, Single, Takes, Sending, Engaged, Answered
  <2>6. Accounted' BY DEF Accounted
  <2> QED BY <2>1, <2>2, <2>3, <2>4, <2>5, <2>6
<1>9. CASE NextReturns(s)
  <2> USE <1>9 DEF NextReturns
  <2>1. Pieces' BY DEF Pieces, Drafted
  <2>2. Before' BY DEF Before, Unknown, Engaged
  <2>3. Behind' BY DEF Behind, Answered
  <2>4. Kept'
    <3>1. handed'[has[s]] # {} BY DEF InHand, Busy
    <3>2. \A d \in Clients : handed[d] # {} => handed'[d] # {} OBVIOUS
    <3>3. \A d \in Clients : d \in table[s] => handed'[d] # {} BY <3>1, <3>2 DEF Kept
    <3>4. \A r \in Servers \ {s}, d \in Clients : Sending(r, d)' => Sending(r, d) BY DEF Sending
    <3>5. \A d \in Clients : ~Sending(s, d)' BY DEF Sending
    <3> QED BY <3>2, <3>3, <3>4, <3>5 DEF Kept
  <2>5. Singles' BY DEF Singles, Single, Takes, Sending, Engaged, Answered
  <2>6. Accounted' BY DEF Accounted, Kept
  <2> QED BY <2>1, <2>2, <2>3, <2>4, <2>5, <2>6
<1>10. ASSUME NEW c \in Clients, SendCalled(s, c) PROVE IInv'
  <2> USE <1>10 DEF SendCalled
  <2>1. Pieces' BY DEF Pieces, Drafted
  <2>2. Before' BY DEF Before, Unknown, Engaged
  <2>3. Behind' BY DEF Behind, Answered
  <2>4. Kept' BY DEF Kept, Sending
  <2>5. Singles' BY DEF Singles, Single, Takes, Sending, Engaged, Answered
  <2>6. Accounted' BY DEF Accounted
  <2> QED BY <2>1, <2>2, <2>3, <2>4, <2>5, <2>6
<1>16. CASE FillResponse(s)
  <2> USE <1>16 DEF FillResponse
  <2>1. Pieces' BY DEF Pieces, Drafted
  <2>2. Before' BY DEF Before, Unknown, Engaged
  <2>3. Behind' BY DEF Behind, Answered
  <2>4. Kept' BY DEF Kept, Sending
  <2>5. Singles' BY DEF Singles, Single, Takes, Sending, Engaged, Answered
  <2>6. Accounted' BY DEF Accounted
  <2> QED BY <2>1, <2>2, <2>3, <2>4, <2>5, <2>6
<1>11. CASE WriteResponse(s)
  <2> USE <1>11 DEF WriteResponse
  <2>1. Pieces' BY DEF Pieces, Drafted
  <2>2. Before' BY DEF Before, Unknown, Engaged
  <2>3. Behind' BY DEF Behind, Answered, Kept, Sending, InHand, Busy, Pieces, Drafted
  <2>4. Kept' BY DEF Kept, Sending
  <2>5. Singles' BY DEF Singles, Single, Takes, Sending, Engaged, Answered
  <2>6. Accounted' BY DEF Accounted, Pieces, Drafted
  <2> QED BY <2>1, <2>2, <2>3, <2>4, <2>5, <2>6
<1>12. CASE CannotSend(s)
  <2> USE <1>12 DEF CannotSend
  <2>1. Pieces' BY DEF Pieces, Drafted
  <2>2. Before' BY DEF Before, Unknown, Engaged
  <2>3. Behind' BY DEF Behind, Answered
  <2>4. Kept' BY DEF Kept, Sending
  <2>5. Singles' BY DEF Singles, Single, Takes, Sending, Engaged, Answered
  <2>6. Accounted' BY DEF Accounted
  <2> QED BY <2>1, <2>2, <2>3, <2>4, <2>5, <2>6
<1>13. CASE CloseCalled(s)
  <2> USE <1>13 DEF CloseCalled
  <2>1. Pieces' BY DEF Pieces, Drafted
  <2>2. Before' BY DEF Before, Unknown, Engaged
  <2>3. Behind' BY DEF Behind, Answered
  <2>4. Kept' BY DEF Kept, Sending
  <2>5. Singles' BY DEF Singles, Single, Takes, Sending, Engaged, Answered
  <2>6. Accounted' BY DEF Accounted
  <2> QED BY <2>1, <2>2, <2>3, <2>4, <2>5, <2>6
<1>14. CASE CloseReturns(s)
  <2> USE <1>14 DEF CloseReturns, Held
  <2>1. Pieces' BY DEF Pieces, Drafted
  <2>2. Before' BY DEF Before, Unknown, Engaged
  <2>3. Behind' BY DEF Behind, Answered
  <2>4. Kept' BY DEF Kept, Sending
  <2>5. Singles' BY DEF Singles, Single, Takes, Sending, Engaged, Answered
  <2>6. Accounted' BY DEF Accounted, Pieces
  <2> QED BY <2>1, <2>2, <2>3, <2>4, <2>5, <2>6
<1>15. CASE Crash(s)
  <2> USE <1>15 DEF Crash, Held
  <2>1. Pieces' BY DEF Pieces, Drafted
  <2>2. Before' BY DEF Before, Unknown, Engaged
  <2>3. Behind' BY DEF Behind, Answered
  <2>4. Kept' BY DEF Kept, Sending
  <2>5. Singles' BY DEF Singles, Single, Takes, Sending, Engaged, Answered
  <2>6. Accounted' BY DEF Accounted, Pieces
  <2> QED BY <2>1, <2>2, <2>3, <2>4, <2>5, <2>6
<1> QED BY <1>1, <1>2, <1>3, <1>4, <1>5, <1>6, <1>7, <1>8, <1>9, <1>10, <1>11, <1>12, <1>13, <1>14, <1>15, <1>16 DEF ServerStep, InCall

LEMMA InvStep == TypeOK /\ IInv /\ [Next]_vars => IInv'
<1> SUFFICES ASSUME TypeOK, IInv, [Next]_vars PROVE IInv' OBVIOUS
<1>1. CASE UNCHANGED vars
  BY <1>1 DEF vars, files, sessions, history, marks, IInv, Pieces, Drafted, Before, Unknown, Behind, Kept, Singles, Single, Accounted,
              Takes, Sending, Engaged, Answered, Taking, Answering
<1>2. CASE Next BY <1>2, TypeStep, InvClient, InvServer DEF Next
<1> QED BY <1>1, <1>2

LEMMA InvHolds == Spec => [](TypeOK /\ IInv)
<1>1. Init => TypeOK /\ IInv BY TypeInit, InvInit
<1>2. TypeOK /\ IInv /\ [Next]_vars => (TypeOK /\ IInv)' BY TypeStep, InvStep
<1> QED BY <1>1, <1>2, PTL DEF Spec

\* A piece of a request or a response is never found under its name, nor read, unless
\* closing the file failed and nobody saw it: not when a writer fails or stops between two of
\* its steps, nor when two servers write the same response (writeAtomicFile).
THEOREM FilesAreWhole == Spec => []WholeFiles
<1>1. TypeOK /\ IInv => WholeFiles
  <2> SUFFICES ASSUME TypeOK, IInv, NEW c \in Clients \ cut
               PROVE  /\ req[c] # "partial" /\ resp[c] # "partial" /\ client[c] # "garbled"
                      /\ client[c] = "read" => resp[c] = "whole"
    BY DEF WholeFiles
  <2>1. req[c] # "partial" /\ resp[c] # "partial" /\ client[c] # "garbled"
    BY DEF IInv, Pieces
  <2>2. client[c] = "read" => resp[c] # "none"
    BY DEF IInv, Behind
  <2> QED BY <2>1, <2>2 DEF TypeOK, Kinds, FileStates
<1> QED BY <1>1, InvHolds, PTL

\* No request of a waiting client goes astray but with a session that ends.
THEOREM RequestsAreAccountedFor == Spec => []Accounted
<1>1. IInv => Accounted BY DEF IInv
<1> QED BY <1>1, InvHolds, PTL

\* One program gets a request, unless two servers had found it at once.
THEOREM RequestsAreTakenOnce == Spec => []TakenOnce
<1>1. IInv => TakenOnce BY DEF IInv, Singles, Single, TakenOnce
<1> QED BY <1>1, InvHolds, PTL

\* A call that has returned leaves no file behind.
THEOREM CallsLeaveClean == Spec => []LeftClean
<1>1. IInv => LeftClean
  BY DEF IInv, Behind, Singles, Single, LeftClean
<1> QED BY <1>1, InvHolds, PTL

-----------------------------------------------------------------------------
(* The refinement *)

\* what a client's step does to its call
LEMMA ClientCalls ==
  ASSUME TypeOK, IInv, NEW c \in Clients, Expire(c) \/ ClientStep(c) \/ Stops(c)
  PROVE  Calls!Next \/ UNCHANGED Calls!vars
<1> DEFINE call == [d \in Clients |-> CallOf(d)]
<1> USE DEF TypeOK, Kinds, Client, ClientOnly, sessions, files, marks, Begin, Fill, Rename, Drop, Remove, Unseen
<1>1. /\ handed' = handed
      /\ client' = [client EXCEPT ![c] = client'[c]]
  BY DEF Expire, ClientStep, FindReady, NotReady, FillRequest, WriteRequest, CannotWrite,
         FindResponse, GiveUp, Withdraw, Read, RemoveResponse, Stops
<1>2. call' = [call EXCEPT ![c] = CallOf(c)'] BY <1>1 DEF CallOf
<1>3. \/ CallOf(c)' = CallOf(c)
      \/ CallOf(c) = "none" /\ CallOf(c)' = "pending"
      \/ CallOf(c) = "pending" /\ CallOf(c)' = "answered" /\ handed[c] # {}
      \/ CallOf(c) \in {"none", "pending"} /\ CallOf(c)' = "failed"
  <2> USE DEF CallOf
  <2>1. CASE Expire(c) BY <2>1 DEF Expire
  <2>2. CASE FindReady(c) BY <2>2 DEF FindReady
  <2>3. CASE NotReady(c) BY <2>3 DEF NotReady
  <2>4. CASE WriteRequest(c) BY <2>4 DEF WriteRequest
  <2>12. CASE FillRequest(c) BY <2>12 DEF FillRequest
  <2>5. CASE CannotWrite(c) BY <2>5 DEF CannotWrite
  <2>6. CASE FindResponse(c) BY <2>6 DEF FindResponse
  <2>7. CASE GiveUp(c) BY <2>7 DEF GiveUp
  <2>8. CASE Withdraw(c) BY <2>8 DEF Withdraw
  <2>9. CASE Read(c) BY <2>9 DEF Read, IInv, Behind
  <2>10. CASE RemoveResponse(c) BY <2>10 DEF RemoveResponse, IInv, Behind, Answered
  <2>11. CASE Stops(c) BY <2>11 DEF Stops
  <2> QED BY <2>1, <2>2, <2>3, <2>4, <2>5, <2>6, <2>7, <2>8, <2>9, <2>10, <2>11, <2>12 DEF ClientStep
<1>4. call \in [Clients -> {"none", "pending", "answered", "failed"}] BY DEF CallOf
<1>5. CASE CallOf(c)' = CallOf(c) BY <1>1, <1>2, <1>4, <1>5 DEF Calls!vars
<1>6. CASE CallOf(c) = "none" /\ CallOf(c)' = "pending" BY <1>1, <1>2, <1>6 DEF Calls!Next, Calls!Make
<1>7. CASE CallOf(c) = "pending" /\ CallOf(c)' = "answered" /\ handed[c] # {}
  BY <1>1, <1>2, <1>7 DEF Calls!Next, Calls!Reply
<1>8. CASE CallOf(c) \in {"none", "pending"} /\ CallOf(c)' = "failed"
  BY <1>1, <1>2, <1>8 DEF Calls!Next, Calls!Fail
<1> QED BY <1>3, <1>5, <1>6, <1>7, <1>8

\* a server's step runs a call that was made, or none
LEMMA ServerCalls ==
  ASSUME TypeOK, IInv, NEW s \in Servers, ServerStep(s) \/ Crash(s)
  PROVE  Calls!Next \/ UNCHANGED Calls!vars
<1> USE DEF TypeOK, Kinds, Server, ServerOnly, sessions, files, marks, history, Taking, Answering, Begin, Fill, Rename, Drop, Remove, Unseen, HandOut
<1>1. [d \in Clients |-> CallOf(d)]' = [d \in Clients |-> CallOf(d)]
  BY DEF CallOf, ServerStep, InCall, Open, WriteReady, CannotOpen, NextCalled, Find, Decode, Discard,
         Register, NextReturns, SendCalled, FillResponse, WriteResponse, CannotSend, CloseCalled, CloseReturns, Crash
<1>2. CASE NextReturns(s)
  <2>1. has[s] \in Clients /\ session[s] \in Sessions
    BY <1>2 DEF NextReturns, InHand, InSession, Busy
  <2>2. CallOf(has[s]) # "none" BY <2>1 DEF IInv, Before, Unknown, Engaged, CallOf
  <2>3. handed' = [handed EXCEPT ![has[s]] = @ \cup {session[s]}] BY <1>2 DEF NextReturns
  <2>4. CASE session[s] \in handed[has[s]]
    BY <1>1, <2>1, <2>3, <2>4 DEF Calls!vars
  <2>5. CASE session[s] \notin handed[has[s]]
    BY <1>1, <2>1, <2>2, <2>3, <2>5 DEF Calls!Next, Calls!Run
  <2> QED BY <2>4, <2>5
<1>3. CASE ~NextReturns(s)
  <2>1. handed' = handed
    BY <1>3 DEF ServerStep, InCall, Open, WriteReady, CannotOpen, NextCalled, Find, Decode, Discard,
                Register, SendCalled, FillResponse, WriteResponse, CannotSend, CloseCalled, CloseReturns, Crash
  <2> QED BY <1>1, <2>1 DEF Calls!vars
<1> QED BY <1>2, <1>3

\* The file transport implements RemoteCall: a call is run after it is made, once by a
\* session, and answered only if it was run.
THEOREM TransportImplementsCall == Spec => ImplementsCall
<1>1. Init => Calls!Init BY DEF Init, Calls!Init, CallOf
<1>2. TypeOK /\ IInv /\ [Next]_vars => [Calls!Next]_(Calls!vars)
  <2> SUFFICES ASSUME TypeOK, IInv, [Next]_vars PROVE Calls!Next \/ UNCHANGED Calls!vars OBVIOUS
  <2>1. CASE UNCHANGED vars BY <2>1 DEF vars, history, Calls!vars, CallOf
  <2>2. CASE Next BY <2>2, ClientCalls, ServerCalls DEF Next
  <2> QED BY <2>1, <2>2
<1> QED BY <1>1, <1>2, InvHolds, PTL DEF Spec, ImplementsCall, Calls!Spec
=================================================================================
