---------------------------- MODULE MCFileTransport ----------------------------
(***************************************************************************)
(* FileTransport with one request and two servers that open its port twice  *)
(* in all, one over the other or one of them again after it stopped, and two*)
(* errors that nobody sees.                                                 *)
(***************************************************************************)
EXTENDS FileTransport

CONSTANTS a, p, q

MCClients == {a}
MCServers == {p, q}
=================================================================================
