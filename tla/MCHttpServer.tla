----------------------------- MODULE MCHttpServer -----------------------------
(***************************************************************************)
(* HttpServer with a few servers, connections and file descriptors.        *)
(***************************************************************************)
EXTENDS HttpServer, TLC

CONSTANTS a, b

OneServer == {1}
MCServers == {1, 2}
MCClients == {a, b}
\* two listening sockets and one connection: the other has to wait for a
\* descriptor to be used again
MCFds == 3..5

Alike == Permutations(MCClients)
===============================================================================
