------------------------------- MODULE ImportOrder -------------------------------
(***************************************************************************)
(* The order of the module initializers, by definition: the imports of the *)
(* entry in depth-first postorder, each file where it is met first.  It    *)
(* depends on what the files import and on nothing else.                   *)
(***************************************************************************)
EXTENDS ImportCompiler, FiniteSets

ASSUME FilesAssumption == IsFiniteSet(Files)

\* files to be imported, one after the other, when those seen are known
Situations == [rest : Seq(Files), seen : SUBSET Files]
To(rest, seen) == [rest |-> rest, seen |-> seen]

\* what that brings in: with each new file what it imports, and then the file
BroughtIn(src) ==
  LET order[s \in Situations] ==
        IF s.rest = <<>> THEN <<>>
        ELSE LET f     == Head(s.rest)
                 first == IF f \in s.seen THEN <<>>
                          ELSE Append(order[To(src[f], s.seen \cup {f})], f)
             IN  first \o order[To(Tail(s.rest), s.seen \cup Elements(first))]
  IN  order

PostOrder(src) == BroughtIn(src)[To(src[Entry], {})]

\* A compilation that succeeds has registered the initializers of exactly the
\* files it needs, in this order, whatever the registry was used for before
\* and however that ended.
InPostOrder == (frames = <<>> /\ ~thrown) => Done = PostOrder(imports)
==================================================================================
