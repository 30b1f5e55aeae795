---------------------------- MODULE ModuleEnvironment ----------------------------
(***************************************************************************)
(* What the analysis of a file is told about imported names                *)
(* (module_graph.cpp, LocalModuleSemanticIndex::semanticEnvironmentFor),   *)
(* from the recursive graph and from the index of direct imports the       *)
(* compiler builds (buildLocalModuleSemanticIndex, DirectOnly).            *)
(***************************************************************************)
EXTENDS ModuleGraph, SequencesExt

\* an imported name: the alias, or Flat, and the exported name
NamesOf(e) == [i \in DOMAIN Exports[e.to] |-> <<e.as, Exports[e.to][i]>>]

\* the k-th place in a set of them; what a sequence has in those places
Place(P, k) == CHOOSE i \in P : Cardinality({j \in P : j <= i}) = k
Picked(s, P) == [k \in 1..Cardinality(P) |-> s[Place(P, k)]]

\* each element where it is met first
Firsts(s) == Picked(s, {i \in DOMAIN s : \A j \in 1..(i - 1) : s[j] # s[i]})

Environment(es, records, importer) ==
  LET mine == Picked(es, {i \in DOMAIN es : es[i].from = importer /\ es[i].to \in Elements(records)})
  IN  Firsts(FlattenSeq([i \in DOMAIN mine |-> NamesOf(mine[i])]))

\* The index of direct imports: an edge for each root import, a record for
\* each file (slip: an edge for each file)
DirectEdge(roots, i) ==
  [from |-> Entry, to |-> roots[i].of, as |-> roots[i].as,
   action |-> IF \E j \in 1..(i - 1) : roots[j].of = roots[i].of THEN "duplicate" ELSE "load"]
DirectLoads(roots) ==
  LET all == [i \in DOMAIN roots |-> DirectEdge(roots, i)]
  IN  Picked(all, {i \in DOMAIN roots : all[i].action = "load"})
DirectEdges(roots) == [i \in DOMAIN roots |-> DirectEdge(roots, i)]
DirectModules(roots) == Firsts([i \in DOMAIN roots |-> roots[i].of])

\* The index of direct imports, which reads no other file, tells the analysis
\* of the entry the same names in the same order as the whole graph.
SameEnvironment ==
  (frames = <<>> /\ ~thrown) =>
    Environment(edges, modules, Entry)
      = Environment(DirectEdges(imports[Entry]), DirectModules(imports[Entry]), Entry)
==================================================================================
