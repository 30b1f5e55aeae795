------------------------------- MODULE ModuleGraph -------------------------------
(***************************************************************************)
(* The graph of a program's local modules (compiler/module_graph.cpp):     *)
(* BuildContext::visit follows the imports depth first, records each one   *)
(* as an edge with what it did, reads and scans each file once, and takes  *)
(* its mark back when that fails.  The state is visit's call stack, its    *)
(* marks and the graph it builds.                                          *)
(*                                                                         *)
(* A file is its identity, the normalized path; the imports of a file are  *)
(* those the scanner returns, explicit local files that exist.  The entry  *)
(* is known by a name of its own, which nobody imports.                    *)
(***************************************************************************)
EXTENDS Naturals, Sequences, FiniteSets

CONSTANTS
  Files,      \* source files, and the entry
  Entry,      \* entryIdentity
  Aliases,    \* names a module may be imported under
  Flat,       \* stands for no alias
  Sources,    \* what the files may import: functions from files to sequences
              \* of [of |-> file, as |-> alias or Flat]
  Exports     \* the names each file exports, in the order of its declarations

Specs == [of : Files \ {Entry}, as : Aliases \cup {Flat}]
ASSUME GraphAssumption == Entry \in Files /\ Sources \subseteq [Files -> Seq(Specs)]

VARIABLES
  imports,   \* what the files import
  frames,    \* the calls of visit, under the loop over the root imports: [file, next]
  states,    \* BuildContext::states: file -> "active" or "loaded"
  edges,     \* LocalModuleGraph::edges: [from, to, as, action]
  modules,   \* LocalModuleGraph::modules
  thrown,    \* an exception is on its way out, or has ended the construction
  loaded     \* history: the files marked loaded, in that order

vars == <<imports, frames, states, edges, modules, thrown, loaded>>

Top == frames[Len(frames)]
\* next is 0 while the file is not read
Frame(f) == [file |-> f, next |-> 0]
Loop == [file |-> Entry, next |-> 1]
Returned == SubSeq(frames, 1, Len(frames) - 1)
Onward(stack) == [stack EXCEPT ![Len(stack)].next = @ + 1]
AtImport == frames # <<>> /\ ~thrown /\ Top.next \in DOMAIN imports[Top.file]
AtEnd == frames # <<>> /\ ~thrown /\ Top.next \notin DOMAIN imports[Top.file]
Stated == imports[Top.file][Top.next]
Edge(action) == [from |-> Top.file, to |-> Stated.of, as |-> Stated.as, action |-> action]
With(f, mark) == [g \in DOMAIN states \cup {f} |-> IF g = f THEN mark ELSE states[g]]
Without(f) == [g \in DOMAIN states \ {f} |-> states[g]]

\* LocalModuleGraphBuilder::build is called; each call starts with nothing
Init ==
  /\ imports \in Sources
  /\ frames = <<Loop>>
  /\ states = [f \in {} |-> "loaded"]
  /\ edges = <<>>
  /\ modules = <<>>
  /\ thrown = FALSE
  /\ loaded = <<>>

Met(f) == IF states[f] = "active" THEN "cycle" ELSE "duplicate"

\* slip: only new files are recorded
SkipSilently ==
  /\ AtImport
  /\ Stated.of \in DOMAIN states
  /\ frames' = Onward(frames)
  /\ UNCHANGED <<imports, states, edges, modules, thrown, loaded>>

\* an import of a file that has a mark
Skip ==
  /\ AtImport
  /\ Stated.of \in DOMAIN states
  /\ edges' = Append(edges, Edge(Met(Stated.of)))
  /\ frames' = Onward(frames)
  /\ UNCHANGED <<imports, states, modules, thrown, loaded>>

\* slip: only the files being read are known
VisitAgain ==
  /\ AtImport
  /\ Stated.of \in DOMAIN states => states[Stated.of] # "active"
  /\ states' = With(Stated.of, "active")
  /\ edges' = Append(edges, Edge("load"))
  /\ frames' = Append(frames, Frame(Stated.of))
  /\ UNCHANGED <<imports, modules, thrown, loaded>>

\* an import of a file that has none
Visit ==
  /\ AtImport
  /\ Stated.of \notin DOMAIN states
  /\ states' = With(Stated.of, "active")
  /\ edges' = Append(edges, Edge("load"))
  /\ frames' = Append(frames, Frame(Stated.of))
  /\ UNCHANGED <<imports, modules, thrown, loaded>>

\* the file is read and scanned
Read ==
  /\ frames # <<>> /\ ~thrown /\ Top.next = 0
  /\ frames' = Onward(frames)
  /\ modules' = Append(modules, Top.file)
  /\ UNCHANGED <<imports, states, edges, thrown, loaded>>

\* slip: the mark stays active
LeaveActive ==
  /\ AtEnd /\ Top.next # 0
  /\ Len(frames) > 1
  /\ loaded' = Append(loaded, Top.file)
  /\ frames' = Onward(Returned)
  /\ UNCHANGED <<imports, states, edges, modules, thrown>>

Leave ==
  /\ AtEnd /\ Top.next # 0
  /\ Len(frames) > 1
  /\ states' = With(Top.file, "loaded")
  /\ loaded' = Append(loaded, Top.file)
  /\ frames' = Onward(Returned)
  /\ UNCHANGED <<imports, edges, modules, thrown>>

\* reading or scanning fails; the model lets any step fail
Throw ==
  /\ frames # <<>> /\ ~thrown
  /\ thrown' = TRUE
  /\ UNCHANGED <<imports, frames, states, edges, modules, loaded>>

\* visit takes its mark back and throws on
Rollback ==
  /\ thrown
  /\ Len(frames) > 1
  /\ states' = Without(Top.file)
  /\ frames' = Returned
  /\ UNCHANGED <<imports, edges, modules, thrown, loaded>>

\* build returns or throws
End ==
  /\ Len(frames) = 1
  /\ thrown \/ AtEnd
  /\ frames' = <<>>
  /\ UNCHANGED <<imports, states, edges, modules, thrown, loaded>>

Next == Skip \/ Visit \/ Read \/ Leave \/ Throw \/ Rollback \/ End
Spec == Init /\ [][Next]_vars
-----------------------------------------------------------------------------
Elements(s) == {s[i] : i \in DOMAIN s}
Actions == {"load", "duplicate", "cycle"}
Open == [k \in 1..(Len(frames) - 1) |-> frames[k + 1].file]

\* g is f or brought f in, through edges that loaded a file
BroughtIn(g, f) ==
  \A S \in SUBSET Files :
    (g \in S /\ \A i \in DOMAIN edges :
                  edges[i].action = "load" /\ edges[i].from \in S => edges[i].to \in S) => f \in S

\* What an edge says it did is what the graph shows: it loaded if no edge
\* before it has the same target; it closed a circle if its target brought
\* the importer in.
EdgesTell ==
  \A i \in DOMAIN edges :
    /\ edges[i].action = "load" <=> \A j \in 1..(i - 1) : edges[j].to # edges[i].to
    /\ edges[i].action = "cycle" <=>
         edges[i].action # "load" /\ BroughtIn(edges[i].to, edges[i].from)

\* the edges of a file, and the edges that loaded one, among the first n
EdgesOf(f, n) == {i \in 1..n : edges[i].from = f}
Loads(n) == {i \in 1..n : edges[i].action = "load"}

\* A graph that is complete has every import of every module, in the order of
\* the source, and its modules in the order they were loaded: the n-th edge of
\* a file is its n-th import, the n-th edge that loaded is to the n-th module.
Complete ==
  (frames = <<>> /\ ~thrown) =>
    /\ \A f \in Elements(modules) \cup {Entry} :
         /\ Cardinality(EdgesOf(f, Len(edges))) = Len(imports[f])
         /\ \A i \in EdgesOf(f, Len(edges)) :
              imports[f][Cardinality(EdgesOf(f, i))] = [of |-> edges[i].to, as |-> edges[i].as]
    /\ Cardinality(Loads(Len(edges))) = Len(modules)
    /\ \A i \in Loads(Len(edges)) : modules[Cardinality(Loads(i))] = edges[i].to

\* The walk over the imports is the one ImportWalk promises.
Named(src) == [f \in Files |-> [i \in DOMAIN src[f] |-> src[f][i].of]]
Walk == INSTANCE ImportWalk WITH
          Sources <- {Named(src) : src \in Sources}, imports <- Named(imports),
          open <- Open, done <- loaded, failed <- thrown
ImplementsWalk == Walk!Spec
==================================================================================
