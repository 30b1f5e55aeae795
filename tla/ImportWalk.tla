------------------------------- MODULE ImportWalk -------------------------------
(***************************************************************************)
(* The walk over the imports of a program, as the compiler and the module  *)
(* graph both promise it (docs/architecture.md, "Module lifecycle": files  *)
(* are recorded dependency first, each once): a file is entered once, when *)
(* an open file imports it; it is left when all it imports has been left   *)
(* or is still open around it; a failure gives everything up that is open. *)
(***************************************************************************)
EXTENDS Naturals, Sequences

CONSTANTS
  Files,      \* source files
  Entry,      \* the file the program starts from
  Sources     \* what the files may import: functions from files to sequences

VARIABLES
  imports,    \* what each file imports
  open,       \* the imported files that are entered and not left, outermost first
  done,       \* the files that have been left, in that order
  failed      \* the walk is being given up

vars == <<imports, open, done, failed>>

Elements(s) == {s[i] : i \in DOMAIN s}
ImportsOf(f) == Elements(imports[f])
Importer == IF open = <<>> THEN Entry ELSE open[Len(open)]
Closed(f) == ImportsOf(f) \subseteq Elements(done) \cup Elements(open)

Init ==
  /\ imports \in Sources
  /\ open = <<>>
  /\ done = <<>>
  /\ failed = FALSE

Enter(f) ==
  /\ ~failed
  /\ f \in ImportsOf(Importer) \ (Elements(open) \cup Elements(done))
  /\ open' = Append(open, f)
  /\ UNCHANGED <<imports, done, failed>>

Leave ==
  /\ ~failed
  /\ open # <<>> /\ Closed(Importer)
  /\ done' = Append(done, Importer)
  /\ open' = SubSeq(open, 1, Len(open) - 1)
  /\ UNCHANGED <<imports, failed>>

Fail ==
  /\ ~failed
  /\ failed' = TRUE
  /\ UNCHANGED <<imports, open, done>>

GiveUp ==
  /\ failed
  /\ open # <<>>
  /\ open' = SubSeq(open, 1, Len(open) - 1)
  /\ UNCHANGED <<imports, done, failed>>

Restart ==
  /\ open = <<>>
  /\ imports' \in Sources
  /\ done' = <<>>
  /\ failed' = FALSE
  /\ UNCHANGED open

Forget ==
  /\ failed /\ open = <<>>
  /\ done' = <<>>
  /\ UNCHANGED <<imports, open, failed>>

Next == (\E f \in Files : Enter(f)) \/ Leave \/ Fail \/ GiveUp \/ Forget \/ Restart
Spec == Init /\ [][Next]_vars
-----------------------------------------------------------------------------
\* g imports f, or imports what reaches f: f is in every set that has g and
\* all that its members import
Reaches(g, f) ==
  \A S \in SUBSET Files :
    (g \in S /\ \A x \in S : ImportsOf(x) \subseteq S) => f \in S

\* What a file imports is left before the file itself, unless the two are on
\* a circle of imports.
DependencyFirst ==
  \A i \in DOMAIN done : \A g \in ImportsOf(done[i]) :
    (\E j \in 1..(i - 1) : done[j] = g) \/ Reaches(g, done[i])

\* No file is entered twice.
OnceEach ==
  /\ \A i, j \in DOMAIN done : done[i] = done[j] => i = j
  /\ \A i, j \in DOMAIN open : open[i] = open[j] => i = j
  /\ Elements(open) \cap Elements(done) = {}

TypeOK ==
  /\ imports \in Sources
  /\ open \in Seq(Files)
  /\ done \in Seq(Files)
  /\ failed \in BOOLEAN
==============================================================================
