----------------------------- MODULE ImportCompiler -----------------------------
(***************************************************************************)
(* Compiling a program of several files (compiler.cpp: compilePipeline;    *)
(* compileRegistry.cpp: compileImportSpec).  An import statement compiles  *)
(* the imported file on the spot, by a recursive call, unless the registry *)
(* has its path already; the file's top level becomes a module initializer *)
(* when that call returns.  The state is the call stack of                 *)
(* compileImportSpec and the registry.                                     *)
(*                                                                         *)
(* A compilation uses the registry of its CompilationContext, which the    *)
(* pipeline clears before and after, or (lintSource) the thread's default  *)
(* registry, which the caller has reset with resetCompilationState.        *)
(*                                                                         *)
(* A file is its normalized path.  What else a file holds, and how its     *)
(* functions and variables are numbered and named, is in module Codegen.   *)
(***************************************************************************)
EXTENDS Naturals, Sequences

CONSTANTS
  Files,       \* source files
  Entry,       \* the file that is compiled
  Sources,     \* what the files may import: functions from files to sequences
  Registries,  \* a subset of {"context", "default"}
  MaxKept      \* bound: initializers an earlier compilation may have left behind

ASSUME ImportsAssumption == Entry \in Files /\ Sources \subseteq [Files -> Seq(Files)]
ASSUME RegistriesAssumption == Registries \subseteq {"context", "default"}

VARIABLES
  imports,   \* what the files import; they may be edited between compilations
  imported,  \* per registry: importedFiles
  inits,     \* per registry: moduleInitializers, as files
  active,    \* the registry in use
  frames,    \* the compilations going on, outermost first: [file, next]
  thrown,    \* an exception is on its way out, or has ended the compilation
  kept       \* history: initializers the registry had when the compilation began

vars == <<imports, imported, inits, active, frames, thrown, kept>>

Top == frames[Len(frames)]
Frame(f) == [file |-> f, next |-> 1]
Returned == SubSeq(frames, 1, Len(frames) - 1)
AtImport == frames # <<>> /\ ~thrown /\ Top.next \in DOMAIN imports[Top.file]
AtEnd == frames # <<>> /\ ~thrown /\ Top.next \notin DOMAIN imports[Top.file]
Target == imports[Top.file][Top.next]
\* the statement after the import
Onward(stack) == [stack EXCEPT ![Len(stack)].next = @ + 1]

Init ==
  /\ imports \in Sources
  /\ imported = [r \in Registries |-> {}]
  /\ inits = [r \in Registries |-> <<>>]
  /\ active \in Registries
  /\ frames = <<Frame(Entry)>>
  /\ thrown = FALSE
  /\ kept = 0

\* What is left of the initializers when a compilation begins: a context is
\* cleared, resetCompilationState leaves them
Left(r) == IF r = "context" THEN <<>> ELSE inits[r]

\* slip: the marks of the last compilation stay
BeginMarked(r) ==
  /\ frames = <<>>
  /\ Len(Left(r)) <= MaxKept
  /\ active' = r
  /\ imports' \in Sources
  /\ inits' = [inits EXCEPT ![r] = Left(r)]
  /\ kept' = Len(Left(r))
  /\ frames' = <<Frame(Entry)>>
  /\ thrown' = FALSE
  /\ UNCHANGED imported

\* compilePipeline is called from outside, with a context or after a reset
Begin(r) ==
  /\ frames = <<>>
  /\ Len(Left(r)) <= MaxKept
  /\ active' = r
  /\ imports' \in Sources
  /\ imported' = [imported EXCEPT ![r] = {}]
  /\ inits' = [inits EXCEPT ![r] = Left(r)]
  /\ kept' = Len(Left(r))
  /\ frames' = <<Frame(Entry)>>
  /\ thrown' = FALSE

\* slip: the importer stays at the import
SkipStaying ==
  /\ AtImport
  /\ Target \in imported[active]
  /\ UNCHANGED vars

\* compileImportSpec returns at once: imported already, or being imported
Skip ==
  /\ AtImport
  /\ Target \in imported[active]
  /\ frames' = Onward(frames)
  /\ UNCHANGED <<imports, imported, inits, active, thrown, kept>>

\* slip: only the files that are being compiled are skipped
EnterAgain ==
  /\ AtImport
  /\ \A k \in 2..Len(frames) : frames[k].file # Target
  /\ imported' = [imported EXCEPT ![active] = @ \cup {Target}]
  /\ frames' = Append(frames, Frame(Target))
  /\ UNCHANGED <<imports, inits, active, thrown, kept>>

\* the file is marked before it is read and compiled
Enter ==
  /\ AtImport
  /\ Target \notin imported[active]
  /\ imported' = [imported EXCEPT ![active] = @ \cup {Target}]
  /\ frames' = Append(frames, Frame(Target))
  /\ UNCHANGED <<imports, inits, active, thrown, kept>>

\* slip: the newest initializer runs first
LeaveInFront ==
  /\ AtEnd
  /\ Len(frames) > 1
  /\ inits' = [inits EXCEPT ![active] = <<Top.file>> \o @]
  /\ frames' = Onward(Returned)
  /\ UNCHANGED <<imports, imported, active, thrown, kept>>

\* an imported file is compiled, its initializer registered
Leave ==
  /\ AtEnd
  /\ Len(frames) > 1
  /\ inits' = [inits EXCEPT ![active] = Append(@, Top.file)]
  /\ frames' = Onward(Returned)
  /\ UNCHANGED <<imports, imported, active, thrown, kept>>

\* a file that cannot be opened, an error of the parser, the analysis or the
\* generator: anywhere in the compilation
Throw ==
  /\ frames # <<>> /\ ~thrown
  /\ thrown' = TRUE
  /\ UNCHANGED <<imports, imported, inits, active, frames, kept>>

\* slip: the mark is not taken back
RollbackNothing ==
  /\ thrown
  /\ Len(frames) > 1
  /\ frames' = Returned
  /\ UNCHANGED <<imports, imported, inits, active, thrown, kept>>

\* compileImportSpec takes its mark back and throws on
Rollback ==
  /\ thrown
  /\ Len(frames) > 1
  /\ imported' = [imported EXCEPT ![active] = @ \ {Top.file}]
  /\ frames' = Returned
  /\ UNCHANGED <<imports, inits, active, thrown, kept>>

\* The compilation ends; for a context, the marks go, and everything if it
\* failed
End ==
  /\ Len(frames) = 1
  /\ thrown \/ AtEnd
  /\ imported' = IF active = "context" THEN [imported EXCEPT ![active] = {}] ELSE imported
  /\ inits' = IF active = "context" /\ thrown THEN [inits EXCEPT ![active] = <<>>] ELSE inits
  /\ frames' = <<>>
  /\ UNCHANGED <<imports, active, thrown, kept>>

Work == Skip \/ Enter \/ Leave \/ Rollback \/ End
Next == Work \/ Throw \/ \E r \in Registries : Begin(r)

Spec == Init /\ [][Next]_vars
\* a compilation goes on; nothing makes it fail
FairSpec == Spec /\ WF_vars(Work)
-----------------------------------------------------------------------------
TypeOK ==
  /\ imports \in Sources
  /\ imported \in [Registries -> SUBSET Files]
  /\ inits \in [Registries -> Seq(Files)]
  /\ active \in Registries
  /\ frames \in Seq([file : Files, next : Nat \ {0}])
  /\ thrown \in BOOLEAN
  /\ kept \in 0..Len(inits[active])

Elements(s) == {s[i] : i \in DOMAIN s}
\* the imported files being compiled, and those compiled since the beginning
Inside(stack) == [k \in 1..(Len(stack) - 1) |-> stack[k + 1].file]
Open == Inside(frames)
Done == SubSeq(inits[active], kept + 1, Len(inits[active]))

\* While a compilation goes on, also on its way out of a failure, exactly the
\* files that are being compiled or have been are marked, and no other will
\* be skipped.
Marked == frames # <<>> => imported[active] = Elements(Open) \cup Elements(Done)

\* The walk over the imports is the one ImportWalk promises.
Walk == INSTANCE ImportWalk WITH
          open <- Open, done <- Done, failed <- thrown
ImplementsWalk == Walk!Spec

\* Initializers are registered dependency first, but for circles.
DependencyFirst == Walk!DependencyFirst

\* A compilation comes to an end, whatever imports whatever.
Terminates == (frames # <<>>) ~> (frames = <<>>)

\* The top level of the program's own file is not also a module's.
EntryOnce == ~\E i \in DOMAIN inits[active] : inits[active][i] = Entry
==============================================================================
