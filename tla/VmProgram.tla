------------------------------- MODULE VmProgram -------------------------------
(***************************************************************************)
(* The virtual machine running what the code generator makes of a source   *)
(* program: VmMachine, Codegen and RefSemantics composed.  Each image      *)
(* carries the meaning its source has by RefSemantics.                     *)
(***************************************************************************)
EXTENDS VmDiscipline

CG  == INSTANCE Codegen
Ref == INSTANCE RefSemantics

\* compilePipeline and the hand-over to the VM, for a set of programs
Carrying(im, meaning) == [code |-> im.code, inits |-> im.inits, pool |-> im.pool,
                          names |-> im.names, meaning |-> meaning]
Linked(p) == Carrying(CG!Compile(p), Ref!Meaning(p))

\* The program says what its source means: what has been printed is always a
\* beginning of the meaning's output; a program that halts has printed all of
\* it, and one that fails is one whose meaning is a fault or an uncaught ném,
\* met at the same point.
Agrees ==
  /\ IsPrefix(out, image.meaning.out)
  /\ status = "halted" => out = image.meaning.out /\ image.meaning.ok
  /\ status = "failed" => out = image.meaning.out /\ ~image.meaning.ok

\* Every program comes to an end by itself.
Terminates == <>(status \in {"halted", "failed"})
==============================================================================
