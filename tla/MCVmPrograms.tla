------------------------------ MODULE MCVmPrograms ------------------------------
(***************************************************************************)
(* The machine on compiled programs: the bounded grammar of control        *)
(* constructs, and the programs of several functions and files; and a      *)
(* program outside the fragment, on which the machine does not do what the *)
(* documents say of the construct.                                         *)
(***************************************************************************)
EXTENDS StructuredPrograms, CallPrograms

MCImages == {Linked(p) : p \in StructuredPrograms \cup CallPrograms}

Say(s) == Output(Txt(s))

\* ném in a function whose caller has a thử
ThrowPrograms == {[main |-> <<Fn("f", <<Param("n")>>, <<Throw1(Var("n"))>>),
  Fn("main", <<>>, <<Try(<<Say("in"), Do(Call("f", <<Num(1)>>))>>, "", <<Say("caught")>>)>>)>>]}

ThrowImages == {Linked(p) : p \in ThrowPrograms}
==================================================================================
