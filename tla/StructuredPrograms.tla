--------------------------- MODULE StructuredPrograms ---------------------------
(***************************************************************************)
(* A bounded grammar of structured programs: every control construct, each *)
(* nested in every other, at the top level, in main and in a callee.       *)
(*                                                                         *)
(* The grammar keeps to the fragment in which the machine is right (the    *)
(* README lists the programs it leaves out and the runs that show why):    *)
(* a switch stands alone in a block of its own, its arms only print, no    *)
(* thoát; bỏ qua stands in the innermost loop and outside thử; ném is      *)
(* caught in its own function.                                             *)
(***************************************************************************)
EXTENDS VmProgram, VppSyntax

X == Var("x")
Leaf == {Output(X), Compound("x", "+", Num(2)), Inc("x")}

Switched == Block(<<Switch(X, <<Arm1(Num(0), <<Output(Txt("a"))>>),
                                Arm1(Num(2), <<Output(Txt("b"))>>),
                                Default(<<Output(X)>>)>>)>>)
Named == Block(<<Switch(Bin("+", Txt("k"), X), <<Arm1(Txt("k0"), <<Output(X)>>),
                                                 Default(<<Output(Txt("d"))>>)>>)>>)
Skip0(i) == If(Bin("==", Var(i), Num(0)), <<Continue>>)

Over(i, body) == Loop(Set(i, Num(0)), Bin("<", Var(i), Num(2)), Inc(i), body)

Small(i) == {<<s>> : s \in Leaf} \cup {<<Throw1(X)>>, <<Switched>>, <<Named>>, <<Return(X)>>,
             <<Over(i, <<Skip0(i), Output(Var(i))>>)>>}

Wrapped(i, inner) ==
  {<<If(Bin("<", X, Num(2)), b), Inc("x")>> : b \in inner}
  \cup {<<IfElse(Not(X), b, c)>> : b \in inner, c \in {<<Output(Txt("e"))>>, <<Dec("x")>>}}
  \cup {<<Over(i, b \o <<Inc("x")>>)>> : b \in inner}
  \cup {<<Try(b, "", <<Output(Txt("h"))>>)>> : b \in inner}
  \cup {<<Try(<<Output(X)>> \o b, "", <<Output(Txt("h")), Switched>>)>> : b \in inner}

Bodies == Small("i") \cup Wrapped("i", Small("j")) \cup Wrapped("i", Wrapped("j", Small("k")))

Begin == <<Set("x", Num(0))>>
End == <<Output(X)>>
Whole(body) == Begin \o body \o End

\* the top level has no trả về and no block of its own
RECURSIVE Returns(_)
Returns(body) == \E s \in Range(body) :
  \/ s.k = "return"
  \/ s.k \in {"block", "loop"} /\ Returns(s.body)
  \/ s.k = "if" /\ Returns(s.then)
  \/ s.k = "ifelse" /\ (Returns(s.then) \/ Returns(s.else))
  \/ s.k = "try" /\ (Returns(s.body) \/ Returns(s.handler))

AtTop(body) == [main |-> Whole(body)]
InMain(body) == [main |-> <<Fn("main", <<>>, Whole(body))>>]
InCallee(body) ==
  [main |-> <<Fn("f", <<Param("x"), ParamOr("y", Num(5))>>, body \o <<Return(Bin("+", X, Var("y")))>>),
              Fn("main", <<>>, <<Set("r", Call("f", <<Num(1)>>)), Output(Var("r"))>>)>>]

TopLevel(body) == ~Returns(body) /\ \A s \in Range(body) : s.k # "block"

StructuredPrograms == {AtTop(b) : b \in {c \in Bodies : TopLevel(c)}}
            \cup {InMain(b) : b \in Bodies} \cup {InCallee(b) : b \in Bodies}
==============================================================================
