------------------------------ MODULE VppSyntax ------------------------------
(***************************************************************************)
(* The structured intermediate representation the code generator reads     *)
(* (IrInstruction and IrValue, include/vpp/compiler/ir.h): constructors    *)
(* for expressions, statements and top-level items.                        *)
(***************************************************************************)
EXTENDS Sequences

\* IrValue
Num(n)           == [k |-> "int", n |-> n]
Txt(s)           == [k |-> "str", s |-> s]
Nul              == [k |-> "null"]
Var(x)           == [k |-> "var", x |-> x]
Bin(op, l, r)    == [k |-> "bin", op |-> op, l |-> l, r |-> r]
Not(e)           == [k |-> "not", e |-> e]
Call(f, args)    == [k |-> "call", f |-> f, args |-> args, explicit |-> FALSE]
Lambda(params, body) == [k |-> "lambda", params |-> params, body |-> body]
ExplicitCall(f, args) == [k |-> "call", f |-> f, args |-> args, explicit |-> TRUE]

\* IrInstruction: statements
Set(x, e)        == [k |-> "set", x |-> x, e |-> e]
Compound(x, op, e) == [k |-> "compound", x |-> x, op |-> op, e |-> e]
Inc(x)           == [k |-> "inc", x |-> x]
Dec(x)           == [k |-> "dec", x |-> x]
Output(e)        == [k |-> "print", e |-> e]
Do(e)            == [k |-> "do", e |-> e]
Block(body)      == [k |-> "block", body |-> body]
If(c, then)      == [k |-> "if", c |-> c, then |-> then]
IfElse(c, then, else) == [k |-> "ifelse", c |-> c, then |-> then, else |-> else]
Loop(init, c, update, body) ==
  [k |-> "loop", init |-> init, c |-> c, update |-> update, body |-> body]
Switch(e, arms)  == [k |-> "switch", e |-> e, arms |-> arms]
Break            == [k |-> "break"]
Continue         == [k |-> "continue"]
Try(body, x, handler) == [k |-> "try", body |-> body, x |-> x, handler |-> handler]
Throw1(e)        == [k |-> "throw", e |-> e]
Return(e)        == [k |-> "return", e |-> e]

\* IrSwitchArm: a label expression (Num, Txt or Var) and a body; Default has none
Arm1(label, body) == [label |-> label, body |-> body]
Default(body)     == [label |-> Nul, body |-> body]

\* top-level items
Fn(name, params, body) == [k |-> "fn", name |-> name, params |-> params, body |-> body]
Param(x)          == [x |-> x, default |-> <<>>]
ParamOr(x, e)     == [x |-> x, default |-> <<e>>]
Import(id, alias) == [k |-> "import", id |-> id, alias |-> alias]   \* alias "" when absent

\* a compilation: the items of the entry (under "main") and of each module file
MainFile == "main"
==============================================================================
