------------------------------- MODULE Lowering -------------------------------
(***************************************************************************)
(* ir.cpp and optimizer.cpp: the analyzed program (u, m) as untyped IR.     *)
(* The value of an expression keeps its ExprId, which the code maps it to   *)
(* once and for all, and the lambda of a value keeps its place in u.lm.     *)
(***************************************************************************)
EXTENDS Semantics

-----------------------------------------------------------------------------
(* Values *)

Constant(lit) == CASE lit = "Integer" -> "ConstInt"  [] lit = "Float" -> "ConstFloat"
                   [] lit = "String" -> "ConstString" [] lit = "Boolean" -> "ConstBool"
                   [] lit = "Null" -> "ConstNull"     [] OTHER -> "UnsupportedDirectRegion"

\* lowerExpression: what kind of value each expression is
ValueOpcode(u, m, x) ==
  LET target == u.ex[x.kids[1]]
      named  == target.k = "Name"
      store  == IF m.bind[x.kids[1]].k = "InstanceMember" THEN "StoreProperty" ELSE "StoreName"
  IN CASE x.k = "Literal" -> Constant(x.lit)
       [] x.k = "Assignment" ->
            CASE named -> store [] target.k = "Index" -> "StoreIndex"
              [] OTHER -> "UnsupportedDirectRegion"
       [] x.k \in {"CompoundAssignment", "Postfix"} ->
            IF named THEN store ELSE "UnsupportedDirectRegion"
       [] OTHER -> x.k

\* IrValue: op, the lexemes text, operands, the symbol bound to it, and of a call its
\* target kind and whether "goi" stands before it
Value(u, m, id) ==
  LET x == u.ex[id]
      op == CASE x.k = "Name" -> IF m.bind[id].k = "InstanceMember" THEN "LoadProperty" ELSE "LoadName"
              [] x.k = "Call" -> IF m.call[id].k = "DirectFunction" THEN "Call" ELSE "CallDynamic"
              [] x.k = "Lambda" /\ \E p \in Range(u.lm[x.lam].params) : p.has /\ p.default = 0 ->
                   "UnsupportedDirectRegion"
              [] OTHER -> ValueOpcode(u, m, x)
  IN [op |-> op, b |-> x.b, e |-> x.e, kids |-> x.kids, explicit |-> x.explicit, lam |-> x.lam,
      symbol |-> IF x.k = "Call" THEN m.call[id].symbol ELSE m.bind[id].symbol,
      target |-> m.call[id].k,
      text |-> IF x.k = "Call" /\ u.ex[x.kids[1]].k = "Name" THEN u.ex[x.kids[1]].text ELSE x.text]

-----------------------------------------------------------------------------
(* Instructions *)

Opcode(k) == CASE k = "Empty" -> "NoOp" [] k = "Function" -> "DefineFunction"
               [] k = "Class" -> "DefineClass" [] k \in {"Expression", "Unknown"} -> "Statement"
               [] OTHER -> k

\* statementNeedsUnsupportedDirectRegion: the tree of the statement lost some of its tokens
NeedsUnsupportedRegion(x) ==
  LET count  == Len(x.roots)
      Blocks == \A i \in DOMAIN x.kids : x.kids[i].k = "Block"
      Cases  == {i \in DOMAIN x.arms : ~x.arms[i].default}
  IN ~CASE x.k \in {"Empty", "Block", "Break", "Continue"} -> count = 0
        [] x.k = "Conditional" -> count = 1 /\ x.kids # <<>>
        [] x.k = "Loop" -> count = 3 /\ x.kids # <<>>
        [] x.k = "Switch" ->
             /\ x.form = "Structured" /\ count = Cardinality(Cases) + 1
             /\ Len(x.arms) = Len(x.kids)
             /\ \A i \in DOMAIN x.arms : /\ x.arms[i].body \in DOMAIN x.kids
                                         /\ x.kids[x.arms[i].body].k = "Block"
                                         /\ x.arms[i].default <=> x.arms[i].label = 0
        [] x.k \in {"Return", "Throw"} -> count <= 1
        [] x.k \in {"Print", "Expression"} -> count = 1
        [] x.k = "Function" -> /\ count = 0 /\ x.name # <<>> /\ Len(x.kids) = 1 /\ Blocks
                               /\ \A p \in Range(x.params) : p.name # <<>> /\ (p.has => p.default # 0)
        [] x.k = "Class" -> x.form = "MethodBlock" /\ count = 0 /\ Len(x.kids) = 1 /\ Blocks
        [] x.k = "Try" -> x.form = "TryCatchBlocks" /\ count = 0 /\ Len(x.kids) = 2 /\ Blocks
        [] x.k = "Import" -> x.form = "LocalSourceFile"
        [] OTHER -> FALSE

\* the symbol of the catch variable: in the scope around the scope of the catch's body
CatchSymbol(m, x) ==
  LET body  == x.kids[2].b
      found == {i \in DOMAIN m.symbols : /\ m.symbols[i].kind = "CatchVariable"
                                         /\ m.symbols[i].scope = m.scopes[m.at[body]].parent
                                         /\ m.symbols[i].name = <<x.catch>>}
  IN IF x.catch = "" \/ Len(x.kids) < 2 THEN 0
     ELSE IF body \notin DOMAIN m.at \/ found = {} THEN 0 ELSE Min(found)

\* lowerStatement; a method goes by its qualified name
RECURSIVE Instruction(_, _)
Instruction(m, x) ==
  LET symbol == IF x.b \in DOMAIN m.named THEN m.named[x.b] ELSE 0
      method == symbol # 0 /\ x.k = "Function" /\ m.symbols[symbol].kind = "Method"
  IN [op |-> Opcode(x.k), b |-> x.b, e |-> x.e, symbol |-> symbol,
      name |-> IF method THEN m.symbols[symbol].qualified ELSE x.name,
      form |-> x.form, import |-> x.import, catch |-> x.catch, catchSymbol |-> CatchSymbol(m, x),
      params |-> x.params, roots |-> x.roots, arms |-> x.arms,
      unsupported |-> NeedsUnsupportedRegion(x),
      kids |-> [i \in DOMAIN x.kids |-> Instruction(m, x.kids[i])]]

\* lowerToIr; the values and lambdas no instruction reaches are there, and never read
Lower(u, m) ==
  [values |-> [id \in DOMAIN u.ex |-> Value(u, m, id)],
   lambdas |-> [i \in DOMAIN u.lm |->
     [params |-> u.lm[i].params, owner |-> u.lm[i].expr, body |-> Instruction(m, u.lm[i].body),
      captures |-> LET at == LambdaIndex(m, u.lm[i].expr)
                   IN IF at = 0 THEN <<>> ELSE m.lambdas[at].captures]],
   code |-> [i \in DOMAIN u.kids |-> Instruction(m, u.kids[i])]]

-----------------------------------------------------------------------------
(* optimizer.cpp *)

RECURSIVE RemoveNoOps(_)
RemoveNoOps(code) ==
  LET inner == [i \in DOMAIN code |-> [code[i] EXCEPT !.kids = RemoveNoOps(@)]]
  IN SelectSeq(inner, LAMBDA x : x.op # "NoOp")

Optimize(ir) ==
  [ir EXCEPT !.code = RemoveNoOps(@),
             !.lambdas = [i \in DOMAIN @ |-> [@[i] EXCEPT !.body.kids = RemoveNoOps(@)]]]

\* recomputeUnsupportedDirectRegionCount: the marked instructions and values among what
\* the program reaches through operands, defaults and the bodies of lambdas
RECURSIVE MarkedValues(_, _), MarkedCode(_, _)
MarkedValues(ir, id) ==
  LET v == ir.values[id]
      lambda == ir.lambdas[v.lam]
      Of(ids) == UNION {MarkedValues(ir, i) : i \in ids}
  IN (IF v.op = "UnsupportedDirectRegion" THEN {<<"value", id>>} ELSE {}) \cup Of(Range(v.kids))
     \cup IF v.op # "Lambda" THEN {}
          ELSE Of({p.default : p \in Range(lambda.params)} \ {0}) \cup MarkedCode(ir, lambda.body.kids)
               \cup IF lambda.body.unsupported THEN {<<"Block", lambda.body.b>>} ELSE {}

MarkedCode(ir, code) ==
  UNION {LET x == code[i]
             ids == ({p.default : p \in Range(x.params)} \ {0}) \cup Range(x.roots)
         IN (IF x.unsupported THEN {<<x.op, x.b>>} ELSE {})
            \cup UNION {MarkedValues(ir, id) : id \in ids} \cup MarkedCode(ir, x.kids)
         : i \in DOMAIN code}

UnsupportedCount(ir) == Cardinality(MarkedCode(ir, ir.code))
===============================================================================
