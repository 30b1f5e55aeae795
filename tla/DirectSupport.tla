----------------------------- MODULE DirectSupport -----------------------------
(***************************************************************************)
(* codegen.cpp, analyzeDirectIrSupport: the gate between the IR and the     *)
(* emitter, which reads the IR and the tokens it stands for and refuses     *)
(* what the emitter could not translate faithfully. The gate g holds the    *)
(* program ir, the tokens t and the SupportContext: the symbols funcs and   *)
(* the names of the declared functions, and where each method is declared.  *)
(* A token of an instruction is found by its place in t, as the code finds  *)
(* it by its span.                                                          *)
(***************************************************************************)
EXTENDS Lowering

\* splitRuntimeMemberName
HasMember(text) == IsMemberName(text)

\* isExactSourceToken, isExactSourceName: the value covers its own lexemes, so that no
\* parentheses were around it
IsExactToken(g, v) == v.e = v.b + 1 /\ v.text = <<g.t[v.b]>>
IsExactName(g, v)  == Lexemes(g.t, v.b, v.e) = v.text

\* hasExactStatementLexemes, with or without a semicolon
IsExactly(g, x, word) == Lexemes(g.t, x.b, x.e) \in {<<word>>, <<word, ";">>}
Terminated(g, x) == g.t[x.e - 1] = ";"

\* startsWithDedicatedCallSyntax: words up to a parenthesis, the first of them no keyword
BeginsCall(g, x) ==
  /\ Kind(g.t[x.b]) = "Identifier"
  /\ \E i \in x.b..(x.e - 1) : g.t[i] = "(" /\ \A j \in x.b..(i - 1) : IsCallablePiece(g.t[j])

\* expressionConsumesStatement: nothing but semicolons outside the value
ConsumesStatement(g, x, v) ==
  LET words == {i \in x.b..(x.e - 1) : g.t[i] # ";"}
  IN v.b = x.b /\ words # {} /\ v.e = Max(words) + 1

IsCall(v) == v.op \in {"Call", "CallDynamic"}

RECURSIVE ContainsCall(_, _), ContainsLambda(_, _), CodeContainsLambda(_, _),
          IsCollectionLiteral(_, _), SupportsValue(_, _, _), SupportsInstruction(_, _, _, _, _, _)

ContainsCall(g, id) == \/ IsCall(g.ir.values[id])
                       \/ \E i \in Range(g.ir.values[id].kids) : ContainsCall(g, i)

ContainsLambda(g, id) == \/ g.ir.values[id].op = "Lambda"
                         \/ \E i \in Range(g.ir.values[id].kids) : ContainsLambda(g, i)
CodeContainsLambda(g, x) ==
  \/ \E p \in Range(x.params) : p.default # 0 /\ ContainsLambda(g, p.default)
  \/ \E root \in Range(x.roots) : ContainsLambda(g, root)
  \/ \E i \in DOMAIN x.kids : CodeContainsLambda(g, x.kids[i])

\* isMapKey, isLegacyScalarLiteral, isCollectionLiteralValue
IsMapKey(g, id) ==
  LET v == g.ir.values[id]
  IN IsExactToken(g, v) /\ \/ v.op = "ConstString"
                           \/ v.op = "LoadName" /\ IsVariable(v.text[1])

Scalars == {"ConstInt", "ConstFloat", "ConstString", "ConstBool", "ConstNull"}
IsScalarLiteral(g, id) == g.ir.values[id].op \in Scalars /\ IsExactToken(g, g.ir.values[id])

IsCollectionLiteral(g, id) ==
  LET v == g.ir.values[id]
      n == Len(v.kids)
  IN \/ IsScalarLiteral(g, id)
     \/ /\ v.op = "ListLiteral" /\ g.t[v.b] = "[" /\ g.t[v.e - 1] = "]"
        /\ \A i \in 1..n : IsCollectionLiteral(g, v.kids[i])
     \/ /\ v.op = "MapLiteral" /\ g.t[v.b] = "{" /\ g.t[v.e - 1] = "}" /\ n % 2 = 0
        /\ \A i \in 1..(n \div 2) : /\ IsMapKey(g, v.kids[2 * i - 1])
                                    /\ IsCollectionLiteral(g, v.kids[2 * i])

IsIndexBase(v) == v.op \in {"LoadName", "Index"}

\* methodIsAllocatedBeforeUse: the class of the method comes before the use
AllocatedBeforeUse(g, v) ==
  LET named == {x \in g.methods : x.name = v.text}
      bound == {x \in g.methods : v.symbol # 0 /\ x.symbol = v.symbol}
  IN \A x \in IF bound # {} THEN bound ELSE named : x.b <= v.b

-----------------------------------------------------------------------------
(* supportsValue, by the value's kind; context is where the value stands *)

NestedAll(g, ids) == \A id \in Range(ids) : SupportsValue(g, id, "Nested")

SupportsUnary(g, v) ==
  LET operand == g.ir.values[v.kids[1]]
  IN \/ v.text = <<"!">> /\ SupportsValue(g, v.kids[1], "Nested")
     \/ /\ v.text = <<"-">> /\ operand.op \in {"ConstInt", "ConstFloat"}
        /\ IsExactToken(g, operand)

SupportsStoreName(g, v) ==
  LET target == g.ir.values[v.kids[1]]
  IN /\ target.op = "LoadName" /\ target.text # <<>>
     /\ IsExactName(g, target) /\ v.b = target.b /\ AllocatedBeforeUse(g, target)
     /\ IF v.text \in {<<"++">>, <<"--">>} THEN g.t[v.e - 1] = v.text[1]
        ELSE SupportsValue(g, v.kids[2], IF v.text = <<"=">> THEN "SimpleAssignmentRhs" ELSE "Nested")

SupportsStoreProperty(g, v) ==
  LET target == g.ir.values[v.kids[1]]
  IN /\ v.text = <<"=">> /\ target.op = "LoadProperty"
     /\ IsExactName(g, target) /\ v.b = target.b
     /\ SupportsValue(g, v.kids[2], "SimpleAssignmentRhs")

SupportsStoreIndex(g, v) ==
  LET target == g.ir.values[v.kids[1]]
  IN /\ v.text = <<"=">> /\ target.op = "Index"
     /\ IsIndexBase(g.ir.values[target.kids[1]])
     /\ NestedAll(g, target.kids \o <<v.kids[2]>>)

SupportsCall(g, v) ==
  LET callee == g.ir.values[v.kids[1]]
      Named(op) == callee.op = op /\ callee.text = v.text /\ IsExactName(g, callee)
  IN /\ CASE v.op = "Call" -> v.symbol \in g.funcs /\ Named("LoadName")
               /\ AllocatedBeforeUse(g, v) /\ AllocatedBeforeUse(g, callee)
         [] v.op = "CallDynamic" /\ v.target = "ClassConstructor" -> Len(v.kids) = 1 /\ Named("LoadName")
         [] v.op = "CallDynamic" /\ v.target = "InstanceMethod" -> Named("LoadProperty")
         [] v.op = "CallDynamic" /\ v.target \in {"DynamicName", "ImportedFunction", "Native", "IndirectValue"} ->
              v.text # <<>> /\ Named("LoadName")
              /\ AllocatedBeforeUse(g, v) /\ AllocatedBeforeUse(g, callee)
         [] OTHER -> FALSE
     /\ NestedAll(g, Tail(v.kids))

\* slip: any expression is a default
SupportsAnyDefault(g, params) ==
  \A p \in Range(params) : p.name # <<>> /\ p.name \notin g.names /\ (p.has => p.default # 0)

\* parameters that shadow no function and default to one literal
SupportsParameters(g, params) ==
  \A p \in Range(params) : /\ p.name # <<>> /\ p.name \notin g.names
                           /\ IF p.has THEN p.default # 0 /\ IsScalarLiteral(g, p.default) ELSE p.default = 0

\* slip: captures are not looked at
SupportsClosure(g, v) ==
  LET lambda == g.ir.lambdas[v.lam]
  IN /\ g.t[v.b] = "ham" /\ g.t[v.e - 1] = "}"
     /\ SupportsParameters(g, lambda.params)
     /\ ~CodeContainsLambda(g, lambda.body)
     /\ SupportsInstruction(g, lambda.body, TRUE, TRUE, 0, FALSE)

\* a lambda that captures nothing, with no parentheses around it and no lambda inside
SupportsLambda(g, v) ==
  LET lambda == g.ir.lambdas[v.lam]
  IN /\ lambda.captures = <<>>
     /\ g.t[v.b] = "ham" /\ g.t[v.e - 1] = "}"
     /\ SupportsParameters(g, lambda.params)
     /\ ~CodeContainsLambda(g, lambda.body)
     /\ SupportsInstruction(g, lambda.body, TRUE, TRUE, 0, FALSE)

SupportsValue(g, id, context) ==
  LET v == g.ir.values[id]
  IN CASE v.op \in Scalars -> TRUE
       [] v.op = "LoadName" -> AllocatedBeforeUse(g, v)
       [] v.op = "LoadProperty" -> HasMember(v.text) /\ IsExactName(g, v)
       [] v.op \in {"MapLiteral", "ListLiteral"} -> IsCollectionLiteral(g, id)
       [] v.op = "Index" -> IsIndexBase(g.ir.values[v.kids[1]]) /\ NestedAll(g, v.kids)
       [] v.op = "Unary" -> SupportsUnary(g, v)
       [] v.op = "Binary" -> NestedAll(g, v.kids)
       [] v.op = "StoreName" -> context = "ExpressionStatementRoot" /\ SupportsStoreName(g, v)
       [] v.op = "StoreProperty" -> context = "ExpressionStatementRoot" /\ SupportsStoreProperty(g, v)
       [] v.op = "StoreIndex" -> context = "ExpressionStatementRoot" /\ SupportsStoreIndex(g, v)
       [] IsCall(v) -> (v.explicit => context = "DedicatedCallStatementRoot") /\ SupportsCall(g, v)
       [] v.op = "Lambda" -> context = "SimpleAssignmentRhs" /\ SupportsLambda(g, v)
       [] v.op = "UnsupportedDirectRegion" -> FALSE

-----------------------------------------------------------------------------
(* supportsInstruction, by opcode *)

\* a condition or a selector: neither an assignment nor a map
SupportsTest(g, id) == /\ g.ir.values[id].op \notin {"StoreName", "MapLiteral"}
                       /\ SupportsValue(g, id, "Nested")

\* the value of a return, a throw or a print
SupportsRoot(g, id) == /\ g.ir.values[id].op # "StoreName"
                       /\ SupportsValue(g, id, "OtherStatementRoot")

SupportsFunction(g, x) ==
  /\ x.symbol \in g.funcs /\ x.name # <<>> /\ x.roots = <<>>
  /\ Len(x.kids) = 1 /\ x.kids[1].op = "Block"
  /\ SupportsParameters(g, x.params)
  /\ SupportsInstruction(g, x.kids[1], TRUE, TRUE, 0, FALSE)

SupportsClass(g, x) ==
  /\ x.form = "MethodBlock" /\ x.name # <<>> /\ x.roots = <<>>
  /\ Len(x.kids) = 1 /\ x.kids[1].op = "Block" /\ ~x.kids[1].unsupported
  /\ \A i \in DOMAIN x.kids[1].kids :
       LET member == x.kids[1].kids[i]
       IN \/ member.op = "NoOp" /\ ~member.unsupported
          \/ member.op = "DefineFunction" /\ SupportsFunction(g, member)

SupportsLoop(g, x) ==
  LET init   == g.ir.values[x.roots[1]]
      update == g.ir.values[x.roots[3]]
  IN /\ x.form = "ForBlock" /\ Len(x.roots) = 3 /\ Len(x.kids) = 1
     /\ init.op = "StoreName" /\ init.text = <<"=">> /\ update.op = "StoreName"
     /\ SupportsValue(g, x.roots[1], "ExpressionStatementRoot")
     /\ SupportsTest(g, x.roots[2])
     /\ SupportsValue(g, x.roots[3], "ExpressionStatementRoot")

SupportsLabel(g, id) ==
  LET v == g.ir.values[id]
  IN /\ v.kids = <<>> /\ IsExactToken(g, v)
     /\ CASE v.op = "ConstInt" -> v.text[1] \notin OversizedWords
          [] v.op = "ConstString" -> TRUE
          [] v.op = "LoadName" -> IsVariable(v.text[1]) /\ AllocatedBeforeUse(g, v)
          [] OTHER -> FALSE

SupportsSwitch(g, x) ==
  LET cases == {i \in DOMAIN x.arms : ~x.arms[i].default}
  IN /\ x.form = "Structured" /\ x.roots # <<>> /\ x.arms # <<>>
     /\ Len(x.arms) = Len(x.kids) /\ Cardinality(cases) + 1 = Len(x.roots)
     /\ SupportsTest(g, x.roots[1])
     /\ {x.arms[i].body : i \in DOMAIN x.arms} = DOMAIN x.kids
     /\ \A i \in DOMAIN x.arms :
          IF x.arms[i].default THEN x.arms[i].label = 0
          ELSE x.arms[i].prefixed /\ x.arms[i].label # 0 /\ SupportsLabel(g, x.arms[i].label)

\* print, and a statement that is an expression: a call statement is all call, and any
\* other statement calls only from the right of an assignment
SupportsExpression(g, x, insideBlock) ==
  LET root == g.ir.values[x.roots[1]]
      dedicated == /\ x.op = "Statement"
                   /\ \/ IsCall(root) /\ root.explicit /\ g.t[x.b] = "goi"
                      \/ BeginsCall(g, x)
  IN /\ x.kids = <<>> /\ Len(x.roots) = 1
     /\ x.op = "Print" => root.op # "StoreName"
     /\ dedicated => IsCall(root) /\ ConsumesStatement(g, x, root)
     /\ x.op = "Statement" /\ ~dedicated =>
          ~IsCall(root) /\ (root.op # "StoreName" => ~ContainsCall(g, x.roots[1]))
     /\ insideBlock /\ ~dedicated => Terminated(g, x)
     /\ SupportsValue(g, x.roots[1], CASE dedicated -> "DedicatedCallStatementRoot"
                                       [] ~dedicated /\ x.op = "Statement" -> "ExpressionStatementRoot"
                                       [] OTHER -> "OtherStatementRoot")

SupportsInstruction(g, x, insideFunction, insideBlock, switchDepth, topLevel) ==
  LET Bodies(depth) == \A i \in DOMAIN x.kids :
        x.kids[i].op = "Block" /\ SupportsInstruction(g, x.kids[i], insideFunction, TRUE, depth, FALSE)
      Kids == \A i \in DOMAIN x.kids :
        SupportsInstruction(g, x.kids[i], insideFunction, TRUE, switchDepth, FALSE)
      bare == x.roots = <<>> /\ x.kids = <<>>
  IN /\ ~x.unsupported
     /\ CASE x.op = "NoOp" -> bare
          [] x.op = "Import" -> topLevel /\ x.form = "LocalSourceFile" /\ bare
          [] x.op = "DefineFunction" -> topLevel /\ SupportsFunction(g, x)
          [] x.op = "DefineClass" -> topLevel /\ SupportsClass(g, x)
          [] x.op = "Block" -> insideBlock /\ x.roots = <<>> /\ Kids
          [] x.op = "Conditional" ->
               /\ x.form \in {"IfBlock", "IfElseBlocks"} /\ Len(x.roots) = 1
               /\ Len(x.kids) = IF x.form = "IfElseBlocks" THEN 2 ELSE 1
               /\ SupportsTest(g, x.roots[1]) /\ Bodies(switchDepth)
          [] x.op = "Loop" -> SupportsLoop(g, x) /\ Bodies(switchDepth)
          [] x.op = "Switch" -> SupportsSwitch(g, x) /\ Bodies(switchDepth + 1)
          [] x.op = "Break" -> switchDepth > 0 /\ bare /\ IsExactly(g, x, "thoat")
          [] x.op = "Try" ->
               /\ x.form = "TryCatchBlocks" /\ x.roots = <<>> /\ Len(x.kids) = 2
               /\ x.catch # "" => x.catchSymbol # 0 /\ <<x.catch>> \notin g.names
               /\ Bodies(switchDepth)
          [] x.op = "Throw" ->
               /\ insideBlock /\ x.kids = <<>> /\ Len(x.roots) <= 1 /\ Terminated(g, x)
               /\ IF x.roots = <<>> THEN IsExactly(g, x, "nem") ELSE SupportsRoot(g, x.roots[1])
          [] x.op = "Continue" -> bare /\ IsExactly(g, x, "bo qua")
          [] x.op = "Return" ->
               /\ insideFunction /\ x.kids = <<>> /\ Len(x.roots) <= 1 /\ Terminated(g, x)
               /\ x.roots # <<>> => SupportsRoot(g, x.roots[1])
          [] x.op \in {"Print", "Statement"} -> SupportsExpression(g, x, insideBlock)
          [] OTHER -> FALSE

-----------------------------------------------------------------------------
(* analyzeDirectIrSupport *)

\* collectFunctions
RECURSIVE Functions(_, _)
Functions(code, insideClass) ==
  UNION {(IF code[i].op = "DefineFunction" /\ code[i].symbol # 0
          THEN {[symbol |-> code[i].symbol, name |-> code[i].name, b |-> code[i].b,
                 method |-> insideClass]}
          ELSE {})
         \cup Functions(code[i].kids, insideClass \/ code[i].op = "DefineClass") : i \in DOMAIN code}

Gate(t, ir) ==
  LET found == Functions(ir.code, FALSE)
  IN [t |-> t, ir |-> ir, funcs |-> {f.symbol : f \in found}, names |-> {f.name : f \in found},
      methods |-> {f \in found : f.method}]

\* unsupportedRegions: the instructions at the top that the gate refuses
Refused(t, ir) == {i \in DOMAIN ir.code :
                     ~SupportsInstruction(Gate(t, ir), ir.code[i], FALSE, FALSE, 0, TRUE)}
================================================================================
