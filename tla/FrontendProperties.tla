--------------------------- MODULE FrontendProperties ---------------------------
(***************************************************************************)
(* What the stages of Frontend owe each other. Each property compares the   *)
(* outcome of a stage with a reference that does without the machinery of   *)
(* the stage: no speculation, no binding powers, no tables that grow.       *)
(***************************************************************************)
EXTENDS Frontend

Concat(sequences) == FoldLeft(LAMBDA all, x : all \o x, <<>>, sequences)
Each(f(_), s) == [i \in DOMAIN s |-> f(s[i])]

-----------------------------------------------------------------------------
(* The parser *)

\* the delimiters of t nest: every closer meets its opener, none is left open
Balanced(t) ==
  LET Pairs == {<<"(", ")">>, <<"[", "]">>, <<"{", "}">>}
      Read(stack, x) ==
        IF stack # <<>> /\ <<Last(stack), x>> \in Pairs THEN Front(stack)
        ELSE IF \E pair \in Pairs : x \in Range(pair) THEN Append(stack, x) ELSE stack
  IN FoldLeft(Read, <<>>, t) = <<>>

\* Every expression of the arena has one parent, every lambda one expression, and a
\* parent's range holds its children's, in order: what the speculative readers of
\* tryParseExpression, parseLambda and tryParseStructuredSwitch give up leaves nothing
\* behind, and no node survives in two trees (parser.cpp 489-492, 647-659, 1080-1087).
RECURSIVE StatementRefs(_)
Defaulted(params) == SelectSeq(Each(LAMBDA p : p.default, params), LAMBDA id : id # 0)
StatementRefs(x) == x.roots \o Defaulted(x.params) \o Concat(Each(StatementRefs, x.kids))

References ==
  Concat(Each(StatementRefs, ast.kids))
  \o Concat(Each(LAMBDA l : Defaulted(l.params) \o StatementRefs(l.body), ast.lm))
  \o Concat(Each(LAMBDA x : x.kids, ast.ex))

ArenaSound ==
  stage = "parsed" =>
    /\ Len(References) = Len(ast.ex) /\ Range(References) = DOMAIN ast.ex
    /\ \A i \in DOMAIN ast.lm : ast.ex[ast.lm[i].expr].lam = i
    /\ Cardinality({id \in DOMAIN ast.ex : ast.ex[id].k = "Lambda"}) = Len(ast.lm)
    /\ \A x \in Range(ast.ex) : \A i \in DOMAIN x.kids :
         LET kid == ast.ex[x.kids[i]]
         IN /\ x.b <= kid.b /\ kid.e <= x.e
            /\ i > 1 => ast.ex[x.kids[i - 1]].e <= kid.b

\* The tolerant parser refuses a source when and only when its delimiters do not nest:
\* whatever is tried and given up on the way (a lambda, a structured switch), a ParseError
\* caught there is not lost, nor one made of a source that has none (parser.cpp 445-492,
\* 626-659, 734-840).
BalancedIffParsed == stage \in {"parsed", "refused"} /\ semantic = None => (ast.err <=> ~Balanced(source))

\* operatorPrecedenceMap (lexer.cpp 85-93), which the operator-stack compiler goes by
Precedence(op) == CASE op \in CompoundAssign \cup {"="} -> 0 [] op = "||" -> 1 [] op = "&&" -> 2
                    [] op \in Comparisons -> 3 [] op \in {"+", "-"} -> 4 [] OTHER -> 5

\* The tree the binding powers of parseExpression build is the one an operator stack with
\* that table builds: an operand that is itself an infix expression, with no parentheses
\* of its own, binds tighter than its parent, or as tight and on the side "=" or the other
\* operators associate to (parser.cpp 62-86, 158-224).
PrecedenceKept ==
  LET Infix(x) == x.k \in {"Binary", "Assignment", "CompoundAssignment"}
      Grouped(x) == source[x.b] = "(" /\ Matching(source, x.b, Len(source) + 1, "(", ")") = x.e - 1
      Level(x) == Precedence(x.text[1])
      Bare(id) == Infix(ast.ex[id]) /\ ~Grouped(ast.ex[id])
  IN stage = "parsed" =>
       \A x \in Range(ast.ex) :
         /\ Infix(x) =>
              LET l == ast.ex[x.kids[1]]
                  r == ast.ex[x.kids[2]]
              IN /\ Bare(x.kids[1]) => Level(l) > Level(x) \/ (Level(l) = Level(x) /\ x.text # <<"=">>)
                 /\ Bare(x.kids[2]) => Level(r) > Level(x) \/ (Level(r) = Level(x) /\ r.text = <<"=">>)
         /\ x.k \in {"Unary", "Postfix", "Call", "Index"} => ~Bare(x.kids[1])

-----------------------------------------------------------------------------
(* The analyzer *)

\* Resolution goes on while scopes and symbols are still being made (a lambda's when it is
\* first met), so that a name bound early could be bound otherwise later. It is not: what
\* the finished tables say of a name is what it was bound to (semantic.cpp 499-543, 695-757).
MapKeys == UNION {{x.kids[i] : i \in {j \in DOMAIN x.kids : j % 2 = 1}} :
                  x \in {y \in Range(ast.ex) : y.k = "MapLiteral"}}
BindingsStable ==
  stage = "bound" =>
    \A id \in DOMAIN ast.ex \ MapKeys :
      LET b == semantic.bind[id]
          final == LookupValue(semantic, ast.ex[id].text, semantic.home[id])
          type  == Lookup(semantic, ast.ex[id].text, "Type", semantic.home[id])
      IN ast.ex[id].k = "Name" =>
           CASE b.k = "Symbol" -> <<b.symbol, b.scope>> \in {<<final.symbol, final.scope>>, <<type.symbol, type.scope>>}
                                  /\ (final.symbol # 0 => b.symbol = final.symbol)
             [] b.k = "InstanceMember" -> final.symbol = 0 /\ b.symbol = Receiver(semantic, ast.ex[id].text, semantic.home[id]).symbol
             [] OTHER -> final.symbol = 0

-----------------------------------------------------------------------------
(* The gate and the emitter *)

\* What the gate lets pass the emitter can translate: none of the logic_errors it is full
\* of is ever thrown, and nothing marked as lost is emitted (codegen.cpp 704-1026, 1247-1724).
EmitterTotal == stage = "emitted" => ~emitted.failed /\ UnsupportedCount(ir) = 0

\* the name that is used, its binding and the class it is in
NameOf(use)    == IF IsCall(ir.values[use.id]) THEN ir.values[use.id].kids[1] ELSE use.id
BindingOf(use) == semantic.bind[NameOf(use)]
ClassOf(use)   == LET class == EnclosingClass(semantic, semantic.home[NameOf(use)])
                  IN IF class = 0 THEN <<>> ELSE semantic.symbols[class].name

\* The machine has no closures: a program that is accepted reads no parameter, local or
\* caught variable of a function around the one it is in (codegen.cpp 335-357, 520-540).
NoCaptureEscapes == stage = "emitted" => \A use \in Range(emitted.uses) : ~BindingOf(use).captured

\* A name is resolved twice, by scope in the analyzer and by its text in the emitter, and
\* the two agree: a function bound here is called under its qualified name, an imported one
\* is a function of a module, and a variable is no function (semantic.cpp 695-757,
\* codegen.cpp 1293-1308, 1414-1521, compileRegistry.cpp 53-131). They part in two cases
\* that the code leaves open: the class the use is in has, before the use, a slot or a
\* string with the class's spelling of the name; or the module has a function of that name,
\* private or not.
Meant(use) ==
  LET y == semantic.symbols[BindingOf(use).symbol]
  IN CASE IsCallableKind(y.kind) /\ ~y.imported -> {Target("own", y.qualified), Target("name", y.qualified)}
       [] IsCallableKind(y.kind) /\ y.imported -> {Target("imported", y.name), Target("name", y.name)}
       [] OTHER -> {Target("variable", y.name), Target("name", y.name)}

NamesAgree ==
  stage = "emitted" =>
    \A use \in Range(emitted.uses) :
      LET name == ir.values[use.id].text
          class    == ClassOf(use)
          captured == class # <<>> /\ Qualified(class, name) \in use.known
      IN BindingOf(use).k = "Symbol" =>
           \/ use.to \subseteq Meant(use)
           \/ captured /\ \A to \in use.to : to.name = Qualified(class, name)
           \/ ~captured /\ \E to \in use.to : to = Target("imported", name)

-----------------------------------------------------------------------------
(* Nothing is dropped *)

Separators == {"(", ")", "{", "}", "[", "]", ";", ",", ":"}
Words0(t) == SelectSeq(t, LAMBDA x : x \notin Separators)

\* An expression and a statement as their trees read, without separators. The gate lets
\* two statements pass whose words are not all in their trees: a return of what does not
\* parse, and a function with something other than parameters that have names between its
\* own name and its body; with known they are taken from the source, without it they are left out.
RECURSIVE SpellExpr(_, _), SpellStatement(_, _)
SpellParams(params, known) ==
  Concat(Each(LAMBDA p : p.name \o (IF p.has THEN <<"=">> ELSE <<>>)
                                \o (IF p.default = 0 THEN <<>> ELSE SpellExpr(p.default, known)), params))

SpellExpr(id, known) ==
  LET x == ast.ex[id]
      lambda == ast.lm[x.lam]
      Spell(i) == SpellExpr(i, known)
      All == Concat(Each(Spell, x.kids))
  IN CASE x.k \in {"Name", "Literal"} -> x.text
       [] x.k \in {"Binary", "Assignment", "CompoundAssignment"} ->
            Spell(x.kids[1]) \o x.text \o Spell(x.kids[2])
       [] x.k = "Unary" -> x.text \o All
       [] x.k = "Postfix" -> All \o x.text
       [] x.k = "Call" -> (IF x.explicit THEN <<"goi">> ELSE <<>>) \o All
       [] x.k = "Lambda" -> <<"ham">> \o SpellParams(lambda.params, known)
                            \o SpellStatement(lambda.body, known)
       [] OTHER -> All

SpellArm(x, i, known) ==
  LET arm == x.arms[i]
  IN (IF arm.prefixed THEN <<"ca">> ELSE <<>>)
     \o (IF arm.default THEN <<"mac dinh">> ELSE SpellExpr(arm.label, known))
     \o SpellStatement(x.kids[arm.body], known)

\* what stands between the name of a function and its body
SpellHeader(x, known) ==
  LET after == x.b + 1 + Len(x.name) + IF x.vis = "Unspecified" THEN 0 ELSE 1
      close == Matching(source, after, x.e, "(", ")")
      unnamed == \E i \in (after + 1)..(close - 1) : source[i] = "=" /\ source[i - 1] \in {"(", ","}
  IN IF known /\ (close = x.e \/ close + 1 # x.kids[1].b \/ unnamed)
     THEN Words0(Lexemes(source, after, x.kids[1].b))
     ELSE SpellParams(x.params, known)

SpellStatement(x, known) ==
  LET Spell(y) == SpellStatement(y, known)
      kids  == Concat(Each(Spell, x.kids))
      roots == Concat(Each(LAMBDA id : SpellExpr(id, known), x.roots))
      first == <<source[x.b]>>
      shown == IF x.vis = "Unspecified" THEN <<>> ELSE <<source[x.b + 1]>>
  IN CASE x.k \in {"Block", "Empty"} -> kids
       [] x.k = "Import" -> first \o Words0(x.import.target)
                            \o (IF x.import.alias = "" THEN <<>> ELSE <<"nhu", x.import.alias>>)
       [] x.k = "Class" -> first \o shown \o x.name \o kids
       [] x.k = "Function" -> first \o shown \o x.name \o SpellHeader(x, known) \o kids
       [] x.k = "Switch" -> first \o SpellExpr(x.roots[1], known)
                            \o Concat([i \in DOMAIN x.arms |-> SpellArm(x, i, known)])
       [] x.k \in {"Conditional", "Try"} /\ Len(x.kids) = 2 ->
            first \o roots \o Spell(x.kids[1]) \o <<source[x.kids[1].e]>>
            \o (IF x.catch = "" THEN <<>> ELSE <<x.catch>>) \o Spell(x.kids[2])
       [] x.k = "Return" /\ x.roots = <<>> /\ known -> Words0(Lexemes(source, x.b, x.e))
       [] x.k = "Expression" -> roots
       [] OTHER -> first \o roots \o kids

ReadsAs(known) == Words0(Concat(Each(LAMBDA x : SpellStatement(x, known), ast.kids)))

\* A tolerant parser keeps what it understands and drops the rest, and the gate is there to
\* refuse a program that lost something. But for the two losses known of, an accepted program
\* reads as its source does, word for word (ir.cpp 47-131, codegen.cpp 704-1026).
NothingDropped == stage = "emitted" => ReadsAs(TRUE) = Words0(source)

\* docs/architecture.md 159-160: a malformed case that is not supported yet is refused with
\* a diagnostic. No word of an accepted program is outside its trees.
MalformedRefused == stage = "emitted" => ReadsAs(FALSE) = Words0(source)
================================================================================
