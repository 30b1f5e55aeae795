------------------------------- MODULE Parser -------------------------------
(***************************************************************************)
(* parser.cpp: tokens to the arena syntax tree of ast.h. A token range is   *)
(* [b, e), counted from 1. Expressions live in an arena ex and lambdas in   *)
(* an arena lm; an id is an index and 0 is kInvalidExprId. A name or a      *)
(* literal keeps the lexemes it covers. The parser is a state record that   *)
(* every operation takes and returns:                                       *)
(*   p   pos_             ex, lm  the arenas                                *)
(*   r   the ExprId an expression reader returns, 0 when it gives up        *)
(*   s   the statement a statement reader returns                           *)
(*   err a ParseError is on its way to whoever catches it                   *)
(***************************************************************************)
EXTENDS Tokens, FiniteSets, SequencesExt

\* AstExpression; kids are operand, left and right, callee and arguments,
\* elements, or keys and values in turn, by kind
NoExpr == [k |-> "None", b |-> 0, e |-> 0, text |-> <<>>, lit |-> "None",
           kids |-> <<>>, explicit |-> FALSE, lam |-> 0]
NoImport == [target |-> <<>>, quoted |-> FALSE, alias |-> ""]
\* AstStatement; form is whichever of the import, class, conditional, loop, switch
\* and try forms its kind has
NoStmt == [k |-> "Unknown", b |-> 0, e |-> 0, name |-> <<>>, vis |-> "Unspecified",
           form |-> "None", import |-> NoImport, catch |-> "", params |-> <<>>,
           arms |-> <<>>, roots |-> <<>>, kids |-> <<>>]

Start == [p |-> 1, ex |-> <<>>, lm |-> <<>>, r |-> 0, s |-> NoStmt, err |-> FALSE]

\* the lexeme at i of the range that ends at end
At(t, i, end) == IF i < end THEN t[i] ELSE ""
Lexemes(t, b, e) == SubSeq(t, b, e - 1)

Add(s, x)     == [s EXCEPT !.ex = Append(@, x), !.r = Len(s.ex) + 1]
GiveUp(s)     == [s EXCEPT !.r = 0]
Advance(s)    == [s EXCEPT !.p = @ + 1]
Raise(s)      == [s EXCEPT !.err = TRUE]
\* slip: the arenas keep what the attempt put in them
RollBackPosition(s, old) == [s EXCEPT !.p = old.p, !.s = old.s, !.r = 0, !.err = FALSE]
\* position and arenas as they were at the checkpoint old
RollBack(s, old) == [s EXCEPT !.p = old.p, !.ex = SubSeq(@, 1, Len(old.ex)),
                              !.lm = SubSeq(@, 1, Len(old.lm)), !.s = old.s,
                              !.r = 0, !.err = FALSE]

-----------------------------------------------------------------------------
(* Lexeme classes *)

Visibilities == {"cong khai", "rieng tu", "bao ve"}
VisibilityFor(x) == CASE x = "cong khai" -> "Public" [] x = "rieng tu" -> "Private"
                      [] x = "bao ve" -> "Protected" [] OTHER -> "Unspecified"

IsNamePiece(x) == x # "" /\ x \notin Punctuation \cup
  {"=", "+", "-", "*", "/", "%", "!", "==", "!=", "<", ">", "<=", ">=", "&&", "||"}

IsCallablePiece(x) == x # "" /\ Kind(x) \in {"Keyword", "Identifier"}
IsExpressionPiece(x) == IsCallablePiece(x) /\ x \notin {"dung", "sai", "rong", "ham", "goi"}

CompoundAssign == {"+=", "-=", "*=", "/=", "%="}
Comparisons    == {"==", "!=", "<", ">", "<=", ">="}

LeftBindingPower(op) == CASE op \in CompoundAssign -> 0
                          [] op = "="  -> 1
                          [] op = "||" -> 2
                          [] op = "&&" -> 3
                          [] op \in Comparisons -> 4
                          [] op \in {"+", "-"} -> 5
                          [] op \in {"*", "/", "%"} -> 6
                          [] OTHER -> -1
\* slip: equal levels group to the right
RightAssociative(op) == IF op \in CompoundAssign \cup {"="} THEN 1 ELSE LeftBindingPower(op)
RightBindingPower(op) == IF op \in CompoundAssign \cup {"="} THEN 1
                         ELSE LeftBindingPower(op) + 1

\* the index of the delimiter that closes the one at open, other kinds not looked at
Matching(t, open, end, l, r) ==
  LET Depth(i) == Cardinality({j \in open..i : t[j] = l}) - Cardinality({j \in open..i : t[j] = r})
      closing  == {i \in open..(end - 1) : t[i] = r /\ Depth(i) = 0}
  IN IF open >= end \/ t[open] # l \/ closing = {} THEN end
     ELSE CHOOSE i \in closing : \A j \in closing : i <= j

\* where sep stands in [b, e) with all three bracket counters at zero before it
AtDepthZero(t, b, e, sep) ==
  LET Count(x, i) == Cardinality({j \in b..(i - 1) : t[j] = x})
  IN {i \in b..(e - 1) : /\ t[i] = sep
                         /\ Count("(", i) = Count(")", i)
                         /\ Count("[", i) = Count("]", i)
                         /\ Count("{", i) = Count("}", i)}

\* the ranges [b, e) is cut into at the positions cuts
Fields(b, e, cuts) ==
  LET all  == cuts \cup {e}
      ends == [n \in 1..Cardinality(all) |->
                 CHOOSE i \in all : Cardinality({j \in all : j < i}) = n - 1]
  IN [i \in 1..Len(ends) |-> <<IF i = 1 THEN b ELSE ends[i - 1] + 1, ends[i]>>]

BeginsLambda(t, b, end) ==
  /\ At(t, b, end) = "ham" /\ At(t, b + 1, end) = "("
  /\ At(t, Matching(t, b + 1, end, "(", ")") + 1, end) = "{"

\* classify, by the first lexeme
StatementKind(x) ==
  CASE x = ";" -> "Empty"       [] x = "{" -> "Block"     [] x = "nhap" -> "Import"
    [] x = "ham" -> "Function"  [] x = "lop" -> "Class"   [] x = "neu" -> "Conditional"
    [] x = "lap" -> "Loop"      [] x = "chon" -> "Switch" [] x = "tra ve" -> "Return"
    [] x = "in" -> "Print"      [] x = "thoat" -> "Break" [] x = "bo qua" -> "Continue"
    [] x = "nem" -> "Throw"     [] x = "thu" -> "Try"     [] OTHER -> "Expression"

IsCompound(k) == k \in {"Function", "Class", "Conditional", "Loop", "Switch", "Try"}
IsContinuation(x) == x \in {"hoac", "neu khong"}

-----------------------------------------------------------------------------
(* ExpressionReader: a Pratt reader of the slice that ends before end *)

RECURSIVE Expr(_, _, _, _), Climb(_, _, _, _), Prefix(_, _, _), CallOf(_, _, _),
          Items(_, _, _, _, _), Entries(_, _, _, _, _), Lambda(_, _, _),
          Block(_, _), BlockItems(_, _, _, _), Statement(_, _, _),
          Scan(_, _, _, _, _, _), StructuredSwitch(_, _), SwitchArms(_, _, _)

ReadName(t, end, s, callable) ==
  LET Piece(x) == IF callable THEN IsCallablePiece(x) ELSE IsExpressionPiece(x)
      stop == CHOOSE i \in s.p..end : /\ i = end \/ ~Piece(t[i])
                                      /\ \A j \in s.p..(i - 1) : Piece(t[j])
  IN IF stop = s.p THEN GiveUp(s)
     ELSE Add([s EXCEPT !.p = stop], [NoExpr EXCEPT !.k = "Name", !.b = s.p, !.e = stop,
                                                    !.text = Lexemes(t, s.p, stop)])

\* parseExpression: operands and operators that bind at least as tight as min
Expr(t, end, min, s) ==
  LET From(left) == IF left.r = 0 THEN left ELSE Climb(t, end, min, left) IN From(Prefix(t, end, s))

Climb(t, end, min, s) ==
  LET op == At(t, s.p, end)
      Node(k, text, kids, e, u) ==
        Climb(t, end, min, Add(u, [NoExpr EXCEPT !.k = k, !.b = s.ex[s.r].b, !.e = e,
                                                 !.text = text, !.kids = kids]))
      Called(call) == IF call.r = 0 THEN call ELSE Climb(t, end, min, call)
      Indexed(index) ==
        IF index.r = 0 \/ At(t, index.p, end) # "]" THEN GiveUp(index)
        ELSE Node("Index", <<>>, <<s.r, index.r>>, index.p + 1, Advance(index))
      k == CASE op = "=" -> "Assignment" [] op \in CompoundAssign -> "CompoundAssignment"
             [] OTHER -> "Binary"
      Infix(right) == IF right.r = 0 THEN right
                      ELSE Node(k, <<op>>, <<s.r, right.r>>, right.ex[right.r].e, right)
  IN CASE op = "" -> s
       [] op = "(" -> Called(CallOf(t, end, s))
       [] op = "[" -> Indexed(Expr(t, end, 0, Advance(s)))
       [] op \in {"++", "--"} -> Node("Postfix", <<op>>, <<s.r>>, s.p + 1, Advance(s))
       [] op \notin {"", "(", "[", "++", "--"} ->
            IF LeftBindingPower(op) < min THEN s
            ELSE Infix(Expr(t, end, RightBindingPower(op), Advance(s)))

\* a literal or a name; a callable name is as long as it can be, literal words included
Operand(t, end, s) ==
  LET x == t[s.p]
      callable == ReadName(t, end, s, TRUE)
      lit == CASE Kind(x) \in {"Integer", "Float", "String"} -> Kind(x)
               [] x \in {"dung", "sai"} -> "Boolean"
               [] x = "rong" -> "Null"
               [] OTHER -> "None"
  IN CASE callable.r # 0 /\ At(t, callable.p, end) = "(" -> callable
       [] ~(callable.r # 0 /\ At(t, callable.p, end) = "(") /\ lit # "None" ->
            Add(Advance(s), [NoExpr EXCEPT !.k = "Literal", !.b = s.p, !.e = s.p + 1,
                                           !.text = <<x>>, !.lit = lit])
       [] OTHER -> ReadName(t, end, s, FALSE)

\* parsePrefix; a group and an explicit call widen the range of the node they hold
Prefix(t, end, s) ==
  LET x == At(t, s.p, end)
      Signed(operand) ==
        IF operand.r = 0 THEN operand
        ELSE Add(operand, [NoExpr EXCEPT !.k = "Unary", !.b = s.p, !.text = <<x>>,
                             !.e = operand.ex[operand.r].e, !.kids = <<operand.r>>])
      Grouped(group) ==
        IF group.r = 0 \/ At(t, group.p, end) # ")" THEN GiveUp(group)
        ELSE [Advance(group) EXCEPT !.ex[group.r].b = s.p, !.ex[group.r].e = group.p + 1]
      Listed(list) ==
        IF ~list.ok THEN GiveUp(list.s)
        ELSE Add(list.s, [NoExpr EXCEPT !.k = "ListLiteral", !.b = s.p, !.e = list.s.p,
                                        !.kids = list.ids])
      Dedicated(call) == IF call.r = 0 THEN GiveUp(s)
                         ELSE [call EXCEPT !.ex[call.r].explicit = TRUE, !.ex[call.r].b = s.p]
  IN CASE x = "" -> GiveUp(s)
       [] x \in {"!", "+", "-"} -> Signed(Expr(t, end, 7, Advance(s)))
       [] x = "(" -> Grouped(Expr(t, end, 0, Advance(s)))
       [] x = "{" -> Entries(t, end, s.p, <<>>, Advance(s))
       [] x = "[" -> Listed(Items(t, end, "]", <<>>, Advance(s)))
       [] BeginsLambda(t, s.p, end) -> Lambda(t, end, s)
       [] x = "goi" /\ At(t, s.p + 1, end) \notin {"", "("} ->
            Dedicated(CallOf(t, end, ReadName(t, end, Advance(s), TRUE)))
       [] /\ x \notin {"", "!", "+", "-", "(", "{", "["} /\ ~BeginsLambda(t, s.p, end)
          /\ ~(x = "goi" /\ At(t, s.p + 1, end) \notin {"", "("}) -> Operand(t, end, s)

\* expressions separated by commas up to close; no comma may stand before close
Items(t, end, close, ids, s) ==
  LET With(item, next, all) ==
        CASE item.r # 0 /\ next = close -> [ok |-> TRUE, ids |-> all, s |-> Advance(item)]
          [] item.r # 0 /\ next = "," -> Items(t, end, close, all, Advance(item))
          [] OTHER -> [ok |-> FALSE, ids |-> <<>>, s |-> item]
      Read(item) == With(item, At(t, item.p, end), Append(ids, item.r))
  IN IF ids = <<>> /\ At(t, s.p, end) = close
     THEN [ok |-> TRUE, ids |-> <<>>, s |-> Advance(s)] ELSE Read(Expr(t, end, 0, s))

\* parseCall, of the callee s.r
CallOf(t, end, s) ==
  LET With(args) ==
        IF ~args.ok THEN GiveUp(args.s)
        ELSE Add(args.s, [NoExpr EXCEPT !.k = "Call", !.b = s.ex[s.r].b, !.e = args.s.p,
                                        !.kids = <<s.r>> \o args.ids])
  IN IF s.r = 0 \/ At(t, s.p, end) # "(" THEN GiveUp(s)
     ELSE With(Items(t, end, ")", <<>>, Advance(s)))

\* parseMapLiteral, after its brace at b: a comma may stand before the closing one
Entries(t, end, b, ids, s) ==
  LET Close(held, u) == Add(Advance(u), [NoExpr EXCEPT !.k = "MapLiteral", !.b = b,
                                                       !.e = u.p + 1, !.kids = held])
      Entry(key, value) ==
        CASE value.r # 0 /\ At(t, value.p, end) = "," ->
               Entries(t, end, b, ids \o <<key, value.r>>, Advance(value))
          [] value.r # 0 /\ At(t, value.p, end) = "}" -> Close(ids \o <<key, value.r>>, value)
          [] OTHER -> GiveUp(value)
      Keyed(key) == IF key.r = 0 \/ At(t, key.p, end) # ":" THEN GiveUp(key)
                    ELSE Entry(key.r, Expr(t, end, 0, Advance(key)))
  IN IF At(t, s.p, end) = "}" THEN Close(ids, s) ELSE Keyed(Expr(t, end, 0, s))

\* one parameter of a lambda, of the range f, added to what acc holds
LambdaParameter(t, acc, f) ==
  LET equals  == Min(AtDepthZero(t, f[1], f[2], "=") \cup {f[2]})
      Param(d, u) == [acc EXCEPT !.s = u, !.params = Append(@,
                        [name |-> Lexemes(t, f[1], equals), has |-> equals < f[2], default |-> d])]
      Defaulting(default) == IF default.r = 0 \/ default.p # f[2] THEN [acc EXCEPT !.ok = FALSE]
                             ELSE Param(default.r, default)
  IN IF ~acc.ok \/ f[1] >= f[2] \/ equals = f[1] THEN [acc EXCEPT !.ok = FALSE]
     ELSE IF equals = f[2] THEN Param(0, acc.s)
     ELSE IF equals + 1 >= f[2] THEN [acc EXCEPT !.ok = FALSE]
     ELSE Defaulting(Expr(t, f[2], 0, [acc.s EXCEPT !.p = equals + 1]))

\* parseLambda: the parameters, then the body through the statement parser, whose
\* ParseError stops here
Lambda(t, end, s) ==
  LET first   == s.p + 2
      close   == Min(AtDepthZero(t, first, end, ")") \cup {end})
      fields  == Fields(first, close, AtDepthZero(t, first, close, ","))
      given   == IF Last(fields)[1] = close THEN Front(fields) ELSE fields
      bodyEnd == Matching(t, close + 1, end, "{", "}")
      Made(params, body) ==
        IF body.err \/ body.p # bodyEnd + 1 THEN RollBack(body, s)
        ELSE Add([body EXCEPT !.s = s.s, !.lm = Append(@, [params |-> params, body |-> body.s,
                                                           expr |-> Len(body.ex) + 1])],
                 [NoExpr EXCEPT !.k = "Lambda", !.b = s.p, !.e = body.p, !.lam = Len(body.lm) + 1])
      Read(acc) ==
        IF ~acc.ok \/ At(t, close, end) # ")" \/ At(t, close + 1, end) # "{" \/ bodyEnd = end
        THEN RollBack(acc.s, s) ELSE Made(acc.params, Block(t, [acc.s EXCEPT !.p = close + 1]))
  IN Read(FoldLeft(LAMBDA acc, f : LambdaParameter(t, acc, f),
                   [s |-> s, params |-> <<>>, ok |-> TRUE], given))

\* slip: what follows the expression is not looked at
TryPrefixOf(t, b, e, s) ==
  LET Prefixed(root) == IF root.r = 0 THEN RollBack(root, s) ELSE [root EXCEPT !.p = s.p]
  IN IF b >= e THEN GiveUp(s)
     ELSE IF t[b] = ";" THEN GiveUp(s) ELSE Prefixed(Expr(t, e, 0, [s EXCEPT !.p = b]))

\* tryParseExpression: the whole of [b, e) without its last semicolons, or nothing
TryExpression(t, b, e, s) ==
  LET end  == CHOOSE i \in b..e : /\ i = b \/ t[i - 1] # ";"
                                  /\ \A j \in (i + 1)..e : t[j - 1] = ";"
      Whole(root) == IF root.r = 0 \/ root.p # end THEN RollBack(root, s) ELSE [root EXCEPT !.p = s.p]
  IN IF b >= e THEN GiveUp(s)
     ELSE IF b = end THEN GiveUp(s)
     ELSE Whole(Expr(t, end, 0, [s EXCEPT !.p = b]))

-----------------------------------------------------------------------------
(* Statements *)

\* tryParseExpression for each range, the roots that parse kept in order
Roots(t, ranges, s) ==
  LET Kept(x) == IF x.r = 0 THEN x ELSE [x EXCEPT !.s.roots = Append(@, x.r)]
  IN FoldLeft(LAMBDA u, f : Kept(TryExpression(t, f[1], f[2], u)), s, ranges)

\* attachDeclarationPayload's addParameter: an empty field is skipped, and a default
\* that does not parse is still a default
DeclaredParameter(t, s, f) ==
  LET equals  == Min(AtDepthZero(t, f[1], f[2], "=") \cup {f[2]})
      Param(d, u) == [u EXCEPT !.s.params =
                        Append(@, [name |-> Lexemes(t, f[1], equals), has |-> equals < f[2], default |-> d])]
      Defaulting(default) == Param(default.r, default)
  IN IF f[1] >= f[2] \/ equals = f[1] THEN s
     ELSE IF equals = f[2] THEN Param(0, s)
     ELSE Defaulting(TryExpression(t, equals + 1, f[2], s))

\* declarationName and attachDeclarationPayload, of the function or class in s.s
WithDeclaration(t, s) ==
  LET b     == s.s.b
      e     == s.s.e
      first == IF At(t, b + 1, e) \in Visibilities THEN b + 2 ELSE b + 1
      stop  == CHOOSE i \in first..e : /\ i = e \/ ~IsNamePiece(t[i])
                                       /\ \A j \in first..(i - 1) : IsNamePiece(t[j])
      open  == Min({i \in first..(e - 1) : t[i] = "("} \cup {e})
      close == Matching(t, open, e, "(", ")")
      named == [s EXCEPT !.s.vis = VisibilityFor(At(t, b + 1, e)),
                         !.s.name = CASE s.s.k = "Function" -> Lexemes(t, first, stop)
                                      [] s.s.k = "Class" /\ first < stop -> <<t[first]>>
                                      [] OTHER -> <<>>]
  IN IF s.s.k \notin {"Function", "Class"} THEN s
     ELSE IF s.s.k = "Class" \/ open = e \/ close = e THEN named
     ELSE FoldLeft(LAMBDA u, f : DeclaredParameter(t, u, f), named,
                   Fields(open + 1, close, AtDepthZero(t, open + 1, close, ",")))

\* attachImportForm: a quoted target or the words up to "nhu", a .vi file or a bare
\* package name, an optional alias of one word, a semicolon
WithImport(t, s) ==
  LET b == s.s.b
      e == s.s.e
      quoted  == Kind(At(t, b + 1, e)) = "String"
      stop    == IF quoted THEN b + 2
                 ELSE Min({i \in (b + 1)..(e - 1) : t[i] = "nhu"} \cup {e - 1})
      target  == Lexemes(t, b + 1, stop)
      lastSep == Max({i \in DOMAIN target : target[i] = "/"} \cup {0})
      bare    == lastSep = 0 /\ ~\E i \in DOMAIN target : HasDot(target[i])
      aliased == stop < e - 1 /\ t[stop] = "nhu"
      after   == IF aliased THEN stop + 2 ELSE stop
  IN IF /\ s.s.k = "Import" /\ b + 2 < e /\ At(t, e - 1, e) = ";"
        /\ target # <<>> /\ (bare \/ HasViSuffix(target, quoted))
        /\ aliased => stop + 1 < e - 1 /\ Kind(t[stop + 1]) = "Identifier"
        /\ after = e - 1
     THEN [s EXCEPT !.s.form = "LocalSourceFile",
                    !.s.import = [target |-> target, quoted |-> quoted,
                                  alias |-> IF aliased THEN t[stop + 1] ELSE ""]]
     ELSE s

\* attachExpressionRoots
WithRoots(t, s) ==
  LET b == s.s.b
      e == s.s.e
      open  == Min({i \in (b + 1)..(e - 1) : t[i] = "("} \cup {e})
      close == Matching(t, open, e, "(", ")")
  IN CASE s.s.k = "Expression" -> Roots(t, <<<<b, e>>>>, s)
       [] s.s.k \in {"Print", "Return", "Throw"} -> Roots(t, <<<<b + 1, e>>>>, s)
       [] s.s.k \in {"Conditional", "Switch"} /\ close < e ->
            Roots(t, <<<<open + 1, close>>>>, s)
       [] s.s.k = "Loop" /\ close < e ->
            Roots(t, Fields(open + 1, close, AtDepthZero(t, open + 1, close, ";")), s)
       [] OTHER -> s

\* attachClassForm, attachConditionalForm, attachLoopForm, attachTryForm: a form is
\* recognised only where every delimiter and block stands exactly as expected
MethodBlock(t, x) ==
  LET cursor == IF At(t, x.b + 1, x.e) \in Visibilities THEN x.b + 2 ELSE x.b + 1
  IN /\ x.roots = <<>> /\ Len(x.kids) = 1
     /\ cursor < x.e /\ Kind(t[cursor]) = "Identifier"
     /\ At(t, cursor + 1, x.e) = "{" /\ x.kids[1].b = cursor + 1 /\ x.kids[1].e = x.e
     /\ \A i \in DOMAIN x.kids[1].kids : x.kids[1].kids[i].k \in {"Function", "Empty"}

IfBlock(t, x) ==
  LET close == Matching(t, x.b + 1, x.e, "(", ")")
  IN /\ Len(x.roots) = 1 /\ x.kids # <<>>
     /\ At(t, close + 1, x.e) = "{" /\ x.kids[1].b = close + 1

ConditionalForm(t, x) ==
  IF ~IfBlock(t, x) THEN "None"
  ELSE LET continuation == x.kids[1].e
       IN CASE continuation = x.e /\ Len(x.kids) = 1 -> "IfBlock"
            [] /\ Len(x.kids) = 2 /\ continuation < x.e /\ IsContinuation(t[continuation])
               /\ x.kids[2].b = continuation + 1 /\ x.kids[2].e = x.e -> "IfElseBlocks"
            [] OTHER -> "None"

ForBlock(t, x) ==
  LET close == Matching(t, x.b + 1, x.e, "(", ")")
  IN /\ Len(x.roots) = 3 /\ Len(x.kids) = 1
     /\ At(t, close + 1, x.e) = "{" /\ x.kids[1].b = close + 1 /\ x.kids[1].e = x.e
     /\ Cardinality(AtDepthZero(t, x.b + 2, close, ";")) = 2

WithTry(t, s) ==
  LET x      == s.s
      cursor == x.kids[1].e + 1
      named  == At(t, cursor, x.kids[2].b) = "("
      close  == Matching(t, cursor, x.kids[2].b, "(", ")")
      after  == IF named THEN close + 1 ELSE cursor
  IN IF /\ x.k = "Try" /\ Len(x.kids) = 2
        /\ x.kids[1].b = x.b + 1 /\ x.kids[1].e < x.e /\ x.kids[2].e = x.e
        /\ t[x.kids[1].e] = "bat loi"
        /\ named => close < x.kids[2].b /\ close = cursor + 2 /\ IsNamePiece(t[cursor + 1])
     THEN [s EXCEPT !.s.form = IF after = x.kids[2].b THEN "TryCatchBlocks" ELSE "None",
                    !.s.catch = IF named THEN t[cursor + 1] ELSE ""]
     ELSE s

WithForm(t, s) ==
  CASE s.s.k = "Class" /\ MethodBlock(t, s.s) -> [s EXCEPT !.s.form = "MethodBlock"]
    [] s.s.k = "Conditional" -> [s EXCEPT !.s.form = ConditionalForm(t, s.s)]
    [] s.s.k = "Loop" /\ ForBlock(t, s.s) -> [s EXCEPT !.s.form = "ForBlock"]
    [] s.s.k = "Try" -> WithTry(t, s)
    [] OTHER -> s

Opener(x) == CASE x = ")" -> "(" [] x = "]" -> "[" [] x = "}" -> "{"
\* slip: any bracket closes the last one
ClosesAny(stack, x) == stack # <<>>
Closes(stack, x) == stack # <<>> /\ Last(stack) = Opener(x)

\* the token loop of parseStatement: up to a semicolon, or past the blocks of a
\* compound kind, or up to the brace that closes the block around it
Scan(t, k, inside, stack, kids, s) ==
  LET x == At(t, s.p, Len(t) + 1)
      Push == Scan(t, k, inside, Append(stack, x), kids, Advance(s))
      Pop  == IF Closes(stack, x) THEN Scan(t, k, inside, Front(stack), kids, Advance(s))
              ELSE Raise(s)
      Stop(u, held) == IF stack # <<>> THEN Raise(u)
                       ELSE [u EXCEPT !.s = [NoStmt EXCEPT !.kids = held]]
      opensBlock == x = "{" /\ stack = <<>> /\ IsCompound(k)
      Past(block, next, more) ==
        CASE block.err -> block
          [] /\ ~block.err
             /\ \/ k = "Conditional" /\ IsContinuation(next)
                \/ k = "Try" /\ Len(more) = 1 /\ next = "bat loi" ->
               Scan(t, k, inside, stack, more, block)
          [] OTHER -> Stop(block, more)
      After(block) == Past(block, At(t, block.p, Len(t) + 1), Append(kids, block.s))
  IN CASE x = "" -> Stop(s, kids)
       [] opensBlock -> After(Block(t, s))
       [] x \in {"(", "["} \/ (x = "{" /\ ~opensBlock) -> Push
       [] x \in {")", "]"} \/ (x = "}" /\ Contains(stack, "{")) -> Pop
       [] x = "}" /\ ~Contains(stack, "{") -> IF inside THEN Stop(s, kids) ELSE Raise(s)
       [] x = ";" /\ stack = <<>> -> Stop(Advance(s), kids)
       [] x \notin {"", "(", ")", "[", "]", "{", "}"} /\ ~(x = ";" /\ stack = <<>>) ->
            Scan(t, k, inside, stack, kids, Advance(s))

\* parseStatement
Statement(t, inside, s) ==
  LET k == StatementKind(t[s.p])
      Formed(u) == WithForm(t, WithRoots(t, WithImport(t, WithDeclaration(t, u))))
      Finish(scanned) ==
        IF scanned.err THEN scanned
        ELSE Formed([scanned EXCEPT !.s.k = k, !.s.b = s.p, !.s.e = scanned.p])
      From(u) == IF k = "Switch" /\ u.r # 0 THEN u
                 ELSE Finish(Scan(t, k, inside, <<>>, <<>>, u))
  IN CASE k = "Empty" ->
            [Advance(s) EXCEPT !.s = [NoStmt EXCEPT !.k = k, !.b = s.p, !.e = s.p + 1]]
       [] k = "Block" -> Block(t, s)
       [] k \notin {"Empty", "Block"} -> From(IF k = "Switch" THEN StructuredSwitch(t, s) ELSE s)

\* parseBlock
Block(t, s) ==
  IF At(t, s.p, Len(t) + 1) # "{" THEN Raise(s) ELSE BlockItems(t, s.p, <<>>, Advance(s))

BlockItems(t, b, kids, s) ==
  LET Past(x) == IF x.err THEN x ELSE BlockItems(t, b, Append(kids, x.s), x)
  IN IF s.p > Len(t) THEN Raise(s)
     ELSE IF t[s.p] = "}"
     THEN [Advance(s) EXCEPT !.s = [NoStmt EXCEPT !.k = "Block", !.b = b, !.e = s.p + 1,
                                                  !.kids = kids]]
     ELSE Past(Statement(t, TRUE, s))

\* tryParseStructuredSwitch: r # 0 when the switch is taken; otherwise, and when a
\* ParseError comes from an arm's body, everything is as it was before
StructuredSwitch(t, s) ==
  LET end      == Len(t) + 1
      close    == Matching(t, s.p + 1, end, "(", ")")
      Taken(switch) == IF switch.err \/ switch.r = 0 THEN RollBack(switch, s) ELSE switch
      On(selector) ==
        IF selector.r = 0 \/ At(t, close + 1, end) # "{" THEN RollBack(selector, s)
        ELSE Taken(SwitchArms(t, [NoStmt EXCEPT !.k = "Switch", !.form = "Structured", !.b = s.p,
                                                !.roots = <<selector.r>>],
                              [selector EXCEPT !.p = close + 2]))
  IN IF close >= end THEN GiveUp(s) ELSE On(TryExpression(t, s.p + 2, close, s))

SwitchArms(t, switch, s) ==
  LET end   == Len(t) + 1
      x     == At(t, s.p, end)
      at    == IF x = "ca" THEN s.p + 1 ELSE s.p
      default == At(t, at, end) = "mac dinh"
      colon == At(t, at + 1, end) = ":"
      open  == IF colon THEN at + 2 ELSE at + 1
      Arm(label) == [default |-> default, prefixed |-> x = "ca", label |-> label, colon |-> colon,
                     body |-> Len(switch.kids) + 1]
      With(label, body) ==
        IF body.err THEN body
        ELSE SwitchArms(t, [switch EXCEPT !.kids = Append(@, body.s), !.arms = Append(@, Arm(label)),
                              !.roots = IF default THEN @ ELSE Append(@, label)],
                        body)
      Labelled(u) ==
        IF (~default /\ u.r = 0) \/ At(t, open, end) # "{" THEN GiveUp(u)
        ELSE With(u.r, Block(t, [u EXCEPT !.p = open]))
  IN CASE x = "" -> GiveUp(s)
       [] x = "}" -> [Advance(s) EXCEPT !.s = [switch EXCEPT !.e = s.p + 1], !.r = 1]
       [] x = ";" -> SwitchArms(t, switch, Advance(s))
       [] x \notin {"", "}", ";"} ->
            IF At(t, at, end) \in {"", "}"} \/ (~default /\ x # "ca") THEN GiveUp(s)
            ELSE Labelled(IF default THEN GiveUp(s) ELSE TryExpression(t, at, at + 1, s))

\* parseProgram
RECURSIVE Statements(_, _, _)
Statements(t, found, s) ==
  LET Past(x) == Statements(t, Append(found, x.s), x)
  IN IF s.err \/ s.p > Len(t)
     THEN [s EXCEPT !.s = [NoStmt EXCEPT !.k = "Program", !.kids = found]]
     ELSE Past(Statement(t, FALSE, s))

\* parseTokens: the program, or what the error left
Parse(t) ==
  LET done == Statements(t, <<>>, Start)
  IN [err |-> done.err, ex |-> done.ex, lm |-> done.lm, kids |-> done.s.kids]
==============================================================================
