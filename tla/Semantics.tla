------------------------------ MODULE Semantics ------------------------------
(***************************************************************************)
(* semantic.cpp, Analyzer: scopes, symbols and bindings of a parsed         *)
(* program. A unit u is a program of Parser with its tokens t, the policy   *)
(* (strict or not), the functions its imports export and the native         *)
(* callables. Scope 1 is the global scope; 0 is no scope, no symbol. The    *)
(* analyzer's tables are the record m that every pass takes and returns:    *)
(*   scopes, symbols   arenas, ids from 1                                   *)
(*   at, decl, named   statementScopes, declarationScopes_ and              *)
(*                     declarationSymbols, by first token                   *)
(*   home, bind, call  expressionScopes, expressionBindings, callBindings   *)
(*   lambdas           SemanticLambda, in the order their scopes are made   *)
(*   declared, resolved   the lambda bodies each pass has been through      *)
(*   errors            diagnostics                                          *)
(***************************************************************************)
EXTENDS Parser, TLC

NoBinding == [k |-> "Unresolved", symbol |-> 0, scope |-> 0, depth |-> 0, captured |-> FALSE,
              receiver |-> <<>>, member |-> <<>>]
NoCall == [k |-> "Invalid", symbol |-> 0]

NewModel(u) == [scopes |-> <<>>, symbols |-> <<>>, at |-> <<>>, decl |-> <<>>, named |-> <<>>,
                home |-> [i \in DOMAIN u.ex |-> 0], bind |-> [i \in DOMAIN u.ex |-> NoBinding],
                call |-> [i \in DOMAIN u.ex |-> NoCall], lambdas |-> <<>>,
                declared |-> {}, resolved |-> {}, errors |-> <<>>]

Space(kind) == CASE kind = "Class" -> "Type" [] kind = "ImportAlias" -> "Module" [] OTHER -> "Value"
IsCallableKind(kind) == kind \in {"Function", "Method"}
IsIndirectKind(kind) == kind \in {"Parameter", "GlobalVariable", "LocalVariable", "CatchVariable"}
IsCapturableKind(kind) == kind \in {"Parameter", "LocalVariable", "CatchVariable"}

\* splitQualifiedRuntimeMember, at the first dot; <<>> when there is none
FirstDot(name) == Min({i \in DOMAIN name : name[i] \in Dotted} \cup {Len(name) + 1})
IsMemberName(name) == FirstDot(name) <= Len(name)
ReceiverOf(name) == SubSeq(name, 1, FirstDot(name) - 1) \o <<Owner(name[FirstDot(name)])>>
MemberOf(name)   == <<Member(name[FirstDot(name)])>> \o SubSeq(name, FirstDot(name) + 1, Len(name))
\* class "." method, as one name
Qualified(class, method) == Front(class) \o <<Last(class) \o "." \o Head(method)>> \o Tail(method)

Error(m, what) == [m EXCEPT !.errors = Append(@, what)]

AddScope(m, kind, parent, owner, ex) ==
  [m EXCEPT !.scopes = Append(@, [kind |-> kind, parent |-> parent, owner |-> owner, ex |-> ex])]
NewScope(m) == Len(m.scopes) + 1
Put(f, key, value) == (key :> value) @@ f
PutNew(f, key, value) == f @@ (key :> value)

InScope(m, scope, space, name) ==
  LET found == {i \in DOMAIN m.symbols : /\ m.symbols[i].scope = scope /\ m.symbols[i].name = name
                                         /\ Space(m.symbols[i].kind) = space}
  IN IF found = {} THEN 0 ELSE Min(found)

\* addSymbol: nothing for an empty name; the first declaration of a name in a scope
\* and space wins. token is the declaration's first one, 0 when it is not recorded.
NewSymbol == [kind |-> "Function", name |-> <<>>, qualified |-> <<>>, vis |-> "Unspecified",
              scope |-> 0, class |-> 0, member |-> 0, imported |-> FALSE]
IsDuplicate(m, y) == InScope(m, y.scope, Space(y.kind), y.name) # 0

AddSymbol(m, y, diagnose, token) ==
  LET id == Len(m.symbols) + 1
      added == [m EXCEPT !.symbols = Append(@, y)]
  IN CASE y.name = <<>> -> m
       [] y.name # <<>> /\ IsDuplicate(m, y) ->
            IF diagnose THEN Error(m, <<"duplicate", y.name>>) ELSE m
       [] y.name # <<>> /\ ~IsDuplicate(m, y) ->
            IF token = 0 THEN added ELSE [added EXCEPT !.named = PutNew(@, token, id)]

Variable(scope, kind, name) ==
  [NewSymbol EXCEPT !.kind = kind, !.scope = scope, !.name = name, !.qualified = name]

-----------------------------------------------------------------------------
(* First pass: the scopes of statements and what they declare *)

RECURSIVE BuildList(_, _, _, _, _), BuildStatement(_, _, _, _, _)

\* legacy_payload
LegacyAlias(u, x) ==
  LET found == {i \in x.b..(x.e - 2) : u.t[i] = "nhu" /\ Kind(u.t[i + 1]) = "Identifier"}
  IN IF found = {} THEN <<>> ELSE <<u.t[Min(found) + 1]>>
LegacyCatch(u, x, child) ==
  LET from  == x.kids[child - 1].e
      found == {i \in from..(x.kids[child].b - 3) :
                  u.t[i] = "bat loi" /\ u.t[i + 1] = "(" /\ Kind(u.t[i + 2]) = "Identifier"}
  IN IF found = {} THEN <<>> ELSE <<u.t[Min(found) + 2]>>

\* predeclare: the name and scope of a function or class; a method is called
\* Class.name, and shows as its class does unless it says otherwise. The scope of a
\* duplicate is not made, and nothing looks into its body.
Predeclare(m, x, scope, class) ==
  LET direct == IF m.scopes[scope].kind = "Class" THEN class ELSE 0
      kind   == CASE x.k = "Class" -> "Class" [] x.k = "Function" /\ direct = 0 -> "Function"
                  [] OTHER -> "Method"
      y == [NewSymbol EXCEPT
              !.kind = kind, !.name = x.name, !.scope = scope, !.class = direct,
              !.qualified = IF direct = 0 THEN x.name
                            ELSE Qualified(m.symbols[direct].qualified, x.name),
              !.vis = IF kind = "Method" /\ x.vis = "Unspecified" THEN m.symbols[direct].vis
                      ELSE x.vis,
              !.member = NewScope(m)]
      added == AddSymbol(m, y, TRUE, x.b)
  IN CASE x.name = <<>> -> Error(m, <<"missing name", x.k>>)
       [] x.name # <<>> /\ IsDuplicate(m, y) -> added
       [] x.name # <<>> /\ ~IsDuplicate(m, y) ->
            [AddScope(added, x.k, scope, Len(added.symbols), 0)
               EXCEPT !.decl = Put(@, x.b, NewScope(m))]

PredeclareOne(u, m, x, scope, class) ==
  CASE x.k \in {"Function", "Class"} -> Predeclare(m, x, scope, class)
    [] x.k = "Import" ->
         LET alias == IF x.form # "LocalSourceFile" THEN LegacyAlias(u, x)
                      ELSE IF x.import.alias = "" THEN <<>> ELSE <<x.import.alias>>
         IN AddSymbol(m, Variable(scope, "ImportAlias", alias), TRUE, x.b)
    [] OTHER -> m

BuildList(u, m, kids, scope, class) ==
  LET predeclared == FoldLeft(LAMBDA n, x : PredeclareOne(u, n, x, scope, class), m, kids)
  IN FoldLeft(LAMBDA n, x : BuildStatement(u, n, x, scope, class), predeclared, kids)

BuildBlock(u, m, block, parent, class) ==
  LET id == NewScope(m)
  IN BuildList(u, [AddScope(m, "Block", parent, 0, 0) EXCEPT !.at = Put(@, block.b, id)],
               block.kids, id, class)

BuildBlocks(u, m, kids, parent, class) ==
  FoldLeft(LAMBDA n, x : BuildBlock(u, n, x, parent, class), m, kids)

AddParameters(m, params, scope) ==
  FoldLeft(LAMBDA n, p : AddSymbol(n, Variable(scope, "Parameter", p.name), TRUE, 0), m, params)

\* a catch: a scope for its variable, and its body's scope inside
BuildCatch(u, m, x, child, parent, class) ==
  LET id   == NewScope(m)
      body == x.kids[child]
      name == IF x.form # "TryCatchBlocks" \/ child # 2 THEN LegacyCatch(u, x, child)
              ELSE IF x.catch = "" THEN <<>> ELSE <<x.catch>>
      caught == AddSymbol(AddScope(m, "Catch", parent, 0, 0),
                          Variable(id, "CatchVariable", name), TRUE, 0)
  IN BuildList(u, [AddScope(caught, "Block", id, 0, 0) EXCEPT !.at = Put(@, body.b, id + 1)],
               body.kids, id + 1, class)

BuildStatement(u, m, x, scope, class) ==
  LET known == x.b \in DOMAIN m.decl
      own   == m.decl[x.b]
      Here(n, s) == [n EXCEPT !.at = Put(@, x.b, s)]
  IN CASE x.k \in {"Class", "Function"} /\ ~known -> Here(m, scope)
       [] x.k = "Class" /\ known ->
            FoldLeft(LAMBDA n, body :
                       BuildList(u, [n EXCEPT !.at = Put(@, body.b, own)], body.kids, own,
                                 m.scopes[own].owner),
                     Here(m, own), x.kids)
       [] x.k = "Function" /\ known ->
            BuildBlocks(u, AddParameters(Here(m, own), x.params, own), x.kids, own, class)
       [] x.k = "Block" -> BuildBlock(u, m, x, scope, class)
       [] x.k = "Try" /\ Len(x.kids) > 1 ->
            FoldLeft(LAMBDA n, i : BuildCatch(u, n, x, i, scope, class),
                     BuildBlock(u, Here(m, scope), x.kids[1], scope, class),
                     [i \in 1..(Len(x.kids) - 1) |-> i + 1])
       [] x.k \notin {"Class", "Function", "Block"} /\ ~(x.k = "Try" /\ Len(x.kids) > 1) ->
            BuildBlocks(u, Here(m, scope), x.kids, scope, class)

-----------------------------------------------------------------------------
(* Lookups *)

ScopeOf(m, x) == IF x.b \in DOMAIN m.at THEN m.at[x.b] ELSE 1

\* the nearest scope of one of the kinds, from scope outwards
RECURSIVE Nearest(_, _, _)
Nearest(m, scope, kinds) ==
  IF scope = 0 \/ m.scopes[scope].kind \in kinds THEN scope
  ELSE Nearest(m, m.scopes[scope].parent, kinds)

ImplicitScope(m, scope) ==
  LET callable == Nearest(m, scope, {"Function", "Lambda"}) IN IF callable = 0 THEN 1 ELSE callable
EnclosingClass(m, scope) ==
  LET class == Nearest(m, scope, {"Class"}) IN IF class = 0 THEN 0 ELSE m.scopes[class].owner

\* lookupLexical and lookupTypeLexical
RECURSIVE LookupFrom(_, _, _, _, _)
LookupFrom(m, name, space, scope, depth) ==
  IF scope = 0 THEN [symbol |-> 0, scope |-> 0, depth |-> depth]
  ELSE LET here == InScope(m, scope, space, name)
       IN IF here # 0 THEN [symbol |-> here, scope |-> scope, depth |-> depth]
          ELSE LookupFrom(m, name, space, m.scopes[scope].parent, depth + 1)
Lookup(m, name, space, scope) == LookupFrom(m, name, space, scope, 0)

\* lookup: lexically, or else a method by its qualified name from anywhere
LookupValue(m, name, scope) ==
  LET lexical == Lookup(m, name, "Value", scope)
      methods == {i \in DOMAIN m.symbols : m.symbols[i].kind = "Method" /\ m.symbols[i].qualified = name}
  IN IF lexical.symbol # 0 \/ methods = {} THEN lexical
     ELSE [lexical EXCEPT !.symbol = Min(methods), !.scope = m.symbols[Min(methods)].scope]

\* what the receiver of a dotted name is, when it is a variable
Receiver(m, name, scope) ==
  LET found == Lookup(m, ReceiverOf(name), "Value", scope)
  IN IF IsMemberName(name) /\ found.symbol # 0 /\ IsIndirectKind(m.symbols[found.symbol].kind)
     THEN found ELSE [symbol |-> 0, scope |-> 0, depth |-> 0]

-----------------------------------------------------------------------------
(* Second pass: variables come to be where they are first assigned *)

RECURSIVE DeclareExpr(_, _, _, _), DeclareList(_, _, _)

\* declareAssignmentTarget
AssignsTo(x) == x.k \in {"Assignment", "CompoundAssignment", "Postfix"}
DeclareTarget(u, m, x, scope) ==
  LET target == u.ex[x.kids[1]]
      home   == ImplicitScope(m, scope)
      kind   == IF home = 1 THEN "GlobalVariable" ELSE "LocalVariable"
  IN IF /\ AssignsTo(x) /\ target.k = "Name"
        /\ Receiver(m, target.text, scope).symbol = 0
        /\ Lookup(m, target.text, "Value", scope).symbol = 0
     THEN AddSymbol(m, Variable(home, kind, target.text), FALSE, 0)
     ELSE m

LambdaIndex(m, id) == SelectInSeq(m.lambdas, LAMBDA l : l.ex = id)
\* slip: each visit makes a scope
NeverMade(m, id) == FALSE
IsMade(m, id) == LambdaIndex(m, id) # 0

\* ensureLambdaScope and ensureLambdaBody: the first time, a scope, a symbol for each
\* parameter, and the scopes of the body
EnsureLambda(u, m, id, parent) ==
  LET lambda == u.lm[u.ex[id].lam]
      scope  == NewScope(m)
      scoped == AddParameters(AddScope(m, "Lambda", parent, 0, id), lambda.params, scope)
      params == [i \in DOMAIN lambda.params |-> InScope(scoped, scope, "Value", lambda.params[i].name)]
      entry  == [ex |-> id, scope |-> scope, params |-> params, captures |-> <<>>]
  IN IF IsMade(m, id) THEN m
     ELSE BuildBlock(u, [scoped EXCEPT !.lambdas = Append(@, entry)], lambda.body, scope,
                     EnclosingClass(m, parent))

DeclareExpr(u, m, id, scope) ==
  LET x  == u.ex[id]
      homed == [m EXCEPT !.home[id] = IF @ = 0 THEN scope ELSE @]
      n  == DeclareTarget(u, homed, x, scope)
      All(m0, ids, s) == FoldLeft(LAMBDA k, i : DeclareExpr(u, k, i, s), m0, ids)
      Keys == {x.kids[i] : i \in {j \in DOMAIN x.kids : j % 2 = 1}}
      built == EnsureLambda(u, n, id, scope)
      lambda == u.lm[x.lam]
      inner == built.lambdas[LambdaIndex(built, id)].scope
  IN CASE id = 0 -> m
       [] id # 0 /\ x.k = "Lambda" ->
            IF id \in built.declared THEN built
            ELSE DeclareList(u, All([built EXCEPT !.declared = @ \cup {id}],
                                    [i \in DOMAIN lambda.params |-> lambda.params[i].default], inner),
                             lambda.body.kids)
       [] id # 0 /\ x.k = "MapLiteral" ->
            All([n EXCEPT !.home = [i \in DOMAIN @ |-> IF i \in Keys THEN scope ELSE @[i]]],
                SelectSeq(x.kids, LAMBDA i : i \notin Keys), scope)
       [] id # 0 /\ x.k \notin {"Lambda", "MapLiteral"} -> All(n, x.kids, scope)

Defaults(x) == IF x.k = "Function" THEN [i \in DOMAIN x.params |-> x.params[i].default] ELSE <<>>

DeclareList(u, m, kids) ==
  FoldLeft(LAMBDA n, x : DeclareList(u, FoldLeft(LAMBDA k, i : DeclareExpr(u, k, i, ScopeOf(m, x)),
                                                 n, Defaults(x) \o x.roots), x.kids),
           m, kids)

-----------------------------------------------------------------------------
(* Third pass: every name and call is bound *)

\* crossesCallableBoundary, and the lambdas recordLambdaCaptures tells of the capture
RECURSIVE ScopesBetween(_, _, _)
ScopesBetween(m, from, to) ==
  IF from = 0 \/ from = to THEN {}
  ELSE {from} \cup ScopesBetween(m, m.scopes[from].parent, to)
Crosses(m, from, to) ==
  \E s \in ScopesBetween(m, from, to) : m.scopes[s].kind \in {"Lambda", "Function"}
RecordCaptures(m, from, symbol) ==
  LET crossed == ScopesBetween(m, from, m.symbols[symbol].scope)
      With(l) == IF l.scope \in crossed /\ ~Contains(l.captures, symbol)
                 THEN [l EXCEPT !.captures = Append(@, symbol)] ELSE l
  IN [m EXCEPT !.lambdas = [i \in DOMAIN @ |-> With(@[i])]]

\* validateMemberAccess
Hidden(m, y, scope) == /\ y.kind = "Method" /\ y.vis \in {"Private", "Protected"}
                       /\ EnclosingClass(m, scope) # y.class

\* bindName, of a name that is called or read; a class is found only where one calls it
BindSymbol(m, id, found, scope) ==
  LET y == m.symbols[found.symbol]
      captured == IsCapturableKind(y.kind) /\ Crosses(m, scope, y.scope)
      n == IF captured THEN RecordCaptures(m, scope, found.symbol) ELSE m
  IN IF Hidden(m, y, scope)
     THEN Error([n EXCEPT !.bind[id] = [NoBinding EXCEPT !.k = "Symbol", !.symbol = found.symbol,
                   !.scope = found.scope, !.depth = found.depth, !.captured = captured]],
                <<"access", y.qualified>>)
     ELSE [n EXCEPT !.bind[id] = [NoBinding EXCEPT !.k = "Symbol", !.symbol = found.symbol,
                   !.scope = found.scope, !.depth = found.depth, !.captured = captured]]

BindName(u, m, id, scope, callable) ==
  LET name  == u.ex[id].text
      value == LookupValue(m, name, scope)
      type  == Lookup(m, name, "Type", scope)
      found == IF value.symbol = 0 /\ callable THEN type ELSE value
      receiver == Receiver(m, name, scope)
      Loose(k) == [m EXCEPT !.bind[id] = [NoBinding EXCEPT !.k = k, !.scope = scope]]
  IN CASE found.symbol # 0 -> BindSymbol(m, id, found, scope)
       [] found.symbol = 0 /\ receiver.symbol # 0 ->
            [m EXCEPT !.bind[id] = [NoBinding EXCEPT !.k = "InstanceMember",
               !.symbol = receiver.symbol, !.scope = receiver.scope, !.depth = receiver.depth,
               !.receiver = ReceiverOf(name), !.member = MemberOf(name)]]
       [] found.symbol = 0 /\ receiver.symbol = 0 ->
            CASE callable /\ name \in u.natives -> Loose("NativeCallable")
              [] ~(callable /\ name \in u.natives) /\ ~u.strict ->
                   Loose(IF callable THEN "DynamicName" ELSE "LegacyImplicitValue")
              [] OTHER -> Error(Loose("Unresolved"), <<"unresolved", name>>)

\* recordCall, by what the callee is bound to
CallKind(m, b) ==
  LET y == m.symbols[b.symbol]
  IN CASE b.k = "NativeCallable" -> "Native"
       [] b.k = "InstanceMember" -> "InstanceMethod"
       [] b.k = "DynamicName" -> "DynamicName"
       [] b.k = "Symbol" ->
            CASE y.kind = "Class" -> "ClassConstructor"
              [] y.imported /\ IsCallableKind(y.kind) -> "ImportedFunction"
              [] ~y.imported /\ IsCallableKind(y.kind) -> "DirectFunction"
              [] IsIndirectKind(y.kind) -> "IndirectValue"
              [] OTHER -> "Invalid"
       [] OTHER -> "Invalid"

RECURSIVE ResolveExpr(_, _, _, _, _), ResolveList(_, _, _)

ResolveExpr(u, m, id, scope, callable) ==
  LET x == u.ex[id]
      n == [m EXCEPT !.home[id] = IF @ = 0 THEN scope ELSE @]
      All(m0, ids, s) == FoldLeft(LAMBDA k, i : ResolveExpr(u, k, i, s, FALSE), m0, ids)
      called == All(ResolveExpr(u, n, x.kids[1], scope, TRUE), Tail(x.kids), scope)
      callee == called.bind[x.kids[1]]
      built  == EnsureLambda(u, n, id, scope)
      lambda == u.lm[x.lam]
      inner  == built.lambdas[LambdaIndex(built, id)].scope
  IN CASE id = 0 -> m
       [] id # 0 /\ x.k = "Name" -> BindName(u, n, id, scope, callable)
       [] id # 0 /\ x.k = "Call" ->
            [called EXCEPT !.call[id] = [k |-> CallKind(called, callee), symbol |-> callee.symbol]]
       [] id # 0 /\ x.k = "Lambda" ->
            IF id \in built.resolved THEN built
            ELSE ResolveList(u, All([built EXCEPT !.resolved = @ \cup {id}],
                                    [i \in DOMAIN lambda.params |-> lambda.params[i].default], inner),
                             lambda.body.kids)
       [] id # 0 /\ x.k = "MapLiteral" ->
            All(n, [i \in 1..(Len(x.kids) \div 2) |-> x.kids[2 * i]], scope)
       [] id # 0 /\ x.k \notin {"Name", "Call", "Lambda", "MapLiteral"} -> All(n, x.kids, scope)

ResolveList(u, m, kids) ==
  FoldLeft(LAMBDA n, x : ResolveList(u, FoldLeft(LAMBDA k, i : ResolveExpr(u, k, i, ScopeOf(m, x), FALSE),
                                                 n, Defaults(x) \o x.roots), x.kids),
           m, kids)

\* analyzeSemantics
Analyze(u) ==
  LET global   == AddScope(NewModel(u), "Global", 0, 0, 0)
      external == FoldLeft(LAMBDA n, name : AddSymbol(n, [Variable(1, "Function", name) EXCEPT
                                              !.imported = TRUE, !.vis = "Public"], FALSE, 0),
                           global, u.imported)
  IN ResolveList(u, DeclareList(u, BuildList(u, external, u.kids, 1, 0), u.kids), u.kids)
==============================================================================
