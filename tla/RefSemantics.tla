------------------------------ MODULE RefSemantics ------------------------------
(***************************************************************************)
(* What a V++ program means by its structure alone: a big-step evaluator   *)
(* of VppSyntax that knows nothing of slots, stacks or jumps.  It is the   *)
(* reference the compiled program is compared with (docs/grammar.bnf for   *)
(* the constructs, CHECKLIST.md for what each promises):                   *)
(*   - a switch runs the first arm that matches, the default otherwise,    *)
(*     and thoát leaves the switch (or loop) it stands in;                 *)
(*   - bỏ qua goes on with the next iteration of the loop it stands in;    *)
(*   - ném unwinds, through calls, to the nearest enclosing thử;           *)
(*   - a name in a function is a local if the function has bound it, else  *)
(*     the global if there is one, else a new local;                       *)
(*   - a run-time fault ends the program.                                  *)
(* The state m: globals, locals, inside (a function is active), out, val   *)
(* (value of the last expression), signal ("" when control just goes on).  *)
(***************************************************************************)
EXTENDS Integers, Sequences, SequencesExt, VppSyntax, VppValues

IsCalm(m) == m.signal = ""
Raise(m, signal) == [m EXCEPT !.signal = signal]
Give(m, v) == [m EXCEPT !.val = v]
With(f, x, v) == [y \in DOMAIN f \cup {x} |-> IF y = x THEN v ELSE f[y]]

Read(m, x) == CASE m.inside /\ x \in DOMAIN m.locals -> m.locals[x]
                [] ~(m.inside /\ x \in DOMAIN m.locals) /\ x \in DOMAIN m.globals -> m.globals[x]
                [] OTHER -> Zero
Write(m, x, v) ==
  IF m.inside /\ (x \in DOMAIN m.locals \/ x \notin DOMAIN m.globals)
    THEN [m EXCEPT !.locals = With(@, x, v)]
    ELSE [m EXCEPT !.globals = With(@, x, v)]

RECURSIVE Eval(_, _), EvalAll(_, _, _), Exec(_, _), ExecAll(_, _), Iterate(_, _),
          Round(_, _), Again(_, _)

\* an operator of the source text applied to two values; <<>> when it has no
\* meaning (a fault)
Truth(p) == <<IntV(IF p THEN 1 ELSE 0)>>
Meant(op, x, y) ==
  LET m == x[2]
      n == y[2]
      ints == IsInt(x) /\ IsInt(y)
  IN  CASE op = "+"  -> IF ints THEN <<IntV(m + n)>> ELSE <<StrV(Text(x) \o Text(y))>>
        [] op = "==" /\ x[1] = y[1] -> Truth(m = n)
        [] op = "!=" /\ x[1] = y[1] -> Truth(m # n)
        [] ints /\ op = "-"  -> <<IntV(m - n)>>
        [] ints /\ op = "*"  -> <<IntV(m * n)>>
        [] ints /\ op = "/" /\ n # 0 -> <<IntV(TruncDiv(m, n))>>
        [] ints /\ op = "%" /\ n # 0 -> <<IntV(m - n * TruncDiv(m, n))>>
        [] ints /\ op = "<"  -> Truth(m < n)
        [] ints /\ op = ">"  -> Truth(m > n)
        [] ints /\ op = "<=" -> Truth(m <= n)
        [] ints /\ op = ">=" -> Truth(m >= n)
        [] ints /\ op = "&&" -> Truth(m # 0 /\ n # 0)
        [] ints /\ op = "||" -> Truth(m # 0 \/ n # 0)
        [] OTHER -> <<>>

Literal(v) == CASE v.k = "int" -> IntV(v.n) [] v.k = "str" -> StrV(v.s) [] v.k = "null" -> NullV

\* the callee of a name, or of a variable that holds a function
Callee(m, f) == IF f \in DOMAIN m.functions THEN m.functions[f] ELSE Read(m, f)[2]

Enter(m, fn, args) ==
  LET given(i) == IF i <= Len(args) THEN args[i]
                  ELSE IF fn.params[i].default = <<>> THEN Zero
                  ELSE Literal(fn.params[i].default[1])
      names == {fn.params[i].x : i \in DOMAIN fn.params}
  IN  [m EXCEPT !.inside = TRUE,
        !.locals = [x \in names |->
                     given(CHOOSE i \in DOMAIN fn.params : fn.params[i].x = x)]]

Left(m, r) == [r EXCEPT !.inside = m.inside, !.locals = m.locals]
Returned(r) == CASE r.signal = "return" -> Raise(r, "")
                 [] r.signal = ""       -> Give(r, NullV)
                 [] OTHER               -> r
Invoked(m, fn, args) ==
  Returned(Left(m, ExecAll([Enter(m, fn, args) EXCEPT !.val = NullV], fn.body)))

\* what is done with the outcome r of an evaluation, unless it did not come to an end
Negated(r) == IF IsCalm(r) THEN Give(r, Bit(~ToBool(r.val))) ELSE r
Answer(r, result) == IF result = <<>> THEN Raise(r, "fault") ELSE Give(r, result[1])
Combined(l, r, op) == CASE ~IsCalm(l)              -> l
                        [] IsCalm(l) /\ ~IsCalm(r) -> r
                        [] IsCalm(l) /\ IsCalm(r)  -> Answer(r, Meant(op, l.val, r.val))
Operated(l, v) == Combined(l, Eval(l, v.r), v.op)
Applied(r, f) == IF IsCalm(r.m) THEN Invoked(r.m, Callee(r.m, f), r.vals) ELSE r.m
Stored(r, x) == IF IsCalm(r) THEN Write(r, x, r.val) ELSE r
Raised(r, signal) == IF IsCalm(r) THEN Raise(r, signal) ELSE r
Printed(r) == IF IsCalm(r) THEN [r EXCEPT !.out = Append(@, Text(r.val))] ELSE r

Eval(m, v) ==
  CASE v.k \in {"int", "str", "null"} -> Give(m, Literal(v))
    [] v.k = "var"    -> Give(m, Read(m, v.x))
    [] v.k = "lambda" -> Give(m, <<"fn", v>>)
    [] v.k = "not"    -> Negated(Eval(m, v.e))
    [] v.k = "bin"    -> Operated(Eval(m, v.l), v)
    [] v.k = "call"   -> Applied(EvalAll(m, v.args, <<>>), v.f)

EvalRest(r, exprs, vals) == EvalAll(r, exprs, Append(vals, r.val))
EvalAll(m, exprs, vals) ==
  IF exprs = <<>> \/ ~IsCalm(m) THEN [m |-> m, vals |-> vals]
  ELSE EvalRest(Eval(m, Head(exprs)), Tail(exprs), vals)

Assigned(m, s) ==
  CASE s.k = "set" -> Stored(Eval(m, s.e), s.x)
    [] s.k = "compound" -> Stored(Eval(m, Bin(s.op, Var(s.x), s.e)), s.x)
    [] s.k = "inc" -> Write(m, s.x, IntV(Read(m, s.x)[2] + 1))
    [] s.k = "dec" -> Write(m, s.x, IntV(Read(m, s.x)[2] - 1))

\* one test of the loop's condition and what follows it
Iterate(m, s) == Round(Eval(m, s.c), s)
Round(c, s) == IF IsCalm(c) /\ ToBool(c.val) THEN Again(ExecAll(c, s.body), s) ELSE c
Again(b, s) == CASE b.signal \in {"", "continue"} -> Iterate(Assigned(Raise(b, ""), s.update), s)
                 [] b.signal = "break"            -> Raise(b, "")
                 [] OTHER                         -> b

Labels(m, arm, v) == CASE arm.label.k = "null" -> FALSE
                       [] arm.label.k = "var"  -> Read(m, arm.label.x) = v
                       [] OTHER                -> Literal(arm.label) = v
Hits(m, arms, v) == {i \in DOMAIN arms : Labels(m, arms[i], v)}
Defaults(arms) == {i \in DOMAIN arms : arms[i].label.k = "null"}
\* the arms a value selects: one or none
Selected(hits, defaults) ==
  LET S == IF hits # {} THEN hits ELSE defaults IN {i \in S : \A j \in S : i <= j}
Unbroken(m) == IF m.signal = "break" THEN Raise(m, "") ELSE m
RunArm(m, arms, is) == IF is = {} THEN m
                       ELSE Unbroken(ExecAll(m, arms[CHOOSE i \in is : TRUE].body))
Arms(r, arms) ==
  IF IsCalm(r) THEN RunArm(r, arms, Selected(Hits(r, arms, r.val), Defaults(arms))) ELSE r

Home(m, r, x) ==
  [IF x = "" THEN Raise(r, "") ELSE Write(Raise(r, ""), x, r.val) EXCEPT !.inside = m.inside]
Caught(m, r, s) == IF r.signal = "throw" THEN ExecAll(Home(m, r, s.x), s.handler) ELSE r

Chosen(r, s) ==
  CASE ~IsCalm(r)                 -> r
    [] IsCalm(r) /\ ToBool(r.val) -> ExecAll(r, s.then)
    [] OTHER                      -> IF s.k = "if" THEN r ELSE ExecAll(r, s.else)

Exec(m, s) ==
  CASE s.k \in {"set", "compound", "inc", "dec"} -> Assigned(m, s)
    [] s.k = "do"     -> Eval(m, s.e)
    [] s.k = "print"  -> Printed(Eval(m, s.e))
    [] s.k = "block"  -> ExecAll(m, s.body)
    [] s.k \in {"if", "ifelse"} -> Chosen(Eval(m, s.c), s)
    [] s.k = "loop"   -> Iterate(Assigned(m, s.init), s)
    [] s.k = "switch" -> Arms(Eval(m, s.e), s.arms)
    [] s.k = "try"    -> Caught(m, ExecAll(m, s.body), s)
    [] s.k \in {"break", "continue"} -> Raise(m, s.k)
    [] s.k \in {"throw", "return"} -> Raised(Eval(m, s.e), s.k)

ExecAll(m, body) == IF body = <<>> \/ ~IsCalm(m) THEN m
                    ELSE ExecAll(Exec(m, Head(body)), Tail(body))
-----------------------------------------------------------------------------
\* Modules: the initializers of everything imported, dependencies first and
\* each once; then the entry; then main, if it declares one.
FnsOf(items) == {items[i] : i \in {j \in DOMAIN items : items[j].k = "fn"}}
ImportsOf(items) == SelectSeq(items, LAMBDA it : it.k = "import")
Statements(items) == SelectSeq(items, LAMBDA it : it.k \notin {"fn", "import"})

FunctionTable(files) ==
  LET plain == UNION {FnsOf(files[f]) : f \in DOMAIN files}
      imports == UNION {ToSet(ImportsOf(files[f])) : f \in DOMAIN files}
      aliased == {<<i, fn>> \in imports \X plain : i.alias # "" /\ fn \in FnsOf(files[i.id])}
      Called(name) == {fn \in plain : fn.name = name}
                      \cup {p[2] : p \in {q \in aliased : q[1].alias \o "." \o q[2].name = name}}
      names == {fn.name : fn \in plain} \cup {p[1].alias \o "." \o p[2].name : p \in aliased}
  IN  [name \in names |-> CHOOSE fn \in Called(name) : TRUE]

RECURSIVE Visit(_, _, _)
\* the modules f imports that acc does not have, each after its own imports
Visit(acc, f, files) ==
  LET one(a, i) == IF i.id \in a.seen THEN a
                   ELSE [Visit([a EXCEPT !.seen = @ \cup {i.id}], i.id, files)
                           EXCEPT !.order = Append(@, i.id)]
  IN  FoldLeft(one, acc, ImportsOf(files[f]))
InitOrder(files) == Visit([seen |-> {}, order |-> <<>>], MainFile, files).order

AtStart(files) ==
  [globals |-> [x \in {} |-> Zero], locals |-> [x \in {} |-> Zero], inside |-> FALSE,
   out |-> <<>>, val |-> NullV, signal |-> "", functions |-> FunctionTable(files)]
HasMain(files) == \E fn \in FnsOf(files[MainFile]) : fn.name = "main"
RunMain(m, files) == IF HasMain(files) /\ IsCalm(m) THEN Eval(m, Call("main", <<>>)) ELSE m
Body(files) == FlattenSeq([i \in DOMAIN InitOrder(files) |-> Statements(files[InitOrder(files)[i]])])
               \o Statements(files[MainFile])
Ending(end) == [out |-> end.out, ok |-> IsCalm(end)]
Meaning(files) == Ending(RunMain(ExecAll(AtStart(files), Body(files)), files))
==============================================================================
