------------------------------ MODULE CallPrograms ------------------------------
(***************************************************************************)
(* Programs of several functions and several files: every way to call      *)
(* (by id, by name, through a variable, with too few and too many          *)
(* arguments, recursively) and every import graph over two modules.        *)
(***************************************************************************)
EXTENDS VmProgram, VppSyntax

N == Var("n")
Less(a, b) == Bin("<", a, b)
Plus(a, b) == Bin("+", a, b)

\* f(n, m = 5, s = "d") calls itself; even and odd call each other, and odd
\* is declared second
Recursive ==
  Fn("f", <<Param("n"), ParamOr("m", Num(5)), ParamOr("s", Txt("d"))>>,
     <<If(Less(N, Num(1)), <<Output(Var("s")), Return(Var("m"))>>),
       Set("t", Call("f", <<Bin("-", N, Num(1)), Plus(Var("m"), N)>>)),
       Output(N), Return(Plus(Var("t"), N))>>)
Even == Fn("even", <<Param("n")>>,
  <<If(Bin("==", N, Num(0)), <<Return(Txt("y"))>>), Return(Call("odd", <<Bin("-", N, Num(1))>>))>>)
Odd == Fn("odd", <<Param("n")>>,
  <<If(Bin("==", N, Num(0)), <<Return(Txt("n"))>>), Return(Call("even", <<Bin("-", N, Num(1))>>))>>)
\* gọi is a statement: to itself (by name), and to a function declared later
Count == Fn("count", <<Param("n")>>,
  <<Do(ExplicitCall("last", <<Plus(N, Num(10))>>)),
    If(Less(N, Num(2)), <<Do(ExplicitCall("count", <<Plus(N, Num(1))>>))>>), Output(N)>>)
Later == Fn("last", <<ParamOr("n", Num(8))>>, <<Output(N)>>)

Uses ==
  {<<Output(Call("f", args))>> : args \in {<<>>, <<Num(1)>>, <<Num(2), Num(3)>>,
                                           <<Num(2), Num(3), Txt("z"), Num(4)>>}}
  \cup {<<Do(ExplicitCall(f, args))>> : f \in {"count", "last", "f"},
                                        args \in {<<>>, <<Num(1)>>, <<Num(2), Num(3)>>}}
  \cup {<<Set("r", Plus(Call("f", <<Num(1)>>), Call("f", <<Num(0), Num(7)>>))), Output(Var("r"))>>,
        <<Do(Call("f", <<Num(1)>>)), Do(ExplicitCall("count", <<Call("f", <<>>)>>))>>,
        <<Output(Call("even", <<Num(3)>>)), Output(Call("even", <<Call("f", <<>>)>>))>>}

Declarations == <<Recursive, Even, Odd, Count, Later>>
Calls == {[main |-> Append(Declarations, Fn("main", <<>>, use))] : use \in Uses}
              \cup {[main |-> Declarations \o use] : use \in Uses}

\* functions kept in variables, and passed to functions
Twice == Lambda(<<Param("n")>>, <<Return(Plus(N, N))>>)
Apply == Fn("apply", <<Param("g"), Param("n")>>, <<Return(Call("g", <<N>>))>>)
ThroughVariables ==
  {[main |-> <<Apply, Fn("main", <<>>, body)>>] : body \in {
     <<Set("g", Twice), Output(Call("g", <<Num(4)>>))>>,
     <<Set("g", Twice), Output(Call("apply", <<Var("g"), Num(4)>>))>>,
     <<Set("g", Twice), Set("h", Lambda(<<>>, <<Output(Txt("h")), Return(Num(9))>>)),
       Output(Plus(Call("h", <<>>), Call("g", <<Num(1)>>)))>>}}

\* import graphs: each file imports a list of modules, then says its name;
\* a module declares a function the entry may call
ImportLists(files) == {<<>>} \cup {<<f>> : f \in files} \cup {<<f, g>> : f, g \in files}
ModuleFile(f, imports) ==
  [i \in DOMAIN imports |-> Import(imports[i], "")]
  \o <<Fn("f" \o f, <<Param("n")>>, <<Output(Txt("in " \o f)), Return(Plus(N, Num(1)))>>), Output(Txt(f))>>
Graphs == [a : ImportLists({"b"}), b : ImportLists({"a"}), main : ImportLists({"a", "b"}) \ {<<>>}]
Entry(imports, alias) ==
  LET called == (IF alias = "" THEN "" ELSE alias \o ".") \o "f" \o Head(imports)
  IN  <<Import(Head(imports), alias)>>
      \o [i \in 1..(Len(imports) - 1) |-> Import(imports[i + 1], "")]
      \o <<Output(Txt("main")), Output(Call(called, <<Num(1)>>))>>
Imported == {[main |-> Entry(g.main, alias), a |-> ModuleFile("a", g.a), b |-> ModuleFile("b", g.b)] :
               g \in Graphs, alias \in {"", "u"}}

CallPrograms == Calls \cup ThroughVariables \cup Imported
==============================================================================
