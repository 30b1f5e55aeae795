------------------------------- MODULE Emission -------------------------------
(***************************************************************************)
(* codegen.cpp, Emitter, and compileRegistry.cpp: what a name comes to. The *)
(* analyzer binds a name by scope; the emitter, which writes the bytecode   *)
(* in textual order, resolves its text once more against what it has        *)
(* registered so far. The state of the emitter is the record s:             *)
(*   slots     names with a slot, of variables and of functions alike       *)
(*   symbols   functionIdsBySymbol, the functions that have an id           *)
(*   ready     functions of this unit whose bytecode is there               *)
(*   registry  functions of hamMap: targets of kind own or imported         *)
(*   pool      StringPool                                                   *)
(*   class     class context, <<>> outside classes                          *)
(*   uses      the names read and called, with all they may come to         *)
(*   failed    a logic_error: the gate let pass what the emitter cannot do  *)
(*   overflow  a number std::stoi does not take                             *)
(* The file an import names declares the functions of s.module, all of      *)
(* which are registered, the private ones too.                              *)
(***************************************************************************)
EXTENDS DirectSupport

Unquoted(word) == CASE word = "'s'" -> "s" [] word = "'t'" -> "t" [] word = "'p.f'" -> "p.f"
                    [] word = "'m.vi'" -> "m.vi" [] word = "'m.txt'" -> "m.txt" [] OTHER -> word

Target(kind, name) == [kind |-> kind, name |-> name]

Fresh(module) == [slots |-> {}, symbols |-> {}, ready |-> {}, registry |-> {}, pool |-> {},
                  class |-> <<>>, uses |-> <<>>, failed |-> FALSE, overflow |-> FALSE,
                  module |-> module]

Slot(s, name)   == [s EXCEPT !.slots = @ \cup {name}]
Store(s, text)  == [s EXCEPT !.pool = @ \cup {text}]
Require(s, ok)  == [s EXCEPT !.failed = @ \/ ~ok]
Number(s, word) == [s EXCEPT !.overflow = @ \/ word \in OversizedWords]
Use(s, id, to)  == [s EXCEPT !.uses = Append(@, [id |-> id, to |-> to, known |-> s.slots \cup s.pool])]

\* resolveCallableNameInContext: inside a class, the class's spelling of the name if it
\* has a slot or is any string of the pool
ResolveName(s, name) ==
  LET scoped == Qualified(s.class, name)
  IN IF IsMemberName(name) \/ s.class = <<>> \/ scoped \notin s.slots \cup s.pool THEN name
     ELSE scoped

\* resolveFunctionIdByName: the unit's own function once it is compiled, or else any
\* function registered under the name (the map's order tells which). {} is -1.
ResolveId(s, name, fallback) ==
  LET resolved == ResolveName(s, name)
  IN IF resolved \in s.slots /\ resolved \in s.ready THEN {Target("own", resolved)}
     ELSE IF ~fallback THEN {} ELSE {f \in s.registry : f.name = resolved}

\* emitValue: the names in it, in the order the bytecode has them
RECURSIVE EmitValue(_, _, _), EmitValues(_, _, _), EmitCode(_, _, _), EmitOne(_, _, _)

\* a call that finds no id is by name, for the VM to look up
EmitCall(ir, s, id) ==
  LET v     == ir.values[id]
      args  == EmitValues(ir, s, Tail(v.kids))
      at    == IF v.explicit THEN s ELSE args
      name  == ResolveName(at, v.text)
      found == ResolveId(at, v.text, ~v.explicit)
      Named == Use(Store(args, name), id,
                   {Target("name", name)} \cup {f \in s.registry : f.name = name})
  IN CASE v.op = "CallDynamic" /\ v.target = "ClassConstructor" ->
            Require(Store(s, v.text), Len(v.kids) = 1)
       [] v.op = "CallDynamic" /\ v.target = "InstanceMethod" ->
            EmitValues(ir, Require(Store(Slot(s, ReceiverOf(v.text)), MemberOf(v.text)),
                                   IsMemberName(v.text)),
                       Tail(v.kids))
       [] v.op = "Call" ->
            Require(IF found = {} THEN Named ELSE Use(args, id, found), v.symbol \in s.symbols)
       [] OTHER -> CASE v.explicit -> Named
                     [] ~v.explicit /\ found # {} -> Use(args, id, found)
                     [] ~v.explicit /\ found = {} /\ name \in args.slots ->
                          Use(args, id, {Target("variable", name)})
                     [] OTHER -> Named

EmitValues(ir, s, ids) == FoldLeft(LAMBDA u, id : EmitValue(ir, u, id), s, ids)

\* encodeListLiteral, encodeMapLiteral: strings and plain values, nested or not
RECURSIVE Encodes(_, _)
Encodes(ir, id) ==
  LET v == ir.values[id]
      Values0 == IF v.op = "ListLiteral" THEN Range(v.kids)
                 ELSE {v.kids[i] : i \in {j \in DOMAIN v.kids : j % 2 = 0}}
  IN v.op \in Scalars \/ (v.op \in {"ListLiteral", "MapLiteral"} /\ \A i \in Values0 : Encodes(ir, i))

\* emitParameterBindings
EmitParameters(ir, s, params) ==
  FoldLeft(LAMBDA u, p : Require(Slot(u, p.name),
                                 p.has => p.default # 0 /\ ir.values[p.default].op \in Scalars),
           s, params)

EmitLoad(s, v, id) ==
  LET found == ResolveId(s, v.text, TRUE)
  IN IF v.symbol \in s.symbols \ {0} THEN s
     ELSE IF found # {} THEN Use(s, id, found)
     ELSE Use(Slot(s, v.text), id, {Target("variable", v.text)})

EmitValue(ir, s, id) ==
  LET v == ir.values[id]
      lambda == ir.lambdas[v.lam]
      target == ir.values[v.kids[1]]
      Property(u, text) == Require(Store(Slot(u, ReceiverOf(text)), MemberOf(text)), IsMemberName(text))
  IN CASE v.op = "ConstString" -> Store(s, <<Unquoted(v.text[1])>>)
       [] v.op = "ConstInt" -> Number(s, v.text[1])
       [] v.op \in Scalars \ {"ConstString", "ConstInt"} -> s
       [] v.op \in {"ListLiteral", "MapLiteral"} -> Require(s, Encodes(ir, id))
       [] v.op = "LoadName" -> EmitLoad(s, v, id)
       [] v.op = "LoadProperty" -> Property(s, v.text)
       [] v.op = "StoreName" -> EmitValues(ir, Slot(s, target.text), Tail(v.kids))
       [] v.op = "StoreProperty" ->
            IF target.op = "LoadProperty" /\ v.text = <<"=">>
            THEN EmitValue(ir, Property(s, target.text), v.kids[2]) ELSE Require(s, FALSE)
       [] v.op = "StoreIndex" ->
            IF target.op = "Index" THEN EmitValues(ir, s, target.kids \o Tail(v.kids))
            ELSE Require(s, FALSE)
       [] v.op = "Unary" /\ v.text = <<"-">> ->
            Require(Number(s, target.text[1]), target.op \in {"ConstInt", "ConstFloat"})
       [] v.op \in {"Index", "Binary"} \/ (v.op = "Unary" /\ v.text # <<"-">>) ->
            EmitValues(ir, s, v.kids)
       [] v.op = "Lambda" -> EmitCode(ir, EmitParameters(ir, s, lambda.params), lambda.body.kids)
       [] IsCall(v) -> EmitCall(ir, s, id)
       [] v.op = "UnsupportedDirectRegion" -> Require(s, FALSE)

\* allocateFunction, emitFunction; a second allocation of a function is none
Allocate(s, x) ==
  [s EXCEPT !.slots = @ \cup {x.name}, !.pool = @ \cup {x.name}, !.symbols = @ \cup {x.symbol},
            !.registry = @ \cup {Target("own", x.name)}]
EmitFunction(ir, s, x) ==
  LET body == EmitCode(ir, EmitParameters(ir, s, x.params), x.kids[1].kids)
  IN Require([body EXCEPT !.ready = @ \cup {x.name}], x.symbol \in s.symbols)

\* slip: the context stays
Remain(s, class) == s
Leave(s, class) == [s EXCEPT !.class = class]

\* emitClass, under the class's context; the bare name of a method, which it stores too,
\* is the spelling of nothing that is looked up
EmitClass(ir, s, x) ==
  LET Member0(u, y) == EmitFunction(ir, Allocate(u, y), y)
      done == FoldLeft(Member0, Store([s EXCEPT !.class = x.name], x.name), x.kids[1].kids)
  IN Leave(done, s.class)

\* compileImportSpec, of what it registers: an alias renames the functions
Registered(import, module) ==
  {<<IF import.alias = "" THEN f ELSE import.alias \o "." \o f>> : f \in module}
EmitImport(s, x) ==
  LET names == Registered(x.import, s.module)
  IN [s EXCEPT !.registry = @ \cup {Target("imported", f) : f \in names},
               !.pool = @ \cup names \cup {<<f>> : f \in s.module}]

\* the label of an arm
EmitLabel(ir, s, arm) ==
  LET v == ir.values[arm.label]
  IN CASE arm.default -> s
       [] ~arm.default /\ v.op = "LoadName" -> Slot(s, v.text)
       [] ~arm.default /\ v.op = "ConstString" -> Store(s, <<Unquoted(v.text[1])>>)
       [] OTHER -> Require(s, v.op = "ConstInt")

\* what emitStatement takes for granted; declarations are for emitProgram alone
Shaped(x) ==
  CASE x.op = "Conditional" -> x.roots # <<>> /\ Len(x.kids) >= IF x.form = "IfElseBlocks" THEN 2 ELSE 1
    [] x.op = "Loop" -> Len(x.roots) >= 3 /\ x.kids # <<>>
    [] x.op = "Switch" -> x.roots # <<>> /\ \A arm \in Range(x.arms) : arm.body \in DOMAIN x.kids
    [] x.op = "Try" -> Len(x.kids) >= 2
    [] x.op \in {"Print", "Statement"} -> x.roots # <<>>
    [] OTHER -> x.op \notin {"DefineFunction", "DefineClass"}

\* emitStatement
EmitOne(ir, s, x) ==
  CASE ~Shaped(x) -> Require(s, FALSE)
    [] x.op = "Import" -> EmitImport(s, x)
    [] Shaped(x) /\ x.op = "Loop" ->
         EmitValue(ir, EmitCode(ir, EmitValues(ir, s, SubSeq(x.roots, 1, 2)), x.kids), x.roots[3])
    [] Shaped(x) /\ x.op = "Switch" ->
         FoldLeft(LAMBDA u, arm : EmitOne(ir, EmitLabel(ir, u, arm), x.kids[arm.body]),
                  EmitValue(ir, s, x.roots[1]), x.arms)
    [] Shaped(x) /\ x.op = "Try" ->
         LET tried == EmitOne(ir, s, x.kids[1])
         IN EmitOne(ir, IF x.catch = "" THEN tried ELSE Slot(tried, <<x.catch>>), x.kids[2])
    [] OTHER -> EmitCode(ir, EmitValues(ir, s, x.roots), x.kids)

EmitCode(ir, s, code) == FoldLeft(LAMBDA u, x : EmitOne(ir, u, x), s, code)

\* emitProgram: the functions at the top are allocated first
Emit(ir, module) ==
  LET functions == SelectSeq(ir.code, LAMBDA x : x.op = "DefineFunction")
  IN FoldLeft(LAMBDA s, x : CASE x.op = "DefineFunction" -> EmitFunction(ir, s, x)
                              [] x.op = "DefineClass" -> EmitClass(ir, s, x)
                              [] OTHER -> EmitOne(ir, s, x),
              FoldLeft(Allocate, Fresh(module), functions), ir.code)
================================================================================
