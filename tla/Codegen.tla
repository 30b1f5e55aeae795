-------------------------------- MODULE Codegen --------------------------------
(***************************************************************************)
(* The direct code generator of V++ (struct Emitter, compiler/codegen.cpp, *)
(* with compileImportSpec of compiler/compileRegistry.cpp): from the       *)
(* structured representation of VppSyntax to the images VmMachine runs.    *)
(*                                                                         *)
(* The emitter is a record e threaded through the operators:               *)
(*   buf      the bytecode vector being written                            *)
(*   marks    positions of buf kept for a jump (the locals tryIndex,         *)
(*            falseJump, endJump, loopStart of emitStatement), innermost last *)
(*   slots    name -> slot of the module being compiled; next: nextSlot    *)
(*   local    names of the functions this module declares                  *)
(* and, shared by all the modules of one compilation:                      *)
(*   pool     the StringPool; code: hamMap::bytecodeMap (id -> bytecode)   *)
(*   names    hamMap::nameIndexMap (function id -> pool index)             *)
(*   imported importedFiles; inits: moduleInitializers; files: sources     *)
(***************************************************************************)
EXTENDS Integers, Sequences, SequencesExt, FiniteSets, FiniteSetsExt, Functions, VppSyntax

Ins(op, a, b, c) == [op |-> op, a |-> a, b |-> b, c |-> c]
Emit3(e, op, a, b, c) == [e EXCEPT !.buf = Append(@, Ins(op, a, b, c))]
Emit(e, op, a, b) == Emit3(e, op, a, b, 0)
Here(e) == Len(e.buf)
Mark(e) == [e EXCEPT !.marks = Append(@, Here(e))]
Unmark(e) == [e EXCEPT !.marks = Front(@)]
Patch(e, at, target) == [e EXCEPT !.buf[at + 1].a = target]

\* an instruction whose target is not known yet, and the target it gets: the
\* next instruction (Land) or the one after it (LandPast)
Hole(e, op, a, b) == Emit(Mark(e), op, a, b)
Land(e) == Unmark(Patch(e, Last(e.marks), Here(e)))
LandPast(e) == Unmark(Patch(e, Last(e.marks), Here(e) + 1))

Empty == [x \in {} |-> 0]
Bound(f, x, v) == [y \in DOMAIN f \cup {x} |-> IF y = x THEN v ELSE f[y]]

\* StringPool::storeString and findString (-1 when absent)
Store(e, s) == IF Contains(e.pool, s) THEN e ELSE [e EXCEPT !.pool = Append(@, s)]
Find(e, s) == IF Contains(e.pool, s) THEN (CHOOSE i \in DOMAIN e.pool : e.pool[i] = s) - 1
                                     ELSE -1

SlotFor(e, x) == IF x \in DOMAIN e.slots THEN e
                 ELSE [e EXCEPT !.slots = Bound(@, x, e.next), !.next = @ + 1]
Slot(e, x) == SlotFor(e, x).slots[x]

\* resolveFunctionIdByName: <<id>> or <<>>.  The map is unordered: of several
\* functions of one name any may be found; the least one stands for it.
ById(e, f) == {k \in DOMAIN e.names : e.names[k] = Find(e, f)}
Emitted(e, f) == /\ f \in DOMAIN e.slots
                 /\ e.slots[f] \in ById(e, f)
                 /\ e.code[e.slots[f]] # <<>>
Resolve(e, f, fallback) ==
  CASE Emitted(e, f)                                      -> <<e.slots[f]>>
    [] ~Emitted(e, f) /\ fallback /\ ById(e, f) # {}      -> <<Min(ById(e, f))>>
    [] OTHER                                              -> <<>>

\* encodeDefaultValue
DefaultText(v) == CASE v.k = "int"  -> "i:" \o ToString(v.n)
                    [] v.k = "str"  -> "s:" \o v.s
                    [] v.k = "null" -> "n:"

\* binaryOpcode and compoundOpcode
OpcodeOf == ("+" :> "CONG") @@ ("-" :> "TRU") @@ ("*" :> "NHAN") @@ ("/" :> "CHIA") @@
            ("%" :> "MODULO") @@ ("==" :> "SO_SANH_BANG") @@ ("!=" :> "KHAC_BANG") @@
            (">" :> "LON_HON") @@ ("<" :> "NHO_HON") @@ (">=" :> "LON_HON_HOAC_BANG") @@
            ("<=" :> "NHO_HON_HOAC_BANG") @@ ("&&" :> "Logic_VA") @@ ("||" :> "Logic_HOAC")

\* emitParameterBindings
BindDefault(e, p, i, text) ==
  Emit3(Store(e, text), "PARAM_MAC_DINH", Find(Store(e, text), text), e.slots[p.x], i)
BindCreated(e, p, i) == IF p.default = <<>> THEN Emit3(e, "PARAM", 0, e.slots[p.x], i)
                        ELSE BindDefault(e, p, i, DefaultText(p.default[1]))
BindParameter(e, p, i) ==
  BindCreated(Emit(SlotFor(e, p.x), "KHOI_TAO", 0, Slot(e, p.x)), p, i)
BindParameters(e, params) ==
  FoldLeft(LAMBDA acc, i : BindParameter(acc, params[i], i - 1), e, [i \in DOMAIN params |-> i])
-----------------------------------------------------------------------------
RECURSIVE EmitValue(_, _), EmitAll(_, _), EmitStatement(_, _), EmitSeq(_, _), EmitArms(_, _),
          EmitFile(_, _), EmitItems(_, _)

EmitAll(e, values) == IF values = <<>> THEN e
                      ELSE EmitAll(EmitValue(e, Head(values)), Tail(values))

\* FoldLeft(EmitStatement, e, body); binding p makes TLC evaluate each prefix
\* before the statement after it, within the depth of its stack
EmitSeq(e, body) ==
  IF body = <<>> THEN e
  ELSE CHOOSE r \in {EmitStatement(p, Last(body)) : p \in {EmitSeq(e, Front(body))}} : TRUE
EmitBlock(e, body) == Emit(EmitSeq(Emit(e, "MO_KHOI", 0, 0), body), "DONG_KHOI", 0, 0)

\* emitFunctionBody, and the same for a lambda: a bytecode vector of its own
Seal(e, id, buf) == [e EXCEPT !.code = Bound(@, id, e.buf), !.buf = buf]
EmitBody(e, id, params, body) ==
  Seal(Emit(EmitSeq(BindParameters(Emit([e EXCEPT !.buf = <<>>], "MO_KHOI", 0, 0), params), body),
            "DONG_KHOI", 0, 0), id, e.buf)

\* an explicit call resolves before its arguments and without the global
\* fallback; a function of another module it never resolves
CallTarget(before, after, v) ==
  CASE ~v.explicit                       -> Resolve(after, v.f, TRUE)
    [] v.explicit /\ v.f \in after.local -> Resolve(before, v.f, FALSE)
    [] OTHER                             -> <<>>

EmitNamed(e, op, a, name) == Emit(Store(e, name), op, a, -(Find(Store(e, name), name) + 1))
\* slip: a callable held in a variable is called by the variable's name
EmitGoiNeverIndirect(e, v, id) ==
  IF id # <<>> THEN Emit(e, "GOI", Len(v.args), id[1]) ELSE EmitNamed(e, "GOI", Len(v.args), v.f)
EmitGoi(e, v, id) ==
  CASE id # <<>> -> Emit(e, "GOI", Len(v.args), id[1])
    [] id = <<>> /\ ~v.explicit /\ v.f \notin e.local /\ v.f \in DOMAIN e.slots ->
         Emit(Emit(e, "TEN_BIEN_GIA_TRI", 0, e.slots[v.f]), "GOI_GIAN_TIEP", Len(v.args), 0)
    [] OTHER       -> EmitNamed(e, "GOI", Len(v.args), v.f)

EmitCallAfter(before, e, v) == EmitGoi(e, v, CallTarget(before, e, v))
EmitCall(e, v) == EmitCallAfter(e, EmitAll(e, v.args), v)

EmitLoad(e, x) ==
  IF Resolve(e, x, TRUE) # <<>> THEN Emit(e, "BIEN_SO", Resolve(e, x, TRUE)[1], 0)
  ELSE Emit(SlotFor(e, x), "TEN_BIEN_GIA_TRI", 0, Slot(e, x))

FreeId(e) == Cardinality(DOMAIN e.code)
EmitLambda(e, v) ==
  Emit(EmitBody([e EXCEPT !.code = Bound(@, FreeId(e), <<>>)], FreeId(e), v.params, v.body),
       "BIEN_SO", FreeId(e), 0)

EmitValue(e, v) ==
  CASE v.k = "int"    -> Emit(e, "BIEN_SO", v.n, 0)
    [] v.k = "str"    -> Emit(Store(e, v.s), "CHUOI", 0, Find(Store(e, v.s), v.s))
    [] v.k = "null"   -> Emit(e, "RONG_GIA_TRI", 0, 0)
    [] v.k = "var"    -> EmitLoad(e, v.x)
    [] v.k = "not"    -> Emit(EmitValue(e, v.e), "PHU_DINH", 0, 0)
    [] v.k = "bin"    -> Emit(EmitAll(e, <<v.l, v.r>>), OpcodeOf[v.op], 0, 0)
    [] v.k = "call"   -> EmitCall(e, v)
    [] v.k = "lambda" -> EmitLambda(e, v)

\* StoreName: the target's slot is allocated before the value is compiled
Assign(e, x) == Emit(Emit(e, "TEN_BIEN_ID", 0, Slot(e, x)), "GAN", 0, 0)
EmitStoreTo(e, s) ==
  CASE s.k = "set"      -> Assign(EmitValue(e, s.e), s.x)
    [] s.k = "compound" -> Assign(Emit(EmitValue(Emit(e, "TEN_BIEN_GIA_TRI", 0, Slot(e, s.x)), s.e),
                                       OpcodeOf[s.op], 0, 0), s.x)
    [] s.k = "inc"      -> Emit(Emit(e, "TEN_BIEN_ID", 0, Slot(e, s.x)), "CONG_MOT", 0, 0)
    [] s.k = "dec"      -> Emit(Emit(e, "TEN_BIEN_ID", 0, Slot(e, s.x)), "TRU_MOT", 0, 0)
EmitStore(e, s) == EmitStoreTo(SlotFor(e, s.x), s)
-----------------------------------------------------------------------------
EmitThen(e, s) ==
  EmitBlock(Hole(EmitValue(Emit(e, "NEU", 0, 0), s.c), "JUMP_IF_FALSE", 0, 0), s.then)
EmitConditional(e, s) ==
  IF s.k = "if" THEN Land(EmitThen(e, s))
  ELSE Land(EmitBlock(Hole(LandPast(EmitThen(e, s)), "JUMP", 0, 0), s.else))

\* the first mark is the loop's start, the second its exit
LoopBack(e) == Land(Emit(e, "JUMP", e.marks[Len(e.marks) - 1], 0))
EmitTest(e, s) ==
  Hole(EmitValue(Emit(Mark(Emit(e, "LAP", 0, 0)), "DIEU_KIEN", 0, 0), s.c), "JUMP_IF_FALSE", 0, 0)
EmitRounds(e, s) ==
  Unmark(LoopBack(EmitStore(Emit(EmitBlock(EmitTest(e, s), s.body), "CAP_NHAT", 0, 0), s.update)))
EmitLoop(e, s) ==
  EmitRounds(EmitStore(Emit(SlotFor(e, s.init.x), "KHOI_TAO", 0, Slot(e, s.init.x)), s.init), s)

EmitLabel(e, l) ==
  CASE l.k = "null" -> Emit(e, "MAC_DINH", 0, 0)
    [] l.k = "int"  -> Emit(e, "CA", l.n, -1)
    [] l.k = "str"  -> Emit(Store(e, l.s), "CA", 0, Find(Store(e, l.s), l.s))
    [] l.k = "var"  -> Emit(SlotFor(e, l.x), "CA", Slot(e, l.x), -2)
EmitArm(e, arm) == EmitBlock(EmitLabel(e, arm.label), arm.body)
EmitArms(e, arms) == IF arms = <<>> THEN e ELSE EmitArms(EmitArm(e, Head(arms)), Tail(arms))
EmitSwitch(e, s) == EmitArms(Emit(EmitValue(e, s.e), "CHON", 0, 0), s.arms)

\* thử: its handler begins after the instruction that ends the guarded block,
\* which jumps over the handler
EmitGuarded(e, s) ==
  Hole(LandPast(EmitBlock(Hole(e, "THU", 0, -1), s.body)), "THU_KET_THUC", 0, 0)
EmitCatch(e, x) == IF x = "" THEN Emit(e, "BAT_LOI", 0, -1)
                             ELSE Emit(SlotFor(e, x), "BAT_LOI", 0, Slot(e, x))
\* slip: the end of the guarded block jumps to the handler
EmitTryFallingIn(e, s) == EmitBlock(EmitCatch(Land(EmitGuarded(e, s)), s.x), s.handler)
EmitTry(e, s) == Land(EmitBlock(EmitCatch(EmitGuarded(e, s), s.x), s.handler))

EmitStatement(e, s) ==
  CASE s.k \in {"set", "compound", "inc", "dec"} -> EmitStore(e, s)
    [] s.k = "do"       -> EmitValue(e, s.e)
    [] s.k = "print"    -> Emit(EmitValue(e, s.e), "IN", 0, 0)
    [] s.k = "block"    -> EmitBlock(e, s.body)
    [] s.k \in {"if", "ifelse"} -> EmitConditional(e, s)
    [] s.k = "loop"     -> EmitLoop(e, s)
    [] s.k = "switch"   -> EmitSwitch(e, s)
    [] s.k = "break"    -> Emit(e, "THOAT", 0, 0)
    [] s.k = "continue" -> Emit(e, "BO_QUA", 0, 0)
    [] s.k = "try"      -> EmitTry(e, s)
    [] s.k = "throw"    -> Emit(EmitValue(e, s.e), "NEM", 0, 0)
    [] s.k = "return"   -> Emit(EmitValue(e, s.e), "TRA_VE", 0, 0)
-----------------------------------------------------------------------------
\* allocateFunction, for every declaration before anything is emitted
Predeclare(e, item) ==
  LET id == Cardinality(DOMAIN e.code)
      s == Store(e, item.name)
  IN  IF item.k # "fn" \/ item.name \in e.local THEN e
      ELSE [s EXCEPT !.local = @ \cup {item.name},
                     !.slots = Bound(@, item.name, id),
                     !.code = Bound(@, id, <<>>),
                     !.names = Bound(@, id, Find(s, item.name)),
                     !.next = IF id >= @ THEN id + 1 ELSE @]

EmitFunction(e, item) ==
  LET id == e.slots[item.name]
  IN  Emit(EmitBody(e, id, item.params, item.body), "HAM", e.names[id], id)

\* an alias renames every function the module declares
Rename(e, i, alias) ==
  LET text == alias \o "." \o e.pool[i.a + 1]
      s == Store(e, text)
  IN  IF i.op = "HAM" THEN [s EXCEPT !.names[i.b] = Find(s, text)] ELSE e

\* compileImportSpec: once per file and compilation; the module has slots of
\* its own and its initializer comes after those of its own imports
Imported(e, m, item) ==
  [IF item.alias = "" THEN m ELSE FoldLeft(LAMBDA acc, i : Rename(acc, i, item.alias), m, m.buf)
     EXCEPT !.inits = Append(@, m.buf), !.buf = e.buf, !.slots = e.slots, !.local = e.local,
            !.next = IF e.next < FreeId(m) THEN FreeId(m) ELSE e.next]
EmitImport(e, item) ==
  IF item.id \in e.imported THEN e
  ELSE Imported(e, EmitFile([e EXCEPT !.imported = @ \cup {item.id}, !.buf = <<>>,
                                      !.slots = Empty, !.next = 0, !.local = {}],
                            e.files[item.id]), item)

EmitItem(e, item) ==
  CASE item.k = "fn"     -> EmitFunction(e, item)
    [] item.k = "import" -> EmitImport(e, item)
    [] OTHER             -> EmitStatement(e, item)

\* emitProgram: only the entry calls main and ends with DUNG_CHUONG_TRINH
CallMain(e) == IF "main" \in DOMAIN e.slots THEN Emit(e, "GOI", 0, e.slots["main"]) ELSE e
EmitItems(e, items) == IF items = <<>> THEN e
                       ELSE EmitItems(EmitItem(e, Head(items)), Tail(items))
EmitFile(e, items) == EmitItems(FoldLeft(Predeclare, e, items), items)
EmitEntry(e, items) == Emit(CallMain(EmitFile(e, items)), "DUNG_CHUONG_TRINH", 0, 0)

Emitter(files) ==
  [buf |-> <<>>, marks |-> <<>>, slots |-> Empty, next |-> 0, local |-> {}, pool |-> <<>>,
   code |-> Empty, names |-> Empty, imported |-> {}, inits |-> <<>>, files |-> files]

\* the linked program: what the command line hands to the VM
Image(e) ==
  LET entry == -1
      keys == {entry} \cup {entry - k : k \in 1..Len(e.inits)} \cup DOMAIN e.code
      CodeAt(k) == CASE k = entry -> e.buf
                     [] k < entry -> e.inits[entry - k]
                     [] k >= 0    -> e.code[k]
  IN  [code |-> [k \in keys |-> CodeAt(k)], inits |-> Len(e.inits), pool |-> e.pool,
       names |-> [n \in Range(e.names) |-> CHOOSE id \in DOMAIN e.names : e.names[id] = n]]

Compile(files) == Image(EmitEntry(Emitter(files), files[MainFile]))
==============================================================================
