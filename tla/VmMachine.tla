------------------------------ MODULE VmMachine ------------------------------
(***************************************************************************)
(* The bytecode virtual machine of V++ (class VM, runtime/vm.cpp).         *)
(*                                                                         *)
(* VM::run interprets one bytecode vector.  A function call and a module   *)
(* initializer each build a CHILD VM, copy state into it, run it to its    *)
(* end and copy state back, so the machine is a stack of activations: the  *)
(* first is the VM the host called run() on, the last is the one that is   *)
(* interpreting.  A C++ exception unwinds all of them.                     *)
(*                                                                         *)
(* One action per opcode (group); pc values and slots are the code's       *)
(* zero-based numbers.  Floats, collections, objects and native functions  *)
(* are not in this module.                                                 *)
(***************************************************************************)
EXTENDS Integers, Sequences, SequencesExt, VppValues

CONSTANTS Images,   \* the linked programs the machine may be given
          MaxRuns   \* bound: how often the host calls run() on one VM

Main == -1                  \* code key of the bytecode given to the VM
Initializer(k) == -1 - k    \* code key of the k-th module initializer

Instruction == [op : STRING, a : Int, b : Int, c : Int]
                            \* a, b, c: operand, operandIndex, operandValue

(***************************************************************************)
(* A linked program: the bytecode of the entry (Main), of each module      *)
(* initializer and of each function id; the string pool; and the name      *)
(* table (pool index of a name -> function id).                            *)
(***************************************************************************)
ASSUME ImagesAssumption ==
  /\ MaxRuns \in Nat \ {0}
  /\ \A im \in Images :
       /\ im.inits \in Nat
       /\ im.pool \in Seq(STRING)
       /\ \A k \in DOMAIN im.code : im.code[k] \in Seq(Instruction)
       /\ DOMAIN im.code \subseteq Int
       /\ {Main} \cup {Initializer(k) : k \in 1..im.inits} \subseteq DOMAIN im.code

\* run() fills an empty name table from the OP_HAM of its bytecode; a table the
\* registry has filled it leaves alone, and that is the case modelled.
ASSUME NamesAssumption ==
  \A im \in Images : DOMAIN im.names = {} =>
    \A k \in DOMAIN im.code : \A i \in DOMAIN im.code[k] : im.code[k][i].op # "HAM"

VARIABLES
  image,    \* the program loaded in the root VM
  vms,      \* activations: root VM first, interpreting VM last
  status,   \* "initializing", "running", "halted" or "failed"
  mods,     \* moduleTable: state of each module, in registration order
  nextMod,  \* position of the loop of initializeModules
  out,      \* everything given to outputSink so far
  fault,    \* what the exception that left run() was
  runs      \* calls of run() so far

vars == <<image, vms, status, mods, nextMod, out, fault, runs>>

-----------------------------------------------------------------------------
(* Activations: one VM object each. *)

Activation(kind, code, globals, frames) ==
  [kind |-> kind, code |-> code, pc |-> 0, stack |-> <<>>, vars |-> globals,
   frames |-> frames, blocks |-> 0, switches |-> <<>>, tries |-> <<>>]

NoVars == [s \in {} |-> Zero]

Top == vms[Len(vms)]
Code(a) == image.code[a.code]

\* a VM other than a root still looping in initializeModules is interpreting
Executing == status = "running" \/ (status = "initializing" /\ Len(vms) > 1)
HasCode == Executing /\ Top.pc \in 0..(Len(Code(Top)) - 1)
Ins == Code(Top)[Top.pc + 1]
At(op) == HasCode /\ Ins.op = op

Push(a, v) == [a EXCEPT !.stack = Append(@, v)]
Pop(a, n) == [a EXCEPT !.stack = SubSeq(@, 1, Len(@) - n)]
Peek(a, i) == a.stack[Len(a.stack) - i]
Holds(a, n) == Len(a.stack) >= n

Goto(a, target) ==
  /\ vms' = [vms EXCEPT ![Len(vms)] = [a EXCEPT !.pc = target]]
  /\ UNCHANGED <<image, status, mods, nextMod, out, fault, runs>>

Advance(a) == Goto(a, Top.pc + 1)

ThrowForgettingModule(a, what) ==
  /\ vms' = IF Len(vms) = 1 THEN <<a>> ELSE <<vms[1]>>
  /\ status' = "failed"
  /\ fault' = what
  /\ UNCHANGED <<image, mods, nextMod, out, runs>>

\* A C++ exception unwinds every child VM; the catch(...) of
\* initializeModules marks the module whose initializer was running.
\* The root VM keeps what a (its state when it threw) or its pending call left.
Throw(a, what) ==
  /\ vms' = IF Len(vms) = 1 THEN <<a>> ELSE <<vms[1]>>
  /\ mods' = IF status = "initializing" /\ Len(vms) > 1
               THEN [mods EXCEPT ![nextMod] = "Failed"] ELSE mods
  /\ status' = "failed"
  /\ fault' = what
  /\ UNCHANGED <<image, nextMod, out, runs>>
-----------------------------------------------------------------------------
(* run() and initializeModules *)

Init ==
  /\ image \in Images
  /\ vms = <<Activation("root", Main, NoVars, <<>>)>>
  /\ mods = [k \in 1..image.inits |-> "Uninitialized"]
  /\ status = "initializing"
  /\ nextMod = 1
  /\ out = <<>>
  /\ fault = "none"
  /\ runs = 1

InitLoop == status = "initializing" /\ Len(vms) = 1 /\ nextMod <= Len(mods)

SkipInitialized ==
  /\ InitLoop
  /\ mods[nextMod] = "Initialized"
  /\ nextMod' = nextMod + 1
  /\ UNCHANGED <<image, vms, status, mods, out, fault, runs>>

RefuseFailed ==
  /\ InitLoop
  /\ mods[nextMod] \notin {"Initialized", "Uninitialized"}
  /\ Throw(Top, "module")

BeginModule ==
  /\ InitLoop
  /\ mods[nextMod] = "Uninitialized"
  /\ mods' = [mods EXCEPT ![nextMod] = "Initializing"]
  /\ vms' = Append(vms, Activation("init", Initializer(nextMod), Top.vars, <<>>))
  /\ UNCHANGED <<image, status, nextMod, out, fault, runs>>

ModulesReady ==
  /\ status = "initializing"
  /\ Len(vms) = 1
  /\ nextMod > Len(mods)
  /\ status' = "running"
  /\ UNCHANGED <<image, vms, mods, nextMod, out, fault, runs>>

\* The host calls run() again: the table is walked from its start, pc and the
\* stacks stay as the last run left them.
Rerun ==
  /\ status \in {"halted", "failed"}
  /\ runs < MaxRuns
  /\ runs' = runs + 1
  /\ status' = "initializing"
  /\ fault' = "none"
  /\ nextMod' = 1
  /\ UNCHANGED <<image, vms, mods, out>>

\* run() returns in activation a: what the VM that started it copies back.
EndRun(a) ==
  /\ a.kind = "root"
  /\ vms' = [vms EXCEPT ![Len(vms)] = a]
  /\ status' = "halted"
  /\ UNCHANGED <<mods, nextMod>>

EndInitializer(a) ==
  /\ a.kind = "init"
  /\ vms' = <<[vms[1] EXCEPT !.vars = a.vars]>>
  /\ mods' = [mods EXCEPT ![nextMod] = "Initialized"]
  /\ nextMod' = nextMod + 1
  /\ UNCHANGED status

\* slip: the frame of the call stays on the caller's call stack
ResumedKeepingFrame(caller, a) ==
  [caller EXCEPT !.vars = a.vars,
                 !.pc = @ + 1,
                 !.stack = IF a.stack = <<>> THEN @ ELSE Append(@, Last(a.stack))]

\* the caller gets the callee's globals and, if it left a value, its top
Resumed(caller, a) ==
  [caller EXCEPT !.vars = a.vars,
                 !.frames = Front(@),
                 !.pc = @ + 1,
                 !.stack = IF a.stack = <<>> THEN @ ELSE Append(@, Last(a.stack))]

EndCall(a) ==
  /\ a.kind = "call"
  /\ vms' = Append(SubSeq(vms, 1, Len(vms) - 2), Resumed(vms[Len(vms) - 1], a))
  /\ UNCHANGED <<status, mods, nextMod>>

Finish(a) == /\ EndRun(a) \/ EndInitializer(a) \/ EndCall(a)
             /\ UNCHANGED <<image, out, fault, runs>>

EndOfCode == Executing /\ ~HasCode /\ Finish(Top)

OpDungChuongTrinh == At("DUNG_CHUONG_TRINH") /\ Finish(Top)

OpTraVe ==
  /\ At("TRA_VE")
  /\ Finish(IF Top.stack = <<>> THEN Push(Top, Zero) ELSE Top)
-----------------------------------------------------------------------------
(* executeCallOpcode and invokeFunction *)

\* slip: the arguments in the order they are popped
PoppedArgsReversed(stack, argc) ==
  LET n == IF argc < Len(stack) THEN argc ELSE Len(stack)
  IN  Reverse(SubSeq(stack, Len(stack) - n + 1, Len(stack)))
      \o [i \in 1..(argc - n) |-> Zero]

\* argc pops from the operand stack; what it lacks is 0, in front.
PoppedArgs(stack, argc) ==
  LET n == IF argc < Len(stack) THEN argc ELSE Len(stack)
  IN  [i \in 1..(argc - n) |-> Zero] \o SubSeq(stack, Len(stack) - n + 1, Len(stack))

NameIndex(ref) == IF ref < 0 THEN -(ref + 1) ELSE ref

\* a function id, or a name: through the name table, else through the first
\* OP_HAM of the interpreting VM's own bytecode that leads to a function
Functions(im) == {k \in DOMAIN im.code : k >= 0}
Declares(im, ins, n) == ins.op = "HAM" /\ ins.a = n /\ ins.b \in Functions(im)
Declared(im, code, n) == {code[i].b : i \in {j \in DOMAIN code :
                            /\ Declares(im, code[j], n)
                            /\ \A k \in 1..(j - 1) : ~Declares(im, code[k], n)}}
Lookup(im, code, ref) ==
  LET n == NameIndex(ref)
  IN  CASE ref \in Functions(im) -> {ref}
        [] ref \notin Functions(im) /\ n \in DOMAIN im.names ->
             {im.names[n]} \cap Functions(im)
        [] OTHER -> Declared(im, code, n)

Invoke(a, argc, ref) ==
  LET frame == [args |-> PoppedArgs(a.stack, argc), locals |-> <<>>]
      caller == Pop(a, IF argc < Len(a.stack) THEN argc ELSE Len(a.stack))
  IN  \/ argc < 0 /\ Throw(a, "internal")      \* args.reserve(argc): length_error
      \/ /\ argc >= 0 /\ Lookup(image, Code(a), ref) = {}
         /\ Throw(caller, "internal")
      \/ \E fn \in Lookup(image, Code(a), ref) :
           /\ argc >= 0
           /\ vms' = Append([vms EXCEPT ![Len(vms)] =
                               [caller EXCEPT !.frames = Append(@, frame)]],
                            Activation("call", fn, a.vars, <<frame>>))
           /\ UNCHANGED <<image, status, mods, nextMod, out, fault, runs>>

OpGoi == At("GOI") /\ Invoke(Top, Ins.a, Ins.b)

\* the callee on the stack: an id, or a numeral or a name of the pool
CalleeRefs(v) ==
  CASE IsInt(v) -> {v[2]}
    [] IsStr(v) /\ Stoi(v[2]) # <<>> -> {Stoi(v[2])[1]}
    [] IsStr(v) /\ Stoi(v[2]) = <<>> ->
         {-i : i \in {j \in DOMAIN image.pool :
                        image.pool[j] = v[2] /\ \A k \in 1..(j - 1) : image.pool[k] # v[2]}}
    [] OTHER -> {}

OpGoiGianTiep ==
  /\ At("GOI_GIAN_TIEP")
  /\ IF ~Holds(Top, 1) THEN Throw(Top, "internal")
     ELSE \/ CalleeRefs(Peek(Top, 0)) = {} /\ Throw(Pop(Top, 1), "internal")
          \/ \E ref \in CalleeRefs(Peek(Top, 0)) : Invoke(Pop(Top, 1), Ins.a, ref)
-----------------------------------------------------------------------------
(* executeValueOpcode: constants and operators *)

OpConstant ==
  \/ At("BIEN_SO") /\ Advance(Push(Top, IntV(Ins.a)))
  \/ At("TEN_BIEN_ID") /\ Advance(Push(Top, IntV(Ins.b)))
  \/ At("RONG_GIA_TRI") /\ Advance(Push(Top, NullV))
  \/ At("DUNG_GIA_TRI") /\ Advance(Push(Top, IntV(1)))
  \/ At("SAI_GIA_TRI") /\ Advance(Push(Top, IntV(0)))
  \/ At("CHUOI") /\ IF Ins.b + 1 \in DOMAIN image.pool
                      THEN Advance(Push(Top, StrV(image.pool[Ins.b + 1])))
                      ELSE Throw(Top, "internal")

OpBinary ==
  /\ HasCode
  /\ Ins.op \in BinaryOps
  /\ IF ~Holds(Top, 2) THEN Throw(Top, "internal")
     ELSE LET result == Binary(Ins.op, Peek(Top, 1), Peek(Top, 0))
          IN  IF result = <<>> THEN Throw(Pop(Top, 2), "value")
              ELSE Advance(Push(Pop(Top, 2), result[1]))

OpPhuDinh ==
  /\ At("PHU_DINH")
  /\ IF ~Holds(Top, 1) THEN Throw(Top, "internal")
     ELSE Advance(Push(Pop(Top, 1), Bit(~ToBool(Peek(Top, 0)))))

\* the older negation: integers only
OpKhong ==
  /\ At("KHONG")
  /\ IF ~Holds(Top, 1) THEN Throw(Top, "internal")
     ELSE IF ~IsInt(Peek(Top, 0)) THEN Throw(Pop(Top, 1), "value")
          ELSE Advance(Push(Pop(Top, 1), Bit(Peek(Top, 0)[2] = 0)))
-----------------------------------------------------------------------------
(* executeVariableOpcode.  A slot is local when the current frame's
   localsVec reaches it, whatever the slot was allocated for.             *)

InFrame(a) == a.frames # <<>>
Locals(a) == Last(a.frames).locals
IsLocal(a, slot) == InFrame(a) /\ slot >= 0 /\ slot < Len(Locals(a))

\* localsVec.resize(slot + 1, 0), when it is shorter
Grown(locals, slot) ==
  IF slot < Len(locals) THEN locals
  ELSE locals \o [i \in 1..(slot + 1 - Len(locals)) |-> Zero]

SetLocal(a, slot, v) ==
  [a EXCEPT !.frames[Len(a.frames)].locals = [Grown(@, slot) EXCEPT ![slot + 1] = v]]
SetGlobal(a, slot, v) ==
  [a EXCEPT !.vars = [s \in DOMAIN @ \cup {slot} |-> IF s = slot THEN v ELSE @[s]]]

IsGlobal(a, slot) == slot \in DOMAIN a.vars
Global(a, slot) == IF IsGlobal(a, slot) THEN a.vars[slot] ELSE Zero
Variable(a, slot) == IF IsLocal(a, slot) THEN Locals(a)[slot + 1] ELSE Global(a, slot)

\* where OP_GAN writes: a local that exists, else a global that exists, else
\* a new local (a new global when no function is active)
Assign(a, slot, v) ==
  IF IsLocal(a, slot) \/ (InFrame(a) /\ ~IsGlobal(a, slot) /\ slot >= 0)
    THEN SetLocal(a, slot, v)
    ELSE SetGlobal(a, slot, v)

OpKhoiTao ==
  /\ At("KHOI_TAO")
  /\ Advance(CASE InFrame(Top)                            -> SetLocal(Top, Ins.b, Zero)
               [] ~InFrame(Top) /\ IsGlobal(Top, Ins.b)   -> Top
               [] ~InFrame(Top) /\ ~IsGlobal(Top, Ins.b)  -> SetGlobal(Top, Ins.b, Zero))

\* reading a global that does not exist creates it
OpTenBienGiaTri ==
  /\ At("TEN_BIEN_GIA_TRI")
  /\ LET read == IF IsLocal(Top, Ins.b) THEN Top
                 ELSE SetGlobal(Top, Ins.b, Global(Top, Ins.b))
     IN  Advance(Push(read, Variable(Top, Ins.b)))

\* the two operands may come in either order when exactly one is a string
OpGan ==
  /\ At("GAN")
  /\ IF ~Holds(Top, 2) THEN Throw(Top, "internal")
     ELSE LET top == Peek(Top, 0)
              second == Peek(Top, 1)
              swapped == IsStr(top) /\ IsInt(second)
              id == IF swapped THEN second ELSE top
              value == IF swapped THEN top ELSE second
          IN  IF IsInt(id) THEN Advance(Assign(Pop(Top, 2), id[2], value))
              ELSE Throw(Pop(Top, 2), "internal")

\* argument number Ins.c, else the default (0 for OP_PARAM, a pool entry
\* decoded by decodeDefaultParamValue for OP_PARAM_MAC_DINH)
IsGiven(a) == InFrame(a) /\ Ins.c \in 0..(Len(Last(a.frames).args) - 1)
BindParam(a, default) ==
  LET value == IF IsGiven(a) THEN Last(a.frames).args[Ins.c + 1] ELSE default
  IN  IF InFrame(a) THEN SetLocal(a, Ins.b, value) ELSE SetGlobal(a, Ins.b, value)

\* the pool keeps a default as a tag, a colon and the literal; <<>> when it is none.
\* Images have no defaults that are floats (tag d).
DefaultOf(s) == LET tag == IF Len(s) < 2 THEN "" ELSE SubSeq(s, 1, 2)
                    literal == SubSeq(s, 3, Len(s))
                IN  CASE tag = "i:" -> [i \in DOMAIN Stoi(literal) |-> IntV(Stoi(literal)[i])]
                      [] tag = "s:" -> <<StrV(literal)>>
                      [] tag = "n:" -> <<NullV>>
                      [] OTHER      -> <<>>

\* a default is decoded only where no argument is given
OpParam ==
  \/ At("PARAM") /\ Advance(BindParam(Top, Zero))
  \/ /\ At("PARAM_MAC_DINH")
     /\ IF Ins.a + 1 \notin DOMAIN image.pool THEN Throw(Top, "internal")
        ELSE LET default == DefaultOf(image.pool[Ins.a + 1])
             IN  IF IsGiven(Top) \/ default # <<>>
                   THEN Advance(BindParam(Top, IF default = <<>> THEN Zero ELSE default[1]))
                   ELSE Throw(Top, "internal")

\* ++ and --: pops a slot, updates it, leaves the new value on the stack; ++ of
\* a numeral string leaves the number after it and touches no variable
Delta == IF Ins.op = "CONG_MOT" THEN 1 ELSE -1
OpCongMot ==
  /\ HasCode
  /\ Ins.op \in {"CONG_MOT", "TRU_MOT"}
  /\ IF ~Holds(Top, 1) THEN Throw(Top, "internal")
     ELSE LET slot == Peek(Top, 0)
              a == Pop(Top, 1)
          IN  IF ~IsInt(slot)
                THEN IF Ins.op = "CONG_MOT" /\ IsStr(slot) /\ Stoi(slot[2]) # <<>>
                       THEN Advance(Push(a, IntV(Stoi(slot[2])[1] + 1)))
                       ELSE Throw(a, "internal")
              ELSE LET old == Variable(a, slot[2])
                       new == IntV(old[2] + Delta)
                   IN  IF ~IsInt(old) THEN Throw(a, "value")
                       ELSE Advance(Push(IF IsLocal(a, slot[2])
                                           THEN SetLocal(a, slot[2], new)
                                           ELSE SetGlobal(a, slot[2], new), new))
-----------------------------------------------------------------------------
(* executeSwitchOpcode and executeBlockOpcode *)

OpChon ==
  /\ At("CHON")
  /\ IF ~Holds(Top, 1) THEN Throw(Top, "internal")
     ELSE Advance([Pop(Top, 1) EXCEPT
            !.switches = Append(@, [value |-> Peek(Top, 0), skipping |-> TRUE,
                                    matched |-> FALSE, depth |-> Top.blocks])])

Armed(s, taken) == [s EXCEPT !.skipping = ~taken, !.matched = @ \/ taken]
Arm(a, taken) == [a EXCEPT !.switches[Len(a.switches)] = Armed(@, taken)]

\* the three operand forms of OP_CA: pool string, integer, GLOBAL variable
IsLabelled(v, n) == (IsInt(v) /\ v[2] = n) \/ (IsStr(v) /\ Stoi(v[2]) = <<n>>)
CaseMatches(v) ==
  \/ Ins.b >= 0 /\ (IsStr(v) \/ IsInt(v)) /\ Text(v) = image.pool[Ins.b + 1]
  \/ Ins.b = -1 /\ IsLabelled(v, Ins.a)
  \/ Ins.b = -2 /\ IsLabelled(v, Global(Top, Ins.a)[2])

OpCa ==
  /\ At("CA")
  /\ IF Top.switches = <<>> \/ Ins.b < -2 \/ Ins.b >= Len(image.pool)
        \/ (Ins.b = -2 /\ ~IsInt(Global(Top, Ins.a)))
       THEN Throw(Top, "internal")
       ELSE LET s == Last(Top.switches)
            IN  Advance(Arm(Top, ~s.matched /\ CaseMatches(s.value)))

OpMacDinh ==
  /\ At("MAC_DINH")
  /\ IF Top.switches = <<>> THEN Throw(Top, "internal")
     ELSE Advance(Arm(Top, ~Last(Top.switches).matched))

\* first pc from `from` on that holds op, or the end of the code
ScanFor(code, op, from) ==
  LET hits == {i \in from..(Len(code) - 1) : code[i + 1].op = op}
  IN  IF hits = {} THEN Len(code) ELSE CHOOSE i \in hits : \A j \in hits : i <= j

\* break: stop printing and jump past the next closing brace in the text
OpThoat ==
  /\ At("THOAT")
  /\ IF Top.switches = <<>> THEN Throw(Top, "internal")
     ELSE LET close == ScanFor(Code(Top), "DONG_KHOI", Top.pc)
          IN  Goto([Top EXCEPT !.switches[Len(Top.switches)].skipping = TRUE],
                   IF close = Len(Code(Top)) THEN close ELSE close + 1)

OpMoKhoi == At("MO_KHOI") /\ Advance([Top EXCEPT !.blocks = @ + 1])

\* slip: the block of an arm ends the switch
ClosesSwitchEarly(a) == a.switches # <<>> /\ a.blocks = Last(a.switches).depth

\* closing the block the innermost switch stood in ends that switch
ClosesSwitch(a) == a.switches # <<>> /\ a.blocks = Last(a.switches).depth - 1
CloseBlock(a) == LET b == [a EXCEPT !.blocks = @ - 1]
                 IN  IF ClosesSwitch(b) THEN [b EXCEPT !.switches = Front(@)] ELSE b

OpDongKhoi ==
  /\ At("DONG_KHOI")
  /\ IF Top.blocks = 0 THEN Throw(Top, "internal") ELSE Advance(CloseBlock(Top))
-----------------------------------------------------------------------------
(* executeExceptionOpcode, executeBranchOpcode, executeLoopControlOpcode *)

\* slip: the height counts the error value that is not there yet
OpThuOneHigh ==
  /\ At("THU")
  /\ Advance([Top EXCEPT !.tries = Append(@, [catch |-> Ins.a,
                                              depth |-> Len(Top.stack) + 1])])

OpThu ==
  /\ At("THU")
  /\ Advance([Top EXCEPT !.tries = Append(@, [catch |-> Ins.a,
                                              depth |-> Len(Top.stack)])])

\* slip: the handler stays armed
OpThuKetThucArmed == At("THU_KET_THUC") /\ Goto(Top, Ins.a)

OpThuKetThuc ==
  /\ At("THU_KET_THUC")
  /\ Goto([Top EXCEPT !.tries = IF @ = <<>> THEN @ ELSE Front(@)], Ins.a)

\* the caught value goes to a GLOBAL slot
Caught(a, err) == IF Ins.b >= 0 THEN SetGlobal(a, Ins.b, err) ELSE a
OpBatLoi ==
  /\ At("BAT_LOI")
  /\ Advance(IF Holds(Top, 1) THEN Caught(Pop(Top, 1), Peek(Top, 0)) ELSE Top)

Unknown == StrV("?")

\* unwinds to the innermost handler of THIS activation; open blocks and
\* switches stay as they are
OpNem ==
  /\ At("NEM")
  /\ LET err == IF Holds(Top, 1) THEN Peek(Top, 0) ELSE Unknown
         a == IF Holds(Top, 1) THEN Pop(Top, 1) ELSE Top
         handler == Last(a.tries)
         kept == IF Len(a.stack) > handler.depth THEN handler.depth ELSE Len(a.stack)
     IN  IF a.tries = <<>> THEN Throw(a, "uncaught")
         ELSE Goto([a EXCEPT !.tries = Front(@),
                             !.stack = Append(SubSeq(@, 1, kept), err)], handler.catch)

InCode(target) == target >= 0 /\ target < Len(Code(Top))

OpJump == At("JUMP") /\ IF InCode(Ins.a) THEN Goto(Top, Ins.a)
                        ELSE Throw(Top, "range")

OpJumpIfFalse ==
  /\ At("JUMP_IF_FALSE")
  /\ IF ~Holds(Top, 1) THEN Throw(Top, "internal")
     ELSE LET v == Peek(Top, 0)
              a == Pop(Top, 1)
          IN  CASE ~IsInt(v)                               -> Throw(a, "value")
                [] IsInt(v) /\ v[2] # 0                    -> Advance(a)
                [] IsInt(v) /\ v[2] = 0 /\ InCode(Ins.a)   -> Goto(a, Ins.a)
                [] IsInt(v) /\ v[2] = 0 /\ ~InCode(Ins.a)  -> Throw(a, "range")

\* slip: the scan looks for the update and the program counter stays behind
OpBoQuaInPlace ==
  /\ At("BO_QUA")
  /\ LET update == ScanFor(Code(Top), "CAP_NHAT", Top.pc + 1)
     IN  IF update = Len(Code(Top)) THEN Throw(Top, "internal")
         ELSE Goto(Top, Top.pc)

\* continue: resume after the next OP_CAP_NHAT in the text
OpBoQua ==
  /\ At("BO_QUA")
  /\ LET update == ScanFor(Code(Top), "CAP_NHAT", Top.pc + 1)
     IN  IF update = Len(Code(Top)) THEN Throw(Top, "internal")
         ELSE Goto(Top, update + 1)
-----------------------------------------------------------------------------
(* executeOutputOpcode, the opcodes run() passes over, and the others *)

Skipping(a) == a.switches # <<>> /\ Last(a.switches).skipping

OpIn ==
  /\ At("IN")
  /\ IF ~Holds(Top, 1) THEN Throw(Top, "internal")
     ELSE /\ out' = IF Skipping(Top) THEN out ELSE Append(out, Text(Peek(Top, 0)))
          /\ vms' = [vms EXCEPT ![Len(vms)] = [Pop(Top, 1) EXCEPT !.pc = @ + 1]]
          /\ UNCHANGED <<image, status, mods, nextMod, fault, runs>>

Markers == {"HAM", "NEU", "DIEU_KIEN", "LAP", "CAP_NHAT",
            "DONG_LENH", "MO_NGOAC", "DONG_NGOAC"}
OpMarker == HasCode /\ Ins.op \in Markers /\ Advance(Top)

\* an opcode run() has no case for: an error, unless a switch is skipping
OpUnknown ==
  /\ At("999")
  /\ IF Skipping(Top) THEN Advance(Top) ELSE Throw(Top, "internal")
-----------------------------------------------------------------------------
Step ==
  \/ EndOfCode \/ OpDungChuongTrinh \/ OpTraVe
  \/ OpGoi \/ OpGoiGianTiep
  \/ OpConstant \/ OpBinary \/ OpPhuDinh \/ OpKhong
  \/ OpKhoiTao \/ OpTenBienGiaTri \/ OpGan \/ OpParam \/ OpCongMot
  \/ OpChon \/ OpCa \/ OpMacDinh \/ OpThoat \/ OpMoKhoi \/ OpDongKhoi
  \/ OpThu \/ OpThuKetThuc \/ OpBatLoi \/ OpNem
  \/ OpJump \/ OpJumpIfFalse \/ OpBoQua
  \/ OpIn \/ OpMarker \/ OpUnknown

Lifecycle == SkipInitialized \/ RefuseFailed \/ BeginModule \/ ModulesReady

Next == Step \/ Lifecycle \/ Rerun

Spec == Init /\ [][Next]_vars

\* run() is a loop that goes on by itself; only the host's next call is not
\* bound to come.
FairSpec == Spec /\ WF_vars(Step \/ Lifecycle)
-----------------------------------------------------------------------------
(* Properties, for any bytecode whatever. *)

\* The variables' types; out is a sequence of whatever Text makes of a value.
States == {"Uninitialized", "Initializing", "Initialized", "Failed"}
Statuses == {"initializing", "running", "halted", "failed"}

TypeOK ==
  /\ status \in Statuses
  /\ mods \in Seq(States) /\ Len(mods) = image.inits
  /\ nextMod \in 1..(Len(mods) + 1)
  /\ DOMAIN out = 1..Len(out)
  /\ runs \in 1..MaxRuns
  /\ Len(vms) >= 1 /\ vms[1].kind = "root"
  /\ \A i \in 2..Len(vms) : vms[i].kind \in {"init", "call"}

\* The interpreting VM is a chain of calls that starts at the root or, while
\* modules are prepared, at an initializer started by the root; when no run is
\* in progress there is only the root.
Chain ==
  /\ \A i \in 2..Len(vms) :
       vms[i].kind = (IF i = 2 /\ status = "initializing" THEN "init" ELSE "call")
  /\ status \in {"halted", "failed"} => Len(vms) = 1

\* invokeFunction: the frame a child VM binds its parameters in is the one its
\* caller pushed, and a child has no other but those of its own pending call.
CallersFrame ==
  \A i \in 2..Len(vms) :
    /\ vms[i].kind = "call" =>
         /\ vms[i - 1].frames # <<>>
         /\ vms[i].frames # <<>>
         /\ vms[i].frames[1].args = Last(vms[i - 1].frames).args
    /\ Len(vms[i].frames) = (IF vms[i].kind = "call" THEN 1 ELSE 0)
                            + (IF i < Len(vms) THEN 1 ELSE 0)

\* The bookkeeping of initializeModules: modules before the loop's position are
\* initialized, and the one at it is being initialized exactly while an
\* initializer VM is alive.
LoopPosition ==
  status = "initializing" =>
    /\ \A k \in 1..(nextMod - 1) : mods[k] = "Initialized"
    /\ Len(vms) > 1 => nextMod <= Len(mods) /\ mods[nextMod] = "Initializing"
    /\ Len(vms) = 1 => \A k \in DOMAIN mods : mods[k] # "Initializing"

\* What initializeModules does is what the runtime promises of modules.
RunOf == CASE status = "initializing" -> "preparing"
           [] status = "running"      -> "entered"
           [] OTHER                   -> "stopped"
Lifecycles == INSTANCE ModuleLifecycle WITH run <- RunOf
ImplementsLifecycle == Lifecycles!Spec
=============================================================================
