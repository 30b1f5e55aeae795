---------------------------- MODULE VmMachineProofs ----------------------------
(***************************************************************************)
(* The activations of VmMachine, for any bytecode: how calls and module    *)
(* initializers nest, whose frame a child binds its parameters in, and     *)
(* that initializeModules keeps the promises of ModuleLifecycle.  Then,    *)
(* where runJitCompiledLinear takes a program, that it does as the         *)
(* interpreter does; and last, that code in which what is opened is closed *)
(* meets no fault of the machine's own.                                    *)
(***************************************************************************)
EXTENDS JitPath, VmDiscipline, TLAPS, WellFoundedInduction

\* Nothing is assumed of the values on a stack, so an activation is known by
\* its shape: the fields it has, and that its frames form a sequence.
IsSequence(s) == \E S : s \in Seq(S)
IsFrame(f) == f = [args |-> f.args, locals |-> f.locals]
IsActivation(a) ==
  /\ a = [kind |-> a.kind, code |-> a.code, pc |-> a.pc, stack |-> a.stack,
          vars |-> a.vars, frames |-> a.frames, blocks |-> a.blocks,
          switches |-> a.switches, tries |-> a.tries]
  /\ IsSequence(a.frames)
  /\ \A i \in DOMAIN a.frames : IsFrame(a.frames[i])

\* b is a after an instruction that neither calls nor returns
Kin(a, b) ==
  /\ IsActivation(a) /\ IsActivation(b)
  /\ b.kind = a.kind
  /\ Len(b.frames) = Len(a.frames)
  /\ \A i \in DOMAIN a.frames : b.frames[i].args = a.frames[i].args

-----------------------------------------------------------------------------
(* Sequences of which only that they are sequences is known. *)

LEMMA AppendSequence ==
  ASSUME NEW s, IsSequence(s), NEW x
  PROVE  /\ IsSequence(Append(s, x))
         /\ Len(Append(s, x)) = Len(s) + 1
         /\ Append(s, x)[Len(s) + 1] = x
         /\ \A i \in 1..Len(s) : Append(s, x)[i] = s[i]
         /\ DOMAIN Append(s, x) = 1..(Len(s) + 1)
<1>1. PICK S : s \in Seq(S)
  BY DEF IsSequence
<1>2. s \in Seq(S \cup {x}) /\ x \in S \cup {x}
  BY <1>1
<1> QED
  BY <1>2 DEF IsSequence

LEMMA FrontSequence ==
  ASSUME NEW s, IsSequence(s), Len(s) > 0
  PROVE  /\ IsSequence(Front(s))
         /\ Len(Front(s)) = Len(s) - 1
         /\ \A i \in 1..(Len(s) - 1) : Front(s)[i] = s[i]
<1>1. PICK S : s \in Seq(S)
  BY DEF IsSequence
<1>2. Len(s) \in Nat /\ Front(s) = [i \in 1..(Len(s) - 1) |-> s[i]]
  BY <1>1 DEF Front
<1>3. \A i \in 1..(Len(s) - 1) : s[i] \in S
  BY <1>1, <1>2
<1>4. Front(s) \in Seq(S) /\ Len(Front(s)) = Len(s) - 1
  BY <1>2, <1>3
<1> QED
  BY <1>2, <1>4 DEF IsSequence

LEMMA SequenceBasics ==
  ASSUME NEW s, IsSequence(s)
  PROVE  /\ Len(s) \in Nat
         /\ DOMAIN s = 1..Len(s)
         /\ s # <<>> <=> Len(s) > 0
  BY DEF IsSequence
-----------------------------------------------------------------------------
(* Instructions that neither call nor return keep an activation's kin. *)

LEMMA KinSelf == ASSUME NEW a, IsActivation(a) PROVE Kin(a, a)
  BY DEF Kin, IsActivation

LEMMA KinStack ==
  ASSUME NEW a, NEW b, Kin(a, b), NEW v PROVE Kin(a, [b EXCEPT !.stack = v])
  BY DEF Kin, IsActivation

LEMMA KinVars ==
  ASSUME NEW a, NEW b, Kin(a, b), NEW v PROVE Kin(a, [b EXCEPT !.vars = v])
  BY DEF Kin, IsActivation

LEMMA KinBlocks ==
  ASSUME NEW a, NEW b, Kin(a, b), NEW v PROVE Kin(a, [b EXCEPT !.blocks = v])
  BY DEF Kin, IsActivation

LEMMA KinSwitches ==
  ASSUME NEW a, NEW b, Kin(a, b), NEW v PROVE Kin(a, [b EXCEPT !.switches = v])
  BY DEF Kin, IsActivation

LEMMA KinTries ==
  ASSUME NEW a, NEW b, Kin(a, b), NEW v PROVE Kin(a, [b EXCEPT !.tries = v])
  BY DEF Kin, IsActivation

LEMMA KinPc ==
  ASSUME NEW a, NEW b, Kin(a, b), NEW v PROVE Kin(a, [b EXCEPT !.pc = v])
  BY DEF Kin, IsActivation

LEMMA KinPush == ASSUME NEW a, NEW b, Kin(a, b), NEW v PROVE Kin(a, Push(b, v))
  BY KinStack DEF Push

LEMMA KinPop == ASSUME NEW a, NEW b, Kin(a, b), NEW n PROVE Kin(a, Pop(b, n))
  BY KinStack DEF Pop

LEMMA KinSetGlobal ==
  ASSUME NEW a, NEW b, Kin(a, b), NEW slot, NEW v PROVE Kin(a, SetGlobal(b, slot, v))
  BY KinVars DEF SetGlobal

\* a frame keeps its arguments when one of its locals is written
LEMMA KinFrame ==
  ASSUME NEW a, NEW b, Kin(a, b), InFrame(b),
         NEW frame, IsFrame(frame), frame.args = b.frames[Len(b.frames)].args
  PROVE  Kin(a, [b EXCEPT !.frames = [b.frames EXCEPT ![Len(b.frames)] = frame]])
<1> DEFINE n == Len(b.frames)
           frames == [b.frames EXCEPT ![n] = frame]
           result == [b EXCEPT !.frames = frames]
<1>1. IsSequence(b.frames) /\ IsActivation(b)
  BY DEF Kin, IsActivation
<1>2. n \in Nat /\ n \in 1..n /\ DOMAIN b.frames = 1..n
  BY <1>1, SequenceBasics DEF InFrame
<1>3. /\ IsSequence(frames)
      /\ Len(frames) = n
      /\ frames[n] = frame
      /\ \A i \in 1..n : i # n => frames[i] = b.frames[i]
  <2>1. PICK S : b.frames \in Seq(S)
    BY <1>1 DEF IsSequence
  <2>2. frames \in Seq(S \cup {frame})
    BY <1>2, <2>1
  <2> QED
    BY <1>2, <2>1, <2>2 DEF IsSequence
<1>4. DOMAIN frames = 1..n
  BY <1>2
<1>5. \A i \in DOMAIN frames : IsFrame(frames[i])
  <2> HIDE DEF frames
  <2> QED
    BY <1>1, <1>2, <1>3, <1>4 DEF IsActivation
<1>6. IsActivation(result) /\ result.kind = b.kind /\ result.frames = frames
  <2> HIDE DEF frames
  <2> QED
    BY <1>1, <1>3, <1>5 DEF IsActivation
<1>7. DOMAIN a.frames = 1..n
  BY <1>2, SequenceBasics DEF Kin, IsActivation
<1> QED
  <2> HIDE DEF result, frames
  <2>1. \A i \in 1..n : result.frames[i].args = a.frames[i].args
    BY <1>3, <1>6, <1>7 DEF Kin
  <2>2. Kin(a, result)
    BY <2>1, <1>3, <1>6, <1>7 DEF Kin
  <2> QED
    BY <2>2 DEF result, frames

LEMMA KinSetLocal ==
  ASSUME NEW a, NEW b, Kin(a, b), InFrame(b), NEW slot, NEW v
  PROVE  Kin(a, SetLocal(b, slot, v))
<1> DEFINE n == Len(b.frames)
           f == b.frames[n]
           frame == [f EXCEPT !.locals = [Grown(f.locals, slot) EXCEPT ![slot + 1] = v]]
<1>1. IsFrame(f)
  BY SequenceBasics DEF Kin, IsActivation, InFrame
<1>2. IsFrame(frame) /\ frame.args = f.args
  BY <1>1 DEF IsFrame
<1>3. SetLocal(b, slot, v) = [b EXCEPT !.frames = [b.frames EXCEPT ![n] = frame]]
  BY DEF SetLocal
<1> QED
  <2> HIDE DEF frame
  <2> QED
    BY <1>2, <1>3, KinFrame

LEMMA KinAssign ==
  ASSUME NEW a, NEW b, Kin(a, b), NEW slot, NEW v
  PROVE  Kin(a, Assign(b, slot, v))
<1>1. CASE IsLocal(b, slot) \/ (InFrame(b) /\ ~IsGlobal(b, slot) /\ slot >= 0)
  BY <1>1, KinSetLocal DEF Assign, IsLocal
<1>2. CASE ~(IsLocal(b, slot) \/ (InFrame(b) /\ ~IsGlobal(b, slot) /\ slot >= 0))
  BY <1>2, KinSetGlobal DEF Assign
<1> QED
  BY <1>1, <1>2

LEMMA KinBindParam ==
  ASSUME NEW a, NEW b, Kin(a, b), NEW default PROVE Kin(a, BindParam(b, default))
<1>1. CASE InFrame(b)
  BY <1>1, KinSetLocal DEF BindParam
<1>2. CASE ~InFrame(b)
  BY <1>2, KinSetGlobal DEF BindParam
<1> QED
  BY <1>1, <1>2

LEMMA KinArm ==
  ASSUME NEW a, NEW b, Kin(a, b), NEW taken PROVE Kin(a, Arm(b, taken))
<1> DEFINE s == [b.switches EXCEPT ![Len(b.switches)] = Armed(@, taken)]
<1>1. Arm(b, taken) = [b EXCEPT !.switches = s]
  BY DEF Arm
<1>2. \A v : Kin(a, [b EXCEPT !.switches = v])
  BY KinSwitches
<1> QED
  BY <1>1, <1>2

LEMMA KinCloseBlock ==
  ASSUME NEW a, NEW b, Kin(a, b) PROVE Kin(a, CloseBlock(b))
<1> DEFINE c == [b EXCEPT !.blocks = @ - 1]
<1>1. Kin(a, c)
  BY KinBlocks
<1>2. Kin(a, [c EXCEPT !.switches = Front(@)])
  <2> HIDE DEF c
  <2> QED
    BY <1>1, KinSwitches
<1> QED
  BY <1>1, <1>2 DEF CloseBlock
-----------------------------------------------------------------------------
(* What an instruction can do to the stack of activations. *)

Grows == out' = out \/ \E x : out' = Append(out, x)
Unmoved == UNCHANGED <<image, status, mods, nextMod, runs>> /\ Grows

Stays == \E a : /\ Kin(Top, a)
                /\ vms' = [vms EXCEPT ![Len(vms)] = a]
                /\ Unmoved

Enters ==
  \E a, fn, frame :
    /\ Kin(Top, a)
    /\ IsFrame(frame)
    /\ vms' = Append([vms EXCEPT ![Len(vms)] = [a EXCEPT !.frames = Append(@, frame)]],
                     Activation("call", fn, a.vars, <<frame>>))
    /\ Unmoved

Throws == \E a, what : Kin(Top, a) /\ Throw(a, what)

Finishes == \E a : Kin(Top, a) /\ Finish(a)

Shape == Stays \/ Enters \/ Throws \/ Finishes

LEMMA GotoStays ==
  ASSUME NEW a, Kin(Top, a), NEW target, Goto(a, target) PROVE Stays
  BY KinPc DEF Goto, Stays, Unmoved, Grows

LEMMA AdvanceStays ==
  ASSUME NEW a, Kin(Top, a), Advance(a) PROVE Stays
  BY GotoStays DEF Advance

LEMMA InvokeShape ==
  ASSUME NEW a, Kin(Top, a), NEW argc, NEW ref, Invoke(a, argc, ref)
  PROVE  Enters \/ Throws
<1> DEFINE frame == [args |-> PoppedArgs(a.stack, argc), locals |-> <<>>]
           caller == Pop(a, IF argc < Len(a.stack) THEN argc ELSE Len(a.stack))
<1>1. Kin(Top, caller) /\ caller.vars = a.vars
  BY KinPop DEF Pop, Kin, IsActivation
<1>2. IsFrame(frame)
  BY DEF IsFrame
<1>3. CASE Lookup(image, Code(a), ref) = {} /\ Throw(caller, "internal")
  BY <1>1, <1>3 DEF Throws
<1>4. CASE \E fn \in Lookup(image, Code(a), ref) :
             /\ vms' = Append([vms EXCEPT ![Len(vms)] =
                                 [caller EXCEPT !.frames = Append(@, frame)]],
                              Activation("call", fn, a.vars, <<frame>>))
             /\ UNCHANGED <<image, status, mods, nextMod, out, fault, runs>>
  <2> HIDE DEF caller, frame
  <2> QED
    BY <1>1, <1>2, <1>4 DEF Enters, Unmoved, Grows
<1>5. CASE argc < 0 /\ Throw(a, "internal")
  BY <1>5 DEF Throws
<1> QED
  BY <1>3, <1>4, <1>5 DEF Invoke

-----------------------------------------------------------------------------
(* Every instruction has one of the four shapes. *)

LEMMA ControlShape ==
  ASSUME IsActivation(Top), EndOfCode \/ OpDungChuongTrinh \/ OpTraVe \/ OpGoi \/ OpGoiGianTiep
  PROVE  Shape
<1> USE KinSelf DEF Shape
<1>1. CASE EndOfCode \/ OpDungChuongTrinh
  BY <1>1 DEF EndOfCode, OpDungChuongTrinh, Finishes
<1>2. CASE OpTraVe
  <2>1. CASE Top.stack = <<>>
    BY <1>2, <2>1, KinPush DEF OpTraVe, Finishes
  <2>2. CASE Top.stack # <<>>
    BY <1>2, <2>2 DEF OpTraVe, Finishes
  <2> QED
    BY <2>1, <2>2
<1>3. CASE OpGoi
  BY <1>3, InvokeShape DEF OpGoi
<1>4. CASE OpGoiGianTiep
  <2>1. Kin(Top, Pop(Top, 1))
    BY KinPop
  <2>2. CASE Throw(Top, "internal") \/ Throw(Pop(Top, 1), "internal")
    BY <2>1, <2>2 DEF Throws
  <2>3. CASE \E ref \in CalleeRefs(Peek(Top, 0)) : Invoke(Pop(Top, 1), Ins.a, ref)
    BY <2>1, <2>3, InvokeShape
  <2> QED
    BY <1>4, <2>2, <2>3 DEF OpGoiGianTiep
<1> QED
  BY <1>1, <1>2, <1>3, <1>4

LEMMA ValueShape ==
  ASSUME IsActivation(Top), OpConstant \/ OpBinary \/ OpPhuDinh \/ OpKhong
  PROVE  Shape
<1> USE KinSelf DEF Shape
<1>1. CASE OpConstant
  <2>1. ASSUME NEW v, Advance(Push(Top, v)) PROVE Stays
    BY <2>1, KinPush, AdvanceStays
  <2>2. ASSUME Throw(Top, "internal") PROVE Throws
    BY <2>2 DEF Throws
  <2> QED
    BY <1>1, <2>1, <2>2 DEF OpConstant
<1>2. CASE OpBinary
  <2>1. ASSUME NEW v, Advance(Push(Pop(Top, 2), v)) PROVE Stays
    BY <2>1, KinPop, KinPush, AdvanceStays
  <2>2. ASSUME NEW w, Throw(Top, w) \/ Throw(Pop(Top, 2), w) PROVE Throws
    BY <2>2, KinPop DEF Throws
  <2> QED
    BY <1>2, <2>1, <2>2 DEF OpBinary
<1>3. CASE OpPhuDinh \/ OpKhong
  <2>1. ASSUME NEW v, Advance(Push(Pop(Top, 1), v)) PROVE Stays
    BY <2>1, KinPop, KinPush, AdvanceStays
  <2>2. ASSUME NEW w, Throw(Top, w) \/ Throw(Pop(Top, 1), w) PROVE Throws
    BY <2>2, KinPop DEF Throws
  <2> QED
    BY <1>3, <2>1, <2>2 DEF OpPhuDinh, OpKhong
<1> QED
  BY <1>1, <1>2, <1>3

LEMMA VariableShape ==
  ASSUME IsActivation(Top),
         OpKhoiTao \/ OpTenBienGiaTri \/ OpGan \/ OpParam \/ OpCongMot
  PROVE  Shape
<1> USE KinSelf DEF Shape
<1>1. CASE OpKhoiTao
  <2>1. CASE InFrame(Top)
    BY <1>1, <2>1, KinSetLocal, AdvanceStays DEF OpKhoiTao
  <2>2. CASE ~InFrame(Top) /\ IsGlobal(Top, Ins.b)
    BY <1>1, <2>2, AdvanceStays DEF OpKhoiTao
  <2>3. CASE ~InFrame(Top) /\ ~IsGlobal(Top, Ins.b)
    BY <1>1, <2>3, KinSetGlobal, AdvanceStays DEF OpKhoiTao
  <2> QED
    BY <2>1, <2>2, <2>3
<1>2. CASE OpTenBienGiaTri
  <2> DEFINE read == IF IsLocal(Top, Ins.b) THEN Top
                     ELSE SetGlobal(Top, Ins.b, Global(Top, Ins.b))
  <2>1. Kin(Top, read)
    BY KinSetGlobal
  <2>2. Advance(Push(read, Variable(Top, Ins.b)))
    BY <1>2 DEF OpTenBienGiaTri
  <2> HIDE DEF read
  <2> QED
    BY <2>1, <2>2, KinPush, AdvanceStays
<1>3. CASE OpGan
  <2>1. ASSUME NEW slot, NEW v, Advance(Assign(Pop(Top, 2), slot, v)) PROVE Stays
    BY <2>1, KinPop, KinAssign, AdvanceStays
  <2>2. ASSUME NEW w, Throw(Top, w) \/ Throw(Pop(Top, 2), w) PROVE Throws
    BY <2>2, KinPop DEF Throws
  <2> QED
    BY <1>3, <2>1, <2>2 DEF OpGan
<1>4. CASE OpParam
  <2>1. ASSUME NEW default, Advance(BindParam(Top, default)) PROVE Stays
    BY <2>1, KinBindParam, AdvanceStays
  <2>2. ASSUME Throw(Top, "internal") PROVE Throws
    BY <2>2 DEF Throws
  <2> QED
    BY <1>4, <2>1, <2>2 DEF OpParam
<1>5. CASE OpCongMot
  <2>1. Kin(Top, Pop(Top, 1))
    BY KinPop
  <2>2. ASSUME NEW slot, NEW v,
               Advance(Push(IF IsLocal(Pop(Top, 1), slot)
                              THEN SetLocal(Pop(Top, 1), slot, v)
                              ELSE SetGlobal(Pop(Top, 1), slot, v), v))
        PROVE  Stays
    <3>1. CASE IsLocal(Pop(Top, 1), slot)
      BY <2>1, <2>2, <3>1, KinSetLocal, KinPush, AdvanceStays DEF IsLocal
    <3>2. CASE ~IsLocal(Pop(Top, 1), slot)
      BY <2>1, <2>2, <3>2, KinSetGlobal, KinPush, AdvanceStays
    <3> QED
      BY <3>1, <3>2
  <2>3. ASSUME NEW w, Throw(Top, w) \/ Throw(Pop(Top, 1), w) PROVE Throws
    BY <2>1, <2>3 DEF Throws
  <2>4. ASSUME NEW v, Advance(Push(Pop(Top, 1), v)) PROVE Stays
    BY <2>4, KinPop, KinPush, AdvanceStays
  <2> QED
    BY <1>5, <2>2, <2>3, <2>4 DEF OpCongMot
<1> QED
  BY <1>1, <1>2, <1>3, <1>4, <1>5

LEMMA BlockShape ==
  ASSUME IsActivation(Top),
         OpChon \/ OpCa \/ OpMacDinh \/ OpThoat \/ OpMoKhoi \/ OpDongKhoi
  PROVE  Shape
<1> USE KinSelf DEF Shape
<1>1. CASE OpChon
  <2>1. ASSUME NEW s, Advance([Pop(Top, 1) EXCEPT !.switches = s]) PROVE Stays
    BY <2>1, KinPop, KinSwitches, AdvanceStays
  <2>2. ASSUME Throw(Top, "internal") PROVE Throws
    BY <2>2 DEF Throws
  <2> QED
    BY <1>1, <2>1, <2>2 DEF OpChon
<1>2. CASE OpCa \/ OpMacDinh
  <2>1. ASSUME NEW taken, Advance(Arm(Top, taken)) PROVE Stays
    BY <2>1, KinArm, AdvanceStays
  <2>2. ASSUME Throw(Top, "internal") PROVE Throws
    BY <2>2 DEF Throws
  <2> QED
    BY <1>2, <2>1, <2>2 DEF OpCa, OpMacDinh
<1>3. CASE OpThoat
  <2> DEFINE t == [Top.switches EXCEPT ![Len(Top.switches)].skipping = TRUE]
  <2>1. \A s : Kin(Top, [Top EXCEPT !.switches = s])
    BY KinSwitches
  <2>2. Kin(Top, [Top EXCEPT !.switches[Len(Top.switches)].skipping = TRUE])
    <3>1. [Top EXCEPT !.switches[Len(Top.switches)].skipping = TRUE]
            = [Top EXCEPT !.switches = t]
      OBVIOUS
    <3> QED
      BY <2>1, <3>1
  <2>3. ASSUME Throw(Top, "internal") PROVE Throws
    BY <2>3 DEF Throws
  <2> QED
    BY <1>3, <2>2, <2>3, GotoStays DEF OpThoat
<1>4. CASE OpMoKhoi
  BY <1>4, KinBlocks, AdvanceStays DEF OpMoKhoi
<1>5. CASE OpDongKhoi
  <2>1. ASSUME Advance(CloseBlock(Top)) PROVE Stays
    BY <2>1, KinCloseBlock, AdvanceStays
  <2>2. ASSUME Throw(Top, "internal") PROVE Throws
    BY <2>2 DEF Throws
  <2> QED
    BY <1>5, <2>1, <2>2 DEF OpDongKhoi
<1> QED
  BY <1>1, <1>2, <1>3, <1>4, <1>5

LEMMA ExceptionShape ==
  ASSUME IsActivation(Top), OpThu \/ OpThuKetThuc \/ OpBatLoi \/ OpNem
  PROVE  Shape
<1> USE KinSelf DEF Shape
<1>1. CASE OpThu \/ OpThuKetThuc
  BY <1>1, KinTries, AdvanceStays, GotoStays DEF OpThu, OpThuKetThuc
<1>2. CASE OpBatLoi
  <2>1. CASE ~Holds(Top, 1)
    BY <1>2, <2>1, AdvanceStays DEF OpBatLoi
  <2>2. CASE Holds(Top, 1)
    <3>1. Kin(Top, Caught(Pop(Top, 1), Peek(Top, 0)))
      BY KinPop, KinSetGlobal DEF Caught
    <3> QED
      BY <1>2, <2>2, <3>1, AdvanceStays DEF OpBatLoi
  <2> QED
    BY <2>1, <2>2
<1>3. CASE OpNem
  <2> DEFINE a == IF Holds(Top, 1) THEN Pop(Top, 1) ELSE Top
  <2>1. Kin(Top, a)
    BY KinPop
  <2>2. \A t, s : Kin(Top, [a EXCEPT !.tries = t, !.stack = s])
    <3> HIDE DEF a
    <3>1. ASSUME NEW t, NEW s PROVE Kin(Top, [[a EXCEPT !.tries = t] EXCEPT !.stack = s])
      BY <2>1, KinTries, KinStack
    <3>2. ASSUME NEW t, NEW s
          PROVE  [[a EXCEPT !.tries = t] EXCEPT !.stack = s]
                   = [a EXCEPT !.tries = t, !.stack = s]
      OBVIOUS
    <3> QED
      BY <3>1, <3>2
  <2>3. CASE Throw(a, "uncaught")
    <3> HIDE DEF a
    <3> QED
      BY <2>1, <2>3 DEF Throws
  <2>4. CASE \E t, s, target : Goto([a EXCEPT !.tries = t, !.stack = s], target)
    <3> HIDE DEF a
    <3> QED
      BY <2>2, <2>4, GotoStays
  <2>5. Throw(a, "uncaught") \/ \E t, s, target :
          Goto([a EXCEPT !.tries = t, !.stack = s], target)
    BY <1>3 DEF OpNem
  <2> QED
    BY <2>3, <2>4, <2>5
<1> QED
  BY <1>1, <1>2, <1>3

LEMMA BranchShape ==
  ASSUME IsActivation(Top),
         OpJump \/ OpJumpIfFalse \/ OpBoQua \/ OpIn \/ OpMarker \/ OpUnknown
  PROVE  Shape
<1> USE KinSelf DEF Shape
<1>1. CASE OpJump \/ OpBoQua \/ OpMarker \/ OpUnknown
  <2>1. ASSUME NEW w, Throw(Top, w) PROVE Throws
    BY <2>1 DEF Throws
  <2> QED
    BY <1>1, <2>1, AdvanceStays, GotoStays DEF OpJump, OpBoQua, OpMarker, OpUnknown
<1>2. CASE OpJumpIfFalse
  <2>1. Kin(Top, Pop(Top, 1))
    BY KinPop
  <2>2. ASSUME NEW w, Throw(Top, w) \/ Throw(Pop(Top, 1), w) PROVE Throws
    BY <2>1, <2>2 DEF Throws
  <2>3. ASSUME NEW target, Advance(Pop(Top, 1)) \/ Goto(Pop(Top, 1), target) PROVE Stays
    BY <2>1, <2>3, AdvanceStays, GotoStays
  <2> QED
    BY <1>2, <2>2, <2>3 DEF OpJumpIfFalse
<1>3. CASE OpIn
  <2>1. Kin(Top, [Pop(Top, 1) EXCEPT !.pc = @ + 1])
    BY KinPop, KinPc
  <2>2. CASE Throw(Top, "internal")
    BY <2>2 DEF Throws
  <2>3. CASE ~(Throw(Top, "internal"))
    <3>1. /\ vms' = [vms EXCEPT ![Len(vms)] = [Pop(Top, 1) EXCEPT !.pc = @ + 1]]
          /\ UNCHANGED <<image, status, mods, nextMod, runs>>
      BY <1>3, <2>3 DEF OpIn
    <3>2. Grows
      BY <1>3, <2>3 DEF OpIn, Grows
    <3> QED
      BY <2>1, <3>1, <3>2 DEF Stays, Unmoved
  <2> QED
    BY <2>2, <2>3
<1> QED
  BY <1>1, <1>2, <1>3

LEMMA StepShape == ASSUME IsActivation(Top), Step PROVE Shape /\ Executing
<1>1. Shape
  BY ControlShape, ValueShape, VariableShape, BlockShape, ExceptionShape, BranchShape
     DEF Step
<1>2. Executing
  BY DEF Step, At, HasCode, EndOfCode, OpDungChuongTrinh, OpTraVe, OpGoi, OpGoiGianTiep,
     OpConstant, OpBinary, OpPhuDinh, OpKhong, OpKhoiTao, OpTenBienGiaTri, OpGan,
     OpParam, OpCongMot, OpChon, OpCa, OpMacDinh, OpThoat, OpMoKhoi, OpDongKhoi, OpThu,
     OpThuKetThuc, OpBatLoi, OpNem, OpJump, OpJumpIfFalse, OpBoQua, OpIn, OpMarker,
     OpUnknown
<1> QED
  BY <1>1, <1>2
-----------------------------------------------------------------------------
(* The inductive invariant. *)

Shaped ==
  /\ IsSequence(vms) /\ Len(vms) >= 1
  /\ \A i \in 1..Len(vms) : IsActivation(vms[i])
  /\ vms[1].kind = "root"

Typed ==
  /\ status \in Statuses
  /\ mods \in Seq(States)
  /\ nextMod \in 1..(Len(mods) + 1)

\* a module is being initialized only while its initializer VM is alive
OnlyCurrent ==
  \A k \in 1..Len(mods) : mods[k] = "Initializing" =>
    status = "initializing" /\ Len(vms) > 1 /\ k = nextMod

RunningReady == status = "running" => \A k \in 1..Len(mods) : mods[k] = "Initialized"

Modular == Typed /\ OnlyCurrent /\ RunningReady /\ LoopPosition
IInv == Shaped /\ Chain /\ CallersFrame /\ Modular

LEMMA TopActivation ==
  ASSUME Shaped PROVE Len(vms) \in Nat /\ Len(vms) \in 1..Len(vms) /\ IsActivation(Top)
  BY SequenceBasics DEF Shaped, Top

LEMMA NewActivation ==
  ASSUME NEW kind, NEW code, NEW globals, NEW frames, IsSequence(frames),
         \A i \in DOMAIN frames : IsFrame(frames[i])
  PROVE  /\ IsActivation(Activation(kind, code, globals, frames))
         /\ Activation(kind, code, globals, frames).kind = kind
         /\ Activation(kind, code, globals, frames).frames = frames
  BY DEF Activation, IsActivation

LEMMA Singleton == ASSUME NEW x PROVE IsSequence(<<x>>) /\ Len(<<x>>) = 1 /\ <<x>>[1] = x
<1>1. <<x>> \in Seq({x})
  OBVIOUS
<1> QED
  BY <1>1 DEF IsSequence

LEMMA NoFrames ==
  IsSequence(<<>>) /\ Len(<<>>) = 0 /\ \A i \in DOMAIN <<>> : IsFrame(<<>>[i])
<1>1. <<>> \in Seq({})
  OBVIOUS
<1> QED
  BY <1>1 DEF IsSequence

LEMMA InitIInv == Init => IInv
<1> SUFFICES ASSUME Init PROVE IInv
  OBVIOUS
<1> DEFINE a == Activation("root", Main, NoVars, <<>>)
<1>1. IsActivation(a) /\ a.kind = "root"
  BY NewActivation, NoFrames
<1>2. vms = <<a>> /\ IsSequence(vms) /\ Len(vms) = 1 /\ vms[1] = a
  BY Singleton DEF Init
<1>3. image.inits \in Nat
  BY ImagesAssumption DEF Init
<1> HIDE DEF a
<1>4. Shaped
  BY <1>1, <1>2 DEF Shaped
<1>5. Chain /\ CallersFrame
  BY <1>2 DEF Init, Chain, CallersFrame
<1>6. Modular
  BY <1>2, <1>3 DEF Init, Modular, Typed, OnlyCurrent, RunningReady, LoopPosition,
                    Statuses, States
<1> QED
  BY <1>4, <1>5, <1>6 DEF IInv

\* replacing the interpreting activation by a kin of it
LEMMA StaysIInv == ASSUME IInv, Stays PROVE IInv'
<1>1. PICK a : Kin(Top, a) /\ vms' = [vms EXCEPT ![Len(vms)] = a] /\ Unmoved
  BY DEF Stays
<1> DEFINE n == Len(vms)
<1>2. n \in Nat /\ n \in 1..n /\ IsSequence(vms) /\ IsActivation(a)
  BY <1>1, TopActivation DEF IInv, Shaped, Kin
<1>3. /\ IsSequence(vms') /\ Len(vms') = n
      /\ vms'[n] = a
      /\ \A i \in 1..n : i # n => vms'[i] = vms[i]
  <2>1. PICK S : vms \in Seq(S)
    BY <1>2 DEF IsSequence
  <2>2. vms' \in Seq(S \cup {a})
    BY <1>1, <1>2, <2>1
  <2> QED
    BY <1>1, <1>2, <2>1, <2>2 DEF IsSequence
<1>4. \A i \in 1..n : /\ vms'[i].kind = vms[i].kind
                      /\ Kin(vms[i], vms'[i])
  BY <1>1, <1>2, <1>3, KinSelf DEF Top, Kin, IInv, Shaped
<1>5. Shaped'
  BY <1>2, <1>3, <1>4 DEF IInv, Shaped, Kin
<1>6. Chain'
  <2>1. status' = status /\ Len(vms') = Len(vms)
    BY <1>1, <1>3 DEF Unmoved
  <2> QED
    BY <2>1, <1>2, <1>4 DEF IInv, Chain
<1>7. \A i \in 1..n :
        /\ Len(vms'[i].frames) = Len(vms[i].frames)
        /\ \A j \in 1..Len(vms[i].frames) : vms'[i].frames[j].args = vms[i].frames[j].args
        /\ Len(vms[i].frames) \in Nat
        /\ IsSequence(vms[i].frames) /\ IsSequence(vms'[i].frames)
  BY <1>4, SequenceBasics DEF Kin, IsActivation
<1>8. CallersFrame'
  <2> SUFFICES ASSUME NEW i \in 2..n
               PROVE  /\ vms'[i].kind = "call" =>
                           /\ vms'[i - 1].frames # <<>>
                           /\ vms'[i].frames # <<>>
                           /\ vms'[i].frames[1].args = Last(vms'[i - 1].frames).args
                      /\ Len(vms'[i].frames) = (IF vms'[i].kind = "call" THEN 1 ELSE 0)
                                                + (IF i < n THEN 1 ELSE 0)
    BY <1>2, <1>3 DEF CallersFrame
  <2>1. i \in 1..n /\ i - 1 \in 1..n
    BY <1>2
  <2>2. ASSUME vms[i].kind = "call"
        PROVE  /\ Len(vms[i - 1].frames) > 0 /\ Len(vms[i].frames) > 0
               /\ vms[i].frames[1].args = vms[i - 1].frames[Len(vms[i - 1].frames)].args
    BY <2>1, <2>2, <1>7, SequenceBasics DEF IInv, CallersFrame, Last
  <2>3. ASSUME vms[i].kind = "call"
        PROVE  /\ vms'[i - 1].frames # <<>> /\ vms'[i].frames # <<>>
               /\ vms'[i].frames[1].args = Last(vms'[i - 1].frames).args
    <3> DEFINE m == Len(vms[i - 1].frames)
    <3>1. /\ m \in Nat /\ m > 0
          /\ Len(vms'[i - 1].frames) = m
          /\ \A j \in 1..m : vms'[i - 1].frames[j].args = vms[i - 1].frames[j].args
      BY <2>1, <2>2, <2>3, <1>7
    <3>2. /\ Len(vms'[i].frames) > 0
          /\ vms'[i].frames[1].args = vms[i].frames[1].args
      BY <2>1, <2>2, <2>3, <1>7
    <3>3. vms'[i - 1].frames # <<>> /\ vms'[i].frames # <<>>
      BY <2>1, <3>1, <3>2, <1>7, SequenceBasics
    <3> QED
      BY <2>2, <2>3, <3>1, <3>2, <3>3 DEF Last
  <2> QED
    BY <2>1, <2>3, <1>4, <1>7 DEF IInv, CallersFrame
<1>9. Modular'
  BY <1>1, <1>2, <1>3 DEF IInv, Modular, Typed, OnlyCurrent, RunningReady, LoopPosition,
                          Unmoved
<1> QED
  BY <1>5, <1>6, <1>8, <1>9 DEF IInv

\* A frame pushed on a sequence of frames leaves the earlier ones alone.
LEMMA PushFrame ==
  ASSUME NEW a, IsActivation(a), NEW frame, IsFrame(frame), NEW c,
         c = [a EXCEPT !.frames = Append(@, frame)]
  PROVE  /\ IsActivation(c)
         /\ c.kind = a.kind
         /\ Len(c.frames) = Len(a.frames) + 1
         /\ c.frames[Len(c.frames)] = frame
         /\ \A i \in 1..Len(a.frames) : c.frames[i] = a.frames[i]
<1>1. IsSequence(a.frames) /\ Len(a.frames) \in Nat
  BY SequenceBasics DEF IsActivation
<1> DEFINE t == Append(a.frames, frame)
<1>3. c.frames = t /\ c.kind = a.kind
  BY DEF IsActivation
<1>4. /\ IsSequence(t) /\ Len(t) = Len(a.frames) + 1 /\ t[Len(a.frames) + 1] = frame
      /\ \A i \in 1..Len(a.frames) : t[i] = a.frames[i]
      /\ DOMAIN t = 1..(Len(a.frames) + 1)
  BY <1>1, AppendSequence
<1>5. DOMAIN a.frames = 1..Len(a.frames)
  BY <1>1, SequenceBasics
<1>6. \A i \in DOMAIN t : IsFrame(t[i])
  <2> HIDE DEF t
  <2> SUFFICES ASSUME NEW i \in DOMAIN t PROVE IsFrame(t[i])
    OBVIOUS
  <2>1. CASE i = Len(a.frames) + 1
    BY <1>4, <2>1
  <2>2. CASE i # Len(a.frames) + 1
    <3>1. i \in 1..Len(a.frames)
      BY <1>1, <1>4, <2>2
    <3> QED
      BY <1>4, <1>5, <3>1 DEF IsActivation
  <2> QED
    BY <2>1, <2>2
<1>7. IsActivation(c)
  <2>1. c = [a EXCEPT !.frames = t]
    OBVIOUS
  <2> HIDE DEF t
  <2> QED
    BY <2>1, <1>4, <1>6 DEF IsActivation
<1> QED
  BY <1>3, <1>4, <1>7

\* a call: the caller's frame is also the callee's only one
LEMMA EntersIInv == ASSUME IInv, Enters, Executing PROVE IInv'
<1>1. PICK a, fn, frame :
        /\ Kin(Top, a)
        /\ IsFrame(frame)
        /\ vms' = Append([vms EXCEPT ![Len(vms)] = [a EXCEPT !.frames = Append(@, frame)]],
                         Activation("call", fn, a.vars, <<frame>>))
        /\ Unmoved
  BY DEF Enters
<1> DEFINE n == Len(vms)
<1>2. n \in Nat /\ n \in 1..n /\ IsSequence(vms)
  BY TopActivation DEF IInv, Shaped
<1>3. PICK c : c = [a EXCEPT !.frames = Append(@, frame)]
  OBVIOUS
<1>4. /\ IsActivation(c) /\ c.kind = Top.kind
      /\ Len(c.frames) = Len(Top.frames) + 1
      /\ c.frames[Len(c.frames)] = frame
      /\ \A i \in 1..Len(Top.frames) : c.frames[i].args = Top.frames[i].args
      /\ Len(Top.frames) \in Nat
  <2>1. /\ IsActivation(a) /\ IsActivation(Top) /\ a.kind = Top.kind
        /\ Len(a.frames) = Len(Top.frames)
        /\ \A i \in DOMAIN Top.frames : a.frames[i].args = Top.frames[i].args
    BY <1>1 DEF Kin
  <2>2. DOMAIN Top.frames = 1..Len(Top.frames) /\ Len(Top.frames) \in Nat
    BY <2>1, SequenceBasics DEF IsActivation
  <2>3. /\ IsActivation(c) /\ c.kind = a.kind
        /\ Len(c.frames) = Len(a.frames) + 1
        /\ c.frames[Len(c.frames)] = frame
        /\ \A i \in 1..Len(a.frames) : c.frames[i] = a.frames[i]
    BY <1>1, <1>3, <2>1, PushFrame
  <2> QED
    BY <2>1, <2>2, <2>3
<1>5. PICK d : d = Activation("call", fn, a.vars, <<frame>>)
  OBVIOUS
<1>6. /\ IsActivation(d) /\ d.kind = "call"
      /\ Len(d.frames) = 1 /\ d.frames[1] = frame
      /\ IsSequence(d.frames)
  <2>1. IsSequence(<<frame>>) /\ Len(<<frame>>) = 1 /\ <<frame>>[1] = frame
    BY Singleton
  <2>2. \A i \in DOMAIN <<frame>> : IsFrame(<<frame>>[i])
    BY <1>1
  <2> QED
    BY <1>5, <2>1, <2>2, NewActivation
<1>7. /\ IsSequence(vms') /\ Len(vms') = n + 1
      /\ vms'[n + 1] = d
      /\ vms'[n] = c
      /\ \A i \in 1..(n - 1) : vms'[i] = vms[i]
  <2>1. PICK S : vms \in Seq(S)
    BY <1>2 DEF IsSequence
  <2>2. PICK u : u = [vms EXCEPT ![n] = c]
    OBVIOUS
  <2>3. u \in Seq(S \cup {c})
    BY <1>2, <2>1, <2>2
  <2>4. IsSequence(u) /\ Len(u) = n /\ u[n] = c /\ \A i \in 1..(n - 1) : u[i] = vms[i]
    BY <1>2, <2>1, <2>2, <2>3 DEF IsSequence
  <2>5. vms' = Append(u, d)
    BY <1>1, <1>3, <1>5, <2>2
  <2>6. /\ IsSequence(vms') /\ Len(vms') = n + 1 /\ vms'[n + 1] = d
        /\ \A i \in 1..n : vms'[i] = u[i]
    <3>1. /\ IsSequence(Append(u, d)) /\ Len(Append(u, d)) = Len(u) + 1
          /\ Append(u, d)[Len(u) + 1] = d
          /\ \A i \in 1..Len(u) : Append(u, d)[i] = u[i]
      BY <2>4, AppendSequence
    <3> QED
      BY <2>4, <2>5, <3>1
  <2> QED
    BY <1>2, <2>4, <2>6
<1>8. status' = status /\ mods' = mods /\ nextMod' = nextMod
  BY <1>1 DEF Unmoved
<1>9. Shaped'
  <2>1. ASSUME NEW i \in 1..(n + 1) PROVE IsActivation(vms'[i])
    <3>1. i \in 1..(n - 1) \/ i = n \/ i = n + 1
      BY <1>2
    <3> QED
      BY <1>2, <1>4, <1>6, <1>7, <3>1 DEF IInv, Shaped
  <2>2. vms'[1].kind = "root"
    <3>1. CASE n = 1
      BY <1>4, <1>7, <3>1 DEF IInv, Shaped, Top
    <3>2. CASE n # 1
      <4> HIDE DEF n
      <4>1. 1 \in 1..(n - 1)
        BY <1>2, <3>2
      <4> QED
        BY <1>7, <4>1 DEF IInv, Shaped
    <3> QED
      BY <3>1, <3>2
  <2> QED
    BY <1>2, <1>7, <2>1, <2>2 DEF Shaped
<1>10. status = "running" \/ (status = "initializing" /\ n > 1)
  BY DEF Executing
<1>11. Chain'
  <2>1. ASSUME NEW i \in 2..(n + 1)
        PROVE  vms'[i].kind = (IF i = 2 /\ status = "initializing" THEN "init" ELSE "call")
    <3>1. CASE i = n + 1
      BY <1>2, <1>6, <1>7, <1>10, <3>1
    <3>2. CASE i = n
      BY <1>2, <1>4, <1>7, <3>2 DEF IInv, Chain, Top
    <3>3. CASE i \in 2..(n - 1)
      BY <1>2, <1>7, <3>3 DEF IInv, Chain
    <3> QED
      BY <1>2, <3>1, <3>2, <3>3
  <2>2. status \notin {"halted", "failed"}
    BY <1>10
  <2> QED
    BY <1>7, <1>8, <2>1, <2>2 DEF Chain
<1>12. CallersFrame'
  <2> SUFFICES ASSUME NEW i \in 2..(n + 1)
               PROVE  /\ vms'[i].kind = "call" =>
                           /\ vms'[i - 1].frames # <<>>
                           /\ vms'[i].frames # <<>>
                           /\ vms'[i].frames[1].args = Last(vms'[i - 1].frames).args
                      /\ Len(vms'[i].frames) = (IF vms'[i].kind = "call" THEN 1 ELSE 0)
                                                + (IF i < n + 1 THEN 1 ELSE 0)
    BY <1>7 DEF CallersFrame
  <2>1. CASE i = n + 1
    <3>1. c.frames # <<>> /\ d.frames # <<>>
      BY <1>4, <1>6, SequenceBasics DEF IsActivation
    <3>2. d.frames[1].args = Last(c.frames).args
      BY <1>4, <1>6 DEF Last
    <3>3. i - 1 = n /\ ~(i < n + 1) /\ vms'[i] = d /\ vms'[i - 1] = c
      BY <1>2, <1>7, <2>1
    <3> QED
      BY <1>6, <3>1, <3>2, <3>3
  <2>2. CASE i = n
    <3>1. i - 1 \in 1..(n - 1) /\ i \in 2..n
      BY <1>2, <2>2
    <3>2. /\ Top = vms[i] /\ vms'[i] = c /\ vms'[i - 1] = vms[i - 1]
      BY <1>7, <2>2, <3>1 DEF Top
    <3>3. /\ Top.kind = "call" =>
               /\ vms[i - 1].frames # <<>>
               /\ Top.frames[1].args = Last(vms[i - 1].frames).args
          /\ Len(Top.frames) = IF Top.kind = "call" THEN 1 ELSE 0
      BY <1>2, <2>2, <3>1, <3>2 DEF IInv, CallersFrame
    <3>4. c.frames # <<>>
      BY <1>4, SequenceBasics DEF IsActivation
    <3>5. Len(c.frames) = (IF c.kind = "call" THEN 1 ELSE 0) + 1
      BY <1>4, <3>3
    <3>6. Top.kind = "call" => c.frames[1].args = Top.frames[1].args
      BY <1>4, <3>3
    <3> QED
      BY <1>2, <1>4, <2>2, <3>2, <3>3, <3>4, <3>5, <3>6
  <2>3. CASE i \in 2..(n - 1)
    <3>1. i \in 2..n /\ i \in 1..(n - 1) /\ i - 1 \in 1..(n - 1) /\ i < n /\ i < n + 1
      BY <1>2, <2>3
    <3>2. vms'[i] = vms[i] /\ vms'[i - 1] = vms[i - 1]
      BY <1>7, <3>1
    <3> QED
      BY <3>1, <3>2 DEF IInv, CallersFrame
  <2> QED
    BY <1>2, <2>1, <2>2, <2>3
<1>13. Modular'
  BY <1>2, <1>7, <1>8, <1>10
     DEF IInv, Modular, Typed, OnlyCurrent, RunningReady, LoopPosition
<1> QED
  BY <1>9, <1>11, <1>12, <1>13 DEF IInv

\* one activation is left, the root: nothing is on the way any more
LEMMA RootAlone ==
  ASSUME NEW r, IsActivation(r), r.kind = "root", vms' = <<r>>
  PROVE  Shaped' /\ CallersFrame' /\ Chain' /\ Len(vms') = 1
<1>1. IsSequence(vms') /\ Len(vms') = 1 /\ vms'[1] = r
  BY Singleton
<1>2. \A i \in 2..Len(vms') : FALSE
  BY <1>1
<1> QED
  BY <1>1, <1>2 DEF Shaped, CallersFrame, Chain

\* an exception: a failed initializer marks its module
LEMMA ThrowsIInv == ASSUME IInv, Throws PROVE IInv'
<1>1. PICK a, what : Kin(Top, a) /\ Throw(a, what)
  BY DEF Throws
<1> DEFINE n == Len(vms)
<1>2. n \in Nat /\ n \in 1..n
  BY TopActivation DEF IInv, Shaped
<1>3. PICK r : IsActivation(r) /\ r.kind = "root" /\ vms' = <<r>>
  <2>1. CASE n = 1
    <3>1. IsActivation(a) /\ a.kind = "root"
      BY <1>1, <2>1 DEF Kin, Top, IInv, Shaped
    <3> QED
      BY <1>1, <2>1, <3>1 DEF Throw
  <2>2. CASE n # 1
    BY <1>1, <1>2, <2>2 DEF Throw, IInv, Shaped
  <2> QED
    BY <2>1, <2>2
<1>4. Shaped' /\ CallersFrame' /\ Chain' /\ Len(vms') = 1
  BY <1>3, RootAlone
<1>5. status' = "failed" /\ nextMod' = nextMod
  BY <1>1 DEF Throw
<1>6. Modular'
  <2>1. CASE status = "initializing" /\ n > 1
    <3>1. mods' = [mods EXCEPT ![nextMod] = "Failed"] /\ nextMod \in 1..Len(mods)
      BY <1>1, <2>1 DEF Throw, IInv, Modular, Typed, LoopPosition
    <3>2. mods' \in Seq(States) /\ Len(mods') = Len(mods)
      BY <3>1 DEF IInv, Modular, Typed, States
    <3>3. \A k \in 1..Len(mods) : mods'[k] # "Initializing"
      BY <3>1 DEF IInv, Modular, Typed, OnlyCurrent
    <3> QED
      BY <1>5, <3>2, <3>3 DEF IInv, Modular, Typed, OnlyCurrent, RunningReady,
                              LoopPosition, Statuses
  <2>2. CASE ~(status = "initializing" /\ n > 1)
    <3>1. mods' = mods
      BY <1>1, <2>2 DEF Throw
    <3>2. \A k \in 1..Len(mods) : mods[k] # "Initializing"
      BY <2>2 DEF IInv, Modular, OnlyCurrent
    <3> QED
      BY <1>5, <3>1, <3>2 DEF IInv, Modular, Typed, OnlyCurrent, RunningReady,
                              LoopPosition, Statuses
  <2> QED
    BY <2>1, <2>2
<1> QED
  BY <1>4, <1>6 DEF IInv

\* the kind of the interpreting activation, told by where the machine is
LEMMA TopKind ==
  ASSUME IInv, Executing
  PROVE  /\ Top.kind = "root" => Len(vms) = 1 /\ status = "running"
         /\ Top.kind = "init" => Len(vms) = 2 /\ status = "initializing"
         /\ Top.kind = "call" => Len(vms) >= 2
<1>1. PICK n \in Nat : n = Len(vms) /\ n >= 1
  BY TopActivation DEF IInv, Shaped
<1>2. Top = vms[n]
  BY <1>1 DEF Top
<1>3. CASE n = 1
  BY <1>1, <1>2, <1>3 DEF IInv, Shaped, Executing
<1>4. CASE n = 2
  BY <1>1, <1>2, <1>4 DEF IInv, Chain
<1>5. CASE n > 2
  <2>1. n \in 2..n /\ n # 2
    BY <1>5
  <2>2. vms[n].kind = "call"
    BY <1>1, <2>1 DEF IInv, Chain
  <2> QED
    BY <1>1, <1>2, <1>5, <2>2
<1> QED
  BY <1>1, <1>3, <1>4, <1>5

LEMMA ResumedFrames ==
  ASSUME NEW c, IsActivation(c), c.frames # <<>>, NEW a, NEW r, r = Resumed(c, a)
  PROVE  /\ IsActivation(r)
         /\ r.kind = c.kind
         /\ Len(r.frames) = Len(c.frames) - 1
         /\ \A i \in 1..(Len(c.frames) - 1) : r.frames[i] = c.frames[i]
<1>1. IsSequence(c.frames) /\ Len(c.frames) \in Nat /\ Len(c.frames) > 0
      /\ DOMAIN c.frames = 1..Len(c.frames)
  BY SequenceBasics DEF IsActivation
<1> DEFINE f == Front(c.frames)
<1>2. /\ IsSequence(f) /\ Len(f) = Len(c.frames) - 1
      /\ \A i \in 1..(Len(c.frames) - 1) : f[i] = c.frames[i]
  BY <1>1, FrontSequence
<1>3. DOMAIN f = 1..(Len(c.frames) - 1)
  BY <1>2, SequenceBasics
<1>4. r.frames = f /\ r.kind = c.kind
  BY DEF Resumed, IsActivation
<1>5. r = [kind |-> r.kind, code |-> r.code, pc |-> r.pc, stack |-> r.stack,
           vars |-> r.vars, frames |-> r.frames, blocks |-> r.blocks,
           switches |-> r.switches, tries |-> r.tries]
  BY DEF Resumed, IsActivation
<1> HIDE DEF f
<1>6. \A i \in DOMAIN f : IsFrame(f[i])
  BY <1>1, <1>2, <1>3 DEF IsActivation
<1> QED
  BY <1>2, <1>4, <1>5, <1>6 DEF IsActivation

LEMMA EndCallIInv ==
  ASSUME IInv, Executing, NEW a, Kin(Top, a), EndCall(a),
         UNCHANGED <<image, out, fault, runs>>
  PROVE  IInv'
<1>1. PICK n \in Nat : n = Len(vms) /\ n >= 2
  BY TopActivation, TopKind DEF IInv, Shaped, EndCall, Kin
<1>2. PICK c : c = vms[n - 1]
  OBVIOUS
<1>3. PICK r : r = Resumed(c, a)
  OBVIOUS
<1>4. n - 1 \in 1..n /\ n \in 2..n /\ Top = vms[n] /\ vms[n].kind = "call"
  <2>1. n - 1 \in 1..n /\ n \in 2..n
    BY <1>1
  <2>2. Top = vms[n]
    BY <1>1 DEF Top
  <2>3. Top.kind = "call"
    BY DEF EndCall, Kin
  <2> QED
    BY <2>1, <2>2, <2>3
<1>5. /\ IsActivation(c) /\ c.frames # <<>>
      /\ n > 2 => Len(c.frames) = (IF c.kind = "call" THEN 1 ELSE 0) + 1
      /\ n > 2 /\ c.kind = "call" => /\ vms[n - 2].frames # <<>>
                                    /\ c.frames[1].args = Last(vms[n - 2].frames).args
  <2>1. n > 2 => n - 1 \in 2..n /\ n - 1 < n /\ n - 1 - 1 = n - 2
    BY <1>1
  <2> QED
    BY <2>1, <1>1, <1>2, <1>4 DEF IInv, Shaped, CallersFrame
<1>6. /\ IsActivation(r) /\ r.kind = c.kind
      /\ Len(r.frames) = Len(c.frames) - 1
      /\ \A i \in 1..(Len(c.frames) - 1) : r.frames[i] = c.frames[i]
      /\ IsSequence(r.frames)
  BY <1>3, <1>5, ResumedFrames DEF IsActivation
<1>7. /\ IsSequence(vms') /\ Len(vms') = n - 1
      /\ vms'[n - 1] = r
      /\ \A i \in 1..(n - 2) : vms'[i] = vms[i]
  <2>1. PICK S : vms \in Seq(S)
    BY DEF IInv, Shaped, IsSequence
  <2>2. PICK u : u = SubSeq(vms, 1, n - 2)
    OBVIOUS
  <2>3. u \in Seq(S) /\ Len(u) = n - 2 /\ \A i \in 1..(n - 2) : u[i] = vms[i]
    BY <1>1, <2>1, <2>2
  <2>4. vms' = Append(u, r)
    BY <1>1, <1>2, <1>3, <2>2 DEF EndCall
  <2>5. u \in Seq(S \cup {r}) /\ r \in S \cup {r}
    BY <2>3
  <2> QED
    BY <1>1, <2>3, <2>4, <2>5 DEF IsSequence
<1>8. status' = status /\ mods' = mods /\ nextMod' = nextMod
  BY DEF EndCall
<1>9. status \in {"running", "initializing"}
  BY DEF Executing
<1>10. \A i \in 1..(n - 1) : IsActivation(vms'[i]) /\ vms'[i].kind = vms[i].kind
  <2> SUFFICES ASSUME NEW i \in 1..(n - 1)
               PROVE  IsActivation(vms'[i]) /\ vms'[i].kind = vms[i].kind
    OBVIOUS
  <2>1. CASE i = n - 1
    BY <1>2, <1>6, <1>7, <2>1
  <2>2. CASE i # n - 1
    <3>1. i \in 1..(n - 2) /\ i \in 1..n
      BY <1>1, <2>2
    <3> QED
      BY <1>1, <1>7, <3>1 DEF IInv, Shaped
  <2> QED
    BY <2>1, <2>2
<1>11. Shaped'
  <2>1. 1 \in 1..(n - 1)
    BY <1>1
  <2> QED
    BY <1>1, <1>7, <1>10, <2>1 DEF IInv, Shaped
<1>12. Chain'
  <2>1. \A i \in 2..(n - 1) : i \in 1..(n - 1) /\ i \in 2..n
    BY <1>1
  <2> QED
    BY <1>1, <1>7, <1>8, <1>9, <1>10, <2>1 DEF IInv, Chain
<1>13. CallersFrame'
  <2> SUFFICES ASSUME NEW i \in 2..(n - 1)
               PROVE  /\ vms'[i].kind = "call" =>
                           /\ vms'[i - 1].frames # <<>>
                           /\ vms'[i].frames # <<>>
                           /\ vms'[i].frames[1].args = Last(vms'[i - 1].frames).args
                      /\ Len(vms'[i].frames) = (IF vms'[i].kind = "call" THEN 1 ELSE 0)
                                                + (IF i < n - 1 THEN 1 ELSE 0)
    BY <1>7 DEF CallersFrame
  <2>1. i - 1 \in 1..(n - 2) /\ vms'[i - 1] = vms[i - 1] /\ n > 2
    BY <1>1, <1>7
  <2>2. CASE i = n - 1
    <3>1. vms'[i] = r /\ i - 1 = n - 2 /\ ~(i < n - 1)
      BY <1>1, <1>7, <2>2
    <3>2. ASSUME r.kind = "call"
          PROVE  r.frames # <<>> /\ r.frames[1] = c.frames[1] /\ Len(r.frames) = 1
      <4>1. Len(c.frames) = 2
        BY <1>5, <1>6, <2>1, <3>2
      <4>2. Len(r.frames) = 1 /\ Len(r.frames) > 0 /\ r.frames[1] = c.frames[1]
        BY <1>6, <4>1
      <4>3. r.frames # <<>>
        BY <1>6, <4>2, SequenceBasics
      <4> QED
        BY <4>2, <4>3
    <3>3. r.kind # "call" => Len(r.frames) = 0
      BY <1>5, <1>6, <2>1
    <3> QED
      BY <1>5, <1>6, <2>1, <3>1, <3>2, <3>3
  <2>3. CASE i # n - 1
    <3>1. i \in 1..(n - 2) /\ i \in 2..n /\ i < n /\ i < n - 1
      BY <1>1, <2>3
    <3> QED
      BY <1>1, <1>7, <2>1, <3>1 DEF IInv, CallersFrame
  <2> QED
    BY <2>2, <2>3
<1>14. Modular'
  <2>1. status = "initializing" => n - 1 > 1
    <3>1. n = 2 => vms[n].kind = (IF status = "initializing" THEN "init" ELSE "call")
      BY <1>1, <1>4 DEF IInv, Chain
    <3> QED
      BY <1>1, <1>4, <3>1
  <2> QED
    BY <1>1, <1>7, <1>8, <1>9, <2>1
       DEF IInv, Modular, Typed, OnlyCurrent, RunningReady, LoopPosition
<1> QED
  BY <1>11, <1>12, <1>13, <1>14 DEF IInv

LEMMA FinishesIInv == ASSUME IInv, Executing, Finishes PROVE IInv'
<1>1. PICK a : Kin(Top, a) /\ Finish(a)
  BY DEF Finishes
<1>2. IsActivation(a) /\ a.kind = Top.kind
  BY <1>1 DEF Kin
<1>3. CASE EndRun(a)
  <2>1. Len(vms) = 1 /\ status = "running"
    BY <1>2, <1>3, TopKind DEF EndRun
  <2>2. vms' = <<a>>
    <3>1. PICK S : vms \in Seq(S)
      BY DEF IInv, Shaped, IsSequence
    <3> QED
      BY <1>3, <2>1, <3>1 DEF EndRun
  <2>3. Shaped' /\ CallersFrame' /\ Chain' /\ Len(vms') = 1
    BY <1>2, <1>3, <2>2, RootAlone DEF EndRun
  <2>4. Modular'
    BY <1>3, <2>1, <2>3 DEF EndRun, IInv, Modular, Typed, OnlyCurrent, RunningReady,
                            LoopPosition, Statuses
  <2> QED
    BY <2>3, <2>4 DEF IInv
<1>4. CASE EndInitializer(a)
  <2>1. Len(vms) = 2 /\ status = "initializing"
    BY <1>2, <1>4, TopKind DEF EndInitializer
  <2>2. PICK r : r = [vms[1] EXCEPT !.vars = a.vars]
    OBVIOUS
  <2>3. IsActivation(r) /\ r.kind = "root" /\ vms' = <<r>>
    <3>1. IsActivation(vms[1]) /\ vms[1].kind = "root"
      BY <2>1 DEF IInv, Shaped
    <3> QED
      BY <1>4, <2>2, <3>1 DEF EndInitializer, IsActivation
  <2>4. Shaped' /\ CallersFrame' /\ Chain' /\ Len(vms') = 1
    BY <2>3, RootAlone
  <2>5. /\ nextMod \in 1..Len(mods) /\ mods \in Seq(States)
        /\ \A k \in 1..(nextMod - 1) : mods[k] = "Initialized"
        /\ \A k \in 1..Len(mods) : mods[k] = "Initializing" => k = nextMod
    BY <2>1 DEF IInv, Modular, Typed, LoopPosition, OnlyCurrent
  <2>6. /\ mods' = [mods EXCEPT ![nextMod] = "Initialized"]
        /\ nextMod' = nextMod + 1 /\ status' = "initializing"
    BY <1>4, <2>1 DEF EndInitializer
  <2>7. mods' \in Seq(States) /\ Len(mods') = Len(mods)
    BY <2>5, <2>6 DEF States
  <2>8. /\ \A k \in 1..Len(mods) : mods'[k] # "Initializing"
        /\ \A k \in 1..nextMod : mods'[k] = "Initialized"
    BY <2>5, <2>6
  <2>9. Modular'
    BY <2>4, <2>5, <2>6, <2>7, <2>8
       DEF Modular, Typed, OnlyCurrent, RunningReady, LoopPosition, Statuses
  <2> QED
    BY <2>4, <2>9 DEF IInv
<1>5. CASE EndCall(a)
  BY <1>1, <1>5, EndCallIInv DEF Finish
<1> QED
  BY <1>1, <1>3, <1>4, <1>5 DEF Finish

LEMMA StepIInv == ASSUME IInv, Step PROVE IInv'
  BY StepShape, TopActivation, StaysIInv, EntersIInv, ThrowsIInv, FinishesIInv
     DEF Shape, IInv

LEMMA LifecycleIInv == ASSUME IInv, Lifecycle \/ Rerun PROVE IInv'
<1>1. CASE SkipInitialized
  <2>1. nextMod \in 1..Len(mods) /\ Len(vms) = 1 /\ status = "initializing"
    BY <1>1 DEF SkipInitialized, InitLoop, IInv, Modular, Typed
  <2>2. /\ UNCHANGED <<vms, status, mods>> /\ nextMod' = nextMod + 1
        /\ mods[nextMod] = "Initialized"
    BY <1>1 DEF SkipInitialized
  <2>3. Shaped' /\ Chain' /\ CallersFrame'
    BY <2>2 DEF IInv, Shaped, Chain, CallersFrame
  <2>4. \A k \in 1..nextMod : mods[k] = "Initialized"
    BY <2>1, <2>2 DEF IInv, Modular, Typed, LoopPosition
  <2>5. /\ mods \in Seq(States) /\ nextMod + 1 \in 1..(Len(mods) + 1)
        /\ \A k \in 1..Len(mods) : mods[k] # "Initializing"
    BY <2>1 DEF IInv, Modular, Typed, OnlyCurrent
  <2>6. mods' = mods /\ status' = "initializing" /\ Len(vms') = 1 /\ nextMod' - 1 = nextMod
    BY <2>1, <2>2
  <2>7. Typed' /\ OnlyCurrent' /\ RunningReady'
    BY <2>2, <2>5, <2>6 DEF Typed, OnlyCurrent, RunningReady, Statuses
  <2>8. LoopPosition'
    BY <2>4, <2>5, <2>6 DEF LoopPosition
  <2>9. Modular'
    BY <2>7, <2>8 DEF Modular
  <2> QED
    BY <2>3, <2>9 DEF IInv
<1>2. CASE RefuseFailed
  BY <1>2, KinSelf, TopActivation, ThrowsIInv DEF RefuseFailed, Throws, IInv
<1>3. CASE BeginModule
  <2> DEFINE d == Activation("init", Initializer(nextMod), Top.vars, <<>>)
  <2>1. IsActivation(d) /\ d.kind = "init" /\ Len(d.frames) = 0
    BY NewActivation, NoFrames
  <2>2. Len(vms) = 1 /\ status = "initializing" /\ nextMod \in 1..Len(mods)
    BY <1>3 DEF BeginModule, InitLoop, IInv, Modular, Typed
  <2>3. /\ vms' = Append(vms, d) /\ mods' = [mods EXCEPT ![nextMod] = "Initializing"]
        /\ UNCHANGED <<status, nextMod>>
    BY <1>3 DEF BeginModule
  <2> HIDE DEF d
  <2>4. /\ IsSequence(vms') /\ Len(vms') = 2 /\ vms'[2] = d /\ vms'[1] = vms[1]
    <3>1. /\ IsSequence(Append(vms, d)) /\ Len(Append(vms, d)) = Len(vms) + 1
          /\ Append(vms, d)[Len(vms) + 1] = d
          /\ \A i \in 1..Len(vms) : Append(vms, d)[i] = vms[i]
      BY AppendSequence DEF IInv, Shaped
    <3> QED
      BY <2>2, <2>3, <3>1
  <2>5. Shaped'
    BY <2>1, <2>2, <2>4 DEF IInv, Shaped
  <2>6. Chain' /\ CallersFrame'
    BY <2>1, <2>2, <2>3, <2>4 DEF Chain, CallersFrame
  <2>7. mods' \in Seq(States) /\ Len(mods') = Len(mods)
    BY <2>2, <2>3 DEF IInv, Modular, Typed, States
  <2>8. /\ \A k \in 1..Len(mods) : mods'[k] = "Initializing" => k = nextMod
        /\ mods'[nextMod] = "Initializing"
        /\ \A k \in 1..(nextMod - 1) : mods'[k] = "Initialized"
    BY <2>2, <2>3 DEF IInv, Modular, Typed, OnlyCurrent, LoopPosition
  <2>9. Modular'
    BY <2>2, <2>3, <2>4, <2>7, <2>8
       DEF IInv, Modular, Typed, OnlyCurrent, RunningReady, LoopPosition
  <2> QED
    BY <2>5, <2>6, <2>9 DEF IInv
<1>4. CASE ModulesReady
  <2>1. /\ Len(vms) = 1 /\ status = "initializing" /\ status' = "running"
        /\ UNCHANGED <<vms, mods, nextMod>> /\ nextMod > Len(mods)
    BY <1>4 DEF ModulesReady
  <2>2. Shaped' /\ Chain' /\ CallersFrame'
    <3>1. Shaped' /\ CallersFrame'
      BY <2>1 DEF IInv, Shaped, CallersFrame
    <3>2. Chain'
      <4>1. Len(vms') = 1 /\ status' \notin {"halted", "failed"}
        BY <2>1
      <4>2. \A i \in 2..Len(vms') : FALSE
        BY <4>1
      <4> QED
        BY <4>1, <4>2 DEF Chain
    <3> QED
      BY <3>1, <3>2
  <2>3. Modular'
    BY <2>1 DEF IInv, Modular, Typed, OnlyCurrent, RunningReady, LoopPosition, Statuses
  <2> QED
    BY <2>2, <2>3 DEF IInv
<1>5. CASE Rerun
  <2>1. /\ status \in {"halted", "failed"} /\ status' = "initializing"
        /\ nextMod' = 1 /\ UNCHANGED <<vms, mods>>
    BY <1>5 DEF Rerun
  <2>2. Len(vms) = 1
    BY <2>1 DEF IInv, Chain
  <2>3. Shaped' /\ Chain' /\ CallersFrame'
    BY <2>1, <2>2 DEF IInv, Shaped, Chain, CallersFrame
  <2>4. Modular'
    BY <2>1, <2>2 DEF IInv, Modular, Typed, OnlyCurrent, RunningReady, LoopPosition,
                      Statuses
  <2> QED
    BY <2>3, <2>4 DEF IInv
<1> QED
  BY <1>1, <1>2, <1>3, <1>4, <1>5 DEF Lifecycle

LEMMA NextIInv == IInv /\ [Next]_vars => IInv'
<1>1. ASSUME IInv, UNCHANGED vars PROVE IInv'
  BY <1>1 DEF vars, IInv, Shaped, Chain, CallersFrame, Modular, Typed, OnlyCurrent,
              RunningReady, LoopPosition
<1> QED
  BY <1>1, StepIInv, LifecycleIInv DEF Next

LEMMA Invariance == Spec => []IInv
  BY InitIInv, NextIInv, PTL DEF Spec
-----------------------------------------------------------------------------
(* The variables the argument above does not look at. *)

Tracked ==
  /\ runs \in 1..MaxRuns
  /\ IsSequence(out)
  /\ Len(mods) = image.inits

LEMMA StepKeeps ==
  ASSUME IInv, Step
  PROVE  UNCHANGED <<image, runs>> /\ Grows /\ Len(mods') = Len(mods)
<1>1. Shape
  BY StepShape, TopActivation DEF IInv
<1>2. CASE Stays \/ Enters
  BY <1>2 DEF Stays, Enters, Unmoved
<1>3. mods \in Seq(States)
  BY DEF IInv, Modular, Typed
<1>4. CASE Throws
  BY <1>3, <1>4 DEF Throws, Throw, Grows
<1>5. CASE Finishes
  BY <1>3, <1>5 DEF Finishes, Finish, EndRun, EndInitializer, EndCall, Grows
<1> QED
  BY <1>1, <1>2, <1>4, <1>5 DEF Shape

LEMMA LifecycleKeeps ==
  ASSUME IInv, Lifecycle \/ Rerun
  PROVE  /\ UNCHANGED <<image, out>> /\ Len(mods') = Len(mods)
         /\ runs' = runs \/ (Rerun /\ runs' = runs + 1 /\ runs < MaxRuns)
<1>1. mods \in Seq(States)
  BY DEF IInv, Modular, Typed
<1> QED
  BY <1>1 DEF Lifecycle, SkipInitialized, RefuseFailed, BeginModule, ModulesReady, Rerun, Throw

LEMMA TrackedStep == IInv /\ Tracked /\ [Next]_vars => Tracked'
<1> SUFFICES ASSUME IInv, Tracked, [Next]_vars PROVE Tracked'
  OBVIOUS
<1>1. MaxRuns \in Nat
  BY ImagesAssumption
<1>2. CASE Step
  <2>1. UNCHANGED <<image, runs>> /\ Grows /\ Len(mods') = Len(mods)
    BY <1>2, StepKeeps
  <2>2. \A x : IsSequence(Append(out, x))
    BY AppendSequence DEF Tracked
  <2>3. IsSequence(out')
    BY <2>1, <2>2 DEF Tracked, Grows
  <2> QED
    BY <2>1, <2>3 DEF Tracked
<1>3. CASE Lifecycle \/ Rerun
  BY <1>1, <1>3, LifecycleKeeps DEF Tracked
<1>4. CASE UNCHANGED vars
  BY <1>4 DEF vars, Tracked
<1> QED
  BY <1>2, <1>3, <1>4 DEF Next

LEMMA TrackedInit == Init => Tracked
<1> SUFFICES ASSUME Init PROVE Tracked
  OBVIOUS
<1>1. MaxRuns \in Nat \ {0} /\ image.inits \in Nat
  BY ImagesAssumption DEF Init
<1>2. IsSequence(out)
  BY NoFrames DEF Init
<1> QED
  BY <1>1, <1>2 DEF Init, Tracked
-----------------------------------------------------------------------------
(* The theorems. *)

\* The machine's variables keep their types, for any linked programs.
THEOREM Typing == Spec => []TypeOK
<1>1. IInv /\ Tracked => TypeOK
  BY SequenceBasics DEF IInv, Shaped, Chain, Modular, Typed, Tracked, TypeOK
<1> QED
  BY <1>1, Invariance, TrackedInit, TrackedStep, PTL DEF Spec

\* Whatever bytecode is given, calls nest under the root, or under the one
\* initializer that is running, and a run that ended left only the root.
THEOREM CallsNest == Spec => []Chain
<1>1. IInv => Chain
  BY DEF IInv
<1> QED
  BY <1>1, Invariance, PTL

\* A callee binds its parameters in the frame its caller pushed, at any depth.
THEOREM FramesMatch == Spec => []CallersFrame
<1>1. IInv => CallersFrame
  BY DEF IInv
<1> QED
  BY <1>1, Invariance, PTL

\* The loop of initializeModules never passes a module that is not
\* initialized, and no module is left "initializing" without its VM.
THEOREM LoopKeepsPosition == Spec => []LoopPosition
<1>1. IInv => LoopPosition
  BY DEF IInv, Modular
<1> QED
  BY <1>1, Invariance, PTL
-----------------------------------------------------------------------------
(* The machine implements ModuleLifecycle. *)

LEMMA InitRefines == Init => Lifecycles!Init
<1> SUFFICES ASSUME Init PROVE Lifecycles!Init
  OBVIOUS
<1>1. image.inits \in Nat
  BY ImagesAssumption DEF Init
<1>2. mods \in Seq({"Uninitialized"})
  BY <1>1 DEF Init
<1>3. RunOf = "preparing"
  BY DEF Init, RunOf
<1> QED
  BY <1>2, <1>3 DEF Lifecycles!Init

\* Everything but an exception and the end of an initializer is a stutter,
\* or the change of phase that run() itself makes.
LEMMA StepRefines ==
  ASSUME IInv, Step PROVE [Lifecycles!Next]_(Lifecycles!vars)
<1> USE DEF Lifecycles!Next, Lifecycles!vars
<1>1. Shape /\ Executing
  BY StepShape, TopActivation DEF IInv
<1>2. CASE Stays \/ Enters
  BY <1>2 DEF Stays, Enters, Unmoved, RunOf
<1>3. CASE Throws
  <2>1. PICK a, what : Throw(a, what)
    BY <1>3 DEF Throws
  <2>2. status' = "failed" /\ RunOf' = "stopped"
    BY <2>1 DEF Throw, RunOf
  <2>3. CASE status = "initializing" /\ Len(vms) > 1
    <3>1. nextMod \in DOMAIN mods /\ mods[nextMod] = "Initializing"
      BY <2>3 DEF IInv, Modular, Typed, LoopPosition
    <3>2. mods' = [mods EXCEPT ![nextMod] = "Failed"]
      BY <2>1, <2>3 DEF Throw
    <3> QED
      BY <2>2, <3>1, <3>2 DEF Lifecycles!Fail
  <2>4. CASE status = "running"
    <3>1. mods' = mods /\ RunOf = "entered"
      BY <2>1, <2>4 DEF Throw, RunOf
    <3> QED
      BY <2>2, <3>1 DEF Lifecycles!Leave
  <2> QED
    BY <1>1, <2>3, <2>4 DEF Executing
<1>4. CASE Finishes
  <2>1. PICK a : Kin(Top, a) /\ Finish(a)
    BY <1>4 DEF Finishes
  <2>2. CASE EndRun(a)
    <3>1. status = "running"
      BY <1>1, <2>1, <2>2, TopKind DEF EndRun, Kin
    <3>2. RunOf = "entered" /\ RunOf' = "stopped" /\ mods' = mods
      BY <2>2, <3>1 DEF EndRun, RunOf
    <3> QED
      BY <3>2 DEF Lifecycles!Leave
  <2>3. CASE EndInitializer(a)
    <3>1. Len(vms) = 2 /\ status = "initializing"
      BY <1>1, <2>1, <2>3, TopKind DEF EndInitializer, Kin
    <3>2. nextMod \in DOMAIN mods /\ mods[nextMod] = "Initializing"
      BY <3>1 DEF IInv, Modular, Typed, LoopPosition
    <3>3. mods' = [mods EXCEPT ![nextMod] = "Initialized"] /\ RunOf' = RunOf
      BY <2>3 DEF EndInitializer, RunOf
    <3> QED
      BY <3>2, <3>3 DEF Lifecycles!Complete
  <2>4. CASE EndCall(a)
    BY <2>4 DEF EndCall, RunOf
  <2> QED
    BY <2>1, <2>2, <2>3, <2>4 DEF Finish
<1> QED
  BY <1>1, <1>2, <1>3, <1>4 DEF Shape

LEMMA LifecycleRefines ==
  ASSUME IInv, Lifecycle \/ Rerun PROVE [Lifecycles!Next]_(Lifecycles!vars)
<1> USE DEF Lifecycles!Next, Lifecycles!vars
<1>1. CASE SkipInitialized
  BY <1>1 DEF SkipInitialized, RunOf
<1>2. CASE RefuseFailed
  <2>1. /\ status = "initializing" /\ Len(vms) = 1 /\ nextMod \in 1..Len(mods)
        /\ mods[nextMod] \notin {"Initialized", "Uninitialized"}
        /\ Throw(Top, "module")
    BY <1>2 DEF RefuseFailed, InitLoop, IInv, Modular, Typed
  <2>2. nextMod \in DOMAIN mods /\ mods[nextMod] = "Failed"
    BY <2>1 DEF IInv, Modular, Typed, LoopPosition, States
  <2>3. mods' = mods /\ RunOf = "preparing" /\ RunOf' = "stopped"
    BY <2>1 DEF Throw, RunOf
  <2> QED
    BY <2>2, <2>3 DEF Lifecycles!Refuse
<1>3. CASE BeginModule
  <2>1. status = "initializing" /\ nextMod \in 1..Len(mods)
    BY <1>3 DEF BeginModule, InitLoop, IInv, Modular, Typed
  <2>2. nextMod \in DOMAIN mods /\ \A j \in 1..(nextMod - 1) : mods[j] = "Initialized"
    BY <2>1 DEF IInv, Modular, Typed, LoopPosition
  <2>3. /\ mods[nextMod] = "Uninitialized" /\ mods' = [mods EXCEPT ![nextMod] = "Initializing"]
        /\ RunOf = "preparing" /\ RunOf' = RunOf
    BY <1>3, <2>1 DEF BeginModule, RunOf
  <2> QED
    BY <2>2, <2>3 DEF Lifecycles!Begin, Lifecycles!Ready
<1>4. CASE ModulesReady
  <2>1. /\ status = "initializing" /\ status' = "running" /\ mods' = mods
        /\ nextMod > Len(mods)
    BY <1>4 DEF ModulesReady
  <2>2. \A k \in DOMAIN mods : mods[k] = "Initialized"
    BY <2>1 DEF IInv, Modular, Typed, LoopPosition
  <2>3. RunOf = "preparing" /\ RunOf' = "entered"
    BY <2>1 DEF RunOf
  <2> QED
    BY <2>1, <2>2, <2>3 DEF Lifecycles!Enter
<1>5. CASE Rerun
  <2>1. RunOf = "stopped" /\ RunOf' = "preparing" /\ mods' = mods
    BY <1>5 DEF Rerun, RunOf
  <2> QED
    BY <2>1 DEF Lifecycles!Again
<1> QED
  BY <1>1, <1>2, <1>3, <1>4, <1>5 DEF Lifecycle

\* For every linked program, whatever its bytecode does, initializeModules
\* and run() keep the promises of ModuleLifecycle.
THEOREM Refinement == Spec => ImplementsLifecycle
<1>1. ASSUME IInv, [Next]_vars PROVE [Lifecycles!Next]_(Lifecycles!vars)
  <2>1. CASE UNCHANGED vars
    BY <2>1 DEF vars, Lifecycles!vars, RunOf
  <2> QED
    BY <1>1, <2>1, StepRefines, LifecycleRefines DEF Next
<1> QED
  BY <1>1, InitRefines, Invariance, PTL DEF Spec, ImplementsLifecycle, Lifecycles!Spec
-----------------------------------------------------------------------------
(* The lambdas run one after the other *)

Do(m, ins, pool) == IF m.going THEN Lambda(m, ins, pool) ELSE m

\* A set of numbers that has a member has a least one.
LEMMA LeastOne ==
  ASSUME NEW T, T \subseteq Nat, T # {}
  PROVE  \E n \in T : \A k \in T : n <= k
  <1>1. PICK n \in T : \A k \in T : ~ (<<k, n>> \in OpToRel(<, Nat))
    BY NatLessThanWellFounded, WFMin, Zenon
  <1>2. \A k \in T : ~(k < n)
    BY <1>1 DEF OpToRel
  <1>. QED  BY <1>2

\* The first k lambdas, one by one
Partly(f, code, pool, k) ==
  f = [i \in 0..k |-> IF i = 0 THEN Fresh ELSE Do(f[i - 1], code[i], pool)]

LEMMA PartsExist ==
  ASSUME NEW code, NEW pool, NEW n \in Nat
  PROVE  \E f : Partly(f, code, pool, n)
  <1>. DEFINE Missing == {k \in Nat : ~ \E f : Partly(f, code, pool, k)}
  <1>1. SUFFICES ASSUME Missing # {} PROVE FALSE
    OBVIOUS
  <1>2. PICK k \in Missing : \A l \in Missing : k <= l
    BY <1>1, LeastOne
  <1>3. CASE k = 0
    <2>. DEFINE f == [i \in 0..0 |-> Fresh]
    <2>1. f = [i \in 0..0 |-> IF i = 0 THEN Fresh ELSE Do(f[i - 1], code[i], pool)]
      OBVIOUS
    <2>2. Partly(f, code, pool, 0)
      BY <2>1 DEF Partly
    <2>. QED  BY <1>2, <1>3, <2>2
  <1>4. CASE k # 0
    <2>1. k - 1 \in Nat /\ k - 1 \notin Missing
      BY <1>2, <1>4
    <2>2. PICK f : Partly(f, code, pool, k - 1)
      BY <2>1
    <2>. DEFINE g == [i \in 0..k |-> IF i = k THEN Do(f[k - 1], code[k], pool) ELSE f[i]]
    <2>3. ASSUME NEW i \in 0..k
          PROVE  g[i] = IF i = 0 THEN Fresh ELSE Do(g[i - 1], code[i], pool)
      <3>1. CASE i = k
        BY <3>1, <1>2, <1>4
      <3>2. CASE i # k
        <4>1. i \in 0..(k - 1) /\ g[i] = f[i]
          BY <3>2, <1>2
        <4>2. f[i] = IF i = 0 THEN Fresh ELSE Do(f[i - 1], code[i], pool)
          BY <4>1, <2>2 DEF Partly
        <4>3. i # 0 => g[i - 1] = f[i - 1]
          BY <3>2, <1>2
        <4>. QED  BY <4>1, <4>2, <4>3
      <3>. QED  BY <3>1, <3>2
    <2>4. g = [i \in 0..k |-> IF i = 0 THEN Fresh ELSE Do(g[i - 1], code[i], pool)]
      <3>1. g = [i \in 0..k |-> g[i]]
        OBVIOUS
      <3>. HIDE DEF g
      <3>. QED  BY <2>3, <3>1
    <2>5. Partly(g, code, pool, k)
      <3>. HIDE DEF g
      <3>. QED  BY <2>4 DEF Partly
    <2>. QED  BY <1>2, <2>5
  <1>. QED  BY <1>3, <1>4

LEMMA OneByOne ==
  ASSUME NEW S, NEW code \in Seq(S), NEW pool
  PROVE  /\ After(code, pool)[0] = Fresh
         /\ \A i \in 1..Len(code) :
              After(code, pool)[i] = Do(After(code, pool)[i - 1], code[i], pool)
  <1>. DEFINE n == Len(code)
              m == After(code, pool)
  <1>1. n \in Nat
    OBVIOUS
  <1>2. PICK f : f = [i \in 0..n |-> IF i = 0 THEN Fresh
                                     ELSE IF f[i - 1].going THEN Lambda(f[i - 1], code[i], pool)
                                          ELSE f[i - 1]]
    <2>1. PICK f : Partly(f, code, pool, n)
      BY <1>1, PartsExist
    <2>2. f = [i \in 0..n |-> IF i = 0 THEN Fresh
                              ELSE IF f[i - 1].going THEN Lambda(f[i - 1], code[i], pool)
                                   ELSE f[i - 1]]
      BY <2>1, Zenon DEF Partly, Do
    <2>. QED  BY <2>2
  <1>3. m = [i \in 0..n |-> IF i = 0 THEN Fresh
                            ELSE IF m[i - 1].going THEN Lambda(m[i - 1], code[i], pool)
                                 ELSE m[i - 1]]
    BY <1>2, Zenon DEF After
  <1>. HIDE DEF m
  <1>4. \A i \in 0..n : m[i] = IF i = 0 THEN Fresh
                               ELSE IF m[i - 1].going THEN Lambda(m[i - 1], code[i], pool)
                                    ELSE m[i - 1]
    BY <1>3
  <1>5. m[0] = Fresh
    BY <1>1, <1>4
  <1>6. \A i \in 1..n : m[i] = Do(m[i - 1], code[i], pool)
    BY <1>1, <1>4 DEF Do
  <1>. QED  BY <1>5, <1>6 DEF m

\* Once a lambda has thrown, or ended the program, nothing more happens.
LEMMA StaysOver ==
  ASSUME NEW S, NEW code \in Seq(S), NEW pool,
         NEW i \in 0..Len(code), ~After(code, pool)[i].going
  PROVE  RunJit(code, pool) = After(code, pool)[i]
  <1>. DEFINE n == Len(code)
              m == After(code, pool)
              Later == {k \in i..n : m[k] # m[i]}
  <1>1. n \in Nat /\ i \in Nat
    OBVIOUS
  <1>2. \A k \in 1..n : m[k] = Do(m[k - 1], code[k], pool)
    BY OneByOne
  <1>. HIDE DEF m
  <1>3. Later = {}
    <2>1. SUFFICES ASSUME Later # {} PROVE FALSE
      OBVIOUS
    <2>2. PICK k \in Later : \A l \in Later : k <= l
      <3>1. Later \subseteq Nat
        BY <1>1
      <3>. QED  BY <2>1, <3>1, LeastOne
    <2>3. k \in 1..n /\ k - 1 \in i..n /\ k - 1 \notin Later
      BY <1>1, <2>2
    <2>4. m[k - 1] = m[i] /\ m[k] = Do(m[k - 1], code[k], pool)
      BY <1>2, <2>3
    <2>5. m[k] = m[i]
      BY <2>4 DEF Do, m
    <2>. QED  BY <2>2, <2>5
  <1>4. m[n] = m[i]
    BY <1>1, <1>3
  <1>. QED  BY <1>4 DEF RunJit, m
-----------------------------------------------------------------------------
(* What an instruction does to a VM and a lambda to its own *)

IsRun(m) ==
  /\ m = [stack |-> m.stack, out |-> m.out, fault |-> m.fault, going |-> m.going]
  /\ IsSequence(m.stack)

\* A field of a record is changed, the others are not.
LEMMA RunStack ==
  ASSUME NEW m, IsRun(m), NEW v, IsSequence(v)
  PROVE  /\ IsRun([m EXCEPT !.stack = v]) /\ [m EXCEPT !.stack = v].stack = v
         /\ [m EXCEPT !.stack = v].out = m.out /\ [m EXCEPT !.stack = v].fault = m.fault
         /\ [m EXCEPT !.stack = v].going = m.going
  BY DEF IsRun

LEMMA RunOut ==
  ASSUME NEW m, IsRun(m), NEW v
  PROVE  /\ IsRun([m EXCEPT !.out = v]) /\ [m EXCEPT !.out = v].stack = m.stack
         /\ [m EXCEPT !.out = v].out = v /\ [m EXCEPT !.out = v].fault = m.fault
         /\ [m EXCEPT !.out = v].going = m.going
  BY DEF IsRun

LEMMA RunFault ==
  ASSUME NEW m, IsRun(m), NEW v
  PROVE  /\ IsRun([m EXCEPT !.fault = v]) /\ [m EXCEPT !.fault = v].stack = m.stack
         /\ [m EXCEPT !.fault = v].out = m.out /\ [m EXCEPT !.fault = v].fault = v
         /\ [m EXCEPT !.fault = v].going = m.going
  BY DEF IsRun

LEMMA RunGoing ==
  ASSUME NEW m, IsRun(m), NEW v
  PROVE  /\ IsRun([m EXCEPT !.going = v]) /\ [m EXCEPT !.going = v].stack = m.stack
         /\ [m EXCEPT !.going = v].out = m.out /\ [m EXCEPT !.going = v].fault = m.fault
         /\ [m EXCEPT !.going = v].going = v
  BY DEF IsRun

LEMMA RunPush ==
  ASSUME NEW m, IsRun(m), NEW v
  PROVE  /\ IsRun(Push(m, v)) /\ Push(m, v).stack = Append(m.stack, v)
         /\ Push(m, v).out = m.out /\ Push(m, v).fault = m.fault /\ Push(m, v).going = m.going
  BY RunStack, AppendSequence, Zenon DEF IsRun, Push

\* a stack without its top k values
Shorter(s, k) == SubSeq(s, 1, Len(s) - k)

LEMMA RunPop ==
  ASSUME NEW m, IsRun(m), NEW k \in Nat, Holds(m, k)
  PROVE  /\ IsRun(Pop(m, k)) /\ Pop(m, k).stack = Shorter(m.stack, k)
         /\ Pop(m, k).out = m.out /\ Pop(m, k).fault = m.fault /\ Pop(m, k).going = m.going
  <1>1. PICK S : m.stack \in Seq(S)
    BY DEF IsRun, IsSequence
  <1>2. SubSeq(m.stack, 1, Len(m.stack) - k) \in Seq(S)
    BY <1>1 DEF Holds
  <1>3. IsSequence(SubSeq(m.stack, 1, Len(m.stack) - k))
    BY <1>2 DEF IsSequence
  <1>. QED  BY <1>3, RunStack, Zenon DEF Pop, Shorter

LEMMA RunFails ==
  ASSUME NEW m, IsRun(m), NEW what
  PROVE  /\ IsRun(Fails(m, what)) /\ Fails(m, what).stack = m.stack
         /\ Fails(m, what).out = m.out /\ Fails(m, what).fault = what /\ ~Fails(m, what).going
  <1>1. PICK f : f = [m EXCEPT !.fault = what]
    OBVIOUS
  <1>2. IsRun(f) /\ f.stack = m.stack /\ f.out = m.out /\ f.fault = what
    BY <1>1, RunFault
  <1>3. Fails(m, what) = [f EXCEPT !.going = FALSE]
    BY <1>1 DEF Fails
  <1>. QED  BY <1>2, <1>3, RunGoing

LEMMA RootStack ==
  ASSUME NEW a, IsActivation(a), NEW v
  PROVE  /\ IsActivation([a EXCEPT !.stack = v]) /\ [a EXCEPT !.stack = v].stack = v
         /\ [a EXCEPT !.stack = v].code = a.code /\ [a EXCEPT !.stack = v].switches = a.switches
         /\ [a EXCEPT !.stack = v].pc = a.pc
  BY DEF IsActivation

LEMMA RootPc ==
  ASSUME NEW a, IsActivation(a), NEW v
  PROVE  /\ IsActivation([a EXCEPT !.pc = v]) /\ [a EXCEPT !.pc = v].pc = v
         /\ [a EXCEPT !.pc = v].stack = a.stack
         /\ [a EXCEPT !.pc = v].code = a.code /\ [a EXCEPT !.pc = v].switches = a.switches
  BY DEF IsActivation

LEMMA RootPush ==
  ASSUME NEW a, IsActivation(a), NEW v
  PROVE  /\ IsActivation(Push(a, v)) /\ Push(a, v).stack = Append(a.stack, v)
         /\ Push(a, v).code = a.code /\ Push(a, v).switches = a.switches
  BY RootStack, Zenon DEF Push

LEMMA RootPop ==
  ASSUME NEW a, IsActivation(a), NEW k
  PROVE  /\ IsActivation(Pop(a, k)) /\ Pop(a, k).stack = Shorter(a.stack, k)
         /\ Pop(a, k).code = a.code /\ Pop(a, k).switches = a.switches
         /\ Pop(a, k).pc = a.pc
  BY RootStack, Zenon DEF Pop, Shorter

-----------------------------------------------------------------------------
(* The interpreter keeps abreast of the lambdas *)

Entered == image.code[Main]
Lambdas(i) == After(Entered, image.pool)[i]

\* a first run of a program that the JIT takes
First == runs = 1 /\ image.inits = 0 /\ Compilable(Entered)

\* the root VM stands where the lambdas do that come before its pc, and where a
\* run has ended they have ended
Alike(m) ==
  /\ IsRun(m)
  /\ vms[1].stack = m.stack /\ out = m.out /\ fault = m.fault
Abreast ==
  First =>
    /\ Len(vms) = 1 /\ vms[1].code = Main /\ vms[1].switches = <<>>
    /\ \E i \in 0..Len(Entered) :
         /\ Alike(Lambdas(i))
         /\ status \in {"initializing", "running"} => vms[1].pc = i /\ Lambdas(i).going
         /\ status \in {"halted", "failed"} => i = Len(Entered) \/ ~Lambdas(i).going

JitInv == image \in Images /\ Abreast

\* What has to be seen of a step: it leaves the root as a, which stands where m does.
Becomes(a, m, pc) ==
  /\ vms' = [vms EXCEPT ![Len(vms)] = a] \/ vms' = <<a>>
  /\ a.code = Main /\ a.switches = <<>> /\ a.stack = m.stack
  /\ out' = m.out /\ fault' = m.fault
  /\ IsRun(m)
  /\ IF m.going THEN status' = "running" /\ a.pc = pc ELSE status' \in {"halted", "failed"}

LEMMA EnteredCode ==
  ASSUME image \in Images PROVE Entered \in Seq(Instruction) /\ Len(Entered) \in Nat
  <1>1. Main \in DOMAIN image.code /\ image.code[Main] \in Seq(Instruction)
    BY ImagesAssumption
  <1>. QED  BY <1>1 DEF Entered

LEMMA InitJit == Init => JitInv
  <1>. SUFFICES ASSUME Init PROVE JitInv
    OBVIOUS
  <1>1. image \in Images
    BY DEF Init
  <1>2. Lambdas(0) = Fresh /\ 0 \in 0..Len(Entered)
    BY <1>1, EnteredCode, OneByOne DEF Lambdas
  <1>3. vms = <<Activation("root", Main, NoVars, <<>>)>> /\ Len(vms) = 1
    BY Singleton DEF Init
  <1>4. IsRun(Fresh)
    BY NoFrames DEF IsRun, Fresh
  <1>5. Alike(Lambdas(0)) /\ vms[1].pc = 0 /\ Lambdas(0).going
    <2>1. vms[1] = Activation("root", Main, NoVars, <<>>)
      BY <1>3
    <2>2. vms[1].stack = <<>> /\ vms[1].pc = 0
      BY <2>1 DEF Activation
    <2>3. Fresh.stack = <<>> /\ Fresh.out = <<>> /\ Fresh.fault = "none" /\ Fresh.going
      BY DEF Fresh
    <2>. QED  BY <1>2, <1>4, <2>2, <2>3 DEF Alike, Init
  <1>6. vms[1].code = Main /\ vms[1].switches = <<>>
    BY <1>3 DEF Activation
  <1>. QED  BY <1>1, <1>2, <1>3, <1>5, <1>6 DEF JitInv, Abreast, Init

\* What the lambda of each instruction does to a VM that is still running
LEMMA LambdaDoes ==
  ASSUME NEW m, IsRun(m), NEW ins, NEW pool
  PROVE
    /\ ins.op \in Silent => Lambda(m, ins, pool) = m
    /\ ins.op = "BIEN_SO" => Lambda(m, ins, pool) = Push(m, IntV(ins.a))
    /\ ins.op = "RONG_GIA_TRI" => Lambda(m, ins, pool) = Push(m, NullV)
    /\ ins.op = "CHUOI" =>
         Lambda(m, ins, pool) = IF ins.b + 1 \in DOMAIN pool
                                THEN Push(m, StrV(pool[ins.b + 1])) ELSE Fails(m, "internal")
    /\ ins.op = "PHU_DINH" =>
         Lambda(m, ins, pool) = IF ~Holds(m, 1) THEN Fails(m, "internal")
                                ELSE Push(Pop(m, 1), Bit(~ToBool(Peek(m, 0))))
    /\ ins.op \in BinaryOps =>
         LET result == Binary(ins.op, Peek(m, 1), Peek(m, 0))
         IN  Lambda(m, ins, pool) = IF ~Holds(m, 2) THEN Fails(m, "internal")
                                    ELSE IF result = <<>> THEN Fails(Pop(m, 2), "value")
                                    ELSE Push(Pop(m, 2), result[1])
  <1>1. Holds(m, 0)
    BY SequenceBasics DEF IsRun, Holds
  <1>. USE <1>1 DEF Silent, BinaryOps
  <1>2. ins.op \in Silent => Operands(ins.op) = 0 /\ Lambda(m, ins, pool) = m
    BY DEF Lambda, Operands
  <1>3. ins.op = "BIEN_SO" => Lambda(m, ins, pool) = Push(m, IntV(ins.a))
    BY DEF Lambda, Operands
  <1>4. ins.op = "RONG_GIA_TRI" => Lambda(m, ins, pool) = Push(m, NullV)
    BY DEF Lambda, Operands
  <1>5. ins.op = "CHUOI" =>
         Lambda(m, ins, pool) = IF ins.b + 1 \in DOMAIN pool
                                THEN Push(m, StrV(pool[ins.b + 1])) ELSE Fails(m, "internal")
    BY DEF Lambda, Operands
  <1>6. ins.op = "PHU_DINH" =>
         Lambda(m, ins, pool) = IF ~Holds(m, 1) THEN Fails(m, "internal")
                                ELSE Push(Pop(m, 1), Bit(~ToBool(Peek(m, 0))))
    BY DEF Lambda, Operands
  <1>7. ins.op \in BinaryOps =>
         LET result == Binary(ins.op, Peek(m, 1), Peek(m, 0))
         IN  Lambda(m, ins, pool) = IF ~Holds(m, 2) THEN Fails(m, "internal")
                                    ELSE IF result = <<>> THEN Fails(Pop(m, 2), "value")
                                    ELSE Push(Pop(m, 2), result[1])
    BY DEF Lambda, Operands
  <1>. QED  BY <1>2, <1>3, <1>4, <1>5, <1>6, <1>7

LEMMA LambdaEnds ==
  ASSUME NEW m, IsRun(m), NEW ins, NEW pool, ins.op = "DUNG_CHUONG_TRINH"
  PROVE  LET n == Lambda(m, ins, pool)
         IN  IsRun(n) /\ n.stack = m.stack /\ n.out = m.out /\ n.fault = m.fault /\ ~n.going
  <1>1. Holds(m, 0)
    BY SequenceBasics DEF IsRun, Holds
  <1>2. PICK n : n = [m EXCEPT !.going = FALSE]
    OBVIOUS
  <1>3. Lambda(m, ins, pool) = n
    BY <1>1, <1>2 DEF Lambda, Operands, Silent, BinaryOps
  <1>. QED  BY <1>2, <1>3, RunGoing

LEMMA LambdaPrints ==
  ASSUME NEW m, IsRun(m), NEW ins, NEW pool, ins.op = "IN"
  PROVE  Lambda(m, ins, pool) = IF ~Holds(m, 1) THEN Fails(m, "internal")
                                ELSE [Pop(m, 1) EXCEPT !.out = Append(@, Text(Peek(m, 0)))]
  BY DEF Lambda, Operands, Silent, BinaryOps

\* A VM and a lambda's VM that have the same operands look at the same values.
LEMMA SameOperands ==
  ASSUME NEW a, NEW m, a.stack = m.stack
  PROVE  \A k : Peek(a, k) = Peek(m, k) /\ (Holds(a, k) <=> Holds(m, k))
  BY DEF Peek, Holds

\* The instructions the JIT takes, at a root that stands where m does
LEMMA InstructionBecomes ==
  ASSUME Len(vms) = 1, status = "running", HasCode, Step,
         IsActivation(Top), Top.code = Main, Top.switches = <<>>, Ins.op \in Linear,
         Top.kind = "root",
         NEW m, Alike(m), m.going
  PROVE  \E a : Becomes(a, Lambda(m, Ins, image.pool), Top.pc + 1)
  <1>a. PICK ins, pool, pc : ins = Ins /\ pool = image.pool /\ pc = Top.pc + 1
    OBVIOUS
  <1>b. PICK n : n = Lambda(m, ins, pool)
    OBVIOUS
  <1>1. Top = vms[1] /\ Top.stack = m.stack /\ out = m.out /\ fault = m.fault /\ IsRun(m)
    BY DEF Top, Alike
  <1>2. \A k : Peek(Top, k) = Peek(m, k) /\ (Holds(Top, k) <=> Holds(m, k))
    BY <1>1, SameOperands
  <1>3. EndOfCode = FALSE
    BY DEF EndOfCode
  <1>4. \/ OpDungChuongTrinh \/ OpConstant \/ OpBinary \/ OpPhuDinh \/ OpIn \/ OpMarker
    BY <1>3 DEF Step, Linear, Silent, BinaryOps, At, OpTraVe, OpGoi, OpGoiGianTiep, OpKhong,
       OpKhoiTao, OpTenBienGiaTri, OpGan, OpParam, OpCongMot, OpChon, OpCa, OpMacDinh, OpThoat,
       OpMoKhoi, OpDongKhoi, OpThu, OpThuKetThuc, OpBatLoi, OpNem, OpJump, OpJumpIfFalse,
       OpBoQua, OpUnknown
  \* the instruction ends well, leaving the root as a
  <1>5. ASSUME NEW a, Advance(a), IsActivation(a), a.code = Main, a.switches = <<>>,
               a.stack = n.stack, IsRun(n), n.going, n.out = out, n.fault = fault
        PROVE  \E b : Becomes(b, n, pc)
    <2>1. PICK b : b = [a EXCEPT !.pc = Top.pc + 1]
      OBVIOUS
    <2>2. b.pc = pc /\ b.stack = a.stack /\ b.code = Main /\ b.switches = <<>>
      BY <1>a, <1>5, <2>1, RootPc
    <2>3. vms' = [vms EXCEPT ![Len(vms)] = b] /\ UNCHANGED <<status, out, fault>>
      BY <1>5, <2>1 DEF Advance, Goto
    <2>4. Becomes(b, n, pc)
      <3>. QED  BY <1>5, <2>2, <2>3 DEF Becomes
    <2>. QED  BY <2>4
  \* it throws, leaving the root as a
  <1>6. ASSUME NEW a, NEW what, Throw(a, what), a.code = Main, a.switches = <<>>,
               a.stack = n.stack, IsRun(n), ~n.going, n.out = out, n.fault = what
        PROVE  \E b : Becomes(b, n, pc)
    <2>1. vms' = <<a>> /\ status' = "failed" /\ fault' = what /\ out' = out
      BY <1>6 DEF Throw
    <2>2. Becomes(a, n, pc)
      <3>. QED  BY <1>6, <2>1 DEF Becomes
    <2>. QED  BY <2>2
  <1>7. ASSUME NEW v, Advance(Push(Top, v)), n = Push(m, v)
        PROVE  \E b : Becomes(b, n, pc)
    <2>1. PICK a : a = Push(Top, v)
      OBVIOUS
    <2>2. IsActivation(a) /\ a.code = Main /\ a.switches = <<>> /\ a.stack = Append(m.stack, v)
      BY <1>1, <2>1, RootPush
    <2>3. IsRun(n) /\ n.stack = Append(m.stack, v) /\ n.going /\ n.out = out /\ n.fault = fault
      BY <1>1, <1>7, RunPush
    <2>. QED  BY <1>5, <1>7, <2>1, <2>2, <2>3
  <1>8. ASSUME NEW k \in Nat, Holds(m, k), NEW v, Advance(Push(Pop(Top, k), v)),
               n = Push(Pop(m, k), v)
        PROVE  \E b : Becomes(b, n, pc)
    <2>1. PICK a : a = Pop(Top, k)
      OBVIOUS
    <2>2. PICK l : l = Pop(m, k)
      OBVIOUS
    <2>3. IsActivation(a) /\ a.code = Main /\ a.switches = <<>> /\ a.stack = l.stack
      BY <1>1, <1>8, <2>1, <2>2, RootPop, RunPop
    <2>4. IsRun(l) /\ l.out = out /\ l.fault = fault /\ l.going
      BY <1>1, <1>8, <2>2, RunPop
    <2>5. PICK c : c = Push(a, v)
      OBVIOUS
    <2>6. IsActivation(c) /\ c.code = Main /\ c.switches = <<>> /\ c.stack = Append(l.stack, v)
      BY <2>3, <2>5, RootPush
    <2>7. IsRun(n) /\ n.stack = Append(l.stack, v) /\ n.going /\ n.out = out /\ n.fault = fault
      BY <1>8, <2>2, <2>4, RunPush
    <2>. QED  BY <1>5, <1>8, <2>1, <2>5, <2>6, <2>7
  <1>9. ASSUME NEW what, Throw(Top, what), n = Fails(m, what)
        PROVE  \E b : Becomes(b, n, pc)
    <2>. QED  BY <1>1, <1>6, <1>9, RunFails
  <1>10. ASSUME NEW k \in Nat, Holds(m, k), NEW what, Throw(Pop(Top, k), what),
                n = Fails(Pop(m, k), what)
         PROVE  \E b : Becomes(b, n, pc)
    <2>1. PICK a : a = Pop(Top, k)
      OBVIOUS
    <2>2. PICK l : l = Pop(m, k)
      OBVIOUS
    <2>3. a.code = Main /\ a.switches = <<>> /\ a.stack = l.stack
      BY <1>1, <1>10, <2>1, <2>2, RootPop, RunPop
    <2>4. IsRun(l) /\ l.out = out
      BY <1>1, <1>10, <2>2, RunPop
    <2>5. IsRun(n) /\ n.stack = a.stack /\ n.out = out /\ n.fault = what /\ ~n.going
      BY <1>10, <2>2, <2>3, <2>4, RunFails
    <2>. QED  BY <1>6, <1>10, <2>1, <2>3, <2>5
  <1>11. ASSUME OpDungChuongTrinh PROVE \E b : Becomes(b, n, pc)
    <2>1. ins.op = "DUNG_CHUONG_TRINH" /\ Finish(Top)
      BY <1>a, <1>11 DEF OpDungChuongTrinh, At
    <2>3. IsRun(n) /\ n.stack = m.stack /\ n.out = m.out /\ n.fault = m.fault /\ ~n.going
      BY <1>1, <2>1, <1>b, LambdaEnds
    <2>4. vms' = [vms EXCEPT ![Len(vms)] = Top] /\ status' = "halted" /\ UNCHANGED <<out, fault>>
      BY <2>1 DEF Finish, EndRun, EndInitializer, EndCall
    <2>5. Becomes(Top, n, pc)
      <3>. QED  BY <1>1, <2>3, <2>4 DEF Becomes
    <2>. QED  BY <2>5
  <1>12. ASSUME OpMarker PROVE \E b : Becomes(b, n, pc)
    <2>1. Advance(Top) /\ ins.op \in Silent
      BY <1>a, <1>12 DEF OpMarker, Markers, Linear, Silent, BinaryOps
    <2>2. n = m
      BY <1>1, <2>1, <1>a, <1>b, LambdaDoes
    <2>3. IsRun(n) /\ n.going /\ n.out = out /\ n.fault = fault /\ Top.stack = n.stack
      BY <1>1, <2>2
    <2>. QED  BY <1>5, <2>1, <2>3
  <1>13. ASSUME OpConstant PROVE \E b : Becomes(b, n, pc)
    <2>1. CASE At("BIEN_SO") /\ Advance(Push(Top, IntV(Ins.a)))
      BY <1>1, <1>7, <2>1, <1>a, <1>b, LambdaDoes DEF At
    <2>2. CASE At("RONG_GIA_TRI") /\ Advance(Push(Top, NullV))
      BY <1>1, <1>7, <2>2, <1>a, <1>b, LambdaDoes DEF At
    <2>3. CASE /\ At("CHUOI")
               /\ IF Ins.b + 1 \in DOMAIN image.pool
                  THEN Advance(Push(Top, StrV(image.pool[Ins.b + 1])))
                  ELSE Throw(Top, "internal")
      BY <1>1, <1>7, <1>9, <2>3, <1>a, <1>b, LambdaDoes DEF At
    <2>4. ~At("TEN_BIEN_ID") /\ ~At("DUNG_GIA_TRI") /\ ~At("SAI_GIA_TRI")
      BY DEF At, Linear, Silent, BinaryOps
    <2>. QED  BY <1>13, <2>1, <2>2, <2>3, <2>4 DEF OpConstant
  <1>14. ASSUME OpBinary PROVE \E b : Becomes(b, n, pc)
    <2>1. PICK result : result = Binary(ins.op, Peek(m, 1), Peek(m, 0))
      OBVIOUS
    <2>2. n = IF ~Holds(m, 2) THEN Fails(m, "internal")
              ELSE IF result = <<>> THEN Fails(Pop(m, 2), "value")
              ELSE Push(Pop(m, 2), result[1])
      BY <1>1, <1>14, <2>1, <1>a, <1>b, LambdaDoes DEF OpBinary
    <2>3. IF ~Holds(m, 2) THEN Throw(Top, "internal")
          ELSE IF result = <<>> THEN Throw(Pop(Top, 2), "value")
          ELSE Advance(Push(Pop(Top, 2), result[1]))
      BY <1>a, <1>2, <1>14, <2>1 DEF OpBinary
    <2>4. 2 \in Nat
      OBVIOUS
    <2>5. CASE ~Holds(m, 2)
      BY <1>9, <2>2, <2>3, <2>5
    <2>6. CASE Holds(m, 2) /\ result = <<>>
      BY <1>10, <2>2, <2>3, <2>4, <2>6
    <2>7. CASE Holds(m, 2) /\ result # <<>>
      BY <1>8, <2>2, <2>3, <2>4, <2>7
    <2>. QED  BY <2>5, <2>6, <2>7
  <1>15. ASSUME OpPhuDinh PROVE \E b : Becomes(b, n, pc)
    <2>1. PICK v : v = Bit(~ToBool(Peek(m, 0)))
      OBVIOUS
    <2>2. n = IF ~Holds(m, 1) THEN Fails(m, "internal") ELSE Push(Pop(m, 1), v)
      BY <1>1, <1>15, <2>1, <1>a, <1>b, LambdaDoes DEF OpPhuDinh, At
    <2>3. IF ~Holds(m, 1) THEN Throw(Top, "internal") ELSE Advance(Push(Pop(Top, 1), v))
      BY <1>2, <1>15, <2>1 DEF OpPhuDinh
    <2>4. 1 \in Nat
      OBVIOUS
    <2>5. CASE ~Holds(m, 1)
      BY <1>9, <2>2, <2>3, <2>5
    <2>6. CASE Holds(m, 1)
      BY <1>8, <2>2, <2>3, <2>4, <2>6
    <2>. QED  BY <2>5, <2>6
  <1>16. ASSUME OpIn PROVE \E b : Becomes(b, n, pc)
    <2>1. PICK text : text = Text(Peek(m, 0))
      OBVIOUS
    <2>2. n = IF ~Holds(m, 1) THEN Fails(m, "internal")
              ELSE [Pop(m, 1) EXCEPT !.out = Append(@, text)]
      BY <1>1, <1>16, <2>1, <1>a, <1>b, LambdaPrints DEF OpIn, At
    <2>3. CASE ~Holds(m, 1)
      <3>1. Throw(Top, "internal")
        BY <1>2, <1>16, <2>3 DEF OpIn
      <3>. QED  BY <1>9, <2>2, <2>3, <3>1
    <2>4. CASE Holds(m, 1)
      <3>1. PICK a : a = Pop(Top, 1)
        OBVIOUS
      <3>2. PICK l : l = Pop(m, 1)
        OBVIOUS
      <3>3. IsActivation(a) /\ a.code = Main /\ a.switches = <<>> /\ a.stack = l.stack
            /\ a.pc = Top.pc
        <4>1. /\ IsActivation(a) /\ a.code = Main /\ a.switches = <<>> /\ a.pc = Top.pc
              /\ a.stack = Shorter(Top.stack, 1)
          BY <3>1, RootPop
        <4>2. l.stack = Shorter(m.stack, 1)
          BY <1>1, <2>4, <3>2, RunPop
        <4>. QED  BY <1>1, <4>1, <4>2
      <3>4. IsRun(l) /\ l.out = out /\ l.fault = fault /\ l.going
        BY <1>1, <2>4, <3>2, RunPop
      <3>5. n = [l EXCEPT !.out = Append(out, text)]
        BY <2>2, <2>4, <3>2, <3>4
      <3>6. IsRun(n) /\ n.stack = l.stack /\ n.out = Append(out, text) /\ n.fault = fault /\ n.going
        BY <3>4, <3>5, RunOut
      <3>7. ~Skipping(Top)
        BY DEF Skipping
      <3>8. /\ out' = Append(out, text)
            /\ vms' = [vms EXCEPT ![Len(vms)] = [a EXCEPT !.pc = a.pc + 1]]
            /\ UNCHANGED <<status, fault>>
        BY <1>2, <1>16, <2>1, <2>4, <3>1, <3>7 DEF OpIn
      <3>9. PICK b : b = [a EXCEPT !.pc = a.pc + 1]
        OBVIOUS
      <3>10. b.pc = pc /\ b.stack = a.stack /\ b.code = Main /\ b.switches = <<>>
        BY <1>a, <3>3, <3>9, RootPc
      <3>11. Becomes(b, n, pc)
        <4>. QED  BY <3>3, <3>6, <3>8, <3>9, <3>10 DEF Becomes
      <3>. QED  BY <3>11
    <2>. QED  BY <2>3, <2>4
  <1>17. \E b : Becomes(b, n, pc)
    BY <1>4, <1>11, <1>12, <1>13, <1>14, <1>15, <1>16
  <1>. QED  BY <1>a, <1>b, <1>17

\* Where the root ends up, the lambdas have ended up too.
LEMMA BecomesAbreast ==
  ASSUME image \in Images, UNCHANGED <<image, runs>>, Len(vms) = 1,
         NEW i \in 0..(Len(Entered) - 1),
         NEW a, NEW m, m = Lambdas(i + 1), Becomes(a, m, i + 1)
  PROVE  Abreast'
  <1>1. Len(vms') = 1 /\ vms'[1] = a
    <2>1. CASE vms' = <<a>>
      BY <2>1, Singleton
    <2>2. CASE vms' = [vms EXCEPT ![Len(vms)] = a]
      BY <2>2
    <2>. QED  BY <2>1, <2>2 DEF Becomes
  <1>2. i + 1 \in 0..Len(Entered) /\ Entered' = Entered /\ Lambdas(i + 1)' = m
    BY EnteredCode DEF Entered, Lambdas
  <1>3. Alike(m)'
    BY <1>1 DEF Alike, Becomes
  <1>4. vms'[1].code = Main /\ vms'[1].switches = <<>>
    BY <1>1 DEF Becomes
  <1>5. status' \in {"initializing", "running"} => vms'[1].pc = i + 1 /\ m.going
    BY <1>1 DEF Becomes
  <1>6. status' \in {"halted", "failed"} => ~m.going
    BY DEF Becomes
  <1>7. \E j \in 0..Len(Entered) :
          /\ (Alike(Lambdas(j)))'
          /\ status' \in {"initializing", "running"} => vms'[1].pc = j /\ Lambdas(j)'.going
          /\ status' \in {"halted", "failed"} => j = Len(Entered) \/ ~Lambdas(j)'.going
    <2>1. WITNESS i + 1 \in 0..Len(Entered)
    <2>. QED  BY <1>2, <1>3, <1>5, <1>6 DEF Alike
  <1>. QED  BY <1>1, <1>2, <1>4, <1>7 DEF Abreast

LEMMA StepAbreast == ASSUME IInv, JitInv, First, Step PROVE Abreast'
  <1>1. UNCHANGED <<image, runs>> /\ image \in Images
    BY StepKeeps DEF JitInv
  <1>2. PICK i \in 0..Len(Entered) :
          /\ Alike(Lambdas(i))
          /\ status \in {"initializing", "running"} => vms[1].pc = i /\ Lambdas(i).going
          /\ status \in {"halted", "failed"} => i = Len(Entered) \/ ~Lambdas(i).going
    BY DEF JitInv, Abreast
  <1>3. Len(vms) = 1 /\ vms[1].code = Main /\ vms[1].switches = <<>> /\ Top = vms[1]
    BY DEF JitInv, Abreast, Top
  <1>4. Executing /\ status = "running"
    BY <1>3, StepShape, TopActivation DEF IInv, Executing
  <1>5. IsActivation(Top) /\ Top.kind = "root"
    BY <1>3, TopActivation DEF IInv, Shaped
  <1>6. Code(Top) = Entered /\ Top.pc = i /\ Lambdas(i).going
    BY <1>2, <1>3, <1>4 DEF Code, Entered
  <1>7. Entered \in Seq(Instruction) /\ Len(Entered) \in Nat
    BY <1>1, EnteredCode
  <1>8. CASE HasCode
    <2>1. i \in 0..(Len(Entered) - 1) /\ i + 1 \in 1..Len(Entered) /\ Ins = Entered[i + 1]
      BY <1>6, <1>7, <1>8 DEF HasCode, Ins
    <2>2. Ins.op \in Linear
      BY <1>7, <2>1 DEF First, Compilable
    <2>3. Lambdas(i + 1) = Lambda(Lambdas(i), Ins, image.pool)
      <3>1. Lambdas(i + 1) = Do(After(Entered, image.pool)[i + 1 - 1], Ins, image.pool)
        BY <1>7, <2>1, OneByOne DEF Lambdas
      <3>2. i + 1 - 1 = i
        BY <1>7
      <3>. QED  BY <1>6, <3>1, <3>2 DEF Do, Lambdas
    <2>4. PICK m : m = Lambdas(i)
      OBVIOUS
    <2>5. \E a : Becomes(a, Lambda(m, Ins, image.pool), Top.pc + 1)
      BY <1>2, <1>3, <1>4, <1>5, <1>6, <1>8, <2>2, <2>4, InstructionBecomes
    <2>6. PICK a, n : n = Lambdas(i + 1) /\ Becomes(a, n, i + 1)
      BY <1>6, <2>3, <2>4, <2>5
    <2>. QED  BY <1>1, <1>3, <2>1, <2>6, BecomesAbreast
  <1>9. CASE ~HasCode
    <2>1. EndOfCode
      BY <1>9 DEF Step, EndOfCode, At, OpDungChuongTrinh, OpTraVe, OpGoi, OpGoiGianTiep,
         OpConstant, OpBinary, OpPhuDinh, OpKhong, OpKhoiTao, OpTenBienGiaTri, OpGan, OpParam,
         OpCongMot, OpChon, OpCa, OpMacDinh, OpThoat, OpMoKhoi, OpDongKhoi, OpThu, OpThuKetThuc,
         OpBatLoi, OpNem, OpJump, OpJumpIfFalse, OpBoQua, OpIn, OpMarker, OpUnknown
    <2>2. vms' = [vms EXCEPT ![Len(vms)] = Top] /\ status' = "halted" /\ UNCHANGED <<out, fault>>
      BY <1>5, <2>1 DEF EndOfCode, Finish, EndRun, EndInitializer, EndCall
    <2>3. i = Len(Entered)
      BY <1>2, <1>4, <1>6, <1>7, <1>9 DEF HasCode
    <2>4. Len(vms') = 1 /\ vms'[1] = vms[1]
      BY <1>3, <2>2
    <2>5. Entered' = Entered /\ Lambdas(i)' = Lambdas(i)
      BY <1>1 DEF Entered, Lambdas
    <2>6. (Alike(Lambdas(i)))'
      BY <1>2, <2>2, <2>4, <2>5 DEF Alike
    <2>. QED  BY <1>2, <1>3, <2>2, <2>3, <2>4, <2>5, <2>6 DEF Abreast
  <1>. QED  BY <1>8, <1>9

LEMMA NextJit == ASSUME IInv, TypeOK, JitInv, [Next]_vars PROVE JitInv'
  <1>1. CASE UNCHANGED vars
    BY <1>1 DEF vars, JitInv, Abreast, First, Alike, Lambdas, Entered
  <1>2. CASE Step
    <2>1. UNCHANGED <<image, runs>>
      BY <1>2, StepKeeps
    <2>2. First' = First
      BY <2>1 DEF First, Entered
    <2>. QED  BY <1>2, <2>1, <2>2, StepAbreast DEF JitInv, Abreast
  <1>3. CASE Rerun
    <2>1. runs' # 1 /\ image' = image
      BY <1>3 DEF Rerun, TypeOK
    <2>. QED  BY <2>1 DEF JitInv, Abreast, First
  <1>4. CASE Lifecycle
    <2>1. UNCHANGED <<image, runs>>
      BY <1>4 DEF Lifecycle, SkipInitialized, RefuseFailed, BeginModule, ModulesReady, Throw
    <2>2. CASE ~First
      BY <2>1, <2>2 DEF JitInv, Abreast, First, Entered
    <2>3. CASE First
      <3>1. ~InitLoop
        BY <2>3 DEF InitLoop, TypeOK, First
      <3>2. ModulesReady
        BY <1>4, <3>1 DEF Lifecycle, SkipInitialized, RefuseFailed, BeginModule
      <3>. QED  BY <3>2, <2>3 DEF ModulesReady, JitInv, Abreast, First, Alike, Lambdas, Entered
    <2>. QED  BY <2>2, <2>3
  <1>. QED  BY <1>1, <1>2, <1>3, <1>4 DEF Next

\* Where runJitCompiledLinear takes a program, whatever its length and its operands, a first
\* run of the interpreter ends with the same output, the same stack and the same error.
THEOREM PathsAgree == Spec => []JitAgrees
  <1>1. ASSUME IInv, TypeOK, JitInv PROVE JitAgrees
    <2>1. SUFFICES ASSUME status \in {"halted", "failed"}, runs = 1, image.inits = 0,
                          Compilable(Entered)
                   PROVE  LET jit == RunJit(Entered, image.pool)
                          IN  jit.stack = vms[1].stack /\ jit.out = out /\ jit.fault = fault
      BY DEF JitAgrees, Entered
    <2>2. PICK i \in 0..Len(Entered) :
            Alike(Lambdas(i)) /\ (i = Len(Entered) \/ ~Lambdas(i).going)
      BY <1>1, <2>1 DEF JitInv, Abreast, First
    <2>3. RunJit(Entered, image.pool) = Lambdas(i)
      <3>1. CASE i = Len(Entered)
        BY <3>1 DEF RunJit, Lambdas
      <3>2. CASE ~Lambdas(i).going
        BY <1>1, <3>2, EnteredCode, StaysOver DEF JitInv, Lambdas
      <3>. QED  BY <2>2, <3>1, <3>2
    <2>. QED  BY <2>2, <2>3 DEF Alike
  <1>. QED  BY <1>1, InitIInv, NextIInv, Typing, InitJit, NextJit, PTL DEF Spec

-----------------------------------------------------------------------------
(***************************************************************************)
(* Code that follows VmDiscipline is safe to run, however long it is and   *)
(* however deep its calls go: by induction over the steps, each activation *)
(* agrees with the outline of the instruction it is at, and each that      *)
(* waits for a call with one that leads behind the call.                   *)
(***************************************************************************)

(* When an activation agrees with an outline.  Of a switch only its depth  *)
(* matters.                                                                *)

HasDepth(w) == "depth" \in DOMAIN w

\* the blocks and switches open agree with an outline of them
Opens(blocks, switches, atLeast, offs) ==
  /\ IsSequence(switches) /\ blocks \in Nat /\ atLeast <= blocks
  /\ Len(switches) = Len(offs)
  /\ \A i \in 1..Len(offs) : /\ HasDepth(switches[i]) /\ switches[i].depth \in Int
                             /\ blocks - switches[i].depth = offs[i]

\* the open thử agree with an outline of them, on a stack of some size: each found
\* the values below it there and those are there still
Floor(tries, h) == IF h = 0 THEN 0 ELSE tries[h].depth
Guards(tries, size, outline, height, n) ==
  /\ IsSequence(tries) /\ Len(tries) = Len(outline)
  /\ \A h \in 1..Len(outline) : /\ tries[h].depth \in Nat
                                /\ tries[h].catch = outline[h].catch
                                /\ outline[h].catch \in 0..(n - 1)
  /\ \A g, h \in 0..Len(outline) :
       g < h => Floor(tries, g) + outline[h].height <= Floor(tries, h)
  /\ \A g \in 0..Len(outline) : Floor(tries, g) + height <= size

\* the operand on top is a slot where the outline says so
Slotted(stack, slot) == slot => Len(stack) >= 1 /\ IsInt(stack[Len(stack)])

OTries == Seq([catch : Int, height : Nat])

-----------------------------------------------------------------------------
(* How thử, switches and blocks open and close. *)

\* values pushed or popped, none below what the innermost thử found
LEMMA GuardsShift ==
  ASSUME NEW t, NEW c, NEW ot \in OTries, NEW size \in Int, NEW size2 \in Int,
         NEW height \in Int, NEW height2 \in Int,
         height2 - height <= size2 - size, Guards(t, size, ot, height, c)
  PROVE  Guards(t, size2, ot, height2, c)
  <1>1. \A g \in 0..Len(ot) : Floor(t, g) \in Nat
    BY DEF Guards, Floor, OTries
  <1>. QED  BY <1>1 DEF Guards

LEMMA GuardsNone ==
  ASSUME NEW size \in Nat, NEW c PROVE Guards(<<>>, size, <<>>, 0, c)
  BY NoFrames DEF Guards, Floor

\* one thử more: it finds the stack as it is
LEMMA GuardsMore ==
  ASSUME NEW t, NEW c \in Nat, NEW ot \in OTries, NEW size \in Nat, NEW height \in Nat,
         Guards(t, size, ot, height, c), NEW catch \in 0..(c - 1)
  PROVE  Guards(Append(t, [catch |-> catch, depth |-> size]), size,
                Append(ot, [catch |-> catch, height |-> height]), 0, c)
  <1>1. PICK x : x = [catch |-> catch, depth |-> size]
    OBVIOUS
  <1>2. PICK p : p = [catch |-> catch, height |-> height]
    OBVIOUS
  <1>3. x.catch = catch /\ x.depth = size /\ p.catch = catch /\ p.height = height
    BY <1>1, <1>2
  <1>4. PICK u : u = Append(t, x)
    OBVIOUS
  <1>5. PICK q : q = Append(ot, p)
    OBVIOUS
  <1>6. PICK n \in Nat : n = Len(ot)
    BY DEF OTries
  <1>7. /\ IsSequence(u) /\ Len(u) = n + 1 /\ u[n + 1] = x
        /\ \A i \in 1..n : u[i] = t[i]
    BY <1>4, <1>6, AppendSequence DEF Guards
  <1>8. Len(q) = n + 1 /\ q[n + 1] = p /\ \A i \in 1..n : q[i] = ot[i]
    BY <1>5, <1>6 DEF OTries
  <1>9. /\ \A h \in 1..n : /\ t[h].depth \in Nat /\ t[h].catch = ot[h].catch
                           /\ ot[h].catch \in 0..(c - 1)
        /\ \A g, h \in 0..n : g < h => Floor(t, g) + ot[h].height <= Floor(t, h)
        /\ \A g \in 0..n : Floor(t, g) + height <= size
    BY <1>6 DEF Guards
  <1>10. \A g \in 0..n : Floor(u, g) = Floor(t, g) /\ Floor(t, g) \in Nat
    BY <1>6, <1>7, <1>9 DEF Floor
  <1>11. Floor(u, n + 1) = size
    BY <1>3, <1>6, <1>7 DEF Floor
  <1>12. \A h \in 1..(n + 1) : /\ u[h].depth \in Nat /\ u[h].catch = q[h].catch
                               /\ q[h].catch \in 0..(c - 1)
    BY <1>3, <1>6, <1>7, <1>8, <1>9
  <1>13. ASSUME NEW g \in 0..(n + 1), NEW h \in 0..(n + 1), g < h
         PROVE  Floor(u, g) + q[h].height <= Floor(u, h)
    <2>1. CASE h = n + 1
      BY <1>3, <1>6, <1>8, <1>9, <1>10, <1>11, <1>13, <2>1
    <2>2. CASE h # n + 1
      <3>1. g \in 0..n /\ h \in 1..n
        BY <1>6, <1>13, <2>2
      <3>2. Floor(t, g) + ot[h].height <= Floor(t, h)
        BY <3>1, <1>9, <1>13
      <3>3. q[h] = ot[h] /\ Floor(u, g) = Floor(t, g) /\ Floor(u, h) = Floor(t, h)
        BY <3>1, <1>8, <1>10
      <3>. QED  BY <3>2, <3>3
    <2>. QED  BY <2>1, <2>2
  <1>14. \A g \in 0..(n + 1) : Floor(u, g) + 0 <= size
    BY <1>6, <1>9, <1>10, <1>11
  <1>15. Guards(u, size, q, 0, c)
    BY <1>7, <1>8, <1>12, <1>13, <1>14 DEF Guards
  <1>. QED  BY <1>15, <1>1, <1>2, <1>4, <1>5

\* one thử less: at the height the stack has, or at the height it found
LEMMA GuardsLess ==
  ASSUME NEW t, NEW c, NEW ot \in OTries, ot # <<>>, NEW size \in Nat, NEW height \in Nat,
         Guards(t, size, ot, height, c)
  PROVE  /\ Last(t).depth \in 0..size /\ Last(t).depth + height <= size
         /\ Last(t).catch = Last(ot).catch /\ Last(ot).height \in Nat /\ t # <<>>
         /\ Last(ot).catch \in 0..(c - 1)
         /\ Guards(Front(t), size, Front(ot), height + Last(ot).height, c)
         /\ Guards(Front(t), Last(t).depth + 1, Front(ot), Last(ot).height + 1, c)
  <1>1. PICK n \in Nat : n = Len(ot) /\ n > 0
    BY DEF OTries
  <1>2. PICK u : u = Front(t)
    OBVIOUS
  <1>3. PICK q : q = Front(ot)
    OBVIOUS
  <1>4. /\ IsSequence(u) /\ Len(u) = n - 1 /\ \A i \in 1..(n - 1) : u[i] = t[i]
    BY <1>1, <1>2, FrontSequence DEF Guards
  <1>5. Len(q) = n - 1 /\ \A i \in 1..(n - 1) : q[i] = ot[i]
    BY <1>1, <1>3, FrontSequence DEF OTries, IsSequence
  <1>6. /\ \A h \in 1..n : /\ t[h].depth \in Nat /\ t[h].catch = ot[h].catch
                           /\ ot[h].catch \in 0..(c - 1)
        /\ \A g, h \in 0..n : g < h => Floor(t, g) + ot[h].height <= Floor(t, h)
        /\ \A g \in 0..n : Floor(t, g) + height <= size
    BY <1>1 DEF Guards
  <1>7. Last(t) = t[n] /\ Last(ot) = ot[n] /\ Len(t) = n
    BY <1>1 DEF Last, Guards
  <1>8. ot[n].height \in Nat
    <2>1. n \in 1..Len(ot)
      BY <1>1
    <2>2. ot[n] \in [catch : Int, height : Nat]
      <3>1. PICK R : R = [catch : Int, height : Nat]
        OBVIOUS
      <3>2. ot \in Seq(R)
        BY <3>1 DEF OTries
      <3>3. ot[n] \in R
        BY <2>1, <3>2
      <3>. QED  BY <3>1, <3>3
    <2>. QED  BY <2>2
  <1>9. Floor(t, n) = t[n].depth /\ t[n].depth \in Nat
    BY <1>1, <1>6 DEF Floor
  <1>10. \A g \in 0..(n - 1) : Floor(u, g) = Floor(t, g) /\ Floor(t, g) \in Nat
    BY <1>1, <1>4, <1>6 DEF Floor
  <1>11. \A g \in 0..(n - 1) : Floor(t, g) + ot[n].height <= t[n].depth
    BY <1>1, <1>6, <1>9
  <1>12. t[n].depth + height <= size
    BY <1>1, <1>6, <1>9
  <1>13. \A h \in 1..(n - 1) : /\ u[h].depth \in Nat /\ u[h].catch = q[h].catch
                               /\ q[h].catch \in 0..(c - 1)
    BY <1>1, <1>4, <1>5, <1>6
  <1>14. \A g, h \in 0..(n - 1) : g < h => Floor(u, g) + q[h].height <= Floor(u, h)
    <2>. SUFFICES ASSUME NEW g \in 0..(n - 1), NEW h \in 0..(n - 1), g < h
                 PROVE  Floor(u, g) + q[h].height <= Floor(u, h)
      OBVIOUS
    <2>1. g \in 0..n /\ h \in 0..n /\ h \in 1..(n - 1)
      BY <1>1
    <2>2. Floor(t, g) + ot[h].height <= Floor(t, h)
      BY <2>1, <1>6
    <2>3. q[h] = ot[h] /\ Floor(u, g) = Floor(t, g) /\ Floor(u, h) = Floor(t, h)
      BY <2>1, <1>5, <1>10
    <2>. QED  BY <2>2, <2>3
  <1>15. Guards(u, size, q, height + ot[n].height, c)
    <2>1. ASSUME NEW g \in 0..(n - 1) PROVE Floor(u, g) + (height + ot[n].height) <= size
      <3>1. Floor(u, g) = Floor(t, g) /\ Floor(t, g) \in Nat
        BY <1>10
      <3>2. Floor(t, g) + ot[n].height <= t[n].depth
        BY <1>11
      <3>3. \A a, b, d, s \in Nat : a + b <= d /\ d + height <= s => a + (height + b) <= s
        OBVIOUS
      <3>4. Floor(t, g) + (height + ot[n].height) <= size
        BY <3>1, <3>2, <3>3, <1>8, <1>9, <1>12, Zenon
      <3>. QED  BY <3>1, <3>4
    <2>. QED  BY <1>1, <1>4, <1>5, <1>13, <1>14, <2>1 DEF Guards
  <1>16. Guards(u, t[n].depth + 1, q, ot[n].height + 1, c)
    <2>1. ASSUME NEW g \in 0..(n - 1)
          PROVE  Floor(u, g) + (ot[n].height + 1) <= t[n].depth + 1
      <3>1. Floor(u, g) = Floor(t, g) /\ Floor(t, g) \in Nat
        BY <1>10
      <3>2. Floor(t, g) + ot[n].height <= t[n].depth
        BY <1>11
      <3>. QED  BY <3>1, <3>2, <1>8, <1>9
    <2>. QED  BY <1>1, <1>4, <1>5, <1>13, <1>14, <2>1 DEF Guards
  <1>17. t # <<>>
    BY <1>1, <1>7, SequenceBasics DEF Guards
  <1>18. t[n].depth \in 0..size /\ t[n].catch = ot[n].catch /\ ot[n].catch \in 0..(c - 1)
    BY <1>1, <1>6, <1>9, <1>12
  <1>. QED  BY <1>2, <1>3, <1>7, <1>8, <1>12, <1>15, <1>16, <1>17, <1>18

LEMMA GuardsRestorable ==
  ASSUME NEW t, NEW c, NEW ot \in OTries, NEW size \in Nat, NEW height \in Nat,
         Guards(t, size, ot, height, c)
  PROVE  /\ \A h \in DOMAIN t : t[h].depth <= size /\ t[h].catch \in 0..(c - 1)
         /\ height <= size
         /\ ot = <<>> <=> t = <<>>
  <1>1. PICK n \in Nat : n = Len(ot) /\ (ot = <<>> <=> n = 0)
    BY DEF OTries
  <1>2. DOMAIN t = 1..n /\ (t = <<>> <=> n = 0)
    BY <1>1, SequenceBasics DEF Guards
  <1>3. \A h \in 1..n : Floor(t, h) = t[h].depth /\ t[h].depth \in Nat
    BY <1>1 DEF Guards, Floor
  <1>4. \A h \in 0..n : Floor(t, h) + height <= size
    BY <1>1 DEF Guards
  <1>5. \A h \in 1..n : t[h].catch \in 0..(c - 1)
    BY <1>1 DEF Guards
  <1>6. Floor(t, 0) = 0
    BY DEF Floor
  <1>. QED  BY <1>1, <1>2, <1>3, <1>4, <1>5, <1>6

LEMMA ShiftedOffs ==
  ASSUME NEW f \in Seq(Int), NEW d \in Int
  PROVE  /\ Shifted(f, d) \in Seq(Int) /\ Len(Shifted(f, d)) = Len(f)
         /\ \A i \in 1..Len(f) : Shifted(f, d)[i] = f[i] + d /\ f[i] \in Int
  <1>1. PICK n \in Nat : n = Len(f)
    OBVIOUS
  <1>2. DOMAIN f = 1..n /\ \A i \in 1..n : f[i] \in Int
    BY <1>1
  <1>3. PICK g : g = [i \in 1..n |-> f[i] + d]
    OBVIOUS
  <1>4. \A i \in 1..n : g[i] = f[i] + d /\ f[i] + d \in Int
    BY <1>2, <1>3
  <1>5. g \in [1..n -> Int]
    BY <1>3, <1>4
  <1>6. g \in Seq(Int) /\ Len(g) = n
    BY <1>5
  <1>7. Shifted(f, d) = g
    BY <1>2, <1>3 DEF Shifted
  <1>. QED  BY <1>1, <1>2, <1>4, <1>6, <1>7

LEMMA OpensSome ==
  ASSUME NEW b, NEW w, NEW l, NEW f \in Seq(Int), Opens(b, w, l, f)
  PROVE  w = <<>> <=> f = <<>>
  <1>1. PICK n \in Nat : n = Len(f) /\ (f = <<>> <=> n = 0)
    OBVIOUS
  <1>. QED  BY <1>1, SequenceBasics DEF Opens

LEMMA OpensOpened ==
  ASSUME NEW b, NEW w, NEW l \in Nat, NEW f \in Seq(Int), Opens(b, w, l, f)
  PROVE  Opens(b + 1, w, l + 1, Shifted(f, 1))
  <1>1. PICK g : g = Shifted(f, 1)
    OBVIOUS
  <1>2. Len(f) \in Nat /\ Len(g) = Len(f) /\ \A i \in 1..Len(f) : g[i] = f[i] + 1 /\ f[i] \in Int
    BY <1>1, ShiftedOffs
  <1>3. b + 1 \in Nat /\ l + 1 <= b + 1
    BY DEF Opens
  <1>4. ASSUME NEW i \in 1..Len(f)
        PROVE  HasDepth(w[i]) /\ w[i].depth \in Int /\ b + 1 - w[i].depth = g[i]
    <2>1. HasDepth(w[i]) /\ w[i].depth \in Int /\ b - w[i].depth = f[i] /\ b \in Nat
      BY DEF Opens
    <2>. QED  BY <2>1, <1>2
  <1>5. Opens(b + 1, w, l + 1, g)
    BY <1>2, <1>3, <1>4 DEF Opens
  <1>. QED  BY <1>1, <1>5

LEMMA OpensChosen ==
  ASSUME NEW b, NEW w, NEW l, NEW f \in Seq(Int), Opens(b, w, l, f), NEW v,
         NEW x, x = [value |-> v, skipping |-> TRUE, matched |-> FALSE, depth |-> b]
  PROVE  Opens(b, Append(w, x), l, Append(f, 0))
  <1>1. PICK g : g = Append(f, 0)
    OBVIOUS
  <1>2. PICK u : u = Append(w, x)
    OBVIOUS
  <1>3. PICK n \in Nat : n = Len(f)
    OBVIOUS
  <1>4. Len(g) = n + 1 /\ g[n + 1] = 0 /\ \A i \in 1..n : g[i] = f[i]
    BY <1>1, <1>3
  <1>5. IsSequence(u) /\ Len(u) = n + 1 /\ u[n + 1] = x /\ \A i \in 1..n : u[i] = w[i]
    BY <1>2, <1>3, AppendSequence DEF Opens
  <1>6. HasDepth(x) /\ x.depth = b /\ b \in Nat
    BY DEF HasDepth, Opens
  <1>7. ASSUME NEW i \in 1..(n + 1)
        PROVE  HasDepth(u[i]) /\ u[i].depth \in Int /\ b - u[i].depth = g[i]
    <2>1. CASE i = n + 1
      BY <2>1, <1>4, <1>5, <1>6
    <2>2. CASE i # n + 1
      <3>1. i \in 1..n
        BY <2>2, <1>3
      <3>2. HasDepth(w[i]) /\ w[i].depth \in Int /\ b - w[i].depth = f[i]
        BY <3>1, <1>3 DEF Opens
      <3>. QED  BY <3>1, <3>2, <1>4, <1>5
    <2>. QED  BY <2>1, <2>2
  <1>8. Opens(b, u, l, g)
    BY <1>4, <1>5, <1>6, <1>7 DEF Opens
  <1>. QED  BY <1>1, <1>2, <1>8

\* one block less: the innermost switch ends in the outline when it ends in the machine
Shut(b, w, l, g) ==
  /\ b \in Nat /\ b >= 1
  /\ (g # <<>> /\ Last(g) = -1) <=> (w # <<>> /\ b - 1 = Last(w).depth - 1)
  /\ Opens(b - 1, w, l - 1, g)
  /\ g # <<>> => Opens(b - 1, Front(w), l - 1, Front(g))

LEMMA OpensClosed ==
  ASSUME NEW b, NEW w, NEW l \in Nat, l >= 1, NEW f \in Seq(Int), Opens(b, w, l, f),
         NEW g, g = Shifted(f, -1)
  PROVE  Shut(b, w, l, g)
  <1>1. PICK n \in Nat : n = Len(f)
    OBVIOUS
  <1>2. IsSequence(g) /\ Len(g) = n /\ \A i \in 1..n : g[i] = f[i] - 1 /\ f[i] \in Int
    <2>1. g \in Seq(Int) /\ Len(g) = Len(f)
      BY ShiftedOffs
    <2>2. \A i \in 1..Len(f) : g[i] = f[i] - 1 /\ f[i] \in Int
      <3>1. \A i \in 1..Len(f) : g[i] = f[i] + (-1) /\ f[i] \in Int
        BY ShiftedOffs
      <3>. QED  BY <3>1
    <2>3. IsSequence(g)
      BY <2>1 DEF IsSequence
    <2>. QED  BY <2>1, <2>2, <2>3, <1>1
  <1>3. b \in Nat /\ b >= 1 /\ b - 1 \in Nat /\ l - 1 <= b - 1 /\ Len(w) = n /\ IsSequence(w)
    BY <1>1 DEF Opens
  <1>4. ASSUME NEW i \in 1..n
        PROVE  HasDepth(w[i]) /\ w[i].depth \in Int /\ b - 1 - w[i].depth = g[i]
    <2>1. HasDepth(w[i]) /\ w[i].depth \in Int /\ b - w[i].depth = f[i]
      BY <1>1 DEF Opens
    <2>. QED  BY <2>1, <1>2, <1>3
  <1>5. Opens(b - 1, w, l - 1, g)
    BY <1>2, <1>3, <1>4 DEF Opens
  <1>6. (g # <<>> <=> n > 0) /\ (w # <<>> <=> n > 0)
    BY <1>2, <1>3, SequenceBasics
  <1>7. n > 0 => (Last(g) = -1 <=> b - 1 = Last(w).depth - 1)
    <2>1. SUFFICES ASSUME n > 0 PROVE Last(g) = -1 <=> b - 1 = Last(w).depth - 1
      OBVIOUS
    <2>2. n \in 1..n
      BY <2>1
    <2>3. Last(g) = g[n] /\ Last(w) = w[n]
      BY <1>2, <1>3 DEF Last
    <2>4. PICK d \in Int : d = w[n].depth
      BY <2>2, <1>4
    <2>5. b - 1 - d = g[n]
      BY <2>2, <2>4, <1>4
    <2>6. g[n] = -1 <=> b - 1 = d - 1
      BY <2>5, <1>3
    <2>. QED  BY <2>3, <2>4, <2>6
  <1>8. ASSUME n > 0 PROVE Opens(b - 1, Front(w), l - 1, Front(g))
    <2>1. /\ IsSequence(Front(w)) /\ Len(Front(w)) = n - 1
          /\ \A i \in 1..(n - 1) : Front(w)[i] = w[i]
      BY <1>3, <1>8, FrontSequence
    <2>2. Len(Front(g)) = n - 1 /\ \A i \in 1..(n - 1) : Front(g)[i] = g[i]
      BY <1>2, <1>8, FrontSequence
    <2>3. PICK u, h : u = Front(w) /\ h = Front(g)
      OBVIOUS
    <2>4. ASSUME NEW i \in 1..(n - 1)
          PROVE  HasDepth(u[i]) /\ u[i].depth \in Int /\ b - 1 - u[i].depth = h[i]
      <3>1. i \in 1..n
        OBVIOUS
      <3>2. u[i] = w[i]
        BY <2>1, <2>3, Zenon
      <3>3. h[i] = g[i]
        BY <2>2, <2>3, Zenon
      <3>. QED  BY <3>1, <3>2, <3>3, <1>4
    <2>5. Opens(b - 1, u, l - 1, h)
      BY <1>3, <2>1, <2>2, <2>3, <2>4 DEF Opens
    <2>. QED  BY <2>3, <2>5
  <1>. QED  BY <1>3, <1>5, <1>6, <1>7, <1>8 DEF Shut

LEMMA OpensArm ==
  ASSUME NEW b, NEW w, w # <<>>, NEW l, NEW f \in Seq(Int), Opens(b, w, l, f),
         NEW z, HasDepth(z), z.depth = w[Len(w)].depth
  PROVE  Opens(b, [w EXCEPT ![Len(w)] = z], l, f)
  <1>1. PICK n \in Nat : n = Len(f) /\ Len(w) = n
    BY DEF Opens
  <1>2. IsSequence(w) /\ n > 0 /\ n \in 1..n
    BY <1>1, SequenceBasics DEF Opens
  <1>4. w[n].depth \in Int /\ b - w[n].depth = f[n]
    BY <1>1, <1>2 DEF Opens
  <1>6. PICK u : u = [w EXCEPT ![n] = z]
    OBVIOUS
  <1>7. IsSequence(u) /\ Len(u) = n /\ \A i \in 1..n : u[i] = IF i = n THEN z ELSE w[i]
    <2>1. PICK S : w \in Seq(S)
      BY <1>2 DEF IsSequence
    <2>2. u \in Seq(S \cup {z})
      <3>1. PICK T : T = S \cup {z}
        OBVIOUS
      <3>2. w \in Seq(T) /\ z \in T
        BY <2>1, <3>1
      <3>3. u \in Seq(T)
        BY <3>2, <1>1, <1>2, <1>6
      <3>. QED  BY <3>1, <3>3
    <2>. QED  BY <2>1, <2>2, <1>1, <1>2, <1>6 DEF IsSequence
  <1>8. ASSUME NEW i \in 1..n
        PROVE  HasDepth(u[i]) /\ u[i].depth \in Int /\ b - u[i].depth = f[i]
    <2>1. HasDepth(w[i]) /\ w[i].depth \in Int /\ b - w[i].depth = f[i]
      BY <1>1 DEF Opens
    <2>. QED  BY <2>1, <1>1, <1>4, <1>7
  <1>9. Opens(b, u, l, f)
    BY <1>1, <1>7, <1>8 DEF Opens
  <1>. QED  BY <1>1, <1>6, <1>9

\* how an activation stands: what an outline of it speaks of
Fits(a, o) ==
  /\ IsSequence(a.stack)
  /\ Opens(a.blocks, a.switches, o.blocks, o.offs)
  /\ Guards(a.tries, Len(a.stack), o.tries, o.height, Len(Code(a)))
  /\ Slotted(a.stack, o.slot)

\* b is a, but for its variables and its frames
Keeps(a, b) ==
  /\ IsActivation(b) /\ b.kind = a.kind /\ b.code = a.code /\ b.pc = a.pc
  /\ b.stack = a.stack /\ b.blocks = a.blocks /\ b.switches = a.switches /\ b.tries = a.tries

\* b is of the same vector as a, and of the same kind
Twin(a, b) == IsActivation(b) /\ b.kind = a.kind /\ b.code = a.code

LEMMA TwinVars ==
  ASSUME NEW a, IsActivation(a), NEW v PROVE Keeps(a, [a EXCEPT !.vars = v])
  BY DEF Keeps, IsActivation

LEMMA TwinStack ==
  ASSUME NEW a, IsActivation(a), NEW v, NEW b, b = [a EXCEPT !.stack = v]
  PROVE  /\ Twin(a, b) /\ b.pc = a.pc /\ b.stack = v
         /\ b.blocks = a.blocks /\ b.switches = a.switches /\ b.tries = a.tries
  BY DEF Twin, IsActivation

LEMMA TwinBlocks ==
  ASSUME NEW a, IsActivation(a), NEW v, NEW b, b = [a EXCEPT !.blocks = v]
  PROVE  /\ Twin(a, b) /\ b.pc = a.pc /\ b.stack = a.stack
         /\ b.blocks = v /\ b.switches = a.switches /\ b.tries = a.tries
  BY DEF Twin, IsActivation

LEMMA TwinSwitches ==
  ASSUME NEW a, IsActivation(a), NEW v, NEW b, b = [a EXCEPT !.switches = v]
  PROVE  /\ Twin(a, b) /\ b.pc = a.pc /\ b.stack = a.stack
         /\ b.blocks = a.blocks /\ b.switches = v /\ b.tries = a.tries
  BY DEF Twin, IsActivation

LEMMA TwinTries ==
  ASSUME NEW a, IsActivation(a), NEW v, NEW b, b = [a EXCEPT !.tries = v]
  PROVE  /\ Twin(a, b) /\ b.pc = a.pc /\ b.stack = a.stack
         /\ b.blocks = a.blocks /\ b.switches = a.switches /\ b.tries = v
  BY DEF Twin, IsActivation

LEMMA TwinPc ==
  ASSUME NEW a, IsActivation(a), NEW v, NEW b, b = [a EXCEPT !.pc = v]
  PROVE  /\ Twin(a, b) /\ b.pc = v /\ b.stack = a.stack
         /\ b.blocks = a.blocks /\ b.switches = a.switches /\ b.tries = a.tries
  BY DEF Twin, IsActivation

LEMMA KeepsFits ==
  ASSUME NEW a, NEW b, NEW o, Keeps(a, b), Fits(a, o) PROVE Fits(b, o)
  BY DEF Keeps, Fits, Code

LEMMA KeepsTwin ==
  ASSUME NEW a, NEW b, Keeps(a, b) PROVE Twin(a, b) /\ IsActivation(b)
  BY DEF Keeps, Twin

LEMMA KeepsSetLocal ==
  ASSUME NEW a, IsActivation(a), InFrame(a), NEW slot, NEW v
  PROVE  Keeps(a, SetLocal(a, slot, v))
  <1>1. IsActivation(SetLocal(a, slot, v))
    BY KinSelf, KinSetLocal DEF Kin
  <1>2. PICK f : SetLocal(a, slot, v) = [a EXCEPT !.frames = f]
    BY DEF SetLocal
  <1>. QED  BY <1>1, <1>2 DEF Keeps, IsActivation

LEMMA KeepsSetGlobal ==
  ASSUME NEW a, IsActivation(a), NEW slot, NEW v
  PROVE  Keeps(a, SetGlobal(a, slot, v))
  BY TwinVars DEF SetGlobal

LEMMA KeepsAssign ==
  ASSUME NEW a, IsActivation(a), NEW slot, NEW v PROVE Keeps(a, Assign(a, slot, v))
  BY KeepsSetLocal, KeepsSetGlobal DEF Assign, IsLocal

LEMMA KeepsBindParam ==
  ASSUME NEW a, IsActivation(a), NEW default PROVE Keeps(a, BindParam(a, default))
  BY KeepsSetLocal, KeepsSetGlobal DEF BindParam
-----------------------------------------------------------------------------
(* Outlines are records; an instruction takes one to another, and an         *)
(* activation that agrees with the first to one that agrees with the second. *)

LEMMA OutlineFields ==
  ASSUME NEW o \in Outlines
  PROVE  /\ o.height \in Nat /\ o.slot \in BOOLEAN /\ o.blocks \in Nat
         /\ o.offs \in Seq(Int) /\ o.tries \in OTries
  BY DEF Outlines, OTries

LEMMA OutlineRecord ==
  ASSUME NEW o \in Outlines
  PROVE  o = [height |-> o.height, slot |-> o.slot, blocks |-> o.blocks, offs |-> o.offs,
              tries |-> o.tries]
  BY DEF Outlines

LEMMA OutlineOf ==
  ASSUME NEW height \in Nat, NEW slot \in BOOLEAN, NEW blocks \in Nat, NEW offs \in Seq(Int),
         NEW tries \in OTries, NEW p,
         p = [height |-> height, slot |-> slot, blocks |-> blocks, offs |-> offs, tries |-> tries]
  PROVE  /\ p \in Outlines /\ p.height = height /\ p.slot = slot
         /\ p.blocks = blocks /\ p.offs = offs /\ p.tries = tries
  BY DEF Outlines, OTries

LEMMA BareOutline == Bare \in Outlines
  <1>1. PICK R : R = [catch : Int, height : Nat]
    OBVIOUS
  <1>2. <<>> \in Seq(R) /\ <<>> \in Seq(Int)
    OBVIOUS
  <1>. QED  BY <1>1, <1>2 DEF Bare, Outlines

LEMMA UsedOutline ==
  ASSUME NEW o \in Outlines, NEW n \in 0..o.height, NEW p, p = Used(o, n)
  PROVE  /\ p \in Outlines /\ p.height = o.height - n /\ p.slot = FALSE
         /\ p.blocks = o.blocks /\ p.offs = o.offs /\ p.tries = o.tries
  <1>1. o.height \in Nat /\ o.height - n \in Nat
    BY OutlineFields
  <1>2. PICK T, S : T = Seq([catch : Int, height : Nat]) /\ S = Seq(Int)
    OBVIOUS
  <1>3. o \in [height : Nat, slot : BOOLEAN, blocks : Nat, offs : S, tries : T]
    BY <1>2 DEF Outlines
  <1>4. p \in [height : Nat, slot : BOOLEAN, blocks : Nat, offs : S, tries : T]
    BY <1>1, <1>3 DEF Used
  <1>5. p \in Outlines
    BY <1>2, <1>4 DEF Outlines
  <1>. QED  BY <1>3, <1>5 DEF Used

LEMMA GivenOutline ==
  ASSUME NEW o \in Outlines, NEW slot \in BOOLEAN, NEW p, p = Given(o, slot)
  PROVE  /\ p \in Outlines /\ p.height = o.height + 1 /\ p.slot = slot
         /\ p.blocks = o.blocks /\ p.offs = o.offs /\ p.tries = o.tries
  <1>1. o.height \in Nat /\ o.height + 1 \in Nat
    BY OutlineFields
  <1>2. PICK T, S : T = Seq([catch : Int, height : Nat]) /\ S = Seq(Int)
    OBVIOUS
  <1>3. o \in [height : Nat, slot : BOOLEAN, blocks : Nat, offs : S, tries : T]
    BY <1>2 DEF Outlines
  <1>4. p \in [height : Nat, slot : BOOLEAN, blocks : Nat, offs : S, tries : T]
    BY <1>1, <1>3 DEF Given
  <1>5. p \in Outlines
    BY <1>2, <1>4 DEF Outlines
  <1>. QED  BY <1>3, <1>5 DEF Given

LEMMA PoppedStack ==
  ASSUME NEW s, IsSequence(s), NEW n \in 0..Len(s)
  PROVE  IsSequence(SubSeq(s, 1, Len(s) - n)) /\ Len(SubSeq(s, 1, Len(s) - n)) = Len(s) - n
  <1>1. PICK S : s \in Seq(S)
    BY DEF IsSequence
  <1>2. Len(s) - n \in 0..Len(s) /\ Len(s) \in Nat
    BY <1>1
  <1>3. SubSeq(s, 1, Len(s) - n) \in Seq(S) /\ Len(SubSeq(s, 1, Len(s) - n)) = Len(s) - n
    BY <1>1, <1>2
  <1>. QED  BY <1>3 DEF IsSequence

LEMMA FitsSize ==
  ASSUME NEW a, NEW o \in Outlines, Fits(a, o)
  PROVE  /\ IsSequence(a.stack) /\ Len(a.stack) \in Nat /\ o.height <= Len(a.stack)
         /\ o.height \in Nat
  <1>1. IsSequence(a.stack) /\ Len(a.stack) \in Nat
    BY SequenceBasics DEF Fits
  <1>. QED  BY <1>1, GuardsRestorable, OutlineFields DEF Fits

LEMMA FitsHolds ==
  ASSUME NEW a, NEW o \in Outlines, Fits(a, o), NEW n \in 0..o.height
  PROVE  Holds(a, n) /\ n <= Len(a.stack)
  BY FitsSize DEF Holds

\* n values popped
LEMMA FitsPop ==
  ASSUME NEW a, IsActivation(a), NEW o \in Outlines, Fits(a, o), NEW n \in 0..o.height,
         NEW b, b = Pop(a, n)
  PROVE  /\ Twin(a, b) /\ b.pc = a.pc
         /\ Fits(b, Used(o, n)) /\ Used(o, n) \in Outlines
  <1>1. PICK p : p = Used(o, n)
    OBVIOUS
  <1>2. /\ p \in Outlines /\ p.height = o.height - n /\ p.slot = FALSE
        /\ p.blocks = o.blocks /\ p.offs = o.offs /\ p.tries = o.tries
    BY <1>1, UsedOutline
  <1>3. PICK st : st = SubSeq(a.stack, 1, Len(a.stack) - n)
    OBVIOUS
  <1>4. /\ IsSequence(a.stack) /\ Len(a.stack) \in Nat /\ o.height <= Len(a.stack)
        /\ o.height \in Nat
    BY FitsSize
  <1>5. IsSequence(st) /\ Len(st) = Len(a.stack) - n
    BY <1>3, <1>4, PoppedStack
  <1>6. /\ Twin(a, b) /\ b.pc = a.pc /\ b.stack = st
        /\ b.blocks = a.blocks /\ b.switches = a.switches /\ b.tries = a.tries
    <2>1. b = [a EXCEPT !.stack = st]
      BY <1>3 DEF Pop
    <2>. QED  BY <2>1, TwinStack
  <1>7. Code(b) = Code(a)
    BY <1>6 DEF Twin, Code
  <1>8. Guards(a.tries, Len(st), o.tries, p.height, Len(Code(a)))
    <2>1. Guards(a.tries, Len(a.stack), o.tries, o.height, Len(Code(a)))
      BY DEF Fits
    <2>2. o.tries \in OTries /\ p.height \in Int /\ p.height - o.height <= Len(st) - Len(a.stack)
      BY <1>2, <1>4, <1>5, OutlineFields
    <2>. QED  BY <2>1, <2>2, <1>4, <1>5, GuardsShift
  <1>9. Slotted(st, p.slot)
    BY <1>2 DEF Slotted
  <1>10. Fits(b, p)
    BY <1>2, <1>5, <1>6, <1>7, <1>8, <1>9 DEF Fits
  <1>. QED  BY <1>1, <1>2, <1>6, <1>10

\* a value pushed
LEMMA FitsPush ==
  ASSUME NEW a, IsActivation(a), NEW o \in Outlines, Fits(a, o),
         NEW slot \in BOOLEAN, NEW v, slot => IsInt(v), NEW b, b = Push(a, v)
  PROVE  /\ Twin(a, b) /\ b.pc = a.pc
         /\ Fits(b, Given(o, slot)) /\ Given(o, slot) \in Outlines
  <1>1. PICK p : p = Given(o, slot)
    OBVIOUS
  <1>2. /\ p \in Outlines /\ p.height = o.height + 1 /\ p.slot = slot
        /\ p.blocks = o.blocks /\ p.offs = o.offs /\ p.tries = o.tries
    BY <1>1, GivenOutline
  <1>3. PICK st : st = Append(a.stack, v)
    OBVIOUS
  <1>4. /\ IsSequence(a.stack) /\ Len(a.stack) \in Nat /\ o.height <= Len(a.stack)
        /\ o.height \in Nat
    BY FitsSize
  <1>5. IsSequence(st) /\ Len(st) = Len(a.stack) + 1 /\ st[Len(a.stack) + 1] = v
    BY <1>3, <1>4, AppendSequence
  <1>6. /\ Twin(a, b) /\ b.pc = a.pc /\ b.stack = st
        /\ b.blocks = a.blocks /\ b.switches = a.switches /\ b.tries = a.tries
    <2>1. b = [a EXCEPT !.stack = st]
      BY <1>3 DEF Push
    <2>. QED  BY <2>1, TwinStack
  <1>7. Code(b) = Code(a)
    BY <1>6 DEF Twin, Code
  <1>8. Guards(a.tries, Len(st), o.tries, p.height, Len(Code(a)))
    <2>1. Guards(a.tries, Len(a.stack), o.tries, o.height, Len(Code(a)))
      BY DEF Fits
    <2>2. o.tries \in OTries /\ p.height \in Int /\ p.height - o.height <= Len(st) - Len(a.stack)
      BY <1>2, <1>4, <1>5, OutlineFields
    <2>. QED  BY <2>1, <2>2, <1>4, <1>5, GuardsShift
  <1>9. Slotted(st, p.slot)
    BY <1>2, <1>4, <1>5 DEF Slotted
  <1>10. Fits(b, p)
    BY <1>2, <1>5, <1>6, <1>7, <1>8, <1>9 DEF Fits
  <1>. QED  BY <1>1, <1>2, <1>6, <1>10

\* less may be known than there is
LEMMA FitsLess ==
  ASSUME NEW a, NEW p \in Outlines, NEW q \in Outlines, Covers(p, q), Fits(a, q)
  PROVE  Fits(a, p)
  <1>1. Opens(a.blocks, a.switches, p.blocks, p.offs)
    <2>1. Opens(a.blocks, a.switches, q.blocks, q.offs) /\ p.blocks <= q.blocks
          /\ p.offs = q.offs /\ p.blocks \in Nat /\ q.blocks \in Nat
      BY OutlineFields DEF Fits, Covers
    <2>. QED  BY <2>1 DEF Opens
  <1>2. Guards(a.tries, Len(a.stack), p.tries, p.height, Len(Code(a)))
    <2>1. Guards(a.tries, Len(a.stack), q.tries, q.height, Len(Code(a)))
      BY DEF Fits
    <2>2. /\ p.tries = q.tries /\ p.height <= q.height
          /\ p.height \in Nat /\ q.height \in Nat /\ p.tries \in OTries
      BY OutlineFields DEF Covers
    <2>3. Len(a.stack) \in Nat
      BY FitsSize
    <2>. QED  BY <2>1, <2>2, <2>3, GuardsShift
  <1>3. Slotted(a.stack, p.slot)
    <2>1. Slotted(a.stack, q.slot) /\ (p.slot => q.slot)
      BY DEF Fits, Covers
    <2>. QED  BY <2>1 DEF Slotted
  <1>4. IsSequence(a.stack)
    BY DEF Fits
  <1>. QED  BY <1>1, <1>2, <1>3, <1>4 DEF Fits

\* what is open can be restored
Restorable(a) ==
  \A h \in DOMAIN a.tries : /\ a.tries[h].depth <= Len(a.stack)
                            /\ a.tries[h].catch \in 0..(Len(Code(a)) - 1)

LEMMA FitsRestorable ==
  ASSUME NEW a, NEW o \in Outlines, Fits(a, o) PROVE Restorable(a)
  <1>1. Guards(a.tries, Len(a.stack), o.tries, o.height, Len(Code(a)))
    BY DEF Fits
  <1>. QED  BY <1>1, FitsSize, OutlineFields, GuardsRestorable DEF Restorable

LEMMA FitsOpened ==
  ASSUME NEW a, IsActivation(a), NEW o \in Outlines, Fits(a, o),
         NEW b, b = [a EXCEPT !.blocks = @ + 1]
  PROVE  Twin(a, b) /\ b.pc = a.pc /\ Fits(b, Opened(o)) /\ Opened(o) \in Outlines
  <1>1. PICK f : f = Shifted(o.offs, 1)
    OBVIOUS
  <1>2. o.offs \in Seq(Int) /\ o.blocks \in Nat /\ f \in Seq(Int)
    <2>1. o.offs \in Seq(Int) /\ o.blocks \in Nat
      BY OutlineFields
    <2>. QED  BY <2>1, <1>1, ShiftedOffs
  <1>3. PICK p : p = Opened(o)
    OBVIOUS
  <1>4. /\ p \in Outlines /\ p.height = o.height /\ p.slot = o.slot
        /\ p.blocks = o.blocks + 1 /\ p.offs = f /\ p.tries = o.tries
    <2>1. o = [height |-> o.height, slot |-> o.slot, blocks |-> o.blocks, offs |-> o.offs,
                tries |-> o.tries]
      BY OutlineRecord
    <2>2. p = [height |-> o.height, slot |-> o.slot, blocks |-> o.blocks + 1, offs |-> f,
               tries |-> o.tries]
      BY <1>1, <1>3, <2>1 DEF Opened
    <2>3. /\ o.height \in Nat /\ o.slot \in BOOLEAN /\ o.blocks + 1 \in Nat /\ f \in Seq(Int)
          /\ o.tries \in OTries
      BY <1>2, OutlineFields
    <2>. QED  BY <2>2, <2>3, OutlineOf
  <1>5. /\ Twin(a, b) /\ b.pc = a.pc /\ b.stack = a.stack
        /\ b.blocks = a.blocks + 1 /\ b.switches = a.switches /\ b.tries = a.tries
    BY TwinBlocks
  <1>6. Opens(b.blocks, b.switches, p.blocks, p.offs)
    <2>1. Opens(a.blocks, a.switches, o.blocks, o.offs)
      BY DEF Fits
    <2>2. Opens(a.blocks + 1, a.switches, o.blocks + 1, f)
      BY <1>1, <1>2, <2>1, OpensOpened
    <2>. QED  BY <2>2, <1>4, <1>5
  <1>7. Code(b) = Code(a)
    BY <1>5 DEF Twin, Code
  <1>8. Fits(b, p)
    BY <1>4, <1>5, <1>6, <1>7 DEF Fits
  <1>. QED  BY <1>3, <1>4, <1>5, <1>8

LEMMA FitsClosed ==
  ASSUME NEW a, IsActivation(a), NEW o \in Outlines, Fits(a, o), o.blocks >= 1,
         NEW b, b = CloseBlock(a)
  PROVE  /\ Twin(a, b) /\ b.pc = a.pc /\ a.blocks # 0
         /\ Fits(b, Closed(o)) /\ Closed(o) \in Outlines
  <1>1. PICK f : f = Shifted(o.offs, -1)
    OBVIOUS
  <1>2. o.offs \in Seq(Int) /\ o.blocks \in Nat /\ f \in Seq(Int)
    <2>1. o.offs \in Seq(Int) /\ o.blocks \in Nat
      BY OutlineFields
    <2>. QED  BY <2>1, <1>1, ShiftedOffs
  <1>3. PICK p : p = Closed(o)
    OBVIOUS
  <1>4. PICK g : g = IF f # <<>> /\ Last(f) = -1 THEN Front(f) ELSE f
    OBVIOUS
  <1>5. g \in Seq(Int)
    <2>1. f # <<>> => Front(f) \in Seq(Int)
      BY <1>2 DEF Front
    <2>. QED  BY <1>2, <1>4, <2>1
  <1>6. /\ p \in Outlines /\ p.height = o.height /\ p.slot = o.slot
        /\ p.blocks = o.blocks - 1 /\ p.offs = g /\ p.tries = o.tries
    <2>1. o = [height |-> o.height, slot |-> o.slot, blocks |-> o.blocks, offs |-> o.offs,
                tries |-> o.tries]
      BY OutlineRecord
    <2>2. p = [height |-> o.height, slot |-> o.slot, blocks |-> o.blocks - 1, offs |-> g,
               tries |-> o.tries]
      BY <1>1, <1>3, <1>4, <2>1 DEF Closed
    <2>3. /\ o.height \in Nat /\ o.slot \in BOOLEAN /\ o.blocks - 1 \in Nat /\ g \in Seq(Int)
          /\ o.tries \in OTries
      BY <1>2, <1>5, OutlineFields
    <2>. QED  BY <2>2, <2>3, OutlineOf
  <1>7. Opens(a.blocks, a.switches, o.blocks, o.offs)
    BY DEF Fits
  <1>8. /\ a.blocks \in Nat /\ a.blocks >= 1
        /\ (f # <<>> /\ Last(f) = -1) <=>
             (a.switches # <<>> /\ a.blocks - 1 = Last(a.switches).depth - 1)
        /\ Opens(a.blocks - 1, a.switches, o.blocks - 1, f)
        /\ f # <<>> => Opens(a.blocks - 1, Front(a.switches), o.blocks - 1, Front(f))
    <2>1. Shut(a.blocks, a.switches, o.blocks, f)
      BY <1>1, <1>2, <1>7, OpensClosed
    <2>. QED  BY <2>1 DEF Shut
  <1>9. PICK c : c = [a EXCEPT !.blocks = @ - 1]
    OBVIOUS
  <1>10. /\ Twin(a, c) /\ c.pc = a.pc /\ c.stack = a.stack
         /\ c.blocks = a.blocks - 1 /\ c.switches = a.switches /\ c.tries = a.tries
    BY <1>9, TwinBlocks
  <1>11. b = IF ClosesSwitch(c) THEN [c EXCEPT !.switches = Front(@)] ELSE c
    BY <1>9 DEF CloseBlock
  <1>12. ClosesSwitch(c) <=> (f # <<>> /\ Last(f) = -1)
    BY <1>8, <1>10 DEF ClosesSwitch
  <1>13. /\ Twin(a, b) /\ b.pc = a.pc /\ b.stack = a.stack
         /\ b.tries = a.tries /\ Opens(b.blocks, b.switches, p.blocks, p.offs)
    <2>1. CASE ClosesSwitch(c)
      <3>1. PICK w : w = Front(a.switches)
        OBVIOUS
      <3>2. b = [c EXCEPT !.switches = w]
        BY <1>10, <1>11, <2>1, <3>1
      <3>3. /\ Twin(c, b) /\ b.pc = c.pc /\ b.stack = c.stack
            /\ b.blocks = c.blocks /\ b.switches = w /\ b.tries = c.tries
        BY <1>10, <3>2, TwinSwitches DEF Twin
      <3>4. Opens(a.blocks - 1, w, o.blocks - 1, g)
        BY <1>4, <1>8, <1>12, <2>1, <3>1
      <3>. QED  BY <1>6, <1>10, <3>3, <3>4 DEF Twin
    <2>2. CASE ~ClosesSwitch(c)
      <3>1. b = c /\ g = f
        BY <1>4, <1>11, <1>12, <2>2
      <3>. QED  BY <1>6, <1>8, <1>10, <3>1
    <2>. QED  BY <2>1, <2>2
  <1>14. Code(b) = Code(a)
    BY <1>13 DEF Twin, Code
  <1>15. Fits(b, p)
    BY <1>6, <1>13, <1>14 DEF Fits
  <1>. QED  BY <1>3, <1>6, <1>8, <1>13, <1>15

LEMMA FitsChosen ==
  ASSUME NEW a, IsActivation(a), NEW o \in Outlines, Fits(a, o), o.height >= 1, NEW v,
         NEW b, b = [Pop(a, 1) EXCEPT
                       !.switches = Append(@, [value |-> v, skipping |-> TRUE,
                                               matched |-> FALSE, depth |-> a.blocks])]
  PROVE  Twin(a, b) /\ b.pc = a.pc /\ Fits(b, Chosen(o)) /\ Chosen(o) \in Outlines
  <1>1. PICK c, q : c = Pop(a, 1) /\ q = Used(o, 1)
    OBVIOUS
  <1>2. 1 \in 0..o.height
    BY OutlineFields
  <1>3. Twin(a, c) /\ c.pc = a.pc /\ Fits(c, q) /\ q \in Outlines
    BY <1>1, <1>2, FitsPop
  <1>4. c.blocks = a.blocks
    BY <1>1, TwinStack DEF Pop
  <1>5. PICK x : x = [value |-> v, skipping |-> TRUE, matched |-> FALSE, depth |-> c.blocks]
    OBVIOUS
  <1>6. PICK w, f : w = Append(c.switches, x) /\ f = Append(q.offs, 0)
    OBVIOUS
  <1>7. b = [c EXCEPT !.switches = w]
    BY <1>1, <1>4, <1>5, <1>6
  <1>8. /\ Twin(c, b) /\ b.pc = c.pc /\ b.stack = c.stack
        /\ b.blocks = c.blocks /\ b.switches = w /\ b.tries = c.tries
    <2>1. IsActivation(c)
      BY <1>3 DEF Twin
    <2>. QED  BY <1>7, <2>1 DEF Twin, IsActivation
  <1>9. PICK p : p = Chosen(o)
    OBVIOUS
  <1>10. q.offs \in Seq(Int) /\ f \in Seq(Int)
    BY <1>3, <1>6, OutlineFields
  <1>11. /\ p \in Outlines /\ p.height = q.height /\ p.slot = q.slot
         /\ p.blocks = q.blocks /\ p.offs = f /\ p.tries = q.tries
    <2>1. q = [height |-> q.height, slot |-> q.slot, blocks |-> q.blocks, offs |-> q.offs,
                tries |-> q.tries]
      BY <1>3, OutlineRecord
    <2>2. p = [height |-> q.height, slot |-> q.slot, blocks |-> q.blocks, offs |-> f,
               tries |-> q.tries]
      BY <1>1, <1>6, <1>9, <2>1 DEF Chosen
    <2>3. /\ q.height \in Nat /\ q.slot \in BOOLEAN /\ q.blocks \in Nat /\ f \in Seq(Int)
          /\ q.tries \in OTries
      BY <1>3, <1>2, <1>10, OutlineFields
    <2>. QED  BY <2>2, <2>3, OutlineOf
  <1>12. Opens(c.blocks, w, q.blocks, f)
    <2>1. Opens(c.blocks, c.switches, q.blocks, q.offs)
      BY <1>3 DEF Fits
    <2>. QED  BY <2>1, <1>5, <1>6, <1>10, OpensChosen
  <1>13. Code(b) = Code(c)
    BY <1>8 DEF Twin, Code
  <1>14. Fits(b, p)
    BY <1>3, <1>8, <1>11, <1>12, <1>13 DEF Fits
  <1>15. Twin(a, b) /\ b.pc = a.pc
    BY <1>3, <1>8 DEF Twin
  <1>. QED  BY <1>9, <1>11, <1>14, <1>15

\* a case label or a default: the innermost switch prints or not
LEMMA FitsArm ==
  ASSUME NEW a, IsActivation(a), NEW o \in Outlines, Fits(a, o), o.offs # <<>>, NEW taken
  PROVE  /\ a.switches # <<>> /\ Twin(a, Arm(a, taken)) /\ Arm(a, taken).pc = a.pc
         /\ Fits(Arm(a, taken), o)
  <1>. DEFINE armed == Armed(a.switches[Len(a.switches)], taken)
              w == [a.switches EXCEPT ![Len(a.switches)] = armed]
  <1>1. Opens(a.blocks, a.switches, o.blocks, o.offs) /\ o.offs \in Seq(Int)
    BY OutlineFields DEF Fits
  <1>2. a.switches # <<>>
    BY <1>1, OpensSome
  <1>3. Len(a.switches) \in 1..Len(o.offs)
    BY <1>1, <1>2, SequenceBasics DEF Opens
  <1>4. HasDepth(a.switches[Len(a.switches)])
    BY <1>1, <1>3 DEF Opens
  <1>5. HasDepth(armed) /\ armed.depth = a.switches[Len(a.switches)].depth
    BY <1>4 DEF HasDepth, Armed
  <1>6. Arm(a, taken) = [a EXCEPT !.switches = w]
    BY DEF Arm
  <1>7. Opens(a.blocks, w, o.blocks, o.offs)
    <2>. HIDE DEF armed
    <2>. QED  BY <1>1, <1>2, <1>5, OpensArm
  <1>. HIDE DEF w
  <1>8. PICK b : b = Arm(a, taken)
    OBVIOUS
  <1>9. /\ Twin(a, b) /\ b.pc = a.pc /\ b.stack = a.stack
        /\ b.blocks = a.blocks /\ b.switches = w /\ b.tries = a.tries
    BY <1>6, <1>8, TwinSwitches
  <1>10. Code(b) = Code(a)
    BY <1>9 DEF Twin, Code
  <1>11. Fits(b, o)
    BY <1>7, <1>9, <1>10 DEF Fits
  <1>. QED  BY <1>2, <1>8, <1>9, <1>11

LEMMA FitsGuarded ==
  ASSUME NEW a, IsActivation(a), NEW o \in Outlines, Fits(a, o),
         Len(Code(a)) \in Nat, NEW catch \in 0..(Len(Code(a)) - 1), NEW b,
         b = [a EXCEPT !.tries = Append(@, [catch |-> catch, depth |-> Len(a.stack)])]
  PROVE  Twin(a, b) /\ b.pc = a.pc /\ Fits(b, Guarded(o, catch)) /\ Guarded(o, catch) \in Outlines
  <1>1. PICK p : p = Guarded(o, catch)
    OBVIOUS
  <1>2. PICK t : t = Append(o.tries, [catch |-> catch, height |-> o.height])
    OBVIOUS
  <1>3. PICK u : u = Append(a.tries, [catch |-> catch, depth |-> Len(a.stack)])
    OBVIOUS
  <1>4. /\ o.height \in Nat /\ o.blocks \in Nat /\ o.offs \in Seq(Int) /\ o.tries \in OTries
        /\ Len(a.stack) \in Nat
    BY OutlineFields, FitsSize
  <1>5. t \in OTries
    <2>1. PICK R : R = [catch : Int, height : Nat]
      OBVIOUS
    <2>2. catch \in Int
      OBVIOUS
    <2>3. PICK x : x = [catch |-> catch, height |-> o.height]
      OBVIOUS
    <2>4. x \in R
      BY <1>4, <2>1, <2>2, <2>3
    <2>5. o.tries \in Seq(R)
      BY <1>4, <2>1 DEF OTries
    <2>6. t \in Seq(R)
      BY <1>2, <2>3, <2>4, <2>5
    <2>. QED  BY <2>1, <2>6 DEF OTries
  <1>6. /\ p \in Outlines /\ p.height = 0 /\ p.slot = FALSE
        /\ p.blocks = o.blocks /\ p.offs = o.offs /\ p.tries = t
    <2>1. o = [height |-> o.height, slot |-> o.slot, blocks |-> o.blocks, offs |-> o.offs,
                tries |-> o.tries]
      BY OutlineRecord
    <2>2. PICK z \in Nat, no \in BOOLEAN : z = 0 /\ no = FALSE
      OBVIOUS
    <2>3. p = [height |-> z, slot |-> no, blocks |-> o.blocks, offs |-> o.offs, tries |-> t]
      BY <1>1, <1>2, <2>1, <2>2 DEF Guarded
    <2>4. /\ p \in Outlines /\ p.height = z /\ p.slot = no
          /\ p.blocks = o.blocks /\ p.offs = o.offs /\ p.tries = t
      BY <1>4, <1>5, <2>3, OutlineOf
    <2>. QED  BY <2>2, <2>4
  <1>7. b = [a EXCEPT !.tries = u]
    BY <1>3
  <1>8. /\ Twin(a, b) /\ b.pc = a.pc /\ b.stack = a.stack
        /\ b.blocks = a.blocks /\ b.switches = a.switches /\ b.tries = u
    BY <1>7 DEF Twin, IsActivation
  <1>9. Code(b) = Code(a)
    BY <1>8 DEF Twin, Code
  <1>10. Guards(u, Len(a.stack), t, 0, Len(Code(a)))
    <2>1. Guards(a.tries, Len(a.stack), o.tries, o.height, Len(Code(a)))
      BY DEF Fits
    <2>. QED  BY <2>1, <1>2, <1>3, <1>4, GuardsMore
  <1>11. Slotted(a.stack, FALSE)
    BY DEF Slotted
  <1>12. Fits(b, p)
    BY <1>6, <1>8, <1>9, <1>10, <1>11 DEF Fits
  <1>. QED  BY <1>1, <1>6, <1>8, <1>12

LEMMA FrontTries ==
  ASSUME NEW t \in OTries, t # <<>>
  PROVE  Front(t) \in OTries /\ Last(t).height \in Nat
  <1>1. PICK R : R = [catch : Int, height : Nat]
    OBVIOUS
  <1>2. t \in Seq(R)
    BY <1>1 DEF OTries
  <1>3. Front(t) \in Seq(R)
    BY <1>2 DEF Front
  <1>4. Last(t) \in R
    <2>1. Len(t) \in 1..Len(t)
      BY <1>2
    <2>. QED  BY <1>2, <2>1 DEF Last
  <1>. QED  BY <1>1, <1>3, <1>4 DEF OTries

\* what the outline and the machine have of the innermost thử
LEMMA FitsInnermost ==
  ASSUME NEW a, NEW o \in Outlines, Fits(a, o), o.tries # <<>>
  PROVE  /\ a.tries # <<>> /\ Last(a.tries).catch = Last(o.tries).catch
         /\ Last(a.tries).depth \in 0..Len(a.stack)
         /\ Last(a.tries).depth + o.height <= Len(a.stack)
         /\ Last(o.tries).height \in Nat /\ Front(o.tries) \in OTries
         /\ Last(o.tries).catch \in 0..(Len(Code(a)) - 1)
         /\ Guards(Front(a.tries), Len(a.stack), Front(o.tries),
                   o.height + Last(o.tries).height, Len(Code(a)))
         /\ Guards(Front(a.tries), Last(a.tries).depth + 1, Front(o.tries),
                   Last(o.tries).height + 1, Len(Code(a)))
  <1>1. Guards(a.tries, Len(a.stack), o.tries, o.height, Len(Code(a)))
    BY DEF Fits
  <1>2. o.tries \in OTries /\ Len(a.stack) \in Nat /\ o.height \in Nat
    BY FitsSize, OutlineFields
  <1>. QED  BY <1>1, <1>2, GuardsLess, FrontTries

LEMMA FitsUnguarded ==
  ASSUME NEW a, IsActivation(a), NEW o \in Outlines, Fits(a, o), o.tries # <<>>,
         NEW b, b = [a EXCEPT !.tries = IF @ = <<>> THEN @ ELSE Front(@)]
  PROVE  Twin(a, b) /\ b.pc = a.pc /\ Fits(b, Unguarded(o)) /\ Unguarded(o) \in Outlines
  <1>1. PICK p, u, t : p = Unguarded(o) /\ u = Front(a.tries) /\ t = Front(o.tries)
    OBVIOUS
  <1>2. PICK h : h = o.height + Last(o.tries).height
    OBVIOUS
  <1>3. /\ a.tries # <<>> /\ Last(o.tries).height \in Nat /\ t \in OTries
        /\ Guards(u, Len(a.stack), t, h, Len(Code(a)))
    BY <1>1, <1>2, FitsInnermost
  <1>4. o.slot \in BOOLEAN /\ o.blocks \in Nat /\ o.offs \in Seq(Int) /\ h \in Nat
    BY <1>2, <1>3, OutlineFields
  <1>5. /\ p \in Outlines /\ p.height = h /\ p.slot = o.slot
        /\ p.blocks = o.blocks /\ p.offs = o.offs /\ p.tries = t
    <2>1. o = [height |-> o.height, slot |-> o.slot, blocks |-> o.blocks, offs |-> o.offs,
                tries |-> o.tries]
      BY OutlineRecord
    <2>2. p = [height |-> h, slot |-> o.slot, blocks |-> o.blocks, offs |-> o.offs, tries |-> t]
      BY <1>1, <1>2, <2>1 DEF Unguarded
    <2>. QED  BY <1>3, <1>4, <2>2, OutlineOf
  <1>6. b = [a EXCEPT !.tries = u]
    BY <1>1, <1>3
  <1>7. /\ Twin(a, b) /\ b.pc = a.pc /\ b.stack = a.stack
        /\ b.blocks = a.blocks /\ b.switches = a.switches /\ b.tries = u
    BY <1>6 DEF Twin, IsActivation
  <1>8. Code(b) = Code(a)
    BY <1>7 DEF Twin, Code
  <1>9. Fits(b, p)
    BY <1>3, <1>5, <1>7, <1>8 DEF Fits
  <1>. QED  BY <1>1, <1>5, <1>7, <1>9

\* ném: the stack as the innermost thử found it, and the error on it
LEMMA FitsThrown ==
  ASSUME NEW a, IsActivation(a), NEW o \in Outlines, Fits(a, o), o.tries # <<>>, o.height >= 1,
         NEW c, c = Pop(a, 1), NEW err, NEW kept,
         kept = IF Len(c.stack) > Last(c.tries).depth
                THEN Last(c.tries).depth ELSE Len(c.stack),
         NEW b, b = [c EXCEPT !.tries = Front(@), !.stack = Append(SubSeq(@, 1, kept), err)]
  PROVE  Twin(a, b) /\ Fits(b, Thrown(o)) /\ Thrown(o) \in Outlines
  <1>1. PICK p, u, t : p = Thrown(o) /\ u = Front(a.tries) /\ t = Front(o.tries)
    OBVIOUS
  <1>2. PICK h, d : h = Last(o.tries).height + 1 /\ d = Last(a.tries).depth
    OBVIOUS
  <1>3. /\ a.tries # <<>> /\ Last(o.tries).height \in Nat /\ t \in OTries
        /\ d \in 0..Len(a.stack) /\ d + o.height <= Len(a.stack)
        /\ Guards(u, d + 1, t, h, Len(Code(a)))
    BY <1>1, <1>2, FitsInnermost
  <1>4. o.height \in Nat /\ o.blocks \in Nat /\ o.offs \in Seq(Int) /\ h \in Nat
    BY <1>2, <1>3, OutlineFields
  <1>5. /\ p \in Outlines /\ p.height = h /\ p.slot = FALSE
        /\ p.blocks = o.blocks /\ p.offs = o.offs /\ p.tries = t
    <2>1. o = [height |-> o.height, slot |-> o.slot, blocks |-> o.blocks, offs |-> o.offs,
                tries |-> o.tries]
      BY OutlineRecord
    <2>2. PICK no \in BOOLEAN : no = FALSE
      OBVIOUS
    <2>3. p = [height |-> h, slot |-> no, blocks |-> o.blocks, offs |-> o.offs, tries |-> t]
      BY <1>1, <1>2, <2>1, <2>2 DEF Thrown
    <2>4. /\ p \in Outlines /\ p.height = h /\ p.slot = no
          /\ p.blocks = o.blocks /\ p.offs = o.offs /\ p.tries = t
      BY <1>3, <1>4, <2>3, OutlineOf
    <2>. QED  BY <2>2, <2>4
  <1>6. IsSequence(a.stack) /\ Len(a.stack) \in Nat
    BY FitsSize
  <1>7. PICK st : st = SubSeq(a.stack, 1, Len(a.stack) - 1)
    OBVIOUS
  <1>8. IsSequence(st) /\ Len(st) = Len(a.stack) - 1
    <2>1. 1 \in 0..Len(a.stack)
      BY <1>3, <1>4, <1>6
    <2>. QED  BY <2>1, <1>6, <1>7, PoppedStack
  <1>9. /\ Twin(a, c) /\ c.pc = a.pc /\ c.stack = st
        /\ c.blocks = a.blocks /\ c.switches = a.switches /\ c.tries = a.tries
    <2>1. c = [a EXCEPT !.stack = st]
      BY <1>7 DEF Pop
    <2>. QED  BY <2>1, TwinStack
  <1>10. kept = d /\ d <= Len(st)
    BY <1>2, <1>3, <1>4, <1>6, <1>8, <1>9
  <1>11. PICK low : low = SubSeq(st, 1, d)
    OBVIOUS
  <1>12. IsSequence(low) /\ Len(low) = d
    <2>1. Len(st) - d \in 0..Len(st) /\ Len(st) - (Len(st) - d) = d
      BY <1>3, <1>6, <1>8, <1>10
    <2>. QED  BY <2>1, <1>8, <1>11, PoppedStack
  <1>13. PICK new : new = Append(low, err)
    OBVIOUS
  <1>14. IsSequence(new) /\ Len(new) = d + 1
    BY <1>12, <1>13, AppendSequence
  <1>15. PICK e : e = [c EXCEPT !.tries = u]
    OBVIOUS
  <1>16. /\ Twin(c, e) /\ e.stack = st
         /\ e.blocks = c.blocks /\ e.switches = c.switches /\ e.tries = u
    BY <1>9, <1>15 DEF Twin, IsActivation
  <1>17. b = [e EXCEPT !.stack = new]
    BY <1>1, <1>9, <1>10, <1>11, <1>13, <1>15
  <1>18. /\ Twin(e, b) /\ b.stack = new
         /\ b.blocks = e.blocks /\ b.switches = e.switches /\ b.tries = e.tries
    BY <1>16, <1>17 DEF Twin, IsActivation
  <1>19. Twin(a, b) /\ Code(b) = Code(a)
    BY <1>9, <1>16, <1>18 DEF Twin, Code
  <1>20. Slotted(new, FALSE)
    BY DEF Slotted
  <1>21. Opens(a.blocks, a.switches, o.blocks, o.offs)
    BY DEF Fits
  <1>22. Guards(u, Len(new), t, h, Len(Code(a)))
    BY <1>3, <1>14
  <1>23. /\ b.stack = new /\ b.blocks = a.blocks /\ b.switches = a.switches /\ b.tries = u
    BY <1>9, <1>16, <1>18
  <1>24. Fits(b, p)
    BY <1>5, <1>14, <1>19, <1>20, <1>21, <1>22, <1>23 DEF Fits
  <1>. QED  BY <1>1, <1>5, <1>19, <1>24
-----------------------------------------------------------------------------
(* The invariant: where each activation is and what it has there. *)

\* a is at an instruction its outline is known of, and agrees with it
Stands(s, a) ==
  /\ a.code \in DOMAIN image.code
  /\ a.pc \in DOMAIN s[a.code]
  /\ Fits(a, s[a.code][a.pc])

\* a waits for a call of f, and will stand behind it
Awaits(y, s, a, f) ==
  /\ a.code \in DOMAIN image.code
  /\ \E o \in Outlines : /\ Fits(a, o) /\ o.slot = FALSE
                         /\ Reaches(s[a.code], a.pc + 1, Answered(o, y[f]))

\* b is the activation a started
Started(y, s, a, b) == IF b.kind = "call" THEN Awaits(y, s, a, b.code) ELSE Stands(s, a)

Poised(y, s) ==
  /\ Stands(s, Top)
  /\ \A i \in 1..(Len(vms) - 1) : Started(y, s, vms[i], vms[i + 1])

Held(y, s) ==
  /\ NoMachineFault
  /\ \A i \in 1..Len(vms) : Restorable(vms[i])
  /\ status \in {"initializing", "running"} => Poised(y, s)

LEMMA SameImage ==
  ASSUME image' = image, NEW y, NEW s, NEW a, NEW b, NEW o
  PROVE  /\ Fits(a, o)' <=> Fits(a, o)
         /\ Stands(s, a)' <=> Stands(s, a)
         /\ Restorable(a)' <=> Restorable(a)
         /\ Started(y, s, a, b)' <=> Started(y, s, a, b)
  <1>1. Fits(a, o)' <=> Fits(a, o)
    BY DEF Fits, Code
  <1>2. Stands(s, a)' <=> Stands(s, a)
    BY DEF Stands, Fits, Code
  <1>3. Restorable(a)' <=> Restorable(a)
    BY DEF Restorable, Code
  <1>4. Awaits(y, s, a, b.code)' <=> Awaits(y, s, a, b.code)
    BY DEF Awaits, Fits, Code
  <1>. QED  BY <1>1, <1>2, <1>3, <1>4 DEF Started

LEMMA StandsRestorable ==
  ASSUME NEW y, NEW s, Follows(image, y, s), NEW a, Stands(s, a) PROVE Restorable(a)
  <1>1. s[a.code][a.pc] \in Outlines
    BY DEF Follows, Outlined, Stands
  <1>. QED  BY <1>1, FitsRestorable DEF Stands

\* an activation that fits an outline known to lead to pc stands at pc
LEMMA Arrives ==
  ASSUME NEW y, NEW s, Follows(image, y, s), NEW b, b.code \in DOMAIN image.code,
         NEW p \in Outlines, Fits(b, p), Reaches(s[b.code], b.pc, p)
  PROVE  Stands(s, b)
  <1>1. b.pc \in DOMAIN s[b.code] /\ Covers(s[b.code][b.pc], p)
    BY DEF Reaches
  <1>2. s[b.code][b.pc] \in Outlines
    BY <1>1 DEF Follows, Outlined
  <1>. QED  BY <1>1, <1>2, FitsLess DEF Stands

\* and one that begins a vector stands at its start
LEMMA Begins ==
  ASSUME NEW y, NEW s, Follows(image, y, s), NEW kind, NEW k \in DOMAIN image.code,
         NEW globals, NEW frames
  PROVE  Stands(s, Activation(kind, k, globals, frames))
  <1>1. PICK b : b = Activation(kind, k, globals, frames)
    OBVIOUS
  <1>2. /\ b.code = k /\ b.pc = 0 /\ b.stack = <<>> /\ b.blocks = 0
        /\ b.switches = <<>> /\ b.tries = <<>>
    BY <1>1 DEF Activation
  <1>3. /\ Bare.height = 0 /\ Bare.slot = FALSE /\ Bare.blocks = 0 /\ Bare.offs = <<>>
        /\ Bare.tries = <<>>
    BY DEF Bare
  <1>4. Opens(b.blocks, b.switches, Bare.blocks, Bare.offs)
    BY <1>2, <1>3, NoFrames DEF Opens
  <1>5. Guards(b.tries, Len(b.stack), Bare.tries, Bare.height, Len(Code(b)))
    <2>1. Len(<<>>) = 0 /\ 0 \in Nat
      BY NoFrames
    <2>2. Guards(<<>>, 0, <<>>, 0, Len(Code(b)))
      BY GuardsNone
    <2>. QED  BY <1>2, <1>3, <2>1, <2>2
  <1>6. Slotted(b.stack, Bare.slot) /\ IsSequence(b.stack)
    BY <1>2, <1>3, NoFrames DEF Slotted
  <1>7. Fits(b, Bare)
    BY <1>4, <1>5, <1>6 DEF Fits
  <1>8. Reaches(s[k], 0, Bare)
    BY DEF Follows, Outlined
  <1>9. Stands(s, b)
    BY <1>2, <1>7, <1>8, BareOutline, Arrives
  <1>. QED  BY <1>1, <1>9
-----------------------------------------------------------------------------
(* What each shape of step leaves. *)

\* the interpreting activation moves on
LEMMA HeldStays ==
  ASSUME IInv, NEW y, NEW s, Follows(image, y, s), Held(y, s), Executing,
         NEW b, Twin(Top, b), Stands(s, b),
         vms' = [vms EXCEPT ![Len(vms)] = b], UNCHANGED <<image, status, fault>>
  PROVE  Held(y, s)'
  <1>1. PICK n \in Nat : n = Len(vms) /\ n >= 1 /\ n \in 1..n
    BY TopActivation DEF IInv, Shaped
  <1>2. PICK v : v = vms'
    OBVIOUS
  <1>3. Len(v) = n /\ v[n] = b /\ \A i \in 1..(n - 1) : v[i] = vms[i]
    <2>1. PICK S : vms \in Seq(S)
      BY DEF IInv, Shaped, IsSequence
    <2>2. PICK T : T = S \cup {b}
      OBVIOUS
    <2>3. vms \in Seq(T) /\ b \in T
      BY <2>1, <2>2
    <2>. QED  BY <1>1, <1>2, <2>3
  <1>4. Top' = b
    BY <1>2, <1>3 DEF Top
  <1>5. \A i \in 1..n : Restorable(v[i])'
    <2>1. ASSUME NEW i \in 1..n PROVE Restorable(v[i])
      <3>1. CASE i = n
        BY <1>3, <3>1, StandsRestorable
      <3>2. CASE i # n
        BY <1>1, <1>3, <3>2 DEF Held
      <3>. QED  BY <3>1, <3>2
    <2>. QED  BY <2>1, SameImage
  <1>6. Poised(y, s)
    BY DEF Held, Executing
  <1>7. \A i \in 1..(n - 1) : Started(y, s, v[i], v[i + 1])'
    <2>1. ASSUME NEW i \in 1..(n - 1) PROVE Started(y, s, v[i], v[i + 1])
      <3>1. Started(y, s, vms[i], vms[i + 1])
        BY <1>1, <1>6 DEF Poised
      <3>2. CASE i = n - 1
        <4>1. vms[i + 1] = Top /\ v[i + 1] = b
          BY <1>1, <1>3, <3>2 DEF Top
        <4>. QED  BY <1>3, <3>1, <4>1 DEF Started, Twin
      <3>3. CASE i # n - 1
        BY <1>1, <1>3, <3>1, <3>3
      <3>. QED  BY <3>2, <3>3
    <2>. QED  BY <2>1, SameImage
  <1>8. Stands(s, b)'
    BY SameImage
  <1>9. Poised(y, s)'
    BY <1>2, <1>3, <1>4, <1>7, <1>8 DEF Poised
  <1>. QED  BY <1>2, <1>3, <1>5, <1>9 DEF Held, NoMachineFault

\* an exception leaves the root
LEMMA HeldThrows ==
  ASSUME IInv, NEW y, NEW s, Held(y, s), NEW a, Restorable(a),
         NEW what, what \notin {"internal", "range"}, Throw(a, what)
  PROVE  Held(y, s)'
  <1>1. PICK r : vms' = <<r>> /\ Restorable(r)
    <2>1. CASE Len(vms) = 1
      BY <2>1 DEF Throw
    <2>2. CASE Len(vms) # 1
      <3>1. 1 \in 1..Len(vms)
        BY TopActivation DEF IInv, Shaped
      <3>. QED  BY <2>2, <3>1 DEF Throw, Held
    <2>. QED  BY <2>1, <2>2
  <1>2. image' = image /\ status' = "failed" /\ fault' = what
    BY DEF Throw
  <1>3. Restorable(r)'
    BY <1>1, <1>2, SameImage
  <1>4. PICK v : v = vms'
    OBVIOUS
  <1>5. Len(v) = 1 /\ v[1] = r
    BY <1>1, <1>4, Singleton
  <1>6. \A i \in 1..Len(v) : Restorable(v[i])'
    BY <1>3, <1>5
  <1>. QED  BY <1>2, <1>4, <1>6 DEF Held, NoMachineFault

\* an activation starts another
LEMMA HeldEnters ==
  ASSUME IInv, NEW y, NEW s, Follows(image, y, s), Held(y, s),
         status \in {"initializing", "running"},
         NEW c, Restorable(c), NEW kind, NEW k \in DOMAIN image.code, NEW globals, NEW frames,
         NEW b, b = Activation(kind, k, globals, frames),
         Started(y, s, c, b), c.kind = Top.kind, c.code = Top.code,
         vms' = Append([vms EXCEPT ![Len(vms)] = c], b), UNCHANGED <<image, status, fault>>
  PROVE  Held(y, s)'
  <1>1. PICK n \in Nat : n = Len(vms) /\ n >= 1 /\ n \in 1..n
    BY TopActivation DEF IInv, Shaped
  <1>2. PICK u, v : u = [vms EXCEPT ![n] = c] /\ v = vms'
    OBVIOUS
  <1>3. Len(v) = n + 1 /\ v[n + 1] = b /\ v[n] = c /\ \A i \in 1..(n - 1) : v[i] = vms[i]
    <2>1. PICK S : vms \in Seq(S)
      BY DEF IInv, Shaped, IsSequence
    <2>2. PICK T : T = S \cup {c}
      OBVIOUS
    <2>3. vms \in Seq(T) /\ c \in T
      BY <2>1, <2>2
    <2>4. u \in Seq(T) /\ Len(u) = n /\ u[n] = c /\ \A i \in 1..(n - 1) : u[i] = vms[i]
      BY <1>1, <1>2, <2>3
    <2>5. IsSequence(u)
      BY <2>4 DEF IsSequence
    <2>6. v = Append(u, b)
      BY <1>1, <1>2
    <2>7. Len(v) = n + 1 /\ v[n + 1] = b /\ \A i \in 1..n : v[i] = u[i]
      BY <2>4, <2>5, <2>6, AppendSequence
    <2>. QED  BY <1>1, <2>4, <2>7
  <1>4. Top' = b
    BY <1>2, <1>3 DEF Top
  <1>5. Stands(s, b)
    BY Begins
  <1>6. \A i \in 1..(n + 1) : Restorable(v[i])'
    <2>1. ASSUME NEW i \in 1..(n + 1) PROVE Restorable(v[i])
      <3>1. CASE i = n + 1
        BY <1>3, <1>5, <3>1, StandsRestorable
      <3>2. CASE i = n
        BY <1>3, <3>2
      <3>3. CASE i \in 1..(n - 1)
        BY <1>1, <1>3, <3>3 DEF Held
      <3>. QED  BY <1>1, <3>1, <3>2, <3>3
    <2>. QED  BY <2>1, SameImage
  <1>7. Poised(y, s)
    BY DEF Held
  <1>8. \A i \in 1..n : Started(y, s, v[i], v[i + 1])'
    <2>1. ASSUME NEW i \in 1..n PROVE Started(y, s, v[i], v[i + 1])
      <3>1. CASE i = n
        BY <1>3, <3>1
      <3>2. CASE i = n - 1
        <4>1. i \in 1..(n - 1) /\ vms[i + 1] = Top /\ v[i + 1] = c /\ v[i] = vms[i]
          BY <1>1, <1>3, <3>2 DEF Top
        <4>2. Started(y, s, vms[i], Top)
          BY <1>1, <1>7, <4>1 DEF Poised
        <4>. QED  BY <4>1, <4>2 DEF Started
      <3>3. CASE i \in 1..(n - 2)
        <4>1. i \in 1..(n - 1) /\ i + 1 \in 1..(n - 1)
          BY <1>1, <3>3
        <4>2. v[i] = vms[i] /\ v[i + 1] = vms[i + 1]
          BY <1>3, <4>1
        <4>3. Started(y, s, vms[i], vms[i + 1])
          BY <1>1, <1>7, <4>1 DEF Poised
        <4>. QED  BY <4>2, <4>3
      <3>. QED  BY <1>1, <3>1, <3>2, <3>3
    <2>. QED  BY <2>1, SameImage
  <1>9. Stands(s, b)'
    BY <1>5, SameImage
  <1>10. Poised(y, s)'
    BY <1>2, <1>3, <1>4, <1>8, <1>9 DEF Poised
  <1>. QED  BY <1>2, <1>3, <1>6, <1>10 DEF Held, NoMachineFault

\* an initializer returns to the root
LEMMA HeldEndsInit ==
  ASSUME IInv, NEW y, NEW s, Follows(image, y, s), Held(y, s), Executing,
         NEW a, Twin(Top, a), EndInitializer(a), UNCHANGED <<image, fault>>
  PROVE  Held(y, s)'
  <1>1. Top.kind = "init" /\ Len(vms) = 2 /\ Top = vms[2] /\ status = "initializing"
    BY TopKind DEF EndInitializer, Twin, Top
  <1>2. Started(y, s, vms[1], vms[2])
    BY <1>1 DEF Held, Poised
  <1>3. Stands(s, vms[1])
    BY <1>1, <1>2 DEF Started
  <1>4. IsActivation(vms[1])
    BY <1>1 DEF IInv, Shaped
  <1>5. PICK r : r = [vms[1] EXCEPT !.vars = a.vars]
    OBVIOUS
  <1>6. Keeps(vms[1], r)
    BY <1>4, <1>5, TwinVars
  <1>7. Stands(s, r)
    BY <1>3, <1>6, KeepsFits DEF Stands, Keeps
  <1>8. Stands(s, r)' /\ Restorable(r)'
    BY <1>7, StandsRestorable, SameImage
  <1>9. PICK v : v = vms'
    OBVIOUS
  <1>10. Len(v) = 1 /\ v[1] = r
    BY <1>5, <1>9, Singleton DEF EndInitializer
  <1>11. Poised(y, s)'
    BY <1>8, <1>9, <1>10 DEF Poised, Top
  <1>. QED  BY <1>8, <1>9, <1>10, <1>11 DEF Held, NoMachineFault

\* run() returns to the host
LEMMA HeldEndsRun ==
  ASSUME IInv, NEW y, NEW s, Held(y, s), Executing,
         NEW a, Twin(Top, a), Restorable(a), EndRun(a), UNCHANGED <<image, fault>>
  PROVE  Held(y, s)'
  <1>1. Len(vms) = 1
    BY TopKind DEF EndRun, Twin
  <1>2. PICK v : v = vms'
    OBVIOUS
  <1>3. Len(v) = 1 /\ v[1] = a
    <2>1. PICK S : vms \in Seq(S)
      BY DEF IInv, Shaped, IsSequence
    <2>2. PICK T : T = S \cup {a}
      OBVIOUS
    <2>3. vms \in Seq(T) /\ a \in T
      BY <2>1, <2>2
    <2>. QED  BY <1>1, <1>2, <2>3 DEF EndRun
  <1>4. Restorable(a)'
    BY SameImage
  <1>5. status' = "halted"
    BY DEF EndRun
  <1>. QED  BY <1>2, <1>3, <1>4, <1>5 DEF Held, NoMachineFault

\* the caller when its callee is back
LEMMA ResumedStands ==
  ASSUME NEW y, NEW s, Follows(image, y, s), NEW c, IsActivation(c), c.frames # <<>>,
         NEW a, NEW k \in DOMAIN image.code,
         Awaits(y, s, c, k), y[k] => a.stack # <<>>
  PROVE  /\ Stands(s, Resumed(c, a)) /\ Resumed(c, a).kind = c.kind
         /\ Resumed(c, a).code = c.code
  <1>1. PICK r : r = Resumed(c, a)
    OBVIOUS
  <1>2. PICK st : st = IF a.stack = <<>> THEN c.stack ELSE Append(c.stack, Last(a.stack))
    OBVIOUS
  <1>3. /\ r.kind = c.kind /\ r.code = c.code /\ r.pc = c.pc + 1 /\ r.stack = st
        /\ r.blocks = c.blocks /\ r.switches = c.switches /\ r.tries = c.tries
    BY <1>1, <1>2 DEF Resumed, IsActivation
  <1>4. PICK o \in Outlines : /\ Fits(c, o) /\ o.slot = FALSE
                              /\ Reaches(s[c.code], c.pc + 1, Answered(o, y[k]))
    BY DEF Awaits
  <1>5. PICK w : w = IF a.stack = <<>> THEN c ELSE Push(c, Last(a.stack))
    OBVIOUS
  <1>6. /\ w.stack = st /\ w.blocks = c.blocks /\ w.switches = c.switches
        /\ w.tries = c.tries /\ w.code = c.code
    BY <1>2, <1>5 DEF Push, IsActivation
  <1>7. Answered(o, y[k]) \in Outlines /\ Fits(w, Answered(o, y[k]))
    <2>1. PICK no \in BOOLEAN : no = FALSE
      OBVIOUS
    <2>2. PICK g : g = Given(o, no)
      OBVIOUS
    <2>3. /\ g \in Outlines /\ g.height = o.height + 1 /\ g.slot = no
          /\ g.blocks = o.blocks /\ g.offs = o.offs /\ g.tries = o.tries
      BY <2>2, GivenOutline
    <2>4. CASE a.stack # <<>>
      <3>1. Fits(w, g)
        BY <1>4, <1>5, <2>1, <2>2, <2>4, FitsPush
      <3>2. Covers(o, g)
        BY <1>4, <2>1, <2>3, OutlineFields DEF Covers
      <3>3. Fits(w, o)
        BY <2>3, <3>1, <3>2, FitsLess
      <3>. QED  BY <2>1, <2>2, <2>3, <3>1, <3>3 DEF Answered
    <2>5. CASE a.stack = <<>>
      <3>1. w = c
        BY <1>5, <2>5
      <3>2. Answered(o, y[k]) = o
        BY <2>5 DEF Answered
      <3>. QED  BY <3>1, <3>2, <1>4
    <2>. QED  BY <2>4, <2>5
  <1>8. Fits(r, Answered(o, y[k]))
    BY <1>3, <1>6, <1>7 DEF Fits, Code
  <1>9. c.code \in DOMAIN image.code
    BY DEF Awaits
  <1>10. Reaches(s[r.code], r.pc, Answered(o, y[k]))
    BY <1>3, <1>4
  <1>11. Stands(s, r)
    BY <1>3, <1>7, <1>8, <1>9, <1>10, Arrives
  <1>. QED  BY <1>1, <1>3, <1>11

\* a callee returns to its caller
LEMMA HeldEndsCall ==
  ASSUME IInv, NEW y, NEW s, Follows(image, y, s), Held(y, s), Executing,
         NEW a, Twin(Top, a), y[Top.code] => a.stack # <<>>,
         EndCall(a), UNCHANGED <<image, fault>>
  PROVE  Held(y, s)'
  <1>1. PICK n \in Nat : n = Len(vms) /\ n >= 2
    BY TopActivation, TopKind DEF IInv, Shaped, EndCall, Twin
  <1>2. PICK c : c = vms[n - 1]
    OBVIOUS
  <1>3. Top = vms[n] /\ Top.kind = "call" /\ n - 1 \in 1..(n - 1) /\ n \in 2..n
    BY <1>1 DEF Top, EndCall, Twin
  <1>4. Poised(y, s)
    BY DEF Held, Executing
  <1>5. Started(y, s, vms[n - 1], vms[n - 1 + 1])
    BY <1>1, <1>3, <1>4 DEF Poised
  <1>6. Awaits(y, s, c, Top.code) /\ Top.code \in DOMAIN image.code
    <2>1. n - 1 + 1 = n
      BY <1>1
    <2>. QED  BY <1>2, <1>3, <1>4, <1>5, <2>1 DEF Started, Poised, Stands
  <1>7. IsActivation(c) /\ c.frames # <<>>
    BY <1>1, <1>2, <1>3 DEF IInv, Shaped, CallersFrame
  <1>8. PICK r : r = Resumed(c, a)
    OBVIOUS
  <1>9. Stands(s, r) /\ r.kind = c.kind /\ r.code = c.code
    BY <1>6, <1>7, <1>8, ResumedStands
  <1>10. PICK u, v : u = SubSeq(vms, 1, n - 2) /\ v = vms'
    OBVIOUS
  <1>11. Len(v) = n - 1 /\ v[n - 1] = r /\ \A i \in 1..(n - 2) : v[i] = vms[i]
    <2>1. PICK S : vms \in Seq(S)
      BY DEF IInv, Shaped, IsSequence
    <2>2. u \in Seq(S) /\ Len(u) = n - 2 /\ \A i \in 1..(n - 2) : u[i] = vms[i]
      BY <1>1, <1>10, <2>1
    <2>3. v = Append(u, r)
      BY <1>1, <1>2, <1>8, <1>10 DEF EndCall
    <2>4. IsSequence(u)
      BY <2>2 DEF IsSequence
    <2>5. /\ Len(v) = n - 2 + 1 /\ v[n - 2 + 1] = r
          /\ \A i \in 1..(n - 2) : v[i] = u[i]
      BY <2>2, <2>3, <2>4, AppendSequence
    <2>6. n - 2 + 1 = n - 1
      BY <1>1
    <2>. QED  BY <2>2, <2>5, <2>6
  <1>12. Top' = r
    BY <1>10, <1>11 DEF Top
  <1>13. \A i \in 1..(n - 1) : Restorable(v[i])'
    <2>1. ASSUME NEW i \in 1..(n - 1) PROVE Restorable(v[i])
      <3>1. CASE i = n - 1
        BY <1>9, <1>11, <3>1, StandsRestorable
      <3>2. CASE i # n - 1
        <4>1. i \in 1..(n - 2) /\ i \in 1..n
          BY <1>1, <3>2
        <4>. QED  BY <1>1, <1>11, <4>1 DEF Held
      <3>. QED  BY <3>1, <3>2
    <2>. QED  BY <2>1, SameImage
  <1>14. \A i \in 1..(n - 2) : Started(y, s, v[i], v[i + 1])'
    <2>1. ASSUME NEW i \in 1..(n - 2) PROVE Started(y, s, v[i], v[i + 1])
      <3>0. i \in 1..(n - 1) /\ v[i] = vms[i]
        BY <1>1, <1>11
      <3>1. Started(y, s, vms[i], vms[i + 1])
        BY <1>1, <1>4, <3>0 DEF Poised
      <3>2. CASE i = n - 2
        <4>1. vms[i + 1] = c /\ v[i + 1] = r
          <5>1. i + 1 = n - 1
            BY <1>1, <3>2
          <5>. QED  BY <5>1, <1>2, <1>11
        <4>. QED  BY <1>9, <3>0, <3>1, <4>1 DEF Started
      <3>3. CASE i # n - 2
        <4>1. i + 1 \in 1..(n - 2)
          BY <1>1, <3>3
        <4>. QED  BY <1>11, <3>0, <3>1, <4>1
      <3>. QED  BY <3>2, <3>3
    <2>. QED  BY <2>1, SameImage
  <1>15. Stands(s, r)'
    BY <1>9, SameImage
  <1>16. Poised(y, s)'
    <2>1. n - 1 - 1 = n - 2
      BY <1>1
    <2>. QED  BY <1>10, <1>11, <1>12, <1>14, <1>15, <2>1 DEF Poised
  <1>. QED  BY <1>10, <1>11, <1>13, <1>16 DEF Held, NoMachineFault

\* run() returns, whoever started it
LEMMA HeldFinishes ==
  ASSUME IInv, NEW y, NEW s, Follows(image, y, s), Held(y, s), Executing,
         NEW a, Twin(Top, a), Restorable(a), y[Top.code] => a.stack # <<>>, Finish(a)
  PROVE  Held(y, s)'
  BY HeldEndsRun, HeldEndsInit, HeldEndsCall DEF Finish
-----------------------------------------------------------------------------
(* What the discipline gives for the instruction the machine is at. *)

\* the machine is at an instruction, and o is known there
Meets(y, s, o) ==
  /\ Executing /\ IsActivation(Top) /\ Top.code \in DOMAIN image.code
  /\ Len(Code(Top)) \in Nat
  /\ o \in Outlines /\ Fits(Top, o)
  /\ Allowed(image, Code(Top), Top.pc, Ins, o)
  /\ \A to \in Leads(image, y, Code(Top), Top.pc, Ins, o) : Reaches(s[Top.code], to[1], to[2])
  /\ Ins.op = "DUNG_CHUONG_TRINH" => Stopped(o, y[Top.code])

\* what every step starts from
Secure(y, s) == IInv /\ image \in Images /\ Follows(image, y, s) /\ Held(y, s)

LEMMA CodeOf ==
  ASSUME image \in Images, NEW k \in DOMAIN image.code
  PROVE  image.code[k] \in Seq(Instruction) /\ Len(image.code[k]) \in Nat
  BY ImagesAssumption

LEMMA TopStands ==
  ASSUME NEW y, NEW s, Secure(y, s), Executing
  PROVE  Stands(s, Top)
  BY DEF Secure, Held, Executing, Poised

LEMMA MeetsOne ==
  ASSUME NEW y, NEW s, Secure(y, s), HasCode
  PROVE  \E o : Meets(y, s, o)
  <1>1. Stands(s, Top) /\ Executing
    BY TopStands DEF HasCode
  <1>2. PICK k, pc : k = Top.code /\ pc = Top.pc
    OBVIOUS
  <1>3. k \in DOMAIN image.code /\ pc \in DOMAIN s[k] /\ Fits(Top, s[k][pc])
    BY <1>1, <1>2 DEF Stands
  <1>4. Outlined(image, y, k, s[k])
    BY <1>3 DEF Secure, Follows
  <1>5. Len(image.code[k]) \in Nat
    BY <1>3, CodeOf DEF Secure
  <1>6. pc \in 0..(Len(image.code[k]) - 1)
    BY <1>2 DEF HasCode, Code
  <1>7. pc < Len(image.code[k])
    BY <1>5, <1>6
  <1>8. Code(Top) = image.code[k] /\ Ins = image.code[k][pc + 1]
    BY <1>2 DEF Code, Ins
  <1>9. PICK o : o = s[k][pc]
    OBVIOUS
  <1>10. o \in Outlines
    BY <1>3, <1>4, <1>9 DEF Outlined
  <1>11. /\ Allowed(image, image.code[k], pc, image.code[k][pc + 1], o)
         /\ \A to \in Leads(image, y, image.code[k], pc, image.code[k][pc + 1], o) :
              Reaches(s[k], to[1], to[2])
         /\ image.code[k][pc + 1].op = "DUNG_CHUONG_TRINH" => Stopped(o, y[k])
    BY <1>3, <1>4, <1>7, <1>9 DEF Outlined
  <1>12. IsActivation(Top)
    BY TopActivation DEF Secure, IInv
  <1>13. Meets(y, s, o)
    BY <1>1, <1>2, <1>3, <1>5, <1>8, <1>9, <1>10, <1>11, <1>12 DEF Meets
  <1>. QED  BY <1>13

LEMMA LeadsTo ==
  ASSUME NEW y, NEW s, NEW o, Meets(y, s, o), NEW pc, NEW p,
         <<pc, p>> \in Leads(image, y, Code(Top), Top.pc, Ins, o)
  PROVE  Reaches(s[Top.code], pc, p)
  <1>1. PICK to : to = <<pc, p>>
    OBVIOUS
  <1>2. to[1] = pc /\ to[2] = p
    BY <1>1
  <1>3. Reaches(s[Top.code], to[1], to[2])
    BY <1>1 DEF Meets
  <1>. QED  BY <1>2, <1>3

\* the instructions Plain leaves out
NotPlain == {"TRA_VE", "DUNG_CHUONG_TRINH", "MO_KHOI", "GOI", "CHON", "NEM", "CA", "MAC_DINH",
             "DONG_KHOI", "THU", "JUMP", "JUMP_IF_FALSE", "THU_KET_THUC", "BO_QUA",
             "GOI_GIAN_TIEP", "THOAT", "999"}
LEMMA PlainOrNot == NotPlain \cap Plain = {}
  BY DEF NotPlain, Plain, Constants, BinaryOps, Markers, ToSlots

\* instruction by instruction
LEMMA MeetsPlain ==
  ASSUME NEW y, NEW s, NEW o, Meets(y, s, o), Ins.op \in Plain
  PROVE  Fed(image, Ins, o) /\ Reaches(s[Top.code], Top.pc + 1, Worked(o, Ins.op))
  <1>1. Ins.op \notin NotPlain
    BY PlainOrNot
  <1>2. Fed(image, Ins, o)
    BY <1>1 DEF Meets, Allowed, NotPlain
  <1>3. <<Top.pc + 1, Worked(o, Ins.op)>> \in Leads(image, y, Code(Top), Top.pc, Ins, o)
    BY <1>1 DEF Leads, NotPlain
  <1>. QED  BY <1>2, <1>3, LeadsTo

LEMMA MeetsNone ==
  ASSUME NEW y, NEW s, NEW o, Meets(y, s, o)
  PROVE  Ins.op \notin {"GOI_GIAN_TIEP", "THOAT", "999"}
  BY PlainOrNot DEF NotPlain, Meets, Allowed

LEMMA MeetsGoi ==
  ASSUME NEW y, NEW s, NEW o, Meets(y, s, o), Ins.op = "GOI"
  PROVE  /\ Ins.a \in 0..o.height /\ Lookup(image, Code(Top), Ins.b) # {}
         /\ \A f \in Lookup(image, Code(Top), Ins.b) :
              Reaches(s[Top.code], Top.pc + 1, Answered(Used(o, Ins.a), y[f]))
  <1>1. Ins.op \notin Plain
    BY PlainOrNot DEF NotPlain
  <1>2. Allowed(image, Code(Top), Top.pc, Ins, o)
          <=> Ins.a \in 0..o.height /\ Lookup(image, Code(Top), Ins.b) # {}
    BY <1>1 DEF Allowed
  <1>3. \A f \in Lookup(image, Code(Top), Ins.b) :
          <<Top.pc + 1, Answered(Used(o, Ins.a), y[f])>>
            \in Leads(image, y, Code(Top), Top.pc, Ins, o)
    BY <1>1 DEF Leads
  <1>. QED  BY <1>2, <1>3, LeadsTo DEF Meets

LEMMA MeetsSwitch ==
  ASSUME NEW y, NEW s, NEW o, Meets(y, s, o)
  PROVE  /\ Ins.op = "CHON" => /\ o.height >= 1
                               /\ Reaches(s[Top.code], Top.pc + 1, Chosen(o))
         /\ Ins.op = "CA" => /\ o.offs # <<>> /\ Ins.b \in -1..(Len(image.pool) - 1)
                             /\ Reaches(s[Top.code], Top.pc + 1, o)
         /\ Ins.op = "MAC_DINH" => o.offs # <<>> /\ Reaches(s[Top.code], Top.pc + 1, o)
         /\ Ins.op = "MO_KHOI" => Reaches(s[Top.code], Top.pc + 1, Opened(o))
         /\ Ins.op = "DONG_KHOI" => o.blocks >= 1 /\ Reaches(s[Top.code], Top.pc + 1, Closed(o))
  <1>2. ASSUME Ins.op = "CHON"
        PROVE  o.height >= 1 /\ Reaches(s[Top.code], Top.pc + 1, Chosen(o))
    <2>1. Ins.op \notin Plain
      BY <1>2, PlainOrNot DEF NotPlain
    <2>2. o.height >= 1
      BY <1>2, <2>1 DEF Meets, Allowed
    <2>3. <<Top.pc + 1, Chosen(o)>> \in Leads(image, y, Code(Top), Top.pc, Ins, o)
      BY <1>2, <2>1 DEF Leads
    <2>. QED  BY <2>2, <2>3, LeadsTo
  <1>3. ASSUME Ins.op \in {"CA", "MAC_DINH"}
        PROVE  o.offs # <<>> /\ Reaches(s[Top.code], Top.pc + 1, o)
    <2>1. Ins.op \notin Plain
      BY <1>3, PlainOrNot DEF NotPlain
    <2>2. o.offs # <<>>
      BY <1>3, <2>1 DEF Meets, Allowed
    <2>3. <<Top.pc + 1, o>> \in Leads(image, y, Code(Top), Top.pc, Ins, o)
      BY <1>3, <2>1 DEF Leads
    <2>. QED  BY <2>2, <2>3, LeadsTo
  <1>4. ASSUME Ins.op = "CA" PROVE Ins.b \in -1..(Len(image.pool) - 1)
    <2>1. Ins.op \notin Plain
      BY <1>4, PlainOrNot DEF NotPlain
    <2>. QED  BY <1>4, <2>1 DEF Meets, Allowed
  <1>5. ASSUME Ins.op = "MO_KHOI" PROVE Reaches(s[Top.code], Top.pc + 1, Opened(o))
    <2>1. Ins.op \notin Plain
      BY <1>5, PlainOrNot DEF NotPlain
    <2>2. <<Top.pc + 1, Opened(o)>> \in Leads(image, y, Code(Top), Top.pc, Ins, o)
      BY <1>5, <2>1 DEF Leads
    <2>. QED  BY <2>2, LeadsTo
  <1>6. ASSUME Ins.op = "DONG_KHOI"
        PROVE  o.blocks >= 1 /\ Reaches(s[Top.code], Top.pc + 1, Closed(o))
    <2>1. Ins.op \notin Plain
      BY <1>6, PlainOrNot DEF NotPlain
    <2>2. o.blocks >= 1
      BY <1>6, <2>1 DEF Meets, Allowed
    <2>3. <<Top.pc + 1, Closed(o)>> \in Leads(image, y, Code(Top), Top.pc, Ins, o)
      BY <1>6, <2>1 DEF Leads
    <2>. QED  BY <2>2, <2>3, LeadsTo
  <1>. QED  BY <1>2, <1>3, <1>4, <1>5, <1>6

LEMMA MeetsJump ==
  ASSUME NEW y, NEW s, NEW o, Meets(y, s, o)
  PROVE  /\ Ins.op = "THU" => /\ Ins.a \in 0..(Len(Code(Top)) - 1)
                              /\ Reaches(s[Top.code], Top.pc + 1, Guarded(o, Ins.a))
         /\ Ins.op = "THU_KET_THUC" => /\ o.tries # <<>>
                                       /\ Reaches(s[Top.code], Ins.a, Unguarded(o))
         /\ Ins.op = "NEM" =>
              /\ o.height >= 1
              /\ o.tries # <<>> => Reaches(s[Top.code], Last(o.tries).catch, Thrown(o))
         /\ Ins.op = "JUMP" => /\ Ins.a \in 0..(Len(Code(Top)) - 1)
                               /\ Reaches(s[Top.code], Ins.a, o)
         /\ Ins.op = "JUMP_IF_FALSE" => /\ Ins.a \in 0..(Len(Code(Top)) - 1) /\ o.height >= 1
                                        /\ Reaches(s[Top.code], Ins.a, Used(o, 1))
                                        /\ Reaches(s[Top.code], Top.pc + 1, Used(o, 1))
         /\ Ins.op = "BO_QUA" =>
              /\ ScanFor(Code(Top), "CAP_NHAT", Top.pc + 1) # Len(Code(Top))
              /\ Reaches(s[Top.code], ScanFor(Code(Top), "CAP_NHAT", Top.pc + 1) + 1, o)
  <1>2. ASSUME Ins.op = "THU"
        PROVE  /\ Ins.a \in 0..(Len(Code(Top)) - 1)
               /\ Reaches(s[Top.code], Top.pc + 1, Guarded(o, Ins.a))
    <2>1. Ins.op \notin Plain
      BY <1>2, PlainOrNot DEF NotPlain
    <2>2. Ins.a \in 0..(Len(Code(Top)) - 1)
      BY <1>2, <2>1 DEF Meets, Allowed
    <2>3. <<Top.pc + 1, Guarded(o, Ins.a)>> \in Leads(image, y, Code(Top), Top.pc, Ins, o)
      BY <1>2, <2>1 DEF Leads
    <2>. QED  BY <2>2, <2>3, LeadsTo
  <1>3. ASSUME Ins.op = "THU_KET_THUC"
        PROVE  o.tries # <<>> /\ Reaches(s[Top.code], Ins.a, Unguarded(o))
    <2>1. Ins.op \notin Plain
      BY <1>3, PlainOrNot DEF NotPlain
    <2>2. o.tries # <<>>
      BY <1>3, <2>1 DEF Meets, Allowed
    <2>3. <<Ins.a, Unguarded(o)>> \in Leads(image, y, Code(Top), Top.pc, Ins, o)
      BY <1>3, <2>1 DEF Leads
    <2>. QED  BY <2>2, <2>3, LeadsTo
  <1>4. ASSUME Ins.op = "NEM"
        PROVE  /\ o.height >= 1
               /\ o.tries # <<>> => Reaches(s[Top.code], Last(o.tries).catch, Thrown(o))
    <2>1. Ins.op \notin Plain
      BY <1>4, PlainOrNot DEF NotPlain
    <2>2. o.height >= 1
      BY <1>4, <2>1 DEF Meets, Allowed
    <2>3. o.tries # <<>> => <<Last(o.tries).catch, Thrown(o)>>
                              \in Leads(image, y, Code(Top), Top.pc, Ins, o)
      BY <1>4, <2>1 DEF Leads
    <2>. QED  BY <2>2, <2>3, LeadsTo
  <1>5. ASSUME Ins.op = "JUMP"
        PROVE  Ins.a \in 0..(Len(Code(Top)) - 1) /\ Reaches(s[Top.code], Ins.a, o)
    <2>1. Ins.op \notin Plain
      BY <1>5, PlainOrNot DEF NotPlain
    <2>2. Ins.a \in 0..(Len(Code(Top)) - 1)
      BY <1>5, <2>1 DEF Meets, Allowed
    <2>3. <<Ins.a, o>> \in Leads(image, y, Code(Top), Top.pc, Ins, o)
      BY <1>5, <2>1 DEF Leads
    <2>. QED  BY <2>2, <2>3, LeadsTo
  <1>6. ASSUME Ins.op = "JUMP_IF_FALSE"
        PROVE  /\ Ins.a \in 0..(Len(Code(Top)) - 1) /\ o.height >= 1
               /\ Reaches(s[Top.code], Ins.a, Used(o, 1))
               /\ Reaches(s[Top.code], Top.pc + 1, Used(o, 1))
    <2>1. Ins.op \notin Plain
      BY <1>6, PlainOrNot DEF NotPlain
    <2>2. Ins.a \in 0..(Len(Code(Top)) - 1) /\ o.height >= 1
      BY <1>6, <2>1 DEF Meets, Allowed
    <2>3. {<<Top.pc + 1, Used(o, 1)>>, <<Ins.a, Used(o, 1)>>}
            \subseteq Leads(image, y, Code(Top), Top.pc, Ins, o)
      BY <1>6, <2>1 DEF Leads
    <2>. QED  BY <2>2, <2>3, LeadsTo
  <1>7. ASSUME Ins.op = "BO_QUA"
        PROVE  /\ ScanFor(Code(Top), "CAP_NHAT", Top.pc + 1) # Len(Code(Top))
               /\ Reaches(s[Top.code], ScanFor(Code(Top), "CAP_NHAT", Top.pc + 1) + 1, o)
    <2>1. Ins.op \notin Plain
      BY <1>7, PlainOrNot DEF NotPlain
    <2>2. ScanFor(Code(Top), "CAP_NHAT", Top.pc + 1) # Len(Code(Top))
      BY <1>7, <2>1 DEF Meets, Allowed
    <2>3. <<ScanFor(Code(Top), "CAP_NHAT", Top.pc + 1) + 1, o>>
            \in Leads(image, y, Code(Top), Top.pc, Ins, o)
      BY <1>7, <2>1 DEF Leads
    <2>. QED  BY <2>2, <2>3, LeadsTo
  <1>. QED  BY <1>2, <1>3, <1>4, <1>5, <1>6, <1>7
-----------------------------------------------------------------------------
(* Instruction by instruction: the machine meets no fault and stays with    *)
(* the outlines.                                                            *)

LEMMA Lands ==
  ASSUME NEW y, NEW s, Secure(y, s), Executing,
         NEW b, Twin(Top, b), NEW p \in Outlines, Fits(b, p),
         NEW target, Reaches(s[Top.code], target, p),
         vms' = [vms EXCEPT ![Len(vms)] = [b EXCEPT !.pc = target]],
         UNCHANGED <<image, status, fault>>
  PROVE  Held(y, s)'
  <1>1. PICK c : c = [b EXCEPT !.pc = target]
    OBVIOUS
  <1>2. IsActivation(b) /\ b.code = Top.code
    BY DEF Twin
  <1>3. /\ Twin(b, c) /\ c.pc = target /\ c.stack = b.stack
        /\ c.blocks = b.blocks /\ c.switches = b.switches /\ c.tries = b.tries
    BY <1>1, <1>2 DEF Twin, IsActivation
  <1>4. Twin(Top, c)
    BY <1>3 DEF Twin
  <1>5. Fits(c, p)
    BY <1>3 DEF Fits, Twin, Code
  <1>6. Top.code \in DOMAIN image.code /\ c.code = Top.code
    BY <1>4, TopStands DEF Twin, Stands
  <1>7. Stands(s, c)
    BY <1>3, <1>5, <1>6, Arrives DEF Secure
  <1>. QED  BY <1>1, <1>4, <1>7, HeldStays DEF Secure

LEMMA Going ==
  ASSUME NEW y, NEW s, Secure(y, s), Executing,
         NEW b, Twin(Top, b), NEW p \in Outlines, Fits(b, p),
         NEW target, Reaches(s[Top.code], target, p), Goto(b, target)
  PROVE  Held(y, s)'
  BY Lands DEF Goto

LEMMA Breaks ==
  ASSUME NEW y, NEW s, Secure(y, s), NEW a, NEW p \in Outlines, Fits(a, p),
         NEW what, what \notin {"internal", "range"}, Throw(a, what)
  PROVE  Held(y, s)'
  BY HeldThrows, FitsRestorable DEF Secure

\* c is a with n values popped, but for its variables and its frames
Drops(a, n, c) == IF n = 0 THEN Keeps(a, c) ELSE Keeps(Pop(a, n), c)

LEMMA KeepsSelf == ASSUME NEW a, IsActivation(a) PROVE Keeps(a, a) /\ Drops(a, 0, a)
  BY DEF Keeps, Drops

LEMMA PopActivation ==
  ASSUME NEW a, IsActivation(a), NEW n \in Nat \ {0}
  PROVE  IsActivation(Pop(a, n)) /\ Drops(a, n, Pop(a, n))
  <1>1. IsActivation(Pop(a, n))
    BY KinSelf, KinPop DEF Kin
  <1>. QED  BY <1>1, KeepsSelf DEF Drops

LEMMA FitsDrops ==
  ASSUME NEW a, IsActivation(a), NEW o \in Outlines, Fits(a, o), NEW n \in 0..o.height,
         NEW c, Drops(a, n, c)
  PROVE  Twin(a, c) /\ c.pc = a.pc /\ Fits(c, Used(o, n)) /\ Used(o, n) \in Outlines
  <1>1. CASE n = 0
    <2>1. PICK z : z = 0
      OBVIOUS
    <2>2. PICK p : p = Used(o, z)
      OBVIOUS
    <2>3. z \in 0..o.height /\ o.height \in Nat
      BY <2>1, OutlineFields
    <2>4. /\ p \in Outlines /\ p.height = o.height - z /\ p.slot = FALSE
          /\ p.blocks = o.blocks /\ p.offs = o.offs /\ p.tries = o.tries
      BY <2>2, <2>3, UsedOutline
    <2>5. Covers(p, o)
      BY <2>1, <2>3, <2>4, OutlineFields DEF Covers
    <2>6. Keeps(a, c)
      BY <1>1 DEF Drops
    <2>7. Fits(c, p)
      BY <2>4, <2>5, <2>6, FitsLess, KeepsFits
    <2>. QED  BY <1>1, <2>1, <2>2, <2>4, <2>6, <2>7 DEF Keeps, Twin
  <1>2. CASE n # 0
    <2>1. PICK b : b = Pop(a, n)
      OBVIOUS
    <2>2. Twin(a, b) /\ b.pc = a.pc /\ Fits(b, Used(o, n)) /\ Used(o, n) \in Outlines
      BY <2>1, FitsPop
    <2>3. Keeps(b, c)
      BY <1>2, <2>1 DEF Drops
    <2>4. Fits(c, Used(o, n))
      BY <2>2, <2>3, KeepsFits
    <2>. QED  BY <2>2, <2>3, <2>4 DEF Keeps, Twin
  <1>. QED  BY <1>1, <1>2

LEMMA TakesOf ==
  ASSUME NEW op
  PROVE  /\ op \in Constants \cup {"TEN_BIEN_GIA_TRI"} => Takes(op) = 0 /\ Leaves(op)
         /\ op \in BinaryOps => Takes(op) = 2 /\ Leaves(op) /\ op # "TEN_BIEN_ID"
         /\ op \in {"PHU_DINH", "KHONG", "CONG_MOT", "TRU_MOT"} => Takes(op) = 1 /\ Leaves(op)
         /\ op \in {"BAT_LOI", "IN"} => Takes(op) = 1 /\ ~Leaves(op)
         /\ op = "GAN" => Takes(op) = 2 /\ ~Leaves(op)
         /\ op \in {"KHOI_TAO", "PARAM", "PARAM_MAC_DINH"} \cup Markers =>
              Takes(op) = 0 /\ ~Leaves(op)
  BY DEF Takes, Leaves, Constants, BinaryOps, Markers

LEMMA PlainOps ==
  ASSUME NEW op
  PROVE  /\ op \in Constants \cup BinaryOps \cup Markers => op \in Plain
         /\ op \in {"PHU_DINH", "KHONG", "CONG_MOT", "TRU_MOT", "BAT_LOI", "IN", "GAN"}
              => op \in Plain
         /\ op \in {"KHOI_TAO", "PARAM", "PARAM_MAC_DINH", "TEN_BIEN_GIA_TRI"} => op \in Plain
  BY DEF Plain, ToSlots

\* what a plain instruction may come to
LEMMA Works ==
  ASSUME NEW y, NEW s, Secure(y, s), NEW o, Meets(y, s, o), Ins.op \in Plain,
         NEW n \in Nat, n = Takes(Ins.op)
  PROVE  /\ Holds(Top, n) /\ Fed(image, Ins, o) /\ IsActivation(Top)
         /\ \A c : Drops(Top, n, c) => /\ Twin(Top, c) /\ Fits(c, Used(o, n))
                                       /\ Used(o, n) \in Outlines
         /\ \A c : Drops(Top, n, c) /\ Throw(c, "value") => Held(y, s)'
         /\ \A c : Drops(Top, n, c) /\ ~Leaves(Ins.op) /\ Advance(c) => Held(y, s)'
         /\ \A c, v : /\ Drops(Top, n, c) /\ Leaves(Ins.op)
                      /\ Ins.op = "TEN_BIEN_ID" => IsInt(v)
                      /\ Advance(Push(c, v))
                      => Held(y, s)'
  <1>1. /\ Executing /\ IsActivation(Top) /\ o \in Outlines /\ Fits(Top, o)
    BY DEF Meets
  <1>2. Fed(image, Ins, o) /\ Reaches(s[Top.code], Top.pc + 1, Worked(o, Ins.op))
    BY MeetsPlain
  <1>3. n \in 0..o.height
    BY <1>1, <1>2, OutlineFields DEF Fed
  <1>4. Holds(Top, n)
    BY <1>1, <1>3, FitsHolds
  <1>5. ASSUME NEW c, Drops(Top, n, c)
        PROVE  Twin(Top, c) /\ Fits(c, Used(o, n)) /\ Used(o, n) \in Outlines
    BY <1>1, <1>3, <1>5, FitsDrops
  <1>6. ASSUME NEW c, Drops(Top, n, c), Throw(c, "value") PROVE Held(y, s)'
    BY <1>5, <1>6, Breaks
  <1>7. ASSUME NEW c, Drops(Top, n, c), ~Leaves(Ins.op), Advance(c) PROVE Held(y, s)'
    <2>1. Worked(o, Ins.op) = Used(o, n)
      BY <1>7 DEF Worked
    <2>. QED  BY <1>1, <1>2, <1>5, <1>7, <2>1, Going DEF Advance
  <1>8. ASSUME NEW c, NEW v, Drops(Top, n, c), Leaves(Ins.op),
               Ins.op = "TEN_BIEN_ID" => IsInt(v), Advance(Push(c, v))
        PROVE  Held(y, s)'
    <2>1. PICK slot \in BOOLEAN : slot <=> Ins.op = "TEN_BIEN_ID"
      OBVIOUS
    <2>2. Worked(o, Ins.op) = Given(Used(o, n), slot)
      <3>1. (Ins.op = "TEN_BIEN_ID") = slot
        BY <2>1
      <3>. QED  BY <1>8, <3>1 DEF Worked
    <2>3. Twin(Top, c) /\ IsActivation(c) /\ Fits(c, Used(o, n)) /\ Used(o, n) \in Outlines
      BY <1>5, <1>8 DEF Twin
    <2>4. PICK b : b = Push(c, v)
      OBVIOUS
    <2>5. PICK q : q = Used(o, n)
      OBVIOUS
    <2>6. /\ Twin(c, b) /\ Fits(b, Given(q, slot)) /\ Given(q, slot) \in Outlines
      BY <1>8, <2>1, <2>3, <2>4, <2>5, FitsPush
    <2>7. Twin(Top, b)
      BY <2>3, <2>6 DEF Twin
    <2>. QED  BY <1>1, <1>2, <1>8, <2>2, <2>4, <2>5, <2>6, <2>7, Going DEF Advance
  <1>. QED  BY <1>1, <1>2, <1>4, <1>5, <1>6, <1>7, <1>8

LEMMA ConstantHeld ==
  ASSUME NEW y, NEW s, Secure(y, s), OpConstant PROVE Held(y, s)'
  <1>1. HasCode /\ Ins.op \in Constants
    BY DEF OpConstant, At, Constants
  <1>2. PICK o : Meets(y, s, o)
    BY <1>1, MeetsOne
  <1>3. Ins.op \in Plain /\ Takes(Ins.op) = 0 /\ Leaves(Ins.op) /\ 0 \in Nat
    BY <1>1, PlainOps, TakesOf
  <1>4. IsActivation(Top) /\ Drops(Top, 0, Top)
    BY <1>2, KeepsSelf DEF Meets
  <1>5. ASSUME NEW v, Advance(Push(Top, v)), Ins.op = "TEN_BIEN_ID" => IsInt(v)
        PROVE  Held(y, s)'
    BY <1>2, <1>3, <1>4, <1>5, Works
  <1>6. Fed(image, Ins, o)
    BY <1>2, <1>3, MeetsPlain
  <1>7. CASE At("CHUOI")
    <2>1. Ins.op = "CHUOI" /\ Ins.b + 1 \in DOMAIN image.pool
      BY <1>6, <1>7 DEF At, Fed
    <2>2. Advance(Push(Top, StrV(image.pool[Ins.b + 1])))
      BY <2>1 DEF OpConstant, At
    <2>. QED  BY <2>1, <2>2, <1>5
  <1>8. CASE At("TEN_BIEN_ID")
    <2>1. Ins.op = "TEN_BIEN_ID"
      BY <1>8 DEF At
    <2>2. Advance(Push(Top, IntV(Ins.b))) /\ IsInt(IntV(Ins.b))
      BY <2>1 DEF OpConstant, At, IsInt, IntV
    <2>. QED  BY <2>2, <1>5
  <1>9. CASE ~At("CHUOI") /\ ~At("TEN_BIEN_ID")
    <2>1. Ins.op # "TEN_BIEN_ID"
      BY <1>1, <1>9 DEF At
    <2>. QED  BY <1>5, <1>9, <2>1 DEF OpConstant
  <1>. QED  BY <1>7, <1>8, <1>9

LEMMA BinaryHeld ==
  ASSUME NEW y, NEW s, Secure(y, s), OpBinary PROVE Held(y, s)'
  <1>1. HasCode /\ Ins.op \in BinaryOps
    BY DEF OpBinary
  <1>2. PICK o : Meets(y, s, o)
    BY <1>1, MeetsOne
  <1>3. /\ Ins.op \in Plain /\ Takes(Ins.op) = 2 /\ Leaves(Ins.op) /\ Ins.op # "TEN_BIEN_ID"
        /\ 2 \in Nat \ {0}
    BY <1>1, PlainOps, TakesOf
  <1>4. IsActivation(Top) /\ Drops(Top, 2, Pop(Top, 2))
    BY <1>2, <1>3, PopActivation DEF Meets
  <1>5. Holds(Top, 2)
    BY <1>2, <1>3, Works
  <1>6. ASSUME NEW v, Advance(Push(Pop(Top, 2), v)) PROVE Held(y, s)'
    BY <1>2, <1>3, <1>4, <1>6, Works
  <1>7. ASSUME Throw(Pop(Top, 2), "value") PROVE Held(y, s)'
    BY <1>2, <1>3, <1>4, <1>7, Works
  <1>. QED  BY <1>5, <1>6, <1>7 DEF OpBinary

LEMMA NegationHeld ==
  ASSUME NEW y, NEW s, Secure(y, s), OpPhuDinh \/ OpKhong PROVE Held(y, s)'
  <1>1. HasCode /\ Ins.op \in {"PHU_DINH", "KHONG"}
    BY DEF OpPhuDinh, OpKhong, At
  <1>2. PICK o : Meets(y, s, o)
    BY <1>1, MeetsOne
  <1>3. /\ Ins.op \in Plain /\ Takes(Ins.op) = 1 /\ Leaves(Ins.op) /\ Ins.op # "TEN_BIEN_ID"
        /\ 1 \in Nat \ {0}
    BY <1>1, PlainOps, TakesOf
  <1>4. IsActivation(Top) /\ Drops(Top, 1, Pop(Top, 1))
    BY <1>2, <1>3, PopActivation DEF Meets
  <1>5. Holds(Top, 1)
    BY <1>2, <1>3, Works
  <1>6. ASSUME NEW v, Advance(Push(Pop(Top, 1), v)) PROVE Held(y, s)'
    BY <1>2, <1>3, <1>4, <1>6, Works
  <1>7. ASSUME Throw(Pop(Top, 1), "value") PROVE Held(y, s)'
    BY <1>2, <1>3, <1>4, <1>7, Works
  <1>. QED  BY <1>5, <1>6, <1>7 DEF OpPhuDinh, OpKhong

LEMMA VariableHeld ==
  ASSUME NEW y, NEW s, Secure(y, s), OpKhoiTao \/ OpTenBienGiaTri \/ OpParam PROVE Held(y, s)'
  <1>1. HasCode /\ Ins.op \in {"KHOI_TAO", "TEN_BIEN_GIA_TRI", "PARAM", "PARAM_MAC_DINH"}
    BY DEF OpKhoiTao, OpTenBienGiaTri, OpParam, At
  <1>2. PICK o : Meets(y, s, o)
    BY <1>1, MeetsOne
  <1>3. Ins.op \in Plain /\ Takes(Ins.op) = 0 /\ 0 \in Nat /\ Ins.op # "TEN_BIEN_ID"
    BY <1>1, PlainOps, TakesOf
  <1>4. IsActivation(Top) /\ \A c : Keeps(Top, c) => Drops(Top, 0, c)
    BY <1>2 DEF Meets, Drops
  <1>5. CASE OpTenBienGiaTri
    <2>1. PICK c : c = IF IsLocal(Top, Ins.b) THEN Top
                       ELSE SetGlobal(Top, Ins.b, Global(Top, Ins.b))
      OBVIOUS
    <2>2. Advance(Push(c, Variable(Top, Ins.b))) /\ Ins.op = "TEN_BIEN_GIA_TRI"
      BY <1>5, <2>1 DEF OpTenBienGiaTri, At
    <2>3. Drops(Top, 0, c)
      BY <1>4, <2>1, KeepsSelf, KeepsSetGlobal
    <2>4. Leaves(Ins.op)
      BY <2>2, TakesOf
    <2>. QED  BY <1>2, <1>3, <2>2, <2>3, <2>4, Works
  <1>6. ASSUME NEW c, Keeps(Top, c), Advance(c), Ins.op # "TEN_BIEN_GIA_TRI" PROVE Held(y, s)'
    <2>1. ~Leaves(Ins.op)
      BY <1>1, <1>6, TakesOf
    <2>. QED  BY <1>2, <1>3, <1>4, <1>6, <2>1, Works
  <1>7. CASE OpKhoiTao
    <2>0. Ins.op = "KHOI_TAO"
      BY <1>7 DEF OpKhoiTao, At
    <2>1. CASE InFrame(Top)
      BY <1>4, <1>6, <1>7, <2>0, <2>1, KeepsSetLocal DEF OpKhoiTao
    <2>2. CASE ~InFrame(Top) /\ IsGlobal(Top, Ins.b)
      BY <1>4, <1>6, <1>7, <2>0, <2>2, KeepsSelf DEF OpKhoiTao
    <2>3. CASE ~InFrame(Top) /\ ~IsGlobal(Top, Ins.b)
      BY <1>4, <1>6, <1>7, <2>0, <2>3, KeepsSetGlobal DEF OpKhoiTao
    <2>. QED  BY <2>1, <2>2, <2>3
  <1>8. CASE OpParam
    <2>1. Ins.op \in {"PARAM", "PARAM_MAC_DINH"}
      BY <1>8 DEF OpParam, At
    <2>2. Ins.op = "PARAM_MAC_DINH" =>
             Ins.a + 1 \in DOMAIN image.pool /\ DefaultOf(image.pool[Ins.a + 1]) # <<>>
      BY <1>2, <1>3, MeetsPlain DEF Fed
    <2>3. PICK d : Advance(BindParam(Top, d))
      BY <1>8, <2>2 DEF OpParam, At
    <2>. QED  BY <1>4, <1>6, <2>1, <2>3, KeepsBindParam
  <1>. QED  BY <1>5, <1>7, <1>8

\* the slot an assignment or a ++ finds on the stack
LEMMA SlotOnTop ==
  ASSUME NEW y, NEW s, NEW o, Meets(y, s, o), Ins.op \in ToSlots
  PROVE  IsInt(Peek(Top, 0))
  <1>1. Ins.op \in Plain
    BY DEF Plain
  <1>2. o.slot /\ o \in Outlines /\ Fits(Top, o)
    BY <1>1, MeetsPlain DEF Fed, Meets
  <1>3. Slotted(Top.stack, o.slot) /\ Len(Top.stack) \in Nat
    BY <1>2, FitsSize DEF Fits
  <1>. QED  BY <1>2, <1>3 DEF Slotted, Peek

LEMMA AssignHeld ==
  ASSUME NEW y, NEW s, Secure(y, s), OpGan PROVE Held(y, s)'
  <1>1. HasCode /\ Ins.op = "GAN"
    BY DEF OpGan, At
  <1>2. PICK o : Meets(y, s, o)
    BY <1>1, MeetsOne
  <1>3. Ins.op \in Plain /\ Takes(Ins.op) = 2 /\ ~Leaves(Ins.op) /\ 2 \in Nat \ {0}
    BY <1>1, PlainOps, TakesOf
  <1>4. Holds(Top, 2) /\ IsActivation(Pop(Top, 2))
    BY <1>2, <1>3, Works, PopActivation
  <1>5. IsInt(Peek(Top, 0))
    BY <1>1, <1>2, SlotOnTop DEF ToSlots
  <1>6. ~IsStr(Peek(Top, 0))
    BY <1>5 DEF IsInt, IsStr
  <1>7. Advance(Assign(Pop(Top, 2), Peek(Top, 0)[2], Peek(Top, 1)))
    BY <1>4, <1>5, <1>6 DEF OpGan
  <1>8. PICK c : c = Assign(Pop(Top, 2), Peek(Top, 0)[2], Peek(Top, 1))
    OBVIOUS
  <1>9. Drops(Top, 2, c)
    BY <1>4, <1>8, KeepsAssign DEF Drops
  <1>. QED  BY <1>2, <1>3, <1>7, <1>8, <1>9, Works

LEMMA IncrementHeld ==
  ASSUME NEW y, NEW s, Secure(y, s), OpCongMot PROVE Held(y, s)'
  <1>1. HasCode /\ Ins.op \in {"CONG_MOT", "TRU_MOT"}
    BY DEF OpCongMot
  <1>2. PICK o : Meets(y, s, o)
    BY <1>1, MeetsOne
  <1>3. /\ Ins.op \in Plain /\ Takes(Ins.op) = 1 /\ Leaves(Ins.op) /\ Ins.op # "TEN_BIEN_ID"
        /\ 1 \in Nat \ {0}
    BY <1>1, PlainOps, TakesOf
  <1>4. Holds(Top, 1) /\ IsActivation(Pop(Top, 1)) /\ Drops(Top, 1, Pop(Top, 1))
    BY <1>2, <1>3, Works, PopActivation
  <1>5. IsInt(Peek(Top, 0))
    BY <1>1, <1>2, SlotOnTop DEF ToSlots
  <1>6. PICK slot, a : slot = Peek(Top, 0)[2] /\ a = Pop(Top, 1)
    OBVIOUS
  <1>7. \/ Throw(a, "value")
        \/ \E v : Advance(Push(IF IsLocal(a, slot) THEN SetLocal(a, slot, v)
                                ELSE SetGlobal(a, slot, v), v))
    BY <1>4, <1>5, <1>6 DEF OpCongMot
  <1>8. CASE Throw(a, "value")
    BY <1>2, <1>3, <1>4, <1>6, <1>8, Works
  <1>9. ASSUME NEW v, Advance(Push(IF IsLocal(a, slot) THEN SetLocal(a, slot, v)
                                   ELSE SetGlobal(a, slot, v), v))
        PROVE  Held(y, s)'
    <2>1. PICK c : c = IF IsLocal(a, slot) THEN SetLocal(a, slot, v) ELSE SetGlobal(a, slot, v)
      OBVIOUS
    <2>2. Keeps(a, c)
      BY <1>4, <1>6, <2>1, KeepsSetLocal, KeepsSetGlobal DEF IsLocal
    <2>3. Drops(Top, 1, c)
      BY <1>6, <2>2 DEF Drops
    <2>. QED  BY <1>2, <1>3, <1>9, <2>1, <2>3, Works
  <1>. QED  BY <1>7, <1>8, <1>9

LEMMA CaughtHeld ==
  ASSUME NEW y, NEW s, Secure(y, s), OpBatLoi PROVE Held(y, s)'
  <1>1. HasCode /\ Ins.op = "BAT_LOI"
    BY DEF OpBatLoi, At
  <1>2. PICK o : Meets(y, s, o)
    BY <1>1, MeetsOne
  <1>3. Ins.op \in Plain /\ Takes(Ins.op) = 1 /\ ~Leaves(Ins.op) /\ 1 \in Nat \ {0}
    BY <1>1, PlainOps, TakesOf
  <1>4. Holds(Top, 1) /\ IsActivation(Pop(Top, 1))
    BY <1>2, <1>3, Works, PopActivation
  <1>5. PICK c : c = Caught(Pop(Top, 1), Peek(Top, 0))
    OBVIOUS
  <1>6. Keeps(Pop(Top, 1), c)
    BY <1>4, <1>5, KeepsSelf, KeepsSetGlobal DEF Caught
  <1>7. Drops(Top, 1, c)
    BY <1>6 DEF Drops
  <1>8. Advance(c)
    BY <1>4, <1>5 DEF OpBatLoi
  <1>. QED  BY <1>2, <1>3, <1>7, <1>8, Works

LEMMA OutputHeld ==
  ASSUME NEW y, NEW s, Secure(y, s), OpIn PROVE Held(y, s)'
  <1>1. HasCode /\ Ins.op = "IN"
    BY DEF OpIn, At
  <1>2. PICK o : Meets(y, s, o)
    BY <1>1, MeetsOne
  <1>3. Ins.op \in Plain /\ Takes(Ins.op) = 1 /\ ~Leaves(Ins.op) /\ 1 \in Nat \ {0}
    BY <1>1, PlainOps, TakesOf
  <1>4. PICK c : c = Pop(Top, 1)
    OBVIOUS
  <1>5. Holds(Top, 1) /\ Twin(Top, c) /\ Fits(c, Used(o, 1)) /\ Used(o, 1) \in Outlines
    <2>1. IsActivation(Top)
      BY <1>2 DEF Meets
    <2>2. Drops(Top, 1, Pop(Top, 1))
      BY <1>3, <2>1, PopActivation
    <2>. QED  BY <1>2, <1>3, <1>4, <2>2, Works
  <1>6. c.pc = Top.pc
    BY <1>2, <1>4 DEF Meets, Pop, IsActivation
  <1>7. Reaches(s[Top.code], Top.pc + 1, Used(o, 1))
    BY <1>2, <1>3, MeetsPlain DEF Worked
  <1>8. vms' = [vms EXCEPT ![Len(vms)] = [c EXCEPT !.pc = Top.pc + 1]]
    <2>1. [c EXCEPT !.pc = @ + 1] = [c EXCEPT !.pc = Top.pc + 1]
      BY <1>6
    <2>. QED  BY <1>4, <1>5, <2>1 DEF OpIn
  <1>9. UNCHANGED <<image, status, fault>> /\ Executing
    BY <1>2, <1>5 DEF OpIn, Meets
  <1>. QED  BY <1>5, <1>7, <1>8, <1>9, Lands

LEMMA MarkerHeld ==
  ASSUME NEW y, NEW s, Secure(y, s), OpMarker PROVE Held(y, s)'
  <1>1. HasCode /\ Ins.op \in Markers
    BY DEF OpMarker
  <1>2. PICK o : Meets(y, s, o)
    BY <1>1, MeetsOne
  <1>3. Ins.op \in Plain /\ Takes(Ins.op) = 0 /\ ~Leaves(Ins.op) /\ 0 \in Nat
    BY <1>1, PlainOps, TakesOf
  <1>4. Drops(Top, 0, Top)
    BY <1>2, KeepsSelf DEF Meets
  <1>. QED  BY <1>2, <1>3, <1>4, Works DEF OpMarker

LEMMA SwitchHeld ==
  ASSUME NEW y, NEW s, Secure(y, s), OpChon \/ OpCa \/ OpMacDinh PROVE Held(y, s)'
  <1>1. HasCode
    BY DEF OpChon, OpCa, OpMacDinh, At
  <1>2. PICK o : Meets(y, s, o)
    BY <1>1, MeetsOne
  <1>3. Executing /\ IsActivation(Top) /\ o \in Outlines /\ Fits(Top, o)
    BY <1>2 DEF Meets
  <1>4. CASE OpChon
    <2>1. o.height >= 1 /\ Reaches(s[Top.code], Top.pc + 1, Chosen(o))
      BY <1>2, <1>4, MeetsSwitch DEF OpChon, At
    <2>2. Holds(Top, 1)
      <3>1. 1 \in 0..o.height
        BY <1>3, <2>1, OutlineFields
      <3>. QED  BY <1>3, <3>1, FitsHolds
    <2>3. PICK b : b = [Pop(Top, 1) EXCEPT
                          !.switches = Append(@, [value |-> Peek(Top, 0), skipping |-> TRUE,
                                                  matched |-> FALSE, depth |-> Top.blocks])]
      OBVIOUS
    <2>4. Advance(b)
      BY <1>4, <2>2, <2>3 DEF OpChon
    <2>5. Twin(Top, b) /\ Fits(b, Chosen(o)) /\ Chosen(o) \in Outlines
      BY <1>3, <2>1, <2>3, FitsChosen
    <2>. QED  BY <1>3, <2>1, <2>4, <2>5, Going DEF Advance
  <1>5. CASE OpCa \/ OpMacDinh
    <2>1. o.offs # <<>> /\ Reaches(s[Top.code], Top.pc + 1, o)
      BY <1>2, <1>5, MeetsSwitch DEF OpCa, OpMacDinh, At
    <2>2. Top.switches # <<>>
      BY <1>3, <2>1, FitsArm
    <2>3. ASSUME NEW taken, Advance(Arm(Top, taken)) PROVE Held(y, s)'
      <3>1. Twin(Top, Arm(Top, taken)) /\ Fits(Arm(Top, taken), o)
        BY <1>3, <2>1, FitsArm
      <3>. QED  BY <1>3, <2>1, <2>3, <3>1, Going DEF Advance
    <2>4. CASE OpMacDinh
      BY <2>2, <2>3, <2>4 DEF OpMacDinh
    <2>5. CASE OpCa
      <3>1. image.pool \in Seq(STRING) /\ Len(image.pool) \in Nat
        BY ImagesAssumption DEF Secure
      <3>2. Ins.b \in -1..(Len(image.pool) - 1)
        BY <1>2, <2>5, MeetsSwitch DEF OpCa, At
      <3>3. ~(Ins.b < -2) /\ Ins.b # -2 /\ ~(Ins.b >= Len(image.pool))
        BY <3>1, <3>2
      <3>5. \E taken : Advance(Arm(Top, taken))
        BY <2>2, <2>5, <3>3 DEF OpCa
      <3>. QED  BY <3>5, <2>3
    <2>. QED  BY <1>5, <2>4, <2>5
  <1>. QED  BY <1>4, <1>5

LEMMA BlockHeld ==
  ASSUME NEW y, NEW s, Secure(y, s), OpMoKhoi \/ OpDongKhoi PROVE Held(y, s)'
  <1>1. HasCode
    BY DEF OpMoKhoi, OpDongKhoi, At
  <1>2. PICK o : Meets(y, s, o)
    BY <1>1, MeetsOne
  <1>3. Executing /\ IsActivation(Top) /\ o \in Outlines /\ Fits(Top, o)
    BY <1>2 DEF Meets
  <1>4. CASE OpMoKhoi
    <2>1. Reaches(s[Top.code], Top.pc + 1, Opened(o))
      BY <1>2, <1>4, MeetsSwitch DEF OpMoKhoi, At
    <2>2. PICK b : b = [Top EXCEPT !.blocks = @ + 1]
      OBVIOUS
    <2>3. Advance(b)
      BY <1>4, <2>2 DEF OpMoKhoi
    <2>4. Twin(Top, b) /\ Fits(b, Opened(o)) /\ Opened(o) \in Outlines
      BY <1>3, <2>2, FitsOpened
    <2>. QED  BY <1>3, <2>1, <2>3, <2>4, Going DEF Advance
  <1>5. CASE OpDongKhoi
    <2>1. o.blocks >= 1 /\ Reaches(s[Top.code], Top.pc + 1, Closed(o))
      BY <1>2, <1>5, MeetsSwitch DEF OpDongKhoi, At
    <2>2. PICK b : b = CloseBlock(Top)
      OBVIOUS
    <2>3. Twin(Top, b) /\ Top.blocks # 0 /\ Fits(b, Closed(o)) /\ Closed(o) \in Outlines
      BY <1>3, <2>1, <2>2, FitsClosed
    <2>4. Advance(b)
      BY <1>5, <2>2, <2>3 DEF OpDongKhoi
    <2>. QED  BY <1>3, <2>1, <2>3, <2>4, Going DEF Advance
  <1>. QED  BY <1>4, <1>5

LEMMA TryHeld ==
  ASSUME NEW y, NEW s, Secure(y, s), OpThu \/ OpThuKetThuc PROVE Held(y, s)'
  <1>1. HasCode
    BY DEF OpThu, OpThuKetThuc, At
  <1>2. PICK o : Meets(y, s, o)
    BY <1>1, MeetsOne
  <1>3. /\ Executing /\ IsActivation(Top) /\ o \in Outlines /\ Fits(Top, o)
        /\ Len(Code(Top)) \in Nat
    BY <1>2 DEF Meets
  <1>4. CASE OpThu
    <2>1. PICK catch : catch = Ins.a
      OBVIOUS
    <2>2. /\ catch \in 0..(Len(Code(Top)) - 1)
          /\ Reaches(s[Top.code], Top.pc + 1, Guarded(o, catch))
      BY <1>2, <1>4, <2>1, MeetsJump DEF OpThu, At
    <2>3. PICK b : b = [Top EXCEPT !.tries = Append(@, [catch |-> catch,
                                                        depth |-> Len(Top.stack)])]
      OBVIOUS
    <2>4. Advance(b)
      BY <1>4, <2>1, <2>3 DEF OpThu
    <2>5. Twin(Top, b) /\ Fits(b, Guarded(o, catch)) /\ Guarded(o, catch) \in Outlines
      BY <1>3, <2>2, <2>3, FitsGuarded
    <2>. QED  BY <1>3, <2>2, <2>4, <2>5, Going DEF Advance
  <1>5. CASE OpThuKetThuc
    <2>1. o.tries # <<>> /\ Reaches(s[Top.code], Ins.a, Unguarded(o))
      BY <1>2, <1>5, MeetsJump DEF OpThuKetThuc, At
    <2>2. PICK b : b = [Top EXCEPT !.tries = IF @ = <<>> THEN @ ELSE Front(@)]
      OBVIOUS
    <2>3. Goto(b, Ins.a)
      BY <1>5, <2>2 DEF OpThuKetThuc
    <2>4. Twin(Top, b) /\ Fits(b, Unguarded(o)) /\ Unguarded(o) \in Outlines
      BY <1>3, <2>1, <2>2, FitsUnguarded
    <2>. QED  BY <1>3, <2>1, <2>3, <2>4, Going
  <1>. QED  BY <1>4, <1>5

\* ném: to the innermost thử of the activation, else out of the program
LEMMA ThrowHeld ==
  ASSUME NEW y, NEW s, Secure(y, s), OpNem PROVE Held(y, s)'
  <1>1. HasCode /\ Ins.op = "NEM"
    BY DEF OpNem, At
  <1>2. PICK o : Meets(y, s, o)
    BY <1>1, MeetsOne
  <1>3. Executing /\ IsActivation(Top) /\ o \in Outlines /\ Fits(Top, o)
    BY <1>2 DEF Meets
  <1>4. /\ o.height >= 1
        /\ o.tries # <<>> => Reaches(s[Top.code], Last(o.tries).catch, Thrown(o))
    BY <1>1, <1>2, MeetsJump
  <1>5. 1 \in 0..o.height
    BY <1>3, <1>4, OutlineFields
  <1>6. Holds(Top, 1)
    BY <1>3, <1>5, FitsHolds
  <1>7. PICK c, err : c = Pop(Top, 1) /\ err = Peek(Top, 0)
    OBVIOUS
  <1>8. Twin(Top, c) /\ Fits(c, Used(o, 1)) /\ Used(o, 1) \in Outlines
    BY <1>3, <1>5, <1>7, FitsPop
  <1>9. c.tries = Top.tries
    BY <1>3, <1>7 DEF Pop, IsActivation
  <1>10. PICK kept : kept = IF Len(c.stack) > Last(c.tries).depth
                              THEN Last(c.tries).depth ELSE Len(c.stack)
    OBVIOUS
  <1>11. PICK b : b = [c EXCEPT !.tries = Front(@), !.stack = Append(SubSeq(@, 1, kept), err)]
    OBVIOUS
  <1>12. IF c.tries = <<>> THEN Throw(c, "uncaught") ELSE Goto(b, Last(c.tries).catch)
    BY <1>6, <1>7, <1>10, <1>11 DEF OpNem
  <1>13. CASE c.tries = <<>>
    BY <1>8, <1>12, <1>13, Breaks
  <1>14. CASE c.tries # <<>>
    <2>1. o.tries # <<>>
      <3>1. Guards(Top.tries, Len(Top.stack), o.tries, o.height, Len(Code(Top)))
        BY <1>3 DEF Fits
      <3>. QED  BY <3>1, <1>3, <1>9, <1>14, FitsSize, OutlineFields, GuardsRestorable
    <2>2. Last(Top.tries).catch = Last(o.tries).catch
      BY <1>3, <2>1, FitsInnermost
    <2>3. Twin(Top, b) /\ Fits(b, Thrown(o)) /\ Thrown(o) \in Outlines
      BY <1>3, <1>4, <1>7, <1>10, <1>11, <2>1, FitsThrown
    <2>. QED  BY <1>3, <1>4, <1>9, <1>12, <1>14, <2>1, <2>2, <2>3, Going
  <1>. QED  BY <1>13, <1>14

LEMMA JumpHeld ==
  ASSUME NEW y, NEW s, Secure(y, s), OpJump \/ OpJumpIfFalse \/ OpBoQua PROVE Held(y, s)'
  <1>1. HasCode
    BY DEF OpJump, OpJumpIfFalse, OpBoQua, At
  <1>2. PICK o : Meets(y, s, o)
    BY <1>1, MeetsOne
  <1>3. /\ Executing /\ IsActivation(Top) /\ o \in Outlines /\ Fits(Top, o)
        /\ Len(Code(Top)) \in Nat
    BY <1>2 DEF Meets
  <1>4. Twin(Top, Top)
    BY <1>3 DEF Twin
  <1>5. CASE OpJump
    <2>1. Ins.a \in 0..(Len(Code(Top)) - 1) /\ Reaches(s[Top.code], Ins.a, o)
      BY <1>2, <1>5, MeetsJump DEF OpJump, At
    <2>2. InCode(Ins.a)
      BY <1>3, <2>1 DEF InCode
    <2>3. Goto(Top, Ins.a)
      BY <1>5, <2>2 DEF OpJump
    <2>. QED  BY <1>3, <1>4, <2>1, <2>3, Going
  <1>6. CASE OpJumpIfFalse
    <2>1. /\ Ins.a \in 0..(Len(Code(Top)) - 1) /\ o.height >= 1
          /\ Reaches(s[Top.code], Ins.a, Used(o, 1))
          /\ Reaches(s[Top.code], Top.pc + 1, Used(o, 1))
      BY <1>2, <1>6, MeetsJump DEF OpJumpIfFalse, At
    <2>2. InCode(Ins.a)
      BY <1>3, <2>1 DEF InCode
    <2>3. 1 \in 0..o.height
      BY <1>3, <2>1, OutlineFields
    <2>4. Holds(Top, 1)
      BY <1>3, <2>3, FitsHolds
    <2>5. PICK c, v : c = Pop(Top, 1) /\ v = Peek(Top, 0)
      OBVIOUS
    <2>6. Twin(Top, c) /\ Fits(c, Used(o, 1)) /\ Used(o, 1) \in Outlines
      BY <1>3, <2>3, <2>5, FitsPop
    <2>7. Throw(c, "value") \/ Advance(c) \/ Goto(c, Ins.a)
      <3>1. CASE ~IsInt(v)
        BY <1>6, <2>4, <2>5, <3>1 DEF OpJumpIfFalse
      <3>2. CASE IsInt(v) /\ v[2] # 0
        BY <1>6, <2>4, <2>5, <3>2 DEF OpJumpIfFalse
      <3>3. CASE IsInt(v) /\ v[2] = 0
        BY <1>6, <2>2, <2>4, <2>5, <3>3 DEF OpJumpIfFalse
      <3>. QED  BY <3>1, <3>2, <3>3
    <2>8. CASE Throw(c, "value")
      BY <2>6, <2>8, Breaks
    <2>9. CASE Advance(c)
      BY <1>3, <2>1, <2>6, <2>9, Going DEF Advance
    <2>10. CASE Goto(c, Ins.a)
      BY <1>3, <2>1, <2>6, <2>10, Going
    <2>. QED  BY <2>7, <2>8, <2>9, <2>10
  <1>7. CASE OpBoQua
    <2>1. PICK update : update = ScanFor(Code(Top), "CAP_NHAT", Top.pc + 1)
      OBVIOUS
    <2>2. update # Len(Code(Top)) /\ Reaches(s[Top.code], update + 1, o)
      BY <1>2, <1>7, <2>1, MeetsJump DEF OpBoQua, At
    <2>3. Goto(Top, update + 1)
      BY <1>7, <2>1, <2>2 DEF OpBoQua
    <2>. QED  BY <1>3, <1>4, <2>2, <2>3, Going
  <1>. QED  BY <1>5, <1>6, <1>7

\* instructions the discipline does not allow
LEMMA NeverMet ==
  ASSUME NEW y, NEW s, Secure(y, s) PROVE ~(OpGoiGianTiep \/ OpThoat \/ OpUnknown)
  <1>1. SUFFICES ASSUME OpGoiGianTiep \/ OpThoat \/ OpUnknown PROVE FALSE
    OBVIOUS
  <1>2. HasCode /\ Ins.op \in {"GOI_GIAN_TIEP", "THOAT", "999"}
    BY <1>1 DEF OpGoiGianTiep, OpThoat, OpUnknown, At
  <1>. QED  BY <1>2, MeetsOne, MeetsNone

LEMMA LookupFunctions ==
  ASSUME NEW im, NEW code, NEW ref PROVE Lookup(im, code, ref) \subseteq DOMAIN im.code
  <1>1. Functions(im) \subseteq DOMAIN im.code
    BY DEF Functions
  <1>2. \A n : Declared(im, code, n) \subseteq Functions(im)
    BY DEF Declared, Declares
  <1>. QED  BY <1>1, <1>2 DEF Lookup

LEMMA CallHeld ==
  ASSUME NEW y, NEW s, Secure(y, s), OpGoi PROVE Held(y, s)'
  <1>1. HasCode /\ Ins.op = "GOI"
    BY DEF OpGoi, At
  <1>2. PICK o : Meets(y, s, o)
    BY <1>1, MeetsOne
  <1>3. /\ Executing /\ IsActivation(Top) /\ o \in Outlines /\ Fits(Top, o)
        /\ Top.code \in DOMAIN image.code
    BY <1>2 DEF Meets
  <1>4. PICK n : n = Ins.a
    OBVIOUS
  <1>5. /\ n \in 0..o.height /\ Lookup(image, Code(Top), Ins.b) # {}
        /\ \A f \in Lookup(image, Code(Top), Ins.b) :
             Reaches(s[Top.code], Top.pc + 1, Answered(Used(o, n), y[f]))
    BY <1>1, <1>2, <1>4, MeetsGoi
  <1>6. (IF n < Len(Top.stack) THEN n ELSE Len(Top.stack)) = n
    BY <1>3, <1>5, FitsSize
  <1>7. PICK frame : frame = [args |-> PoppedArgs(Top.stack, n), locals |-> <<>>]
    OBVIOUS
  <1>8. PICK p : p = Pop(Top, n)
    OBVIOUS
  <1>9. PICK c : c = [p EXCEPT !.frames = Append(@, frame)]
    OBVIOUS
  <1>10. PICK f \in Lookup(image, Code(Top), Ins.b) :
           /\ vms' = Append([vms EXCEPT ![Len(vms)] = c],
                            Activation("call", f, Top.vars, <<frame>>))
           /\ UNCHANGED <<image, status, mods, nextMod, out, fault, runs>>
    <2>1. ~(n < 0)
      BY <1>3, <1>5, OutlineFields
    <2>2. Invoke(Top, n, Ins.b)
      BY <1>4 DEF OpGoi
    <2>3. \E f \in Lookup(image, Code(Top), Ins.b) :
            /\ vms' = Append([vms EXCEPT ![Len(vms)] =
                                [Pop(Top, IF n < Len(Top.stack) THEN n ELSE Len(Top.stack))
                                   EXCEPT !.frames = Append(@, frame)]],
                             Activation("call", f, Top.vars, <<frame>>))
            /\ UNCHANGED <<image, status, mods, nextMod, out, fault, runs>>
      BY <1>5, <1>7, <2>1, <2>2 DEF Invoke
    <2>. QED  BY <1>6, <1>8, <1>9, <2>3
  <1>11. /\ Twin(Top, p) /\ p.pc = Top.pc /\ Fits(p, Used(o, n)) /\ Used(o, n) \in Outlines
    BY <1>3, <1>5, <1>8, FitsPop
  <1>12. (Used(o, n)).slot = FALSE
    BY <1>3, <1>5, UsedOutline
  <1>13. /\ c.kind = p.kind /\ c.code = p.code /\ c.pc = p.pc /\ c.stack = p.stack
         /\ c.blocks = p.blocks /\ c.switches = p.switches /\ c.tries = p.tries
    BY <1>9, <1>11 DEF Twin, IsActivation
  <1>14. Fits(c, Used(o, n))
    BY <1>11, <1>13 DEF Fits, Code
  <1>15. /\ c.code = Top.code /\ c.pc = Top.pc /\ c.kind = Top.kind
    BY <1>11, <1>13 DEF Twin
  <1>16. Awaits(y, s, c, f)
    BY <1>3, <1>5, <1>11, <1>12, <1>14, <1>15 DEF Awaits
  <1>17. PICK b : b = Activation("call", f, Top.vars, <<frame>>)
    OBVIOUS
  <1>18. b.kind = "call" /\ b.code = f
    BY <1>17 DEF Activation
  <1>19. Started(y, s, c, b)
    BY <1>16, <1>18 DEF Started
  <1>20. Restorable(c)
    BY <1>11, <1>14, FitsRestorable
  <1>21. f \in DOMAIN image.code
    BY <1>10, LookupFunctions
  <1>22. status \in {"initializing", "running"}
    BY <1>3 DEF Executing
  <1>. QED  BY <1>10, <1>15, <1>17, <1>19, <1>20, <1>21, <1>22, HeldEnters DEF Secure

LEMMA AtTheEnd ==
  ASSUME NEW y, NEW s, Secure(y, s), Executing, ~HasCode, NEW o, o = s[Top.code][Top.pc]
  PROVE  /\ Fits(Top, o) /\ o \in Outlines /\ IsActivation(Top)
         /\ Ended(o, y[Top.code])
  <1>1. Stands(s, Top)
    BY TopStands
  <1>2. PICK k, pc : k = Top.code /\ pc = Top.pc
    OBVIOUS
  <1>3. k \in DOMAIN image.code /\ pc \in DOMAIN s[k] /\ Fits(Top, o)
    BY <1>1, <1>2 DEF Stands
  <1>4. Outlined(image, y, k, s[k])
    BY <1>3 DEF Secure, Follows
  <1>5. Len(image.code[k]) \in Nat
    BY <1>3, CodeOf DEF Secure
  <1>6. pc \notin 0..(Len(image.code[k]) - 1)
    BY <1>2 DEF HasCode, Code
  <1>7. pc \in 0..Len(image.code[k])
    BY <1>3, <1>4 DEF Outlined
  <1>8. pc = Len(image.code[k])
    BY <1>5, <1>6, <1>7
  <1>9. o \in Outlines /\ Ended(o, y[k])
    BY <1>2, <1>3, <1>4, <1>8 DEF Outlined
  <1>10. IsActivation(Top)
    BY TopActivation DEF Secure, IInv
  <1>. QED  BY <1>2, <1>3, <1>9, <1>10

\* what a vector leaves where it ends
LEMMA EndsHeld ==
  ASSUME NEW y, NEW s, Secure(y, s), EndOfCode PROVE Held(y, s)'
  <1>1. Executing /\ ~HasCode /\ Finish(Top)
    BY DEF EndOfCode
  <1>2. PICK o : o = s[Top.code][Top.pc]
    OBVIOUS
  <1>3. Fits(Top, o) /\ o \in Outlines /\ IsActivation(Top) /\ Ended(o, y[Top.code])
    BY <1>1, <1>2, AtTheEnd
  <1>4. y[Top.code] => Top.stack # <<>>
    <2>1. ASSUME y[Top.code] PROVE Len(Top.stack) > 0 /\ IsSequence(Top.stack)
      BY <1>3, <2>1, FitsSize DEF Ended
    <2>. QED  BY <2>1, SequenceBasics
  <1>5. Restorable(Top) /\ Twin(Top, Top)
    BY <1>3, FitsRestorable DEF Twin
  <1>. QED  BY <1>1, <1>4, <1>5, HeldFinishes DEF Secure

LEMMA ReturnHeld ==
  ASSUME NEW y, NEW s, Secure(y, s), OpDungChuongTrinh \/ OpTraVe PROVE Held(y, s)'
  <1>1. HasCode
    BY DEF OpDungChuongTrinh, OpTraVe, At
  <1>2. PICK o : Meets(y, s, o)
    BY <1>1, MeetsOne
  <1>3. Executing /\ IsActivation(Top) /\ o \in Outlines /\ Fits(Top, o)
    BY <1>2 DEF Meets
  <1>4. Restorable(Top) /\ Twin(Top, Top)
    BY <1>3, FitsRestorable DEF Twin
  <1>5. IsSequence(Top.stack) /\ Len(Top.stack) \in Nat /\ o.height <= Len(Top.stack)
    BY <1>3, FitsSize
  <1>6. CASE OpDungChuongTrinh
    <2>1. Stopped(o, y[Top.code]) /\ Finish(Top)
      BY <1>2, <1>6 DEF OpDungChuongTrinh, At, Meets
    <2>2. y[Top.code] => Top.stack # <<>>
      <3>1. ASSUME y[Top.code] PROVE Len(Top.stack) > 0
        BY <1>3, <1>5, <2>1, <3>1, OutlineFields DEF Stopped
      <3>. QED  BY <1>5, <3>1, SequenceBasics
    <2>. QED  BY <1>3, <1>4, <2>1, <2>2, HeldFinishes DEF Secure
  <1>7. CASE OpTraVe
    <2>1. CASE Top.stack # <<>>
      BY <1>3, <1>4, <1>7, <2>1, HeldFinishes DEF Secure, OpTraVe
    <2>2. CASE Top.stack = <<>>
      <3>1. PICK b : b = Push(Top, Zero)
        OBVIOUS
      <3>2. PICK no \in BOOLEAN : no = FALSE
        OBVIOUS
      <3>3. Twin(Top, b) /\ Fits(b, Given(o, no)) /\ Given(o, no) \in Outlines
        BY <1>3, <3>1, <3>2, FitsPush
      <3>4. b.stack # <<>>
        <4>1. b.stack = Append(Top.stack, Zero)
          BY <1>3, <3>1 DEF Push, IsActivation
        <4>2. IsSequence(b.stack) /\ Len(b.stack) = Len(Top.stack) + 1
          BY <1>5, <4>1, AppendSequence
        <4>. QED  BY <1>5, <4>2, SequenceBasics
      <3>5. Finish(b) /\ Restorable(b)
        BY <1>7, <2>2, <3>1, <3>3, FitsRestorable DEF OpTraVe
      <3>. QED  BY <1>3, <3>3, <3>4, <3>5, HeldFinishes DEF Secure
    <2>. QED  BY <2>1, <2>2
  <1>. QED  BY <1>6, <1>7
-----------------------------------------------------------------------------
(* initializeModules, and the invariant. *)

LEMMA LifecycleHeld ==
  ASSUME NEW y, NEW s, Secure(y, s), Tracked, Lifecycle PROVE Held(y, s)'
  <1>1. CASE SkipInitialized
    <2>1. UNCHANGED <<image, vms, status, fault>>
      BY <1>1 DEF SkipInitialized
    <2>. QED  BY <2>1 DEF Secure, Held, NoMachineFault, Restorable, Poised, Started, Stands,
                           Awaits, Fits, Code, Top
  <1>2. CASE RefuseFailed
    <2>1. Len(vms) = 1 /\ 1 \in 1..Len(vms) /\ Throw(vms[1], "module")
      BY <1>2 DEF RefuseFailed, InitLoop, Top
    <2>2. Restorable(vms[1])
      BY <2>1 DEF Secure, Held
    <2>. QED  BY <2>1, <2>2, HeldThrows DEF Secure
  <1>3. CASE BeginModule
    <2>1. /\ status = "initializing" /\ Len(vms) = 1 /\ nextMod <= Len(mods)
          /\ vms' = Append(vms, Activation("init", Initializer(nextMod), Top.vars, <<>>))
          /\ UNCHANGED <<image, status, fault>>
      BY <1>3 DEF BeginModule, InitLoop
    <2>2. Initializer(nextMod) \in DOMAIN image.code
      <3>1. nextMod \in 1..image.inits
        BY <2>1 DEF Secure, IInv, Modular, Typed, Tracked
      <3>. QED  BY <3>1, ImagesAssumption DEF Secure
    <2>3. PICK c, k, globals, b : /\ c = Top /\ k = Initializer(nextMod) /\ globals = Top.vars
                                 /\ b = Activation("init", k, globals, <<>>)
      OBVIOUS
    <2>4. Stands(s, c)
      BY <2>1, <2>3 DEF Secure, Held, Poised
    <2>5. Restorable(c)
      BY <2>4, StandsRestorable DEF Secure
    <2>6. Started(y, s, c, b)
      BY <2>3, <2>4 DEF Started, Activation
    <2>7. vms = [vms EXCEPT ![Len(vms)] = c]
      BY <2>3 DEF Top, Secure, IInv, Shaped, IsSequence
    <2>8. vms' = Append([vms EXCEPT ![Len(vms)] = c], b)
      BY <2>1, <2>3, <2>7
    <2>. QED  BY <2>1, <2>2, <2>3, <2>5, <2>6, <2>8, HeldEnters DEF Secure
  <1>4. CASE ModulesReady
    <2>1. /\ UNCHANGED <<image, vms, fault>> /\ status = "initializing"
      BY <1>4 DEF ModulesReady
    <2>. QED  BY <2>1 DEF Secure, Held, NoMachineFault, Restorable, Poised, Started, Stands,
                           Awaits, Fits, Code, Top
  <1>. QED  BY <1>1, <1>2, <1>3, <1>4 DEF Lifecycle

LEMMA StepHeld ==
  ASSUME NEW y, NEW s, Secure(y, s), Step PROVE Held(y, s)'
  BY EndsHeld, ReturnHeld, CallHeld, NeverMet, ConstantHeld, BinaryHeld, NegationHeld,
     VariableHeld, AssignHeld, IncrementHeld, CaughtHeld, OutputHeld, MarkerHeld, SwitchHeld,
     BlockHeld, TryHeld, ThrowHeld, JumpHeld
     DEF Step

\* while the first run lasts, whoever vouches for the program
Vouched == runs = 1 => \A y, s : Follows(image, y, s) => Held(y, s)
SafeInv == IInv /\ Tracked /\ image \in Images /\ Vouched

LEMMA InitSafe == Init => SafeInv
  <1>. SUFFICES ASSUME Init PROVE SafeInv
    OBVIOUS
  <1>1. IInv /\ Tracked /\ image \in Images
    BY InitIInv, TrackedInit DEF Init
  <1>2. ASSUME NEW y, NEW s, Follows(image, y, s) PROVE Held(y, s)
    <2>1. PICK a : a = Activation("root", Main, NoVars, <<>>)
      OBVIOUS
    <2>2. Len(vms) = 1 /\ vms[1] = a /\ Top = a
      BY <2>1, Singleton DEF Init, Top
    <2>3. Main \in DOMAIN image.code
      BY <1>1, ImagesAssumption
    <2>4. Stands(s, a)
      BY <1>2, <2>1, <2>3, Begins
    <2>5. Restorable(a)
      BY <1>2, <2>4, StandsRestorable
    <2>. QED  BY <2>2, <2>4, <2>5 DEF Held, Poised, NoMachineFault, Init
  <1>. QED  BY <1>1, <1>2 DEF SafeInv, Vouched

LEMMA NextSafe == SafeInv /\ [Next]_vars => SafeInv'
  <1>. SUFFICES ASSUME SafeInv, [Next]_vars PROVE SafeInv'
    OBVIOUS
  <1>1. IInv' /\ Tracked'
    BY NextIInv, TrackedStep DEF SafeInv
  <1>2. image' = image
    <2>1. CASE Step
      BY <2>1, StepKeeps DEF SafeInv
    <2>2. CASE Lifecycle \/ Rerun
      BY <2>2, LifecycleKeeps DEF SafeInv
    <2>. QED  BY <2>1, <2>2 DEF Next, vars
  <1>3. runs \in Nat /\ runs >= 1
    BY ImagesAssumption DEF SafeInv, Tracked
  <1>4. ASSUME runs' = 1, NEW y, NEW s, Follows(image, y, s)' PROVE Held(y, s)'
    <2>1. Follows(image, y, s)
      BY <1>2, <1>4
    <2>2. ASSUME runs = 1 PROVE Secure(y, s)
      BY <2>1, <2>2 DEF SafeInv, Vouched, Secure
    <2>3. CASE Step
      <3>1. runs = 1
        BY <1>4, <2>3, StepKeeps DEF SafeInv
      <3>. QED  BY <2>2, <2>3, <3>1, StepHeld
    <2>4. CASE Lifecycle
      <3>1. runs = 1
        BY <1>4, <2>4 DEF Lifecycle, SkipInitialized, RefuseFailed, BeginModule, ModulesReady, Throw
      <3>. QED  BY <2>2, <2>4, <3>1, LifecycleHeld DEF SafeInv
    <2>5. CASE Rerun
      BY <1>3, <1>4, <2>5 DEF Rerun
    <2>6. CASE UNCHANGED vars
      <3>1. runs = 1
        BY <1>4, <2>6 DEF vars
      <3>. QED  BY <2>2, <2>6, <3>1
                DEF vars, Secure, Held, NoMachineFault, Restorable, Poised, Started, Stands,
                    Awaits, Fits, Code, Top
    <2>. QED  BY <2>3, <2>4, <2>5, <2>6 DEF Next
  <1>. QED  BY <1>1, <1>2, <1>4 DEF SafeInv, Vouched

LEMMA Safety == Spec => []SafeInv
  BY InitSafe, NextSafe, PTL DEF Spec

\* A first run of disciplined code never meets a fault of the machine's own:
\* the operands are there, the blocks and switches it closes are open, the
\* functions it calls and the targets it jumps to exist.
THEOREM DisciplinedCodeNeverFaults == Spec => [](runs = 1 /\ Disciplined(image) => NoMachineFault)
  <1>1. SafeInv => (runs = 1 /\ Disciplined(image) => NoMachineFault)
    BY DEF SafeInv, Vouched, Disciplined, Held
  <1>. QED  BY <1>1, Safety, PTL

\* In every activation of such a run, an open thử finds the stack at least as
\* high as when it was opened, and its handler is an instruction.
THEOREM DisciplinedHandlersReachable == Spec => [](runs = 1 /\ Disciplined(image) => HandlersReachable)
  <1>1. SafeInv => (runs = 1 /\ Disciplined(image) => HandlersReachable)
    <2>. SUFFICES ASSUME SafeInv, runs = 1, Disciplined(image) PROVE HandlersReachable
      OBVIOUS
    <2>1. \A i \in 1..Len(vms) : Restorable(vms[i])
      BY DEF SafeInv, Vouched, Disciplined, Held
    <2>2. DOMAIN vms = 1..Len(vms)
      BY SequenceBasics DEF SafeInv, IInv, Shaped
    <2>. QED  BY <2>1, <2>2 DEF HandlersReachable, Restorable
  <1>. QED  BY <1>1, Safety, PTL

\* Such code has closed every thử and every switch where a vector ends.
THEOREM DisciplinedVectorsEndClosed == Spec => [](runs = 1 /\ Disciplined(image) => ClosedAtEnd)
  <1>1. SafeInv => (runs = 1 /\ Disciplined(image) => ClosedAtEnd)
    <2>. SUFFICES ASSUME SafeInv, runs = 1, Disciplined(image), Executing, ~HasCode
                 PROVE  Top.tries = <<>> /\ Top.switches = <<>>
      BY DEF ClosedAtEnd
    <2>1. PICK y, s : Secure(y, s)
      BY DEF SafeInv, Vouched, Disciplined, Secure
    <2>2. PICK o : o = s[Top.code][Top.pc]
      OBVIOUS
    <2>3. Fits(Top, o) /\ o \in Outlines /\ Ended(o, y[Top.code])
      BY <2>1, <2>2, AtTheEnd
    <2>4. o.offs = <<>> /\ o.tries = <<>>
      BY <2>3 DEF Ended
    <2>5. Top.switches = <<>>
      BY <2>3, <2>4, OpensSome, OutlineFields DEF Fits
    <2>6. Top.tries = <<>>
      BY <2>3, <2>4, FitsSize, OutlineFields, GuardsRestorable DEF Fits
    <2>. QED  BY <2>5, <2>6
  <1>. QED  BY <1>1, Safety, PTL
================================================================================
