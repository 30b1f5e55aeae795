------------------------------ MODULE VmDiscipline ------------------------------
(***************************************************************************)
(* What the machine never does on code that opens and closes, pushes and   *)
(* pops in step: the faults of VmMachine that are the machine's own.       *)
(*                                                                         *)
(* run() checks its operands as it goes and nothing looks at a bytecode    *)
(* vector beforehand: that it may be run rests on how it was written.      *)
(* Follows says what is needed of it, instruction by instruction.          *)
(***************************************************************************)
EXTENDS VmMachine

\* Compiled code never meets a fault of the machine's own: operand stack
\* underflow, a block, switch or call it cannot resolve, a jump out of range.
NoMachineFault == fault \notin {"internal", "range"}

\* Every open thử remembers a stack height the activation has not gone below:
\* an exception can always restore the stack the handler was compiled for.
HandlersReachable ==
  \A i \in DOMAIN vms : \A h \in DOMAIN vms[i].tries :
    /\ vms[i].tries[h].depth <= Len(vms[i].stack)
    /\ vms[i].tries[h].catch \in 0..(Len(Code(vms[i])) - 1)

\* An activation that reaches the end of its code has closed every thử and
\* every switch it opened.
ClosedAtEnd ==
  (Executing /\ ~HasCode) => Top.tries = <<>> /\ Top.switches = <<>>
-----------------------------------------------------------------------------
(***************************************************************************)
(* An outline: what is known of an activation that comes to an instruction *)
(*   height  the values on its stack above those its innermost open thử    *)
(*           found there, at least                                         *)
(*   slot    the top one is an integer                                     *)
(*   blocks  the blocks open, at least                                     *)
(*   offs    for each open switch, the blocks opened since                 *)
(*   tries   for each open thử, its handler and the height it found        *)
(***************************************************************************)
Outlines == [height : Nat, slot : BOOLEAN, blocks : Nat, offs : Seq(Int),
             tries : Seq([catch : Int, height : Nat])]

Bare == [height |-> 0, slot |-> FALSE, blocks |-> 0, offs |-> <<>>, tries |-> <<>>]

\* what agrees with q agrees with p
Covers(p, q) ==
  /\ p.height <= q.height
  /\ p.slot => q.slot
  /\ p.blocks <= q.blocks
  /\ p.offs = q.offs
  /\ p.tries = q.tries

Used(o, n) == [o EXCEPT !.height = @ - n, !.slot = FALSE]
Given(o, slot) == [o EXCEPT !.height = @ + 1, !.slot = slot]

\* the instructions that only work on operands and variables
Constants == {"BIEN_SO", "TEN_BIEN_ID", "RONG_GIA_TRI", "DUNG_GIA_TRI", "SAI_GIA_TRI", "CHUOI"}
ToSlots == {"GAN", "CONG_MOT", "TRU_MOT"}
Plain == Constants \cup BinaryOps \cup Markers \cup ToSlots \cup
         {"PHU_DINH", "KHONG", "KHOI_TAO", "TEN_BIEN_GIA_TRI", "PARAM", "PARAM_MAC_DINH",
          "BAT_LOI", "IN"}

Takes(op) ==
  CASE op \in BinaryOps \cup {"GAN"} -> 2
    [] op \in {"PHU_DINH", "KHONG", "CONG_MOT", "TRU_MOT", "BAT_LOI", "IN"} -> 1
    [] OTHER -> 0
Leaves(op) == op \in Constants \cup BinaryOps \cup
                     {"PHU_DINH", "KHONG", "CONG_MOT", "TRU_MOT", "TEN_BIEN_GIA_TRI"}

Worked(o, op) == IF Leaves(op) THEN Given(Used(o, Takes(op)), op = "TEN_BIEN_ID")
                 ELSE Used(o, Takes(op))

Shifted(offs, d) == [i \in DOMAIN offs |-> offs[i] + d]

\* closing a block ends the innermost switch that stood in it
Closed(o) ==
  LET offs == Shifted(o.offs, -1)
  IN  [o EXCEPT !.blocks = @ - 1,
                !.offs = IF offs # <<>> /\ Last(offs) = -1 THEN Front(offs) ELSE offs]

Chosen(o) == [Used(o, 1) EXCEPT !.offs = Append(@, 0)]
Opened(o) == [o EXCEPT !.blocks = @ + 1, !.offs = Shifted(@, 1)]
Guarded(o, catch) == [o EXCEPT !.height = 0, !.slot = FALSE,
                               !.tries = Append(@, [catch |-> catch, height |-> o.height])]
Unguarded(o) == [o EXCEPT !.height = @ + Last(o.tries).height, !.tries = Front(@)]
Thrown(o) == [o EXCEPT !.height = Last(o.tries).height + 1, !.slot = FALSE, !.tries = Front(@)]
Answered(o, yields) == IF yields THEN Given(o, FALSE) ELSE o

(***************************************************************************)
(* What the instruction ins of a vector code needs where it meets o, and   *)
(* where it leads: pairs of a pc and the outline there.  yields says of    *)
(* each vector that a call of it always leaves a value.                    *)
(***************************************************************************)
Fed(im, ins, o) ==
  /\ o.height >= Takes(ins.op)
  /\ ins.op \in ToSlots => o.slot
  /\ ins.op = "CHUOI" => ins.b + 1 \in DOMAIN im.pool
  /\ ins.op = "PARAM_MAC_DINH" => ins.a + 1 \in DOMAIN im.pool /\ DefaultOf(im.pool[ins.a + 1]) # <<>>

Allowed(im, code, pc, ins, o) ==
  CASE ins.op \in Plain -> Fed(im, ins, o)
    [] ins.op \in {"TRA_VE", "DUNG_CHUONG_TRINH", "MO_KHOI"} -> TRUE
    [] ins.op = "GOI" -> ins.a \in 0..o.height /\ Lookup(im, code, ins.b) # {}
    [] ins.op \in {"CHON", "NEM"} -> o.height >= 1
    [] ins.op = "CA" -> o.offs # <<>> /\ ins.b \in -1..(Len(im.pool) - 1)
    [] ins.op = "MAC_DINH" -> o.offs # <<>>
    [] ins.op = "DONG_KHOI" -> o.blocks >= 1
    [] ins.op \in {"THU", "JUMP"} -> ins.a \in 0..(Len(code) - 1)
    [] ins.op = "JUMP_IF_FALSE" -> o.height >= 1 /\ ins.a \in 0..(Len(code) - 1)
    [] ins.op = "THU_KET_THUC" -> o.tries # <<>>
    [] ins.op = "BO_QUA" -> ScanFor(code, "CAP_NHAT", pc + 1) # Len(code)
    [] OTHER -> FALSE

Leads(im, yields, code, pc, ins, o) ==
  CASE ins.op \in Plain -> {<<pc + 1, Worked(o, ins.op)>>}
    [] ins.op = "GOI" ->
         {<<pc + 1, Answered(Used(o, ins.a), yields[f])>> : f \in Lookup(im, code, ins.b)}
    [] ins.op = "CHON" -> {<<pc + 1, Chosen(o)>>}
    [] ins.op \in {"CA", "MAC_DINH"} -> {<<pc + 1, o>>}
    [] ins.op = "MO_KHOI" -> {<<pc + 1, Opened(o)>>}
    [] ins.op = "DONG_KHOI" -> {<<pc + 1, Closed(o)>>}
    [] ins.op = "THU" -> {<<pc + 1, Guarded(o, ins.a)>>}
    [] ins.op = "THU_KET_THUC" -> {<<ins.a, Unguarded(o)>>}
    [] ins.op = "NEM" -> IF o.tries = <<>> THEN {} ELSE {<<Last(o.tries).catch, Thrown(o)>>}
    [] ins.op = "JUMP" -> {<<ins.a, o>>}
    [] ins.op = "JUMP_IF_FALSE" -> {<<pc + 1, Used(o, 1)>>, <<ins.a, Used(o, 1)>>}
    [] ins.op = "BO_QUA" -> {<<ScanFor(code, "CAP_NHAT", pc + 1) + 1, o>>}
    [] OTHER -> {}

\* what holds where a vector ends: by falling off its end, or by stopping there
Ended(o, yields) == o.offs = <<>> /\ o.tries = <<>> /\ (yields => o.height >= 1)
Stopped(o, yields) == yields => o.height >= 1

Reaches(at, pc, o) == pc \in DOMAIN at /\ Covers(at[pc], o)

\* at: pc -> outline, for every pc the machine can come to in code
Outlined(im, yields, k, at) ==
  LET code == im.code[k]
  IN  /\ DOMAIN at \subseteq 0..Len(code)
      /\ Reaches(at, 0, Bare)
      /\ \A pc \in DOMAIN at :
           /\ at[pc] \in Outlines
           /\ pc = Len(code) => Ended(at[pc], yields[k])
           /\ pc < Len(code) =>
                LET ins == code[pc + 1]
                IN  /\ Allowed(im, code, pc, ins, at[pc])
                    /\ ins.op = "DUNG_CHUONG_TRINH" => Stopped(at[pc], yields[k])
                    /\ \A to \in Leads(im, yields, code, pc, ins, at[pc]) :
                         Reaches(at, to[1], to[2])

\* outlines and yields vouch for each vector of the program
Follows(im, yields, outlines) ==
  \A k \in DOMAIN im.code : yields[k] \in BOOLEAN /\ Outlined(im, yields, k, outlines[k])

Disciplined(im) == \E yields, outlines : Follows(im, yields, outlines)
=============================================================================
