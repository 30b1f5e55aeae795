-------------------------------- MODULE JitPath --------------------------------
(***************************************************************************)
(* runJitCompiledLinear (runtime/vm.cpp): bytecode without control flow is  *)
(* turned into a list of lambdas over the VM's own stack, run from the      *)
(* first to the last; other bytecode is left to the interpreter.            *)
(***************************************************************************)
EXTENDS VmMachine

\* slip: the lambda of OP_DUNG_CHUONG_TRINH is empty, as those of the marks are
SilentEnd == {"DONG_LENH", "MO_NGOAC", "DONG_NGOAC", "DUNG_CHUONG_TRINH"}

Silent == {"DONG_LENH", "MO_NGOAC", "DONG_NGOAC"}
Linear == {"BIEN_SO", "CHUOI", "RONG_GIA_TRI", "PHU_DINH", "IN", "DUNG_CHUONG_TRINH"}
          \cup BinaryOps \cup Silent

Compilable(code) == \A i \in DOMAIN code : code[i].op \in Linear

Operands(op) == IF op \in BinaryOps THEN 2 ELSE IF op \in {"PHU_DINH", "IN"} THEN 1 ELSE 0

Fails(m, what) == [m EXCEPT !.fault = what, !.going = FALSE]

\* what the lambda of an instruction does to a VM that is still running
Lambda(m, ins, pool) ==
  LET rest   == Pop(m, Operands(ins.op))
      result == Binary(ins.op, Peek(m, 1), Peek(m, 0))
  IN IF ~Holds(m, Operands(ins.op)) THEN Fails(m, "internal")
     ELSE CASE ins.op \in Silent -> m
            [] ins.op = "DUNG_CHUONG_TRINH" -> [m EXCEPT !.going = FALSE]
            [] ins.op = "BIEN_SO" -> Push(m, IntV(ins.a))
            [] ins.op = "RONG_GIA_TRI" -> Push(m, NullV)
            [] ins.op = "CHUOI" -> IF ins.b + 1 \in DOMAIN pool THEN Push(m, StrV(pool[ins.b + 1]))
                                   ELSE Fails(m, "internal")
            [] ins.op = "PHU_DINH" -> Push(rest, Bit(~ToBool(Peek(m, 0))))
            [] ins.op = "IN" -> [rest EXCEPT !.out = Append(@, Text(Peek(m, 0)))]
            [] ins.op \in BinaryOps -> IF result = <<>> THEN Fails(rest, "value")
                                       ELSE Push(rest, result[1])

Fresh == [stack |-> <<>>, out |-> <<>>, fault |-> "none", going |-> TRUE]

\* the VM after each number of lambdas
After(code, pool) ==
  LET m[i \in 0..Len(code)] ==
        IF i = 0 THEN Fresh
        ELSE IF m[i - 1].going THEN Lambda(m[i - 1], code[i], pool) ELSE m[i - 1]
  IN  m

RunJit(code, pool) == After(code, pool)[Len(code)]

\* "Keep the JIT and interpreter on one operator contract" (vm_utils.h 80-81): where the JIT
\* takes a program, a first run of it prints the same, leaves the same operands and fails
\* the same, whichever of the two runs it. (A second run differs: the JIT starts over.)
JitAgrees ==
  LET code == image.code[Main]
      jit  == RunJit(code, image.pool)
  IN (status \in {"halted", "failed"} /\ runs = 1 /\ image.inits = 0 /\ Compilable(code)) =>
       jit.stack = vms[1].stack /\ jit.out = out /\ jit.fault = fault
================================================================================
