--------------------------- MODULE CompiledDiscipline ---------------------------
(***************************************************************************)
(* What the code generator makes of the bounded programs follows the       *)
(* discipline: VmDiscipline is not about code nobody writes.  The outlines *)
(* of a program are found in one pass over each vector, from its first     *)
(* instruction to its last.                                                *)
(***************************************************************************)
EXTENDS VmDiscipline, FiniteSetsExt

\* a call leaves a value when the vector ends in trả về before its last brace
Yields(code) == Len(code) > 1 /\ code[Len(code) - 1].op = "TRA_VE"

Least(m, n) == IF m < n THEN m ELSE n
Meet(p, q) == [p EXCEPT !.height = Least(@, q.height), !.blocks = Least(@, q.blocks),
                        !.slot = @ /\ q.slot]

Joined(at, to) ==
  [pc \in DOMAIN at \cup {to[1]} |->
     IF pc # to[1] THEN at[pc] ELSE IF pc \in DOMAIN at THEN Meet(at[pc], to[2]) ELSE to[2]]

Passed(im, yields, code, at, pc) ==
  IF pc \notin DOMAIN at \/ ~Allowed(im, code, pc, code[pc + 1], at[pc]) THEN at
  ELSE FoldSet(LAMBDA to, acc : Joined(acc, to), at,
               {to \in Leads(im, yields, code, pc, code[pc + 1], at[pc]) : to[1] > pc})

InferredFor(im, yields, code) ==
  FoldLeft(LAMBDA at, pc : Passed(im, yields, code, at, pc), [pc \in {0} |-> Bare],
           [i \in DOMAIN code |-> i - 1])

Verified(im) ==
  LET yields == [k \in DOMAIN im.code |-> Yields(im.code[k])]
  IN  Follows(im, yields, [k \in DOMAIN im.code |-> InferredFor(im, yields, im.code[k])])

-----------------------------------------------------------------------------
Structured == INSTANCE StructuredPrograms
Calling    == INSTANCE CallPrograms

\* a call of a variable: what it may enter is known only as it runs
CallsVariable(im) ==
  \E k \in DOMAIN im.code : \E i \in DOMAIN im.code[k] : im.code[k][i].op = "GOI_GIAN_TIEP"

Follow(im) == CallsVariable(im) \/ Verified(im)

ASSUME CompiledCodeFollows ==
  /\ \A p \in Structured!StructuredPrograms : Follow(Structured!CG!Compile(p))
  /\ \A p \in Calling!CallPrograms : Follow(Calling!CG!Compile(p))
=================================================================================
