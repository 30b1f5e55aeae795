-------------------------- MODULE ImportCompilerProofs --------------------------
(***************************************************************************)
(* Compiling the imports of a program is the walk of ImportWalk, for every *)
(* set of files, whatever they import and whichever registry is used; so   *)
(* the initializers are registered dependency first.  And the order they   *)
(* are registered in is the postorder of the imports, by its definition.   *)
(***************************************************************************)
EXTENDS ImportOrder, FiniteSetTheorems, SequenceTheorems, WellFoundedInduction, TLAPS

FrameSet == [file : Files, next : Nat \ {0}]

\* A compilation starts from the entry, and each call is made by the import
\* statement its caller is at.
Calls(stack) ==
  /\ stack # <<>> => stack[1].file = Entry
  /\ \A k \in 1..(Len(stack) - 1) :
       LET f == stack[k]
       IN  /\ f.next \in DOMAIN imports[f.file]
           /\ imports[f.file][f.next] = stack[k + 1].file

\* The imports a call has gone past are marked.
Past(stack, marked) ==
  \A k \in DOMAIN stack : \A j \in DOMAIN imports[stack[k].file] :
    j < stack[k].next => imports[stack[k].file][j] \in marked

\* A context is cleared when a compilation begins.
Cleared == active = "context" => kept = 0

\* the walk's own proofs, for the walk of the compiler
WalkProofs == INSTANCE ImportWalkProofs WITH open <- Open, done <- Done, failed <- thrown
WalkInv == WalkProofs!IInv

IInv ==
  /\ TypeOK
  /\ Calls(frames)
  /\ ~thrown => Past(frames, imported[active])
  /\ Marked
  /\ WalkInv
  /\ Cleared

-----------------------------------------------------------------------------
\* What the call stack becomes.
LEMMA InsideIs ==
  ASSUME NEW stack \in Seq(FrameSet), stack # <<>>
  PROVE  /\ Inside(stack) \in Seq(Files)
         /\ Len(Inside(stack)) = Len(stack) - 1
         /\ DOMAIN Inside(stack) = 1..(Len(stack) - 1)
         /\ \A k \in 1..(Len(stack) - 1) : Inside(stack)[k] = stack[k + 1].file
  <1>1. Len(stack) \in Nat \ {0} /\ \A k \in 1..Len(stack) : stack[k] \in FrameSet
    OBVIOUS
  <1>2. \A k \in 1..(Len(stack) - 1) : stack[k + 1].file \in Files
    BY <1>1 DEF FrameSet
  <1>3. Inside(stack) \in [1..(Len(stack) - 1) -> Files]
    BY <1>2 DEF Inside
  <1>4. Inside(stack) \in Seq(Files)
    BY <1>1, <1>3, SeqDef
  <1>. QED  BY <1>1, <1>3, <1>4, LenProperties DEF Inside

LEMMA InsideNone == Inside(<<>>) = <<>>
  <1>1. 1..(Len(<<>>) - 1) = {}
    OBVIOUS
  <1>. QED  BY <1>1 DEF Inside

\* a call is made
LEMMA InsideCall ==
  ASSUME NEW stack \in Seq(FrameSet), stack # <<>>, NEW f \in Files
  PROVE  LET called == Append(stack, Frame(f))
         IN  /\ called \in Seq(FrameSet) /\ called # <<>>
             /\ Len(called) = Len(stack) + 1 /\ Len(stack) \in Nat \ {0}
             /\ called[Len(stack) + 1] = [file |-> f, next |-> 1]
             /\ \A k \in 1..Len(stack) : called[k] = stack[k]
             /\ Inside(called) = Append(Inside(stack), f)
  <1>. DEFINE called == Append(stack, Frame(f))
  <1>1. Frame(f) \in FrameSet
    BY DEF Frame, FrameSet
  <1>2. /\ called \in Seq(FrameSet) /\ called # <<>>
        /\ Len(called) = Len(stack) + 1 /\ Len(stack) \in Nat \ {0}
        /\ called[Len(stack) + 1] = Frame(f)
        /\ \A k \in 1..Len(stack) : called[k] = stack[k]
    BY <1>1
  <1>. HIDE DEF called
  <1>3. /\ Inside(called) \in Seq(Files) /\ Len(Inside(called)) = Len(stack)
        /\ \A k \in 1..Len(stack) : Inside(called)[k] = called[k + 1].file
    BY <1>2, InsideIs
  <1>4. /\ Inside(stack) \in Seq(Files) /\ Len(Inside(stack)) = Len(stack) - 1
        /\ \A k \in 1..(Len(stack) - 1) : Inside(stack)[k] = stack[k + 1].file
    BY InsideIs
  <1>5. /\ Append(Inside(stack), f) \in Seq(Files)
        /\ Len(Append(Inside(stack), f)) = Len(stack)
        /\ Append(Inside(stack), f)[Len(stack)] = f
        /\ \A k \in 1..(Len(stack) - 1) : Append(Inside(stack), f)[k] = Inside(stack)[k]
    BY <1>2, <1>4, AppendProperties
  <1>6. \A k \in 1..Len(stack) : Inside(called)[k] = Append(Inside(stack), f)[k]
    BY <1>2, <1>3, <1>4, <1>5 DEF Frame
  <1>7. Inside(called) = Append(Inside(stack), f)
    BY <1>3, <1>5, <1>6, SeqEqual
  <1>. QED  BY <1>2, <1>7 DEF called, Frame

\* a call returns
LEMMA InsideReturn ==
  ASSUME NEW stack \in Seq(FrameSet), Len(stack) > 1
  PROVE  LET returned == SubSeq(stack, 1, Len(stack) - 1)
         IN  /\ returned \in Seq(FrameSet) /\ returned # <<>>
             /\ Len(returned) = Len(stack) - 1 /\ Len(stack) \in Nat \ {0, 1}
             /\ \A k \in 1..(Len(stack) - 1) : returned[k] = stack[k]
             /\ Inside(returned) = SubSeq(Inside(stack), 1, Len(Inside(stack)) - 1)
             /\ Inside(stack) # <<>>
  <1>. DEFINE returned == SubSeq(stack, 1, Len(stack) - 1)
  <1>1. /\ returned \in Seq(FrameSet) /\ returned # <<>>
        /\ Len(returned) = Len(stack) - 1 /\ Len(stack) \in Nat \ {0, 1}
        /\ \A k \in 1..(Len(stack) - 1) : returned[k] = stack[k]
    <2>. DEFINE n == Len(stack)
    <2>0. n \in Nat /\ stack \in [1..n -> FrameSet]
      BY LenProperties
    <2>1. n \in Nat \ {0, 1} /\ \A k \in 1..(n - 1) : stack[k] \in FrameSet
      <3>1. n \in Nat /\ n > 1
        BY <2>0
      <3>. HIDE DEF n
      <3>. QED  BY <3>1, <2>0
    <2>2. /\ returned \in Seq(FrameSet) /\ Len(returned) = Len(stack) - 1
          /\ \A k \in 1..(Len(stack) - 1) : returned[k] = stack[k]
      BY <2>1
    <2>3. returned # <<>>
      <3>1. Len(returned) # 0 /\ Len(<<>>) = 0
        BY <2>1, <2>2, EmptySeq
      <3>. QED  BY <3>1
    <2>. HIDE DEF returned
    <2>. QED  BY <2>1, <2>2, <2>3
  <1>. HIDE DEF returned
  <1>2. /\ Inside(returned) \in Seq(Files) /\ Len(Inside(returned)) = Len(stack) - 2
        /\ \A k \in 1..(Len(stack) - 2) : Inside(returned)[k] = returned[k + 1].file
    <2>1. /\ Inside(returned) \in Seq(Files) /\ Len(Inside(returned)) = Len(returned) - 1
          /\ \A k \in 1..(Len(returned) - 1) : Inside(returned)[k] = returned[k + 1].file
      BY <1>1, InsideIs
    <2>2. Len(returned) - 1 = Len(stack) - 2
      BY <1>1
    <2>. QED  BY <2>1, <2>2
  <1>3. /\ Inside(stack) \in Seq(Files) /\ Len(Inside(stack)) = Len(stack) - 1
        /\ \A k \in 1..(Len(stack) - 1) : Inside(stack)[k] = stack[k + 1].file
    BY <1>1, InsideIs
  <1>. DEFINE front == SubSeq(Inside(stack), 1, Len(Inside(stack)) - 1)
  <1>4. /\ front \in Seq(Files) /\ Len(front) = Len(stack) - 2
        /\ \A k \in 1..(Len(stack) - 2) : front[k] = Inside(stack)[k]
    BY <1>1, <1>3
  <1>. HIDE DEF front
  <1>5. ASSUME NEW k \in 1..(Len(stack) - 2) PROVE Inside(returned)[k] = front[k]
    <2>1. k \in 1..(Len(stack) - 1) /\ k + 1 \in 1..(Len(stack) - 1)
      BY <1>1
    <2>. QED  BY <2>1, <1>1, <1>2, <1>3, <1>4
  <1>6. Inside(returned) = front
    BY <1>2, <1>4, <1>5, SeqEqual
  <1>7. Inside(stack) # <<>>
    BY <1>1, <1>3
  <1>. QED  BY <1>1, <1>6, <1>7 DEF returned, front

\* the statement after the import
LEMMA InsideOnward ==
  ASSUME NEW stack \in Seq(FrameSet), stack # <<>>
  PROVE  /\ Onward(stack) \in Seq(FrameSet) /\ Onward(stack) # <<>>
         /\ Len(Onward(stack)) = Len(stack) /\ Len(stack) \in Nat \ {0}
         /\ \A k \in 1..(Len(stack) - 1) : Onward(stack)[k] = stack[k]
         /\ Onward(stack)[Len(stack)].file = stack[Len(stack)].file
         /\ Onward(stack)[Len(stack)].next = stack[Len(stack)].next + 1
         /\ Inside(Onward(stack)) = Inside(stack)
  <1>. DEFINE n == Len(stack)
              frame == [stack[n] EXCEPT !.next = @ + 1]
  <1>1. n \in Nat \ {0} /\ n \in 1..n /\ stack[n] \in FrameSet /\ DOMAIN stack = 1..n
    OBVIOUS
  <1>2. /\ frame \in FrameSet /\ frame.file = stack[n].file /\ frame.next = stack[n].next + 1
    BY <1>1 DEF FrameSet
  <1>3. Onward(stack) = [stack EXCEPT ![n] = frame]
    BY DEF Onward
  <1>4. /\ Onward(stack) \in Seq(FrameSet) /\ Len(Onward(stack)) = n
        /\ \A k \in 1..n : Onward(stack)[k] = IF k = n THEN frame ELSE stack[k]
    BY <1>1, <1>2, <1>3, ExceptSeq
  <1>5. Onward(stack) # <<>>
    BY <1>1, <1>4
  <1>6. /\ Inside(Onward(stack)) \in Seq(Files) /\ Len(Inside(Onward(stack))) = n - 1
        /\ \A k \in 1..(n - 1) : Inside(Onward(stack))[k] = Onward(stack)[k + 1].file
    BY <1>4, <1>5, InsideIs
  <1>7. /\ Inside(stack) \in Seq(Files) /\ Len(Inside(stack)) = n - 1
        /\ \A k \in 1..(n - 1) : Inside(stack)[k] = stack[k + 1].file
    BY InsideIs
  <1>. HIDE DEF frame
  <1>8. ASSUME NEW k \in 1..(n - 1)
        PROVE  Inside(Onward(stack))[k] = Inside(stack)[k]
    <2>1. k + 1 \in 1..n
      BY <1>1
    <2>2. Onward(stack)[k + 1].file = stack[k + 1].file
      BY <2>1, <1>2, <1>4
    <2>. QED  BY <2>2, <1>6, <1>7
  <1>9. Inside(Onward(stack)) = Inside(stack)
    BY <1>6, <1>7, <1>8, SeqEqual
  <1>10. ASSUME NEW k \in 1..(n - 1) PROVE Onward(stack)[k] = stack[k]
    <2>0. n \in Nat
      BY <1>1
    <2>1. k \in 1..n /\ k # n
      <3>. HIDE DEF n
      <3>. QED  BY <2>0
    <2>. QED  BY <2>1, <1>4
  <1>11. Onward(stack)[n] = frame
    BY <1>1, <1>4
  <1>. QED  BY <1>1, <1>2, <1>4, <1>5, <1>9, <1>10, <1>11
-----------------------------------------------------------------------------
\* A step of the walk keeps the walk's invariant.
LEMMA WalkStep == WalkInv /\ [Walk!Next]_(Walk!vars) => WalkInv'
  <1>1. [Walk!Next]_(Walk!vars) => [WalkProofs!Next]_(WalkProofs!vars)
    BY DEF Walk!Next, WalkProofs!Next, Walk!vars, WalkProofs!vars,
           Walk!Enter, WalkProofs!Enter, Walk!Leave, WalkProofs!Leave,
           Walk!Fail, WalkProofs!Fail, Walk!GiveUp, WalkProofs!GiveUp,
           Walk!Forget, WalkProofs!Forget, Walk!Restart, WalkProofs!Restart,
           Walk!Importer, WalkProofs!Importer, Walk!Closed, WalkProofs!Closed,
           Walk!ImportsOf, WalkProofs!ImportsOf, Walk!Elements, WalkProofs!Elements
  <1>2. WalkInv /\ [WalkProofs!Next]_(WalkProofs!vars) => WalkInv'
    BY WalkProofs!NextInv DEF WalkInv
  <1>. QED  BY <1>1, <1>2

\* What a compilation that goes on looks like to the walk.
LEMMA View ==
  ASSUME IInv, frames # <<>>
  PROVE  /\ imports \in [Files -> Seq(Files)] /\ imports \in Sources
         /\ frames \in Seq(FrameSet) /\ Len(frames) \in Nat \ {0} /\ Top \in FrameSet
         /\ Open \in Seq(Files) /\ Len(Open) = Len(frames) - 1
         /\ Walk!Importer = Top.file
         /\ active \in Registries /\ inits[active] \in Seq(Files)
         /\ kept \in Nat /\ kept <= Len(inits[active])
         /\ imported[active] = Elements(Open) \cup Elements(Done)
  <1>1. /\ TypeOK /\ Calls(frames) /\ Marked
    BY DEF IInv
  <1>2. imports \in [Files -> Seq(Files)] /\ imports \in Sources
    BY <1>1, ImportsAssumption DEF TypeOK
  <1>3. frames \in Seq(FrameSet)
    BY <1>1 DEF TypeOK, FrameSet
  <1>4. Len(frames) \in Nat \ {0} /\ Top \in FrameSet
    BY <1>3 DEF Top
  <1>5. active \in Registries /\ inits[active] \in Seq(Files)
    BY <1>1 DEF TypeOK
  <1>6. kept \in Nat /\ kept <= Len(inits[active])
    BY <1>1, <1>5 DEF TypeOK
  <1>7. /\ Open \in Seq(Files) /\ Len(Open) = Len(frames) - 1
        /\ \A k \in 1..(Len(frames) - 1) : Open[k] = frames[k + 1].file
    BY <1>3, InsideIs DEF Open
  <1>8. Walk!Importer = Top.file
    <2>1. CASE Len(frames) = 1
      <3>1. Open = <<>>
        BY <2>1, <1>7, EmptySeq
      <3>. QED  BY <2>1, <3>1, <1>1 DEF Walk!Importer, Calls, Top
    <2>2. CASE Len(frames) # 1
      <3>1. Open # <<>> /\ Len(Open) \in 1..(Len(frames) - 1) /\ Len(Open) + 1 = Len(frames)
        BY <2>2, <1>4, <1>7
      <3>. QED  BY <3>1, <1>7 DEF Walk!Importer, Top
    <2>. QED  BY <2>1, <2>2
  <1>9. imported[active] = Elements(Open) \cup Elements(Done)
    BY <1>1 DEF Marked
  <1>. QED  BY <1>2, <1>3, <1>4, <1>5, <1>6, <1>7, <1>8, <1>9

LEMMA SameElements == \A s : Elements(s) = Walk!Elements(s)
  BY DEF Elements, Walk!Elements

\* Growing a sequence adds the element.
LEMMA AppendElements ==
  ASSUME NEW s \in Seq(Files), NEW x \in Files
  PROVE  Elements(Append(s, x)) = Elements(s) \cup {x}
  <1>1. /\ Append(s, x)[Len(s) + 1] = x /\ Len(s) \in Nat
        /\ \A i \in DOMAIN s : Append(s, x)[i] = s[i]
        /\ DOMAIN s = 1..Len(s)
        /\ DOMAIN Append(s, x) = 1..(Len(s) + 1)
    OBVIOUS
  <1>2. DOMAIN Append(s, x) = DOMAIN s \cup {Len(s) + 1}
    BY <1>1
  <1>. QED  BY <1>1, <1>2, Zenon DEF Elements

\* The target of the import statement.
LEMMA TargetIs ==
  ASSUME IInv, AtImport
  PROVE  /\ Target \in Files /\ Target \in Walk!ImportsOf(Top.file)
         /\ frames # <<>> /\ ~thrown
  <1>1. frames # <<>> /\ ~thrown /\ Top.next \in DOMAIN imports[Top.file]
    BY DEF AtImport
  <1>2. Top.file \in Files /\ imports[Top.file] \in Seq(Files)
    BY <1>1, View DEF FrameSet
  <1>3. Target \in Files
    BY <1>1, <1>2 DEF Target
  <1>4. Target \in Walk!ImportsOf(Top.file)
    BY <1>1, Zenon DEF Target, Walk!ImportsOf, Walk!Elements
  <1>. QED  BY <1>1, <1>3, <1>4

LEMMA EnterStep ==
  ASSUME IInv, Enter
  PROVE  IInv' /\ [Walk!Next]_(Walk!vars)
  <1>. DEFINE f == Target
              n == Len(frames)
  <1>1. /\ AtImport /\ f \notin imported[active]
        /\ imported' = [imported EXCEPT ![active] = @ \cup {f}]
        /\ frames' = Append(frames, Frame(f))
        /\ UNCHANGED <<imports, inits, active, thrown, kept>>
    BY DEF Enter
  <1>2. f \in Files /\ f \in Walk!ImportsOf(Top.file) /\ frames # <<>> /\ ~thrown
    BY <1>1, TargetIs
  <1>3. /\ imports \in [Files -> Seq(Files)] /\ imports \in Sources
        /\ frames \in Seq(FrameSet) /\ n \in Nat \ {0} /\ Top \in FrameSet
        /\ Open \in Seq(Files)
        /\ Walk!Importer = Top.file
        /\ active \in Registries
        /\ imported[active] = Elements(Open) \cup Elements(Done)
    BY <1>2, View
  <1>4. /\ frames' \in Seq(FrameSet) /\ frames' # <<>>
        /\ Len(frames') = n + 1
        /\ frames'[n + 1] = [file |-> f, next |-> 1]
        /\ \A k \in 1..n : frames'[k] = frames[k]
        /\ Open' = Append(Open, f)
    <2>. HIDE DEF f
    <2>. DEFINE called == Append(frames, Frame(f))
    <2>1. /\ called \in Seq(FrameSet) /\ called # <<>>
          /\ Len(called) = n + 1
          /\ called[n + 1] = [file |-> f, next |-> 1]
          /\ \A k \in 1..n : called[k] = frames[k]
          /\ Inside(called) = Append(Inside(frames), f)
      BY <1>2, <1>3, InsideCall, Zenon
    <2>. QED  BY <2>1, <1>1 DEF Open
  <1>. HIDE DEF f, n
  <1>5. /\ TypeOK /\ Calls(frames) /\ Past(frames, imported[active]) /\ WalkInv /\ Cleared
    BY <1>2 DEF IInv
  <1>6. imported'[active'] = imported[active] \cup {f} /\ Done' = Done
    BY <1>1, <1>3, <1>5 DEF TypeOK, Done
  <1>7. TypeOK'
    BY <1>1, <1>2, <1>4, <1>5 DEF TypeOK, FrameSet
  <1>8. Calls(frames)'
    <2>1. frames'[1].file = Entry
      <3>1. 1 \in 1..n /\ frames[1].file = Entry
        BY <1>2, <1>3, <1>5 DEF Calls
      <3>. QED  BY <3>1, <1>4
    <2>2. ASSUME NEW k \in 1..(Len(frames') - 1)
          PROVE  /\ frames'[k].next \in DOMAIN imports'[frames'[k].file]
                 /\ imports'[frames'[k].file][frames'[k].next] = frames'[k + 1].file
      <3>1. k \in 1..n /\ frames'[k] = frames[k] /\ imports' = imports
        BY <2>2, <1>1, <1>3, <1>4
      <3>2. CASE k = n
        <4>1. frames'[k] = Top /\ frames'[k + 1].file = f
          BY <3>1, <3>2, <1>4 DEF Top, n
        <4>. QED  BY <4>1, <3>1, <1>1 DEF AtImport, Target, f
      <3>3. CASE k # n
        <4>1. k \in 1..(n - 1) /\ frames'[k + 1] = frames[k + 1]
          BY <3>1, <3>3, <1>3, <1>4
        <4>. QED  BY <4>1, <3>1, <1>5 DEF Calls, n
      <3>. QED  BY <3>2, <3>3
    <2>. QED  BY <2>1, <2>2 DEF Calls
  <1>9. Past(frames, imported[active])'
    <2>1. ASSUME NEW k \in DOMAIN frames', NEW j \in DOMAIN imports'[frames'[k].file],
                 j < frames'[k].next
          PROVE  imports'[frames'[k].file][j] \in imported'[active']
      <3>1. CASE k \in 1..n
        BY <2>1, <3>1, <1>1, <1>3, <1>4, <1>5, <1>6 DEF Past
      <3>2. CASE k = n + 1
        <4>1. frames'[k].file = f /\ j < 1
          BY <2>1, <3>2, <1>4
        <4>2. j \in Nat \ {0}
          BY <2>1, <4>1, <1>1, <1>2, <1>3
        <4>. QED  BY <4>1, <4>2
      <3>. QED  BY <2>1, <1>3, <1>4, <3>1, <3>2
    <2>. QED  BY <2>1 DEF Past
  <1>10. Marked'
    BY <1>2, <1>3, <1>4, <1>6, AppendElements DEF Marked
  <1>11. Walk!Enter(f)
    <2>1. f \notin Walk!Elements(Open) \cup Walk!Elements(Done)
      BY <1>1, <1>3, SameElements DEF f
    <2>. QED  BY <2>1, <1>1, <1>2, <1>3, <1>4, <1>6 DEF Walk!Enter
  <1>12. [Walk!Next]_(Walk!vars)
    BY <1>2, <1>11 DEF Walk!Next
  <1>13. WalkInv' /\ Cleared'
    BY <1>1, <1>5, <1>12, WalkStep DEF Cleared
  <1>. QED  BY <1>7, <1>8, <1>9, <1>10, <1>12, <1>13 DEF IInv

\* Past an import that is marked, the stack still has the calls it should.
LEMMA OnwardKeeps ==
  ASSUME NEW stack \in Seq(FrameSet), stack # <<>>, NEW marked,
         imports \in [Files -> Seq(Files)], Calls(stack), Past(stack, marked),
         LET f == stack[Len(stack)]
         IN  f.next \in DOMAIN imports[f.file] => imports[f.file][f.next] \in marked
  PROVE  Calls(Onward(stack)) /\ Past(Onward(stack), marked)
  <1>. DEFINE n == Len(stack)
              on == Onward(stack)
  <1>1. /\ on \in Seq(FrameSet) /\ on # <<>>
        /\ Len(on) = n /\ n \in Nat \ {0}
        /\ \A k \in 1..(n - 1) : on[k] = stack[k]
        /\ on[n].file = stack[n].file
        /\ on[n].next = stack[n].next + 1
    BY InsideOnward, Zenon
  <1>2. /\ DOMAIN on = 1..n /\ DOMAIN stack = 1..n
        /\ stack[n].next \in Nat /\ stack[n].file \in Files
    <2>1. stack \in [1..n -> FrameSet]
      BY LenProperties
    <2>2. on \in [1..n -> FrameSet]
      BY <1>1, LenProperties
    <2>. HIDE DEF n, on
    <2>3. stack[n] \in FrameSet
      BY <1>1, <2>1
    <2>. QED  BY <2>1, <2>2, <2>3 DEF FrameSet
  <1>. HIDE DEF n, on
  <1>3. Calls(on)
    <2>1. on[1].file = Entry
      <3>1. stack[1].file = Entry
        BY DEF Calls
      <3>. QED  BY <3>1, <1>1
    <2>2. ASSUME NEW k \in 1..(n - 1)
          PROVE  /\ on[k].next \in DOMAIN imports[on[k].file]
                 /\ imports[on[k].file][on[k].next] = on[k + 1].file
      <3>1. on[k] = stack[k]
        BY <1>1
      <3>2. CASE k + 1 = n
        BY <3>1, <3>2, <1>1 DEF Calls, n
      <3>3. CASE k + 1 # n
        <4>1. k + 1 \in 1..(n - 1)
          BY <3>3, <1>1
        <4>2. on[k + 1] = stack[k + 1]
          BY <4>1, <1>1
        <4>. QED  BY <3>1, <4>2 DEF Calls, n
      <3>. QED  BY <3>2, <3>3
    <2>. QED  BY <2>1, <2>2, <1>1 DEF Calls
  <1>4. Past(on, marked)
    <2>1. ASSUME NEW k \in 1..n, NEW j \in DOMAIN imports[on[k].file], j < on[k].next
          PROVE  imports[on[k].file][j] \in marked
      <3>1. CASE k # n
        <4>1. on[k] = stack[k]
          BY <3>1, <1>1
        <4>. QED  BY <4>1, <2>1, <1>2 DEF Past
      <3>2. CASE k = n
        <4>1. j < stack[n].next + 1 /\ j \in DOMAIN imports[stack[n].file] /\ on[k].file = stack[n].file
          BY <2>1, <3>2, <1>1
        <4>2. j \in Nat
          <5>1. imports[stack[n].file] \in Seq(Files)
            BY <1>2
          <5>. QED  BY <4>1, <5>1
        <4>3. CASE j < stack[n].next
          <5>1. n \in DOMAIN stack
            BY <1>1, <1>2
          <5>. QED  BY <5>1, <4>1, <4>3 DEF Past
        <4>4. CASE j = stack[n].next
          BY <4>1, <4>4 DEF n
        <4>. QED  BY <4>1, <4>2, <4>3, <4>4, <1>2
      <3>. QED  BY <3>1, <3>2
    <2>. QED  BY <2>1, <1>2 DEF Past
  <1>. QED  BY <1>3, <1>4 DEF on

LEMMA ReturnKeeps ==
  ASSUME NEW stack \in Seq(FrameSet), Len(stack) > 1, Calls(stack)
  PROVE  LET returned == SubSeq(stack, 1, Len(stack) - 1)
         IN  /\ Calls(returned)
             /\ \A marked : Past(stack, marked) => Past(returned, marked)
  <1>. DEFINE n == Len(stack)
              returned == SubSeq(stack, 1, Len(stack) - 1)
  <1>1. /\ returned \in Seq(FrameSet)
        /\ Len(returned) = n - 1 /\ n \in Nat \ {0, 1}
        /\ \A k \in 1..(n - 1) : returned[k] = stack[k]
    BY InsideReturn
  <1>2. DOMAIN returned = 1..(n - 1) /\ DOMAIN stack = 1..n /\ stack # <<>>
    BY <1>1
  <1>. HIDE DEF n, returned
  <1>3. Calls(returned)
    <2>1. returned[1].file = Entry
      BY <1>1, <1>2 DEF Calls
    <2>2. ASSUME NEW k \in 1..(Len(returned) - 1)
          PROVE  /\ returned[k].next \in DOMAIN imports[returned[k].file]
                 /\ imports[returned[k].file][returned[k].next] = returned[k + 1].file
      <3>1. k \in 1..(n - 1) /\ returned[k] = stack[k] /\ returned[k + 1] = stack[k + 1]
        BY <1>1
      <3>. QED  BY <3>1 DEF Calls, n
    <2>. QED  BY <2>1, <2>2 DEF Calls
  <1>4. ASSUME NEW marked, Past(stack, marked) PROVE Past(returned, marked)
    <2>1. ASSUME NEW k \in 1..(n - 1) PROVE returned[k] = stack[k] /\ k \in 1..n
      BY <1>1
    <2>. QED  BY <2>1, <1>2, <1>4 DEF Past
  <1>. QED  BY <1>3, <1>4 DEF returned

LEMMA SkipStep ==
  ASSUME IInv, Skip
  PROVE  IInv' /\ [Walk!Next]_(Walk!vars)
  <1>1. /\ AtImport /\ Target \in imported[active]
        /\ frames' = Onward(frames)
        /\ UNCHANGED <<imports, imported, inits, active, thrown, kept>>
    BY DEF Skip
  <1>2. frames # <<>> /\ ~thrown
    BY <1>1 DEF AtImport
  <1>3. /\ imports \in [Files -> Seq(Files)] /\ frames \in Seq(FrameSet)
        /\ imported[active] = Elements(Open) \cup Elements(Done)
    BY <1>2, View
  <1>4. /\ TypeOK /\ Calls(frames) /\ Past(frames, imported[active]) /\ WalkInv /\ Cleared
    BY <1>2 DEF IInv
  <1>5. /\ frames' \in Seq(FrameSet) /\ frames' # <<>> /\ Open' = Open
    BY <1>1, <1>2, <1>3, InsideOnward DEF Open
  <1>6. Calls(frames') /\ Past(frames', imported[active])
    BY <1>1, <1>2, <1>3, <1>4, OnwardKeeps DEF Target, Top
  <1>7. TypeOK'
    BY <1>1, <1>4, <1>5 DEF TypeOK, FrameSet
  <1>8. Done' = Done
    BY <1>1 DEF Done
  <1>9. Calls(frames)' /\ Past(frames, imported[active])'
    BY <1>1, <1>6 DEF Calls, Past
  <1>10. Marked'
    BY <1>1, <1>3, <1>5, <1>8 DEF Marked
  <1>11. UNCHANGED Walk!vars
    BY <1>1, <1>5, <1>8 DEF Walk!vars
  <1>12. WalkInv' /\ Cleared'
    BY <1>1, <1>4, <1>11, WalkStep DEF Cleared
  <1>. QED  BY <1>7, <1>9, <1>10, <1>11, <1>12 DEF IInv

\* an initializer is registered at the end
LEMMA DoneAppend ==
  ASSUME NEW s \in Seq(Files), NEW f \in Files, NEW m \in Nat, m <= Len(s)
  PROVE  /\ SubSeq(s, m + 1, Len(s)) \in Seq(Files)
         /\ Append(s, f) \in Seq(Files) /\ Len(Append(s, f)) = Len(s) + 1
         /\ SubSeq(Append(s, f), m + 1, Len(Append(s, f)))
              = Append(SubSeq(s, m + 1, Len(s)), f)
  <1>. DEFINE n == Len(s)
              grown == Append(s, f)
              old == SubSeq(s, m + 1, n)
              new == SubSeq(grown, m + 1, n + 1)
  <1>1. n \in Nat /\ \A i \in 1..n : s[i] \in Files
    OBVIOUS
  <1>2. /\ grown \in Seq(Files) /\ Len(grown) = n + 1 /\ grown[n + 1] = f
        /\ \A i \in 1..n : grown[i] = s[i]
    BY AppendProperties
  <1>. HIDE DEF n, grown
  <1>3. /\ old \in Seq(Files) /\ Len(old) = n - m
        /\ \A i \in 1..(n - m) : old[i] = s[m + i]
    BY <1>1 DEF n
  <1>4. \A i \in 1..(n + 1) : grown[i] \in Files
    BY <1>1, <1>2
  <1>5. /\ new \in Seq(Files) /\ Len(new) = n + 1 - m
        /\ \A i \in 1..(n + 1 - m) : new[i] = grown[m + i]
    BY <1>1, <1>4 DEF n
  <1>. HIDE DEF old, new
  <1>6. /\ Append(old, f) \in Seq(Files) /\ Len(Append(old, f)) = n - m + 1
        /\ Append(old, f)[n - m + 1] = f
        /\ \A i \in 1..(n - m) : Append(old, f)[i] = old[i]
    BY <1>3, AppendProperties
  <1>7. ASSUME NEW i \in 1..(n + 1 - m) PROVE new[i] = Append(old, f)[i]
    <2>1. n - m \in Nat /\ n \in Nat
      BY <1>1 DEF n
    <2>2. CASE i = n - m + 1
      BY <2>1, <2>2, <1>2, <1>5, <1>6
    <2>3. CASE i # n - m + 1
      <3>1. i \in 1..(n - m) /\ m + i \in 1..n
        BY <2>1, <2>3
      <3>. QED  BY <3>1, <1>2, <1>3, <1>5, <1>6
    <2>. QED  BY <2>2, <2>3
  <1>8. Len(new) = Len(Append(old, f)) /\ Len(new) = n + 1 - m
    BY <1>1, <1>5, <1>6
  <1>9. new = Append(old, f)
    BY <1>5, <1>6, <1>7, <1>8, SeqEqual
  <1>. QED  BY <1>2, <1>3, <1>9 DEF old, new, n, grown

\* a call that returns takes its file from the open ones
LEMMA OpenFront ==
  ASSUME NEW s \in Seq(Files), s # <<>>
  PROVE  /\ s[Len(s)] \in Files
         /\ SubSeq(s, 1, Len(s) - 1) \in Seq(Files)
         /\ Elements(s) = Elements(SubSeq(s, 1, Len(s) - 1)) \cup {s[Len(s)]}
  <1>1. /\ s[Len(s)] \in Files
        /\ SubSeq(s, 1, Len(s) - 1) \in Seq(Files)
        /\ WalkProofs!Elements(s)
             = WalkProofs!Elements(SubSeq(s, 1, Len(s) - 1)) \cup {s[Len(s)]}
    BY WalkProofs!FrontElements
  <1>. QED  BY <1>1 DEF Elements, WalkProofs!Elements

LEMMA LeaveStep ==
  ASSUME IInv, Leave
  PROVE  IInv' /\ [Walk!Next]_(Walk!vars)
  <1>. DEFINE f == Top.file
  <1>1. /\ AtEnd /\ Len(frames) > 1
        /\ inits' = [inits EXCEPT ![active] = Append(@, f)]
        /\ frames' = Onward(Returned)
        /\ UNCHANGED <<imports, imported, active, thrown, kept>>
    BY DEF Leave
  <1>2. frames # <<>> /\ ~thrown /\ Top.next \notin DOMAIN imports[f]
    BY <1>1 DEF AtEnd
  <1>3. /\ imports \in [Files -> Seq(Files)] /\ imports \in Sources
        /\ frames \in Seq(FrameSet) /\ Len(frames) \in Nat \ {0} /\ Top \in FrameSet
        /\ Open \in Seq(Files) /\ Len(Open) = Len(frames) - 1
        /\ Walk!Importer = f
        /\ active \in Registries /\ inits[active] \in Seq(Files)
        /\ kept \in Nat /\ kept <= Len(inits[active])
        /\ imported[active] = Elements(Open) \cup Elements(Done)
    BY <1>2, View
  <1>4. /\ TypeOK /\ Calls(frames) /\ Past(frames, imported[active]) /\ WalkInv /\ Cleared
    BY <1>2 DEF IInv
  <1>5. f \in Files /\ Top.next \in Nat \ {0} /\ Open # <<>> /\ Open[Len(Open)] = f
    <2>1. Open # <<>>
      BY <1>1, <1>3, EmptySeq
    <2>. QED  BY <2>1, <1>3 DEF FrameSet, Walk!Importer
  <1>. HIDE DEF f
  <1>6. /\ Returned \in Seq(FrameSet) /\ Returned # <<>>
        /\ Len(Returned) = Len(frames) - 1
        /\ \A k \in 1..(Len(frames) - 1) : Returned[k] = frames[k]
        /\ Inside(Returned) = SubSeq(Open, 1, Len(Open) - 1)
    BY <1>1, <1>3, InsideReturn DEF Returned, Open
  <1>7. /\ frames' \in Seq(FrameSet) /\ frames' # <<>>
        /\ Open' = SubSeq(Open, 1, Len(Open) - 1)
    BY <1>1, <1>6, InsideOnward DEF Open
  <1>8. /\ Open' \in Seq(Files) /\ Elements(Open) = Elements(Open') \cup {f}
    BY <1>3, <1>5, <1>7, OpenFront
  <1>9. Calls(frames') /\ Past(frames', imported[active])
    <2>1. Calls(Returned) /\ Past(Returned, imported[active])
      BY <1>1, <1>3, <1>4, ReturnKeeps DEF Returned
    <2>2. LET g == Returned[Len(Returned)]
          IN  g.next \in DOMAIN imports[g.file] => imports[g.file][g.next] \in imported[active]
      <3>. DEFINE n == Len(frames)
      <3>0. n \in Nat /\ n > 1 /\ Len(Returned) = n - 1
        BY <1>1, <1>3, <1>6
      <3>1. n - 1 \in 1..(n - 1) /\ Returned[n - 1] = frames[n - 1] /\ (n - 1) + 1 = n
        <4>. HIDE DEF n
        <4>1. n - 1 \in 1..(n - 1) /\ (n - 1) + 1 = n
          BY <3>0
        <4>. QED  BY <4>1, <1>6 DEF n
      <3>2. imports[frames[n - 1].file][frames[n - 1].next] = f
        BY <3>1, <1>4 DEF Calls, Top, f
      <3>. QED  BY <3>0, <3>1, <3>2, <1>3, <1>8
    <2>. QED  BY <2>1, <2>2, <1>1, <1>3, <1>6, OnwardKeeps
  <1>10. /\ inits'[active'] = Append(inits[active], f)
         /\ Append(inits[active], f) \in Seq(Files)
         /\ Len(Append(inits[active], f)) = Len(inits[active]) + 1
         /\ Done \in Seq(Files) /\ Done' = Append(Done, f)
    <2>1. inits'[active'] = Append(inits[active], f)
      BY <1>1, <1>3, <1>4 DEF TypeOK, f
    <2>. DEFINE s == inits[active]
    <2>2. /\ SubSeq(s, kept + 1, Len(s)) \in Seq(Files)
          /\ Append(s, f) \in Seq(Files) /\ Len(Append(s, f)) = Len(s) + 1
          /\ SubSeq(Append(s, f), kept + 1, Len(Append(s, f)))
               = Append(SubSeq(s, kept + 1, Len(s)), f)
      BY <1>3, <1>5, DoneAppend, Zenon
    <2>. HIDE DEF s
    <2>3. Done = SubSeq(s, kept + 1, Len(s))
      BY DEF Done, s
    <2>4. Done' = SubSeq(Append(s, f), kept + 1, Len(Append(s, f)))
      BY <2>1, <1>1, Zenon DEF Done, s
    <2>. QED  BY <2>1, <2>2, <2>3, <2>4, Zenon DEF s
  <1>11. TypeOK'
    <2>1. inits' \in [Registries -> Seq(Files)]
      BY <1>1, <1>3, <1>4, <1>10 DEF TypeOK, f
    <2>2. kept' \in 0..Len(inits'[active'])
      BY <1>1, <1>3, <1>10
    <2>. QED  BY <2>1, <2>2, <1>1, <1>4, <1>7 DEF TypeOK, FrameSet
  <1>12. Calls(frames)' /\ Past(frames, imported[active])'
    BY <1>1, <1>9 DEF Calls, Past
  <1>13. Marked'
    <2>1. Elements(Done') = Elements(Done) \cup {f}
      BY <1>5, <1>10, AppendElements
    <2>2. Elements(Open)' = Elements(Open') /\ Elements(Done)' = Elements(Done')
      BY DEF Elements
    <2>. QED  BY <2>1, <2>2, <1>1, <1>3, <1>8 DEF Marked
  <1>14. Walk!Leave
    <2>1. Walk!ImportsOf(f) \subseteq imported[active]
      <3>1. Len(frames) \in DOMAIN frames
        BY <1>3
      <3>2. ASSUME NEW j \in DOMAIN imports[f] PROVE j < Top.next
        <4>1. PICK m \in Nat : DOMAIN imports[f] = 1..m
          BY <1>3, <1>5, LenProperties
        <4>. QED  BY <4>1, <1>2, <1>5
      <3>3. ASSUME NEW j \in DOMAIN imports[f] PROVE imports[f][j] \in imported[active]
        BY <3>1, <3>2, <1>4 DEF Past, Top, f
      <3>. QED  BY <3>3 DEF Walk!ImportsOf, Walk!Elements
    <2>2. Walk!Closed(Walk!Importer)
      BY <2>1, <1>3, SameElements DEF Walk!Closed
    <2>. QED  BY <2>2, <1>1, <1>2, <1>3, <1>5, <1>7, <1>10 DEF Walk!Leave
  <1>15. [Walk!Next]_(Walk!vars)
    BY <1>14 DEF Walk!Next
  <1>16. WalkInv' /\ Cleared'
    BY <1>1, <1>4, <1>15, WalkStep DEF Cleared
  <1>. QED  BY <1>11, <1>12, <1>13, <1>15, <1>16 DEF IInv

LEMMA ThrowStep ==
  ASSUME IInv, Throw
  PROVE  IInv' /\ [Walk!Next]_(Walk!vars)
  <1>1. /\ frames # <<>> /\ ~thrown /\ thrown' = TRUE
        /\ UNCHANGED <<imports, imported, inits, active, frames, kept>>
    BY DEF Throw
  <1>2. /\ TypeOK /\ Calls(frames) /\ Marked /\ WalkInv /\ Cleared
    BY DEF IInv
  <1>3. Open' = Open /\ Done' = Done
    BY <1>1 DEF Open, Done
  <1>4. TypeOK' /\ Calls(frames)'
    BY <1>1, <1>2 DEF TypeOK, Calls
  <1>5. Marked'
    BY <1>1, <1>2, <1>3 DEF Marked
  <1>6. [Walk!Next]_(Walk!vars)
    BY <1>1, <1>3 DEF Walk!Next, Walk!Fail
  <1>7. WalkInv' /\ Cleared'
    BY <1>1, <1>2, <1>6, WalkStep DEF Cleared
  <1>. QED  BY <1>1, <1>4, <1>5, <1>6, <1>7 DEF IInv

LEMMA RollbackStep ==
  ASSUME IInv, Rollback
  PROVE  IInv' /\ [Walk!Next]_(Walk!vars)
  <1>. DEFINE f == Top.file
  <1>1. /\ thrown /\ Len(frames) > 1
        /\ imported' = [imported EXCEPT ![active] = @ \ {f}]
        /\ frames' = Returned
        /\ UNCHANGED <<imports, inits, active, thrown, kept>>
    BY DEF Rollback
  <1>2. frames # <<>>
    <2>1. Len(<<>>) = 0
      OBVIOUS
    <2>. QED  BY <2>1, <1>1
  <1>3. /\ frames \in Seq(FrameSet) /\ Len(frames) \in Nat \ {0}
        /\ Open \in Seq(Files) /\ Len(Open) = Len(frames) - 1
        /\ Walk!Importer = f
        /\ active \in Registries
        /\ imported[active] = Elements(Open) \cup Elements(Done)
    BY <1>2, View
  <1>4. /\ TypeOK /\ Calls(frames) /\ WalkInv /\ Cleared
    BY DEF IInv
  <1>5. Open # <<>> /\ Open[Len(Open)] = f
    <2>1. Open # <<>>
      BY <1>1, <1>3, EmptySeq
    <2>. QED  BY <2>1, <1>3 DEF Walk!Importer
  <1>. HIDE DEF f
  <1>6. /\ frames' \in Seq(FrameSet) /\ frames' # <<>>
        /\ Open' = SubSeq(Open, 1, Len(Open) - 1)
    BY <1>1, <1>3, InsideReturn DEF Returned, Open
  <1>7. Elements(Open) = Elements(Open') \cup {f}
    BY <1>3, <1>5, <1>6, OpenFront
  <1>8. f \notin Elements(Open') \cup Elements(Done)
    <2>1. WalkProofs!OnceEach
      BY <1>4 DEF WalkInv, WalkProofs!IInv
    <2>2. f \notin Elements(Done)
      BY <2>1, <1>7 DEF WalkProofs!OnceEach, WalkProofs!Elements, Elements
    <2>3. f \notin Elements(Open')
      <3>. DEFINE n == Len(Open)
      <3>1. /\ n \in Nat \ {0} /\ DOMAIN Open = 1..n /\ DOMAIN Open' = 1..(n - 1)
            /\ \A i \in 1..(n - 1) : Open'[i] = Open[i]
        BY <1>3, <1>5, <1>6
      <3>. HIDE DEF n
      <3>2. ASSUME NEW i \in 1..(n - 1) PROVE Open'[i] # f
        <4>1. i \in DOMAIN Open /\ n \in DOMAIN Open /\ i # n
          BY <3>1
        <4>. QED  BY <4>1, <3>1, <2>1, <1>5 DEF WalkProofs!OnceEach, n
      <3>. QED  BY <3>1, <3>2 DEF Elements
    <2>. QED  BY <2>2, <2>3
  <1>9. Done' = Done /\ imported'[active'] = imported[active] \ {f}
    BY <1>1, <1>3, <1>4 DEF TypeOK, Done
  <1>10. TypeOK'
    <2>1. imported' \in [Registries -> SUBSET Files]
      BY <1>1, <1>4 DEF TypeOK, f
    <2>. QED  BY <2>1, <1>1, <1>4, <1>6 DEF TypeOK, FrameSet
  <1>11. Calls(frames)'
    <2>1. Calls(frames')
      BY <1>1, <1>3, <1>4, ReturnKeeps DEF Returned
    <2>. QED  BY <2>1, <1>1 DEF Calls
  <1>12. Marked'
    <2>1. Elements(Open)' = Elements(Open') /\ Elements(Done)' = Elements(Done')
      BY DEF Elements
    <2>. QED  BY <2>1, <1>3, <1>7, <1>8, <1>9 DEF Marked
  <1>13. Walk!GiveUp
    BY <1>1, <1>5, <1>6, <1>9 DEF Walk!GiveUp
  <1>14. [Walk!Next]_(Walk!vars)
    BY <1>13 DEF Walk!Next
  <1>15. WalkInv' /\ Cleared'
    BY <1>1, <1>4, <1>14, WalkStep DEF Cleared
  <1>. QED  BY <1>1, <1>10, <1>11, <1>12, <1>14, <1>15 DEF IInv

\* Nothing is said of an empty stack.
LEMMA NoCalls == Calls(<<>>) /\ \A marked : Past(<<>>, marked)
  <1>1. 1..(Len(<<>>) - 1) = {} /\ DOMAIN <<>> = {}
    OBVIOUS
  <1>. QED  BY <1>1 DEF Calls, Past

LEMMA EndStep ==
  ASSUME IInv, End
  PROVE  IInv' /\ [Walk!Next]_(Walk!vars)
  <1>1. /\ Len(frames) = 1
        /\ imported' = IF active = "context" THEN [imported EXCEPT ![active] = {}] ELSE imported
        /\ inits' = IF active = "context" /\ thrown THEN [inits EXCEPT ![active] = <<>>] ELSE inits
        /\ frames' = <<>>
        /\ UNCHANGED <<imports, active, thrown, kept>>
    BY DEF End
  <1>2. frames # <<>>
    <2>1. Len(<<>>) = 0
      OBVIOUS
    <2>. QED  BY <2>1, <1>1
  <1>3. /\ Open \in Seq(Files) /\ Len(Open) = 0 /\ active \in Registries
    BY <1>1, <1>2, View
  <1>4. /\ TypeOK /\ WalkInv /\ Cleared
    BY DEF IInv
  <1>5. Open = <<>> /\ Open' = <<>>
    BY <1>1, <1>3, EmptySeq, InsideNone DEF Open
  <1>6. Calls(frames)' /\ Past(frames, imported[active])'
    BY <1>1, NoCalls DEF Calls, Past
  <1>7. Marked'
    BY <1>1 DEF Marked
  <1>8. <<>> \in Seq(Files) /\ <<>> \in Seq(FrameSet) /\ Len(<<>>) = 0
    OBVIOUS
  <1>9. CASE active = "context" /\ thrown
    <2>1. inits' = [inits EXCEPT ![active] = <<>>] /\ kept' = 0
      BY <1>1, <1>4, <1>9 DEF Cleared
    <2>2. inits'[active'] = <<>>
      BY <2>1, <1>1, <1>3, <1>4 DEF TypeOK
    <2>3. Done' = <<>>
      BY <2>1, <2>2, <1>8, SubSeqEmpty DEF Done
    <2>4. TypeOK'
      <3>1. inits' \in [Registries -> Seq(Files)]
        BY <2>1, <1>4, <1>8 DEF TypeOK
      <3>2. imported' \in [Registries -> SUBSET Files]
        BY <1>1, <1>4 DEF TypeOK
      <3>3. kept' \in 0..Len(inits'[active'])
        BY <2>1, <2>2, <1>8
      <3>. QED  BY <3>1, <3>2, <3>3, <1>1, <1>4, <1>8 DEF TypeOK, FrameSet
    <2>5. [Walk!Next]_(Walk!vars)
      BY <1>1, <1>5, <1>9, <2>3 DEF Walk!Next, Walk!Forget
    <2>6. WalkInv' /\ Cleared'
      BY <1>4, <2>1, <2>5, WalkStep DEF Cleared
    <2>. QED  BY <1>6, <1>7, <2>4, <2>5, <2>6 DEF IInv
  <1>10. CASE ~(active = "context" /\ thrown)
    <2>1. inits' = inits /\ Done' = Done
      BY <1>1, <1>10 DEF Done
    <2>2. TypeOK'
      <3>1. imported' \in [Registries -> SUBSET Files]
        BY <1>1, <1>4 DEF TypeOK
      <3>. QED  BY <2>1, <3>1, <1>1, <1>4, <1>8 DEF TypeOK, FrameSet
    <2>3. UNCHANGED Walk!vars
      BY <2>1, <1>1, <1>5 DEF Walk!vars
    <2>4. WalkInv' /\ Cleared'
      BY <1>1, <1>4, <2>3, WalkStep DEF Cleared
    <2>. QED  BY <1>6, <1>7, <2>2, <2>3, <2>4 DEF IInv
  <1>. QED  BY <1>9, <1>10

\* the stack a compilation begins with
LEMMA FirstCall ==
  /\ <<Frame(Entry)>> \in Seq(FrameSet) /\ <<Frame(Entry)>> # <<>>
  /\ Inside(<<Frame(Entry)>>) = <<>>
  /\ Calls(<<Frame(Entry)>>)
  /\ imports \in [Files -> Seq(Files)] =>
       \A marked : Past(<<Frame(Entry)>>, marked)
  <1>. DEFINE first == <<Frame(Entry)>>
  <1>1. Frame(Entry) \in FrameSet /\ Frame(Entry).file = Entry /\ Frame(Entry).next = 1
    BY ImportsAssumption DEF Frame, FrameSet
  <1>2. /\ first \in Seq(FrameSet) /\ first # <<>> /\ Len(first) = 1
        /\ DOMAIN first = {1} /\ first[1] = Frame(Entry)
    BY <1>1
  <1>. HIDE DEF first
  <1>3. Inside(first) = <<>>
    <2>1. Inside(first) \in Seq(Files) /\ Len(Inside(first)) = 0
      BY <1>2, InsideIs
    <2>. QED  BY <2>1, EmptySeq
  <1>4. Calls(first)
    BY <1>1, <1>2 DEF Calls
  <1>5. ASSUME imports \in [Files -> Seq(Files)], NEW marked PROVE Past(first, marked)
    <2>1. ASSUME NEW j \in DOMAIN imports[Entry] PROVE ~(j < 1)
      <3>1. PICK m \in Nat : DOMAIN imports[Entry] = 1..m
        BY <1>5, ImportsAssumption, LenProperties
      <3>. QED  BY <3>1
    <2>. QED  BY <2>1, <1>1, <1>2 DEF Past
  <1>. QED  BY <1>2, <1>3, <1>4, <1>5 DEF first

LEMMA NoElements == Elements(<<>>) = {}
  BY DEF Elements

LEMMA InitInv == Init => IInv /\ Walk!Init
  <1>. SUFFICES ASSUME Init PROVE IInv /\ Walk!Init
    OBVIOUS
  <1>1. /\ imports \in Sources /\ active \in Registries /\ thrown = FALSE /\ kept = 0
        /\ imported[active] = {} /\ inits[active] = <<>>
        /\ frames = <<Frame(Entry)>> /\ frames # <<>>
    BY DEF Init
  <1>2. <<>> \in Seq(Files) /\ Len(<<>>) = 0
    OBVIOUS
  <1>3. TypeOK
    <2>1. /\ inits \in [Registries -> Seq(Files)]
          /\ imported \in [Registries -> SUBSET Files]
      BY <1>2 DEF Init
    <2>2. kept \in 0..Len(inits[active])
      BY <1>1, <1>2
    <2>. QED  BY <2>1, <2>2, <1>1, FirstCall DEF TypeOK, FrameSet
  <1>4. Calls(frames) /\ Past(frames, imported[active])
    BY <1>1, FirstCall, ImportsAssumption
  <1>5. Open = <<>>
    BY <1>1, FirstCall DEF Open
  <1>6. Done = <<>>
    BY <1>1, <1>2, SubSeqEmpty DEF Done
  <1>7. Marked
    BY <1>1, <1>5, <1>6, NoElements DEF Marked
  <1>8. Walk!Init
    BY <1>1, <1>5, <1>6 DEF Walk!Init
  <1>9. WalkInv
    <2>1. WalkProofs!Init
      BY <1>8 DEF Walk!Init, WalkProofs!Init
    <2>. QED  BY <2>1, WalkProofs!InitInv DEF WalkInv
  <1>. QED  BY <1>1, <1>3, <1>4, <1>7, <1>8, <1>9 DEF IInv, Cleared

LEMMA BeginStep ==
  ASSUME IInv, NEW r \in Registries, Begin(r)
  PROVE  IInv' /\ [Walk!Next]_(Walk!vars)
  <1>1. /\ frames = <<>> /\ active' = r /\ imports' \in Sources
        /\ imported' = [imported EXCEPT ![r] = {}]
        /\ inits' = [inits EXCEPT ![r] = Left(r)]
        /\ kept' = Len(Left(r))
        /\ frames' = <<Frame(Entry)>> /\ thrown' = FALSE
    BY DEF Begin
  <1>2. TypeOK /\ WalkInv
    BY DEF IInv
  <1>3. <<>> \in Seq(Files) /\ Len(<<>>) = 0
    OBVIOUS
  <1>4. Left(r) \in Seq(Files) /\ Len(Left(r)) \in Nat /\ (r = "context" => Left(r) = <<>>)
    BY <1>2, <1>3 DEF Left, TypeOK
  <1>5. imported'[active'] = {} /\ inits'[active'] = Left(r)
    BY <1>1, <1>2 DEF TypeOK
  <1>6. TypeOK'
    <2>1. inits' \in [Registries -> Seq(Files)] /\ imported' \in [Registries -> SUBSET Files]
      BY <1>1, <1>2, <1>4 DEF TypeOK
    <2>2. kept' \in 0..Len(inits'[active'])
      BY <1>1, <1>4, <1>5
    <2>. QED  BY <2>1, <2>2, <1>1, FirstCall DEF TypeOK, FrameSet
  <1>7. (Calls(frames) /\ Past(frames, imported[active]))'
    <2>1. FrameSet' = FrameSet
      OBVIOUS
    <2>2. Frame(Entry).file = Entry /\ Frame(Entry).next = 1
      BY DEF Frame
    <2>3. /\ Len(frames') = 1 /\ DOMAIN frames' = {1} /\ frames'[1] = Frame(Entry)
      BY <1>1
    <2>4. ASSUME NEW j \in DOMAIN imports'[Entry] PROVE ~(j < 1)
      <3>1. imports' \in [Files -> Seq(Files)]
        BY <1>1, ImportsAssumption
      <3>2. PICK m \in Nat : DOMAIN imports'[Entry] = 1..m
        BY <3>1, ImportsAssumption, LenProperties
      <3>. QED  BY <3>2
    <2>. QED  BY <2>2, <2>3, <2>4 DEF Calls, Past
  <1>8. Open = <<>> /\ Open' = <<>>
    BY <1>1, FirstCall, InsideNone DEF Open
  <1>9. Done' = <<>>
    BY <1>1, <1>4, <1>5, SubSeqEmpty DEF Done
  <1>10. Marked'
    <2>1. Elements(Open)' = {} /\ Elements(Done)' = {}
      BY <1>8, <1>9 DEF Elements
    <2>. QED  BY <2>1, <1>5 DEF Marked
  <1>11. [Walk!Next]_(Walk!vars)
    BY <1>1, <1>8, <1>9 DEF Walk!Next, Walk!Restart
  <1>12. WalkInv'
    BY <1>2, <1>11, WalkStep
  <1>13. Cleared'
    BY <1>1, <1>3, <1>4 DEF Cleared
  <1>. QED  BY <1>6, <1>7, <1>10, <1>11, <1>12, <1>13 DEF IInv

LEMMA NextInv == IInv /\ [Next]_vars => IInv' /\ [Walk!Next]_(Walk!vars)
  <1>. SUFFICES ASSUME IInv, [Next]_vars PROVE IInv' /\ [Walk!Next]_(Walk!vars)
    OBVIOUS
  <1>1. CASE Skip
    BY <1>1, SkipStep
  <1>2. CASE Enter
    BY <1>2, EnterStep
  <1>3. CASE Leave
    BY <1>3, LeaveStep
  <1>4. CASE Rollback
    BY <1>4, RollbackStep
  <1>5. CASE End
    BY <1>5, EndStep
  <1>6. CASE Throw
    BY <1>6, ThrowStep
  <1>7. ASSUME NEW r \in Registries, Begin(r) PROVE IInv' /\ [Walk!Next]_(Walk!vars)
    BY <1>7, BeginStep
  <1>8. CASE UNCHANGED vars
    <2>1. Open' = Open /\ Done' = Done
      BY <1>8 DEF vars, Open, Done
    <2>2. UNCHANGED Walk!vars
      BY <2>1, <1>8 DEF vars, Walk!vars
    <2>3. WalkInv'
      BY <2>2, WalkStep DEF IInv
    <2>4. (TypeOK /\ Calls(frames) /\ (~thrown => Past(frames, imported[active])) /\ Cleared)'
      BY <1>8 DEF vars, IInv, TypeOK, Calls, Past, Cleared
    <2>5. Marked'
      BY <1>8, <2>1 DEF vars, IInv, Marked
    <2>. QED  BY <2>2, <2>3, <2>4, <2>5 DEF IInv
  <1>. QED  BY <1>1, <1>2, <1>3, <1>4, <1>5, <1>6, <1>7, <1>8 DEF Next, Work

LEMMA Invariant == Spec => []IInv
  <1>. QED  BY InitInv, NextInv, PTL DEF Spec

\* The call stack and the registries keep their types.
THEOREM TypeCorrect == Spec => []TypeOK
  <1>. QED  BY Invariant, PTL DEF IInv

\* Exactly the files that are being compiled or have been are marked, also
\* while a failure takes the calls apart (compileImportSpec's catch).
THEOREM MarkedHolds == Spec => []Marked
  <1>. QED  BY Invariant, PTL DEF IInv

\* The compiler walks over the imports as ImportWalk promises.
THEOREM Refinement == Spec => ImplementsWalk
  <1>. QED  BY InitInv, NextInv, Invariant, PTL DEF Spec, ImplementsWalk, Walk!Spec

\* Initializers are registered dependency first, but for circles: the
\* compiler's order is the walk's.
THEOREM ImportsFirst == Spec => []DependencyFirst
  <1>1. IInv => DependencyFirst
    BY DEF IInv, WalkInv, WalkProofs!IInv, DependencyFirst, Walk!DependencyFirst,
           WalkProofs!DependencyFirst, Walk!Reaches, WalkProofs!Reaches,
           Walk!ImportsOf, WalkProofs!ImportsOf, Walk!Elements, WalkProofs!Elements
  <1>. QED  BY <1>1, Invariant, PTL

-----------------------------------------------------------------------------
(* There is an order of imports *)

\* what the first file to be imported brings in, and all of them
FirstOf(src, h, s) ==
  IF Head(s.rest) \in s.seen THEN <<>>
  ELSE Append(h[To(src[Head(s.rest)], s.seen \cup {Head(s.rest)})], Head(s.rest))
AllOf(src, h, s) ==
  IF s.rest = <<>> THEN <<>>
  ELSE FirstOf(src, h, s) \o h[To(Tail(s.rest), s.seen \cup Elements(FirstOf(src, h, s)))]

\* s has more known files than t, or less to import
Before(s, t) ==
  \/ t.seen \subseteq s.seen /\ s.seen # t.seen
  \/ t.seen = s.seen /\ Len(s.rest) < Len(t.rest)
Below(t) == {s \in Situations : Before(s, t)}

LEMMA LeastOne ==
  ASSUME NEW T, T \subseteq Nat, T # {}
  PROVE  \E n \in T : \A k \in T : n <= k
  <1>1. PICK n \in T : \A k \in T : ~ (<<k, n>> \in OpToRel(<, Nat))
    BY NatLessThanWellFounded, WFMin, Zenon
  <1>2. \A k \in T : ~(k < n)
    BY <1>1 DEF OpToRel
  <1>. QED  BY <1>2

LEMMA SituationIs ==
  ASSUME NEW s \in Situations
  PROVE  /\ s.rest \in Seq(Files) /\ s.seen \in SUBSET Files /\ Len(s.rest) \in Nat
         /\ s = To(s.rest, s.seen)
         /\ s.rest # <<>> => /\ Head(s.rest) \in Files /\ Tail(s.rest) \in Seq(Files)
                             /\ Len(Tail(s.rest)) < Len(s.rest)
  <1>1. s.rest \in Seq(Files) /\ s.seen \in SUBSET Files /\ s = [rest |-> s.rest, seen |-> s.seen]
    BY DEF Situations
  <1>2. ASSUME NEW fs \in Seq(Files), fs # <<>>
        PROVE  Head(fs) \in Files /\ Tail(fs) \in Seq(Files) /\ Len(Tail(fs)) < Len(fs)
    BY <1>2
  <1>. QED  BY <1>1, <1>2 DEF To

\* the situations have no infinite way down
LEMMA LeastSituation ==
  ASSUME NEW T, T \subseteq Situations, T # {}
  PROVE  \E s \in T : \A t \in T : ~Before(t, s)
  <1>. DEFINE left(s) == Cardinality(Files \ s.seen)
              N == {left(s) : s \in T}
  <1>1. ASSUME NEW s \in Situations
        PROVE  IsFiniteSet(Files \ s.seen) /\ left(s) \in Nat
    BY FilesAssumption, FS_Subset, FS_CardinalityType
  <1>2. PICK n \in N : \A k \in N : n <= k
    <2>1. N \subseteq Nat /\ N # {}
      BY <1>1
    <2>. HIDE DEF N
    <2>. QED  BY <2>1, LeastOne
  <1>. DEFINE T1 == {s \in T : left(s) = n}
              L == {Len(s.rest) : s \in T1}
  <1>3. PICK l \in L : \A k \in L : l <= k
    <2>1. L \subseteq Nat
      BY SituationIs
    <2>2. L # {}
      BY <1>2
    <2>. HIDE DEF L
    <2>. QED  BY <2>1, <2>2, LeastOne
  <1>4. PICK s \in T1 : Len(s.rest) = l
    BY <1>3
  <1>5. s \in Situations /\ s \in T /\ left(s) = n
    BY <1>4
  <1>6. ASSUME NEW t \in T PROVE ~Before(t, s)
    <2>1. t \in Situations /\ left(t) \in N /\ left(t) \in Nat
      BY <1>1
    <2>2. n \in Nat /\ n <= left(t)
      BY <1>1, <1>2, <1>5, <2>1
    <2>3. ASSUME s.seen \subseteq t.seen, s.seen # t.seen PROVE FALSE
      <3>1. s.seen \in SUBSET Files /\ t.seen \in SUBSET Files
        BY <1>5, <2>1, SituationIs
      <3>2. Files \ t.seen \in SUBSET (Files \ s.seen) /\ Files \ t.seen # Files \ s.seen
        BY <2>3, <3>1
      <3>3. left(t) <= left(s) /\ left(t) # left(s)
        BY <3>2, <1>1, <1>5, FS_Subset
      <3>. HIDE DEF left
      <3>. QED  BY <3>3, <1>5, <2>1, <2>2
    <2>4. ASSUME s.seen = t.seen, Len(t.rest) < Len(s.rest) PROVE FALSE
      <3>1. left(t) = left(s)
        BY <2>4
      <3>2. t \in T1
        BY <3>1, <1>5
      <3>3. Len(t.rest) \in L /\ Len(t.rest) \in Nat /\ Len(s.rest) \in Nat
        BY <3>2, <2>1, <1>5, SituationIs
      <3>4. l <= Len(t.rest)
        BY <3>3, <1>3
      <3>5. Len(t.rest) < l /\ l \in Nat
        BY <3>3, <2>4, <1>4
      <3>6. PICK k \in Nat : k = Len(t.rest)
        BY <3>3
      <3>. HIDE DEF L, T1, N, left
      <3>. QED  BY <3>4, <3>5, <3>6
    <2>. QED  BY <2>3, <2>4 DEF Before
  <1>. QED  BY <1>5, <1>6

\* what a situation brings in depends on those below it
LEMMA OnlyBelow ==
  ASSUME NEW src \in [Files -> Seq(Files)], NEW s \in Situations, NEW g, NEW h,
         \A t \in Below(s) : g[t] = h[t] /\ g[t] \in Seq(Files)
  PROVE  AllOf(src, g, s) = AllOf(src, h, s) /\ AllOf(src, g, s) \in Seq(Files)
  <1>1. CASE s.rest = <<>>
    BY <1>1 DEF AllOf
  <1>2. CASE s.rest # <<>>
    <2>1. PICK f \in Files : f = Head(s.rest)
      BY <1>2, SituationIs
    <2>2. s.rest \in Seq(Files) /\ s.seen \in SUBSET Files /\ Len(s.rest) \in Nat
          /\ Tail(s.rest) \in Seq(Files) /\ Len(Tail(s.rest)) < Len(s.rest)
      BY <1>2, SituationIs
    <2>3. /\ FirstOf(src, g, s) = FirstOf(src, h, s)
          /\ FirstOf(src, g, s) \in Seq(Files)
      <3>1. CASE f \in s.seen
        BY <3>1, <2>1 DEF FirstOf
      <3>2. CASE f \notin s.seen
        <4>1. PICK t : t = To(src[f], s.seen \cup {f})
          OBVIOUS
        <4>2. t \in Below(s)
          BY <4>1, <3>2, <2>1, <2>2 DEF Below, Before, Situations, To
        <4>3. g[t] = h[t] /\ g[t] \in Seq(Files)
          BY <4>2
        <4>4. FirstOf(src, g, s) = Append(g[t], f) /\ FirstOf(src, h, s) = Append(h[t], f)
          BY <4>1, <3>2, <2>1 DEF FirstOf
        <4>. QED  BY <4>3, <4>4
      <3>. QED  BY <3>1, <3>2
    <2>4. PICK e : e = FirstOf(src, g, s)
      OBVIOUS
    <2>5. e \in Seq(Files) /\ Elements(e) \in SUBSET Files
      BY <2>3, <2>4 DEF Elements
    <2>6. PICK u : u = To(Tail(s.rest), s.seen \cup Elements(e))
      OBVIOUS
    <2>7. u \in Below(s)
      BY <2>2, <2>5, <2>6 DEF Below, Before, Situations, To
    <2>8. g[u] = h[u] /\ g[u] \in Seq(Files)
      BY <2>7
    <2>9. AllOf(src, g, s) = e \o g[u] /\ AllOf(src, h, s) = e \o h[u]
      BY <1>2, <2>3, <2>4, <2>6 DEF AllOf
    <2>. QED  BY <2>5, <2>8, <2>9
  <1>. QED  BY <1>1, <1>2

\* h says what is brought in by the situations of X, and those they depend on
Tells(src, X, h) ==
  /\ X \subseteq Situations
  /\ \A s \in X : Below(s) \subseteq X
  /\ \A s \in X : h[s] \in Seq(Files) /\ h[s] = AllOf(src, h, s)

LEMMA TellsAlike ==
  ASSUME NEW src \in [Files -> Seq(Files)],
         NEW X, NEW g, Tells(src, X, g), NEW Y, NEW h, Tells(src, Y, h),
         NEW s \in X, s \in Y
  PROVE  g[s] = h[s]
  <1>. DEFINE T == {t \in X \cap Y : g[t] # h[t]}
  <1>. SUFFICES ASSUME T # {} PROVE FALSE
    OBVIOUS
  <1>1. T \subseteq Situations
    BY DEF Tells
  <1>2. PICK t \in T : \A u \in T : ~Before(u, t)
    BY <1>1, LeastSituation
  <1>3. ASSUME NEW u \in Below(t) PROVE g[u] = h[u] /\ g[u] \in Seq(Files)
    <2>1. u \in X /\ u \in Y /\ Before(u, t)
      BY <1>2 DEF Tells, Below
    <2>2. u \notin T
      BY <2>1, <1>2
    <2>. QED  BY <2>1, <2>2 DEF Tells
  <1>4. AllOf(src, g, t) = AllOf(src, h, t)
    BY <1>1, <1>3, OnlyBelow
  <1>5. g[t] = AllOf(src, g, t) /\ h[t] = AllOf(src, h, t) /\ g[t] # h[t]
    BY <1>2 DEF Tells
  <1>. QED  BY <1>4, <1>5

LEMMA OrderExists ==
  ASSUME NEW src \in [Files -> Seq(Files)]
  PROVE  \E h : Tells(src, Situations, h) /\ h = [s \in Situations |-> AllOf(src, h, s)]
  <1>. DEFINE U == {s \in Situations : \E X, g : Tells(src, X, g) /\ s \in X}
              H == [s \in U |-> CHOOSE v : \E X, g : Tells(src, X, g) /\ s \in X /\ v = g[s]]
  <1>1. ASSUME NEW X, NEW g, Tells(src, X, g), NEW s \in X
        PROVE  s \in U /\ H[s] = g[s]
    <2>1. s \in U
      BY <1>1 DEF Tells
    <2>2. \E v : \E Y, h : Tells(src, Y, h) /\ s \in Y /\ v = h[s]
      BY <1>1
    <2>3. H[s] = CHOOSE v : \E Y, h : Tells(src, Y, h) /\ s \in Y /\ v = h[s]
      BY <2>1
    <2>4. \E Y, h : Tells(src, Y, h) /\ s \in Y /\ H[s] = h[s]
      <3>. HIDE DEF H, U
      <3>. QED  BY <2>2, <2>3, Zenon
    <2>5. PICK Y, h : Tells(src, Y, h) /\ s \in Y /\ H[s] = h[s]
      BY <2>4
    <2>6. h[s] = g[s]
      <3>. HIDE DEF H, U
      <3>. QED  BY <1>1, <2>5, TellsAlike
    <2>. QED  BY <2>1, <2>5, <2>6
  <1>2. Tells(src, U, H)
    <2>1. U \subseteq Situations
      OBVIOUS
    <2>2. ASSUME NEW s \in U
          PROVE  Below(s) \subseteq U /\ H[s] \in Seq(Files) /\ H[s] = AllOf(src, H, s)
      <3>1. PICK X, g : Tells(src, X, g) /\ s \in X
        OBVIOUS
      <3>. HIDE DEF H, U
      <3>2. ASSUME NEW t \in Below(s) PROVE t \in X /\ t \in U /\ H[t] = g[t] /\ g[t] \in Seq(Files)
        <4>1. t \in X
          BY <3>1 DEF Tells
        <4>. QED  BY <4>1, <3>1, <1>1 DEF Tells
      <3>3. AllOf(src, g, s) = AllOf(src, H, s)
        BY <2>1, <3>2, OnlyBelow
      <3>4. H[s] = g[s] /\ g[s] \in Seq(Files) /\ g[s] = AllOf(src, g, s)
        BY <3>1, <1>1 DEF Tells
      <3>. QED  BY <3>2, <3>3, <3>4
    <2>. HIDE DEF H, U
    <2>. QED  BY <2>1, <2>2 DEF Tells
  <1>3. U = Situations
    <2>. DEFINE T == Situations \ U
    <2>1. SUFFICES ASSUME T # {} PROVE FALSE
      OBVIOUS
    <2>2. PICK s \in T : \A t \in T : ~Before(t, s)
      <3>1. T \subseteq Situations
        OBVIOUS
      <3>. HIDE DEF T
      <3>. QED  BY <2>1, <3>1, LeastSituation
    <2>3. Below(s) \subseteq U /\ s \in Situations /\ s \notin U
      BY <2>2 DEF Below
    <2>. DEFINE Y == U \cup {s}
                G == [t \in Y |-> IF t = s THEN AllOf(src, H, s) ELSE H[t]]
    <2>4. \A t \in U : G[t] = H[t]
      BY <2>3
    <2>5. G[s] = AllOf(src, H, s)
      OBVIOUS
    <2>. HIDE DEF H, U, G
    <2>6. ASSUME NEW t \in Y
          PROVE  Below(t) \subseteq U /\ G[t] \in Seq(Files) /\ G[t] = AllOf(src, G, t)
      <3>1. t \in Situations /\ Below(t) \subseteq U
        BY <2>3, <1>2 DEF Tells
      <3>2. \A u \in Below(t) : H[u] = G[u] /\ H[u] \in Seq(Files)
        BY <3>1, <2>4, <1>2 DEF Tells
      <3>3. AllOf(src, H, t) = AllOf(src, G, t) /\ AllOf(src, H, t) \in Seq(Files)
        BY <3>1, <3>2, OnlyBelow
      <3>4. G[t] = AllOf(src, H, t)
        <4>1. CASE t = s
          BY <4>1, <2>5
        <4>2. CASE t # s
          BY <4>2, <2>4, <1>2 DEF Tells
        <4>. QED  BY <4>1, <4>2
      <3>. QED  BY <3>1, <3>3, <3>4
    <2>7. Tells(src, Y, G)
      <3>1. Y \subseteq Situations
        BY <2>3, <1>2 DEF Tells
      <3>. QED  BY <3>1, <2>6 DEF Tells
    <2>8. s \in U
      BY <2>7, <1>1
    <2>. QED  BY <2>3, <2>8
  <1>4. H = [s \in Situations |-> AllOf(src, H, s)]
    <2>1. H = [s \in Situations |-> H[s]]
      BY <1>3
    <2>2. \A s \in Situations : H[s] = AllOf(src, H, s)
      <3>. HIDE DEF H, U
      <3>. QED  BY <1>2, <1>3 DEF Tells
    <2>. HIDE DEF H, U
    <2>. QED  BY <2>1, <2>2
  <1>5. Tells(src, Situations, H)
    <2>. HIDE DEF H, U
    <2>. QED  BY <1>2, <1>3
  <1>. HIDE DEF H
  <1>. QED  BY <1>4, <1>5

\* The definition of BroughtIn says what it is meant to.
LEMMA BroughtInIs ==
  ASSUME NEW src \in [Files -> Seq(Files)], NEW s \in Situations
  PROVE  BroughtIn(src)[s] \in Seq(Files) /\ BroughtIn(src)[s] = AllOf(src, BroughtIn(src), s)
  <1>1. PICK h : Tells(src, Situations, h) /\ h = [t \in Situations |-> AllOf(src, h, t)]
    BY OrderExists
  <1>2. BroughtIn(src) = CHOOSE g : g = [t \in Situations |-> AllOf(src, g, t)]
    BY Zenon DEF BroughtIn, AllOf, FirstOf
  <1>3. PICK g : g = BroughtIn(src)
    OBVIOUS
  <1>4. g = [t \in Situations |-> AllOf(src, g, t)]
    BY <1>1, <1>2, <1>3, Zenon
  <1>5. ASSUME NEW t \in Situations PROVE g[t] = AllOf(src, g, t)
    BY <1>4
  <1>6. g[s] \in Seq(Files)
    <2>. DEFINE T == {t \in Situations : g[t] \notin Seq(Files)}
    <2>1. SUFFICES ASSUME T # {} PROVE FALSE
      OBVIOUS
    <2>2. PICK t \in T : \A u \in T : ~Before(u, t)
      <3>1. T \subseteq Situations
        OBVIOUS
      <3>. HIDE DEF T
      <3>. QED  BY <2>1, <3>1, LeastSituation
    <2>3. \A u \in Below(t) : g[u] \in Seq(Files)
      BY <2>2 DEF Below
    <2>4. AllOf(src, g, t) \in Seq(Files)
      BY <2>2, <2>3, OnlyBelow
    <2>. QED  BY <2>2, <2>4, <1>5
  <1>. QED  BY <1>3, <1>5, <1>6

-----------------------------------------------------------------------------
(* What the rest of a file brings in *)

Rest(src, f, n) == SubSeq(src[f], n, Len(src[f]))
Brings(src, f, n, seen) == BroughtIn(src)[To(Rest(src, f, n), seen)]

LEMMA ConcatElements ==
  ASSUME NEW s \in Seq(Files), NEW t \in Seq(Files)
  PROVE  Elements(s \o t) = Elements(s) \cup Elements(t)
  <1>1. PICK m \in Nat : m = Len(s) /\ DOMAIN s = 1..m
    OBVIOUS
  <1>2. PICK n \in Nat : n = Len(t) /\ DOMAIN t = 1..n
    OBVIOUS
  <1>3. PICK u : u = s \o t
    OBVIOUS
  <1>4. /\ DOMAIN u = 1..(m + n)
        /\ \A i \in 1..(m + n) : u[i] = IF i <= m THEN s[i] ELSE t[i - m]
    BY <1>1, <1>2, <1>3, ConcatProperties, LenProperties
  <1>5. \A i \in 1..m : i \in 1..(m + n) /\ u[i] = s[i]
    BY <1>4
  <1>6. \A i \in 1..n : m + i \in 1..(m + n) /\ u[m + i] = t[i]
    BY <1>4
  <1>7. \A i \in 1..(m + n) : (i \in 1..m /\ u[i] = s[i]) \/ (i - m \in 1..n /\ u[i] = t[i - m])
    BY <1>4
  <1>8. Elements(u) \subseteq Elements(s) \cup Elements(t)
    BY <1>1, <1>2, <1>4, <1>7 DEF Elements
  <1>9. Elements(s) \subseteq Elements(u)
    BY <1>1, <1>4, <1>5 DEF Elements
  <1>10. Elements(t) \subseteq Elements(u)
    BY <1>2, <1>4, <1>6 DEF Elements
  <1>. QED  BY <1>3, <1>8, <1>9, <1>10

LEMMA RestIs ==
  ASSUME NEW src \in [Files -> Seq(Files)], NEW f \in Files, NEW n \in Nat \ {0}
  PROVE  /\ Rest(src, f, n) \in Seq(Files)
         /\ n \notin DOMAIN src[f] => Rest(src, f, n) = <<>>
         /\ n \in DOMAIN src[f] => /\ Rest(src, f, n) # <<>>
                                   /\ Head(Rest(src, f, n)) = src[f][n] /\ src[f][n] \in Files
                                   /\ Tail(Rest(src, f, n)) = Rest(src, f, n + 1)
         /\ Rest(src, f, 1) = src[f]
  <1>1. PICK s \in Seq(Files) : s = src[f]
    OBVIOUS
  <1>2. PICK m \in Nat : m = Len(s) /\ DOMAIN s = 1..m
    BY LenProperties
  <1>3. /\ SubSeq(s, n, m) \in Seq(Files)
        /\ Len(SubSeq(s, n, m)) = IF n <= m THEN m - n + 1 ELSE 0
    <2>1. \A i \in n..m : s[i] \in Files
      BY <1>2
    <2>. QED  BY <2>1, SubSeqProperties
  <1>4. n \notin 1..m => SubSeq(s, n, m) = <<>>
    <2>1. n \notin 1..m => m < n
      OBVIOUS
    <2>. QED  BY <2>1, SubSeqEmpty
  <1>5. n \in 1..m => /\ SubSeq(s, n, m) # <<>>
                      /\ Head(SubSeq(s, n, m)) = s[n] /\ s[n] \in Files
                      /\ Tail(SubSeq(s, n, m)) = SubSeq(s, n + 1, m)
    <2>. SUFFICES ASSUME n \in 1..m
                  PROVE  /\ SubSeq(s, n, m) # <<>>
                         /\ Head(SubSeq(s, n, m)) = s[n] /\ s[n] \in Files
                         /\ Tail(SubSeq(s, n, m)) = SubSeq(s, n + 1, m)
      OBVIOUS
    <2>1. n \in 1..Len(s) /\ m \in n..Len(s) /\ s[n] \in Files
      BY <1>2
    <2>2. Len(SubSeq(s, n, m)) # 0
      BY <1>3
    <2>3. SubSeq(s, n, m) # <<>>
      BY <2>2, EmptySeq
    <2>. QED  BY <2>1, <2>3, HeadTailOfSubSeq
  <1>6. SubSeq(s, 1, m) = s
    BY <1>2, SubSeqFull
  <1>. QED  BY <1>1, <1>2, <1>3, <1>4, <1>5, <1>6 DEF Rest

LEMMA BringsIs ==
  ASSUME NEW src \in [Files -> Seq(Files)], NEW f \in Files, NEW n \in Nat \ {0},
         NEW seen \in SUBSET Files
  PROVE  /\ To(Rest(src, f, n), seen) \in Situations
         /\ Brings(src, f, n, seen) \in Seq(Files)
         /\ Brings(src, f, n, seen) = AllOf(src, BroughtIn(src), To(Rest(src, f, n), seen))
  <1>1. To(Rest(src, f, n), seen) \in Situations
    BY RestIs DEF To, Situations
  <1>. QED  BY <1>1, BroughtInIs DEF Brings

\* nothing after the last import
LEMMA BringsNothing ==
  ASSUME NEW src \in [Files -> Seq(Files)], NEW f \in Files, NEW n \in Nat \ {0},
         NEW seen \in SUBSET Files, n \notin DOMAIN src[f]
  PROVE  Brings(src, f, n, seen) = <<>>
  <1>1. Rest(src, f, n) = <<>>
    BY RestIs
  <1>2. AllOf(src, BroughtIn(src), To(Rest(src, f, n), seen)) = <<>>
    BY <1>1 DEF AllOf, To
  <1>. QED  BY <1>2, BringsIs

\* nothing by a file that is known
LEMMA BringsKnown ==
  ASSUME NEW src \in [Files -> Seq(Files)], NEW f \in Files, NEW n \in Nat \ {0},
         n \in DOMAIN src[f], NEW seen \in SUBSET Files, src[f][n] \in seen
  PROVE  Brings(src, f, n, seen) = Brings(src, f, n + 1, seen)
  <1>1. /\ Rest(src, f, n) # <<>> /\ Head(Rest(src, f, n)) = src[f][n]
        /\ Tail(Rest(src, f, n)) = Rest(src, f, n + 1)
    BY RestIs
  <1>2. PICK s : s = To(Rest(src, f, n), seen)
    OBVIOUS
  <1>3. s.rest = Rest(src, f, n) /\ s.seen = seen
    BY <1>2 DEF To
  <1>4. FirstOf(src, BroughtIn(src), s) = <<>>
    BY <1>1, <1>3 DEF FirstOf
  <1>5. seen \cup Elements(<<>>) = seen
    BY NoElements
  <1>6. AllOf(src, BroughtIn(src), s) = <<>> \o Brings(src, f, n + 1, seen)
    BY <1>1, <1>3, <1>4, <1>5 DEF AllOf, Brings
  <1>7. Brings(src, f, n + 1, seen) \in Seq(Files)
    BY BringsIs
  <1>8. Brings(src, f, n, seen) = AllOf(src, BroughtIn(src), s)
    BY <1>2, BringsIs
  <1>. QED  BY <1>6, <1>7, <1>8, ConcatEmptySeq

\* what a file brings in, and then the file
Closed(brought, f) == Append(brought, f)
Joined(s, t) == s \o t
Whole(src, f, seen) == Closed(Brings(src, f, 1, seen \cup {f}), f)

LEMMA WholeIs ==
  ASSUME NEW src \in [Files -> Seq(Files)], NEW f \in Files, NEW seen \in SUBSET Files
  PROVE  /\ Brings(src, f, 1, seen \cup {f}) \in Seq(Files)
         /\ Whole(src, f, seen) \in Seq(Files)
  <1>1. Brings(src, f, 1, seen \cup {f}) \in Seq(Files)
    <2>1. PICK known \in SUBSET Files : known = seen \cup {f}
      OBVIOUS
    <2>2. Brings(src, f, 1, known) \in Seq(Files)
      BY BringsIs
    <2>. QED  BY <2>1, <2>2
  <1>2. \A s \in Seq(Files) : Append(s, f) \in Seq(Files)
    OBVIOUS
  <1>. QED  BY <1>1, <1>2 DEF Whole, Closed

\* by a new file all of it, and then the rest
ByNew(src, f, n, seen) ==
  Joined(Whole(src, src[f][n], seen),
         Brings(src, f, n + 1, seen \cup Elements(Whole(src, src[f][n], seen))))

LEMMA BringsNew ==
  ASSUME NEW src \in [Files -> Seq(Files)], NEW f \in Files, NEW n \in Nat \ {0},
         n \in DOMAIN src[f], NEW seen \in SUBSET Files, src[f][n] \notin seen
  PROVE  Brings(src, f, n, seen) = ByNew(src, f, n, seen)
  <1>. PICK t : t = src[f][n]
    OBVIOUS
  <1>. t \in Files /\ t \notin seen
    BY RestIs
  <1>1. /\ Rest(src, f, n) # <<>> /\ Head(Rest(src, f, n)) = t
        /\ Tail(Rest(src, f, n)) = Rest(src, f, n + 1)
    BY RestIs
  <1>2. PICK s : s = To(Rest(src, f, n), seen)
    OBVIOUS
  <1>3. s.rest = Rest(src, f, n) /\ s.seen = seen
    BY <1>2 DEF To
  <1>4. Rest(src, t, 1) = src[t]
    BY RestIs
  <1>5. FirstOf(src, BroughtIn(src), s) = Whole(src, t, seen)
    BY <1>1, <1>3, <1>4 DEF FirstOf, Brings, Whole, Closed
  <1>6. AllOf(src, BroughtIn(src), s)
          = Joined(Whole(src, t, seen), Brings(src, f, n + 1, seen \cup Elements(Whole(src, t, seen))))
    BY <1>1, <1>3, <1>5 DEF AllOf, Brings, Joined
  <1>7. Brings(src, f, n, seen) = AllOf(src, BroughtIn(src), s)
    BY <1>2, BringsIs
  <1>. QED  BY <1>6, <1>7 DEF ByNew

-----------------------------------------------------------------------------
(* What the calls will have registered *)

\* what is registered when a call has got from the n-th import of f to the end
\* of its file, done being registered and the files marked in work
Until(src, f, n, marked, done) == Joined(done, Brings(src, f, n, marked \cup Elements(done)))

LEMMA JoinedAlike ==
  ASSUME NEW s \in Seq(Files), NEW t \in Seq(Files), NEW u \in Seq(Files)
  PROVE  Joined(Joined(s, t), u) = Joined(s, Joined(t, u)) /\ Joined(s, t) \in Seq(Files)
  <1>1. (s \o t) \o u = s \o (t \o u)
    BY ConcatAssociative
  <1>2. s \o t \in Seq(Files)
    OBVIOUS
  <1>. QED  BY <1>1, <1>2, Zenon DEF Joined

LEMMA Regroup ==
  ASSUME NEW done \in Seq(Files), NEW brought \in Seq(Files), NEW f \in Files,
         NEW after \in Seq(Files)
  PROVE  /\ Joined(done, brought) \in Seq(Files)
         /\ Closed(Joined(done, brought), f) = Joined(done, Closed(brought, f))
         /\ Joined(done, Joined(Closed(brought, f), after))
              = Joined(Closed(Joined(done, brought), f), after)
  <1>0. <<f>> \in Seq(Files) /\ Append(brought, f) \in Seq(Files)
    OBVIOUS
  <1>1. PICK end \in Seq(Files) : end = <<f>>
    BY <1>0
  <1>2. \A s \in Seq(Files) : Closed(s, f) = Joined(s, end)
    BY <1>1, AppendIsConcat DEF Closed, Joined
  <1>3. Joined(done, brought) \in Seq(Files)
    BY JoinedAlike
  <1>4. PICK whole \in Seq(Files) : whole = Closed(brought, f)
    BY <1>0 DEF Closed
  <1>5. Joined(Joined(done, brought), end) = Joined(done, Joined(brought, end))
    BY JoinedAlike
  <1>6. Joined(Joined(done, whole), after) = Joined(done, Joined(whole, after))
    BY JoinedAlike
  <1>7. Closed(Joined(done, brought), f) = Joined(done, whole)
    BY <1>2, <1>3, <1>4, <1>5
  <1>. QED  BY <1>3, <1>4, <1>6, <1>7

LEMMA ElementsAreFiles ==
  ASSUME NEW s \in Seq(Files)
  PROVE  Elements(s) \in SUBSET Files
  BY DEF Elements

LEMMA UntilKnown ==
  ASSUME NEW src \in [Files -> Seq(Files)], NEW f \in Files, NEW n \in Nat \ {0},
         n \in DOMAIN src[f], NEW marked \in SUBSET Files, NEW done \in Seq(Files),
         src[f][n] \in marked \cup Elements(done)
  PROVE  Until(src, f, n, marked, done) = Until(src, f, n + 1, marked, done)
  <1>1. marked \cup Elements(done) \in SUBSET Files
    BY ElementsAreFiles
  <1>2. Brings(src, f, n, marked \cup Elements(done)) = Brings(src, f, n + 1, marked \cup Elements(done))
    BY <1>1, BringsKnown
  <1>. QED  BY <1>2 DEF Until

Entered(src, f, n, marked, done) == Until(src, src[f][n], 1, marked \cup {src[f][n]}, done)
UntilOn(src, f, n, marked, done) ==
  Until(src, f, n + 1, marked, Closed(Entered(src, f, n, marked, done), src[f][n]))

LEMMA UntilNew ==
  ASSUME NEW src \in [Files -> Seq(Files)], NEW f \in Files, NEW n \in Nat \ {0},
         n \in DOMAIN src[f], NEW marked \in SUBSET Files, NEW done \in Seq(Files),
         src[f][n] \notin marked \cup Elements(done)
  PROVE  /\ Entered(src, f, n, marked, done) \in Seq(Files)
         /\ Until(src, f, n, marked, done) = UntilOn(src, f, n, marked, done)
  <1>. PICK t : t = src[f][n]
    OBVIOUS
  <1>. t \in Files /\ t \notin marked \cup Elements(done)
    BY RestIs
  <1>1. PICK seen \in SUBSET Files : seen = marked \cup Elements(done)
    BY ElementsAreFiles
  <1>2. PICK brought : brought = Brings(src, t, 1, seen \cup {t})
    OBVIOUS
  <1>3. PICK whole : whole = Whole(src, t, seen)
    OBVIOUS
  <1>4. brought \in Seq(Files) /\ whole \in Seq(Files) /\ whole = Closed(brought, t)
    BY <1>2, <1>3, WholeIs DEF Whole
  <1>5. PICK after : after = Brings(src, f, n + 1, seen \cup Elements(whole))
    OBVIOUS
  <1>6. Brings(src, f, n, seen) = Joined(whole, after)
    <2>1. src[f][n] \notin seen
      BY <1>1
    <2>2. Brings(src, f, n, seen) = ByNew(src, f, n, seen)
      BY <2>1, BringsNew
    <2>. QED  BY <2>2, <1>3, <1>5 DEF ByNew
  <1>7. after \in Seq(Files)
    <2>1. seen \cup Elements(whole) \in SUBSET Files /\ n + 1 \in Nat \ {0}
      BY <1>4, ElementsAreFiles
    <2>. QED  BY <2>1, <1>5, BringsIs
  <1>8. Until(src, t, 1, marked \cup {t}, done) = Joined(done, brought)
    <2>1. marked \cup {t} \cup Elements(done) = seen \cup {t}
      BY <1>1
    <2>. QED  BY <2>1, <1>2 DEF Until
  <1>9. /\ Joined(done, brought) \in Seq(Files)
        /\ Closed(Joined(done, brought), t) = Joined(done, whole)
        /\ Joined(done, Joined(whole, after)) = Joined(Closed(Joined(done, brought), t), after)
    BY <1>4, <1>7, Regroup
  <1>10. marked \cup Elements(Closed(Joined(done, brought), t)) = seen \cup Elements(whole)
    <2>1. Elements(Joined(done, whole)) = Elements(done) \cup Elements(whole)
      BY <1>4, ConcatElements DEF Joined
    <2>. QED  BY <2>1, <1>1, <1>9
  <1>11. Until(src, f, n, marked, done) = Joined(done, Joined(whole, after))
    BY <1>1, <1>6 DEF Until
  <1>12. Until(src, f, n + 1, marked, Closed(Joined(done, brought), t))
           = Joined(Closed(Joined(done, brought), t), after)
    BY <1>5, <1>10 DEF Until
  <1>13. Entered(src, f, n, marked, done) = Joined(done, brought)
    BY <1>8 DEF Entered
  <1>. QED  BY <1>9, <1>11, <1>12, <1>13 DEF UntilOn

LEMMA UntilEnd ==
  ASSUME NEW src \in [Files -> Seq(Files)], NEW f \in Files, NEW n \in Nat \ {0},
         n \notin DOMAIN src[f], NEW marked \in SUBSET Files, NEW done \in Seq(Files)
  PROVE  Until(src, f, n, marked, done) = done
  <1>1. marked \cup Elements(done) \in SUBSET Files
    BY ElementsAreFiles
  <1>2. Brings(src, f, n, marked \cup Elements(done)) = <<>>
    BY <1>1, BringsNothing
  <1>. QED  BY <1>2, ConcatEmptySeq DEF Until, Joined

LEMMA UntilBegin ==
  ASSUME NEW src \in [Files -> Seq(Files)]
  PROVE  Until(src, Entry, 1, {}, <<>>) = PostOrder(src) /\ PostOrder(src) \in Seq(Files)
  <1>1. Entry \in Files /\ {} \in SUBSET Files /\ 1 \in Nat \ {0}
    BY ImportsAssumption
  <1>2. {} \cup Elements(<<>>) = {}
    BY NoElements
  <1>3. Brings(src, Entry, 1, {}) = PostOrder(src)
    BY <1>1, RestIs DEF Brings, PostOrder
  <1>4. Brings(src, Entry, 1, {}) \in Seq(Files)
    BY <1>1, BringsIs
  <1>. QED  BY <1>2, <1>3, <1>4, ConcatEmptySeq DEF Until, Joined

-----------------------------------------------------------------------------
(* The calls go on to what is foreseen *)

\* the marks of the calls up to the k-th
Into(stack, k) == {stack[j].file : j \in 2..k}

\* a says what is registered when each of the calls has got to the end of its file
Foreseen(src, stack, done, a) ==
  LET n == Len(stack)
      Ends(k, next, before) == a[k] = Until(src, stack[k].file, next, Into(stack, k), before)
  IN  /\ \A k \in 1..n : a[k] \in Seq(Files)
      /\ Ends(n, stack[n].next, done)
      /\ \A k \in 1..(n - 1) : Ends(k, stack[k].next + 1, Closed(a[k + 1], stack[k + 1].file))
      /\ a[1] = PostOrder(src)

LEMMA CallIs ==
  ASSUME NEW stack \in Seq(FrameSet), NEW k \in 1..Len(stack)
  PROVE  stack[k].file \in Files /\ stack[k].next \in Nat \ {0} /\ Into(stack, k) \in SUBSET Files
  <1>1. \A j \in 1..Len(stack) : stack[j] \in FrameSet
    BY ElementOfSeq
  <1>2. \A j \in 2..k : j \in 1..Len(stack)
    <2>1. Len(stack) \in Nat
      OBVIOUS
    <2>. QED  BY <2>1
  <1>. QED  BY <1>1, <1>2 DEF FrameSet, Into

LEMMA IntoSame ==
  ASSUME NEW stack, NEW other, NEW k \in Nat,
         \A j \in 1..k : other[j].file = stack[j].file
  PROVE  Into(other, k) = Into(stack, k)
  <1>1. \A j \in 2..k : j \in 1..k
    OBVIOUS
  <1>. QED  BY <1>1 DEF Into

\* the last call goes past an import of a file that is known
LEMMA ForeseenSkip ==
  ASSUME NEW src \in [Files -> Seq(Files)], NEW stack \in Seq(FrameSet), NEW done \in Seq(Files),
         NEW n \in Nat \ {0}, n = Len(stack), NEW a, Foreseen(src, stack, done, a),
         stack[n].next \in DOMAIN src[stack[n].file],
         src[stack[n].file][stack[n].next] \in Into(stack, n) \cup Elements(done),
         NEW on, Len(on) = n, \A k \in 1..n : on[k].file = stack[k].file,
         \A k \in 1..(n - 1) : on[k].next = stack[k].next, on[n].next = stack[n].next + 1
  PROVE  Foreseen(src, on, done, a)
  <1>1. /\ n \in 1..n /\ stack[n].file \in Files /\ stack[n].next \in Nat \ {0}
        /\ Into(stack, n) \in SUBSET Files
    BY CallIs
  <1>2. \A k \in 1..n : Into(on, k) = Into(stack, k)
    <2>1. ASSUME NEW k \in 1..n, NEW j \in 1..k PROVE j \in 1..n
      OBVIOUS
    <2>2. ASSUME NEW k \in 1..n PROVE k \in Nat /\ \A j \in 1..k : on[j].file = stack[j].file
      BY <2>1
    <2>3. ASSUME NEW k \in 1..n PROVE Into(on, k) = Into(stack, k)
      BY <2>2, IntoSame
    <2>. QED  BY <2>3
  <1>3. a[n] = Until(src, on[n].file, on[n].next, Into(on, n), done)
    <2>1. PICK f \in Files : f = stack[n].file
      BY <1>1
    <2>2. PICK next \in Nat \ {0} : next = stack[n].next
      BY <1>1
    <2>3. PICK marked \in SUBSET Files : marked = Into(stack, n)
      BY <1>1
    <2>4. Until(src, f, next, marked, done) = Until(src, f, next + 1, marked, done)
      <3>1. next \in DOMAIN src[f] /\ src[f][next] \in marked \cup Elements(done)
        BY <2>1, <2>2, <2>3
      <3>. QED  BY <3>1, UntilKnown, Zenon
    <2>5. a[n] = Until(src, f, next, marked, done)
      BY <2>1, <2>2, <2>3 DEF Foreseen
    <2>6. on[n].file = f /\ on[n].next = next + 1 /\ Into(on, n) = marked
      BY <1>1, <1>2, <2>1, <2>2, <2>3
    <2>. QED  BY <2>4, <2>5, <2>6
  <1>4. ASSUME NEW k \in 1..(n - 1)
        PROVE  a[k]
                 = Until(src, on[k].file, on[k].next + 1, Into(on, k),
                         Closed(a[k + 1], on[k + 1].file))
    <2>1. k \in 1..n /\ k + 1 \in 1..n
      OBVIOUS
    <2>. QED  BY <2>1, <1>2 DEF Foreseen
  <1>. QED  BY <1>3, <1>4 DEF Foreseen

\* the last call goes into a file that is new
LEMMA ForeseenEnter ==
  ASSUME NEW src \in [Files -> Seq(Files)], NEW stack \in Seq(FrameSet), NEW done \in Seq(Files),
         NEW n \in Nat \ {0}, n = Len(stack), NEW a, Foreseen(src, stack, done, a),
         stack[n].next \in DOMAIN src[stack[n].file],
         NEW t \in Files, t = src[stack[n].file][stack[n].next],
         t \notin Into(stack, n) \cup Elements(done),
         NEW on, Len(on) = n + 1, \A k \in 1..n : on[k] = stack[k],
         on[n + 1].file = t, on[n + 1].next = 1
  PROVE  \E b : Foreseen(src, on, done, b)
  <1>1. PICK f \in Files : f = stack[n].file
    BY CallIs
  <1>2. PICK next \in Nat \ {0} : next = stack[n].next
    BY CallIs
  <1>3. PICK marked \in SUBSET Files : marked = Into(stack, n)
    BY CallIs
  <1>4. PICK new : new = Until(src, t, 1, marked \cup {t}, done)
    OBVIOUS
  <1>5. /\ new \in Seq(Files)
        /\ Until(src, f, next, marked, done) = Until(src, f, next + 1, marked, Closed(new, t))
    <2>1. next \in DOMAIN src[f] /\ t = src[f][next] /\ src[f][next] \notin marked \cup Elements(done)
      BY <1>1, <1>2, <1>3
    <2>2. /\ Entered(src, f, next, marked, done) \in Seq(Files)
          /\ Until(src, f, next, marked, done) = UntilOn(src, f, next, marked, done)
      BY <2>1, UntilNew
    <2>3. Entered(src, f, next, marked, done) = new
      BY <2>1, <1>4 DEF Entered
    <2>. QED  BY <2>1, <2>2, <2>3 DEF UntilOn
  <1>6. PICK b : b = [k \in 1..(n + 1) |-> IF k = n + 1 THEN new ELSE a[k]]
    OBVIOUS
  <1>7. b[n + 1] = new /\ \A k \in 1..n : b[k] = a[k]
    BY <1>6
  <1>8. \A k \in 1..(n + 1) : b[k] \in Seq(Files)
    <2>1. \A k \in 1..n : a[k] \in Seq(Files)
      BY DEF Foreseen
    <2>2. \A k \in 1..(n + 1) : k \in 1..n \/ k = n + 1
      OBVIOUS
    <2>. QED  BY <2>1, <2>2, <1>5, <1>7
  <1>9. \A k \in 1..n : Into(on, k) = Into(stack, k)
    <2>1. ASSUME NEW k \in 1..n, NEW j \in 1..k PROVE j \in 1..n
      OBVIOUS
    <2>2. ASSUME NEW k \in 1..n PROVE k \in Nat /\ \A j \in 1..k : on[j].file = stack[j].file
      BY <2>1
    <2>3. ASSUME NEW k \in 1..n PROVE Into(on, k) = Into(stack, k)
      BY <2>2, IntoSame
    <2>. QED  BY <2>3
  <1>10. Into(on, n + 1) = marked \cup {t}
    <2>1. PICK top : top = n + 1
      OBVIOUS
    <2>2. top \in 2..top /\ (\A j \in 2..n : j \in 2..top) /\ (\A j \in 2..top : j \in 2..n \/ j = top)
      BY <2>1
    <2>3. on[top].file = t
      BY <2>1
    <2>4. Into(on, top) = Into(on, n) \cup {t}
      <3>1. ASSUME NEW x \in Into(on, top) PROVE x \in Into(on, n) \/ x = t
        <4>1. PICK j \in 2..top : x = on[j].file
          BY Zenon DEF Into
        <4>. QED  BY <4>1, <2>2, <2>3, Zenon DEF Into
      <3>2. ASSUME NEW x \in Into(on, n) PROVE x \in Into(on, top)
        BY <2>2, Zenon DEF Into
      <3>3. t \in Into(on, top)
        BY <2>2, <2>3, Zenon DEF Into
      <3>. QED  BY <3>1, <3>2, <3>3
    <2>5. Into(on, n) = marked
      BY <1>3, <1>9
    <2>. QED  BY <2>1, <2>4, <2>5
  <1>11. b[n + 1] = Until(src, on[n + 1].file, on[n + 1].next, Into(on, n + 1), done)
    BY <1>4, <1>7, <1>10
  <1>12. ASSUME NEW k \in 1..n
         PROVE  b[k]
                  = Until(src, on[k].file, on[k].next + 1, Into(on, k),
                          Closed(b[k + 1], on[k + 1].file))
    <2>1. CASE k = n
      <3>1. a[n] = Until(src, f, next, marked, done)
        BY <1>1, <1>2, <1>3 DEF Foreseen
      <3>2. on[n].file = f /\ on[n].next = next /\ Into(on, n) = marked /\ b[n] = a[n]
        BY <1>1, <1>2, <1>3, <1>7, <1>9
      <3>. QED  BY <2>1, <3>1, <3>2, <1>5, <1>7
    <2>2. CASE k # n
      <3>1. k \in 1..(n - 1) /\ k + 1 \in 1..n
        BY <2>2
      <3>2. a[k]
              = Until(src, stack[k].file, stack[k].next + 1, Into(stack, k),
                      Closed(a[k + 1], stack[k + 1].file))
        BY <3>1 DEF Foreseen
      <3>3. /\ on[k] = stack[k] /\ on[k + 1] = stack[k + 1] /\ Into(on, k) = Into(stack, k)
            /\ b[k] = a[k] /\ b[k + 1] = a[k + 1]
        BY <3>1, <1>7, <1>9
      <3>. QED  BY <3>2, <3>3
    <2>. QED  BY <2>1, <2>2
  <1>13. b[1] = PostOrder(src)
    <2>1. a[1] = PostOrder(src)
      BY DEF Foreseen
    <2>2. 1 \in 1..n
      OBVIOUS
    <2>. QED  BY <2>1, <2>2, <1>7
  <1>14. (n + 1) - 1 = n
    OBVIOUS
  <1>15. Foreseen(src, on, done, b)
    BY <1>8, <1>11, <1>12, <1>13, <1>14 DEF Foreseen
  <1>. QED  BY <1>15

\* a call that has got to the end of its file brings in no more
LEMMA LastIs ==
  ASSUME NEW src \in [Files -> Seq(Files)], NEW stack \in Seq(FrameSet), NEW done \in Seq(Files),
         NEW n \in 1..Len(stack), n = Len(stack), NEW a, Foreseen(src, stack, done, a),
         stack[n].next \notin DOMAIN src[stack[n].file]
  PROVE  a[n] = done
  <1>1. stack[n].file \in Files /\ stack[n].next \in Nat \ {0} /\ Into(stack, n) \in SUBSET Files
    BY CallIs
  <1>2. Until(src, stack[n].file, stack[n].next, Into(stack, n), done) = done
    BY <1>1, UntilEnd
  <1>. QED  BY <1>2 DEF Foreseen

\* the last call has got to the end of its file, and its caller goes on
LEMMA ForeseenLeave ==
  ASSUME NEW src \in [Files -> Seq(Files)], NEW stack \in Seq(FrameSet), NEW done \in Seq(Files),
         NEW n \in Nat \ {0, 1}, n = Len(stack), NEW a, Foreseen(src, stack, done, a),
         stack[n].next \notin DOMAIN src[stack[n].file],
         NEW on, Len(on) = n - 1, \A k \in 1..(n - 1) : on[k].file = stack[k].file,
         \A k \in 1..(n - 2) : on[k].next = stack[k].next,
         on[n - 1].next = stack[n - 1].next + 1
  PROVE  Foreseen(src, on, Closed(done, stack[n].file), a)
  <1>1. a[n] = done
    <2>1. n \in 1..Len(stack)
      OBVIOUS
    <2>. QED  BY <2>1, LastIs
  <1>2. \A k \in 1..(n - 1) : Into(on, k) = Into(stack, k)
    <2>1. ASSUME NEW k \in 1..(n - 1), NEW j \in 1..k PROVE j \in 1..(n - 1)
      OBVIOUS
    <2>2. ASSUME NEW k \in 1..(n - 1) PROVE k \in Nat /\ \A j \in 1..k : on[j].file = stack[j].file
      BY <2>1
    <2>3. ASSUME NEW k \in 1..(n - 1) PROVE Into(on, k) = Into(stack, k)
      BY <2>2, IntoSame
    <2>. QED  BY <2>3
  <1>3. ASSUME NEW k \in 1..(n - 1)
        PROVE  a[k]
                 = Until(src, stack[k].file, stack[k].next + 1, Into(stack, k),
                         Closed(a[k + 1], stack[k + 1].file))
    BY DEF Foreseen
  <1>4. a[n - 1]
          = Until(src, on[n - 1].file, on[n - 1].next, Into(on, n - 1), Closed(done, stack[n].file))
    <2>1. n - 1 \in 1..(n - 1) /\ (n - 1) + 1 = n
      OBVIOUS
    <2>2. on[n - 1].file = stack[n - 1].file /\ Into(on, n - 1) = Into(stack, n - 1)
      BY <2>1, <1>2
    <2>3. a[n - 1]
            = Until(src, stack[n - 1].file, stack[n - 1].next + 1, Into(stack, n - 1),
                    Closed(a[n], stack[n].file))
      BY <2>1, <1>3
    <2>. QED  BY <2>2, <2>3, <1>1
  <1>5. ASSUME NEW k \in 1..((n - 1) - 1)
        PROVE  a[k]
                 = Until(src, on[k].file, on[k].next + 1, Into(on, k),
                         Closed(a[k + 1], on[k + 1].file))
    <2>1. k \in 1..(n - 1) /\ k + 1 \in 1..(n - 1) /\ k \in 1..(n - 2)
      OBVIOUS
    <2>2. /\ on[k].file = stack[k].file /\ on[k].next = stack[k].next
          /\ on[k + 1].file = stack[k + 1].file /\ Into(on, k) = Into(stack, k)
      BY <2>1, <1>2
    <2>. QED  BY <2>1, <2>2, <1>3
  <1>6. \A k \in 1..(n - 1) : a[k] \in Seq(Files)
    <2>1. \A k \in 1..(n - 1) : k \in 1..n
      OBVIOUS
    <2>. QED  BY <2>1 DEF Foreseen
  <1>7. a[1] = PostOrder(src)
    BY DEF Foreseen
  <1>. QED  BY <1>4, <1>5, <1>6, <1>7 DEF Foreseen

\* the entry begins
LEMMA ForeseenBegin ==
  ASSUME NEW src \in [Files -> Seq(Files)]
  PROVE  \E a : Foreseen(src, <<Frame(Entry)>>, <<>>, a)
  <1>1. PICK a : a = [k \in {1} |-> PostOrder(src)]
    OBVIOUS
  <1>2. a[1] = PostOrder(src)
    BY <1>1
  <1>3. PICK first : first = <<Frame(Entry)>>
    OBVIOUS
  <1>4. Len(first) = 1 /\ first[1].file = Entry /\ first[1].next = 1
    BY <1>3 DEF Frame
  <1>5. Into(first, 1) = {}
    BY DEF Into
  <1>6. Until(src, Entry, 1, {}, <<>>) = PostOrder(src) /\ PostOrder(src) \in Seq(Files)
    BY UntilBegin
  <1>7. 1..1 = {1} /\ 1..(1 - 1) = {}
    OBVIOUS
  <1>8. Foreseen(src, first, <<>>, a)
    BY <1>2, <1>4, <1>5, <1>6, <1>7 DEF Foreseen
  <1>. QED  BY <1>3, <1>8

\* only the entry is left, and it has got to its end
LEMMA ForeseenEnd ==
  ASSUME NEW src \in [Files -> Seq(Files)], NEW stack \in Seq(FrameSet), NEW done \in Seq(Files),
         Len(stack) = 1, NEW a, Foreseen(src, stack, done, a),
         stack[1].next \notin DOMAIN src[stack[1].file]
  PROVE  done = PostOrder(src)
  <1>1. 1 \in 1..Len(stack)
    OBVIOUS
  <1>2. a[1] = done
    BY <1>1, LastIs
  <1>. QED  BY <1>2 DEF Foreseen

LEMMA InsideElements ==
  ASSUME NEW stack \in Seq(FrameSet), stack # <<>>
  PROVE  Elements(Inside(stack)) = Into(stack, Len(stack))
  <1>1. PICK n \in Nat \ {0} : n = Len(stack)
    BY EmptySeq
  <1>2. PICK s : s = Inside(stack)
    OBVIOUS
  <1>3. DOMAIN s = 1..(n - 1) /\ \A k \in 1..(n - 1) : s[k] = stack[k + 1].file
    BY <1>1, <1>2, InsideIs
  <1>4. Elements(s) \subseteq Into(stack, n)
    <2>1. \A k \in 1..(n - 1) : k + 1 \in 2..n
      OBVIOUS
    <2>. QED  BY <2>1, <1>3 DEF Elements, Into
  <1>5. Into(stack, n) \subseteq Elements(s)
    <2>1. \A j \in 2..n : j - 1 \in 1..(n - 1) /\ (j - 1) + 1 = j
      OBVIOUS
    <2>2. \A j \in 2..n : s[j - 1] = stack[j].file
      BY <2>1, <1>3
    <2>3. ASSUME NEW j \in 2..n PROVE stack[j].file \in Elements(s)
      <3>1. PICK i \in 1..(n - 1) : s[i] = stack[j].file
        BY <2>1, <2>2
      <3>. QED  BY <3>1, <1>3, Zenon DEF Elements
    <2>. QED  BY <2>3 DEF Into
  <1>. QED  BY <1>1, <1>2, <1>4, <1>5

-----------------------------------------------------------------------------
(* The initializers come in postorder *)

\* What is registered so far is the beginning of the postorder, and the calls
\* that go on complete it; when none does, it is complete.
Ordered ==
  ~thrown => IF frames = <<>> THEN Done = PostOrder(imports)
             ELSE \E a : Foreseen(imports, frames, Done, a)

\* What a step of a compilation that goes on starts from.
LEMMA Ongoing ==
  ASSUME IInv, Ordered, frames # <<>>, ~thrown
  PROVE  /\ imports \in [Files -> Seq(Files)] /\ frames \in Seq(FrameSet)
         /\ Len(frames) \in Nat \ {0} /\ Top = frames[Len(frames)]
         /\ Done \in Seq(Files)
         /\ imported[active] = Into(frames, Len(frames)) \cup Elements(Done)
         /\ \E a : Foreseen(imports, frames, Done, a)
  <1>1. /\ imports \in [Files -> Seq(Files)] /\ frames \in Seq(FrameSet)
        /\ Len(frames) \in Nat \ {0}
        /\ inits[active] \in Seq(Files) /\ kept \in Nat /\ kept <= Len(inits[active])
        /\ imported[active] = Elements(Open) \cup Elements(Done)
    BY View
  <1>2. Elements(Open) = Into(frames, Len(frames))
    BY <1>1, InsideElements DEF Open
  <1>3. Done \in Seq(Files)
    BY <1>1, ImportsAssumption, DoneAppend, Zenon DEF Done
  <1>. QED  BY <1>1, <1>2, <1>3 DEF Top, Ordered

LEMMA SkipOrder ==
  ASSUME IInv, Ordered, Skip
  PROVE  Ordered'
  <1>1. /\ AtImport /\ Target \in imported[active] /\ frames' = Onward(frames)
        /\ UNCHANGED <<imports, imported, inits, active, thrown, kept>>
    BY DEF Skip
  <1>2. frames # <<>> /\ ~thrown /\ Top.next \in DOMAIN imports[Top.file]
    BY <1>1 DEF AtImport
  <1>3. PICK n \in Nat \ {0} : n = Len(frames)
    BY <1>2, Ongoing
  <1>4. PICK a : Foreseen(imports, frames, Done, a)
    BY <1>2, Ongoing
  <1>5. PICK on : on = Onward(frames)
    OBVIOUS
  <1>6. /\ imports \in [Files -> Seq(Files)] /\ frames \in Seq(FrameSet) /\ Done \in Seq(Files)
        /\ imported[active] = Into(frames, n) \cup Elements(Done)
        /\ Top = frames[n]
    BY <1>2, <1>3, Ongoing
  <1>7. /\ Len(on) = n /\ on # <<>>
        /\ \A k \in 1..(n - 1) : on[k] = frames[k]
        /\ on[n].file = frames[n].file /\ on[n].next = frames[n].next + 1
    BY <1>2, <1>3, <1>5, <1>6, InsideOnward
  <1>8. \A k \in 1..n : on[k].file = frames[k].file
    <2>1. \A k \in 1..n : k \in 1..(n - 1) \/ k = n
      OBVIOUS
    <2>. QED  BY <2>1, <1>7
  <1>9. imports[frames[n].file][frames[n].next] \in Into(frames, n) \cup Elements(Done)
    BY <1>1, <1>6 DEF Target
  <1>10. Foreseen(imports, on, Done, a)
    BY <1>2, <1>3, <1>4, <1>6, <1>7, <1>8, <1>9, ForeseenSkip
  <1>11. frames' = on /\ imports' = imports /\ Done' = Done
    BY <1>1, <1>5 DEF Done
  <1>. QED  BY <1>7, <1>10, <1>11 DEF Ordered

LEMMA EnterOrder ==
  ASSUME IInv, Ordered, Enter
  PROVE  Ordered'
  <1>1. /\ AtImport /\ Target \notin imported[active] /\ frames' = Append(frames, Frame(Target))
        /\ UNCHANGED <<imports, inits, active, thrown, kept>>
    BY DEF Enter
  <1>2. frames # <<>> /\ ~thrown /\ Top.next \in DOMAIN imports[Top.file]
    BY <1>1 DEF AtImport
  <1>3. PICK n \in Nat \ {0} : n = Len(frames)
    BY <1>2, Ongoing
  <1>4. PICK a : Foreseen(imports, frames, Done, a)
    BY <1>2, Ongoing
  <1>5. PICK t \in Files : t = Target
    BY <1>1, TargetIs
  <1>6. /\ imports \in [Files -> Seq(Files)] /\ frames \in Seq(FrameSet) /\ Done \in Seq(Files)
        /\ imported[active] = Into(frames, n) \cup Elements(Done)
        /\ Top = frames[n]
    BY <1>2, <1>3, Ongoing
  <1>7. PICK on : on = Append(frames, Frame(t))
    OBVIOUS
  <1>8. /\ Len(on) = n + 1 /\ on # <<>> /\ on[n + 1] = [file |-> t, next |-> 1]
        /\ \A k \in 1..n : on[k] = frames[k]
    <2>. DEFINE called == Append(frames, Frame(t))
    <2>1. /\ called # <<>> /\ Len(called) = Len(frames) + 1
          /\ called[Len(frames) + 1] = [file |-> t, next |-> 1]
          /\ \A k \in 1..Len(frames) : called[k] = frames[k]
      BY <1>2, <1>6, InsideCall, Zenon
    <2>. QED  BY <2>1, <1>3, <1>7
  <1>9. t = imports[frames[n].file][frames[n].next] /\ t \notin Into(frames, n) \cup Elements(Done)
    BY <1>1, <1>5, <1>6 DEF Target
  <1>10. on[n + 1].file = t /\ on[n + 1].next = 1
    BY <1>8
  <1>11. \E b : Foreseen(imports, on, Done, b)
    BY <1>2, <1>3, <1>4, <1>6, <1>8, <1>9, <1>10, ForeseenEnter
  <1>12. frames' = on /\ imports' = imports /\ Done' = Done
    BY <1>1, <1>5, <1>7 DEF Done
  <1>. QED  BY <1>8, <1>11, <1>12 DEF Ordered

LEMMA LeaveOrder ==
  ASSUME IInv, Ordered, Leave
  PROVE  Ordered'
  <1>1. /\ AtEnd /\ Len(frames) > 1
        /\ inits' = [inits EXCEPT ![active] = Append(@, Top.file)]
        /\ frames' = Onward(Returned)
        /\ UNCHANGED <<imports, imported, active, thrown, kept>>
    BY DEF Leave
  <1>2. frames # <<>> /\ ~thrown /\ Top.next \notin DOMAIN imports[Top.file]
    BY <1>1 DEF AtEnd
  <1>3. PICK n \in Nat \ {0, 1} : n = Len(frames)
    BY <1>1, <1>2, Ongoing
  <1>4. PICK a : Foreseen(imports, frames, Done, a)
    BY <1>2, Ongoing
  <1>5. /\ imports \in [Files -> Seq(Files)] /\ frames \in Seq(FrameSet) /\ Done \in Seq(Files)
        /\ Top = frames[n]
    BY <1>2, <1>3, Ongoing
  <1>6. PICK f \in Files : f = Top.file
    BY <1>3, <1>5, CallIs
  <1>7. PICK back : back = Returned
    OBVIOUS
  <1>8. /\ back \in Seq(FrameSet) /\ back # <<>> /\ Len(back) = n - 1
        /\ \A k \in 1..(n - 1) : back[k] = frames[k]
    BY <1>1, <1>3, <1>5, <1>7, InsideReturn DEF Returned
  <1>9. PICK m \in Nat \ {0} : m = n - 1
    OBVIOUS
  <1>10. PICK on : on = Onward(back)
    OBVIOUS
  <1>11. /\ Len(on) = m /\ on # <<>>
         /\ \A k \in 1..(m - 1) : on[k] = back[k]
         /\ on[m].file = back[m].file /\ on[m].next = back[m].next + 1
    BY <1>8, <1>9, <1>10, InsideOnward
  <1>12. \A k \in 1..(n - 1) : on[k].file = frames[k].file
    <2>1. \A k \in 1..(n - 1) : k \in 1..(m - 1) \/ k = m
      BY <1>9
    <2>. QED  BY <2>1, <1>8, <1>11
  <1>13. \A k \in 1..(n - 2) : on[k].next = frames[k].next
    <2>1. \A k \in 1..(n - 2) : k \in 1..(m - 1) /\ k \in 1..(n - 1)
      BY <1>9
    <2>. QED  BY <2>1, <1>8, <1>11
  <1>14. on[n - 1].next = frames[n - 1].next + 1
    <2>1. m \in 1..(n - 1)
      BY <1>9
    <2>. QED  BY <2>1, <1>8, <1>9, <1>11
  <1>15. Foreseen(imports, on, Closed(Done, f), a)
    <2>1. frames[n].next \notin DOMAIN imports[frames[n].file] /\ f = frames[n].file
      BY <1>2, <1>5, <1>6
    <2>2. Len(on) = n - 1
      BY <1>9, <1>11
    <2>. QED  BY <2>1, <2>2, <1>3, <1>4, <1>5, <1>12, <1>13, <1>14, ForeseenLeave
  <1>16. Done' = Closed(Done, f)
    <2>1. /\ active \in Registries /\ inits[active] \in Seq(Files)
          /\ kept \in Nat /\ kept <= Len(inits[active])
      BY <1>2, View
    <2>2. inits \in [Registries -> Seq(Files)]
      BY DEF IInv, TypeOK
    <2>3. inits'[active'] = Append(inits[active], f)
      BY <2>1, <2>2, <1>1, <1>6
    <2>4. PICK s \in Seq(Files) : s = inits[active]
      BY <2>1
    <2>5. SubSeq(Append(s, f), kept + 1, Len(Append(s, f)))
            = Append(SubSeq(s, kept + 1, Len(s)), f)
      BY <2>1, <2>4, DoneAppend, Zenon
    <2>6. Done = SubSeq(s, kept + 1, Len(s))
      BY <2>4 DEF Done
    <2>7. Done' = SubSeq(Append(s, f), kept + 1, Len(Append(s, f)))
      BY <2>3, <2>4, <1>1, Zenon DEF Done
    <2>. QED  BY <2>5, <2>6, <2>7, Zenon DEF Closed
  <1>17. frames' = on /\ imports' = imports
    BY <1>1, <1>7, <1>10
  <1>. QED  BY <1>11, <1>15, <1>16, <1>17 DEF Ordered

LEMMA EndOrder ==
  ASSUME IInv, Ordered, End
  PROVE  Ordered'
  <1>1. /\ Len(frames) = 1 /\ (thrown \/ AtEnd)
        /\ inits' = IF active = "context" /\ thrown THEN [inits EXCEPT ![active] = <<>>] ELSE inits
        /\ frames' = <<>>
        /\ UNCHANGED <<imports, active, thrown, kept>>
    BY DEF End
  <1>2. SUFFICES ASSUME ~thrown PROVE Done' = PostOrder(imports')
    BY <1>1 DEF Ordered
  <1>3. frames # <<>> /\ Top.next \notin DOMAIN imports[Top.file]
    BY <1>1, <1>2 DEF AtEnd
  <1>4. PICK a : Foreseen(imports, frames, Done, a)
    BY <1>2, <1>3, Ongoing
  <1>5. /\ imports \in [Files -> Seq(Files)] /\ frames \in Seq(FrameSet) /\ Done \in Seq(Files)
        /\ Top = frames[1]
    BY <1>1, <1>2, <1>3, Ongoing
  <1>6. frames[1].next \notin DOMAIN imports[frames[1].file]
    BY <1>3, <1>5
  <1>7. Done = PostOrder(imports)
    BY <1>1, <1>4, <1>5, <1>6, ForeseenEnd
  <1>8. Done' = Done /\ imports' = imports
    BY <1>1, <1>2 DEF Done
  <1>. QED  BY <1>7, <1>8

\* a compilation has registered nothing yet
LEMMA BeginOrder ==
  ASSUME NEW r \in Registries, IInv, Begin(r)
  PROVE  Ordered'
  <1>1. /\ active' = r /\ imports' \in Sources
        /\ inits' = [inits EXCEPT ![r] = Left(r)] /\ kept' = Len(Left(r))
        /\ frames' = <<Frame(Entry)>>
    BY DEF Begin
  <1>2. inits \in [Registries -> Seq(Files)]
    BY DEF IInv, TypeOK
  <1>3. <<>> \in Seq(Files)
    OBVIOUS
  <1>4. Left(r) \in Seq(Files) /\ Len(Left(r)) \in Nat
    BY <1>2, <1>3 DEF Left
  <1>5. Done' = <<>>
    BY <1>1, <1>2, <1>4, SubSeqEmpty DEF Done
  <1>6. imports' \in [Files -> Seq(Files)]
    BY <1>1, ImportsAssumption
  <1>7. \E a : Foreseen(imports', frames', Done', a)
    BY <1>1, <1>5, <1>6, ForeseenBegin
  <1>8. frames' # <<>>
    BY <1>1, FirstCall
  <1>. QED  BY <1>7, <1>8 DEF Ordered

LEMMA InitOrder == Init => Ordered
  <1>. SUFFICES ASSUME Init PROVE Ordered
    OBVIOUS
  <1>1. imports \in [Files -> Seq(Files)] /\ frames = <<Frame(Entry)>> /\ frames # <<>>
    BY ImportsAssumption, FirstCall DEF Init
  <1>2. <<>> \in Seq(Files) /\ Len(<<>>) = 0 /\ inits[active] = <<>> /\ kept = 0
    BY DEF Init
  <1>3. Done = <<>>
    BY <1>2, SubSeqEmpty DEF Done
  <1>4. \E a : Foreseen(imports, frames, Done, a)
    BY <1>1, <1>3, ForeseenBegin
  <1>. QED  BY <1>1, <1>4 DEF Ordered

LEMMA NextOrder == IInv /\ Ordered /\ [Next]_vars => Ordered'
  <1>. SUFFICES ASSUME IInv, Ordered, [Next]_vars PROVE Ordered'
    OBVIOUS
  <1>1. CASE Skip
    BY <1>1, SkipOrder
  <1>2. CASE Enter
    BY <1>2, EnterOrder
  <1>3. CASE Leave
    BY <1>3, LeaveOrder
  <1>4. CASE Rollback \/ Throw
    BY <1>4 DEF Rollback, Throw, Ordered
  <1>5. CASE End
    BY <1>5, EndOrder
  <1>6. ASSUME NEW r \in Registries, Begin(r) PROVE Ordered'
    BY <1>6, BeginOrder
  <1>7. CASE UNCHANGED vars
    BY <1>7 DEF vars, Ordered, Done, Foreseen
  <1>. QED  BY <1>1, <1>2, <1>3, <1>4, <1>5, <1>6, <1>7 DEF Next, Work

\* A compilation that succeeds has registered the initializers of exactly the
\* files it needs, depth first and in postorder, whatever the registry was
\* used for before and however that ended (compileImportSpec).
THEOREM InitializersInPostOrder == Spec => []InPostOrder
  <1>1. Ordered => InPostOrder
    BY DEF Ordered, InPostOrder
  <1>. QED  BY <1>1, InitOrder, NextOrder, Invariant, PTL DEF Spec
==================================================================================
