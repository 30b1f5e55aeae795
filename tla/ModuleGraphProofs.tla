---------------------------- MODULE ModuleGraphProofs ----------------------------
(***************************************************************************)
(* The graph of a program's local modules says of each import what it did, *)
(* is complete when the construction ends, is built by the walk of         *)
(* ImportWalk, and names what the index of direct imports does: for every  *)
(* set of files, whatever they import.                                     *)
(***************************************************************************)
EXTENDS ModuleEnvironment, FiniteSetTheorems, SequenceTheorems, WellFoundedInduction, TLAPS

FrameSet == [file : Files, next : Nat]
EdgeSet == [from : Files, to : Files \ {Entry}, as : Aliases \cup {Flat}, action : Actions]

Types ==
  /\ imports \in Sources
  /\ frames \in Seq(FrameSet)
  /\ edges \in Seq(EdgeSet)
  /\ modules \in Seq(Files)
  /\ loaded \in Seq(Files \ {Entry})
  /\ thrown \in BOOLEAN

\* What an edge says it did.  A file is met again, and not on the way to the
\* importer, when it is in a set of loaded files that no edge leads out of:
\* such a set keeps apart the target and the importer for good, as no edge is
\* added for a file that is loaded.
Leads(S) == \A i \in DOMAIN edges :
              edges[i].action = "load" /\ edges[i].from \in S => edges[i].to \in S
Apart(i) == \E S \in SUBSET Elements(loaded) :
              edges[i].to \in S /\ edges[i].from \notin S /\ Leads(S)
Told ==
  \A i \in DOMAIN edges :
    /\ edges[i].action = "load" <=> \A j \in 1..(i - 1) : edges[j].to # edges[i].to
    /\ edges[i].action = "cycle" => BroughtIn(edges[i].to, edges[i].from)
    /\ edges[i].action = "duplicate" => Apart(i)

\* The calls of visit: each is made by the import its caller is at, and none
\* for a file that has one.
Depth == 1..Len(frames)
Called ==
  /\ frames # <<>> => frames[1].file = Entry /\ frames[1].next # 0
  /\ \A k \in Depth : frames[k].next <= Len(imports[frames[k].file]) + 1
  /\ \A k \in 1..(Len(frames) - 1) :
       /\ frames[k].next \in DOMAIN imports[frames[k].file]
       /\ imports[frames[k].file][frames[k].next].of = frames[k + 1].file
  /\ \A k, l \in Depth : frames[k].file = frames[l].file => k = l

\* The marks are those of the calls, and of the files that are loaded.
Within == {frames[k].file : k \in 2..Len(frames)}
Marked ==
  /\ states = [f \in Within \cup Elements(loaded) |-> IF f \in Within THEN "active" ELSE "loaded"]
  /\ Within \cap Elements(loaded) = {}

\* The files that have a mark are the targets of the edges; the imports a call
\* has gone past are among them.
Known == DOMAIN states = {edges[i].to : i \in DOMAIN edges}
Past ==
  \A k \in Depth : \A j \in DOMAIN imports[frames[k].file] :
    j < frames[k].next => imports[frames[k].file][j].of \in DOMAIN states

\* A call brought in those inside it; what it brought in besides is loaded, and
\* what a loaded file brought in is loaded.
Brought == \A k, l \in Depth : k <= l => BroughtIn(frames[k].file, frames[l].file)
Inner ==
  /\ Leads(Elements(loaded))
  /\ \A k \in Depth : \A i \in DOMAIN edges :
       edges[i].action = "load" /\ edges[i].from = frames[k].file =>
         edges[i].to \in Elements(loaded) \/ (k < Len(frames) /\ edges[i].to = frames[k + 1].file)

\* The n-th edge of a file is its n-th import, and a file has as many edges as
\* its call has gone past imports.
Count(f) == Cardinality(EdgesOf(f, Len(edges)))
Taken(k) == IF k < Len(frames) THEN frames[k].next
            ELSE IF frames[k].next = 0 THEN 0 ELSE frames[k].next - 1
Numbered ==
  \A i \in DOMAIN edges :
    LET f == edges[i].from
        c == Cardinality(EdgesOf(f, i))
    IN  c \in DOMAIN imports[f] /\ imports[f][c] = [of |-> edges[i].to, as |-> edges[i].as]
Counted ==
  /\ \A k \in Depth : Count(frames[k].file) = Taken(k)
  /\ \A f \in Elements(loaded) : Count(f) = Len(imports[f])
  /\ \A f \in Files : f \notin DOMAIN states /\ f # Entry => EdgesOf(f, Len(edges)) = {}
  /\ frames = <<>> => Count(Entry) = Len(imports[Entry])

\* The modules are the files the edges loaded, but for one that is not read.
Unread == IF frames # <<>> /\ Top.next = 0 THEN 1 ELSE 0
Recorded ==
  /\ Cardinality(Loads(Len(edges))) = Len(modules) + Unread
  /\ \A i \in Loads(Len(edges)) :
       IF Cardinality(Loads(i)) <= Len(modules)
       THEN modules[Cardinality(Loads(i))] = edges[i].to
       ELSE edges[i].to = Top.file
  /\ Elements(modules) \subseteq DOMAIN states

Built == Called /\ Marked /\ Known /\ Past /\ Brought /\ Inner /\ Numbered /\ Counted /\ Recorded
IInv == Types /\ Told /\ (~thrown => Built)
-----------------------------------------------------------------------------
\* What the call stack becomes when a call is made, goes on, or returns.
LEMMA StackIs ==
  ASSUME NEW stack \in Seq(FrameSet), stack # <<>>
  PROVE  /\ Len(stack) \in Nat \ {0}
         /\ \A k \in 1..Len(stack) : stack[k] \in FrameSet
         /\ stack[Len(stack)] \in FrameSet
         /\ stack[Len(stack)].next \in Nat /\ stack[Len(stack)].file \in Files
  <1>1. Len(stack) \in Nat \ {0} /\ \A k \in 1..Len(stack) : stack[k] \in FrameSet
    OBVIOUS
  <1>2. stack[Len(stack)] \in FrameSet
    BY <1>1
  <1>. QED  BY <1>1, <1>2 DEF FrameSet

LEMMA CallIs ==
  ASSUME NEW stack \in Seq(FrameSet), stack # <<>>, NEW f \in Files
  PROVE  LET called == Append(stack, Frame(f))
         IN  /\ called \in Seq(FrameSet) /\ called # <<>>
             /\ Len(called) = Len(stack) + 1
             /\ called[Len(stack) + 1] = [file |-> f, next |-> 0]
             /\ \A k \in 1..Len(stack) : called[k] = stack[k]
  <1>1. Frame(f) \in FrameSet
    BY DEF Frame, FrameSet
  <1>. QED  BY <1>1 DEF Frame

LEMMA OnwardIs ==
  ASSUME NEW stack \in Seq(FrameSet), stack # <<>>
  PROVE  /\ Onward(stack) \in Seq(FrameSet) /\ Onward(stack) # <<>>
         /\ Len(Onward(stack)) = Len(stack)
         /\ \A k \in 1..(Len(stack) - 1) : Onward(stack)[k] = stack[k]
         /\ Onward(stack)[Len(stack)] =
              [file |-> stack[Len(stack)].file, next |-> stack[Len(stack)].next + 1]
  <1>. DEFINE n == Len(stack)
              frame == [stack[n] EXCEPT !.next = @ + 1]
  <1>1. n \in Nat \ {0} /\ n \in 1..n /\ stack[n] \in FrameSet
    BY StackIs
  <1>2. frame \in FrameSet /\ frame = [file |-> stack[n].file, next |-> stack[n].next + 1]
    BY <1>1 DEF FrameSet
  <1>3. Onward(stack) = [stack EXCEPT ![n] = frame]
    BY DEF Onward
  <1>4. /\ Onward(stack) \in Seq(FrameSet) /\ Len(Onward(stack)) = n
        /\ \A k \in 1..n : Onward(stack)[k] = IF k = n THEN frame ELSE stack[k]
    BY <1>1, <1>2, <1>3, ExceptSeq
  <1>5. Onward(stack) # <<>>
    BY <1>1, <1>4
  <1>. HIDE DEF n, frame
  <1>6. \A k \in 1..(n - 1) : k \in 1..n /\ k # n
    BY <1>1
  <1>7. \A k \in 1..(n - 1) : Onward(stack)[k] = stack[k]
    BY <1>4, <1>6
  <1>. QED  BY <1>1, <1>2, <1>4, <1>5, <1>7 DEF n

LEMMA ReturnIs ==
  ASSUME NEW stack \in Seq(FrameSet), Len(stack) > 1
  PROVE  LET returned == SubSeq(stack, 1, Len(stack) - 1)
         IN  /\ returned \in Seq(FrameSet) /\ returned # <<>>
             /\ Len(returned) = Len(stack) - 1 /\ Len(stack) \in Nat \ {0, 1}
             /\ \A k \in 1..(Len(stack) - 1) : returned[k] = stack[k]
  <1>. DEFINE n == Len(stack)
              returned == SubSeq(stack, 1, Len(stack) - 1)
  <1>0. n \in Nat /\ stack \in [1..n -> FrameSet]
    BY LenProperties
  <1>1. n \in Nat \ {0, 1} /\ \A k \in 1..(n - 1) : stack[k] \in FrameSet
    <2>1. n \in Nat /\ n > 1
      BY <1>0
    <2>. HIDE DEF n
    <2>. QED  BY <2>1, <1>0
  <1>2. /\ returned \in Seq(FrameSet) /\ Len(returned) = Len(stack) - 1
        /\ \A k \in 1..(Len(stack) - 1) : returned[k] = stack[k]
    BY <1>1
  <1>3. returned # <<>>
    <2>1. Len(returned) # 0 /\ Len(<<>>) = 0
      BY <1>1, <1>2, EmptySeq
    <2>. QED  BY <2>1
  <1>. QED  BY <1>1, <1>2, <1>3

\* a call returns and its caller goes on
LEMMA ReturnOnwardIs ==
  ASSUME NEW stack \in Seq(FrameSet), Len(stack) > 1
  PROVE  LET on == Onward(SubSeq(stack, 1, Len(stack) - 1))
             n == Len(stack) - 1
         IN  /\ on \in Seq(FrameSet) /\ on # <<>>
             /\ Len(on) = n /\ n \in Nat \ {0} /\ n + 1 = Len(stack)
             /\ \A k \in 1..(n - 1) : on[k] = stack[k]
             /\ on[n] = [file |-> stack[n].file, next |-> stack[n].next + 1]
  <1>. DEFINE returned == SubSeq(stack, 1, Len(stack) - 1)
              n == Len(stack) - 1
  <1>1. /\ returned \in Seq(FrameSet) /\ returned # <<>>
        /\ Len(returned) = Len(stack) - 1 /\ Len(stack) \in Nat \ {0, 1}
        /\ \A k \in 1..(Len(stack) - 1) : returned[k] = stack[k]
    BY ReturnIs
  <1>. HIDE DEF returned
  <1>2. /\ Onward(returned) \in Seq(FrameSet) /\ Onward(returned) # <<>>
        /\ Len(Onward(returned)) = Len(returned)
        /\ \A k \in 1..(Len(returned) - 1) : Onward(returned)[k] = returned[k]
        /\ Onward(returned)[Len(returned)] =
             [file |-> returned[Len(returned)].file, next |-> returned[Len(returned)].next + 1]
    BY <1>1, OnwardIs
  <1>3. n \in Nat \ {0} /\ n + 1 = Len(stack) /\ Len(returned) = n /\ returned[n] = stack[n]
    BY <1>1
  <1>4. \A k \in 1..(n - 1) : Onward(returned)[k] = stack[k]
    <2>. HIDE DEF n
    <2>1. \A k \in 1..(n - 1) : k \in 1..n
      BY <1>3
    <2>. QED  BY <2>1, <1>1, <1>2, <1>3 DEF n
  <1>. QED  BY <1>2, <1>3, <1>4 DEF returned

\* a sequence grows by an element
LEMMA AppendIs ==
  ASSUME NEW S, NEW s \in Seq(S), NEW x \in S
  PROVE  Append(s, x) \in Seq(S) /\ Elements(Append(s, x)) = Elements(s) \cup {x}
  <1>1. /\ Append(s, x) \in Seq(S)
        /\ Append(s, x)[Len(s) + 1] = x /\ Len(s) \in Nat
        /\ \A i \in DOMAIN s : Append(s, x)[i] = s[i]
        /\ DOMAIN s = 1..Len(s)
        /\ DOMAIN Append(s, x) = 1..(Len(s) + 1)
    OBVIOUS
  <1>2. \A i \in 1..(Len(s) + 1) : i \in 1..Len(s) \/ i = Len(s) + 1
    BY <1>1
  <1>3. \A y \in Elements(Append(s, x)) : y \in Elements(s) \cup {x}
    BY <1>1, <1>2 DEF Elements
  <1>4. \A y \in Elements(s) \cup {x} : y \in Elements(Append(s, x))
    <2>1. Len(s) + 1 \in 1..(Len(s) + 1) /\ \A i \in 1..Len(s) : i \in 1..(Len(s) + 1)
      BY <1>1
    <2>. QED  BY <2>1, <1>1 DEF Elements
  <1>. QED  BY <1>1, <1>3, <1>4

-----------------------------------------------------------------------------
\* The edges of a file and the edges that loaded are finitely many.
LEMMA Finite ==
  ASSUME NEW n \in Nat, NEW f
  PROVE  /\ IsFiniteSet(EdgesOf(f, n)) /\ Cardinality(EdgesOf(f, n)) \in Nat
         /\ IsFiniteSet(Loads(n)) /\ Cardinality(Loads(n)) \in Nat
  <1>1. IsFiniteSet(1..n)
    BY FS_Interval
  <1>2. EdgesOf(f, n) \in SUBSET (1..n) /\ Loads(n) \in SUBSET (1..n)
    BY DEF EdgesOf, Loads
  <1>3. IsFiniteSet(EdgesOf(f, n)) /\ IsFiniteSet(Loads(n))
    BY <1>1, <1>2, FS_Subset
  <1>. QED  BY <1>3, FS_CardinalityType

\* the edges that loaded are numbered from one to how many there are
LEMMA LoadsNumbered ==
  ASSUME NEW n \in Nat, NEW i \in Loads(n)
  PROVE  /\ Cardinality(Loads(i)) \in Nat \ {0}
         /\ Cardinality(Loads(i)) <= Cardinality(Loads(n))
  <1>1. i \in Nat /\ i <= n /\ i \in Loads(i)
    BY DEF Loads
  <1>2. Loads(i) \in SUBSET Loads(n)
    BY <1>1 DEF Loads
  <1>3. /\ IsFiniteSet(Loads(n)) /\ IsFiniteSet(Loads(i))
        /\ Cardinality(Loads(i)) \in Nat
    BY <1>1, Finite
  <1>4. Cardinality(Loads(i)) # 0
    BY <1>1, <1>3, FS_EmptySet
  <1>. QED  BY <1>2, <1>3, <1>4, FS_Subset

\* What the edges become when one is added.
LEMMA EdgeAdded ==
  ASSUME NEW e \in EdgeSet, edges \in Seq(EdgeSet), edges' = Append(edges, e),
         NEW n, n = Len(edges)
  PROVE  /\ edges' \in Seq(EdgeSet) /\ n \in Nat
         /\ Len(edges') = n + 1
         /\ DOMAIN edges = 1..n /\ DOMAIN edges' = 1..(n + 1)
         /\ edges'[n + 1] = e
         /\ \A i \in 1..n : edges'[i] = edges[i] /\ edges[i] \in EdgeSet
  OBVIOUS

\* and the edges of a file
LEMMA EdgesOfAdded ==
  ASSUME NEW e \in EdgeSet, edges \in Seq(EdgeSet), edges' = Append(edges, e),
         NEW n, n = Len(edges), NEW f
  PROVE  /\ \A i \in 0..n : EdgesOf(f, i)' = EdgesOf(f, i)
         /\ e.from # f => EdgesOf(f, n + 1)' = EdgesOf(f, n)
         /\ e.from = f => Cardinality(EdgesOf(f, n + 1)') = Cardinality(EdgesOf(f, n)) + 1
  <1>1. /\ n \in Nat /\ edges'[n + 1] = e
        /\ \A i \in 1..n : edges'[i] = edges[i]
    BY EdgeAdded
  <1>2. ASSUME NEW i \in 0..n PROVE EdgesOf(f, i)' = EdgesOf(f, i)
    <2>1. \A j \in 1..i : j \in 1..n
      BY <1>1, <1>2
    <2>2. \A j \in 1..i : edges'[j] = edges[j]
      BY <2>1, <1>1
    <2>. QED  BY <2>2 DEF EdgesOf
  <1>3. 1..(n + 1) = (1..n) \cup {n + 1} /\ n + 1 \notin 1..n
    BY <1>1
  <1>4. e.from # f => EdgesOf(f, n + 1)' = EdgesOf(f, n)
    <2>. SUFFICES ASSUME e.from # f PROVE EdgesOf(f, n + 1)' = EdgesOf(f, n)
      OBVIOUS
    <2>1. EdgesOf(f, n + 1)' = {i \in 1..(n + 1) : edges'[i].from = f}
      BY <1>1 DEF EdgesOf
    <2>. QED  BY <2>1, <1>1, <1>3 DEF EdgesOf
  <1>5. e.from = f => Cardinality(EdgesOf(f, n + 1)') = Cardinality(EdgesOf(f, n)) + 1
    <2>. SUFFICES ASSUME e.from = f
                  PROVE  Cardinality(EdgesOf(f, n + 1)') = Cardinality(EdgesOf(f, n)) + 1
      OBVIOUS
    <2>1. EdgesOf(f, n + 1)' = {i \in 1..(n + 1) : edges'[i].from = f}
      BY <1>1 DEF EdgesOf
    <2>2. EdgesOf(f, n + 1)' = EdgesOf(f, n) \cup {n + 1}
      BY <2>1, <1>1, <1>3 DEF EdgesOf
    <2>3. IsFiniteSet(EdgesOf(f, n))
      BY <1>1, Finite
    <2>4. n + 1 \notin EdgesOf(f, n)
      BY <1>3 DEF EdgesOf
    <2>. QED  BY <2>2, <2>3, <2>4, FS_AddElement
  <1>. QED  BY <1>2, <1>4, <1>5

\* and the edges that loaded
LEMMA LoadsAdded ==
  ASSUME NEW e \in EdgeSet, edges \in Seq(EdgeSet), edges' = Append(edges, e),
         NEW n, n = Len(edges)
  PROVE  /\ \A i \in 0..n : Loads(i)' = Loads(i)
         /\ e.action # "load" => Loads(n + 1)' = Loads(n)
         /\ e.action = "load" => /\ Loads(n + 1)' = Loads(n) \cup {n + 1}
                                 /\ Cardinality(Loads(n + 1)') = Cardinality(Loads(n)) + 1
  <1>1. /\ n \in Nat /\ edges'[n + 1] = e
        /\ \A i \in 1..n : edges'[i] = edges[i]
    BY EdgeAdded
  <1>2. ASSUME NEW i \in 0..n PROVE Loads(i)' = Loads(i)
    <2>1. \A j \in 1..i : j \in 1..n
      BY <1>1, <1>2
    <2>2. \A j \in 1..i : edges'[j] = edges[j]
      BY <2>1, <1>1
    <2>. QED  BY <2>2 DEF Loads
  <1>3. 1..(n + 1) = (1..n) \cup {n + 1} /\ n + 1 \notin 1..n
    BY <1>1
  <1>4. Loads(n + 1)' = {i \in 1..(n + 1) : edges'[i].action = "load"}
    BY <1>1 DEF Loads
  <1>5. e.action # "load" => Loads(n + 1)' = Loads(n)
    BY <1>4, <1>1, <1>3 DEF Loads
  <1>6. e.action = "load" => Loads(n + 1)' = Loads(n) \cup {n + 1}
    BY <1>4, <1>1, <1>3 DEF Loads
  <1>7. n + 1 \notin Loads(n) /\ IsFiniteSet(Loads(n))
    BY <1>1, <1>3, Finite DEF Loads
  <1>8. Cardinality(Loads(n) \cup {n + 1}) = Cardinality(Loads(n)) + 1
    BY <1>7, FS_AddElement
  <1>. QED  BY <1>2, <1>5, <1>6, <1>8

\* What brought a file in still has, when an edge is added; and it brought in
\* what that edge loaded.
LEMMA BroughtStill ==
  ASSUME NEW e \in EdgeSet, edges \in Seq(EdgeSet), edges' = Append(edges, e),
         NEW n, n = Len(edges), NEW f, NEW g, BroughtIn(g, f)
  PROVE  /\ BroughtIn(g, f)'
         /\ e.from = f /\ e.action = "load" => BroughtIn(g, e.to)'
  <1>1. /\ n \in Nat /\ DOMAIN edges = 1..n /\ DOMAIN edges' = 1..(n + 1)
        /\ edges'[n + 1] = e
        /\ \A i \in 1..n : edges'[i] = edges[i]
    BY EdgeAdded
  <1>2. ASSUME NEW S \in SUBSET Files, g \in S,
               \A i \in DOMAIN edges' :
                 edges'[i].action = "load" /\ edges'[i].from \in S => edges'[i].to \in S
        PROVE  f \in S /\ (e.from = f /\ e.action = "load" => e.to \in S)
    <2>1. \A i \in 1..n : i \in 1..(n + 1)
      BY <1>1
    <2>2. \A i \in DOMAIN edges : edges[i].action = "load" /\ edges[i].from \in S => edges[i].to \in S
      BY <2>1, <1>1, <1>2
    <2>3. f \in S
      BY <2>2, <1>2 DEF BroughtIn
    <2>4. n + 1 \in 1..(n + 1)
      BY <1>1
    <2>. QED  BY <2>3, <2>4, <1>1, <1>2
  <1>. QED  BY <1>2 DEF BroughtIn

LEMMA BroughtSelf == \A f : BroughtIn(f, f)
  BY DEF BroughtIn

-----------------------------------------------------------------------------
\* What is known while visit works on a file.
LEMMA Working ==
  ASSUME IInv, frames # <<>>, ~thrown
  PROVE  /\ Built
         /\ imports \in [Files -> Seq(Specs)]
         /\ frames \in Seq(FrameSet) /\ Len(frames) \in Nat \ {0}
         /\ \A k \in Depth : frames[k] \in FrameSet
         /\ Top \in FrameSet /\ Top.file \in Files /\ Top.next \in Nat
         /\ imports[Top.file] \in Seq(Specs)
         /\ edges \in Seq(EdgeSet) /\ Len(edges) \in Nat /\ DOMAIN edges = 1..Len(edges)
         /\ loaded \in Seq(Files \ {Entry}) /\ Elements(loaded) \subseteq Files \ {Entry}
         /\ Entry \notin Within
         /\ \A k \in Depth : /\ frames[k].file \notin Elements(loaded)
                              /\ frames[k].file \in DOMAIN states \cup {Entry}
         /\ Top.file \notin Elements(loaded)
         /\ Top.file \in DOMAIN states \cup {Entry}
  <1>1. Built /\ Types
    BY DEF IInv
  <1>2. imports \in [Files -> Seq(Specs)] /\ frames \in Seq(FrameSet)
    BY <1>1, GraphAssumption DEF Types
  <1>3. /\ Len(frames) \in Nat \ {0} /\ \A k \in Depth : frames[k] \in FrameSet
        /\ Top \in FrameSet /\ Top.file \in Files /\ Top.next \in Nat
    BY <1>2, StackIs DEF Depth, Top
  <1>4. imports[Top.file] \in Seq(Specs)
    BY <1>2, <1>3
  <1>5. edges \in Seq(EdgeSet) /\ Len(edges) \in Nat /\ DOMAIN edges = 1..Len(edges)
    BY <1>1 DEF Types
  <1>6. loaded \in Seq(Files \ {Entry}) /\ Elements(loaded) \subseteq Files \ {Entry}
    <2>1. loaded \in Seq(Files \ {Entry})
      BY <1>1 DEF Types
    <2>. QED  BY <2>1 DEF Elements
  <1>. DEFINE n == Len(frames)
  <1>7. /\ n \in Nat \ {0} /\ Called /\ Marked
    BY <1>1, <1>3 DEF Built
  <1>8. Entry \notin Within
    <2>1. ASSUME NEW k \in 2..n PROVE frames[k].file # Entry
      <3>1. k \in Depth /\ 1 \in Depth /\ k # 1
        BY <1>7, <2>1 DEF Depth
      <3>2. frames[1].file = Entry
        BY <1>7 DEF Called
      <3>. QED  BY <3>1, <3>2, <1>7 DEF Called
    <2>. QED  BY <2>1 DEF Within
  <1>9. ASSUME NEW k \in Depth
        PROVE  /\ frames[k].file \notin Elements(loaded)
               /\ frames[k].file \in DOMAIN states \cup {Entry}
    <2>1. CASE k = 1
      <3>1. frames[k].file = Entry
        BY <2>1, <1>7 DEF Called
      <3>. QED  BY <3>1, <1>6
    <2>2. CASE k # 1
      <3>1. k \in 2..n
        <4>1. k \in 1..n
          BY DEF Depth
        <4>. HIDE DEF n
        <4>. QED  BY <4>1, <2>2, <1>7
      <3>2. frames[k].file \in Within
        BY <3>1 DEF Within
      <3>. QED  BY <3>2, <1>7 DEF Marked
    <2>. QED  BY <2>1, <2>2
  <1>10. /\ Top.file \notin Elements(loaded)
         /\ Top.file \in DOMAIN states \cup {Entry}
    BY <1>3, <1>9 DEF Top, Depth
  <1>. QED  BY <1>1, <1>2, <1>3, <1>4, <1>5, <1>6, <1>8, <1>9, <1>10

\* The import visit is at.
LEMMA ImportIs ==
  ASSUME IInv, AtImport
  PROVE  /\ frames # <<>> /\ ~thrown
         /\ Top.next \in DOMAIN imports[Top.file] /\ Top.next \in Nat \ {0}
         /\ Top.next <= Len(imports[Top.file])
         /\ DOMAIN imports[Top.file] = 1..Len(imports[Top.file])
         /\ Len(imports[Top.file]) \in Nat
         /\ Stated \in Specs /\ Stated.of \in Files /\ Stated.of # Entry
         /\ \A action \in Actions :
              /\ Edge(action) \in EdgeSet
              /\ Edge(action).from = Top.file /\ Edge(action).to = Stated.of
              /\ Edge(action).action = action
              /\ [of |-> Edge(action).to, as |-> Edge(action).as] = imports[Top.file][Top.next]
  <1>1. frames # <<>> /\ ~thrown /\ Top.next \in DOMAIN imports[Top.file]
    BY DEF AtImport
  <1>2. imports[Top.file] \in Seq(Specs) /\ Top.next \in Nat /\ Top.file \in Files
    BY <1>1, Working
  <1>3. /\ Top.next \in Nat \ {0} /\ Top.next <= Len(imports[Top.file])
        /\ DOMAIN imports[Top.file] = 1..Len(imports[Top.file])
        /\ Len(imports[Top.file]) \in Nat
    BY <1>1, <1>2
  <1>4. Stated \in Specs
    BY <1>1, <1>2 DEF Stated
  <1>. QED  BY <1>1, <1>2, <1>3, <1>4 DEF Specs, Edge, EdgeSet, Stated

-----------------------------------------------------------------------------
\* An import is recorded: what the new edge says is so, the edges before it
\* still say what is so, and only the file that imports has one more.
Did(f) == IF f \notin DOMAIN states THEN "load" ELSE Met(f)

LEMMA RecordTold ==
  ASSUME IInv, AtImport, edges' = Append(edges, Edge(Did(Stated.of))), UNCHANGED loaded
  PROVE  Told' /\ Leads(Elements(loaded))'
  <1>1. PICK e : e = Edge(Did(Stated.of))
    OBVIOUS
  <1>2. PICK m : m = Len(edges)
    OBVIOUS
  <1>3. /\ frames # <<>> /\ ~thrown /\ Built /\ Told
        /\ edges \in Seq(EdgeSet) /\ Top.file \notin Elements(loaded)
        /\ Elements(loaded) \subseteq Files
        /\ Len(frames) \in Nat \ {0}
    BY ImportIs, Working DEF IInv
  <1>4. Did(Stated.of) \in Actions
    BY DEF Did, Met, Actions
  <1>5. /\ e \in EdgeSet /\ e.from = Top.file /\ e.to = Stated.of /\ e.action = Did(Stated.of)
    BY <1>1, <1>4, ImportIs
  <1>6. /\ m \in Nat /\ DOMAIN edges = 1..m /\ DOMAIN edges' = 1..(m + 1)
        /\ edges'[m + 1] = e
        /\ \A i \in 1..m : edges'[i] = edges[i] /\ edges[i] \in EdgeSet
    BY <1>1, <1>2, <1>3, <1>5, EdgeAdded
  <1>7. UNCHANGED Elements(loaded)
    BY DEF Elements
  \* no edge is added for a loaded file
  <1>8. ASSUME NEW S \in SUBSET Elements(loaded), Leads(S) PROVE Leads(S)'
    <2>1. ASSUME NEW i \in 1..(m + 1), edges'[i].action = "load", edges'[i].from \in S
          PROVE  edges'[i].to \in S
      <3>1. i # m + 1
        BY <2>1, <1>3, <1>5, <1>6, <1>8
      <3>2. i \in 1..m
        BY <3>1, <1>6
      <3>. QED  BY <3>2, <2>1, <1>6, <1>8 DEF Leads
    <2>. QED  BY <2>1, <1>6 DEF Leads
  <1>9. Leads(Elements(loaded)) /\ Leads(Elements(loaded))'
    <2>1. Leads(Elements(loaded))
      BY <1>3 DEF Built, Inner
    <2>2. PICK S : S = Elements(loaded)
      OBVIOUS
    <2>3. Leads(S)'
      BY <2>1, <2>2, <1>8
    <2>. QED  BY <2>1, <2>2, <2>3, <1>7 DEF Leads
  <1>10. ASSUME NEW i \in 1..m
         PROVE  /\ edges'[i].action = "load" <=> \A j \in 1..(i - 1) : edges'[j].to # edges'[i].to
                /\ edges'[i].action = "cycle" => BroughtIn(edges[i].to, edges[i].from)'
                /\ edges'[i].action = "duplicate" => Apart(i)'
    <2>1. \A j \in 1..(i - 1) : j \in 1..m
      BY <1>6
    <2>2. /\ edges[i].action = "load" <=> \A j \in 1..(i - 1) : edges[j].to # edges[i].to
          /\ edges[i].action = "cycle" => BroughtIn(edges[i].to, edges[i].from)
          /\ edges[i].action = "duplicate" => Apart(i)
      BY <1>3, <1>6 DEF Told
    <2>3. edges'[i].action = "load" <=> \A j \in 1..(i - 1) : edges'[j].to # edges'[i].to
      BY <2>1, <2>2, <1>6
    <2>4. PICK g, f : g = edges[i].to /\ f = edges[i].from
      OBVIOUS
    <2>5. g = edges'[i].to /\ f = edges'[i].from
      BY <2>4, <1>6
    <2>6. BroughtIn(g, f) => BroughtIn(g, f)'
      BY <1>1, <1>2, <1>3, <1>5, BroughtStill
    <2>7. Apart(i) => Apart(i)'
      <3>. SUFFICES ASSUME Apart(i) PROVE Apart(i)'
        OBVIOUS
      <3>1. PICK S \in SUBSET Elements(loaded) : g \in S /\ f \notin S /\ Leads(S)
        BY <2>4 DEF Apart
      <3>2. Leads(S)'
        BY <3>1, <1>8
      <3>. QED  BY <3>1, <3>2, <2>5, <1>7 DEF Apart
    <2>8. edges'[i].action = "cycle" => BroughtIn(g, f)'
      BY <2>2, <2>4, <2>6, <1>6
    <2>9. BroughtIn(g, f)' => BroughtIn(edges[i].to, edges[i].from)'
      BY <2>5 DEF BroughtIn
    <2>. QED  BY <2>2, <2>3, <2>7, <2>8, <2>9, <1>6
  <1>11. /\ e.action = "load" <=> \A j \in 1..m : edges'[j].to # e.to
         /\ e.action = "cycle" => BroughtIn(edges[m + 1].to, edges[m + 1].from)'
         /\ e.action = "duplicate" => Apart(m + 1)'
    <2>1. DOMAIN states = {edges[j].to : j \in 1..m} /\ Marked /\ Brought
      BY <1>3, <1>6 DEF Built, Known
    <2>2. e.action = "load" <=> \A j \in 1..m : edges'[j].to # e.to
      <3>1. e.action = "load" <=> Stated.of \notin DOMAIN states
        BY <1>5 DEF Did, Met
      <3>. QED  BY <3>1, <2>1, <1>5, <1>6
    <2>3. ASSUME e.action = "cycle" PROVE BroughtIn(edges[m + 1].to, edges[m + 1].from)'
      <3>1. e.to \in DOMAIN states /\ states[e.to] = "active"
        BY <2>3, <1>5 DEF Did, Met
      <3>2. e.to \in Within
        BY <3>1, <2>1 DEF Marked
      <3>3. PICK k \in 2..Len(frames) : frames[k].file = e.to
        BY <3>2 DEF Within
      <3>4. k \in Depth /\ Len(frames) \in Depth /\ k <= Len(frames)
        BY <1>3 DEF Depth
      <3>5. BroughtIn(e.to, e.from)
        BY <3>3, <3>4, <2>1, <1>5 DEF Brought, Top
      <3>6. PICK g, f : g = e.to /\ f = e.from
        OBVIOUS
      <3>7. BroughtIn(g, f)'
        BY <3>5, <3>6, <1>1, <1>2, <1>3, <1>5, BroughtStill
      <3>. QED  BY <3>6, <3>7, <1>6 DEF BroughtIn
    <2>4. ASSUME e.action = "duplicate" PROVE Apart(m + 1)'
      <3>1. e.to \in DOMAIN states /\ states[e.to] # "active"
        BY <2>4, <1>5 DEF Did, Met
      <3>2. e.to \in Elements(loaded)
        BY <3>1, <2>1 DEF Marked
      <3>3. PICK S : S = Elements(loaded)
        OBVIOUS
      <3>4. S \in SUBSET Elements(loaded)' /\ Leads(S)'
        BY <3>3, <1>7, <1>8, <1>9
      <3>5. edges'[m + 1].to \in S /\ edges'[m + 1].from \notin S
        BY <3>2, <3>3, <1>3, <1>5, <1>6
      <3>. QED  BY <3>4, <3>5 DEF Apart
    <2>. QED  BY <2>2, <2>3, <2>4
  <1>12. Told'
    <2>1. ASSUME NEW i \in 1..(m + 1)
          PROVE  /\ edges'[i].action = "load" <=> \A j \in 1..(i - 1) : edges'[j].to # edges'[i].to
                 /\ edges'[i].action = "cycle" => BroughtIn(edges[i].to, edges[i].from)'
                 /\ edges'[i].action = "duplicate" => Apart(i)'
      <3>1. CASE i \in 1..m
        BY <3>1, <1>10
      <3>2. CASE i = m + 1
        <4>1. 1..(i - 1) = 1..m
          BY <3>2, <1>6
        <4>. QED  BY <3>2, <4>1, <1>6, <1>11
      <3>. QED  BY <3>1, <3>2, <1>6
    <2>. QED  BY <2>1, <1>6 DEF Told
  <1>. QED  BY <1>9, <1>12

LEMMA RecordCounts ==
  ASSUME IInv, AtImport, edges' = Append(edges, Edge(Did(Stated.of))), UNCHANGED imports,
         DOMAIN states' = DOMAIN states \cup {Stated.of}
  PROVE  /\ edges' \in Seq(EdgeSet)
         /\ Known'
         /\ Numbered'
         /\ \A f : f # Top.file => /\ EdgesOf(f, Len(edges))' = EdgesOf(f, Len(edges))
                                   /\ Count(f)' = Count(f)
         /\ \A f : f = Top.file => Count(f)' = Top.next
  <1>1. PICK e : e = Edge(Did(Stated.of))
    OBVIOUS
  <1>2. PICK m : m = Len(edges)
    OBVIOUS
  <1>3. /\ frames # <<>> /\ ~thrown /\ Built
        /\ edges \in Seq(EdgeSet)
        /\ Len(frames) \in Nat \ {0}
        /\ Top.next \in DOMAIN imports[Top.file] /\ Top.next \in Nat \ {0}
    BY ImportIs, Working
  <1>4. Did(Stated.of) \in Actions
    BY DEF Did, Met, Actions
  <1>5. /\ e \in EdgeSet /\ e.from = Top.file /\ e.to = Stated.of
        /\ [of |-> e.to, as |-> e.as] = imports[Top.file][Top.next]
    BY <1>1, <1>4, ImportIs
  <1>6. /\ m \in Nat /\ DOMAIN edges = 1..m /\ DOMAIN edges' = 1..(m + 1)
        /\ edges'[m + 1] = e /\ Len(edges') = m + 1 /\ edges' \in Seq(EdgeSet)
        /\ \A i \in 1..m : edges'[i] = edges[i] /\ edges[i] \in EdgeSet
    BY <1>1, <1>2, <1>3, <1>5, EdgeAdded
  <1>7. Known'
    <2>1. DOMAIN states = {edges[i].to : i \in 1..m}
      BY <1>3, <1>6 DEF Built, Known
    <2>2. {edges'[i].to : i \in 1..(m + 1)} = {edges'[i].to : i \in 1..m} \cup {e.to}
      <3>1. 1..(m + 1) = (1..m) \cup {m + 1}
        BY <1>6
      <3>. QED  BY <3>1, <1>6
    <2>3. {edges'[i].to : i \in 1..m} = {edges[i].to : i \in 1..m}
      BY <1>6
    <2>. QED  BY <2>1, <2>2, <2>3, <1>5, <1>6 DEF Known
  <1>8. ASSUME NEW f
        PROVE  /\ \A i \in 0..m : EdgesOf(f, i)' = EdgesOf(f, i)
               /\ e.from # f => EdgesOf(f, m + 1)' = EdgesOf(f, m)
               /\ e.from = f => Cardinality(EdgesOf(f, m + 1)') = Cardinality(EdgesOf(f, m)) + 1
    BY <1>1, <1>2, <1>3, <1>5, EdgesOfAdded
  <1>9. Count(Top.file) = Top.next - 1
    <2>1. Len(frames) \in Depth /\ Counted
      BY <1>3 DEF Depth, Built
    <2>. QED  BY <2>1, <1>3 DEF Counted, Taken, Top
  <1>10. ASSUME NEW f
         PROVE  EdgesOf(f, Len(edges))' = EdgesOf(f, m + 1)'
    BY <1>6 DEF EdgesOf
  <1>11. ASSUME NEW f, f # Top.file
         PROVE  EdgesOf(f, Len(edges))' = EdgesOf(f, Len(edges)) /\ Count(f)' = Count(f)
    <2>1. EdgesOf(f, Len(edges))' = EdgesOf(f, Len(edges))
      BY <1>2, <1>5, <1>8, <1>10, <1>11
    <2>. QED  BY <2>1 DEF Count
  <1>12. ASSUME NEW f, f = Top.file PROVE Count(f)' = Top.next
    <2>1. Cardinality(EdgesOf(f, m + 1)') = Count(f) + 1
      BY <1>2, <1>5, <1>8, <1>12 DEF Count
    <2>2. Count(f)' = Count(f) + 1
      BY <2>1, <1>10 DEF Count
    <2>. QED  BY <2>2, <1>3, <1>9, <1>12
  <1>13. Numbered'
    <2>1. ASSUME NEW i \in 1..m, NEW f, f = edges[i].from
          PROVE  LET c == Cardinality(EdgesOf(f, i)')
                 IN  c \in DOMAIN imports[f] /\ imports[f][c] = [of |-> edges[i].to, as |-> edges[i].as]
      <3>1. i \in 0..m
        BY <1>6
      <3>2. EdgesOf(f, i)' = EdgesOf(f, i)
        BY <3>1, <1>8
      <3>3. LET c == Cardinality(EdgesOf(f, i))
            IN  c \in DOMAIN imports[f] /\ imports[f][c] = [of |-> edges[i].to, as |-> edges[i].as]
        BY <2>1, <1>3, <1>6 DEF Built, Numbered
      <3>. QED  BY <3>2, <3>3
    <2>2. Cardinality(EdgesOf(e.from, m + 1)') = Top.next
      <3>1. Cardinality(EdgesOf(e.from, m + 1)') = Count(Top.file) + 1
        BY <1>2, <1>5, <1>8 DEF Count
      <3>. QED  BY <3>1, <1>3, <1>9
    <2>3. ASSUME NEW i \in 1..(m + 1)
          PROVE  LET f == edges'[i].from
                     c == Cardinality(EdgesOf(edges[i].from, i))'
                 IN  c \in DOMAIN imports'[f] /\ imports'[f][c] = [of |-> edges'[i].to, as |-> edges'[i].as]
      <3>1. PICK f : f = edges'[i].from
        OBVIOUS
      <3>2. EdgesOf(edges[i].from, i)' = EdgesOf(f, i)'
        BY <3>1 DEF EdgesOf
      <3>3. CASE i \in 1..m
        BY <3>1, <3>2, <3>3, <2>1, <1>6
      <3>4. CASE i = m + 1
        BY <3>1, <3>2, <3>4, <2>2, <1>3, <1>5, <1>6
      <3>. QED  BY <3>3, <3>4, <1>6
    <2>. QED  BY <2>3, <1>6 DEF Numbered
  <1>. QED  BY <1>6, <1>7, <1>11, <1>12, <1>13

-----------------------------------------------------------------------------
\* The call that is the n-th goes on to its next import, inside no other.
LEMMA GoOn ==
  ASSUME IInv, frames # <<>>, ~thrown, NEW n \in Depth,
         frames' \in Seq(FrameSet), Len(frames') = n,
         \A k \in 1..(n - 1) : frames'[k] = frames[k],
         frames'[n] = [file |-> frames[n].file, next |-> frames[n].next + 1],
         UNCHANGED imports, DOMAIN states \subseteq DOMAIN states',
         frames[n].next <= Len(imports[frames[n].file]),
         frames[n].next \in DOMAIN imports[frames[n].file] =>
           imports[frames[n].file][frames[n].next].of \in DOMAIN states
  PROVE  /\ Called' /\ Past' /\ frames' # <<>>
         /\ Depth' = 1..n
         /\ \A k \in 1..n : frames'[k].file = frames[k].file /\ k \in Depth
         /\ Within' = {frames[k].file : k \in 2..n}
  <1>1. /\ Called /\ Past /\ Len(frames) \in Nat \ {0}
        /\ \A k \in Depth : frames[k] \in FrameSet
        /\ imports \in [Files -> Seq(Specs)]
    BY Working DEF Built
  <1>2. n \in Nat \ {0} /\ n <= Len(frames) /\ \A k \in 1..n : k \in Depth
    BY <1>1 DEF Depth
  <1>3. \A k \in 1..n : frames'[k].file = frames[k].file /\ k \in Depth
    <2>1. \A k \in 1..n : k = n \/ k \in 1..(n - 1)
      BY <1>2
    <2>. QED  BY <2>1, <1>2
  <1>4. Depth' = 1..n /\ frames' # <<>>
    <2>1. Len(<<>>) = 0
      BY EmptySeq
    <2>. QED  BY <2>1, <1>2 DEF Depth
  <1>5. Within' = {frames[k].file : k \in 2..n}
    <2>1. \A k \in 2..n : k \in 1..n
      BY <1>2
    <2>. QED  BY <2>1, <1>3 DEF Within
  <1>6. /\ frames[n].next \in Nat /\ frames[n].file \in Files
        /\ imports[frames[n].file] \in Seq(Specs)
    BY <1>1 DEF FrameSet
  <1>7. Called'
    <2>1. frames'[1].file = Entry /\ frames'[1].next # 0
      <3>1. 1 \in 1..n /\ frames[1].file = Entry /\ frames[1].next # 0
        BY <1>1, <1>2 DEF Called
      <3>2. CASE n = 1
        BY <3>1, <3>2, <1>6
      <3>3. CASE n # 1
        <4>1. 1 \in 1..(n - 1)
          BY <3>3, <1>2
        <4>. QED  BY <3>1, <4>1
      <3>. QED  BY <3>2, <3>3
    <2>2. ASSUME NEW k \in 1..n PROVE frames'[k].next <= Len(imports[frames'[k].file]) + 1
      <3>1. CASE k = n
        <4>1. Len(imports[frames[n].file]) \in Nat
          BY <1>6
        <4>. QED  BY <3>1, <4>1, <1>6
      <3>2. CASE k # n
        <4>1. k \in 1..(n - 1)
          BY <3>2, <1>2
        <4>. QED  BY <4>1, <1>1, <1>2 DEF Called
      <3>. QED  BY <3>1, <3>2
    <2>3. ASSUME NEW k \in 1..(n - 1)
          PROVE  /\ frames'[k].next \in DOMAIN imports[frames'[k].file]
                 /\ imports[frames'[k].file][frames'[k].next].of = frames'[k + 1].file
      <3>1. k \in 1..(Len(frames) - 1) /\ k + 1 \in 1..n
        BY <1>2, <1>1
      <3>2. frames'[k + 1].file = frames[k + 1].file
        BY <3>1, <1>3
      <3>. QED  BY <3>1, <3>2, <1>1 DEF Called
    <2>4. ASSUME NEW k \in 1..n, NEW l \in 1..n, frames'[k].file = frames'[l].file PROVE k = l
      BY <2>4, <1>1, <1>3 DEF Called
    <2>. QED  BY <2>1, <2>2, <2>3, <2>4, <1>4 DEF Called
  <1>8. Past'
    <2>1. ASSUME NEW k \in 1..n, NEW j \in DOMAIN imports[frames'[k].file], j < frames'[k].next
          PROVE  imports[frames'[k].file][j].of \in DOMAIN states
      <3>1. CASE k # n
        <4>1. k \in 1..(n - 1)
          BY <3>1, <1>2
        <4>2. frames'[k] = frames[k]
          BY <4>1
        <4>. QED  BY <4>2, <2>1, <1>1, <1>2 DEF Past
      <3>2. CASE k = n
        <4>1. j < frames[n].next + 1 /\ j \in DOMAIN imports[frames[n].file]
          BY <2>1, <3>2
        <4>2. j \in Nat
          BY <4>1, <1>6
        <4>3. CASE j < frames[n].next
          BY <4>1, <4>3, <3>2, <1>1, <1>3 DEF Past
        <4>4. CASE j = frames[n].next
          BY <4>1, <4>4, <3>2
        <4>. QED  BY <4>1, <4>2, <4>3, <4>4, <1>6
      <3>. QED  BY <3>1, <3>2
    <2>. QED  BY <2>1, <1>4 DEF Past
  <1>. QED  BY <1>3, <1>4, <1>5, <1>7, <1>8

LEMMA SkipKeeps ==
  ASSUME IInv, Skip
  PROVE  IInv'
  <1>1. PICK n, m : n = Len(frames) /\ m = Len(edges)
    OBVIOUS
  <1>2. /\ AtImport /\ Stated.of \in DOMAIN states
        /\ edges' = Append(edges, Edge(Met(Stated.of)))
        /\ frames' = Onward(frames)
        /\ UNCHANGED <<imports, states, modules, thrown, loaded>>
    BY DEF Skip
  <1>3. edges' = Append(edges, Edge(Did(Stated.of)))
    BY <1>2 DEF Did
  <1>4. /\ frames # <<>> /\ ~thrown /\ Built /\ Types
        /\ frames \in Seq(FrameSet) /\ n \in Nat \ {0} /\ n \in Depth /\ Depth = 1..n
        /\ Top = frames[n]
        /\ Top.next \in DOMAIN imports[Top.file] /\ Top.next \in Nat \ {0}
        /\ Top.next <= Len(imports[Top.file])
        /\ edges \in Seq(EdgeSet)
        /\ Top.file \notin Elements(loaded) /\ Top.file \in DOMAIN states \cup {Entry}
    BY <1>1, <1>2, ImportIs, Working DEF Depth, Top, IInv
  <1>5. /\ frames' \in Seq(FrameSet) /\ Len(frames') = n
        /\ \A k \in 1..(n - 1) : frames'[k] = frames[k]
        /\ frames'[n] = [file |-> Top.file, next |-> Top.next + 1]
    BY <1>1, <1>2, <1>4, OnwardIs
  <1>6. /\ Called' /\ Past' /\ frames' # <<>>
        /\ Depth' = 1..n
        /\ \A k \in 1..n : frames'[k].file = frames[k].file
        /\ Within' = {frames[k].file : k \in 2..n}
    BY <1>2, <1>4, <1>5, GoOn DEF Stated
  <1>7. /\ Told' /\ Leads(Elements(loaded))'
        /\ edges' \in Seq(EdgeSet) /\ Known' /\ Numbered'
        /\ \A f : f # Top.file => /\ EdgesOf(f, Len(edges))' = EdgesOf(f, Len(edges))
                                  /\ Count(f)' = Count(f)
        /\ \A f : f = Top.file => Count(f)' = Top.next
    BY <1>2, <1>3, RecordTold, RecordCounts
  <1>8. PICK e : e = Edge(Met(Stated.of))
    OBVIOUS
  <1>9. /\ e \in EdgeSet /\ e.from = Top.file /\ e.to = Stated.of
        /\ e.action # "load" /\ edges' = Append(edges, e)
    <2>1. Met(Stated.of) \in Actions /\ Met(Stated.of) # "load"
      BY DEF Met, Actions
    <2>. QED  BY <2>1, <1>2, <1>8, ImportIs
  <1>10. /\ m \in Nat /\ DOMAIN edges = 1..m /\ DOMAIN edges' = 1..(m + 1)
         /\ edges'[m + 1] = e /\ Len(edges') = m + 1
         /\ \A i \in 1..m : edges'[i] = edges[i] /\ edges[i] \in EdgeSet
    BY <1>1, <1>4, <1>9, EdgeAdded
  <1>11. Types'
    BY <1>2, <1>4, <1>5, <1>7 DEF Types
  <1>12. Marked'
    <2>1. Marked /\ UNCHANGED <<Within, Elements(loaded)>>
      BY <1>1, <1>2, <1>4, <1>6 DEF Built, Within, Elements
    <2>. QED  BY <2>1, <1>2 DEF Marked
  <1>13. Brought'
    <2>1. ASSUME NEW k \in 1..n, NEW l \in 1..n, k <= l
          PROVE  BroughtIn(frames[k].file, frames[l].file)'
      <3>1. PICK g, f : g = frames[k].file /\ f = frames[l].file
        OBVIOUS
      <3>2. BroughtIn(g, f)
        BY <3>1, <2>1, <1>4 DEF Built, Brought
      <3>3. BroughtIn(g, f)'
        BY <3>2, <1>1, <1>4, <1>9, BroughtStill
      <3>. QED  BY <3>1, <3>3, <1>6 DEF BroughtIn
    <2>. QED  BY <2>1, <1>6 DEF Brought
  <1>14. Inner'
    <2>1. ASSUME NEW k \in 1..n, NEW i \in 1..(m + 1),
                 edges'[i].action = "load", edges'[i].from = frames'[k].file
          PROVE  \/ edges'[i].to \in Elements(loaded)
                 \/ k < n /\ edges'[i].to = frames'[k + 1].file
      <3>1. i # m + 1
        BY <2>1, <1>9, <1>10
      <3>2. i \in 1..m /\ edges'[i] = edges[i]
        BY <3>1, <1>10
      <3>3. edges[i].to \in Elements(loaded) \/ (k < n /\ edges[i].to = frames[k + 1].file)
        BY <2>1, <3>2, <1>1, <1>4, <1>6, <1>10 DEF Built, Inner
      <3>4. k < n => k + 1 \in 1..n
        BY <1>4
      <3>. QED  BY <3>2, <3>3, <3>4, <1>6
    <2>. QED  BY <2>1, <1>2, <1>5, <1>6, <1>7, <1>10 DEF Inner, Elements
  <1>15. Counted'
    <2>1. Counted /\ Called
      BY <1>4 DEF Built
    <2>2. ASSUME NEW k \in 1..n PROVE Count(frames[k].file)' = Taken(k)'
      <3>1. PICK f : f = frames[k].file
        OBVIOUS
      <3>2. Count(f)' = Count(frames[k].file)'
        BY <3>1, <1>6 DEF Count, EdgesOf
      <3>3. CASE k = n
        <4>1. Count(f)' = Top.next
          BY <3>1, <3>3, <1>4, <1>7
        <4>2. Taken(k)' = Top.next
          BY <3>3, <1>4, <1>5 DEF Taken
        <4>. QED  BY <3>2, <4>1, <4>2
      <3>4. CASE k # n
        <4>1. k \in 1..(n - 1) /\ k < n
          BY <3>4, <1>4
        <4>2. f # Top.file
          BY <3>1, <3>4, <2>1, <1>4 DEF Called
        <4>3. Count(f) = frames[k].next
          BY <3>1, <4>1, <2>1, <1>1, <1>4 DEF Counted, Taken
        <4>4. Taken(k)' = frames[k].next
          BY <4>1, <1>5 DEF Taken
        <4>. QED  BY <3>2, <4>2, <4>3, <4>4, <1>7
      <3>. QED  BY <3>3, <3>4
    <2>3. ASSUME NEW f \in Elements(loaded) PROVE Count(f)' = Len(imports[f])
      BY <2>1, <1>4, <1>7 DEF Counted
    <2>4. ASSUME NEW f \in Files, f \notin DOMAIN states, f # Entry
          PROVE  EdgesOf(f, Len(edges))' = {}
      BY <2>1, <2>4, <1>4, <1>7 DEF Counted
    <2>. QED  BY <2>2, <2>3, <2>4, <1>2, <1>6 DEF Counted, Elements
  <1>16. Recorded'
    <2>1. Recorded
      BY <1>4 DEF Built
    <2>2. Unread = 0 /\ Unread' = 0
      <3>1. Unread = 0
        BY <1>4 DEF Unread
      <3>2. Top' = [file |-> Top.file, next |-> Top.next + 1]
        BY <1>5 DEF Top
      <3>. QED  BY <3>1, <3>2, <1>4 DEF Unread
    <2>3. /\ \A i \in 0..m : Loads(i)' = Loads(i)
          /\ Loads(m + 1)' = Loads(m)
      BY <1>1, <1>4, <1>9, LoadsAdded
    <2>4. Loads(Len(edges))' = Loads(m) /\ Loads(Len(edges)) = Loads(m)
      BY <2>3, <1>1, <1>10 DEF Loads
    <2>5. Cardinality(Loads(Len(edges)))' = Len(modules) + Unread'
      BY <2>1, <2>2, <2>4 DEF Recorded
    <2>6. ASSUME NEW i \in Loads(m)
          PROVE  /\ Cardinality(Loads(i)') <= Len(modules)
                 /\ modules[Cardinality(Loads(i)')] = edges'[i].to
      <3>1. i \in 1..m /\ i \in 0..m
        BY <1>10 DEF Loads
      <3>2. Cardinality(Loads(i)) <= Cardinality(Loads(m))
        BY <1>10, LoadsNumbered
      <3>3. Cardinality(Loads(i)) <= Len(modules)
        <4>1. Cardinality(Loads(m)) = Len(modules) + 0 /\ modules \in Seq(Files)
          BY <2>1, <2>2, <2>4, <1>4 DEF Recorded, Types
        <4>2. Len(modules) \in Nat
          BY <4>1
        <4>. QED  BY <3>2, <4>1, <4>2
      <3>. QED  BY <3>1, <3>3, <2>1, <2>3, <2>4, <1>10 DEF Recorded
    <2>. QED  BY <2>1, <2>4, <2>5, <2>6, <1>2 DEF Recorded, Elements
  <1>17. Built'
    BY <1>6, <1>7, <1>12, <1>13, <1>14, <1>15, <1>16 DEF Built
  <1>. QED  BY <1>7, <1>11, <1>17 DEF IInv

LEMMA VisitKeeps ==
  ASSUME IInv, Visit
  PROVE  IInv'
  <1>1. PICK n, m, f, e : n = Len(frames) /\ m = Len(edges) /\ f = Stated.of /\ e = Edge("load")
    OBVIOUS
  <1>2. /\ AtImport /\ f \notin DOMAIN states
        /\ states' = With(f, "active")
        /\ edges' = Append(edges, e)
        /\ frames' = Append(frames, Frame(f))
        /\ UNCHANGED <<imports, modules, thrown, loaded>>
    BY <1>1 DEF Visit
  <1>3. edges' = Append(edges, Edge(Did(Stated.of)))
    BY <1>1, <1>2 DEF Did
  <1>4. /\ frames # <<>> /\ ~thrown /\ Built /\ Types
        /\ frames \in Seq(FrameSet) /\ n \in Nat \ {0} /\ n \in Depth /\ Depth = 1..n
        /\ \A k \in 1..n : frames[k] \in FrameSet
        /\ Top = frames[n]
        /\ Top.next \in DOMAIN imports[Top.file] /\ Top.next \in Nat \ {0}
        /\ edges \in Seq(EdgeSet)
    BY <1>1, <1>2, ImportIs, Working DEF Depth, Top, IInv
  <1>5. /\ Top.file \in DOMAIN states \cup {Entry}
        /\ f \in Files /\ f # Entry /\ f # Top.file
        /\ \A k \in 1..n : /\ frames[k].file \notin Elements(loaded)
                           /\ frames[k].file \in DOMAIN states \cup {Entry}
                           /\ frames[k].file # f
        /\ e \in EdgeSet /\ e.from = Top.file /\ e.to = f /\ e.action = "load"
    <2>1. "load" \in Actions
      BY DEF Actions
    <2>2. /\ e \in EdgeSet /\ e.from = Top.file /\ e.to = f /\ e.action = "load"
          /\ f \in Files /\ f # Entry
      BY <2>1, <1>1, <1>2, ImportIs
    <2>3. \A k \in 1..n : /\ frames[k].file \notin Elements(loaded)
                          /\ frames[k].file \in DOMAIN states \cup {Entry}
      BY <1>4, Working
    <2>. QED  BY <2>2, <2>3, <1>2, <1>4
  <1>6. /\ frames' \in Seq(FrameSet) /\ Len(frames') = n + 1 /\ frames' # <<>>
        /\ \A k \in 1..n : frames'[k] = frames[k]
        /\ frames'[n + 1] = [file |-> f, next |-> 0]
        /\ Depth' = 1..(n + 1)
    <2>1. /\ frames' \in Seq(FrameSet) /\ Len(frames') = n + 1 /\ frames' # <<>>
          /\ \A k \in 1..n : frames'[k] = frames[k]
          /\ frames'[n + 1] = [file |-> f, next |-> 0]
      BY <1>1, <1>2, <1>4, <1>5, CallIs
    <2>. QED  BY <2>1 DEF Depth
  <1>7. DOMAIN states' = DOMAIN states \cup {f}
    BY <1>2 DEF With
  <1>8. /\ Told' /\ Leads(Elements(loaded))'
        /\ edges' \in Seq(EdgeSet) /\ Known' /\ Numbered'
        /\ \A g : g # Top.file => /\ EdgesOf(g, Len(edges))' = EdgesOf(g, Len(edges))
                                  /\ Count(g)' = Count(g)
        /\ \A g : g = Top.file => Count(g)' = Top.next
    BY <1>1, <1>2, <1>3, <1>7, RecordTold, RecordCounts
  <1>9. /\ m \in Nat /\ DOMAIN edges = 1..m /\ DOMAIN edges' = 1..(m + 1)
        /\ edges'[m + 1] = e /\ Len(edges') = m + 1
        /\ \A i \in 1..m : edges'[i] = edges[i] /\ edges[i] \in EdgeSet
    BY <1>1, <1>2, <1>4, <1>5, EdgeAdded
  <1>10. /\ Called /\ Marked /\ Past /\ Brought /\ Inner /\ Counted /\ Recorded
         /\ \A k, l \in 1..n : frames[k].file = frames[l].file => k = l
    BY <1>4 DEF Built, Called
  <1>11. \A k \in 1..(n + 1) : k \in 1..n \/ k = n + 1
    BY <1>4
  <1>12. Types'
    BY <1>2, <1>4, <1>6, <1>8 DEF Types
  <1>13. Called'
    <2>1. frames'[1].file = Entry /\ frames'[1].next # 0
      <3>1. 1 \in 1..n
        BY <1>4
      <3>. QED  BY <3>1, <1>4, <1>6, <1>10 DEF Called
    <2>2. ASSUME NEW k \in 1..(n + 1) PROVE frames'[k].next <= Len(imports[frames'[k].file]) + 1
      <3>1. CASE k \in 1..n
        BY <3>1, <1>4, <1>6, <1>10 DEF Called
      <3>2. CASE k = n + 1
        <4>1. imports[f] \in Seq(Specs)
          BY <1>4, <1>5, Working
        <4>2. Len(imports[f]) \in Nat
          BY <4>1
        <4>. QED  BY <3>2, <4>2, <1>6
      <3>. QED  BY <3>1, <3>2, <1>11
    <2>3. ASSUME NEW k \in 1..n
          PROVE  /\ frames'[k].next \in DOMAIN imports[frames'[k].file]
                 /\ imports[frames'[k].file][frames'[k].next].of = frames'[k + 1].file
      <3>1. CASE k = n
        BY <3>1, <1>1, <1>4, <1>6 DEF Stated
      <3>2. CASE k # n
        <4>1. k \in 1..(Len(frames) - 1) /\ k + 1 \in 1..n
          BY <3>2, <1>1, <1>4
        <4>. QED  BY <4>1, <1>6, <1>10 DEF Called
      <3>. QED  BY <3>1, <3>2
    <2>4. ASSUME NEW k \in 1..(n + 1), NEW l \in 1..(n + 1), frames'[k].file = frames'[l].file
          PROVE  k = l
      BY <2>4, <1>5, <1>6, <1>10, <1>11
    <2>5. Len(frames') - 1 = n
      BY <1>4, <1>6
    <2>. QED  BY <2>1, <2>2, <2>3, <2>4, <2>5, <1>2, <1>6 DEF Called
  <1>14. Within' = Within \cup {f}
    <2>1. 2..(n + 1) = (2..n) \cup {n + 1} /\ \A k \in 2..n : k \in 1..n
      BY <1>4
    <2>. QED  BY <2>1, <1>1, <1>6 DEF Within
  <1>15. Marked'
    <2>1. f \notin Elements(loaded) /\ DOMAIN states = Within \cup Elements(loaded)
      BY <1>2, <1>10 DEF Marked
    <2>2. Within' \cap Elements(loaded) = {}
      BY <2>1, <1>10, <1>14 DEF Marked
    <2>3. states' = [g \in Within' \cup Elements(loaded) |-> IF g \in Within' THEN "active" ELSE "loaded"]
      BY <2>1, <1>2, <1>10, <1>14 DEF Marked, With
    <2>4. UNCHANGED Elements(loaded)
      BY <1>2 DEF Elements
    <2>. QED  BY <2>2, <2>3, <2>4 DEF Marked
  <1>16. Past'
    <2>1. ASSUME NEW k \in 1..(n + 1), NEW j \in DOMAIN imports[frames'[k].file], j < frames'[k].next
          PROVE  imports[frames'[k].file][j].of \in DOMAIN states
      <3>1. CASE k \in 1..n
        BY <2>1, <3>1, <1>4, <1>6, <1>10 DEF Past
      <3>2. CASE k = n + 1
        <4>1. imports[f] \in Seq(Specs) /\ j \in DOMAIN imports[f] /\ j < 0
          BY <2>1, <3>2, <1>4, <1>5, <1>6, Working
        <4>2. j \in Nat
          BY <4>1
        <4>. QED  BY <4>1, <4>2
      <3>. QED  BY <3>1, <3>2, <1>11
    <2>. QED  BY <2>1, <1>2, <1>6, <1>7 DEF Past
  <1>17. Brought'
    <2>1. ASSUME NEW k \in 1..(n + 1), NEW l \in 1..(n + 1), k <= l
          PROVE  BroughtIn(frames[k].file, frames[l].file)'
      <3>1. PICK g, h : g = frames'[k].file /\ h = frames'[l].file
        OBVIOUS
      <3>2. CASE l \in 1..n
        <4>1. k \in 1..n
          BY <2>1, <3>2, <1>11
        <4>2. BroughtIn(g, h)
          BY <3>1, <3>2, <4>1, <2>1, <1>4, <1>6, <1>10 DEF Brought
        <4>3. BroughtIn(g, h)'
          BY <4>2, <1>1, <1>2, <1>4, <1>5, BroughtStill
        <4>. QED  BY <3>1, <4>3 DEF BroughtIn
      <3>3. CASE l = n + 1 /\ k \in 1..n
        <4>1. k <= n
          BY <3>3
        <4>2. BroughtIn(g, Top.file)
          BY <3>1, <3>3, <4>1, <1>4, <1>6, <1>10 DEF Brought
        <4>3. PICK t : t = Top.file
          OBVIOUS
        <4>4. BroughtIn(g, h)'
          <5>1. BroughtIn(g, t) /\ h = f /\ e.from = t
            BY <3>1, <3>3, <4>2, <4>3, <1>5, <1>6
          <5>2. BroughtIn(g, e.to)'
            BY <5>1, <1>1, <1>2, <1>4, <1>5, BroughtStill
          <5>. QED  BY <5>1, <5>2, <1>5
        <4>. QED  BY <3>1, <4>4 DEF BroughtIn
      <3>4. CASE l = n + 1 /\ k = n + 1
        BY <3>4 DEF BroughtIn
      <3>. QED  BY <3>2, <3>3, <3>4, <1>11
    <2>. QED  BY <2>1, <1>6 DEF Brought
  <1>18. EdgesOf(f, Len(edges)) = {}
    BY <1>2, <1>5, <1>10 DEF Counted
  <1>19. Inner'
    <2>1. ASSUME NEW k \in 1..(n + 1), NEW i \in 1..(m + 1),
                 edges'[i].action = "load", edges'[i].from = frames'[k].file
          PROVE  \/ edges'[i].to \in Elements(loaded)
                 \/ k < n + 1 /\ edges'[i].to = frames'[k + 1].file
      <3>1. i \in 1..m \/ i = m + 1
        BY <1>9
      <3>2. CASE k \in 1..n /\ i \in 1..m
        <4>1. edges[i].to \in Elements(loaded) \/ (k < n /\ edges[i].to = frames[k + 1].file)
          <5>1. edges[i].action = "load" /\ edges[i].from = frames[k].file
            BY <2>1, <3>2, <1>6, <1>9
          <5>. QED  BY <5>1, <3>2, <1>1, <1>4, <1>9, <1>10 DEF Inner
        <4>2. k < n => k + 1 \in 1..n
          BY <3>2, <1>4
        <4>3. k < n + 1
          BY <3>2, <1>4
        <4>. QED  BY <3>2, <4>1, <4>2, <4>3, <1>6, <1>9
      <3>3. CASE k \in 1..n /\ i = m + 1
        <4>1. k = n
          BY <2>1, <3>3, <1>4, <1>5, <1>6, <1>9, <1>10
        <4>. QED  BY <3>3, <4>1, <1>4, <1>5, <1>6, <1>9
      <3>4. CASE k = n + 1
        <4>1. i \in 1..m
          BY <2>1, <3>1, <3>4, <1>5, <1>6, <1>9
        <4>2. i \in EdgesOf(f, Len(edges))
          BY <2>1, <3>4, <4>1, <1>1, <1>6, <1>9 DEF EdgesOf
        <4>. QED  BY <4>2, <1>18
      <3>. QED  BY <3>1, <3>2, <3>3, <3>4, <1>11
    <2>. QED  BY <2>1, <1>2, <1>6, <1>8, <1>9 DEF Inner, Elements
  <1>20. Counted'
    <2>1. ASSUME NEW k \in 1..(n + 1) PROVE Count(frames[k].file)' = Taken(k)'
      <3>1. PICK g : g = frames'[k].file
        OBVIOUS
      <3>2. Count(g)' = Count(frames[k].file)'
        BY <3>1 DEF Count, EdgesOf
      <3>3. CASE k = n
        <4>1. k \in 1..n /\ k < n + 1
          BY <3>3, <1>4
        <4>2. Count(g)' = Top.next
          BY <3>1, <3>3, <4>1, <1>4, <1>6, <1>8
        <4>3. Taken(k)' = Top.next
          BY <3>3, <4>1, <1>4, <1>6 DEF Taken
        <4>. QED  BY <3>2, <4>2, <4>3
      <3>4. CASE k \in 1..n /\ k # n
        <4>1. k < n /\ k < n + 1
          BY <3>4, <1>4
        <4>2. g # Top.file
          BY <3>1, <3>4, <1>4, <1>6, <1>10
        <4>3. Count(g) = frames[k].next
          BY <3>1, <3>4, <4>1, <1>1, <1>4, <1>6, <1>10 DEF Counted, Taken
        <4>4. Taken(k)' = frames[k].next
          BY <3>4, <4>1, <1>6 DEF Taken
        <4>. QED  BY <3>2, <4>2, <4>3, <4>4, <1>8
      <3>5. CASE k = n + 1
        <4>1. Count(g)' = Count(f) /\ g = f
          BY <3>1, <3>5, <1>5, <1>6, <1>8
        <4>2. Count(f) = 0
          BY <1>18, FS_EmptySet DEF Count
        <4>3. Taken(k)' = 0
          BY <3>5, <1>4, <1>6 DEF Taken
        <4>. QED  BY <3>2, <4>1, <4>2, <4>3
      <3>. QED  BY <3>3, <3>4, <3>5, <1>11
    <2>2. ASSUME NEW g \in Elements(loaded) PROVE Count(g)' = Len(imports[g])
      BY <1>4, <1>5, <1>8, <1>10 DEF Counted
    <2>3. ASSUME NEW g \in Files, g \notin DOMAIN states, g # Entry
          PROVE  EdgesOf(g, Len(edges))' = {}
      BY <2>3, <1>5, <1>8, <1>10 DEF Counted
    <2>. QED  BY <2>1, <2>2, <2>3, <1>2, <1>6, <1>7 DEF Counted, Elements
  <1>21. Recorded'
    <2>1. Unread = 0 /\ Unread' = 1 /\ Top' = [file |-> f, next |-> 0]
      <3>1. Unread = 0
        BY <1>4 DEF Unread
      <3>2. Top' = [file |-> f, next |-> 0]
        BY <1>6 DEF Top
      <3>. QED  BY <3>1, <3>2, <1>6 DEF Unread
    <2>2. /\ \A i \in 0..m : Loads(i)' = Loads(i)
          /\ Loads(m + 1)' = Loads(m) \cup {m + 1}
          /\ Cardinality(Loads(m + 1)') = Cardinality(Loads(m)) + 1
      BY <1>1, <1>2, <1>4, <1>5, LoadsAdded
    <2>3. Loads(Len(edges))' = Loads(m + 1)' /\ Loads(Len(edges)) = Loads(m)
      BY <1>1, <1>9 DEF Loads
    <2>4. Len(modules) \in Nat /\ Cardinality(Loads(m)) = Len(modules)
      <3>1. Cardinality(Loads(m)) = Len(modules) + 0 /\ modules \in Seq(Files)
        BY <2>1, <2>3, <1>4, <1>10 DEF Recorded, Types
      <3>2. Len(modules) \in Nat
        BY <3>1
      <3>. QED  BY <3>1, <3>2
    <2>5. Cardinality(Loads(Len(edges)))' = Len(modules) + Unread'
      BY <2>1, <2>2, <2>3, <2>4
    <2>6. ASSUME NEW i \in Loads(m)
          PROVE  /\ Cardinality(Loads(i)') <= Len(modules)
                 /\ modules[Cardinality(Loads(i)')] = edges'[i].to
      <3>1. i \in 1..m /\ i \in 0..m
        BY <1>9 DEF Loads
      <3>2. Cardinality(Loads(i)) <= Cardinality(Loads(m))
        BY <1>9, LoadsNumbered
      <3>. QED  BY <3>1, <3>2, <2>2, <2>3, <2>4, <1>9, <1>10 DEF Recorded
    <2>7. /\ ~(Cardinality(Loads(m + 1)') <= Len(modules))
          /\ edges'[m + 1].to = Top'.file
      BY <2>1, <2>2, <2>4, <1>5, <1>9
    <2>8. ASSUME NEW i \in Loads(Len(edges))'
          PROVE  IF Cardinality(Loads(i)') <= Len(modules)
                 THEN modules[Cardinality(Loads(i)')] = edges'[i].to
                 ELSE edges'[i].to = Top'.file
      BY <2>2, <2>3, <2>6, <2>7
    <2>9. Elements(modules)' \subseteq DOMAIN states'
      BY <1>2, <1>7, <1>10 DEF Recorded, Elements
    <2>. QED  BY <2>5, <2>8, <2>9, <1>2 DEF Recorded
  <1>22. Built'
    BY <1>8, <1>13, <1>15, <1>16, <1>17, <1>19, <1>20, <1>21 DEF Built
  <1>. QED  BY <1>8, <1>12, <1>22 DEF IInv

-----------------------------------------------------------------------------
\* No edge is added: the edges still say what is so.
LEMMA ToldStill ==
  ASSUME Told, UNCHANGED edges, Elements(loaded) \subseteq Elements(loaded)'
  PROVE  Told'
  <1>1. ASSUME NEW g, NEW f, BroughtIn(g, f) PROVE BroughtIn(g, f)'
    BY <1>1 DEF BroughtIn
  <1>2. ASSUME NEW i \in DOMAIN edges, Apart(i) PROVE Apart(i)'
    BY <1>2 DEF Apart, Leads
  <1>3. ASSUME NEW i \in DOMAIN edges, BroughtIn(edges[i].to, edges[i].from)
        PROVE  BroughtIn(edges[i].to, edges[i].from)'
    BY <1>3 DEF BroughtIn
  <1>. QED  BY <1>2, <1>3 DEF Told

LEMMA ReadKeeps ==
  ASSUME IInv, Read
  PROVE  IInv'
  <1>1. PICK n, m : n = Len(frames) /\ m = Len(edges)
    OBVIOUS
  <1>2. /\ frames # <<>> /\ ~thrown /\ Top.next = 0
        /\ frames' = Onward(frames)
        /\ modules' = Append(modules, Top.file)
        /\ UNCHANGED <<imports, states, edges, thrown, loaded>>
    BY DEF Read
  <1>3. /\ Built /\ Types /\ Told
        /\ frames \in Seq(FrameSet) /\ n \in Nat \ {0} /\ n \in Depth /\ Depth = 1..n
        /\ Top = frames[n] /\ Top.file \in Files
        /\ imports[Top.file] \in Seq(Specs)
        /\ edges \in Seq(EdgeSet) /\ m \in Nat
        /\ Top.file \in DOMAIN states \cup {Entry}
    BY <1>1, <1>2, Working DEF Depth, Top, IInv
  <1>4. /\ frames' \in Seq(FrameSet) /\ Len(frames') = n
        /\ \A k \in 1..(n - 1) : frames'[k] = frames[k]
        /\ frames'[n] = [file |-> Top.file, next |-> 1]
    <2>1. /\ frames' \in Seq(FrameSet) /\ Len(frames') = n
          /\ \A k \in 1..(n - 1) : frames'[k] = frames[k]
          /\ frames'[n] = [file |-> Top.file, next |-> Top.next + 1]
      BY <1>1, <1>2, <1>3, OnwardIs
    <2>. QED  BY <2>1, <1>2
  <1>5. /\ Called' /\ Past' /\ frames' # <<>>
        /\ Depth' = 1..n
        /\ \A k \in 1..n : frames'[k].file = frames[k].file
        /\ Within' = {frames[k].file : k \in 2..n}
    <2>1. 0 \notin DOMAIN imports[Top.file] /\ 0 <= Len(imports[Top.file])
      BY <1>3
    <2>2. frames'[n] = [file |-> frames[n].file, next |-> frames[n].next + 1]
      BY <1>2, <1>3, <1>4
    <2>. QED  BY <2>1, <2>2, <1>2, <1>3, <1>4, GoOn
  <1>6. /\ Called /\ Marked /\ Known /\ Brought /\ Inner /\ Numbered /\ Counted /\ Recorded
    BY <1>3 DEF Built
  <1>7. Top.file \in DOMAIN states
    <2>1. 1 \in Depth /\ n # 1
      BY <1>2, <1>3, <1>6 DEF Called
    <2>. QED  BY <2>1, <1>2, <1>3, <1>6 DEF Called
  <1>8. modules \in Seq(Files) /\ Len(modules) \in Nat
    <2>1. modules \in Seq(Files)
      BY <1>3 DEF Types
    <2>. QED  BY <2>1
  <1>9. /\ modules' \in Seq(Files) /\ Len(modules') = Len(modules) + 1
        /\ modules'[Len(modules) + 1] = Top.file
        /\ \A i \in 1..Len(modules) : modules'[i] = modules[i]
        /\ DOMAIN modules' = (1..Len(modules)) \cup {Len(modules) + 1}
    BY <1>2, <1>3, <1>8
  <1>10. Types'
    BY <1>2, <1>3, <1>4, <1>9 DEF Types
  <1>11. Told'
    <2>1. Elements(loaded) = Elements(loaded)'
      BY <1>2 DEF Elements
    <2>. QED  BY <2>1, <1>2, <1>3, ToldStill
  <1>12. Marked' /\ Known'
    <2>1. UNCHANGED <<Within, Elements(loaded)>>
      BY <1>1, <1>2, <1>5 DEF Within, Elements
    <2>. QED  BY <2>1, <1>2, <1>6 DEF Marked, Known
  <1>13. Brought'
    <2>1. ASSUME NEW k \in 1..n, NEW l \in 1..n, k <= l
          PROVE  BroughtIn(frames[k].file, frames[l].file)'
      <3>1. BroughtIn(frames[k].file, frames[l].file)
        BY <2>1, <1>3, <1>6 DEF Brought
      <3>. QED  BY <3>1, <1>2, <1>5 DEF BroughtIn
    <2>. QED  BY <2>1, <1>5 DEF Brought
  <1>14. Inner'
    <2>1. ASSUME NEW k \in 1..n, NEW i \in DOMAIN edges,
                 edges[i].action = "load", edges[i].from = frames'[k].file
          PROVE  \/ edges[i].to \in Elements(loaded)
                 \/ k < n /\ edges[i].to = frames'[k + 1].file
      <3>1. edges[i].to \in Elements(loaded) \/ (k < n /\ edges[i].to = frames[k + 1].file)
        BY <2>1, <1>1, <1>3, <1>5, <1>6 DEF Inner
      <3>2. k < n => k + 1 \in 1..n
        BY <1>3
      <3>. QED  BY <3>1, <3>2, <1>5
    <2>. QED  BY <2>1, <1>2, <1>4, <1>5, <1>6 DEF Inner, Leads, Elements
  <1>15. Numbered'
    BY <1>2, <1>6 DEF Numbered, EdgesOf
  <1>16. \A f : EdgesOf(f, Len(edges))' = EdgesOf(f, Len(edges)) /\ Count(f)' = Count(f)
    BY <1>2 DEF EdgesOf, Count
  <1>17. Counted'
    <2>1. ASSUME NEW k \in 1..n PROVE Count(frames[k].file)' = Taken(k)'
      <3>1. Count(frames[k].file)' = Taken(k)
        <4>1. Count(frames[k].file) = Taken(k)
          BY <1>3, <1>6 DEF Counted
        <4>2. frames'[k].file = frames[k].file
          BY <1>5
        <4>. QED  BY <4>1, <4>2, <1>2 DEF Count, EdgesOf
      <3>2. Taken(k)' = Taken(k)
        <4>1. k = n \/ (k \in 1..(n - 1) /\ k < n)
          BY <1>3
        <4>2. CASE k = n
          BY <4>2, <1>1, <1>2, <1>3, <1>4 DEF Taken
        <4>3. CASE k \in 1..(n - 1) /\ k < n
          BY <4>3, <1>1, <1>4 DEF Taken
        <4>. QED  BY <4>1, <4>2, <4>3
      <3>. QED  BY <3>1, <3>2
    <2>2. /\ \A f \in Elements(loaded) : Count(f)' = Len(imports[f])
          /\ \A f \in Files : f \notin DOMAIN states /\ f # Entry => EdgesOf(f, Len(edges))' = {}
      BY <1>6, <1>16 DEF Counted
    <2>. QED  BY <2>1, <2>2, <1>2, <1>5 DEF Counted, Elements
  <1>18. Recorded'
    <2>1. Unread = 1 /\ Unread' = 0
      BY <1>2, <1>4 DEF Unread, Top
    <2>2. \A i : Loads(i)' = Loads(i)
      BY <1>2 DEF Loads
    <2>3. Cardinality(Loads(m)) = Len(modules) + 1
      BY <2>1, <1>1, <1>6 DEF Recorded
    <2>4. Cardinality(Loads(Len(edges)))' = Len(modules') + Unread'
      BY <2>1, <2>2, <2>3, <1>1, <1>2, <1>8, <1>9
    <2>5. ASSUME NEW i \in Loads(m)
          PROVE  /\ Cardinality(Loads(i)) <= Len(modules')
                 /\ modules'[Cardinality(Loads(i))] = edges[i].to
      <3>1. PICK c : c = Cardinality(Loads(i))
        OBVIOUS
      <3>2. c \in Nat \ {0} /\ c <= Len(modules) + 1
        BY <3>1, <2>3, <1>3, LoadsNumbered
      <3>3. IF c <= Len(modules) THEN modules[c] = edges[i].to ELSE edges[i].to = Top.file
        BY <3>1, <1>1, <1>6 DEF Recorded
      <3>4. CASE c <= Len(modules)
        <4>1. c \in 1..Len(modules)
          BY <3>2, <3>4, <1>8
        <4>. QED  BY <3>1, <3>2, <3>3, <3>4, <4>1, <1>9
      <3>5. CASE ~(c <= Len(modules))
        <4>1. c = Len(modules) + 1
          BY <3>2, <3>5, <1>8
        <4>. QED  BY <3>1, <3>2, <3>3, <3>5, <4>1, <1>9
      <3>. QED  BY <3>4, <3>5
    <2>6. Elements(modules)' \subseteq DOMAIN states
      <3>1. \A i \in 1..Len(modules) : modules[i] \in DOMAIN states
        BY <1>6, <1>8 DEF Recorded, Elements
      <3>. QED  BY <3>1, <1>7, <1>9 DEF Elements
    <2>. QED  BY <2>2, <2>4, <2>5, <2>6, <1>1, <1>2 DEF Recorded
  <1>19. Built'
    BY <1>5, <1>12, <1>13, <1>14, <1>15, <1>17, <1>18 DEF Built
  <1>. QED  BY <1>10, <1>11, <1>19 DEF IInv

LEMMA LeaveKeeps ==
  ASSUME IInv, Leave
  PROVE  IInv'
  <1>1. PICK n, m, t : n = Len(frames) - 1 /\ m = Len(edges) /\ t = Top.file
    OBVIOUS
  <1>2. /\ AtEnd /\ Top.next # 0 /\ Len(frames) > 1
        /\ frames # <<>> /\ ~thrown /\ Top.next \notin DOMAIN imports[Top.file]
        /\ states' = With(t, "loaded")
        /\ loaded' = Append(loaded, t)
        /\ frames' = Onward(SubSeq(frames, 1, Len(frames) - 1))
        /\ UNCHANGED <<imports, edges, modules, thrown>>
    BY <1>1 DEF Leave, AtEnd, Returned
  <1>3. /\ Built /\ Types /\ Told
        /\ frames \in Seq(FrameSet)
        /\ imports \in [Files -> Seq(Specs)]
        /\ \A k \in Depth : frames[k] \in FrameSet
        /\ Top.file \in Files /\ Top.next \in Nat
        /\ imports[Top.file] \in Seq(Specs)
        /\ edges \in Seq(EdgeSet) /\ m \in Nat /\ DOMAIN edges = 1..m
        /\ loaded \in Seq(Files \ {Entry})
        /\ Top.file \in DOMAIN states \cup {Entry}
        /\ t \notin Elements(loaded) /\ t = Top.file
    BY <1>1, <1>2, Working DEF IInv
  <1>4. /\ frames' \in Seq(FrameSet) /\ Len(frames') = n
        /\ n \in Nat \ {0} /\ n + 1 = Len(frames)
        /\ \A k \in 1..(n - 1) : frames'[k] = frames[k]
        /\ frames'[n] = [file |-> frames[n].file, next |-> frames[n].next + 1]
    BY <1>1, <1>2, <1>3, ReturnOnwardIs
  <1>5. /\ Called /\ Marked /\ Known /\ Brought /\ Inner /\ Numbered /\ Counted /\ Recorded
    BY <1>3 DEF Built
  <1>6. /\ Depth = 1..(n + 1) /\ n \in Depth /\ n + 1 \in Depth /\ 1 \in Depth /\ Top = frames[n + 1]
        /\ n \in 1..(Len(frames) - 1)
    BY <1>4 DEF Depth, Top
  <1>7. t # Entry /\ t \in DOMAIN states /\ t \in Files
    <2>1. n + 1 # 1
      BY <1>4
    <2>. QED  BY <2>1, <1>2, <1>3, <1>5, <1>6 DEF Called
  <1>8. /\ frames[n].next \in DOMAIN imports[frames[n].file]
        /\ imports[frames[n].file][frames[n].next].of = t
    BY <1>3, <1>5, <1>6, <1>4 DEF Called
  <1>9. frames[n].next \in Nat \ {0} /\ frames[n].next <= Len(imports[frames[n].file])
    <2>1. imports[frames[n].file] \in Seq(Specs)
      BY <1>3, <1>6 DEF FrameSet
    <2>. QED  BY <2>1, <1>8
  <1>10. DOMAIN states' = DOMAIN states
    BY <1>2, <1>7 DEF With
  <1>11. /\ Called' /\ Past' /\ frames' # <<>>
         /\ Depth' = 1..n
         /\ \A k \in 1..n : frames'[k].file = frames[k].file /\ k \in Depth
         /\ Within' = {frames[k].file : k \in 2..n}
    BY <1>2, <1>4, <1>6, <1>7, <1>8, <1>9, <1>10, GoOn
  <1>12. loaded' \in Seq(Files \ {Entry}) /\ Elements(loaded)' = Elements(loaded) \cup {t}
    <2>1. t \in Files \ {Entry}
      BY <1>7
    <2>. QED  BY <2>1, <1>2, <1>3, AppendIs
  <1>13. Types'
    BY <1>2, <1>3, <1>4, <1>12 DEF Types
  <1>14. Told'
    BY <1>2, <1>3, <1>12, ToldStill
  <1>15. Within = Within' \cup {t} /\ t \notin Within'
    <2>1. 2..(n + 1) = (2..n) \cup {n + 1} /\ \A k \in 2..n : k \in 1..n /\ k # n + 1
      BY <1>4
    <2>2. Within = {frames[k].file : k \in 2..(n + 1)}
      BY <1>4 DEF Within
    <2>3. t = frames[n + 1].file
      BY <1>3, <1>6
    <2>4. \A k \in 2..n : frames[k].file # t
      BY <2>1, <2>3, <1>5, <1>6, <1>11 DEF Called
    <2>. QED  BY <2>1, <2>2, <2>3, <2>4, <1>11
  <1>16. Marked' /\ Known'
    <2>1. DOMAIN states = Within \cup Elements(loaded)
      BY <1>5 DEF Marked
    <2>2. Within' \cap Elements(loaded)' = {}
      BY <1>5, <1>12, <1>15 DEF Marked
    <2>3. states' = [f \in Within' \cup Elements(loaded)' |-> IF f \in Within' THEN "active" ELSE "loaded"]
      BY <2>1, <1>2, <1>3, <1>5, <1>12, <1>15 DEF Marked, With
    <2>. QED  BY <2>2, <2>3, <1>2, <1>5, <1>10 DEF Marked, Known
  <1>17. Brought'
    <2>1. ASSUME NEW k \in 1..n, NEW l \in 1..n, k <= l
          PROVE  BroughtIn(frames[k].file, frames[l].file)'
      <3>1. BroughtIn(frames[k].file, frames[l].file)
        BY <2>1, <1>5, <1>11 DEF Brought
      <3>. QED  BY <3>1, <1>2, <1>11 DEF BroughtIn
    <2>. QED  BY <2>1, <1>11 DEF Brought
  <1>18. Inner'
    <2>1. ASSUME NEW i \in DOMAIN edges, edges[i].action = "load", edges[i].from \in Elements(loaded)'
          PROVE  edges[i].to \in Elements(loaded)'
      <3>1. CASE edges[i].from \in Elements(loaded)
        BY <3>1, <2>1, <1>5, <1>12 DEF Inner, Leads
      <3>2. CASE edges[i].from = t
        <4>1. edges[i].from = frames[n + 1].file /\ ~(n + 1 < Len(frames))
          BY <3>2, <1>3, <1>4, <1>6
        <4>. QED  BY <4>1, <2>1, <1>5, <1>6, <1>12 DEF Inner
      <3>. QED  BY <3>1, <3>2, <2>1, <1>12
    <2>2. ASSUME NEW k \in 1..n, NEW i \in DOMAIN edges,
                 edges[i].action = "load", edges[i].from = frames'[k].file
          PROVE  \/ edges[i].to \in Elements(loaded)'
                 \/ k < n /\ edges[i].to = frames'[k + 1].file
      <3>1. edges[i].to \in Elements(loaded) \/ edges[i].to = frames[k + 1].file
        BY <2>2, <1>5, <1>11 DEF Inner
      <3>2. CASE k = n
        BY <3>1, <3>2, <1>3, <1>6, <1>12
      <3>3. CASE k # n
        <4>1. k < n /\ k + 1 \in 1..n
          BY <3>3, <1>4
        <4>. QED  BY <3>1, <4>1, <1>11, <1>12
      <3>. QED  BY <3>2, <3>3
    <2>. QED  BY <2>1, <2>2, <1>2, <1>4, <1>11 DEF Inner, Leads
  <1>19. Numbered'
    BY <1>2, <1>5 DEF Numbered, EdgesOf
  <1>20. \A f : EdgesOf(f, Len(edges))' = EdgesOf(f, Len(edges)) /\ Count(f)' = Count(f)
    BY <1>2 DEF EdgesOf, Count
  <1>21. Counted'
    <2>1. ASSUME NEW k \in 1..n PROVE Count(frames[k].file)' = Taken(k)'
      <3>1. k < n + 1
        BY <1>4
      <3>2. Count(frames[k].file) = frames[k].next
        BY <3>1, <1>4, <1>5, <1>11 DEF Counted, Taken
      <3>3. Count(frames[k].file)' = frames[k].next
        BY <3>2, <1>2, <1>11 DEF Count, EdgesOf
      <3>4. Taken(k)' = frames[k].next
        <4>1. k = n \/ (k \in 1..(n - 1) /\ k < n)
          BY <1>4
        <4>2. CASE k = n
          BY <4>2, <1>4, <1>9 DEF Taken
        <4>3. CASE k \in 1..(n - 1) /\ k < n
          BY <4>3, <1>4 DEF Taken
        <4>. QED  BY <4>1, <4>2, <4>3
      <3>. QED  BY <3>3, <3>4
    <2>2. ASSUME NEW f \in Elements(loaded)' PROVE Count(f)' = Len(imports[f])
      <3>1. CASE f \in Elements(loaded)
        BY <3>1, <1>5, <1>20 DEF Counted
      <3>2. CASE f = t
        <4>1. Count(t) = Top.next - 1
          BY <1>2, <1>3, <1>4, <1>5, <1>6 DEF Counted, Taken
        <4>2. Top.next <= Len(imports[Top.file]) + 1
          BY <1>5, <1>6 DEF Called
        <4>3. Top.next - 1 = Len(imports[Top.file])
          <5>1. /\ Len(imports[Top.file]) \in Nat
                /\ Top.next \notin 1..Len(imports[Top.file])
            BY <1>2, <1>3
          <5>. QED  BY <4>2, <5>1, <1>2, <1>3
        <4>. QED  BY <3>2, <4>1, <4>3, <1>3, <1>20
      <3>. QED  BY <3>1, <3>2, <1>12
    <2>3. \A f \in Files : f \notin DOMAIN states /\ f # Entry => EdgesOf(f, Len(edges))' = {}
      BY <1>5, <1>20 DEF Counted
    <2>. QED  BY <2>1, <2>2, <2>3, <1>2, <1>10, <1>11 DEF Counted
  <1>22. Recorded'
    <2>1. Unread = 0 /\ Unread' = 0
      <3>1. Unread = 0
        BY <1>2 DEF Unread
      <3>2. frames[n].next + 1 # 0
        BY <1>9
      <3>. QED  BY <3>1, <3>2, <1>4 DEF Unread, Top
    <2>2. \A i : Loads(i)' = Loads(i)
      BY <1>2 DEF Loads
    <2>3. modules \in Seq(Files) /\ Len(modules) \in Nat
      <3>1. modules \in Seq(Files)
        BY <1>3 DEF Types
      <3>. QED  BY <3>1
    <2>4. Cardinality(Loads(m)) = Len(modules)
      BY <2>1, <2>3, <1>1, <1>5 DEF Recorded
    <2>5. ASSUME NEW i \in Loads(m)
          PROVE  /\ Cardinality(Loads(i)) <= Len(modules)
                 /\ modules[Cardinality(Loads(i))] = edges[i].to
      <3>1. Cardinality(Loads(i)) <= Len(modules)
        BY <2>4, <1>3, LoadsNumbered
      <3>. QED  BY <3>1, <1>1, <1>5 DEF Recorded
    <2>6. Elements(modules)' \subseteq DOMAIN states'
      BY <1>2, <1>5, <1>10 DEF Recorded, Elements
    <2>. QED  BY <2>1, <2>2, <2>3, <2>4, <2>5, <2>6, <1>1, <1>2 DEF Recorded
  <1>23. Built'
    BY <1>11, <1>16, <1>17, <1>18, <1>19, <1>21, <1>22 DEF Built
  <1>. QED  BY <1>13, <1>14, <1>23 DEF IInv

\* The construction ends, well when nothing was thrown.
LEMMA EndKeeps ==
  ASSUME IInv, End
  PROVE  IInv'
  <1>1. /\ Len(frames) = 1 /\ frames' = <<>>
        /\ UNCHANGED <<imports, states, edges, modules, thrown, loaded>>
        /\ Types /\ Told
    BY DEF End, IInv
  <1>2. frames' \in Seq(FrameSet) /\ Len(frames') = 0 /\ Depth' = {} /\ Within' = {}
    <2>1. frames' \in Seq(FrameSet) /\ Len(frames') = 0 /\ 1..0 = {} /\ 2..0 = {}
      BY <1>1
    <2>. QED  BY <2>1, Zenon DEF Depth, Within
  <1>3. Types'
    BY <1>1, <1>2 DEF Types
  <1>4. Told'
    BY <1>1, ToldStill DEF Elements
  <1>5. ASSUME ~thrown PROVE Built'
    <2>1. frames # <<>>
      BY <1>1, EmptySeq
    <2>2. AtEnd
      BY <1>5, <2>1 DEF End
    <2>3. /\ Built /\ Top = frames[1] /\ Depth = 1..1
          /\ Top.next \in Nat /\ imports[Top.file] \in Seq(Specs)
          /\ Top.next \notin DOMAIN imports[Top.file]
      BY <1>1, <1>5, <2>1, <2>2, Working DEF AtEnd, Top, Depth
    <2>4. /\ Called /\ Marked /\ Known /\ Inner /\ Numbered /\ Counted /\ Recorded
      BY <2>3 DEF Built
    <2>5. Top.file = Entry /\ Top.next # 0 /\ Within = {}
      <3>1. 2..1 = {}
        OBVIOUS
      <3>2. Within = {}
        BY <3>1, <1>1 DEF Within
      <3>. QED  BY <3>2, <2>1, <2>3, <2>4 DEF Called
    <2>6. Called' /\ Past' /\ Brought'
      <3>1. 1..(0 - 1) = {}
        OBVIOUS
      <3>. QED  BY <3>1, <1>1, <1>2 DEF Called, Past, Brought
    <2>7. Marked' /\ Known' /\ Inner' /\ Numbered'
      <3>1. UNCHANGED Elements(loaded)
        BY <1>1 DEF Elements
      <3>2. Inner'
        BY <3>1, <1>1, <1>2, <2>4 DEF Inner, Leads
      <3>3. Numbered'
        BY <1>1, <2>4 DEF Numbered, EdgesOf
      <3>. QED  BY <3>1, <3>2, <3>3, <1>1, <1>2, <2>4, <2>5 DEF Marked, Known
    <2>8. Counted'
      <3>1. \A f : EdgesOf(f, Len(edges))' = EdgesOf(f, Len(edges)) /\ Count(f)' = Count(f)
        BY <1>1 DEF EdgesOf, Count
      <3>2. Count(Entry) = Len(imports[Entry])
        <4>1. 1 \in Depth /\ ~(1 < Len(frames))
          BY <1>1, <2>3
        <4>2. Count(Entry) = Top.next - 1
          BY <4>1, <2>3, <2>4, <2>5 DEF Counted, Taken
        <4>3. Top.next <= Len(imports[Entry]) + 1
          BY <4>1, <2>3, <2>4, <2>5 DEF Called
        <4>4. /\ Len(imports[Entry]) \in Nat
              /\ Top.next \notin 1..Len(imports[Entry])
          BY <2>3, <2>5
        <4>. QED  BY <4>2, <4>3, <4>4, <2>3, <2>5
      <3>. QED  BY <3>1, <3>2, <1>1, <1>2, <2>4 DEF Counted, Elements
    <2>9. Recorded'
      <3>1. Unread = 0 /\ Unread' = 0
        BY <1>1, <2>5 DEF Unread
      <3>2. \A i : Loads(i)' = Loads(i)
        BY <1>1 DEF Loads
      <3>3. modules \in Seq(Files) /\ Len(modules) \in Nat
        <4>1. modules \in Seq(Files)
          BY <1>1 DEF Types
        <4>. QED  BY <4>1
      <3>4. Len(edges) \in Nat
        <4>1. edges \in Seq(EdgeSet)
          BY <1>1 DEF Types
        <4>. QED  BY <4>1
      <3>5. Cardinality(Loads(Len(edges))) = Len(modules)
        BY <3>1, <3>3, <2>4 DEF Recorded
      <3>6. ASSUME NEW i \in Loads(Len(edges))
            PROVE  /\ Cardinality(Loads(i)) <= Len(modules)
                   /\ modules[Cardinality(Loads(i))] = edges[i].to
        <4>1. Cardinality(Loads(i)) <= Len(modules)
          BY <3>4, <3>5, LoadsNumbered
        <4>. QED  BY <4>1, <2>4 DEF Recorded
      <3>7. Elements(modules)' \subseteq DOMAIN states'
        BY <1>1, <2>4 DEF Recorded, Elements
      <3>. QED  BY <3>1, <3>2, <3>3, <3>5, <3>6, <3>7, <1>1 DEF Recorded
    <2>. QED  BY <2>6, <2>7, <2>8, <2>9 DEF Built
  <1>. QED  BY <1>1, <1>3, <1>4, <1>5 DEF IInv

\* Once something is thrown, nothing more is recorded.
LEMMA FailKeeps ==
  ASSUME IInv, Throw \/ Rollback
  PROVE  IInv'
  <1>1. /\ Types /\ Told
        /\ UNCHANGED <<imports, edges, modules, loaded>> /\ thrown' = TRUE
    BY DEF IInv, Throw, Rollback, Types
  <1>2. frames' \in Seq(FrameSet)
    <2>1. frames \in Seq(FrameSet)
      BY <1>1 DEF Types
    <2>2. CASE Throw
      BY <2>1, <2>2 DEF Throw
    <2>3. CASE Rollback
      BY <2>1, <2>3, ReturnIs DEF Rollback, Returned
    <2>. QED  BY <2>2, <2>3
  <1>3. Types'
    BY <1>1, <1>2 DEF Types
  <1>4. Told'
    BY <1>1, ToldStill DEF Elements
  <1>. QED  BY <1>1, <1>3, <1>4 DEF IInv

LEMMA StutterKeeps ==
  ASSUME IInv, UNCHANGED vars
  PROVE  IInv'
  <1>1. UNCHANGED <<imports, frames, states, edges, modules, thrown, loaded>>
    BY DEF vars
  <1>2. Types' /\ (Told => Told')
    BY <1>1, ToldStill DEF IInv, Types, Elements
  <1>3. Built => Built'
    <2>. SUFFICES ASSUME Built PROVE Built'
      OBVIOUS
    <2>1. Called' /\ Past' /\ Known'
      BY <1>1 DEF Built, Called, Past, Known, Depth
    <2>2. UNCHANGED <<Within, Elements(loaded)>>
      BY <1>1 DEF Within, Elements
    <2>3. Marked'
      BY <1>1, <2>2 DEF Built, Marked
    <2>4. Brought' /\ Inner'
      BY <1>1 DEF Built, Brought, Inner, Leads, BroughtIn, Depth, Elements
    <2>5. Numbered'
      BY <1>1 DEF Built, Numbered, EdgesOf
    <2>6. Counted'
      <3>1. \A f : EdgesOf(f, Len(edges))' = EdgesOf(f, Len(edges)) /\ Count(f)' = Count(f)
        BY <1>1 DEF EdgesOf, Count
      <3>2. Counted
        BY DEF Built
      <3>3. ASSUME NEW k \in Depth PROVE Count(frames[k].file)' = Taken(k)'
        BY <1>1, <3>2 DEF Counted, Count, EdgesOf, Taken
      <3>4. Depth' = Depth
        BY <1>1 DEF Depth
      <3>. QED  BY <3>1, <3>2, <3>3, <3>4, <1>1, <2>2 DEF Counted
    <2>7. Recorded'
      BY <1>1 DEF Built, Recorded, Loads, Unread, Top, Elements
    <2>. QED  BY <2>1, <2>3, <2>4, <2>5, <2>6, <2>7 DEF Built
  <1>. QED  BY <1>1, <1>2, <1>3 DEF IInv

LEMMA InitInv ==
  ASSUME Init
  PROVE  IInv
  <1>1. /\ imports \in Sources /\ frames = <<Loop>> /\ states = [f \in {} |-> "loaded"]
        /\ edges = <<>> /\ modules = <<>> /\ thrown = FALSE /\ loaded = <<>>
    BY DEF Init
  <1>2. /\ Loop \in FrameSet /\ Loop.file = Entry /\ Loop.next = 1
        /\ imports \in [Files -> Seq(Specs)] /\ Entry \in Files
    BY <1>1, GraphAssumption DEF Loop, FrameSet
  <1>3. /\ frames \in Seq(FrameSet) /\ Len(frames) = 1 /\ frames[1] = Loop /\ frames # <<>>
    BY <1>1, <1>2
  <1>4. /\ edges \in Seq(EdgeSet) /\ modules \in Seq(Files) /\ loaded \in Seq(Files \ {Entry})
        /\ Len(edges) = 0 /\ Len(modules) = 0 /\ DOMAIN edges = {} /\ DOMAIN loaded = {} /\ DOMAIN modules = {}
    BY <1>1
  <1>5. Types
    BY <1>1, <1>3, <1>4 DEF Types
  <1>6. Told
    BY <1>4 DEF Told
  <1>7. Depth = {1} /\ Within = {} /\ Elements(loaded) = {} /\ Elements(modules) = {}
    <2>1. 1..1 = {1} /\ 2..1 = {}
      OBVIOUS
    <2>. QED  BY <2>1, <1>3, <1>4 DEF Depth, Within, Elements
  <1>8. imports[Entry] \in Seq(Specs) /\ Len(imports[Entry]) \in Nat
    <2>1. imports[Entry] \in Seq(Specs)
      BY <1>2
    <2>. QED  BY <2>1
  <1>9. Called /\ Past
    <2>1. 1..(1 - 1) = {} /\ \A j \in DOMAIN imports[Entry] : ~(j < 1)
      BY <1>8
    <2>. QED  BY <2>1, <1>2, <1>3, <1>7, <1>8 DEF Called, Past
  <1>10. Marked /\ Known
    BY <1>1, <1>4, <1>7 DEF Marked, Known
  <1>11. Brought /\ Inner /\ Numbered
    BY <1>4, <1>7, BroughtSelf DEF Brought, Inner, Leads, Numbered
  <1>12. Counted
    <2>1. \A f : EdgesOf(f, Len(edges)) = {}
      BY <1>4 DEF EdgesOf
    <2>2. \A f : Count(f) = 0
      BY <2>1, FS_EmptySet DEF Count
    <2>3. Taken(1) = 0
      BY <1>2, <1>3 DEF Taken
    <2>. QED  BY <2>1, <2>2, <2>3, <1>3, <1>7 DEF Counted
  <1>13. Recorded
    <2>1. Loads(Len(edges)) = {}
      BY <1>4 DEF Loads
    <2>2. Unread = 0
      BY <1>2, <1>3 DEF Unread, Top
    <2>. QED  BY <2>1, <2>2, <1>4, <1>7, FS_EmptySet DEF Recorded
  <1>. QED  BY <1>5, <1>6, <1>9, <1>10, <1>11, <1>12, <1>13 DEF IInv, Built

LEMMA NextInv == IInv /\ [Next]_vars => IInv'
  <1>. SUFFICES ASSUME IInv, [Next]_vars PROVE IInv'
    OBVIOUS
  <1>1. CASE Skip
    BY <1>1, SkipKeeps
  <1>2. CASE Visit
    BY <1>2, VisitKeeps
  <1>3. CASE Read
    BY <1>3, ReadKeeps
  <1>4. CASE Leave
    BY <1>4, LeaveKeeps
  <1>5. CASE Throw \/ Rollback
    BY <1>5, FailKeeps
  <1>6. CASE End
    BY <1>6, EndKeeps
  <1>7. CASE UNCHANGED vars
    BY <1>7, StutterKeeps
  <1>. QED  BY <1>1, <1>2, <1>3, <1>4, <1>5, <1>6, <1>7 DEF Next

-----------------------------------------------------------------------------
LEMMA InvEdgesTell ==
  ASSUME IInv
  PROVE  EdgesTell
  <1>1. Told /\ edges \in Seq(EdgeSet)
    BY DEF IInv, Types
  <1>2. \A i \in DOMAIN edges : edges[i].action \in Actions
    <2>1. \A i \in DOMAIN edges : edges[i] \in EdgeSet
      BY <1>1
    <2>. QED  BY <2>1 DEF EdgeSet
  <1>3. Elements(loaded) \subseteq Files
    <2>1. loaded \in Seq(Files \ {Entry})
      BY DEF IInv, Types
    <2>. QED  BY <2>1 DEF Elements
  <1>4. ASSUME NEW i \in DOMAIN edges, edges[i].action = "duplicate"
        PROVE  ~BroughtIn(edges[i].to, edges[i].from)
    <2>1. PICK S \in SUBSET Elements(loaded) :
            edges[i].to \in S /\ edges[i].from \notin S /\ Leads(S)
      BY <1>1, <1>4 DEF Told, Apart
    <2>. QED  BY <2>1, <1>3 DEF BroughtIn, Leads
  <1>. QED  BY <1>1, <1>2, <1>4 DEF EdgesTell, Told, Actions

LEMMA InvComplete ==
  ASSUME IInv
  PROVE  Complete
  <1>. SUFFICES ASSUME frames = <<>>, ~thrown
                PROVE  /\ \A f \in Elements(modules) \cup {Entry} :
                            /\ Count(f) = Len(imports[f])
                            /\ \A i \in EdgesOf(f, Len(edges)) :
                                 imports[f][Cardinality(EdgesOf(f, i))]
                                   = [of |-> edges[i].to, as |-> edges[i].as]
                       /\ Cardinality(Loads(Len(edges))) = Len(modules)
                       /\ \A i \in Loads(Len(edges)) : modules[Cardinality(Loads(i))] = edges[i].to
    BY DEF Complete, Count
  <1>1. /\ Marked /\ Numbered /\ Counted /\ Recorded /\ edges \in Seq(EdgeSet) /\ modules \in Seq(Files)
    BY DEF IInv, Types, Built
  <1>2. Len(edges) \in Nat /\ DOMAIN edges = 1..Len(edges) /\ Len(modules) \in Nat
    BY <1>1
  <1>3. DOMAIN states = Elements(loaded)
    <2>1. 2..Len(<<>>) = {}
      OBVIOUS
    <2>. QED  BY <2>1, <1>1 DEF Marked, Within
  <1>4. ASSUME NEW f \in Elements(modules) \cup {Entry}
        PROVE  /\ Count(f) = Len(imports[f])
               /\ \A i \in EdgesOf(f, Len(edges)) :
                    imports[f][Cardinality(EdgesOf(f, i))] = [of |-> edges[i].to, as |-> edges[i].as]
    <2>1. Count(f) = Len(imports[f])
      BY <1>1, <1>3 DEF Recorded, Counted
    <2>2. \A i \in EdgesOf(f, Len(edges)) : i \in DOMAIN edges /\ edges[i].from = f
      BY <1>2 DEF EdgesOf
    <2>. QED  BY <2>1, <2>2, <1>1 DEF Numbered
  <1>5. Cardinality(Loads(Len(edges))) = Len(modules)
    <2>1. Unread = 0
      BY DEF Unread
    <2>. QED  BY <2>1, <1>1, <1>2 DEF Recorded
  <1>6. ASSUME NEW i \in Loads(Len(edges)) PROVE modules[Cardinality(Loads(i))] = edges[i].to
    <2>1. Cardinality(Loads(i)) <= Len(modules)
      BY <1>2, <1>5, LoadsNumbered
    <2>. QED  BY <2>1, <1>1 DEF Recorded
  <1>. QED  BY <1>4, <1>5, <1>6

\* Whatever the files import, an edge says what its import did: it loaded the
\* file if none before it was to that file, and it closed a circle exactly if
\* its target brought the importer in.
THEOREM EdgesTellWhatHappened == Spec => []EdgesTell
  <1>. QED  BY InitInv, NextInv, InvEdgesTell, PTL DEF Spec

\* When build returns, the graph has every import of every module in the order
\* of the source, and the modules in the order they were loaded.
THEOREM GraphIsComplete == Spec => []Complete
  <1>. QED  BY InitInv, NextInv, InvComplete, PTL DEF Spec

-----------------------------------------------------------------------------
\* The files that are open, from the call stack.
Inside(stack) == [k \in 1..(Len(stack) - 1) |-> stack[k + 1].file]

LEMMA InsideIs ==
  ASSUME NEW stack \in Seq(FrameSet), stack # <<>>
  PROVE  /\ Inside(stack) \in Seq(Files)
         /\ Len(Inside(stack)) = Len(stack) - 1
         /\ DOMAIN Inside(stack) = 1..(Len(stack) - 1)
         /\ \A k \in 1..(Len(stack) - 1) : Inside(stack)[k] = stack[k + 1].file
  <1>1. Len(stack) \in Nat \ {0} /\ \A k \in 1..Len(stack) : stack[k] \in FrameSet
    BY StackIs
  <1>2. \A k \in 1..(Len(stack) - 1) : stack[k + 1].file \in Files
    BY <1>1 DEF FrameSet
  <1>3. Inside(stack) \in [1..(Len(stack) - 1) -> Files]
    BY <1>2 DEF Inside
  <1>4. Inside(stack) \in Seq(Files)
    BY <1>1, <1>3, SeqDef
  <1>. QED  BY <1>1, <1>3, <1>4, LenProperties DEF Inside

LEMMA InsideNone ==
  ASSUME NEW stack, Len(stack) = 0 \/ Len(stack) = 1
  PROVE  Inside(stack) = <<>>
  <1>1. 1..(0 - 1) = {} /\ 1..(1 - 1) = {}
    OBVIOUS
  <1>. QED  BY <1>1 DEF Inside

\* the same files are open
LEMMA InsideSame ==
  ASSUME NEW stack \in Seq(FrameSet), stack # <<>>, NEW on \in Seq(FrameSet),
         Len(on) = Len(stack), \A k \in 1..Len(stack) : on[k].file = stack[k].file
  PROVE  Inside(on) = Inside(stack)
  <1>1. \A k \in 1..(Len(stack) - 1) : k + 1 \in 1..Len(stack)
    BY StackIs
  <1>. QED  BY <1>1 DEF Inside

\* a call is made
LEMMA InsideCall ==
  ASSUME NEW stack \in Seq(FrameSet), stack # <<>>, NEW f \in Files,
         NEW called \in Seq(FrameSet), called # <<>>, Len(called) = Len(stack) + 1,
         \A k \in 1..Len(stack) : called[k] = stack[k],
         called[Len(stack) + 1].file = f
  PROVE  Inside(called) = Append(Inside(stack), f)
  <1>0. Len(stack) \in Nat \ {0}
    BY StackIs
  <1>1. /\ Inside(called) \in Seq(Files) /\ Len(Inside(called)) = Len(stack)
        /\ \A k \in 1..Len(stack) : Inside(called)[k] = called[k + 1].file
    <2>1. /\ Inside(called) \in Seq(Files) /\ Len(Inside(called)) = Len(called) - 1
          /\ \A k \in 1..(Len(called) - 1) : Inside(called)[k] = called[k + 1].file
      BY InsideIs
    <2>2. Len(called) - 1 = Len(stack)
      BY <1>0
    <2>. QED  BY <2>1, <2>2
  <1>2. /\ Inside(stack) \in Seq(Files) /\ Len(Inside(stack)) = Len(stack) - 1
        /\ \A k \in 1..(Len(stack) - 1) : Inside(stack)[k] = stack[k + 1].file
    BY InsideIs
  <1>3. /\ Append(Inside(stack), f) \in Seq(Files)
        /\ Len(Append(Inside(stack), f)) = Len(stack)
        /\ Append(Inside(stack), f)[Len(stack)] = f
        /\ \A k \in 1..(Len(stack) - 1) : Append(Inside(stack), f)[k] = Inside(stack)[k]
    BY <1>0, <1>2, AppendProperties
  <1>4. ASSUME NEW k \in 1..Len(stack) PROVE Inside(called)[k] = Append(Inside(stack), f)[k]
    <2>1. CASE k = Len(stack)
      BY <2>1, <1>1, <1>3
    <2>2. CASE k # Len(stack)
      <3>1. k \in 1..(Len(stack) - 1) /\ k + 1 \in 1..Len(stack)
        BY <2>2, <1>0
      <3>. QED  BY <3>1, <1>1, <1>2, <1>3
    <2>. QED  BY <2>1, <2>2
  <1>. QED  BY <1>1, <1>3, <1>4, SeqEqual

\* a call returns
LEMMA InsideReturn ==
  ASSUME NEW stack \in Seq(FrameSet), Len(stack) > 1,
         NEW left \in Seq(FrameSet), left # <<>>, Len(left) = Len(stack) - 1,
         \A k \in 1..(Len(stack) - 1) : left[k].file = stack[k].file
  PROVE  /\ Inside(stack) # <<>>
         /\ Inside(left) = SubSeq(Inside(stack), 1, Len(Inside(stack)) - 1)
  <1>. DEFINE n == Len(stack) - 1
              front == SubSeq(Inside(stack), 1, Len(Inside(stack)) - 1)
  <1>0. n \in Nat \ {0} /\ n + 1 = Len(stack) /\ stack # <<>>
    BY ReturnIs, EmptySeq
  <1>1. /\ Inside(left) \in Seq(Files) /\ Len(Inside(left)) = n - 1
        /\ \A k \in 1..(n - 1) : Inside(left)[k] = left[k + 1].file
    BY InsideIs
  <1>2. /\ Inside(stack) \in Seq(Files) /\ Len(Inside(stack)) = n
        /\ \A k \in 1..n : Inside(stack)[k] = stack[k + 1].file
    BY <1>0, InsideIs
  <1>. HIDE DEF n
  <1>3. /\ front \in Seq(Files) /\ Len(front) = n - 1
        /\ \A k \in 1..(n - 1) : front[k] = Inside(stack)[k]
    BY <1>0, <1>2
  <1>4. ASSUME NEW k \in 1..(n - 1) PROVE Inside(left)[k] = front[k]
    <2>1. k \in 1..n /\ k + 1 \in 1..n
      BY <1>0
    <2>2. left[k + 1].file = stack[k + 1].file
      BY <2>1 DEF n
    <2>. QED  BY <2>1, <2>2, <1>1, <1>2, <1>3
  <1>. HIDE DEF front
  <1>5. Inside(left) = front
    BY <1>1, <1>3, <1>4, SeqEqual
  <1>6. Inside(stack) # <<>>
    BY <1>0, <1>2, EmptySeq
  <1>. QED  BY <1>5, <1>6 DEF front

LEMMA OpenIs == Open = Inside(frames)
  BY DEF Open, Inside

\* What visit looks like to the walk.
LEMMA View ==
  ASSUME IInv, frames # <<>>, ~thrown
  PROVE  /\ Walk!Importer = Top.file
         /\ Elements(Open) = Within
         /\ DOMAIN states = Elements(Open) \cup Elements(loaded)
         /\ Walk!ImportsOf(Top.file) = {imports[Top.file][j].of : j \in DOMAIN imports[Top.file]}
  <1>. DEFINE n == Len(frames)
  <1>1. /\ frames \in Seq(FrameSet) /\ n \in Nat \ {0}
        /\ Called /\ Marked /\ Top.file \in Files
    BY Working DEF Built
  <1>2. /\ Open \in Seq(Files) /\ Len(Open) = n - 1
        /\ DOMAIN Open = 1..(n - 1)
        /\ \A k \in 1..(n - 1) : Open[k] = frames[k + 1].file
    BY <1>1, InsideIs, OpenIs
  <1>. HIDE DEF n
  <1>3. Walk!Importer = Top.file
    <2>1. CASE n = 1
      <3>1. Open = <<>>
        BY <2>1, <1>2, EmptySeq
      <3>2. Top.file = Entry
        BY <2>1, <1>1 DEF Called, Top, n
      <3>. QED  BY <3>1, <3>2 DEF Walk!Importer
    <2>2. CASE n # 1
      <3>1. Len(Open) \in 1..(n - 1) /\ Len(Open) + 1 = n /\ Len(Open) # 0
        BY <2>2, <1>1, <1>2
      <3>2. Open # <<>>
        BY <3>1, EmptySeq
      <3>3. Open[Len(Open)] = Top.file
        BY <3>1, <1>2 DEF Top, n
      <3>. QED  BY <3>2, <3>3 DEF Walk!Importer
    <2>. QED  BY <2>1, <2>2
  <1>4. Elements(Open) = Within
    <2>1. \A f \in Elements(Open) : f \in Within
      <3>1. \A k \in 1..(n - 1) : k + 1 \in 2..n
        BY <1>1
      <3>. QED  BY <3>1, <1>2 DEF Elements, Within, n
    <2>2. \A f \in Within : f \in Elements(Open)
      <3>. SUFFICES ASSUME NEW k \in 2..n PROVE frames[k].file \in Elements(Open)
        BY DEF Within, n
      <3>1. k - 1 \in 1..(n - 1) /\ (k - 1) + 1 = k
        BY <1>1
      <3>2. Open[k - 1] = frames[k].file
        BY <3>1, <1>2
      <3>. QED  BY <3>1, <3>2, <1>2 DEF Elements
    <2>. QED  BY <2>1, <2>2
  <1>5. DOMAIN states = Elements(Open) \cup Elements(loaded)
    BY <1>1, <1>4 DEF Marked
  <1>6. Walk!ImportsOf(Top.file) = {imports[Top.file][j].of : j \in DOMAIN imports[Top.file]}
    <2>1. Named(imports)[Top.file] = [j \in DOMAIN imports[Top.file] |-> imports[Top.file][j].of]
      BY <1>1 DEF Named
    <2>. QED  BY <2>1 DEF Walk!ImportsOf, Walk!Elements
  <1>. QED  BY <1>3, <1>4, <1>5, <1>6

LEMMA SameElements == \A s : Walk!Elements(s) = Elements(s)
  BY DEF Elements, Walk!Elements

-----------------------------------------------------------------------------
LEMMA SkipStutters ==
  ASSUME IInv, Skip \/ Read
  PROVE  UNCHANGED Walk!vars
  <1>1. /\ frames # <<>> /\ frames' = Onward(frames)
        /\ UNCHANGED <<imports, loaded, thrown>> /\ frames \in Seq(FrameSet)
    BY DEF Skip, Read, AtImport, IInv, Types
  <1>2. /\ Onward(frames) \in Seq(FrameSet) /\ Len(Onward(frames)) = Len(frames)
        /\ \A k \in 1..(Len(frames) - 1) : Onward(frames)[k] = frames[k]
        /\ Onward(frames)[Len(frames)].file = frames[Len(frames)].file
        /\ Len(frames) \in Nat
    <2>1. PICK n : n = Len(frames)
      OBVIOUS
    <2>2. /\ Onward(frames) \in Seq(FrameSet) /\ Len(Onward(frames)) = n
          /\ \A k \in 1..(n - 1) : Onward(frames)[k] = frames[k]
          /\ Onward(frames)[n] = [file |-> frames[n].file, next |-> frames[n].next + 1]
      BY <2>1, <1>1, OnwardIs
    <2>. QED  BY <2>1, <2>2, <1>1, StackIs
  <1>3. \A k \in 1..Len(frames) : k \in 1..(Len(frames) - 1) \/ k = Len(frames)
    BY <1>2
  <1>4. Inside(Onward(frames)) = Inside(frames)
    BY <1>1, <1>2, <1>3, InsideSame
  <1>5. Open' = Open
    BY <1>1, <1>4 DEF Open, Inside
  <1>. QED  BY <1>1, <1>5 DEF Walk!vars, Named

LEMMA VisitEnters ==
  ASSUME IInv, Visit
  PROVE  \E f \in Files : Walk!Enter(f)
  <1>1. PICK f : f = Stated.of
    OBVIOUS
  <1>2. /\ AtImport /\ f \notin DOMAIN states /\ frames' = Append(frames, Frame(f))
        /\ UNCHANGED <<imports, loaded, thrown>>
    BY <1>1 DEF Visit
  <1>3. /\ frames # <<>> /\ ~thrown /\ f \in Files /\ frames \in Seq(FrameSet)
        /\ Top.next \in DOMAIN imports[Top.file]
    BY <1>1, <1>2, ImportIs, Working
  <1>4. Open' = Append(Open, f)
    <2>1. PICK called : called = Append(frames, Frame(f))
      OBVIOUS
    <2>2. /\ called \in Seq(FrameSet) /\ called # <<>> /\ Len(called) = Len(frames) + 1
          /\ called[Len(frames) + 1] = [file |-> f, next |-> 0]
          /\ \A k \in 1..Len(frames) : called[k] = frames[k]
      BY <2>1, <1>3, CallIs
    <2>3. Inside(called) = Append(Inside(frames), f)
      BY <2>2, <1>3, InsideCall
    <2>. QED  BY <2>1, <2>3, <1>2 DEF Open, Inside
  <1>5. f \in Walk!ImportsOf(Walk!Importer)
    BY <1>1, <1>3, View DEF Stated
  <1>6. f \notin Walk!Elements(Open) \cup Walk!Elements(loaded)
    BY <1>2, <1>3, View, SameElements
  <1>7. Walk!Enter(f)
    BY <1>2, <1>3, <1>4, <1>5, <1>6 DEF Walk!Enter, Named
  <1>. QED  BY <1>3, <1>7

LEMMA LeaveLeaves ==
  ASSUME IInv, Leave
  PROVE  Walk!Leave
  <1>1. /\ frames # <<>> /\ ~thrown /\ Len(frames) > 1 /\ Top.next # 0
        /\ Top.next \notin DOMAIN imports[Top.file]
        /\ loaded' = Append(loaded, Top.file)
        /\ frames' = Onward(SubSeq(frames, 1, Len(frames) - 1))
        /\ UNCHANGED <<imports, thrown>>
    BY DEF Leave, AtEnd, Returned
  <1>2. /\ frames \in Seq(FrameSet) /\ Len(frames) \in Nat \ {0} /\ Past
        /\ Top.next \in Nat /\ imports[Top.file] \in Seq(Specs) /\ Called
    BY <1>1, Working DEF Built
  <1>3. /\ Open # <<>> /\ Open' = SubSeq(Open, 1, Len(Open) - 1)
    <2>1. PICK left : left = Onward(SubSeq(frames, 1, Len(frames) - 1))
      OBVIOUS
    <2>2. PICK n : n = Len(frames) - 1
      OBVIOUS
    <2>3. /\ left \in Seq(FrameSet) /\ left # <<>> /\ Len(left) = n
          /\ \A k \in 1..(n - 1) : left[k] = frames[k]
          /\ left[n] = [file |-> frames[n].file, next |-> frames[n].next + 1]
          /\ n \in Nat \ {0}
      BY <2>1, <2>2, <1>1, <1>2, ReturnOnwardIs
    <2>4. \A k \in 1..n : k \in 1..(n - 1) \/ k = n
      BY <2>3
    <2>5. \A k \in 1..n : left[k].file = frames[k].file
      BY <2>3, <2>4
    <2>6. /\ Inside(frames) # <<>>
          /\ Inside(left) = SubSeq(Inside(frames), 1, Len(Inside(frames)) - 1)
      BY <2>2, <2>3, <2>5, <1>1, <1>2, InsideReturn
    <2>. QED  BY <2>1, <2>6, <1>1 DEF Open, Inside
  <1>4. Walk!Closed(Walk!Importer)
    <2>1. Top.next = Len(imports[Top.file]) + 1
      <3>1. Top.next <= Len(imports[Top.file]) + 1
        BY <1>2 DEF Called, Depth, Top
      <3>2. Len(imports[Top.file]) \in Nat /\ Top.next \notin 1..Len(imports[Top.file])
        BY <1>1, <1>2
      <3>. QED  BY <3>1, <3>2, <1>1, <1>2
    <2>2. \A j \in DOMAIN imports[Top.file] : j < Top.next
      BY <2>1, <1>2
    <2>3. \A j \in DOMAIN imports[Top.file] : imports[Top.file][j].of \in DOMAIN states
      BY <2>2, <1>2 DEF Past, Depth, Top
    <2>. QED  BY <2>3, <1>1, View, SameElements DEF Walk!Closed
  <1>5. Walk!Importer = Top.file
    BY <1>1, View
  <1>. QED  BY <1>1, <1>3, <1>4, <1>5 DEF Walk!Leave, Named

LEMMA RollbackGivesUp ==
  ASSUME IInv, Rollback
  PROVE  Walk!GiveUp
  <1>1. /\ thrown /\ Len(frames) > 1 /\ frames \in Seq(FrameSet)
        /\ frames' = SubSeq(frames, 1, Len(frames) - 1)
        /\ UNCHANGED <<imports, thrown, loaded>>
    BY DEF Rollback, Returned, IInv, Types
  <1>2. PICK left : left = SubSeq(frames, 1, Len(frames) - 1)
    OBVIOUS
  <1>3. /\ left \in Seq(FrameSet) /\ left # <<>> /\ Len(left) = Len(frames) - 1
        /\ \A k \in 1..(Len(frames) - 1) : left[k] = frames[k]
    BY <1>1, <1>2, ReturnIs
  <1>4. /\ Inside(frames) # <<>>
        /\ Inside(left) = SubSeq(Inside(frames), 1, Len(Inside(frames)) - 1)
    BY <1>1, <1>3, InsideReturn
  <1>5. Open # <<>> /\ Open' = SubSeq(Open, 1, Len(Open) - 1)
    BY <1>1, <1>2, <1>4 DEF Open, Inside
  <1>. QED  BY <1>1, <1>5 DEF Walk!GiveUp, Named

LEMMA EndStutters ==
  ASSUME End
  PROVE  UNCHANGED Walk!vars
  <1>1. /\ Len(frames) = 1 /\ Len(frames') = 0 /\ UNCHANGED <<imports, loaded, thrown>>
    BY DEF End
  <1>2. Inside(frames) = <<>>
    BY <1>1, InsideNone
  <1>3. PICK after : after = frames'
    OBVIOUS
  <1>4. Inside(after) = <<>>
    BY <1>1, <1>3, InsideNone
  <1>5. Open' = Open
    BY <1>2, <1>3, <1>4 DEF Open, Inside
  <1>. QED  BY <1>1, <1>5 DEF Walk!vars, Named

LEMMA WalkInit == Init => Walk!Init
  <1>. SUFFICES ASSUME Init PROVE Walk!Init
    OBVIOUS
  <1>1. imports \in Sources /\ Len(frames) = 1 /\ loaded = <<>> /\ thrown = FALSE
    BY DEF Init
  <1>2. Open = <<>>
    BY <1>1, InsideNone, OpenIs
  <1>. QED  BY <1>1, <1>2 DEF Walk!Init

LEMMA WalkNext == IInv /\ [Next]_vars => [Walk!Next]_(Walk!vars)
  <1>. SUFFICES ASSUME IInv, [Next]_vars PROVE [Walk!Next]_(Walk!vars)
    OBVIOUS
  <1>1. CASE Skip \/ Read
    BY <1>1, SkipStutters
  <1>2. CASE Visit
    BY <1>2, VisitEnters DEF Walk!Next
  <1>3. CASE Leave
    BY <1>3, LeaveLeaves DEF Walk!Next
  <1>4. CASE Throw
    <2>1. Walk!Fail
      BY <1>4 DEF Throw, Walk!Fail, Named, Open
    <2>. QED  BY <2>1 DEF Walk!Next
  <1>5. CASE Rollback
    BY <1>5, RollbackGivesUp DEF Walk!Next
  <1>6. CASE End
    BY <1>6, EndStutters
  <1>7. CASE UNCHANGED vars
    BY <1>7 DEF vars, Walk!vars, Named, Open
  <1>. QED  BY <1>1, <1>2, <1>3, <1>4, <1>5, <1>6, <1>7 DEF Next

\* visit walks over the imports as ImportWalk promises: it enters no file
\* twice, leaves a file after what it imports, and gives everything up that is
\* open when something is thrown.
THEOREM GraphImplementsWalk == Spec => ImplementsWalk
  <1>. QED  BY InitInv, NextInv, WalkInit, WalkNext, PTL DEF Spec, ImplementsWalk, Walk!Spec

-----------------------------------------------------------------------------
\* the walk's own proofs, for the walk of visit
WalkProofs == INSTANCE ImportWalkProofs WITH
                Sources <- {Named(src) : src \in Sources}, imports <- Named(imports),
                open <- Open, done <- loaded, failed <- thrown
WalkInv == WalkProofs!IInv

LEMMA WalkInitInv == Init => WalkInv
  <1>1. Walk!Init => WalkProofs!Init
    BY DEF Walk!Init, WalkProofs!Init
  <1>. QED  BY <1>1, WalkInit, WalkProofs!InitInv DEF WalkInv

LEMMA WalkStep == WalkInv /\ [Walk!Next]_(Walk!vars) => WalkInv'
  <1>1. [Walk!Next]_(Walk!vars) => [WalkProofs!Next]_(WalkProofs!vars)
    BY DEF Walk!Next, WalkProofs!Next, Walk!vars, WalkProofs!vars,
           Walk!Enter, WalkProofs!Enter, Walk!Leave, WalkProofs!Leave,
           Walk!Fail, WalkProofs!Fail, Walk!GiveUp, WalkProofs!GiveUp,
           Walk!Forget, WalkProofs!Forget, Walk!Restart, WalkProofs!Restart,
           Walk!Importer, WalkProofs!Importer, Walk!Closed, WalkProofs!Closed,
           Walk!ImportsOf, WalkProofs!ImportsOf, Walk!Elements, WalkProofs!Elements
  <1>2. WalkInv /\ [WalkProofs!Next]_(WalkProofs!vars) => WalkInv'
    BY WalkProofs!NextInv DEF WalkInv
  <1>. QED  BY <1>1, <1>2

\* visit marks a file loaded after all that it imports, unless the two are on
\* a circle of imports, and each file once.
THEOREM LoadedImportsFirst == Spec => [](Walk!DependencyFirst /\ Walk!OnceEach)
  <1>1. WalkInv => Walk!DependencyFirst /\ Walk!OnceEach
    BY DEF WalkInv, WalkProofs!IInv, Walk!DependencyFirst, Walk!OnceEach,
           WalkProofs!DependencyFirst, WalkProofs!OnceEach, Walk!Reaches, WalkProofs!Reaches,
           Walk!ImportsOf, WalkProofs!ImportsOf, Walk!Elements, WalkProofs!Elements
  <1>. QED  BY <1>1, InitInv, NextInv, WalkInitInv, WalkNext, WalkStep, PTL DEF Spec

-----------------------------------------------------------------------------
(* The places of a set of them, by how many come before *)

\* A set of numbers that has a member has a least one.
LEMMA LeastOne ==
  ASSUME NEW T, T \subseteq Nat, T # {}
  PROVE  \E n \in T : \A k \in T : n <= k
  <1>1. PICK n \in T : \A k \in T : ~ (<<k, n>> \in OpToRel(<, Nat))
    BY NatLessThanWellFounded, WFMin, Zenon
  <1>2. \A k \in T : ~(k < n)
    BY <1>1 DEF OpToRel
  <1>. QED  BY <1>2

Rank(P, i) == Cardinality({j \in P : j <= i})

LEMMA RankIs ==
  ASSUME NEW n \in Nat, NEW P \in SUBSET (1..n)
  PROVE  /\ IsFiniteSet(P) /\ Cardinality(P) \in Nat
         /\ \A i : Rank(P, i) \in Nat /\ Rank(P, i) <= Cardinality(P)
  <1>1. IsFiniteSet(1..n)
    BY FS_Interval
  <1>2. IsFiniteSet(P)
    BY <1>1, FS_Subset
  <1>3. ASSUME NEW i PROVE Rank(P, i) \in Nat /\ Rank(P, i) <= Cardinality(P)
    <2>1. {j \in P : j <= i} \in SUBSET P
      OBVIOUS
    <2>. QED  BY <1>2, <2>1, FS_Subset, FS_CardinalityType DEF Rank
  <1>. QED  BY <1>2, <1>3, FS_CardinalityType

\* a place that comes later has more of them up to it
LEMMA RanksGrow ==
  ASSUME NEW n \in Nat, NEW P \in SUBSET (1..n), NEW i \in P, NEW j \in P, i < j
  PROVE  Rank(P, i) < Rank(P, j)
  <1>. DEFINE A == {k \in P : k <= i}
              B == {k \in P : k <= j}
  <1>1. P \subseteq Nat /\ i \in Nat /\ j \in Nat
    OBVIOUS
  <1>2. A \in SUBSET B /\ j \in B /\ j \notin A
    <2>1. ASSUME NEW k \in Nat, k <= i PROVE k <= j
      BY <1>1, <2>1
    <2>2. j <= j /\ ~(j <= i)
      BY <1>1
    <2>. QED  BY <1>1, <2>1, <2>2
  <1>3. IsFiniteSet(B)
    <2>1. B \in SUBSET P
      OBVIOUS
    <2>. QED  BY <2>1, RankIs, FS_Subset
  <1>4. Cardinality(A) <= Cardinality(B) /\ Cardinality(A) # Cardinality(B)
    BY <1>2, <1>3, FS_Subset
  <1>5. Cardinality(A) \in Nat /\ Cardinality(B) \in Nat
    BY RankIs DEF Rank
  <1>. QED  BY <1>4, <1>5 DEF Rank

LEMMA RanksDiffer ==
  ASSUME NEW n \in Nat, NEW P \in SUBSET (1..n), NEW i \in P, NEW j \in P,
         Rank(P, i) = Rank(P, j)
  PROVE  i = j
  <1>1. i \in Nat /\ j \in Nat
    OBVIOUS
  <1>2. Rank(P, i) \in Nat
    BY RankIs
  <1>3. i < j => Rank(P, i) < Rank(P, j)
    BY RanksGrow
  <1>4. j < i => Rank(P, j) < Rank(P, i)
    BY RanksGrow
  <1>. QED  BY <1>1, <1>2, <1>3, <1>4

LEMMA RankRange ==
  ASSUME NEW n \in Nat, NEW P \in SUBSET (1..n), NEW i \in P
  PROVE  Rank(P, i) \in 1..Cardinality(P)
  <1>1. i \in {j \in P : j <= i}
    OBVIOUS
  <1>2. IsFiniteSet({j \in P : j <= i})
    <2>1. {j \in P : j <= i} \in SUBSET P
      OBVIOUS
    <2>. QED  BY <2>1, RankIs, FS_Subset
  <1>3. Rank(P, i) # 0
    BY <1>1, <1>2, FS_EmptySet DEF Rank
  <1>4. Rank(P, i) \in Nat /\ Rank(P, i) <= Cardinality(P) /\ Cardinality(P) \in Nat
    BY RankIs
  <1>. QED  BY <1>3, <1>4

\* Place finds the place of each rank, and each place by its rank.
LEMMA PlaceIs ==
  ASSUME NEW n \in Nat, NEW P \in SUBSET (1..n), NEW k \in 1..Cardinality(P)
  PROVE  Place(P, k) \in P /\ Rank(P, Place(P, k)) = k
  <1>. DEFINE m == Cardinality(P)
              r == [i \in P |-> Rank(P, i)]
  <1>1. m \in Nat /\ IsFiniteSet(P)
    BY RankIs
  <1>2. IsFiniteSet(1..m) /\ Cardinality(1..m) = m
    <2>. HIDE DEF m
    <2>. QED  BY <1>1, FS_Interval
  <1>3. r \in Injection(P, 1..m)
    <2>1. r \in [P -> 1..m]
      BY RankRange
    <2>2. \A i, j \in P : r[i] = r[j] => i = j
      BY RanksDiffer
    <2>. QED  BY <2>1, <2>2 DEF Injection, IsInjective
  <1>4. r \in Surjection(P, 1..m)
    <2>. HIDE DEF r, m
    <2>1. m = Cardinality(P)
      BY DEF m
    <2>. QED  BY <1>2, <1>3, <2>1, FS_Injection
  <1>5. PICK i \in P : r[i] = k
    BY <1>4 DEF Surjection
  <1>6. \E j \in P : Rank(P, j) = k
    BY <1>5
  <1>. QED  BY <1>6 DEF Place, Rank

LEMMA PlaceOf ==
  ASSUME NEW n \in Nat, NEW P \in SUBSET (1..n), NEW i \in P
  PROVE  Place(P, Rank(P, i)) = i
  <1>1. Rank(P, i) \in 1..Cardinality(P)
    BY RankRange
  <1>2. /\ Place(P, Rank(P, i)) \in P
        /\ Rank(P, Place(P, Rank(P, i))) = Rank(P, i)
    BY <1>1, PlaceIs
  <1>. QED  BY <1>2, RanksDiffer

\* All places of a sequence are where they are.
LEMMA PlaceAmongAll ==
  ASSUME NEW n \in Nat
  PROVE  Cardinality(1..n) = n /\ \A k \in 1..n : Place(1..n, k) = k
  <1>1. Cardinality(1..n) = n
    BY FS_Interval
  <1>2. ASSUME NEW k \in 1..n PROVE Place(1..n, k) = k
    <2>1. {j \in 1..n : j <= k} = 1..k
      OBVIOUS
    <2>2. Rank(1..n, k) = Cardinality(1..k)
      BY <2>1 DEF Rank
    <2>3. Cardinality(1..k) = k
      BY FS_Interval
    <2>4. Place(1..n, Rank(1..n, k)) = k
      BY PlaceOf
    <2>. QED  BY <2>2, <2>3, <2>4
  <1>. QED  BY <1>1, <1>2

-----------------------------------------------------------------------------
(* What is picked *)

\* Leaving out repetitions leaves out no element.
LEMMA FirstsHasAll ==
  ASSUME NEW n \in Nat, NEW s, DOMAIN s = 1..n
  PROVE  Elements(Firsts(s)) = Elements(s)
  <1>. DEFINE P == {i \in DOMAIN s : \A j \in 1..(i - 1) : s[j] # s[i]}
  <1>1. P \in SUBSET (1..n)
    OBVIOUS
  <1>2. Firsts(s) = [k \in 1..Cardinality(P) |-> s[Place(P, k)]]
    BY DEF Firsts, Picked
  <1>3. ASSUME NEW k \in 1..Cardinality(P) PROVE Place(P, k) \in DOMAIN s
    <2>. HIDE DEF P
    <2>. QED  BY <1>1, PlaceIs
  <1>4. ASSUME NEW i \in DOMAIN s
        PROVE  \E k \in 1..Cardinality(P) : s[Place(P, k)] = s[i]
    <2>. DEFINE T == {j \in 1..n : s[j] = s[i]}
    <2>1. T \subseteq Nat /\ T # {}
      OBVIOUS
    <2>2. PICK l \in T : \A j \in T : l <= j
      BY <2>1, LeastOne
    <2>3. ASSUME NEW j \in 1..(l - 1) PROVE s[j] # s[l]
      <3>1. j \in 1..n /\ j < l
        BY <2>2
      <3>2. j \notin T
        BY <3>1, <2>2
      <3>. QED  BY <3>1, <3>2, <2>2
    <2>4. l \in P /\ s[l] = s[i]
      BY <2>2, <2>3
    <2>5. Rank(P, l) \in 1..Cardinality(P) /\ Place(P, Rank(P, l)) = l
      <3>. HIDE DEF P
      <3>. QED  BY <2>4, <1>1, RankRange, PlaceOf
    <2>. QED  BY <2>4, <2>5
  <1>. HIDE DEF P
  <1>5. Elements(Firsts(s)) = {s[Place(P, k)] : k \in 1..Cardinality(P)}
    BY <1>2 DEF Elements
  <1>. QED  BY <1>3, <1>4, <1>5 DEF Elements

\* the edges Environment reads
MinePlaces(es, records, importer) ==
  {i \in DOMAIN es : es[i].from = importer /\ es[i].to \in Elements(records)}
Mine(es, records, importer) == Picked(es, MinePlaces(es, records, importer))

\* The analysis is told by the targets and the aliases of these edges only.
LEMMA ToldByTargets ==
  ASSUME NEW es, NEW fs, NEW rs, NEW qs, NEW f, NEW n \in Nat,
         DOMAIN Mine(es, rs, f) = 1..n, DOMAIN Mine(fs, qs, f) = 1..n,
         \A k \in 1..n : /\ Mine(es, rs, f)[k].to = Mine(fs, qs, f)[k].to
                         /\ Mine(es, rs, f)[k].as = Mine(fs, qs, f)[k].as
  PROVE  Environment(es, rs, f) = Environment(fs, qs, f)
  <1>1. PICK m : m = Mine(es, rs, f)
    OBVIOUS
  <1>2. PICK o : o = Mine(fs, qs, f)
    OBVIOUS
  <1>3. /\ Environment(es, rs, f) = Firsts(FlattenSeq([i \in DOMAIN m |-> NamesOf(m[i])]))
        /\ Environment(fs, qs, f) = Firsts(FlattenSeq([i \in DOMAIN o |-> NamesOf(o[i])]))
    BY <1>1, <1>2 DEF Environment, Mine, MinePlaces
  <1>4. ASSUME NEW i \in 1..n PROVE NamesOf(m[i]) = NamesOf(o[i])
    <2>1. m[i].to = o[i].to /\ m[i].as = o[i].as
      BY <1>1, <1>2
    <2>. QED  BY <2>1 DEF NamesOf
  <1>5. [i \in DOMAIN m |-> NamesOf(m[i])] = [i \in DOMAIN o |-> NamesOf(o[i])]
    BY <1>1, <1>2, <1>4
  <1>. QED  BY <1>3, <1>5

\* In a complete graph the target of each edge is a module.
LEMMA TargetsAreModules ==
  ASSUME IInv, frames = <<>>, ~thrown, NEW i \in DOMAIN edges
  PROVE  edges[i].to \in Elements(modules)
  <1>1. edges \in Seq(EdgeSet) /\ modules \in Seq(Files) /\ Told
    BY DEF IInv, Types
  <1>2. Len(edges) \in Nat /\ DOMAIN edges = 1..Len(edges) /\ DOMAIN modules = 1..Len(modules)
    BY <1>1
  <1>. DEFINE T == {j \in 1..Len(edges) : edges[j].to = edges[i].to}
  <1>3. PICK l \in T : \A j \in T : l <= j
    <2>1. T \subseteq Nat /\ i \in T
      BY <1>2
    <2>. QED  BY <2>1, LeastOne
  <1>4. l \in DOMAIN edges /\ l \in Nat /\ edges[l].to = edges[i].to
    BY <1>2, <1>3
  <1>5. \A j \in 1..(l - 1) : edges[j].to # edges[l].to
    <2>1. ASSUME NEW j \in 1..(l - 1) PROVE j \notin T /\ j \in 1..Len(edges)
      BY <1>2, <1>3
    <2>. QED  BY <2>1, <1>4
  <1>6. l \in Loads(Len(edges))
    BY <1>1, <1>2, <1>4, <1>5 DEF Told, Loads
  <1>7. /\ Cardinality(Loads(Len(edges))) = Len(modules)
        /\ modules[Cardinality(Loads(l))] = edges[l].to
    BY <1>6, InvComplete DEF Complete
  <1>8. /\ Cardinality(Loads(l)) \in Nat \ {0}
        /\ Cardinality(Loads(l)) <= Len(modules)
    BY <1>2, <1>6, <1>7, LoadsNumbered
  <1>9. Cardinality(Loads(l)) \in DOMAIN modules
    <2>1. Len(modules) \in Nat
      BY <1>1
    <2>. QED  BY <1>2, <1>8, <2>1
  <1>. QED  BY <1>4, <1>7, <1>9 DEF Elements

\* What is picked from the whole graph for the entry.
LEMMA WholeMine ==
  ASSUME IInv, frames = <<>>, ~thrown, NEW n \in Nat, n = Len(imports[Entry])
  PROVE  LET m == Mine(edges, modules, Entry)
         IN  /\ DOMAIN m = 1..n
             /\ \A k \in 1..n : m[k].to = imports[Entry][k].of /\ m[k].as = imports[Entry][k].as
  <1>1. PICK P : P = EdgesOf(Entry, Len(edges))
    OBVIOUS
  <1>2. edges \in Seq(EdgeSet)
    BY DEF IInv, Types
  <1>3. Len(edges) \in Nat /\ DOMAIN edges = 1..Len(edges)
    BY <1>2
  <1>4. MinePlaces(edges, modules, Entry) = P
    BY <1>1, <1>3, TargetsAreModules DEF MinePlaces, EdgesOf
  <1>5. /\ Cardinality(P) = n
        /\ \A i \in P : imports[Entry][Cardinality(EdgesOf(Entry, i))]
                          = [of |-> edges[i].to, as |-> edges[i].as]
    BY <1>1, InvComplete DEF Complete
  <1>6. P \in SUBSET (1..Len(edges))
    BY <1>1 DEF EdgesOf
  <1>7. ASSUME NEW i \in P PROVE EdgesOf(Entry, i) = {j \in P : j <= i}
    <2>1. i \in 1..Len(edges)
      BY <1>6
    <2>. QED  BY <2>1, <1>1, <1>3 DEF EdgesOf
  <1>8. Mine(edges, modules, Entry) = [k \in 1..n |-> edges[Place(P, k)]]
    BY <1>4, <1>5 DEF Mine, Picked
  <1>9. ASSUME NEW k \in 1..n
        PROVE  /\ edges[Place(P, k)].to = imports[Entry][k].of
               /\ edges[Place(P, k)].as = imports[Entry][k].as
    <2>1. PICK i : i = Place(P, k)
      OBVIOUS
    <2>2. i \in P /\ Rank(P, i) = k
      BY <2>1, <1>3, <1>5, <1>6, PlaceIs
    <2>3. Cardinality(EdgesOf(Entry, i)) = k
      BY <2>2, <1>7 DEF Rank
    <2>4. imports[Entry][k] = [of |-> edges[i].to, as |-> edges[i].as]
      BY <2>2, <2>3, <1>5
    <2>. QED  BY <2>1, <2>4
  <1>. QED  BY <1>8, <1>9

\* What is picked from the index of direct imports.
LEMMA DirectMine ==
  ASSUME NEW roots, NEW n \in Nat, DOMAIN roots = 1..n
  PROVE  LET m == Mine(DirectEdges(roots), DirectModules(roots), Entry)
         IN  /\ DOMAIN m = 1..n
             /\ \A k \in 1..n : m[k].to = roots[k].of /\ m[k].as = roots[k].as
  <1>1. PICK d : d = DirectEdges(roots)
    OBVIOUS
  <1>2. /\ DOMAIN d = 1..n
        /\ \A k \in 1..n : d[k].from = Entry /\ d[k].to = roots[k].of /\ d[k].as = roots[k].as
    BY <1>1 DEF DirectEdges, DirectEdge
  <1>3. ASSUME NEW k \in 1..n PROVE roots[k].of \in Elements(DirectModules(roots))
    <2>1. PICK s : s = [i \in DOMAIN roots |-> roots[i].of]
      OBVIOUS
    <2>2. Elements(DirectModules(roots)) = Elements(s)
      BY <2>1, FirstsHasAll DEF DirectModules
    <2>. QED  BY <2>1, <2>2 DEF Elements
  <1>4. MinePlaces(d, DirectModules(roots), Entry) = 1..n
    BY <1>2, <1>3 DEF MinePlaces
  <1>5. Mine(d, DirectModules(roots), Entry) = [k \in 1..n |-> d[Place(1..n, k)]]
    BY <1>4, PlaceAmongAll DEF Mine, Picked
  <1>. QED  BY <1>1, <1>2, <1>5, PlaceAmongAll

LEMMA InvSameEnvironment ==
  ASSUME IInv
  PROVE  SameEnvironment
  <1>. SUFFICES ASSUME frames = <<>>, ~thrown
                PROVE  Environment(edges, modules, Entry)
                         = Environment(DirectEdges(imports[Entry]), DirectModules(imports[Entry]), Entry)
    BY DEF SameEnvironment
  <1>1. PICK roots : roots = imports[Entry]
    OBVIOUS
  <1>2. roots \in Seq(Specs)
    BY <1>1, GraphAssumption DEF IInv, Types
  <1>3. PICK n \in Nat : n = Len(roots) /\ DOMAIN roots = 1..n
    BY <1>2
  <1>4. PICK m : m = Mine(edges, modules, Entry)
    OBVIOUS
  <1>5. PICK o : o = Mine(DirectEdges(roots), DirectModules(roots), Entry)
    OBVIOUS
  <1>6. DOMAIN m = 1..n /\ \A k \in 1..n : m[k].to = roots[k].of /\ m[k].as = roots[k].as
    BY <1>1, <1>3, <1>4, WholeMine
  <1>7. DOMAIN o = 1..n /\ \A k \in 1..n : o[k].to = roots[k].of /\ o[k].as = roots[k].as
    BY <1>3, <1>5, DirectMine
  <1>8. Environment(edges, modules, Entry)
          = Environment(DirectEdges(roots), DirectModules(roots), Entry)
    <2>1. \A k \in 1..n : m[k].to = o[k].to /\ m[k].as = o[k].as
      BY <1>6, <1>7
    <2>. QED  BY <2>1, <1>3, <1>4, <1>5, <1>6, <1>7, ToldByTargets
  <1>. QED  BY <1>1, <1>8

\* Whatever the files import and export, the index that reads the direct imports
\* tells the analysis of the entry what the whole graph does: the same names, in
\* the same order, the same one of two that are equal.
THEOREM IndexesAgree == Spec => []SameEnvironment
  <1>. QED  BY InitInv, NextInv, InvSameEnvironment, PTL DEF Spec
==================================================================================
