---------------------------- MODULE ImportWalkProofs ----------------------------
(***************************************************************************)
(* The walk over the imports is dependency first and enters no file twice, *)
(* for every set of files and whatever they import.                        *)
(***************************************************************************)
EXTENDS ImportWalk, TLAPS

\* The files that are open are a path of imports.
Path == \A k, l \in DOMAIN open : k <= l => Reaches(open[k], open[l])

IInv == TypeOK /\ OnceEach /\ Path /\ DependencyFirst

-----------------------------------------------------------------------------
\* Every file reaches itself, and what reaches an importer reaches the import.
LEMMA ReachesSelf == \A f : Reaches(f, f)
  BY DEF Reaches

LEMMA ReachesOn ==
  ASSUME NEW f, NEW g, NEW h \in Files, Reaches(f, g), h \in ImportsOf(g)
  PROVE  Reaches(f, h)
  BY DEF Reaches

\* The elements of a sequence that grows at its end or is cut there.
LEMMA AppendElements ==
  ASSUME NEW S, NEW s \in Seq(S), NEW x \in S
  PROVE  /\ Append(s, x) \in Seq(S)
         /\ Len(Append(s, x)) = Len(s) + 1
         /\ Append(s, x)[Len(s) + 1] = x
         /\ \A i \in DOMAIN s : Append(s, x)[i] = s[i]
         /\ DOMAIN s = 1..Len(s)
         /\ DOMAIN Append(s, x) = 1..(Len(s) + 1)
         /\ Elements(Append(s, x)) = Elements(s) \cup {x}
  <1>1. /\ Append(s, x) \in Seq(S) /\ Len(Append(s, x)) = Len(s) + 1
        /\ Append(s, x)[Len(s) + 1] = x
        /\ \A i \in DOMAIN s : Append(s, x)[i] = s[i]
        /\ DOMAIN s = 1..Len(s)
        /\ DOMAIN Append(s, x) = 1..(Len(s) + 1)
    OBVIOUS
  <1>2. Len(s) \in Nat
    OBVIOUS
  <1>3. Elements(Append(s, x)) = Elements(s) \cup {x}
    BY <1>1, <1>2 DEF Elements
  <1>. QED  BY <1>1, <1>3

LEMMA FrontElements ==
  ASSUME NEW S, NEW s \in Seq(S), s # <<>>
  PROVE  LET front == SubSeq(s, 1, Len(s) - 1)
         IN  /\ front \in Seq(S)
             /\ Len(s) \in Nat \ {0}
             /\ Len(front) = Len(s) - 1
             /\ DOMAIN s = 1..Len(s)
             /\ DOMAIN front = 1..(Len(s) - 1)
             /\ \A i \in DOMAIN front : front[i] = s[i]
             /\ Elements(s) = Elements(front) \cup {s[Len(s)]}
             /\ s[Len(s)] \in S
  <1>. DEFINE front == SubSeq(s, 1, Len(s) - 1)
  <1>1. Len(s) \in Nat \ {0} /\ DOMAIN s = 1..Len(s) /\ s[Len(s)] \in S
    OBVIOUS
  <1>2. /\ front \in Seq(S)
        /\ Len(front) = Len(s) - 1
        /\ DOMAIN front = 1..(Len(s) - 1)
        /\ \A i \in DOMAIN front : front[i] = s[i]
    BY <1>1
  <1>3. Elements(s) = Elements(front) \cup {s[Len(s)]}
    <2>1. DOMAIN s = DOMAIN front \cup {Len(s)}
      BY <1>1, <1>2
    <2>. QED  BY <2>1, <1>2, Zenon DEF Elements
  <1>. QED  BY <1>1, <1>2, <1>3

-----------------------------------------------------------------------------
LEMMA InitInv == Init => IInv
  <1>. SUFFICES ASSUME Init PROVE IInv
    OBVIOUS
  <1>1. TypeOK
    <2>1. <<>> \in Seq(Files)
      OBVIOUS
    <2>. QED  BY <2>1 DEF Init, TypeOK
  <1>2. OnceEach /\ Path /\ DependencyFirst
    BY DEF Init, OnceEach, Path, DependencyFirst, Elements
  <1>. QED  BY <1>1, <1>2 DEF IInv

\* the facts about one state are about the imports of that state
LEMMA SameImports ==
  ASSUME imports' = imports
  PROVE  \A f, g : /\ Reaches(f, g)' <=> Reaches(f, g)
                   /\ ImportsOf(f)' = ImportsOf(f)
  BY DEF Reaches, ImportsOf, Elements

LEMMA EnterInv ==
  ASSUME IInv, NEW f \in Files, Enter(f)
  PROVE  IInv'
  <1>1. /\ TypeOK /\ OnceEach /\ Path /\ DependencyFirst
        /\ open' = Append(open, f) /\ UNCHANGED <<imports, done, failed>>
        /\ f \in ImportsOf(Importer) /\ f \notin Elements(open) \cup Elements(done)
    BY DEF IInv, Enter
  <1>2. /\ open' \in Seq(Files) /\ Len(open) \in Nat
        /\ open'[Len(open) + 1] = f
        /\ \A i \in DOMAIN open : open'[i] = open[i]
        /\ DOMAIN open = 1..Len(open)
        /\ DOMAIN open' = 1..(Len(open) + 1)
        /\ Elements(open') = Elements(open) \cup {f}
    BY <1>1, AppendElements DEF TypeOK
  <1>3. TypeOK'
    BY <1>1, <1>2 DEF TypeOK
  <1>4. OnceEach'
    <2>1. ASSUME NEW i \in DOMAIN open', NEW j \in DOMAIN open', open'[i] = open'[j]
          PROVE  i = j
      BY <2>1, <1>1, <1>2 DEF OnceEach, Elements
    <2>2. Elements(open') \cap Elements(done') = {}
      BY <1>1, <1>2 DEF OnceEach
    <2>. QED  BY <1>1, <2>1, <2>2 DEF OnceEach, Elements
  <1>5. Path'
    <2>1. ASSUME NEW k \in DOMAIN open', NEW l \in DOMAIN open', k <= l
          PROVE  Reaches(open'[k], open'[l])
      <3>1. CASE l \in DOMAIN open
        BY <2>1, <3>1, <1>1, <1>2 DEF Path
      <3>2. CASE l = Len(open) + 1 /\ k = l
        BY <3>2, ReachesSelf
      <3>3. CASE l = Len(open) + 1 /\ k \in DOMAIN open
        <4>1. Len(open) \in DOMAIN open /\ k <= Len(open) /\ open # <<>>
          BY <3>3, <1>2
        <4>2. Reaches(open[k], open[Len(open)]) /\ f \in ImportsOf(open[Len(open)])
          BY <4>1, <3>3, <1>1 DEF Path, Importer
        <4>3. Reaches(open[k], f)
          BY <4>2, ReachesOn
        <4>. QED  BY <4>3, <3>3, <1>2
      <3>. QED  BY <2>1, <1>2, <3>1, <3>2, <3>3
    <2>. QED  BY <2>1, <1>1, SameImports DEF Path
  <1>6. DependencyFirst'
    BY <1>1, SameImports DEF DependencyFirst
  <1>. QED  BY <1>3, <1>4, <1>5, <1>6 DEF IInv

\* an open file goes, at the end of open
LEMMA ShorterPath ==
  ASSUME IInv, open # <<>>, open' = SubSeq(open, 1, Len(open) - 1), UNCHANGED imports
  PROVE  /\ open' \in Seq(Files)
         /\ \A i, j \in DOMAIN open' : open'[i] = open'[j] => i = j
         /\ Elements(open') = Elements(open) \ {open[Len(open)]}
         /\ Path'
  <1>1. /\ open \in Seq(Files) /\ OnceEach /\ Path
    BY DEF IInv, TypeOK
  <1>2. /\ open' \in Seq(Files) /\ Len(open) \in Nat \ {0}
        /\ DOMAIN open = 1..Len(open)
        /\ DOMAIN open' = 1..(Len(open) - 1)
        /\ \A i \in DOMAIN open' : open'[i] = open[i]
        /\ Elements(open) = Elements(open') \cup {open[Len(open)]}
    BY <1>1, FrontElements
  <1>3. open[Len(open)] \notin Elements(open')
    BY <1>1, <1>2 DEF OnceEach, Elements
  <1>4. \A i, j \in DOMAIN open' : open'[i] = open'[j] => i = j
    BY <1>1, <1>2 DEF OnceEach
  <1>5. Path'
    <2>1. \A k, l \in DOMAIN open' : k <= l => Reaches(open'[k], open'[l])
      BY <1>1, <1>2 DEF Path
    <2>. QED  BY <2>1, SameImports DEF Path
  <1>. QED  BY <1>2, <1>3, <1>4, <1>5

LEMMA LeaveInv ==
  ASSUME IInv, Leave
  PROVE  IInv'
  <1>. DEFINE f == open[Len(open)]
  <1>1. /\ TypeOK /\ OnceEach /\ Path /\ DependencyFirst
        /\ open # <<>> /\ Importer = f /\ Closed(f)
        /\ open' = SubSeq(open, 1, Len(open) - 1)
        /\ done' = Append(done, f) /\ UNCHANGED <<imports, failed>>
    BY DEF IInv, Leave, Importer
  <1>2. /\ open' \in Seq(Files)
        /\ \A i, j \in DOMAIN open' : open'[i] = open'[j] => i = j
        /\ Elements(open') = Elements(open) \ {f}
        /\ Path'
    BY <1>1, ShorterPath
  <1>3. /\ f \in Files /\ Len(open) \in DOMAIN open /\ f \in Elements(open)
        /\ DOMAIN open = 1..Len(open)
    BY <1>1, FrontElements DEF TypeOK, Elements
  <1>4. /\ done' \in Seq(Files) /\ Len(done) \in Nat
        /\ done'[Len(done) + 1] = f
        /\ \A i \in DOMAIN done : done'[i] = done[i]
        /\ DOMAIN done = 1..Len(done)
        /\ DOMAIN done' = 1..(Len(done) + 1)
        /\ Elements(done') = Elements(done) \cup {f}
    BY <1>1, <1>3, AppendElements DEF TypeOK
  <1>5. TypeOK'
    BY <1>1, <1>2, <1>4 DEF TypeOK
  <1>6. OnceEach'
    <2>1. f \notin Elements(done)
      BY <1>1, <1>3 DEF OnceEach
    <2>2. ASSUME NEW i \in DOMAIN done', NEW j \in DOMAIN done', done'[i] = done'[j]
          PROVE  i = j
      BY <2>1, <2>2, <1>1, <1>4 DEF OnceEach, Elements
    <2>3. Elements(open') \cap Elements(done') = {}
      BY <1>1, <1>2, <1>4 DEF OnceEach
    <2>. QED  BY <1>2, <2>2, <2>3 DEF OnceEach, Elements
  <1>7. DependencyFirst'
    <2>1. ASSUME NEW i \in DOMAIN done', NEW g \in ImportsOf(done'[i])
          PROVE  (\E j \in 1..(i - 1) : done'[j] = g) \/ Reaches(g, done'[i])
      <3>1. CASE i \in DOMAIN done
        <4>1. (\E j \in 1..(i - 1) : done[j] = g) \/ Reaches(g, done[i])
          BY <3>1, <1>1, <1>4 DEF DependencyFirst
        <4>2. 1..(i - 1) \subseteq DOMAIN done
          BY <3>1, <1>4
        <4>. QED  BY <3>1, <4>1, <4>2, <1>4
      <3>2. CASE i = Len(done) + 1
        <4>1. g \in Elements(done) \cup Elements(open)
          BY <3>2, <1>1, <1>4 DEF Closed
        <4>2. CASE g \in Elements(done)
          BY <4>2, <3>2, <1>4 DEF Elements
        <4>3. CASE g \in Elements(open)
          <5>1. PICK k \in DOMAIN open : open[k] = g
            BY <4>3 DEF Elements
          <5>2. Reaches(g, f)
            BY <5>1, <1>1, <1>3 DEF Path
          <5>. QED  BY <5>2, <3>2, <1>4
        <4>. QED  BY <4>1, <4>2, <4>3
      <3>. QED  BY <1>4, <3>1, <3>2
    <2>. QED  BY <2>1, <1>1, SameImports DEF DependencyFirst
  <1>. QED  BY <1>2, <1>5, <1>6, <1>7 DEF IInv

LEMMA GiveUpInv ==
  ASSUME IInv, GiveUp
  PROVE  IInv'
  <1>1. /\ TypeOK /\ OnceEach /\ DependencyFirst
        /\ open # <<>> /\ open' = SubSeq(open, 1, Len(open) - 1)
        /\ UNCHANGED <<imports, done, failed>>
    BY DEF IInv, GiveUp
  <1>2. /\ open' \in Seq(Files)
        /\ \A i, j \in DOMAIN open' : open'[i] = open'[j] => i = j
        /\ Elements(open') \subseteq Elements(open)
        /\ Path'
    BY <1>1, ShorterPath
  <1>3. TypeOK'
    BY <1>1, <1>2 DEF TypeOK
  <1>4. OnceEach'
    <2>1. Elements(done') = Elements(done)
      BY <1>1
    <2>2. Elements(open') \cap Elements(done') = {}
      BY <2>1, <1>1, <1>2 DEF OnceEach
    <2>3. \A i, j \in DOMAIN done' : done'[i] = done'[j] => i = j
      BY <1>1 DEF OnceEach
    <2>. QED  BY <1>2, <2>2, <2>3 DEF OnceEach, Elements
  <1>5. DependencyFirst'
    BY <1>1, SameImports DEF DependencyFirst
  <1>. QED  BY <1>2, <1>3, <1>4, <1>5 DEF IInv

LEMMA NextInv == IInv /\ [Next]_vars => IInv'
  <1>. SUFFICES ASSUME IInv, [Next]_vars PROVE IInv'
    OBVIOUS
  <1>1. ASSUME NEW f \in Files, Enter(f) PROVE IInv'
    BY <1>1, EnterInv
  <1>2. CASE Leave
    BY <1>2, LeaveInv
  <1>3. CASE GiveUp
    BY <1>3, GiveUpInv
  <1>4. CASE Fail \/ UNCHANGED vars
    <2>1. /\ TypeOK /\ OnceEach /\ Path /\ DependencyFirst
          /\ UNCHANGED <<imports, open, done>> /\ failed' \in BOOLEAN
      BY <1>4 DEF IInv, Fail, vars, TypeOK
    <2>2. TypeOK' /\ OnceEach'
      BY <2>1 DEF TypeOK, OnceEach, Elements
    <2>3. Path' /\ DependencyFirst'
      BY <2>1, SameImports DEF Path, DependencyFirst
    <2>. QED  BY <2>2, <2>3 DEF IInv
  <1>5. CASE Forget \/ Restart
    <2>1. /\ open' = <<>> /\ done' = <<>> /\ TypeOK'
      BY <1>5 DEF IInv, Forget, Restart, TypeOK
    <2>2. OnceEach' /\ Path' /\ DependencyFirst'
      BY <2>1 DEF OnceEach, Path, DependencyFirst, Elements
    <2>. QED  BY <2>1, <2>2 DEF IInv
  <1>. QED  BY <1>1, <1>2, <1>3, <1>4, <1>5 DEF Next

\* The walk keeps its types.
THEOREM TypeCorrect == Spec => []TypeOK
  <1>. QED  BY InitInv, NextInv, PTL DEF Spec, IInv

\* No file is entered twice.
THEOREM EachOnce == Spec => []OnceEach
  <1>. QED  BY InitInv, NextInv, PTL DEF Spec, IInv

\* What a file imports is left before the file itself, but for circles.
THEOREM ImportsFirst == Spec => []DependencyFirst
  <1>. QED  BY InitInv, NextInv, PTL DEF Spec, IInv
==================================================================================
