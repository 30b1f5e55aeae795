------------------------------ MODULE Collections ------------------------------
(***************************************************************************)
(* Lists, tuples, maps and objects (runtime/value.h, collection.h,          *)
(* object.cpp, the index and object opcodes of vm.cpp and                   *)
(* vm_native_collection_helpers.cpp): cells that variables and other cells  *)
(* hold by handle. A program makes one operation after the other and keeps  *)
(* each result in a variable; a call that reports an error changes nothing. *)
(***************************************************************************)
EXTENDS VppValues, SequencesExt

CONSTANTS Cells,      \* bound: how many collections a program can reach at once
          MaxItems,   \* bound: the length of a list
          Variables,
          Scalars,    \* values the program writes down
          Keys,       \* scalars it uses as keys of maps
          Fields,     \* names of fields
          Order       \* the strings there are, in the order of std::string

StackValues == ({"int", "float"} \X Int) \cup ({"str"} \X Range(Order)) \cup ({"cell"} \X Cells)
               \cup {NullV}

VARIABLES heap,   \* cell -> what is in it
          env     \* variable -> value

vars == <<heap, env>>

FloatV(n) == <<"float", n>>     \* the double n.0
Handle(c) == <<"cell", c>>
IsCell(v) == v[1] = "cell"
IsNumeric(v) == v[1] \in {"int", "float"}

Cell(kind, data) == [kind |-> kind, data |-> data]
Free == Cell("free", <<>>)
Of(h, v, kind) == IsCell(v) /\ h[v[2]].kind = kind
Items(v) == heap[v[2]].data

\* argToRawString, of scalars
KeyOf(v) == CASE IsInt(v) -> ToString(v[2])
              [] v[1] = "float" -> ToString(v[2]) \o ".0"
              [] IsStr(v) -> v[2]

ASSUME CollectionsAssumption ==
  /\ Cells \subseteq Nat /\ IsFiniteSet(Cells)
  /\ Order \in Seq(STRING) /\ IsInjective(Order)
  /\ \A i, j \in DOMAIN Order : i < j <=> Before(Order[i], Order[j])
  /\ Scalars \subseteq StackValues
  /\ \A k \in Keys : KeyOf(k) \in Range(Order)

Indices == 0..(MaxItems - 1)    \* of the source: the first is 0

-----------------------------------------------------------------------------
(* Equality and order *)

\* sameStackValue: numbers by value, handles by identity
Same(v, w) == IF IsNumeric(v) /\ IsNumeric(w) THEN v[2] = w[2] ELSE v = w

\* stackValueLess, of two numbers or two strings
Rank(s) == CHOOSE i \in DOMAIN Order : Order[i] = s
Less(v, w) == IF IsNumeric(v) THEN v[2] < w[2] ELSE Rank(v[2]) < Rank(w[2])

\* isUniformSortableStackValues
Sortable(s) == (\A i \in DOMAIN s : IsNumeric(s[i])) \/ (\A i \in DOMAIN s : IsStr(s[i]))

-----------------------------------------------------------------------------
(* collection.h, and the searches of vm_native_collection_helpers.cpp *)

ContainsValue(s, v) == \E i \in DOMAIN s : Same(s[i], v)

FindIndex(s, v) ==
  IF ContainsValue(s, v) THEN (CHOOSE i \in DOMAIN s : Same(s[i], v) /\ \A j \in 1..(i - 1) : ~Same(s[j], v)) - 1
  ELSE -1

Unique(s) == FoldLeft(LAMBDA kept, v : IF ContainsValue(kept, v) THEN kept ELSE Append(kept, v), <<>>, s)

Disjoint(s, t) == \A i \in DOMAIN s : ~ContainsValue(t, s[i])

Union(s, t) == Unique(s \o t)

\* slip: what is kept already is not looked at
IntersectAll(s, t) == SelectSeq(s, LAMBDA v : ContainsValue(t, v))

Intersection(s, t) ==
  FoldLeft(LAMBDA kept, v : IF ContainsValue(t, v) /\ ~ContainsValue(kept, v) THEN Append(kept, v) ELSE kept, <<>>, s)

\* std::stable_sort
Sorted(s) ==
  FoldLeft(LAMBDA done, v :
             LET n == Cardinality({i \in DOMAIN done : ~Less(v, done[i])})
             IN SubSeq(done, 1, n) \o <<v>> \o SubSeq(done, n + 1, Len(done)), <<>>, s)

Smallest(s) == FoldLeft(LAMBDA m, v : IF Less(v, m) THEN v ELSE m, s[1], Tail(s))

\* slip: whatever is not less is greater
LargestLast(s) == FoldLeft(LAMBDA m, v : IF ~Less(v, m) THEN v ELSE m, s[1], Tail(s))

Largest(s) == FoldLeft(LAMBDA m, v : IF ~Less(v, m) /\ ~Same(v, m) THEN v ELSE m, s[1], Tail(s))

-----------------------------------------------------------------------------
(* The heap. A cell no variable leads to is given back: std::shared_ptr frees
   it, or a circle of handles keeps it where no program can see it.          *)

Values(cell) == Range(cell.data)
HandlesIn(cell) == {v[2] : v \in {w \in Values(cell) : IsCell(w)}}

\* the cells in every set that holds roots and what its members hold
ReachedFrom(h, roots) ==
  {c \in Cells : \A S \in SUBSET Cells :
     roots \subseteq S /\ (\A d \in S : HandlesIn(h[d]) \subseteq S) => c \in S}

Becomes(h, e) ==
  LET live == ReachedFrom(h, {e[x][2] : x \in {y \in Variables : IsCell(e[y])}})
  IN /\ heap' = [c \in Cells |-> IF c \in live THEN h[c] ELSE Free]
     /\ env' = e

Gets(x, v) == Becomes(heap, [env EXCEPT ![x] = v])
Holds(c, data) == Becomes([heap EXCEPT ![c].data = data], env)

\* a cell that is made, and the variable its handle goes to
Makes(x, cell) ==
  /\ \E c \in Cells : heap[c] = Free
  /\ LET c == CHOOSE d \in Cells : heap[d] = Free /\ \A b \in Cells : b < d => heap[b] # Free
     IN Becomes([heap EXCEPT ![c] = cell], [env EXCEPT ![x] = Handle(c)])

MakesList(x, s) == Len(s) <= MaxItems /\ Makes(x, Cell("list", s))

-----------------------------------------------------------------------------
(* Literals, variables and the index opcodes *)

\* an entry of a map or a field of an object is set
With(f, k, v) == [j \in DOMAIN f \cup {k} |-> IF j = k THEN v ELSE f[j]]

\* decodeListFromStringPool, decodeMapFromStringPool: new cells every time
ListLiteral(x) == \E s \in {<<>>} \cup {<<v>> : v \in Scalars} : MakesList(x, s)
MapLiteral(x)  == \E f \in {<<>>} \cup {With(<<>>, KeyOf(k), v) : k \in Keys, v \in Scalars} : Makes(x, Cell("map", f))

Assign(x, y) == env[x] # env[y] /\ Gets(x, env[y])

LoadIndex(x, y) ==
  /\ Of(heap, env[y], "list") \/ Of(heap, env[y], "tuple")
  /\ \E i \in Indices : i < Len(Items(env[y])) /\ Gets(x, Items(env[y])[i + 1])

StoreIndex(x, v) ==
  /\ Of(heap, env[x], "list")
  /\ \E i \in Indices : i < Len(Items(env[x])) /\ Holds(env[x][2], [Items(env[x]) EXCEPT ![i + 1] = v])

-----------------------------------------------------------------------------
(* handleNativeCollectionFunction: lists *)

ListAppend(x, v) ==
  /\ Of(heap, env[x], "list") /\ Len(Items(env[x])) < MaxItems
  /\ Holds(env[x][2], Append(Items(env[x]), v))

ListRemoveAt(x, y) ==
  /\ Of(heap, env[y], "list")
  /\ \E i \in Indices :
       /\ i < Len(Items(env[y]))
       /\ Becomes([heap EXCEPT ![env[y][2]].data = RemoveAt(@, i + 1)],
                  [env EXCEPT ![x] = Items(env[y])[i + 1]])

ListReverse(x) == Of(heap, env[x], "list") /\ Holds(env[x][2], Reverse(Items(env[x])))
ListUnique(x)  == Of(heap, env[x], "list") /\ Holds(env[x][2], Unique(Items(env[x])))
ListSort(x)    == /\ Of(heap, env[x], "list") /\ Sortable(Items(env[x]))
                  /\ Holds(env[x][2], Sorted(Items(env[x])))

ListExtreme(x, y) ==
  /\ Of(heap, env[y], "list") /\ Items(env[y]) # <<>> /\ Sortable(Items(env[y]))
  /\ Gets(x, Smallest(Items(env[y]))) \/ Gets(x, Largest(Items(env[y])))

ToTuple(x, y) ==
  \/ Of(heap, env[y], "list") /\ Makes(x, Cell("tuple", Items(env[y])))
  \/ Of(heap, env[y], "tuple") /\ Gets(x, env[y])
ToList(x, y) ==
  /\ Of(heap, env[y], "list") \/ Of(heap, env[y], "tuple")
  /\ MakesList(x, Items(env[y]))

SetFromList(x, y) == Of(heap, env[y], "list") /\ MakesList(x, Unique(Items(env[y])))
SetOperation(x, y, z) ==
  /\ Of(heap, env[y], "list") /\ Of(heap, env[z], "list")
  /\ \/ MakesList(x, Union(Items(env[y]), Items(env[z])))
     \/ MakesList(x, Intersection(Items(env[y]), Items(env[z])))

-----------------------------------------------------------------------------
(* Maps: entries by the text of the key (argToRawString), in its order *)

KeysInOrder(f) == FoldLeft(LAMBDA keys, k : IF k \in DOMAIN f THEN Append(keys, k) ELSE keys, <<>>, Order)

MapSet(x, k, v) == Of(heap, env[x], "map") /\ Holds(env[x][2], With(Items(env[x]), KeyOf(k), v))

MapGet(x, y, k, v) ==
  /\ Of(heap, env[y], "map")
  /\ Gets(x, IF KeyOf(k) \in DOMAIN Items(env[y]) THEN Items(env[y])[KeyOf(k)] ELSE v)

MapRemove(x, y, k) ==
  LET f == Items(env[y])
  IN /\ Of(heap, env[y], "map")
     /\ IF KeyOf(k) \notin DOMAIN f THEN Gets(x, NullV)
        ELSE Becomes([heap EXCEPT ![env[y][2]].data = [j \in DOMAIN f \ {KeyOf(k)} |-> f[j]]],
                     [env EXCEPT ![x] = f[KeyOf(k)]])

MapKeys(x, y) ==
  LET keys == KeysInOrder(Items(env[y]))
  IN Of(heap, env[y], "map") /\ MakesList(x, [i \in DOMAIN keys |-> StrV(keys[i])])

-----------------------------------------------------------------------------
(* Objects *)

New(x) == Makes(x, Cell("instance", <<>>))
SetField(x, f, v) == Of(heap, env[x], "instance") /\ Holds(env[x][2], With(Items(env[x]), f, v))
GetField(x, y, f) == /\ Of(heap, env[y], "instance") /\ f \in DOMAIN Items(env[y])
                     /\ Gets(x, Items(env[y])[f])

-----------------------------------------------------------------------------
Init == heap = [c \in Cells |-> Free] /\ env = [x \in Variables |-> NullV]

Next ==
  \E x, y \in Variables :
    \/ ListLiteral(x) \/ MapLiteral(x) \/ New(x)
    \/ Assign(x, y) \/ LoadIndex(x, y) \/ StoreIndex(x, env[y]) \/ ListAppend(x, env[y])
    \/ ListRemoveAt(x, y) \/ ListReverse(x) \/ ListUnique(x) \/ ListSort(x) \/ ListExtreme(x, y)
    \/ ToTuple(x, y) \/ ToList(x, y) \/ SetFromList(x, y) \/ MapKeys(x, y)
    \/ \E z \in Variables : SetOperation(x, y, z)
    \/ \E v \in Scalars : StoreIndex(x, v) \/ ListAppend(x, v)
    \/ \E k \in Keys : MapSet(x, k, env[y]) \/ MapGet(x, y, k, NullV) \/ MapRemove(x, y, k)
    \/ \E f \in Fields : SetField(x, f, env[y]) \/ GetField(x, y, f)

Spec == Init /\ [][Next]_vars

WellFormed(cell) ==
  /\ cell = Cell(cell.kind, cell.data)
  /\ \/ cell.kind \in {"free", "list", "tuple"} /\ cell.data \in Seq(StackValues)
     \/ cell.kind \in {"map", "instance"} /\ cell.data \in [DOMAIN cell.data -> StackValues]
  /\ cell.kind = "map" => DOMAIN cell.data \subseteq Range(Order)

\* Variables and cells hold values, and handles lead to cells.
TypeOK ==
  /\ env \in [Variables -> StackValues]
  /\ DOMAIN heap = Cells /\ \A c \in Cells : WellFormed(heap[c])

-----------------------------------------------------------------------------
(* One equality for all the operations on lists *)

Lists == {heap[c].data : c \in {d \in Cells : heap[d].kind = "list"}}
NoTwoSame(s) == \A i, j \in DOMAIN s : Same(s[i], s[j]) => i = j
FoundFirst(s, v) == s[FindIndex(s, v) + 1] = v

SetsAgree(s, t) ==
  /\ NoTwoSame(Intersection(s, t)) /\ NoTwoSame(Unique(s))
  /\ Len(Union(s, t)) + Len(Intersection(s, t)) = Len(Unique(s)) + Len(Unique(t))
  /\ Disjoint(s, t) <=> Intersection(s, t) = <<>>

ExtremesFound(s) ==
  /\ FoundFirst(s, Smallest(s)) /\ Smallest(s) = Sorted(s)[1]
  /\ FoundFirst(s, Largest(s)) /\ Same(Largest(s), Last(Sorted(s)))

\* "prevents list, set, and future collection APIs from growing subtly different equality
\* rules" (value.h 99-103): on any two lists the operations agree about what is the same,
\* 1 and 1.0 among it. What is unique or common has no two elements that are the same; the
\* union has as many elements as both sides less what they have in common; disjoint lists
\* have nothing in common; and the smallest and the largest are those a search for them
\* finds first, and as large as those a stable sort puts first and last.
OneEquality ==
  /\ \A s, t \in Lists : SetsAgree(s, t)
  /\ \A s \in Lists : s # <<>> /\ Sortable(s) => ExtremesFound(s)

-----------------------------------------------------------------------------
(* The text of a value: stackValueToString, as a sequence of words *)

\* what is written between the brackets, a map's keys before what they lead to; the commas,
\* the colons and the quotes around keys and around strings in a map are left out
Contents(cell) ==
  IF cell.kind = "map"
  THEN LET keys == KeysInOrder(cell.data)
       IN [i \in 1..(2 * Len(keys)) |->
             LET k == keys[(i + 1) \div 2] IN IF i % 2 = 1 THEN StrV(k) ELSE cell.data[k]]
  ELSE cell.data

Spelling(v) == IF v = NullV THEN "rong" ELSE KeyOf(v)

\* slip: a collection that has been written stays active
StaysActive(active, c) == active

NoLongerActive(active, c) == active \ {c}

\* the words so far and what is active then, and what a call for one more value adds
Further(written, r, w) ==
  LET s == written[r.active][w] IN [text |-> r.text \o s.text, active |-> s.active]

Writes(written, active, v) ==
  LET cell == heap[v[2]]
      inside == FoldLeft(LAMBDA r, w : Further(written, r, w),
                         [text |-> <<>>, active |-> active \cup {v[2]}], Contents(cell))
  IN CASE ~IsCell(v) -> [text |-> <<Spelling(v)>>, active |-> active]
       [] Of(heap, v, "instance") -> [text |-> <<"<instance>">>, active |-> active]
       [] IsCell(v) /\ cell.kind # "instance" /\ v[2] \in active -> [text |-> <<"<cycle>">>, active |-> active]
       [] OTHER -> [text |-> <<cell.kind>> \o inside.text \o <<"end">>, active |-> NoLongerActive(inside.active, v[2])]

Written[active \in SUBSET Cells] == [v \in StackValues |-> Writes(Written, active, v)]

TextOf(v) == Written[{}][v].text

\* the text of a value made of the texts of what is in it
Nested(v) ==
  CASE ~IsCell(v) -> <<Spelling(v)>>
    [] Of(heap, v, "instance") -> <<"<instance>">>
    [] OTHER -> <<heap[v[2]].kind>>
                \o FoldLeft(LAMBDA text, w : text \o TextOf(w), <<>>, Contents(heap[v[2]])) \o <<"end">>

\* what the text of a value goes into: objects are written by their class only
Shown == [c \in Cells |-> IF heap[c].kind = "instance" THEN Free ELSE heap[c]]
Circular(v) ==
  IsCell(v) /\ \E c \in ReachedFrom(Shown, {v[2]}) : c \in ReachedFrom(Shown, HandlesIn(Shown[c]))

\* "printing remains finite while repeated, non-cyclic references still render normally each
\* time" (value.h 232-235): the text of a value says <cycle> if a circle of lists, tuples and
\* maps is in sight of it, and is otherwise made of the texts of what is in it, each as it
\* would be written alone, however often it is in there.
TextTells ==
  \A v \in Range(env) \cup {Handle(c) : c \in Cells} :
    IF Circular(v) THEN "<cycle>" \in Range(TextOf(v)) ELSE TextOf(v) = Nested(v)
================================================================================
