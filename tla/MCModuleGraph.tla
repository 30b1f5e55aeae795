------------------------------ MODULE MCModuleGraph ------------------------------
(***************************************************************************)
(* Graphs over an entry and three files, with and without an alias.        *)
(***************************************************************************)
EXTENDS ModuleEnvironment

CONSTANTS entry, a, b, c, alias, flat

MCFiles == {entry, a, b, c}
As(f, n) == [of |-> f, as |-> n]
Plain(fs) == [i \in DOMAIN fs |-> As(fs[i], flat)]

\* the entry imports up to two files under either name, the others up to two
OfEntry == {<<>>, <<As(a, flat)>>} \cup {<<As(f, m), As(g, n)>> : f, g \in {a, b}, m, n \in {alias, flat}}
OfA == {Plain(fs) : fs \in {<<>>, <<b>>, <<c, b>>, <<a, c>>}}
OfB == {Plain(fs) : fs \in {<<>>, <<c>>, <<a, c>>}}
OfC == {Plain(fs) : fs \in {<<>>, <<a, b>>, <<b>>}}
MCSources ==
  {[f \in MCFiles |-> CASE f = entry -> i [] f = a -> j [] f = b -> k [] OTHER -> l] :
     i \in OfEntry, j \in OfA, k \in OfB, l \in OfC}

\* a and b both export f
MCExports == [x \in MCFiles |-> CASE x = a -> <<"f", "g">> [] x = b -> <<"f">> [] OTHER -> <<>>]
==================================================================================
