---------------------------- MODULE MCImportCompiler ----------------------------
(***************************************************************************)
(* A program of three files, edited between compilations.                  *)
(***************************************************************************)
EXTENDS ImportOrder

CONSTANTS main, a, b

MCFiles == {main, a, b}
\* nothing, one import or two; circles of one, two and three files; the
\* compiled file imported by another
OfMain == {<<>>, <<a>>, <<a, b>>, <<b, a>>}
OfA == {<<>>, <<b>>, <<a, b>>, <<main>>}
OfB == {<<>>, <<a>>, <<main, a>>}
MCSources == {[f \in MCFiles |-> CASE f = main -> i [] f = a -> j [] OTHER -> k] :
                i \in OfMain, j \in OfA, k \in OfB}

Both == {"context", "default"}
==================================================================================
