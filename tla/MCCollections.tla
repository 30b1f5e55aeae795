----------------------------- MODULE MCCollections -----------------------------
(***************************************************************************)
(* Instance of Collections: two cells at a time, two variables, the         *)
(* numbers 1 and 1.0, which are the same and have different texts.          *)
(***************************************************************************)
EXTENDS Collections

MCScalars == {IntV(1), FloatV(1)}
MCKeys == {IntV(1), FloatV(1)}
MCOrder == <<"1", "1.0">>
================================================================================
