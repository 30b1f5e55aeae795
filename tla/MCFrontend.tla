------------------------------ MODULE MCFrontend ------------------------------
(***************************************************************************)
(* Programs for Frontend: the seeds, which among them use every construct,  *)
(* and every program one token away from a seed.                            *)
(***************************************************************************)
EXTENDS FrontendProperties

MCModule  == {"f", "h"}
MCExports == <<"h">>
MCNatives == {<<"n">>}

Seeds == {
  <<"a", "=", "1", "+", "2", "*", "(", "b", "-", "1", ")", ";", "in", "!", "a", "==", "b", ";">>,
  <<"neu", "(", "a", "<", "1", ")", "{", "in", "a", ";", "}", "hoac", "{", "a", "+=", "1", ";", "}">>,
  <<"lap", "(", "a", "=", "0", ";", "a", "<", "2", ";", "a", "++", ")", "{", "bo qua", ";", "}">>,
  <<"chon", "(", "a", ")", "{", "ca", "1", ":", "{", "thoat", ";", "}", "mac dinh", "{", "in", "a", ";", "}", "}">>,
  <<"ham", "f", "(", "a", ",", "b", "=", "1", ")", "{", "tra ve", "a", "+", "b", ";", "}", "x", "=", "f", "(", "1", ")", ";">>,
  <<"a", "=", "ham", "(", "b", "=", "2", ")", "{", "c", "=", "b", ";", "tra ve", "c", ";", "}", ";", "a", "(", "1", ")", ";">>,
  <<"ham", "f", "(", "a", ")", "{", "b", "=", "ham", "(", ")", "{", "in", "a", ";", "}", ";", "}">>,
  <<"thu", "{", "nem", "1", ";", "}", "bat loi", "(", "a", ")", "{", "in", "a", ";", "}">>,
  <<"lop", "p", "{", "ham", "f", "(", ")", "{", "}", "ham", "g", "(", "a", ")", "{", "in", "a", ";", "f", "(", ")", ";", "}", "}", "f", "=", "1", ";", "in", "f", ";">>,
  <<"ham", "f", "(", ")", "{", "}", "lop", "p", "{", "ham", "g", "(", ")", "{", "in", "'s'", ";", "f", "(", ")", ";", "}", "}", "p.g", "(", ")", ";">>,
  <<"lop", "p", "{", "}", "q", "=", "p", "(", ")", ";", "p.x", "=", "1", ";", "in", "p.x", ";">>,
  <<"p", "=", "0", ";", "p.x", "=", "1", ";", "in", "p.x", ";", "p.g", "(", "2", ")", ";">>,
  <<"nhap", "'m.vi'", "nhu", "m", ";", "goi", "m.h", "(", "1", ")", ";", "f", "=", "1", ";", "in", "f", ";">>,
  <<"nhap", "m.vi", ";", "h", "(", ")", ";", "n", "(", ")", ";">>,
  <<"a", "=", "[", "1", ",", "'s'", "]", ";", "a", "[", "0", "]", "=", "{", "'s'", ":", "1", ",", "x", ":", "-", "1", "}", ";">>
}

\* two that the code accepts though words of theirs are in no tree
MCMalformed == {
  <<"ham", "f", "{", "in", "(", "a", ")", ";", "}">>,
  <<"ham", "f", "(", ")", "{", "tra ve", "1", "2", ";", "}">>
}

\* the words an edit puts in
Words == {"(", ")", "{", "}", ";", ",", "=", "+", "1", "a", "f", "'p.f'", "ham", "in", "goi", "9999999999"}

Delete(t, i)     == SubSeq(t, 1, i - 1) \o SubSeq(t, i + 1, Len(t))
Put0(t, i, x)    == SubSeq(t, 1, i - 1) \o <<x>> \o SubSeq(t, i, Len(t))
MCSources ==
  LET At0 == UNION {{<<s, i>> : i \in 1..(Len(s) + 1)} : s \in Seeds}
      In  == {p \in At0 : p[2] <= Len(p[1])}
  IN Seeds \cup {Delete(p[1], p[2]) : p \in In}
     \cup {Put0(p[1], p[2], x) : p \in At0, x \in Words}
     \cup {[p[1] EXCEPT ![p[2]] = x] : p \in In, x \in Words}
===============================================================================
