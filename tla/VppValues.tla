------------------------------- MODULE VppValues -------------------------------
(***************************************************************************)
(* Runtime values of V++ (StackValue) and the operators the opcodes apply  *)
(* to them (include/common/vm_utils.h): integers, strings and rỗng.        *)
(***************************************************************************)
EXTENDS Integers, Sequences, TLC

(* Values: a variant is a tag and a payload. *)

IntV(n) == <<"int", n>>
StrV(s) == <<"str", s>>
NullV   == <<"null", 0>>
Zero    == IntV(0)

IsInt(v) == v[1] = "int"
IsStr(v) == v[1] = "str"

\* sv_to_string, for the kinds of value modelled here.
Text(v) == CASE IsInt(v) -> ToString(v[2])
             [] IsStr(v) -> v[2]
             [] OTHER    -> "rong"

\* std::stoi over the numerals the images use; <<>> when it throws.
Numerals == [n \in -20..20 |-> ToString(n)]
Stoi(s) == IF \E n \in DOMAIN Numerals : Numerals[n] = s
             THEN <<CHOOSE n \in DOMAIN Numerals : Numerals[n] = s>>
             ELSE <<>>

ToBool(v) == CASE IsInt(v) -> v[2] # 0
               [] IsStr(v) -> v[2] # ""
               [] OTHER    -> FALSE

Bit(p) == IntV(IF p THEN 1 ELSE 0)

\* C++ integer division truncates toward zero; % keeps the dividend's sign.
Magnitude(n) == IF n < 0 THEN -n ELSE n
TruncDiv(m, n) == LET q == Magnitude(m) \div Magnitude(n)
                  IN  IF (m < 0) = (n < 0) THEN q ELSE -q
TruncMod(m, n) == m - n * TruncDiv(m, n)

(* evaluateBinaryOperator and evaluateModuloOperator: <<value>>, or <<>>
   when they throw.                                                       *)
Compared(op, m, n) == CASE op = "SO_SANH_BANG"         -> Bit(m = n)
                        [] op = "KHAC_BANG"            -> Bit(m # n)
                        [] op = "LON_HON"              -> Bit(m > n)
                        [] op = "NHO_HON"              -> Bit(m < n)
                        [] op = "LON_HON_HOAC_BANG"    -> Bit(m >= n)
                        [] op = "NHO_HON_HOAC_BANG"    -> Bit(m <= n)

Arithmetic(op, m, n) == CASE op = "CONG" -> <<IntV(m + n)>>
                          [] op = "TRU"  -> <<IntV(m - n)>>
                          [] op = "NHAN" -> <<IntV(m * n)>>
                          [] op = "CHIA" -> IF n = 0 THEN <<>> ELSE <<IntV(TruncDiv(m, n))>>
                          [] op = "MODULO" -> IF n = 0 THEN <<>> ELSE <<IntV(TruncMod(m, n))>>
                          [] op = "Logic_VA"   -> <<Bit(m # 0 /\ n # 0)>>
                          [] op = "Logic_HOAC" -> <<Bit(m # 0 \/ n # 0)>>
                          [] OTHER -> <<Compared(op, m, n)>>

\* std::string compares bytes: the first that differs decides, or the end of one of the two.
\* The characters strings have in the models, in the order of their bytes
Characters == " !+-.0123456789:<=>?ABCDEFGHIJKLMNOPQRSTUVWXYZ_abcdefghijklmnopqrstuvwxyz"
Place(s, i) == CHOOSE n \in 1..Len(Characters) : SubSeq(Characters, n, n) = SubSeq(s, i, i)
Before(s, t) ==
  \E i \in 1..Len(t) :
    /\ i <= Len(s) + 1 /\ SubSeq(s, 1, i - 1) = SubSeq(t, 1, i - 1)
    /\ Len(s) < i \/ (Len(s) >= i /\ Place(s, i) < Place(t, i))

Ordered(op, s, t) == CASE op = "SO_SANH_BANG"         -> Bit(s = t)
                       [] op = "KHAC_BANG"            -> Bit(s # t)
                       [] op = "LON_HON"              -> Bit(Before(t, s))
                       [] op = "NHO_HON"              -> Bit(Before(s, t))
                       [] op = "LON_HON_HOAC_BANG"    -> Bit(~Before(s, t))
                       [] op = "NHO_HON_HOAC_BANG"    -> Bit(~Before(t, s))

BinaryOps == {"CONG", "TRU", "NHAN", "CHIA", "MODULO", "Logic_VA", "Logic_HOAC",
              "SO_SANH_BANG", "KHAC_BANG", "LON_HON", "NHO_HON",
              "LON_HON_HOAC_BANG", "NHO_HON_HOAC_BANG"}
Comparisons == BinaryOps \ {"CONG", "TRU", "NHAN", "CHIA", "MODULO", "Logic_VA", "Logic_HOAC"}

Binary(op, x, y) ==
  CASE IsInt(x) /\ IsInt(y)                           -> Arithmetic(op, x[2], y[2])
    [] op = "CONG" /\ ~(IsInt(x) /\ IsInt(y))         -> <<StrV(Text(x) \o Text(y))>>
    [] IsStr(x) /\ IsStr(y) /\ op \in Comparisons     -> <<Ordered(op, x[2], y[2])>>
    [] OTHER                                          -> <<>>
================================================================================
