------------------------------ MODULE MCVmOpcodes ------------------------------
(***************************************************************************)
(* Arbitrary short bytecode, as test/vm_handler_tests.cpp hands it to the  *)
(* machine: every opcode and every error branch, in the entry, in module   *)
(* initializers and in a function, with the host calling run() twice.      *)
(***************************************************************************)
EXTENDS JitPath, CompiledDiscipline

I(op, a, b, c) == [op |-> op, a |-> a, b |-> b, c |-> c]

Pool == <<"f", "1", "x", "i:3", "s:q", "n:">>
Names == (0 :> 0) @@ (1 :> 7)

\* pushes, so that operators find operands of every kind
Pushes == {I("BIEN_SO", 0, 0, 0), I("BIEN_SO", 2, 0, 0), I("CHUOI", 0, 1, 0),
           I("CHUOI", 0, 2, 0), I("RONG_GIA_TRI", 0, 0, 0), I("TEN_BIEN_ID", 0, 1, 0)}

Singles == {"PHU_DINH", "KHONG", "DUNG_GIA_TRI", "SAI_GIA_TRI", "IN", "GAN", "CONG", "CHIA", "MODULO",
            "LON_HON", "NHO_HON", "LON_HON_HOAC_BANG", "NHO_HON_HOAC_BANG", "TRU", "NHAN",
            "Logic_VA", "Logic_HOAC", "SO_SANH_BANG", "KHAC_BANG",
            "CONG_MOT", "TRU_MOT", "CHON", "MAC_DINH", "THOAT", "MO_KHOI", "DONG_KHOI", "BO_QUA", "CAP_NHAT",
            "NEM", "TRA_VE", "DUNG_CHUONG_TRINH", "DONG_LENH", "MO_NGOAC", "DONG_NGOAC", "999"}
Others ==
  {I("CHUOI", 0, 9, 0), I("KHOI_TAO", 0, 1, 0), I("TEN_BIEN_GIA_TRI", 0, 1, 0),
   I("PARAM", 0, 1, 0), I("PARAM_MAC_DINH", 3, 1, 4), I("PARAM_MAC_DINH", 4, 1, 0),
   I("PARAM_MAC_DINH", 5, 0, 0), I("PARAM_MAC_DINH", 9, 0, 0), I("PARAM_MAC_DINH", 0, 0, 0),
   I("GOI", 1, 0, 0), I("GOI", 2, -1, 0), I("GOI", 0, -2, 0), I("HAM", 3, 0, 0), I("GOI", 0, -4, 0), I("GOI", -1, 0, 0),
   I("GOI_GIAN_TIEP", 1, 0, 0),
   I("CA", 2, -1, 0), I("CA", 0, 1, 0), I("CA", 1, -2, 0), I("CA", 0, 9, 0), I("CA", 0, -3, 0),
   I("THU", 2, 0, 0), I("THU_KET_THUC", 3, 0, 0), I("BAT_LOI", 0, -1, 0), I("BAT_LOI", 0, 1, 0),
   I("JUMP", 2, 0, 0), I("JUMP", 9, 0, 0), I("JUMP_IF_FALSE", 2, 0, 0), I("JUMP_IF_FALSE", 9, 0, 0)}
Alphabet == Pushes \cup {I(op, 0, 0, 0) : op \in Singles} \cup Others

Entries == {<<i, j>> : i, j \in Alphabet}
           \cup {<<p, q, i>> : p, q \in Pushes, i \in {I(op, 0, 0, 0) : op \in Singles} \cup Others}
           \cup {<<p, I("CHON", 0, 0, 0), i, j>> :
                   p \in Pushes, i \in Others, j \in {I("IN", 0, 0, 0), I("999", 0, 0, 0), I("THOAT", 0, 0, 0)}}

\* the function prints, or throws, or leaves its argument
Fun == {<<I("PARAM", 0, 0, 0), I("TEN_BIEN_GIA_TRI", 0, 0, 0)>>,
        <<I("PARAM_MAC_DINH", 3, 1, 0), I("NEM", 0, 0, 0)>>,
        <<I("BIEN_SO", 5, 0, 0), I("IN", 0, 0, 0), I("TEN_BIEN_GIA_TRI", 0, 1, 0), I("TRA_VE", 0, 0, 0)>>}

\* initializers: one that is fine, one that calls, one that fails
Good == <<I("BIEN_SO", 7, 0, 0), I("IN", 0, 0, 0)>>
Inits == {<<>>, <<Good, <<I("BIEN_SO", 1, 0, 0), I("GOI", 1, 0, 0)>> >>,
          <<Good, <<I("NEM", 0, 0, 0)>>, Good>>}

Image(main, fun, inits) ==
  [code |-> [k \in {Main, 0} \cup {Initializer(i) : i \in DOMAIN inits} |->
               CASE k = Main -> main [] k = 0 -> fun [] OTHER -> inits[-1 - k]],
   inits |-> Len(inits), pool |-> Pool, names |-> Names]

Calls(main) == \E i \in DOMAIN main : main[i].op \in {"GOI", "GOI_GIAN_TIEP"}
AnyFun == CHOOSE f \in Fun : TRUE

MCImages == {Image(e, AnyFun, <<>>) : e \in Entries}
            \cup {Image(e, f, <<>>) : e \in {m \in Entries : Calls(m)}, f \in Fun}
            \cup {Image(<<i, I("DUNG_CHUONG_TRINH", 0, 0, 0)>>, f, n) :
                     i \in {I("GOI", 1, 0, 0), I("IN", 0, 0, 0), I("BIEN_SO", 2, 0, 0)}, f \in Fun, n \in Inits}
==============================================================================
