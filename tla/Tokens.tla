------------------------------- MODULE Tokens -------------------------------
(***************************************************************************)
(* Lexemes and their kinds (lexer.cpp, token.h). Vietnamese words are       *)
(* written without their marks; a multi-word keyword is one lexeme, as the  *)
(* lexer leaves it after merging. Every word that is no keyword, number,    *)
(* string, operator or punctuation mark is an identifier.                   *)
(***************************************************************************)
EXTENDS Integers, Sequences

Keywords == {"neu", "hoac", "neu khong", "lap", "mac dinh", "ham", "goi", "tra ve",
             "in", "bo qua", "thoat", "chon", "ca", "dung", "sai", "rong", "nem",
             "thu", "bat loi", "nhap", "lop", "cong khai", "rieng tu", "bao ve"}
IntegerWords == {"0", "1", "2", "9999999999"}
OversizedWords == {"9999999999"}    \* more than std::stoi takes
FloatWords   == {"1.5"}
StringWords  == {"'s'", "'t'", "'p.f'", "'m.vi'", "'m.txt'"}
Operators    == {"=", "||", "&&", "==", "!=", "<", ">", "<=", ">=", "+", "-", "*", "/",
                 "%", "!", "++", "--", "+=", "-=", "*=", "/=", "%="}
Punctuation  == {"(", ")", "{", "}", "[", "]", ";", ",", ":"}

\* classifyTokenKind, in its order
Kind(x) == CASE x \in StringWords  -> "String"
             [] x \in IntegerWords -> "Integer"
             [] x \in FloatWords   -> "Float"
             [] x \in Operators    -> "Operator"
             [] x \in Punctuation  -> "Punctuation"
             [] x \in Keywords     -> "Keyword"
             [] OTHER              -> "Identifier"

\* isVariable: a word without a space, which neither starts with a digit nor is quoted
MultiWord == {"neu khong", "mac dinh", "tra ve", "bo qua", "bat loi", "cong khai", "rieng tu",
              "bao ve"}
IsVariable(x) == Kind(x) \in {"Identifier", "Keyword"} /\ x \notin MultiWord

\* the words of the model whose spelling holds a dot, with the two sides of the last one
Dotted == {"p.x", "p.f", "p.g", "m.f", "m.h", "m.vi", "m.txt"}
Owner(w)  == IF w \in {"p.x", "p.f", "p.g"} THEN "p" ELSE "m"
Member(w) == CASE w = "p.x" -> "x" [] w \in {"p.f", "m.f"} -> "f" [] w = "p.g" -> "g"
               [] w = "m.h" -> "h" [] w = "m.vi" -> "vi" [] w = "m.txt" -> "txt"
\* hasViSuffix, of the words of an import target or of a quoted one
HasViSuffix(target, quoted) == target[Len(target)] = IF quoted THEN "'m.vi'" ELSE "m.vi"
\* lexemes whose text has a dot, quoted ones included
HasDot(w) == w \in Dotted \cup {"'p.f'", "'m.vi'", "'m.txt'", "1.5"}
==============================================================================
