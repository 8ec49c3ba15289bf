------------------------------ MODULE MC_Lexer ------------------------------
(***************************************************************************)
(* All short texts over characters of every class, one alphabet for words, *)
(* numbers, comments and lines, one for operators and for the keyword with *)
(* dots in it, which is S.p here; and clients that look up to two tokens   *)
(* ahead.                                                                  *)
(***************************************************************************)
EXTENDS LexerProperties

MCPrintln  == <<"S", ".", "p">>
MCKeywords == {<<"i", "f">>}

WordChars     == {"i", "f", "_", "0", "7", "/", "\n", "?"}
OperatorChars == {"S", ".", "p", "=", "&", "?", " "}

TextsOver(chars, n) == UNION {[1 .. k -> chars] : k \in 0 .. n}

MCSources == TextsOver(WordChars, 4) \cup TextsOver(OperatorChars, 4)
MCOthers  == {<<>>, <<"?", "/", "/", "?">>, <<"i", "?", "\n">>}
=============================================================================
