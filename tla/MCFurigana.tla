------------------------------ MODULE MCFurigana ------------------------------
(* A dictionary of three characters: 1 is a kanji, 2 a kana, 3 a character that   *)
(* MeCab skips; class 4 is a class past the dictionary.                           *)
EXTENDS Furigana

MCLexicon ==
    << [surface |-> <<1>>, reading |-> "a"],
       [surface |-> <<1, 2>>, reading |-> "b"],
       [surface |-> <<1, 2>>, reading |-> "c"],
       [surface |-> <<2>>, reading |-> "d"] >>
===============================================================================
