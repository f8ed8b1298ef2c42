--------------------------- MODULE MC_DartScanner ---------------------------
(* DartScanner for TLC: comments that nest up to three deep, comments among  *)
(* every kind of character, and short string texts in every state that the   *)
(* grammar can be in, with all symbols valid after a syntax error.           *)
EXTENDS DartScanner, SequencesExt

NestedTexts == BoundedSeq({"slash", "star", "other"}, 8)
MixedTexts == {<<"space", "slash", "star">> \o s :
                  s \in BoundedSeq({"space", "nul", "quote", "slash", "star"}, 3)}
StringTexts == BoundedSeq({"quote", "newline", "dollar", "backslash", "slash", "nul"}, 3)

MCInputs ==
    {[text |-> s, valid |-> {"block_comment", "documentation_comment"}] :
        s \in NestedTexts \cup MixedTexts}
    \cup {[text |-> s, valid |-> v] :
             s \in StringTexts,
             v \in {v \in SUBSET (Templates \cup {"raw_slash"}) : v \cap Templates # {}}
                   \cup {TokenType}}
===============================================================================
