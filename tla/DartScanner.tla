----------------------------- MODULE DartScanner -----------------------------
(***************************************************************************)
(* The external scanner of the Dart grammar (internal/parser/dartlang/     *)
(* scanner.c): block comments, which nest in Dart, and the text between    *)
(* the interpolations of a string literal.  A character is one of the      *)
(* classes that the scanner tells apart; the end of the input reads as     *)
(* NUL.  The scanner keeps no state between calls: create, destroy, reset, *)
(* serialize and deserialize do nothing.                                   *)
(***************************************************************************)
EXTENDS Integers, Sequences, FiniteSets

CONSTANT Inputs    \* bound: the texts and the valid_symbols of a call

Templates == {"single", "double", "single_single", "double_single"}
TokenType == Templates \cup {"raw_slash", "block_comment", "documentation_comment"}
Chars == {"slash", "star", "quote", "newline", "dollar", "backslash", "space", "nul", "other"}

ASSUME InputsAssumption ==
    Inputs \subseteq [text : Seq(Chars), valid : SUBSET TokenType]

VARIABLES
    in,      \* the call's text and its valid symbols
    pc,
    pos,     \* the lookahead's position
    mark,    \* mark_end; 0 if it was not called
    sym,     \* result_symbol
    flag,    \* documentation_comment, or has_content
    star,    \* after_star
    depth,   \* nesting_depth
    ok       \* what the call returns

vars == <<in, pc, pos, mark, sym, flag, star, depth, ok>>

Init ==
    /\ in \in Inputs
    /\ pc = "scan" /\ pos = 1 /\ mark = 0
    /\ sym = "none" /\ flag = FALSE /\ star = FALSE /\ depth = 0 /\ ok = FALSE

Lookahead(p) == IF p <= Len(in.text) THEN in.text[p] ELSE "nul"

\* TSLexer's advance, which stays at the end.
Advance(p) == IF p <= Len(in.text) THEN p + 1 ELSE p

Return(b) == pc' = "done" /\ ok' = b

-------------------------------------------------------------------------------
\* tree_sitter_dart_external_scanner_scan, up to the call it makes.
Scan ==
    /\ pc = "scan"
    /\ \/ /\ in.valid \cap Templates # {}
          /\ pc' = "template"
          /\ sym' = CASE "double" \in in.valid -> "double"
                      [] "double" \notin in.valid /\ "single" \in in.valid -> "single"
                      [] in.valid \cap {"double", "single"} = {}
                         /\ "single_single" \in in.valid -> "single_single"
                      [] OTHER -> "double_single"
          /\ UNCHANGED <<pos, ok>>
       \/ /\ in.valid \cap Templates = {}
          /\ Lookahead(pos) \in {"space", "newline"}
          /\ pos' = Advance(pos)
          /\ UNCHANGED <<pc, sym, ok>>
       \/ /\ in.valid \cap Templates = {}
          /\ Lookahead(pos) = "slash"
          /\ pc' = "open"
          /\ UNCHANGED <<pos, sym, ok>>
       \/ /\ in.valid \cap Templates = {}
          /\ Lookahead(pos) \notin {"space", "newline", "slash"}
          /\ Return(FALSE)
          /\ UNCHANGED <<pos, sym>>
    /\ UNCHANGED <<in, mark, flag, star, depth>>

\* scan_multiline_comments, up to its loop.
OpenComment ==
    LET p == Advance(pos) IN
    /\ pc = "open"
    /\ IF Lookahead(p) # "star"
       THEN pos' = p /\ Return(FALSE) /\ UNCHANGED <<flag, star, depth>>
       ELSE /\ pos' = Advance(p)
            /\ flag' = (Lookahead(Advance(p)) = "star")
            /\ star' = FALSE /\ depth' = 1
            /\ pc' = "comment"
            /\ UNCHANGED ok
    /\ UNCHANGED <<in, mark, sym>>

\* Mutant of Comment: the star that opens a nested comment may close it too.
CommentReusesStar ==
    LET c == Lookahead(pos)
        p == Advance(pos)
        nests == c = "slash" /\ ~star /\ Lookahead(p) = "star"
        d == IF c = "slash" /\ star THEN depth - 1 ELSE IF nests THEN depth + 1 ELSE depth
    IN  /\ pc = "comment"
        /\ IF c = "nul" THEN Return(FALSE) /\ UNCHANGED <<pos, star, depth, sym>>
           ELSE /\ pos' = p
                /\ star' = (c = "star")
                /\ depth' = d
                /\ IF d = 0
                   THEN /\ sym' = IF flag THEN "documentation_comment" ELSE "block_comment"
                        /\ Return(TRUE)
                   ELSE UNCHANGED <<sym, pc, ok>>
        /\ UNCHANGED <<in, mark, flag>>

\* One round of its loop.
Comment ==
    LET c == Lookahead(pos)
        p == Advance(pos)
        nests == c = "slash" /\ ~star /\ Lookahead(p) = "star"
        d == IF c = "slash" /\ star THEN depth - 1 ELSE IF nests THEN depth + 1 ELSE depth
    IN  /\ pc = "comment"
        /\ IF c = "nul" THEN Return(FALSE) /\ UNCHANGED <<pos, star, depth, sym>>
           ELSE /\ pos' = IF nests THEN Advance(p) ELSE p
                /\ star' = (c = "star")
                /\ depth' = d
                /\ IF d = 0
                   THEN /\ sym' = IF flag THEN "documentation_comment" ELSE "block_comment"
                        /\ Return(TRUE)
                   ELSE UNCHANGED <<sym, pc, ok>>
        /\ UNCHANGED <<in, mark, flag>>

\* One round of the loop of scan_templates; flag is has_content.
Template ==
    LET c == Lookahead(pos)
        raw == "raw_slash" \in in.valid
        multiline == in.valid \cap {"double_single", "single_single"} = {}
    IN  /\ pc = "template"
        /\ mark' = pos
        /\ \/ /\ c \in {"quote", "dollar"} \/ (c = "backslash" /\ ~raw)
              /\ Return(flag)
              /\ UNCHANGED <<pos, flag, sym>>
           \/ /\ c = "nul" \/ (c = "newline" /\ ~multiline)
              /\ Return(FALSE)
              /\ UNCHANGED <<pos, flag, sym>>
           \/ /\ \/ c \in {"slash", "star", "space", "other"}
                 \/ c = "newline" /\ multiline
                 \/ c = "backslash" /\ raw
              /\ pos' = Advance(pos)
              /\ flag' = TRUE
              /\ sym' = IF c = "backslash" THEN "raw_slash" ELSE sym
              /\ UNCHANGED <<pc, ok>>
        /\ UNCHANGED <<in, star, depth>>

Next == Scan \/ OpenComment \/ Comment \/ Template

\* A call runs to its end.
Spec == Init /\ [][Next]_vars /\ WF_vars(Next)

-------------------------------------------------------------------------------
(* What the tokens are                                                       *)

Text == in.text
Pair(i, a, b) == i < Len(Text) /\ Text[i] = a /\ Text[i + 1] = b

\* Where a comment ends that is d deep at i, 0 if it does not: the text is read
\* in pairs, an opening or a closing one, and single characters.
CommentEnd ==
    LET end[i \in 1 .. Len(Text) + 1, d \in 0 .. Len(Text)] ==
            CASE d = 0 -> i
              [] d > 0 /\ (i > Len(Text) \/ Lookahead(i) = "nul") -> 0
              [] d > 0 /\ Pair(i, "slash", "star") -> end[i + 2, d + 1]
              [] d > 0 /\ Pair(i, "star", "slash") -> end[i + 2, d - 1]
              [] OTHER -> end[i + 1, d]
    IN  end

\* The first position from i on of a character of S, or the end of the text.
First(i, S) ==
    CHOOSE p \in i .. Len(Text) + 1 :
        /\ Lookahead(p) \in S \cup {"nul"}
        /\ \A q \in i .. p - 1 : Lookahead(q) \notin S \cup {"nul"}

Failure == [ok |-> FALSE]

CommentToken ==
    LET i == First(1, Chars \ {"space", "newline"})
        e == CommentEnd[i + 2, 1]
    IN  IF Pair(i, "slash", "star") /\ e # 0
        THEN [ok |-> TRUE, end |-> e,
              sym |-> IF Lookahead(i + 2) = "star" THEN "documentation_comment"
                                                   ELSE "block_comment"]
        ELSE Failure

\* The longest run of string text; a line break ends a single-line string badly.
TemplateToken ==
    LET raw == "raw_slash" \in in.valid
        single == in.valid \cap {"double_single", "single_single"} # {}
        stops == {"quote", "dollar"} \cup (IF raw THEN {} ELSE {"backslash"})
                                     \cup (IF single THEN {"newline"} ELSE {})
        e == First(1, stops)
        order == <<"double", "single", "single_single", "double_single">>
        kinds == {k \in 1 .. 4 : order[k] \in in.valid}
        first == order[CHOOSE k \in kinds : \A l \in kinds : k <= l]
    IN  IF e > 1 /\ Lookahead(e) \notin {"nul", "newline"}
        THEN [ok |-> TRUE, end |-> e,
              sym |-> IF \E p \in 1 .. e - 1 : Text[p] = "backslash"
                      THEN "raw_slash" ELSE first]
        ELSE Failure

Token == IF in.valid \cap Templates # {} THEN TemplateToken ELSE CommentToken

\* Every call ends, whatever text it meets and whatever symbols are valid, and
\* returns the token that the text starts with: its kind and its extent, of a
\* comment up to the end that balances its nested comments; or no token, where
\* the text ends first (scan_multiline_comments, scan_templates).
FindsToken ==
    <>[](/\ pc = "done"
         /\ Token = IF ok THEN [ok |-> TRUE, end |-> IF mark = 0 THEN pos ELSE mark, sym |-> sym]
                          ELSE Failure)
===============================================================================
