----------------------------- MODULE QueryFilter -----------------------------
(* The query filter language (backend/query_filter): the parser, which is  *)
(* FilterParser, with the canonical printer and the equivalence of the two *)
(* trees (R11.7).  The checks read a text, print the filter and read that  *)
(* again.                                                                  *)
EXTENDS FilterParser, SequencesExt, FiniteSetsExt

CONSTANTS
    TokenOrder,         \* all tokens as the characters of a text sort them
    Printed,            \* [comparisons with a print -> what that reads as]
    PrintedWidth,       \* [the same -> code points of the print]
    FilterTexts         \* texts to read: tokens, and length with the spaces

\* The printer keeps six digits of a number (:g), so that a comparison may be
\* printed as another one, whose print is itself; and int() raises on a number
\* too large for a float, so that some have no print.
ASSUME FilterAssumption ==
    /\ ToSet(TokenOrder) = Tokens
    /\ DOMAIN Printed \subseteq Comparisons
    /\ \A c \in DOMAIN Printed :
           Printed[c] \in DOMAIN Printed /\ Printed[Printed[c]] = Printed[c]
    /\ DOMAIN PrintedWidth = DOMAIN Printed
    /\ \A t \in FilterTexts : ToSet(t.tokens) \subseteq Tokens /\ t.length \in Nat

NoText == [tokens |-> <<>>, length |-> 0]

VARIABLES
    filterText,     \* the text given to parse
    firstParse,     \* what parse made of it
    printedText,    \* what print_filter made of that
    secondParse     \* what parse made of the print

filterVars == <<filterText, firstParse, printedText, secondParse>>

-----------------------------------------------------------------------------
(* The printer.                                                            *)

PlaceOf(t) == CHOOSE i \in DOMAIN TokenOrder : TokenOrder[i] = t

\* Texts compare as strings: by the first token that differs, a prefix first.
TextBefore(s, t) ==
    \/ IsStrictPrefix(s, t)
    \/ \E i \in DOMAIN s \cap DOMAIN t :
           /\ SubSeq(s, 1, i - 1) = SubSeq(t, 1, i - 1)
           /\ PlaceOf(s[i]) < PlaceOf(t[i])


Precedence == [or |-> 1, and |-> 2, not |-> 3, leaf |-> 4]

Joined(texts, word) ==
    FoldLeft(LAMBDA acc, t : IF acc = <<>> THEN t ELSE acc \o <<word>> \o t, <<>>, texts)

\* _print_node: children sorted by their texts, parentheses where the parent
\* binds tighter.
RECURSIVE PrintNode(_, _)
PrintNode(node, parent) ==
    CASE node.op = "leaf" -> <<Printed[node.leaf]>>
      [] node.op = "not" -> <<"not">> \o PrintNode(node.kid, 3)
      [] OTHER ->
            LET mine  == Precedence[node.op]
                texts == [k \in DOMAIN node.kids |-> PrintNode(node.kids[k], mine)]
                body  == Joined(SortSeq(texts, TextBefore), node.op)
            IN IF parent > mine THEN <<"(">> \o body \o <<")">> ELSE body

PrintFilter(node) == PrintNode(node, 0)

ComparisonsIn(ts) == ToSet(ts) \cap Comparisons

Printable(ts) == ComparisonsIn(ts) \subseteq DOMAIN Printed

\* Code points of a word in a print: a space follows "not", one stands on either
\* side of "and" and "or".
WordWidth == [w \in Reserved |-> CASE w \in {"(", ")"} -> 1 [] w = "and" -> 5 [] OTHER -> 4]

\* The length of the print of the filter read from ts.
PrintedLength(ts, print) ==
    LET words  == {i \in DOMAIN print : print[i] \in Reserved}
        leaves == {i \in DOMAIN ts : ts[i] \in Comparisons}
    IN  MapThenSumSet(LAMBDA i : WordWidth[print[i]], words)
            + MapThenSumSet(LAMBDA i : PrintedWidth[ts[i]], leaves)

\* structural_eq: the children of and/or as multisets of their texts.
RECURSIVE StructuralEq(_, _)
StructuralEq(a, b) ==
    /\ a.op = b.op
    /\ CASE a.op = "leaf" -> a.leaf = b.leaf
         [] a.op = "not" -> StructuralEq(a.kid, b.kid)
         [] OTHER ->
               SortSeq([k \in DOMAIN a.kids |-> PrintFilter(a.kids[k])], TextBefore)
             = SortSeq([k \in DOMAIN b.kids |-> PrintFilter(b.kids[k])], TextBefore)

-----------------------------------------------------------------------------

FilterInit ==
    /\ filterText = NoText
    /\ firstParse = Refused("unread") /\ printedText = NoText
    /\ secondParse = Refused("unread")

ReadFilter ==
    /\ firstParse.code = "unread"
    /\ \E text \in FilterTexts : /\ filterText' = text
                                /\ firstParse' = Parse(text.tokens, text.length)
    /\ UNCHANGED <<printedText, secondParse>>

\* Where a number has no print, the printer raises and nothing is printed.
PrintAgain ==
    /\ Accepted(firstParse) /\ printedText = NoText /\ Printable(filterText.tokens)
    /\ LET print == PrintFilter(firstParse.node) IN
           printedText' = [tokens |-> print,
                           length |-> PrintedLength(filterText.tokens, print)]
    /\ UNCHANGED <<filterText, firstParse, secondParse>>

ReadAgain ==
    /\ printedText # NoText /\ secondParse.code = "unread"
    /\ secondParse' = Parse(printedText.tokens, printedText.length)
    /\ UNCHANGED <<filterText, firstParse, printedText>>

FilterNext ==
    \/ ReadFilter
    \/ PrintAgain
    \/ ReadAgain

FilterSpec == FilterInit /\ [][FilterNext]_filterVars

FilterTypeOK ==
    /\ firstParse.code \in {"unread", "ok", "empty_input", "syntax_error", "filter_too_large"}
    /\ ToSet(printedText.tokens) \subseteq ToSet(TokenOrder)

-----------------------------------------------------------------------------
(* What the checks ask.                                                    *)

\* The grammar of parser.py, rule by rule.
RECURSIVE Sentence(_)
Sentence(ts) ==
    LET At(word) == Splits(ts, 1, Len(ts), word)
        Around(i) == Sentence(SubSeq(ts, 1, i - 1)) /\ Sentence(SubSeq(ts, i + 1, Len(ts)))
    IN  IF ts = <<>> THEN FALSE
        ELSE IF At("or") # {} THEN Around(Min(At("or")))
        ELSE IF At("and") # {} THEN Around(Min(At("and")))
        ELSE IF ts[1] = "not" THEN Sentence(Tail(ts))
        ELSE \/ Len(ts) = 1 /\ ts[1] \in Comparisons
             \/ Len(ts) > 2 /\ ts[1] = "(" /\ Last(ts) = ")"
                /\ Sentence(SubSeq(ts, 2, Len(ts) - 1))

RECURSIVE Meaning(_, _)
Meaning(node, met) ==
    CASE node.op = "leaf" -> node.leaf \in met
      [] node.op = "not" -> ~Meaning(node.kid, met)
      [] node.op = "and" -> \A k \in DOMAIN node.kids : Meaning(node.kids[k], met)
      [] node.op = "or" -> \E k \in DOMAIN node.kids : Meaning(node.kids[k], met)

HasOwnKind(node) ==
    node.op \in {"and", "or"} /\ \E k \in DOMAIN node.kids : node.kids[k].op = node.op

\* Below the nots a filter begins with.
RECURSIVE Root(_)
Root(node) == IF node.op = "not" THEN Root(node.kid) ELSE node

RECURSIVE Flat(_)
Flat(node) ==
    CASE node.op = "leaf" -> TRUE
      [] node.op = "not" -> Flat(node.kid)
      [] OTHER -> ~HasOwnKind(node) /\ \A k \in DOMAIN node.kids : Flat(node.kids[k])

PrintsAsItself(node) == node.op = "leaf" => Printed[node.leaf] = node.leaf


\* The text has been read, printed and read again as far as it can be.
FilterQuiet ==
    /\ firstParse.code # "unread"
    /\ Accepted(firstParse) /\ Printable(filterText.tokens) => secondParse.code # "unread"
=============================================================================
