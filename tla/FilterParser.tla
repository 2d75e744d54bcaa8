----------------------------- MODULE FilterParser -----------------------------
(* The parser of the query filter language (backend/query_filter/parser.py) *)
(* and what it should do with a text: which texts are filters, and what a   *)
(* filter means.  A text is a sequence of tokens and its length, the spaces *)
(* between them counted; a comparison, its field, operator and values, is   *)
(* one token.  The parser never looks back, so that it is one step per      *)
(* token, on the calls that have not returned.                              *)
EXTENDS Integers, Sequences, FiniteSets

CONSTANTS
    Comparisons,        \* comparison tokens
    MaxLength,          \* MAX_INPUT_LENGTH, in code points
    MaxNesting,         \* MAX_NESTING_DEPTH
    MaxLeaves           \* MAX_LEAF_COUNT

Reserved == {"(", ")", "and", "or", "not"}

Tokens == Comparisons \cup Reserved

ASSUME ParserAssumption ==
    /\ Comparisons \cap Reserved = {}
    /\ MaxLength \in Nat /\ MaxNesting \in Nat \ {0} /\ MaxLeaves \in Nat

-----------------------------------------------------------------------------
(* The parser.                                                             *)

Refused(code) == [code |-> code]

Parsed(node) == [code |-> "ok", node |-> node]

Accepted(r) == r.code = "ok"

\* A call of parse_expr that has not returned: the children its parse_or_expr
\* has, those of the parse_and_expr under way, and the calls of parse_not_expr
\* in it that wait for their child.
NewCall == [ors |-> <<>>, ands |-> <<>>, nots |-> 0]

\* Before the first token: parse_expr wants an operand.
ParseInit == [code |-> "ok", outer |-> <<>>, call |-> NewCall, wanted |-> TRUE, leaves |-> 0]

\* A single child stands for itself.
Node(word, kids) == IF Len(kids) = 1 THEN kids[1] ELSE [op |-> word, kids |-> kids]

Negated(nots, node) ==
    LET n[k \in 0..nots] == IF k = 0 THEN node ELSE [op |-> "not", kid |-> n[k - 1]]
    IN n[nots]

\* parse_primary has returned the node: so do the waiting calls of
\* parse_not_expr, and parse_and_expr has one more child.
Took(call, node) ==
    [call EXCEPT !.ands = Append(@, Negated(call.nots, node)), !.nots = 0]

\* parse_and_expr returns.
AndOver(call) == [call EXCEPT !.ors = Append(@, Node("and", call.ands)), !.ands = <<>>]

Built(call) == Node("or", AndOver(call).ors)

\* parse_not_expr and parse_primary: the nesting is counted by parse_expr, the
\* comparisons by parse_comparison.
ReadOperand(s, t) ==
    CASE t = "not" -> [s EXCEPT !.call.nots = @ + 1]
      [] t = "(" /\ Len(s.outer) + 2 > MaxNesting -> [s EXCEPT !.code = "filter_too_large"]
      [] t = "(" /\ Len(s.outer) + 2 <= MaxNesting ->
            [s EXCEPT !.outer = Append(@, s.call), !.call = NewCall]
      [] t \in Comparisons /\ s.leaves + 1 > MaxLeaves -> [s EXCEPT !.code = "filter_too_large"]
      [] t \in Comparisons /\ s.leaves + 1 <= MaxLeaves ->
            [s EXCEPT !.call = Took(@, [op |-> "leaf", leaf |-> t]),
                      !.wanted = FALSE, !.leaves = @ + 1]
      [] OTHER -> [s EXCEPT !.code = "syntax_error"]

\* The loops of parse_and_expr and parse_or_expr; without "and" or "or" both
\* return, to parse_primary, which expects ")", or to parse, which expects
\* no more.
ReadWord(s, t) ==
    CASE t = "and" -> [s EXCEPT !.wanted = TRUE]
      [] t = "or" -> [s EXCEPT !.call = AndOver(@), !.wanted = TRUE]
      [] t = ")" /\ s.outer # <<>> ->
            [s EXCEPT !.call = Took(s.outer[Len(s.outer)], Built(s.call)),
                      !.outer = SubSeq(@, 1, Len(@) - 1)]
      [] OTHER -> [s EXCEPT !.code = "syntax_error"]

ParseStep(s, t) ==
    IF s.code # "ok" THEN s
    ELSE IF s.wanted THEN ReadOperand(s, t) ELSE ReadWord(s, t)

\* What parse returns at the end of the text.
ParseEnds(s) ==
    CASE s.code # "ok" -> Refused(s.code)
      [] s.code = "ok" /\ (s.wanted \/ s.outer # <<>>) -> Refused("syntax_error")
      [] OTHER -> Parsed(Built(s.call))

ReadThrough(ts) ==
    LET read[n \in 0..Len(ts)] ==
            IF n = 0 THEN ParseInit ELSE ParseStep(read[n - 1], ts[n])
    IN  ParseEnds(read[Len(ts)])

\* parse looks first whether there is anything, then at the length.
Parse(ts, length) ==
    CASE ts = <<>> -> Refused("empty_input")
      [] ts # <<>> /\ length > MaxLength -> Refused("filter_too_large")
      [] OTHER -> ReadThrough(ts)

-----------------------------------------------------------------------------
(* The language, defined on texts without a parser.                        *)

\* How many of the first n tokens are in S; how many parentheses they leave open.
Seen(ts, n, S) == Cardinality({j \in 1..n : ts[j] \in S})

Opened(ts, n) == Seen(ts, n, {"("}) - Seen(ts, n, {")"})

Begins(t) == t \in Comparisons \cup {"(", "not"}

Ends(t) == t \in Comparisons \cup {")"}

\* An operand begins where none has ended just before, nowhere else, and the
\* parentheses match.
WellFormed(ts) ==
    /\ ts # <<>> /\ Begins(ts[1]) /\ Ends(ts[Len(ts)])
    /\ \A n \in 1..(Len(ts) - 1) : Begins(ts[n + 1]) <=> ~Ends(ts[n])
    /\ \A n \in 1..Len(ts) : Opened(ts, n) >= 0
    /\ Opened(ts, Len(ts)) = 0

\* The whole filter counts as one level.
TokensInLimits(ts) ==
    /\ \A n \in 1..Len(ts) : Opened(ts, n) < MaxNesting
    /\ Seen(ts, Len(ts), Comparisons) <= MaxLeaves

WithinLimits(ts, length) == length <= MaxLength /\ TokensInLimits(ts)

\* The parser accepts the well-formed texts within its limits and no other,
\* never a part of one, and a refusal names a rule that the text breaks
\* (R11.1-R11.4).
ParsedExactly(ts, length) ==
    LET result == Parse(ts, length) IN
    /\ Accepted(result) <=> WellFormed(ts) /\ WithinLimits(ts, length)
    /\ result.code = "empty_input" <=> ts = <<>>
    /\ result.code = "syntax_error" => ~WellFormed(ts)
    /\ result.code = "filter_too_large" => ~WithinLimits(ts, length)
    /\ result.code \in {"ok", "empty_input", "syntax_error", "filter_too_large"}

\* Where the text from i to j has this word outside all its parentheses.
Splits(ts, i, j, word) ==
    {k \in i..j : ts[k] = word /\ Opened(ts, k) = Opened(ts, i - 1)}

LastOf(S) == CHOOSE k \in S : \A l \in S : l <= k

\* Whether a part of a well-formed text holds where the comparisons in met
\* do, given what the shorter parts do: or binds least, then and, then not.
PartHolds(ts, met, h, i, j) ==
    IF i > j THEN FALSE
    ELSE IF Splits(ts, i, j, "or") # {} THEN
        LET k == LastOf(Splits(ts, i, j, "or")) IN h[<<i, k - 1>>] \/ h[<<k + 1, j>>]
    ELSE IF Splits(ts, i, j, "and") # {} THEN
        LET k == LastOf(Splits(ts, i, j, "and")) IN h[<<i, k - 1>>] /\ h[<<k + 1, j>>]
    ELSE IF ts[i] = "not" THEN ~h[<<i + 1, j>>]
    ELSE IF i = j THEN ts[i] \in met
    ELSE h[<<i + 1, j - 1>>]

\* By the places at which a part begins and ends.
PartsOf(ts) == (1..(Len(ts) + 1)) \X (0..Len(ts))

Holds(ts, met) ==
    LET h[p \in PartsOf(ts)] == PartHolds(ts, met, h, p[1], p[2])
    IN h[<<1, Len(ts)>>]
=============================================================================
