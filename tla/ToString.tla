------------------------------ MODULE ToString ------------------------------
(***************************************************************************)
(* toString<std::string> of cpp/godbc.hpp, which every std::string argument*)
(* of execute and query goes through: up to three passes of find-and-      *)
(* replace over a copy of the value, then a pair of quotes around it.      *)
(*                                                                         *)
(* Only the characters that the code or the server tells apart are kept:   *)
(* a quote, the brackets, the wildcard % (which also stands for _) and one *)
(* for all the others.                                                     *)
(***************************************************************************)
EXTENDS Integers, SequencesExt

CONSTANT MaxLen   \* bound: the length of a value

ASSUME MaxLenAssumption == MaxLen \in Nat

Quote == "'"
Chars == {Quote, "[", "]", "%", "x"}

VARIABLES value,    \* the argument
          escaped,  \* the copy being changed
          pos,      \* where the current pass has got to
          pass      \* what it looks for: a character, or "done"

textVars == <<value, escaped, pos, pass>>

IsLikePattern == Contains(value, "%")

TextInit ==
    /\ value \in SeqOf(Chars, MaxLen)
    /\ escaped = value
    /\ pos = 1
    /\ pass = Quote

\* escaped.find(c, pos)
Found(c) == {i \in pos..Len(escaped) : escaped[i] = c}

\* The next occurrence becomes s, and the search goes on width characters later.
Substitute(c, s, width) ==
    /\ pass = c
    /\ \E i \in Found(c) :
          /\ \A j \in Found(c) : i <= j
          /\ escaped' = SubSeq(escaped, 1, i - 1) \o s \o SubSeq(escaped, i + 1, Len(escaped))
          /\ pos' = i + width
    /\ UNCHANGED <<value, pass>>

PassEnds(c, next) ==
    /\ pass = c /\ Found(c) = {}
    /\ pass' = next /\ pos' = 1
    /\ UNCHANGED <<value, escaped>>

\* Mutant: the search skips the character after the doubled quote.
DoubleQuoteSkipping == Substitute(Quote, <<Quote, Quote>>, 3)

DoubleQuote  == Substitute(Quote, <<Quote, Quote>>, 2)
BracketOpen  == Substitute("[", <<"[", "[", "]">>, 3)
BracketClose == Substitute("]", <<"[", "]", "]">>, 3)

TextNext ==
    \/ DoubleQuote \/ PassEnds(Quote, IF IsLikePattern THEN "[" ELSE "done")
    \/ BracketOpen \/ PassEnds("[", "]")
    \/ BracketClose \/ PassEnds("]", "done")

TextSpec == TextInit /\ [][TextNext]_textVars

\* What toString returns.
Result == <<Quote>> \o escaped \o <<Quote>>

-----------------------------------------------------------------------------
(* What the server makes of a text: a reference reading of the result. *)

\* A literal's body, read left to right: two quotes are one, a lone one ends it.
Unread == [text |-> <<>>, half |-> FALSE, ok |-> TRUE]

ReadChar(r, c) ==
    IF r.half THEN [text |-> Append(r.text, Quote), half |-> FALSE, ok |-> r.ok /\ c = Quote]
    ELSE IF c = Quote THEN [r EXCEPT !.half = TRUE]
    ELSE [r EXCEPT !.text = Append(@, c)]

Read(body) ==
    LET read[i \in 0..Len(body)] == IF i = 0 THEN Unread ELSE ReadChar(read[i - 1], body[i])
    IN  read[Len(body)]

Denotes(body, text) == LET r == Read(body) IN r.ok /\ ~r.half /\ r.text = text

\* A LIKE pattern as a sequence of elements: the characters that a "[...]"
\* lists, any string for %, and the character itself otherwise.
Elements(pattern) ==
    FoldLeft(LAMBDA r, c :
               IF r.in /\ c = "]" THEN [seq |-> Append(r.seq, r.set), set |-> {}, in |-> FALSE]
               ELSE IF r.in THEN [r EXCEPT !.set = @ \cup {c}]
               ELSE IF c = "[" THEN [r EXCEPT !.in = TRUE]
               ELSE [r EXCEPT !.seq = Append(@, IF c = "%" THEN {} ELSE {c})],
             [seq |-> <<>>, set |-> {}, in |-> FALSE], pattern).seq

\* The same pattern with every bracket standing for itself.
Plainly(pattern) == [i \in DOMAIN pattern |-> IF pattern[i] = "%" THEN {} ELSE {pattern[i]}]

-----------------------------------------------------------------------------
(* Properties. *)

\* Type invariant.
TextTypeOK ==
    /\ value \in Seq(Chars) /\ escaped \in Seq(Chars)
    /\ pos \in 1..(Len(escaped) + 1)
    /\ pass \in {Quote, "[", "]", "done"}

\* As a literal of a SQL text, the result denotes the value, however its quotes
\* are placed, unless the value looks like a pattern with brackets in it.
LiteralDenotes ==
    pass = "done" /\ ~(IsLikePattern /\ \E c \in {"[", "]"} : Contains(value, c)) =>
        Denotes(escaped, value)

\* "For LIKE patterns, we need to escape [ and ] characters": after it an
\* opening bracket stands for itself.
OpenBracketIsLiteral ==
    pass = "done" /\ IsLikePattern /\ ~Contains(value, "]") =>
        Elements(Read(escaped).text) = Plainly(value)

\* The result is not put into the query's text: the bridge binds it to a
\* parameter as it is.  The value bound is the argument.
BoundAsGiven == pass = "done" => Result = value
=============================================================================
