------------------------------- MODULE LiveLog -------------------------------
(***************************************************************************)
(* The live log (livelog.cpp): its filters, what a request for it gets,    *)
(* and what a listener writes of a piece of the log to its connection,     *)
(* which takes what it can at once and loses the rest.                     *)
(*                                                                         *)
(* A filter is words joined by and, or, not and parentheses, two words     *)
(* without an operator between them by and. A token is <<text, bare>>,     *)
(* bare when it is not in quotes; a filter means the set of lines it       *)
(* accepts, a line the set of words it contains.                           *)
(***************************************************************************)
EXTENDS Integers, Sequences, FiniteSets, SequencesExt

CONSTANT Lines

EndOfText == <<"", TRUE>>
Item(rest) == IF rest = <<>> THEN EndOfText ELSE Head(rest)
Remaining(rest) == IF rest = <<>> THEN rest ELSE Tail(rest)
Is(token, word) == token = <<word, TRUE>>

(* Contains: every line contains the empty word. *)
LinesWith(token) == {l \in Lines : token[1] = "" \/ token[1] \in l}

Failed == [accepts |-> {}, next |-> EndOfText, rest |-> <<>>, error |-> TRUE]
And(lines, r) == [r EXCEPT !.accepts = lines \cap @]
Or(lines, r) == [r EXCEPT !.accepts = lines \cup @]
Not(r) == [r EXCEPT !.accepts = Lines \ @]

RECURSIVE ParseFilter(_), ParseAnd(_), ParseValue(_), ProcessValue(_, _), Continue(_, _)

(* What follows a value: an operator, the end, or a value again - a ")" as *)
(* well.                                                                   *)
Continue(lines, rest) ==
    LET next == Item(rest)
    IN  IF Is(next, "and") \/ Is(next, "or") \/ next = EndOfText
        THEN [accepts |-> lines, next |-> next, rest |-> Remaining(rest), error |-> FALSE]
        ELSE And(lines, ProcessValue(next, Remaining(rest)))

ProcessValue(token, rest) ==
    IF Is(token, "(")
    THEN LET r == ParseFilter(rest)
         IN  IF r.error \/ ~Is(r.next, ")") THEN Failed ELSE Continue(r.accepts, r.rest)
    ELSE IF Is(token, "not") THEN Not(ParseValue(rest))
    ELSE Continue(LinesWith(token), rest)

ParseValue(rest) == ProcessValue(Item(rest), Remaining(rest))

ParseAnd(rest) ==
    LET r == ParseValue(rest)
    IN  IF ~r.error /\ Is(r.next, "and") THEN And(r.accepts, ParseAnd(r.rest)) ELSE r

ParseFilter(rest) ==
    LET r == ParseAnd(rest)
    IN  IF ~r.error /\ Is(r.next, "or") THEN Or(r.accepts, ParseFilter(r.rest)) ELSE r

(* setFilter *)
Parse(tokens) ==
    LET r == ParseFilter(tokens)
    IN  IF r.next = EndOfText THEN r ELSE Failed

-----------------------------------------------------------------------------
(* The meaning a filter should have (livelog.cpp:217-220): parentheses     *)
(* group, or binds least, not goes as far as the next operator.            *)
Operators == {<<"and", TRUE>>, <<"or", TRUE>>}
Depth(tokens, i) ==
    Cardinality({k \in 1..i : Is(tokens[k], "(")}) - Cardinality({k \in 1..i : Is(tokens[k], ")")})
WellFormed(tokens) ==
    /\ tokens # <<>> /\ Depth(tokens, Len(tokens)) = 0
    /\ \A i \in DOMAIN tokens :
          LET starts == i = 1 \/ tokens[i - 1] \in Operators \cup {<<"not", TRUE>>, <<"(", TRUE>>}
          IN  /\ Depth(tokens, i) >= 0
              /\ tokens[i] \in Operators \cup {<<")", TRUE>>} => ~starts
              /\ tokens[i] \in Operators \cup {<<"not", TRUE>>, <<"(", TRUE>>} => i < Len(tokens)

(* What is between the operators of a kind that are in no parentheses. *)
Pieces(tokens, at) ==
    LET cuts == {0, Len(tokens) + 1} \cup {i \in DOMAIN tokens : Is(tokens[i], at) /\ Depth(tokens, i) = 0}
    IN  {SubSeq(tokens, p[1] + 1, p[2] - 1) :
            p \in {q \in cuts \X cuts : q[1] < q[2] /\ ~\E c \in cuts : q[1] < c /\ c < q[2]}}

RECURSIVE Meant(_, _), Term(_, _)
Meant(line, tokens) ==
    \E clause \in Pieces(tokens, "or") : \A t \in Pieces(clause, "and") : Term(line, t)
Term(line, tokens) ==
    IF tokens = <<>> THEN TRUE
    ELSE IF Is(Head(tokens), "not") THEN ~Term(line, Tail(tokens))
    ELSE IF ~Is(Head(tokens), "(") THEN Head(tokens)[1] \in line /\ Term(line, Tail(tokens))
    ELSE LET close == CHOOSE i \in DOMAIN tokens :
                          Depth(tokens, i) = 0 /\ \A k \in 1..i - 1 : Depth(tokens, k) > 0
         IN  Meant(line, SubSeq(tokens, 2, close - 1)) /\ Term(line, SubSeq(tokens, close + 1, Len(tokens)))

(* A filter means what it says.                                            *)
(* Known defect: one with parentheses, which the form tells users to use   *)
(* (livelog.cpp:218-220), is refused: a ")" is taken for a value like any  *)
(* other word, and so never found where a group should end (144, 152).     *)
GroupRefused(tokens) == (\E t \in Range(tokens) : Is(t, "(")) /\ Parse(tokens).error
FilterRight(tokens) ==
    WellFormed(tokens) =>
        \/ GroupRefused(tokens)
        \/ ~Parse(tokens).error /\ Parse(tokens).accepts = {l \in Lines : Meant(l, tokens)}

-----------------------------------------------------------------------------
Levels == {"fatal", "error", "warning", "note", "progress", "info", "debug", "all"}

(* onRequest. The fields of the query are read up to one that asks for the *)
(* form; of filters the last is applied.                                   *)
Page(status, kind) == [status |-> status, kind |-> kind, accepts |-> {}, note |-> "none"]
Filters(fields) == SelectSeq(fields, LAMBDA f : f.name = "applyfilter")

Listener(tokens, asEventStream) ==
    LET r == Parse(tokens)
        told(note) == [Page(200, "stream") EXCEPT !.accepts = Lines, !.note = note]
    IN  IF tokens = <<>> THEN told(IF asEventStream THEN "none" ELSE "hint")
        ELSE IF r.error THEN told("error")
        ELSE [told("applied") EXCEPT !.accepts = r.accepts]

OnRequest(path, fields, asEventStream) ==
    IF path = "" THEN Page(301, "redirect")
    ELSE IF path = "/" THEN Page(200, "list")
    ELSE IF path \notin Levels THEN Page(404, "error")
    ELSE IF \E i \in DOMAIN fields : fields[i].name = "filter" THEN Page(200, "form")
    ELSE Listener(IF Filters(fields) = <<>> THEN <<>> ELSE Last(Filters(fields)).tokens, asEventStream)

-----------------------------------------------------------------------------
(* onData of the lines of a text that the filter accepts: each line is     *)
(* three pieces for an event stream, else two; an empty one is left out,   *)
(* and one ends the event.                                                 *)
EndOfLine == <<"end">>
LinePieces(line, asEventStream) ==
    IF line = "" THEN <<>>
    ELSE (IF asEventStream THEN <<<<"data">>>> ELSE <<>>) \o <<<<"text", line>>, EndOfLine>>
TextPieces(lines, asEventStream) ==
    FlattenSeq([i \in DOMAIN lines |-> LinePieces(lines[i], asEventStream)])
        \o (IF asEventStream THEN <<EndOfLine>> ELSE <<>>)

(* writeConn: a piece is written if the connection takes it right now.     *)
Written(pieces, ready) ==
    FlattenSeq([i \in DOMAIN pieces |-> IF i \in ready THEN <<pieces[i]>> ELSE <<>>])

(* Input, the end of the connection included, is noticed on texts that the *)
(* filter refuses, and there only.                                         *)
OnData(lines, accepted, input, asEventStream, ready) ==
    [out |-> IF accepted THEN Written(TextPieces(lines, asEventStream), ready) ELSE <<>>,
     fails |-> ~accepted /\ input]

-----------------------------------------------------------------------------
(* A client that waits for lines gets those of the last filter it names;   *)
(* if that one does not parse it is told, and gets all.                    *)
StreamRight(path, fields, asEventStream) ==
    LET page == OnRequest(path, fields, asEventStream)
        filters == Filters(fields)
    IN  page.kind = "stream" =>
            /\ path \in Levels /\ \A i \in DOMAIN fields : fields[i].name # "filter"
            /\ page.accepts # Lines =>
                 filters # <<>> /\ page.note = "applied" /\ FilterRight(Last(filters).tokens)
            /\ filters # <<>> /\ Last(filters).tokens # <<>> =>
                 (page.note = "error" <=> Parse(Last(filters).tokens).error)

(* What an event stream makes of it: lines up to an end, those that start  *)
(* with "data: ". Pieces that are lost lose lines, but change or join none *)
(* as long as no end of a line is among them.                              *)
Splits(out) == {0} \cup {i \in DOMAIN out : out[i] = EndOfLine}
EventLines(out) ==
    {SubSeq(out, a + 1, b - 1) : <<a, b>> \in
        {w \in Splits(out) \X Splits(out) : w[1] < w[2] /\ ~\E c \in Splits(out) : w[1] < c /\ c < w[2]}}
EventsWhole(lines, ready) ==
    LET pieces == TextPieces(lines, TRUE)
        out == OnData(lines, TRUE, FALSE, TRUE, ready).out
        whole == {<<<<"data">>, <<"text", lines[i]>>>> : i \in {j \in DOMAIN lines : lines[j] # ""}}
        received == {l \in EventLines(out) : Len(l) > 1}
    IN  /\ DOMAIN pieces \subseteq ready => received = whole
        /\ (\A i \in DOMAIN pieces : pieces[i] = EndOfLine => i \in ready) => received \subseteq whole
=============================================================================
