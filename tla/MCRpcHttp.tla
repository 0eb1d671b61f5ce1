------------------------------ MODULE MCRpcHttp ------------------------------
(* Instances of RpcHttp for TLC; the orders of methods on all small        *)
(* prototypes, what is told about them, requests of RPC2Rest on small maps *)
(* and small results of a database.                                        *)
EXTENDS RpcHttp, TLC
CONSTANTS r1, r2
TwoRequests == {r1, r2}
TwoInOrder == <<r1, r2>>

Letters == ("*" :> 42) @@ (":" :> 58) @@ ("?" :> 63) @@ ("d" :> 100) @@ ("f" :> 102) @@ ("n" :> 110) @@ ("s" :> 115)
Order == INSTANCE Prototypes WITH Code <- Letters

SeqsOf(set, n) == UNION {[1..k -> set] : k \in 0..n}
Arguments == SeqsOf({"n", "s"}, 3)
Names == {<<"f">>, <<"f", "n">>}
MethodsFound ==
    /\ \A name \in Names, q \in SeqsOf({"n", "s", "d", "?", "*"}, 3), p \in Arguments :
          Order!FoundAsDocumented(name, q, p)
    /\ Order!StrictlyOrdered(Names \cup {Order!Prototype(name, p) : name \in Names, p \in SeqsOf({"n", "s"}, 2)})

Help == INSTANCE HelpPages
Lists == {<<>>, <<[name |-> "f", version |-> 1], [name |-> "g", version |-> Help!MaxVersion]>>}
Asked == <<[name |-> "v", version |-> 5], [name |-> "a", version |-> 0]>>
Gets == [path : {"/methods/x.js", "/client.js", ""}, query : {FALSE}, fields : {<<>>, Asked}, header : {0, 9}, has : {Help!NoTag}]
MethodsTold ==
    /\ \A times \in {t \in SeqsOf([methods : Lists, get : Gets], 3) : Len(t) > 1} : Help!TagRight(times)
    /\ \A types \in SeqsOf({"array", "number", "string"}, 3) : Help!ListRight(<<"f", ".">>, types)
    /\ \A line \in SeqsOf({"*", "/", "<", "a"}, 6) : Help!LineRight(line)
    /\ \A lines \in SeqsOf({<<"f">>, <<"tab", "a">>, <<".">>, <<>>}, 5) : Help!PagesRight(lines)

Minus == 0
Slash == 1
Letter == 2
GetMethod == 1
PostMethod == 2
Rest == INSTANCE RestMap WITH Bodied <- {PostMethod}

Paths == {<<Slash, Letter>>, <<Slash, Letter, Letter>>, <<Slash, Letter, Minus>>,
          <<Slash, Letter, Slash, Letter>>, <<Slash, Letter, Slash, Minus>>}
Keys == {[method |-> m, vpath |-> p] : m \in {GetMethod, PostMethod}, p \in Paths}
Maps == UNION {[keys -> {<<>>, <<"s", "b">>}] : keys \in {k \in SUBSET Keys : Cardinality(k) <= 3}}
RestRequests ==
    {[method |-> GetMethod, vpath |-> p, names |-> <<"n1">>, bad |-> {}] :
        p \in Paths \cup {<<Slash, Letter, Slash, Letter, Slash, Letter>>}}
    \cup {[method |-> m, vpath |-> <<Slash, Letter, Slash, Letter>>, names |-> <<"n1">>, bad |-> bad] :
             m \in {GetMethod, PostMethod}, bad \in SUBSET {"query", "body", "context"}}

RestRight ==
    /\ \A map \in Maps, r \in RestRequests, stops \in BOOLEAN : Rest!NearestCalled(map, r, stops)
    /\ \A letters \in SeqsOf({"b", "q", "s", "n", "other"}, 4), names \in SeqsOf({"n1", "n2"}, 2) :
          Rest!NamesInOrder(letters, names)

Db == INSTANCE DbRows
Texts == SeqsOf({"a", "b"}, 1)
Types == {"integer", "set", "blob"}
Described ==
    {Db!Described([i \in DOMAIN n |-> [name |-> n[i], type |-> t[i]]], hide) :
        <<n, t>> \in {<<<<"g", ".", "a">>, <<"g", ".", "b">>, <<"a">>>>, <<<<"g">>, <<"h">>, <<"h", ".", "a">>>>} \X [1..3 -> Types],
        hide \in BOOLEAN}
Formatted ==
    {Db!SetFormat(Db!SetFormat(d, d[1].name, f), d[3].name, g) :
        d \in Described, f \in {"skip", "binary"}, g \in {"skip", "jsonstr"}}
Grouped == {Db!SetGroup(d, <<"g", ".">>) : d \in Formatted} \cup Formatted
Cells == {<<[text |-> t, json |-> <<"json">>], [text |-> <<"a", ",", "b">>, json |-> <<"a">>], [text |-> u, json |-> u]>> :
            t \in Texts \cup {Db!Null}, u \in Texts}
Fields == {<<"a">>, <<"^", "a">>, <<"b">>, <<"^", "c">>}
Allowed == {[name |-> <<n>>, column |-> c] : n \in {"a", "b"}, c \in {<<"x">>, <<"x", ".", "y">>, <<>>}}
DbRight ==
    /\ \A flags \in SeqsOf(SeqsOf({"a", "b"}, 2), 3) : Db!FlagsKept(flags)
    /\ \A d \in Grouped, cells \in Cells : Db!RowRight(d, cells)
    /\ \A fields \in SeqsOf(Fields, 3), allowed \in SeqsOf(Allowed, 2) : Db!OrderRight(fields, allowed)

(* Methods are found by their prototypes and by the paths of REST, lists   *)
(* and help tell about them, and sets, orders and rows of the database are *)
(* what their results need: this does not depend on the state, so that to  *)
(* look at the first is enough.                                            *)
MethodsServed == Init => MethodsFound /\ MethodsTold /\ RestRight /\ DbRight
=============================================================================
