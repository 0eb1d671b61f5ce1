------------------------------- MODULE RestMap -------------------------------
(***************************************************************************)
(* RPC2Rest: which method of the server a REST request calls, and with     *)
(* which arguments. Characters and HTTP methods are numbers in the order   *)
(* of their codes, texts are sequences of them without upper case.         *)
(***************************************************************************)
EXTENDS Naturals, Sequences, SequencesExt

CONSTANTS Slash, Bodied    \* the HTTP methods that have a body

Before(a, b) ==
    \E n \in 0..Len(a) :
        /\ n < Len(b) /\ SubSeq(a, 1, n) = SubSeq(b, 1, n)
        /\ n = Len(a) \/ a[n + 1] < b[n + 1]

(* CmpKeys. It calls equal keys ordered, so that it is for the map         *)
(* (external) whether seek() stops at the key itself or behind it.         *)
KeyBefore(a, b) ==
    \/ a.method < b.method
    \/ a.method = b.method /\ Before(a.vpath, b.vpath)
SeekFrom(keys, key, stops) == {k \in keys : KeyBefore(k, key) \/ (stops /\ k = key)}
Nearest(keys) == CHOOSE k \in keys : \A j \in keys : j = k \/ KeyBefore(j, k)

Rest(k, key) == SubSeq(key.vpath, Len(k.vpath) + 1, Len(key.vpath))
Holds(k, key) == k.method = key.method /\ IsPrefix(k.vpath, key.vpath)

NotFound == [status |-> 404, called |-> <<>>]
Nothing == [status |-> 0, called |-> <<>>]

(* Arguments: b is the body and q the query; s and n take the next name of *)
(* the path, if there is one left.                                         *)
Bind(acc, letter, names) ==
    IF ~acc.ok THEN acc
    ELSE IF letter \in {"b", "q"} THEN [acc EXCEPT !.args = Append(@, <<letter>>)]
    ELSE IF acc.at > Len(names) THEN acc
    ELSE IF letter \notin {"s", "n"} THEN [acc EXCEPT !.ok = FALSE]
    ELSE [acc EXCEPT !.args = Append(@, <<letter, names[acc.at]>>), !.at = @ + 1]
Arguments(letters, names) ==
    FoldLeft(LAMBDA acc, letter : Bind(acc, letter, names), [args |-> <<>>, at |-> 1, ok |-> TRUE], letters)

(* bad are the parts of the request that do not parse.                     *)
CallMethod(k, letters, request) ==
    LET a == Arguments(letters, request.names)
    IN  IF "query" \in request.bad \/ ("body" \in request.bad /\ request.method \in Bodied)
               \/ "context" \in request.bad
        THEN [Nothing EXCEPT !.status = 400]
        ELSE IF ~a.ok THEN NotFound
        ELSE [Nothing EXCEPT !.called = <<k, a.args>>]

(* The keys are walked downwards from the request's; those that only share *)
(* the beginning of a name with it are passed over. The very path is not   *)
(* called: it is refused if the method takes arguments, and ignored if not.*)
OnRequest(map, request, stops) ==
    LET key == [method |-> request.method, vpath |-> request.vpath]
        walk[keys \in SUBSET DOMAIN map] ==
            IF keys = {} THEN NotFound
            ELSE LET k == Nearest(keys) IN
                 IF ~Holds(k, key) THEN NotFound
                 ELSE IF Rest(k, key) = <<>> THEN (IF map[k] = <<>> THEN Nothing ELSE NotFound)
                 ELSE IF Head(Rest(k, key)) # Slash THEN walk[keys \ {k}]
                 ELSE CallMethod(k, map[k], request)
    IN  walk[SeekFrom(DOMAIN map, key, stops)]

-----------------------------------------------------------------------------
(* The method that is registered for a request is the one with the longest *)
(* key that ends where a name of the path does.                            *)
Fits(k, request) ==
    Holds(k, request) /\ (Rest(k, request) = <<>> \/ Head(Rest(k, request)) = Slash)
LongestFit(k, map, request) ==
    k \in DOMAIN map /\ Fits(k, request) /\ \A j \in DOMAIN map : Fits(j, request) => Len(j.vpath) <= Len(k.vpath)

(* Known defects: what is there is not called. A path without names behind *)
(* its key: the code prepares to take it for one that ends with a slash,   *)
(* but goes on to nothing (RPC2Rest.cpp:107), or refuses it (106). A key   *)
(* below which the map has one for another path, where the walk ends       *)
(* (101-102). And the map may stop at the key or behind it, since the      *)
(* order calls equal keys ordered (232): behind it, a shorter key is taken *)
(* for the right one.                                                      *)
VeryPathLost(k, request) == k.vpath = request.vpath
Shadowed(k, map, request) ==
    \E j \in DOMAIN map : KeyBefore(k, j) /\ KeyBefore(j, request) /\ ~Holds(j, request)
VeryPathPassed(k, map, request, stops) ==
    ~stops /\ \E j \in DOMAIN map : Holds(j, request) /\ Rest(j, request) = <<>> /\ Len(k.vpath) < Len(j.vpath)

(* What is called is what is registered for the request, once everything   *)
(* parses; and it is called, but for the defects named.                    *)
NearestCalled(map, request, stops) ==
    LET answer == OnRequest(map, request, stops)
    IN  /\ answer.called # <<>> =>
             LET k == answer.called[1] IN
             /\ answer.status = 0 /\ (LongestFit(k, map, request) \/ VeryPathPassed(k, map, request, stops))
             /\ request.bad \subseteq (IF request.method \in Bodied THEN {} ELSE {"body"})
        /\ \A k \in DOMAIN map :
             LongestFit(k, map, request) /\ request.bad = {} /\ Range(map[k]) \subseteq {"b", "q", "s", "n"} =>
                 (answer.called # <<>> /\ answer.called[1] = k) \/ VeryPathLost(k, request) \/ Shadowed(k, map, request)

(* The names of the path are handed over in order and none twice, and each *)
(* argument is at the place of its letter.                                 *)
(* Known defect: a name that the path lacks is left out, so that a body or *)
(* a query moves up in its place (RPC2Rest.cpp:163-165).                   *)
MovedUp(letters, names) ==
    \E i \in DOMAIN letters :
        /\ letters[i] \in {"b", "q"}
        /\ Len(SelectSeq(SubSeq(letters, 1, i), LAMBDA x : x \notin {"b", "q"})) > Len(names)
NamesInOrder(letters, names) ==
    LET a == Arguments(letters, names)
        given == SelectSeq(a.args, LAMBDA x : x[1] \notin {"b", "q"})
    IN  a.ok => /\ \A i \in DOMAIN given : given[i][2] = names[i]
                /\ \/ MovedUp(letters, names)
                   \/ /\ \A i \in DOMAIN a.args : a.args[i][1] = letters[i]
                      /\ Len(given) < Len(names) => Len(a.args) = Len(letters)
=============================================================================
