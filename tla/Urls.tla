-------------------------------- MODULE Urls --------------------------------
(***************************************************************************)
(* What the server computes with paths: the handlers that match a path     *)
(* (PathMapper), the virtual path of a request and the way back            *)
(* (HostMapper), the address behind proxies (ConnHandler) and the fields   *)
(* of a query (QueryParser). Paths are sequences of "/", "?" and names.    *)
(***************************************************************************)
EXTENDS Naturals, Sequences, SequencesExt

First(s, c) == SelectInSeq(s, LAMBDA x : x = c)
Offset(s, n) == SubSeq(s, n + 1, Len(s))
WithoutQuery(s) == LET n == First(s, "?") IN IF n = 0 THEN s ELSE SubSeq(s, 1, n - 1)
QueryOf(s) == Offset(s, Len(WithoutQuery(s)))
StartsWith(s, p) == IsPrefix(p, s)
EndsWith(s, c) == s # <<>> /\ Last(s) = c

-----------------------------------------------------------------------------
(* PathMapper: the keys that match path, and the one that MappingIter      *)
(* comes to after it has cut the path to less than below.                  *)
Matches(path) ==
    LET p == WithoutQuery(path)
    IN  {SubSeq(p, 1, n) : n \in {m \in 0..Len(p) : m \in {0, Len(p)} \/ p[m + 1] = "/"}}

KeysBelow(map, path, below) == {k \in Matches(path) \cap DOMAIN map : Len(k) < below}
NextKey(map, path, below) ==
    LET keys == KeysBelow(map, path, below)
    IN  CHOOSE k \in keys : \A j \in keys : Len(j) <= Len(k)

-----------------------------------------------------------------------------
(* HostMapper. A mapping that names no target maps to the root if its path *)
(* is a folder, else it cuts its path off.                                 *)
DefaultMapping == [path |-> <<"/">>, target |-> <<"/">>]
UrlMapping(path) == [path |-> path, target |-> IF path = <<>> \/ EndsWith(path, "/") THEN <<"/">> ELSE <<>>]

IsMapped(m, path) == StartsWith(path, m.path)
MapRequest(m, path) == m.target \o Offset(path, Len(m.path))

(* A path of the root, mapped back. Whether it starts with a slash is      *)
(* tested the wrong way round: it gets one if it has one.                  *)
Joined(m, rest) ==
    IF m.path = <<>> THEN rest
    ELSE IF EndsWith(m.path, "/") /\ StartsWith(rest, <<"/">>) THEN m.path \o Tail(rest)
    ELSE IF ~EndsWith(m.path, "/") /\ ~StartsWith(rest, <<"/">>) THEN m.path \o <<"/">> \o rest
    ELSE m.path \o rest
MapBack(m, vpath) ==
    LET path == Joined(m, Offset(vpath, Len(m.target)))
    IN  IF StartsWith(path, <<"/">>) THEN <<"/">> \o path ELSE path

(* getAbsoluteUrl, what follows the host; "+/" adds to the current path    *)
(* and keeps its query, also next to one of its own.                       *)
Linkable(m, rel) == StartsWith(rel, <<"/">>) => StartsWith(rel, m.target)
AbsoluteUrl(m, cur, rel) ==
    IF rel = <<>> THEN cur
    ELSE IF StartsWith(rel, <<"+", "/">>) THEN WithoutQuery(cur) \o Tail(rel) \o QueryOf(cur)
    ELSE IF rel[1] = "/" THEN MapBack(m, rel)
    ELSE SubSeq(WithoutQuery(cur), 1, SelectLastInSeq(WithoutQuery(cur), LAMBDA c : c = "/")) \o rel

(* redirect(); a location with a scheme is taken as it is.                 *)
Redirect(m, cur, url, code) ==
    [location |-> IF StartsWith(url, <<"http:">>) THEN url ELSE AbsoluteUrl(m, cur, url),
     code |-> IF code # 0 THEN code ELSE IF StartsWith(url, <<"+">>) THEN 301 ELSE 307]

-----------------------------------------------------------------------------
(* An address is a text, and trusted if the list of trusted proxies, which *)
(* is a text as well, holds it somewhere (isPeerTrustedProxy).             *)
Trusts(list, ip) == \E n \in 0..Len(list) : StartsWith(Offset(list, n), ip)

(* getRealAddr, from the last of the elements of X-Forwarded-For to the    *)
(* second, then the first. At an empty one the loop does not go on.        *)
ForEver == <<"for ever">>
RealAddr(ip, proxies, list) ==
    LET step(hop, at) ==
            IF at.ends THEN at
            ELSE IF hop = <<>> THEN [addr |-> ForEver, ends |-> TRUE]
            ELSE IF Trusts(list, at.addr) THEN [at EXCEPT !.addr = hop]
            ELSE [at EXCEPT !.ends = TRUE]
        end == FoldRight(step, Tail(proxies), [addr |-> ip, ends |-> FALSE])
    IN  IF ~end.ends /\ Trusts(list, end.addr) THEN Head(proxies) ELSE end.addr

(* QueryParser: preload skips an empty item by calling itself, then fills  *)
(* the field it has read with nothing.                                     *)
QueryFields(items) ==
    FoldLeft(LAMBDA acc, item :
                 IF acc.skipping THEN [acc EXCEPT !.skipping = item = ""]
                 ELSE [fields |-> Append(acc.fields, item), skipping |-> item = ""],
             [fields |-> <<>>, skipping |-> FALSE], items).fields
=============================================================================
