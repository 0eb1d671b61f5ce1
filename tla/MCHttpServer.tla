---------------------------- MODULE MCHttpServer ----------------------------
(* An instance of HttpServer for TLC: three sites beside the statistics,   *)
(* and the calculations of Urls, StaticPages, StatBuffer, LiveLog and Sha1 *)
(* on small inputs.                                                        *)
EXTENDS HttpServer, TLC

A == <<"/", "a">>
AB == <<"/", "a", "/", "b">>
S == <<"/", "s">>
V == <<"/", "v">>

SomeSites == (<<>> :> "root") @@ (A :> "ha") @@ (AB :> "hb")
SomeBehaviours ==
    {[root |-> w[1], ha |-> w[2], hb |-> w[3], stats |-> "take", new |-> "take"] :
        w \in {<<"cancel", "forward", "forward">>, <<"take", "link", "forward">>, <<"take", "edit", "pass">>}}
SomeTargets == [ha |-> <<"/">>, hb |-> A]
SomeSources ==
    {[host |-> "h", path |-> V \o AB], [host |-> "h", path |-> V], [host |-> "i", path |-> S]}
SomeJobs == {{<<1, "edit">>}}
SomeMapping == <<"h", V>>
SomeOthers == {"main", "worker"}

-----------------------------------------------------------------------------
SeqsOf(set, n) == UNION {[1..k -> set] : k \in 0..n}

Mappings == [path : {<<>>, <<"/">>, V, V \o <<"/">>}, target : {<<>>, <<"/">>, A, A \o <<"/">>}]
Paths == {p \in SeqsOf({"/", "v", "a"}, 5) :
            StartsWith(p, <<"/">>) /\ \A i \in 2..Len(p) : <<p[i - 1], p[i]>> # <<"/", "/">>}
OnBoundary(m, p) == \/ Len(p) = Len(m.path) \/ m.path = <<>> \/ EndsWith(m.path, "/")
                    \/ p[Len(m.path) + 1] = "/"

(* The link to a mapped path without empty names leads back to it, or to   *)
(* the folder of that name, if the mapping's path ends where a name does.  *)
(* Known defect: the test for a slash at the beginning is the wrong way    *)
(* round (hostMapper.cpp:159-162): every link has one too many or lacks    *)
(* it. The exception is exactly that, what the right test would have made. *)
LeadsBack(link, p) == link = p \/ link = p \o <<"/">>
SlashInverted(link, p) ==
    LeadsBack(IF StartsWith(link, <<"/">>) THEN Tail(link) ELSE <<"/">> \o link, p)
LinksLeadBack ==
    \A m \in Mappings, p \in Paths :
        IsMapped(m, p) /\ StartsWith(MapRequest(m, p), <<"/">>) /\ OnBoundary(m, p) =>
            LET link == AbsoluteUrl(m, p, MapRequest(m, p))
            IN  Linkable(m, MapRequest(m, p)) /\ (LeadsBack(link, p) \/ SlashInverted(link, p))

(* A redirect to "+/" leads to the same handler's folder, for good, and    *)
(* the query comes along.                                                  *)
FolderFound ==
    \A m \in Mappings, p \in Paths, query \in {<<>>, <<"?", "a">>} :
        IsMapped(m, p) =>
            LET r == Redirect(m, p \o query, <<"+", "/">>, 0)
            IN  /\ r.code = 301 /\ IsMapped(m, WithoutQuery(r.location)) /\ QueryOf(r.location) = query
                /\ MapRequest(m, WithoutQuery(r.location)) = MapRequest(m, p) \o <<"/">>

(* The address is the nearest that is not in the list of trusted proxies,  *)
(* or the farthest of all (httprequest.h:776-781).                         *)
(* Known defects: an address that is part of a listed one counts as listed *)
(* (httpServer.cpp:133), and at an empty element of X-Forwarded-For, but   *)
(* for the first, the loop goes on for ever (ConnHandler.cpp:228).         *)
Addresses == {<<"1">>, <<"2">>, <<"1", "2">>}
Listed(proxies) == FlattenSeq([i \in DOMAIN proxies |-> proxies[i] \o <<",">>])
PartOfListed(hops, trusted) ==
    \E i \in DOMAIN hops : hops[i] \notin Range(trusted) /\ \E p \in Range(trusted) : Trusts(p, hops[i])
ReadForEver(proxies, addr) == addr = ForEver /\ \E i \in 2..Len(proxies) : proxies[i] = <<>>
NearestUntrusted ==
    \A ip \in Addresses, trusted \in SeqsOf(Addresses, 2), proxies \in SeqsOf(Addresses \cup {<<>>}, 3) \ {<<>>} :
        LET hops == <<ip>> \o Reverse(proxies)
            good == {i \in DOMAIN hops : hops[i] \notin Range(trusted)}
            addr == RealAddr(ip, proxies, Listed(trusted))
        IN  \/ addr = hops[IF good = {} THEN Len(hops) ELSE CHOOSE i \in good : \A j \in good : i <= j]
            \/ PartOfListed(hops, trusted) \/ ReadForEver(proxies, addr)

(* A query loses exactly the fields that follow an empty one.              *)
FieldsLost ==
    \A items \in SeqsOf({"", "p", "q"}, 5) :
        SelectSeq(QueryFields(items), LAMBDA f : f # "") =
            FlattenSeq([i \in DOMAIN items |->
                           IF items[i] = "" \/ (i > 1 /\ items[i - 1] = "") THEN <<>> ELSE <<items[i]>>])

Buffer == INSTANCE StatBuffer WITH Length <- 3
Records == {r \in SeqsOf([at : 0..6], 4) : r # <<>> /\ \A i \in 2..Len(r) : r[i - 1].at <= r[i].at}
WindowsRight ==
    \A r \in Records, seconds \in 1..2 :
        Buffer!WindowRight([i \in DOMAIN r |-> [at |-> r[i].at, value |-> i]], seconds)

Log == INSTANCE LiveLog WITH Lines <- SUBSET {"a", "or"}
Tokens == {"a", "and", "or", "not", "(", ")"} \X {TRUE} \cup {<<"or", FALSE>>}
FiltersRight == \A tokens \in SeqsOf(Tokens, 5) : Log!FilterRight(tokens)

Fields == [name : {"filter", "applyfilter", "other"}, tokens : SeqsOf(Tokens, 2)]
LogRight ==
    /\ \A path \in {"", "/", "info", "nowhere"}, fields \in SeqsOf(Fields, 1), asEventStream \in BOOLEAN :
          Log!StreamRight(path, fields, asEventStream)
    /\ \A f \in Fields, g \in {h \in Fields : Len(h.tokens) < 2} : Log!StreamRight("info", <<f, g>>, TRUE)
    /\ \A lines \in SeqsOf({"", "a", "b"}, 2), ready \in SUBSET (1..7) : Log!EventsWhole(lines, ready)

Site == INSTANCE StaticPages
PagesRight ==
    /\ \A before, after \in SeqsOf({"a", ".", "..", ""}, 3), name \in {"b", ".", "..", ""} :
          Site!WalkRight(before, name, after)
    /\ \A file \in [tag : {"new"}, blocks : 0..2, fails : 0..3], tag \in {"none", "old", "new"} :
          Site!FileRight(file, tag)
    /\ \A status \in 0..1000 : Site!StatusRight(status)

Sha == INSTANCE Sha1
Message(n) == [i \in 1..n |-> (7 * i + i * i) % 256]
Key == <<100, 71, 104, 108, 73, 72, 78, 104, 98, 88, 66, 115, 90, 83, 66, 117, 98, 50, 53, 106, 90, 81, 61, 61>>
Guid == <<50, 53, 56, 69, 65, 70, 65, 53, 45, 69, 57, 49, 52, 45, 52, 55, 68, 65, 45, 57, 53, 67, 65, 45,
          67, 53, 65, 66, 48, 68, 67, 56, 53, 66, 49, 49>>
Words == {<<0, 0>>, <<65535, 0>>, <<4660, 65535>>}

(* The example of RFC 6455, messages about as long as blocks, and blocks.  *)
DigestsRight ==
    /\ Sha!Accept(Key, Guid) =
          <<179, 122, 79, 44, 192, 98, 79, 22, 144, 246, 70, 6, 207, 56, 89, 69, 178, 190, 196, 234>>
    /\ \A n \in {0, 1, 55, 56, 63, 64, 65, 119, 120, 128} :
          \A cuts \in {<<>>, <<0>>, <<n>>, <<n \div 2>>, <<n \div 3, n \div 2>>} : Sha!PiecesRight(Message(n), cuts)
    /\ Sha!ScheduleRight(Message(64))
    /\ \A w, x, y \in Words : Sha!MixRight(w, x, y)

(* What is computed with the texts of requests, with statistics and with  *)
(* digests is what it should be. It does not depend on the state: to look  *)
(* at the first ones is enough.                                            *)
Computed ==
    main = "start" /\ requests = 0 /\ jobs \in SomeJobs =>
        /\ LinksLeadBack /\ FolderFound /\ NearestUntrusted /\ FieldsLost
        /\ WindowsRight /\ FiltersRight /\ LogRight /\ PagesRight /\ DigestsRight
=============================================================================
