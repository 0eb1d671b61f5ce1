------------------------------- MODULE Tunnels -------------------------------
(***************************************************************************)
(* The ways of the HTTP client to a site (httpClient.cpp): directly, by a  *)
(* proxy that is asked for whole URLs, or through one that is told to      *)
(* CONNECT; and the TLS streams on them (simpleHttpsProvider.cpp), which   *)
(* ask a library again until it is done. A client is a record of its       *)
(* connection, of the site and the kind that it remembers for it, and of   *)
(* the last status; nobody gives the first kind and status a value.        *)
(***************************************************************************)
EXTENDS Naturals, Sequences, SequencesExt

Direct == "direct"
NoConnection == [peer |-> "none", tls |-> FALSE, leadsTo |-> "none", refused |-> FALSE]
NewClient(status, tls) == [conn |-> NoConnection, domain |-> "none", tls |-> tls, status |-> status]

(* A request says where to, by which proxy, what the proxy answers to a    *)
(* CONNECT and the site to the request, and whether the response before it *)
(* leaves the connection usable.                                           *)
canReuse(client, r) ==
    client.conn # NoConnection /\ r.kept /\ client.domain = r.site /\ client.tls = r.tls

(* proxyConnect() looks at the status of the client, not of the tunnel.    *)
proxyConnect(client, r) == client.status = 200

Throw(client) == [client |-> client, made |-> FALSE, target |-> "none"]
Made(client, target) == [client |-> client, made |-> TRUE, target |-> target]

(* The connection remembers its proxy only if it is not a tunnel; and that *)
(* it is plain, never.                                                     *)
ConnectTLS(client, r) ==
    IF r.proxy # Direct /\ ~proxyConnect(client, r) THEN Throw(client)
    ELSE Made([client EXCEPT !.domain = r.site, !.tls = TRUE,
                  !.conn = [peer |-> IF r.proxy = Direct THEN r.site ELSE r.proxy, tls |-> TRUE, leadsTo |-> r.site,
                            refused |-> r.proxy # Direct /\ r.tunnel # 200]], "path")

ConnectPlain(client, r) ==
    LET peer == IF r.proxy = Direct THEN r.site ELSE r.proxy
    IN  Made([client EXCEPT !.domain = peer,
                 !.conn = [peer |-> peer, tls |-> FALSE, leadsTo |-> peer, refused |-> FALSE]],
             IF r.proxy = Direct THEN "path" ELSE "url")

CreateRequest(client, r) ==
    CASE canReuse(client, r) -> Made(client, "path")
      [] ~canReuse(client, r) /\ r.tls -> ConnectTLS(client, r)
      [] OTHER -> ConnectPlain(client, r)

Request(client, r) ==
    LET created == CreateRequest(client, r)
    IN  IF created.made THEN [created EXCEPT !.client.status = r.status] ELSE created

-----------------------------------------------------------------------------
(* connect, read, write and peek of a TLS stream: results says what the    *)
(* library returns, [value, error, silent]: "some" above zero, "none" for  *)
(* zero, "fail"; the error it gives when asked for it; and whether the     *)
(* network is silent until the time is over when it is waited for.         *)
waitSSLSocket(call, r) ==
    IF r.error \notin {"read", "write"} THEN [call EXCEPT !.outcome = "error"]
    ELSE [waits |-> Append(call.waits, r.error), outcome |-> IF r.silent THEN "timeout" ELSE "again"]

Final(operation) == IF operation = "connect" THEN {"some"} ELSE {"some", "none"}

Call(operation, size, results) ==
    FoldLeft(LAMBDA call, r :
                 CASE call.outcome # "again" -> call
                   [] call.outcome = "again" /\ r.value \in Final(operation) -> [call EXCEPT !.outcome = r.value]
                   [] OTHER -> waitSSLSocket(call, r),
             [waits |-> <<>>, outcome |-> IF size = 0 /\ operation \in {"read", "write"} THEN "none" ELSE "again"],
             results)

-----------------------------------------------------------------------------
(* Known defects. proxyConnect() tests the status of the client instead of *)
(* the proxy's, which is what it throws (httpClient.cpp:543-544): behind a *)
(* response of 200 the tunnel that was refused is used. And "we have same  *)
(* encryption mode" (395) compares with the kind of an earlier connection, *)
(* since one without TLS does not reset currentTls (466).                  *)
RefusalOverlooked(after, i) == \E j \in 0..i - 1 : (j > 0 => after[j].made) /\ after[j].client.status = 200
TlsForgotten(after, requests, i) ==
    \E j \in 0..i - 2, k \in 1..i - 1 :
        /\ j < k /\ (IF j = 0 THEN after[0].client.tls ELSE requests[j].tls)
        /\ ~requests[k].tls /\ after[k].client.conn = after[i].client.conn

(* A request goes to its site: on a connection to it, by a proxy that gets *)
(* the whole URL, or through a tunnel that stands; with TLS if it asks for *)
(* it, and only then. Whatever the defects, what ought to be secret is     *)
(* never sent to a proxy in the clear.                                     *)
WayRight(client, requests) ==
    LET after[i \in 0..Len(requests)] ==
            IF i = 0 THEN Throw(client) ELSE Request(after[i - 1].client, requests[i])
    IN  \A i \in DOMAIN requests : after[i].made =>
            LET r == requests[i]
                conn == after[i].client.conn
            IN  /\ conn.leadsTo = r.site \/ (conn.peer = r.proxy /\ after[i].target = "url" /\ ~r.tls)
                /\ ~RefusalOverlooked(after, i) => ~conn.refused
                /\ ~TlsForgotten(after, requests, i) => conn.tls = r.tls
                /\ r.tls /\ ~conn.tls => conn.peer = r.site
                /\ ~r.tls => ~conn.tls

(* A call ends with what the library says in the end, having waited after  *)
(* each attempt but the last for what it was told to; only a handshake     *)
(* asks why there was nothing.                                             *)
CallRight(operation, size, results) ==
    LET call == Call(operation, size, results)
        n == Len(call.waits)
    IN  /\ n <= Len(results) /\ call.waits = [i \in 1..n |-> results[i].error]
        /\ \A i \in 1..n : results[i].value \notin Final(operation) /\ (i < n => ~results[i].silent)
        /\ call.outcome = "again" => n = Len(results)
        /\ call.outcome = "timeout" => results[n].silent
        /\ call.outcome = "error" => n < Len(results) /\ results[n + 1].error = "other"
        /\ call.outcome \in {"some", "none"} /\ size > 0 => n < Len(results) /\ results[n + 1].value = call.outcome
        /\ operation = "connect" => call.outcome # "none"
=============================================================================
