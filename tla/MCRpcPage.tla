----------------------------- MODULE MCRpcPage -----------------------------
(* An instance of RpcPage for TLC: what others than the page post.         *)
EXTENDS RpcPage

CONSTANTS c1, c2, c3

SomeCalls == <<c1, c2, c3>>

Call(m, args) == [method |-> m, by |-> "other", args |-> args]
Req(id, ctx, call) == [kind |-> "request", id |-> id, context |-> ctx, call |-> call]
Not(kind) == [kind |-> kind, id |-> "missing", context |-> "none", call |-> Call("value", <<>>)]

Set == Call("set", <<>>)
Clear == Call("clear", <<>>)
Fails == Call("error", <<>>)
Aborts == Call("callError", <<>>)
Unknown == Call("unheard", <<>>)
Multi(args) == Call("multicall", args)
Broken == Call("badform", <<>>)

(* Requests, notifications and garbage in one body; multicalls in          *)
(* multicalls, of which some fail half way.                                *)
SomeBodies ==
    {<<Req("number", "none", Set), Not("nonobject"), Req("number", "v", Fails)>>,
     <<Req("number", "none", Set), Not("garbage"), Req("number", "v", Fails)>>,
     <<Req("null", "none", Fails), Req("null", "v", Set), Req("missing", "v", Set)>>,
     <<Req("null", "none", Multi(<<Set, Clear>>))>>,
     <<Req("null", "none", Multi(<<Unknown>>)), Req("number", "none", Multi(<<>>))>>,
     <<Req("number", "absent", Multi(<<Multi(<<Set, Fails>>), Clear, Set>>))>>,
     <<Req("number", "none", Multi(<<Multi(<<Set, Clear>>), Fails, Set>>))>>,
     <<Req("number", "v", Multi(<<Multi(<<Clear, Broken>>), Fails>>))>>,
     <<Req("number", "v", Multi(<<Clear, Multi(<<Set, Aborts>>), Set>>)), Req("number", "v", Clear)>>}
=============================================================================
