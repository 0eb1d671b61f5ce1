----------------------------- MODULE MCHttpConn -----------------------------
(* Instances of HttpConn for TLC: request kinds and handler behaviours.    *)
EXTENDS HttpConn

Kind(minor, head, body, expect, close, target) ==
    [minor |-> minor, head |-> head, body |-> body, expect |-> expect,
     close |-> close, target |-> target]

Get10 == Kind(0, FALSE, "none", "no", FALSE, "handler")
GetHead == Kind(1, TRUE, "none", "no", FALSE, "handler")
PostExpect == Kind(1, FALSE, "len", "100", FALSE, "handler")
ChunkedExpect == Kind(1, FALSE, "chunked", "100", FALSE, "handler")
PostRedirect == Kind(1, FALSE, "len", "100", FALSE, "redirect")
HeadBadVersion == Kind(2, TRUE, "none", "no", FALSE, "handler")
PostBadExpect == Kind(1, FALSE, "len", "other", FALSE, "handler")

MixedKinds == {Get10, GetHead, PostExpect, ChunkedExpect, PostRedirect,
               HeadBadVersion, PostBadExpect}
=============================================================================
