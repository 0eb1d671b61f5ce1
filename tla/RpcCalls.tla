------------------------------ MODULE RpcCalls ------------------------------
(***************************************************************************)
(* What jsonrpc::IClient (jsonrpc/iclient.h, client.h) promises to those   *)
(* who call it, whatever transports and batches there are: a call is made  *)
(* once, its future is settled at most once, by the response to this very  *)
(* call or by a failure, and stays as it is.                               *)
(***************************************************************************)
CONSTANT Calls
VARIABLE outcome    \* of each call: "none" (not made), "pending", "failed",
                    \* or the call whose response has settled it

TypeOK == outcome \in [Calls -> {"none", "pending", "failed"} \cup Calls]

Init == outcome = [c \in Calls |-> "none"]

Make(c) ==
    /\ outcome[c] = "none"
    /\ outcome' = [outcome EXCEPT ![c] = "pending"]

Settle(c) ==
    /\ outcome[c] = "pending"
    /\ \E o \in {c, "failed"} : outcome' = [outcome EXCEPT ![c] = o]

Next == \E c \in Calls : Make(c) \/ Settle(c)

Spec == Init /\ [][Next]_outcome
=============================================================================
