--------------------------- MODULE MessageChannel ---------------------------
(***************************************************************************)
(* What a WebSocket connection promises to its user                        *)
(* (httpserver/abstractWebSockets.h): the messages that one side has sent  *)
(* are delivered to the other whole, with their type, in order and once.   *)
(* Delivery may stop at any time, when the connection ends.                *)
(***************************************************************************)
EXTENDS Naturals, Sequences

CONSTANT Messages
VARIABLES sent, delivered

Init == sent = <<>> /\ delivered = <<>>

Send ==
    /\ Len(sent') = Len(sent) + 1
    /\ \E m \in {sent'[Len(sent')]} \cap Messages : sent' = Append(sent, m)
    /\ UNCHANGED delivered

Deliver ==
    /\ Len(delivered) < Len(sent)
    /\ delivered' = Append(delivered, sent[Len(delivered) + 1])
    /\ UNCHANGED sent

Next == Send \/ Deliver

Spec == Init /\ [][Next]_<<sent, delivered>>
=============================================================================
