------------------------------ MODULE Delivery ------------------------------
(***************************************************************************)
(* What ENet promises for the reliable packets of one channel: each is     *)
(* handed over once, whole, in the order of the calls of enet_peer_send,   *)
(* and a connection closed with enet_peer_disconnect_later ends only after *)
(* the last of them.                                                       *)
(***************************************************************************)
EXTENDS Sequences, Naturals

CONSTANT Packet

VARIABLES sent,       \* the packets sent, in order
          delivered,  \* the packets handed over, in order
          closed,     \* the sender has asked for the end
          ended       \* the receiver has let go of the connection

vars == <<sent, delivered, closed, ended>>

Init == sent = <<>> /\ delivered = <<>> /\ ~ closed /\ ~ ended

Send(packet) ==
  /\ ~ closed
  /\ sent' = Append(sent, packet)
  /\ UNCHANGED <<delivered, closed, ended>>

Deliver ==
  /\ ~ ended
  /\ Len(delivered) < Len(sent)
  /\ delivered' = Append(delivered, sent[Len(delivered) + 1])
  /\ UNCHANGED <<sent, closed, ended>>

Close == ~ closed /\ closed' = TRUE /\ UNCHANGED <<sent, delivered, ended>>

End ==
  /\ closed /\ ~ ended
  /\ delivered = sent
  /\ ended' = TRUE
  /\ UNCHANGED <<sent, delivered, closed>>

Next == (\E packet \in Packet : Send(packet)) \/ Deliver \/ Close \/ End

Spec == Init /\ [][Next]_vars
=============================================================================
