---------------------------- MODULE MCConnections ---------------------------
(***************************************************************************)
(* One client that comes back, with a fault and any number of datagrams    *)
(* under way; and one that comes back so often, on one slot, that the      *)
(* session ids of the slot come around, with two datagrams under way.      *)
(***************************************************************************)
EXTENDS Sessions

CONSTANTS c1, s, m

Menu(connects, says, most, datagrams, slots, loses) ==
  [connects |-> connects, says |-> says, faults |-> most, datagrams |-> datagrams,
   slots |-> slots, loses |-> loses]

MCMenus == {Menu(2, 1, 1, 100, 2, FALSE), Menu(5, 1, 0, 2, 1, TRUE)}
=============================================================================
