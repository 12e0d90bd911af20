----------------------------- MODULE MCTransfer -----------------------------
(***************************************************************************)
(* Windows of two sequence numbers, so that a few packets lead around the  *)
(* lap: all kinds of packets with one fault; packets of one and of two     *)
(* pieces with one fault, and a close at any time; eight reliable packets  *)
(* with none; and two menus with retries, under fairness.                  *)
(***************************************************************************)
EXTENDS TransferLive
CONSTANTS a, b
Kind(flags, length) == [flags |-> flags, length |-> length]
Rel     == Kind({"RELIABLE"}, 1)
Long    == Kind({"RELIABLE"}, 3)
Unrel   == Kind({}, 1)
Unseq   == Kind({"UNSEQUENCED"}, 1)
Pieces  == Kind({"UNRELIABLE_FRAGMENT"}, 3)
Menu(start, kinds, sends, most, retries, closes) ==
  [start |-> start, kinds |-> kinds, sends |-> sends, faults |-> most,
   retries |-> retries, closes |-> closes]
MCMenus == {Menu(10, {Rel, Unrel, Unseq}, 3, 1, FALSE, FALSE),
            Menu(10, {Rel, Long, Pieces}, 2, 1, FALSE, TRUE),
            Menu(0, {Rel}, 8, 0, FALSE, FALSE),
            Menu(10, {Rel, Long}, 2, 1, TRUE, FALSE),
            Menu(10, {Rel}, 4, 2, TRUE, FALSE)}
=============================================================================
