---------------------------- MODULE MasterClaims ----------------------------
(***************************************************************************)
(* What a comment of Master.cpp says, where the code does something else.  *)
(***************************************************************************)
EXTENDS MCMaster

\* "Registering with the master, add them to our list!" (Master.cpp:146): after a
\* packet 'R' its sender is in the list.  A server that registers again after its
\* registration ran out stays ST_EMPTY, and one that would take such a record ends
\* the program.
RegisteredIsListed ==
  [][\A e \in Endpoints : \A time \in Times :
       \/ RegistersAgain(e, time)
       \/ RegistersFirst(e, time)
       \/ RegistersInUsedSlot(e, time)
       => e \in ToSet(server_list')]_vars
=============================================================================
