------------------------------ MODULE MCMaster ------------------------------
EXTENDS MasterServer
CONSTANTS h1, h2
MCEndpoints == {[address |-> h1, port |-> 4000], [address |-> h1, port |-> 4001],
                [address |-> h2, port |-> 4000]}
=============================================================================
