---------------------------- MODULE SessionClaims ----------------------------
(***************************************************************************)
(* What a comment of the source says of clients and server together.  The  *)
(* code does something else; the run shows how.                            *)
(***************************************************************************)
EXTENDS GameSession

\* "request player ID packet" (main.cpp:319): the id a client plays as is its
\* own.  The answer is broadcast without a name on it, and a client that waits
\* for its id takes the one given to somebody else.
OwnIdentity ==
  \A a, b \in Peers : Initialised(a) /\ Initialised(b) /\ client[a].me = client[b].me => a = b
=============================================================================
