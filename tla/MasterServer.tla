---------------------------- MODULE MasterServer ----------------------------
(***************************************************************************)
(* The master server (src/src/network/Master.cpp): game servers register   *)
(* with it by a packet "R", withdraw by a packet "U", and whoever sends    *)
(* "L" is sent server_list, a text it keeps beside the records.            *)
(*                                                                         *)
(* One action is one round of the loop of main: ServerStep with the packet *)
(* it handles, then the refresh of the list.  The entries of the text are  *)
(* modelled as a sequence.  An exception ends the program; somebody may    *)
(* start it again.                                                         *)
(***************************************************************************)
EXTENDS Integers, Sequences, SequencesExt

CONSTANTS
  Endpoints,         \* where game servers may run: records of address and port
  Leavers,           \* who may send 'U' (MasterCheckout, which no caller uses)
  ListTimeout,       \* LIST_TIMEOUT minutes, in units of the clock
  Refresh,           \* the 60000 ms of main, in units of the clock
  MaxTime            \* bound on the clock

ASSUME MasterAssumption ==
  /\ {ListTimeout, Refresh, MaxTime} \subseteq Nat \ {0}
  /\ Leavers \subseteq Endpoints
  /\ \A e \in Endpoints : e = [address |-> e.address, port |-> e.port]

VARIABLES
  servers,          \* the vector of records
  server_list,      \* the entries of the text
  lastListRefresh,
  now,              \* enet_time_get
  up                \* whether the program runs

vars == <<servers, server_list, lastListRefresh, now, up>>

EndpointOf(record) == [address |-> record.address, port |-> record.port]

Started ==
  /\ servers' = <<>> /\ server_list' = <<>>
  /\ lastListRefresh' = now

Init ==
  /\ servers = <<>> /\ server_list = <<>>
  /\ lastListRefresh = 0 /\ now = 0 /\ up = TRUE

(***************************************************************************)
(* RecreateList: registrations that are too old are dropped, the text is   *)
(* written anew.                                                           *)
(***************************************************************************)
Expired(record, time) ==
  record.state = "REG" /\ time - record.lastUpdate > ListTimeout

Purged(records, time) ==
  [i \in DOMAIN records |->
     IF Expired(records[i], time) THEN [records[i] EXCEPT !.state = "EMPTY"]
     ELSE records[i]]

\* The loop of RecreateList: the entry of each registered record is appended.
Listing(first, records) ==
  LET text[i \in 0 .. Len(records)] ==
        IF i = 0 THEN first
        ELSE IF records[i].state = "REG" THEN Append(text[i - 1], EndpointOf(records[i]))
        ELSE text[i - 1]
  IN text[Len(records)]

\* Mutated Rewritten: the text is not cleared first.
RewrittenAfter(list, records) == Listing(list, records)

Rewritten(list, records) == Listing(<<>>, records)

\* Mutated Due: the list is refreshed when a registration times out.
DueLate(records, time) == records # <<>> /\ time - lastListRefresh > ListTimeout

\* The end of a round of main.
Due(records, time) == records # <<>> /\ time - lastListRefresh > Refresh

\* The packet leaves records and list, and the round ends at this time.
RoundEnds(records, list, time) ==
  /\ now' = time
  /\ IF Due(records, time)
     THEN /\ servers' = Purged(records, time)
          /\ server_list' = Rewritten(list, servers')
          /\ lastListRefresh' = time
     ELSE /\ servers' = records /\ server_list' = list
          /\ UNCHANGED lastListRefresh

\* enet_host_service waits for less than a unit of the clock.
Times == {t \in {now, now + 1} : t <= MaxTime}

(***************************************************************************)
(* Packet 'R'.  "at" is where the search ended: with the record of the     *)
(* endpoint, or past the last.  The port is taken from the record at that  *)
(* place, which is there when the record was appended just now, and not    *)
(* when an unused record before it was taken.                              *)
(***************************************************************************)
\* Mutated Found: strcmp is taken for true where the addresses agree, as 'U' does.
FoundOther(e) == SelectInSeq(servers, LAMBDA r : r.address # e.address)

Found(e) == SelectInSeq(servers, LAMBDA r : EndpointOf(r) = e)
FirstEmptySlot == SelectInSeq(servers, LAMBDA r : r.state = "EMPTY")

Record(e, time) == [state |-> "REG", address |-> e.address, port |-> e.port,
                    lastUpdate |-> time]

RegistersAgain(e, time) ==
  /\ Found(e) # 0
  /\ RoundEnds([servers EXCEPT ![Found(e)].lastUpdate = time], server_list, time)
  /\ UNCHANGED up

RegistersFirst(e, time) ==
  /\ Found(e) = 0 /\ FirstEmptySlot = 0
  /\ RoundEnds(Append(servers, Record(e, time)),
               Append(server_list, e), time)
  /\ UNCHANGED up

\* servers.at(i) throws.
RegistersInUsedSlot(e, time) ==
  /\ Found(e) = 0 /\ FirstEmptySlot # 0
  /\ up' = FALSE /\ now' = time
  /\ UNCHANGED <<servers, server_list, lastListRefresh>>

(***************************************************************************)
(* Packet 'U': the first record of another address is dropped.             *)
(***************************************************************************)
Unregisters(e, time) ==
  LET at == SelectInSeq(servers, LAMBDA r : r.address # e.address)
      dropped == IF at = 0 THEN servers
                 ELSE [servers EXCEPT ![at].state = "EMPTY"]
  IN /\ now' = time
     /\ servers' = Purged(dropped, time)
     /\ server_list' = Rewritten(server_list, servers')
     /\ lastListRefresh' = time
     /\ UNCHANGED up

\* Nothing arrived, a connection began or ended, or somebody sent 'L' and is
\* answered with server_list.
NothingToRecord(time) ==
  RoundEnds(servers, server_list, time) /\ UNCHANGED up

Restarts ==
  /\ ~ up
  /\ up' = TRUE
  /\ Started
  /\ UNCHANGED now

Next ==
  \/ /\ up
     /\ \E time \in Times :
          \/ \E e \in Endpoints : \/ RegistersAgain(e, time)
                                 \/ RegistersFirst(e, time)
                                 \/ RegistersInUsedSlot(e, time)
          \/ \E e \in Leavers : Unregisters(e, time)
          \/ NothingToRecord(time)
  \/ Restarts

Spec == Init /\ [][Next]_vars

-----------------------------------------------------------------------------
(***************************************************************************)
(* Properties.                                                             *)
(***************************************************************************)
\* A server is listed once, although it may register again before and after
\* its registration ran out, and the text and the records are changed apart
\* from each other.
ListedOnce == IsInjective(server_list)

\* The text lists what the records do, in the same order: what the handler of
\* 'R' appends is what RecreateList would write.
ListMatchesRecords ==
  up => server_list = Rewritten(<<>>, servers)

\* A client that asks is never sent a server that registered longer ago than
\* the timeout and one refresh of the list (with the two roundings of the code's
\* comparisons).
AnswersAreFresh ==
  \A i \in DOMAIN server_list :
    LET record == CHOOSE r \in ToSet(servers) : EndpointOf(r) = server_list[i]
    IN now - record.lastUpdate <= ListTimeout + Refresh + 1

-----------------------------------------------------------------------------
(***************************************************************************)
(* The inductive invariant.                                                *)
(***************************************************************************)
Hosts == {e.address : e \in Endpoints}
Ports == {e.port : e \in Endpoints}

ServerRecord == [state : {"REG", "EMPTY"}, address : Hosts, port : Ports, lastUpdate : Nat]

\* Types of the variables.
TypeOK ==
  /\ servers \in Seq(ServerRecord)
  /\ server_list \in Seq([address : Hosts, port : Ports])
  /\ now \in Nat /\ lastListRefresh \in 0 .. now /\ up \in BOOLEAN

\* No endpoint has two records, whatever their states.
RecordedOnce ==
  \A i, j \in DOMAIN servers : EndpointOf(servers[i]) = EndpointOf(servers[j]) => i = j

\* What is registered was fresh when the list was written last, or is newer.
FreshWhenWritten ==
  \A i \in DOMAIN servers :
    servers[i].state = "REG" => lastListRefresh - servers[i].lastUpdate <= ListTimeout

\* While there are records a round of main does not end with an older list; the
\* round that ends the program is one unit later.
ListIsRecent ==
  servers # <<>> => now - lastListRefresh <= Refresh + IF up THEN 0 ELSE 1

MasterInv ==
  /\ TypeOK /\ RecordedOnce /\ FreshWhenWritten /\ ListIsRecent
  /\ server_list = Rewritten(<<>>, servers)
=============================================================================
