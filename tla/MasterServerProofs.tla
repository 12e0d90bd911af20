-------------------------- MODULE MasterServerProofs --------------------------
(***************************************************************************)
(* The proof that what the master server answers is its records: for every *)
(* set of endpoints, timeout and refresh, the text names each registered   *)
(* server once, in the order of the records, and none that is stale.       *)
(*                                                                         *)
(* The text is written by a loop, so the module first proves that the      *)
(* recursive function of Listing exists, and what it returns, by induction *)
(* on the position of the loop.                                            *)
(***************************************************************************)
EXTENDS MasterServer, NaturalsInduction, WellFoundedInduction, TLAPS

Entry == [address : Hosts, port : Ports]

\* The loop of RecreateList: text[i] is the text after i records.
IsText(text, first, records) ==
  text = [i \in 0 .. Len(records) |->
            IF i = 0 THEN first
            ELSE IF records[i].state = "REG"
                 THEN Append(text[i - 1], EndpointOf(records[i]))
                 ELSE text[i - 1]]

-----------------------------------------------------------------------------
(***************************************************************************)
(* The loop.                                                               *)
(***************************************************************************)

\* A set of numbers that is not empty has a smallest element.
LEMMA Smallest ==
  ASSUME NEW S \in SUBSET Nat, S # {}
  PROVE  \E m \in S : \A n \in S : m <= n
<1> DEFINE R == OpToRel(<, Nat)
<1>1. IsWellFoundedOn(R, Nat) BY NatLessThanWellFounded
<1> HIDE DEF R
<1>2. PICK m \in S : \A n \in S : ~ (<<n, m>> \in R) BY <1>1, WFMin
<1>3. \A n \in S : ~ (n < m) BY <1>2 DEF R, OpToRel
<1> QED BY <1>3

\* What holds of 0, and of n + 1 if it holds of n, holds of every number up to k.
LEMMA Upwards ==
  ASSUME NEW S \in SUBSET Nat, NEW k \in Nat, 0 \in S,
         \A n \in S : n < k => n + 1 \in S
  PROVE  0 .. k \subseteq S
<1> DEFINE D == {n \in 0 .. k : n \notin S}
<1>1. SUFFICES ASSUME D # {} PROVE FALSE OBVIOUS
<1>2. D \subseteq Nat OBVIOUS
<1> HIDE DEF D
<1>3. PICK m \in D : \A n \in D : m <= n BY <1>1, <1>2, Smallest
<1> USE DEF D
<1>4. m # 0 /\ m - 1 \in 0 .. k OBVIOUS
<1>5. m - 1 \in S BY <1>3, <1>4
<1> QED BY <1>4, <1>5

\* The recursive function of Listing exists.
LEMMA TextExists ==
  ASSUME NEW first, NEW records \in Seq(ServerRecord)
  PROVE  \E text : IsText(text, first, records)
<1> DEFINE n        == Len(records)
           Upto(f, k) ==
             f = [i \in 0 .. k |->
                    IF i = 0 THEN first
                    ELSE IF records[i].state = "REG"
                         THEN Append(f[i - 1], EndpointOf(records[i]))
                         ELSE f[i - 1]]
           S        == {k \in Nat : \E f : Upto(f, k)}
<1>1. 0 \in S
  <2>1. Upto([i \in 0 .. 0 |-> first], 0) OBVIOUS
  <2> QED BY <2>1
<1>2. ASSUME NEW k \in S PROVE k + 1 \in S
  <2>1. PICK f : Upto(f, k) OBVIOUS
  <2> DEFINE last == IF records[k + 1].state = "REG"
                     THEN Append(f[k], EndpointOf(records[k + 1]))
                     ELSE f[k]
             g == [i \in 0 .. k + 1 |-> IF i = k + 1 THEN last ELSE f[i]]
  <2>2. \A i \in 0 .. k : g[i] = f[i] OBVIOUS
  <2>3. g[k + 1] = last OBVIOUS
  <2> HIDE DEF last
  <2>4. ASSUME NEW i \in 0 .. k + 1
        PROVE  g[i] = IF i = 0 THEN first
                      ELSE IF records[i].state = "REG"
                           THEN Append(g[i - 1], EndpointOf(records[i]))
                           ELSE g[i - 1]
    <3>1. CASE i = k + 1
      <4>1. i - 1 = k /\ i # 0 BY <3>1
      <4>2. g[i - 1] = f[k] BY <4>1, <2>2
      <4> QED BY <3>1, <4>1, <4>2, <2>3 DEF last
    <3>2. CASE i = 0 BY <3>2, <2>1, <2>2
    <3>3. CASE i \in 1 .. k
      <4>1. i - 1 \in 0 .. k /\ i \in 0 .. k /\ i # 0 BY <3>3
      <4>2. g[i - 1] = f[i - 1] /\ g[i] = f[i] BY <4>1, <2>2
      <4> HIDE DEF g
      <4>3. f[i] = IF records[i].state = "REG"
                   THEN Append(f[i - 1], EndpointOf(records[i]))
                   ELSE f[i - 1]
        BY <2>1, <4>1
      <4> QED BY <4>1, <4>2, <4>3
    <3> QED BY <3>1, <3>2, <3>3
  <2>5. g = [i \in 0 .. k + 1 |-> g[i]] OBVIOUS
  <2> HIDE DEF g
  <2>6. Upto(g, k + 1) BY <2>4, <2>5
  <2>7. k + 1 \in Nat OBVIOUS
  <2> HIDE DEF Upto
  <2> QED BY <2>6, <2>7
<1>3. n \in Nat OBVIOUS
<1> HIDE DEF S
<1>4. n \in S
  <2>1. S \subseteq Nat BY DEF S
  <2>2. 0 .. n \subseteq S BY <1>1, <1>2, <1>3, <2>1, Upwards
  <2> QED BY <2>2, <1>3
<1> QED BY <1>4 DEF S, IsText

\* Listing returns what the loop has written when it ends.
LEMMA ListingText ==
  ASSUME NEW first, NEW records \in Seq(ServerRecord)
  PROVE  \E text : /\ IsText(text, first, records)
                   /\ Listing(first, records) = text[Len(records)]
<1>1. Listing(first, records)
        = (CHOOSE text : IsText(text, first, records))[Len(records)]
  BY DEF Listing, IsText
<1> QED BY <1>1, TextExists

\* One round of the loop.
LEMMA TextStep ==
  ASSUME NEW first, NEW records \in Seq(ServerRecord), NEW text,
         IsText(text, first, records)
  PROVE  /\ text[0] = first
         /\ \A i \in 1 .. Len(records) :
              text[i] = IF records[i].state = "REG"
                        THEN Append(text[i - 1], EndpointOf(records[i]))
                        ELSE text[i - 1]
<1>1. 0 \in 0 .. Len(records) OBVIOUS
<1>2. \A i \in 1 .. Len(records) : i \in 0 .. Len(records) /\ i # 0 OBVIOUS
<1> QED BY <1>1, <1>2 DEF IsText

\* Two lists of records of which the first k are registered alike, at the same
\* endpoints, give the same text so far.
LEMMA TextSame ==
  ASSUME NEW first, NEW A \in Seq(ServerRecord), NEW B \in Seq(ServerRecord),
         NEW ta, IsText(ta, first, A), NEW tb, IsText(tb, first, B),
         NEW k \in Nat, k <= Len(A), k <= Len(B),
         \A i \in 1 .. k : /\ A[i].state = "REG" <=> B[i].state = "REG"
                           /\ EndpointOf(A[i]) = EndpointOf(B[i])
  PROVE  ta[k] = tb[k]
<1> DEFINE S == {i \in Nat : i <= k => ta[i] = tb[i]}
<1>1. 0 \in S BY TextStep
<1>2. ASSUME NEW i \in S, i < k PROVE i + 1 \in S
  <2>1. /\ i + 1 \in 1 .. k /\ i + 1 \in 1 .. Len(A) /\ i + 1 \in 1 .. Len(B)
        /\ (i + 1) - 1 = i
    BY <1>2
  <2>2. ta[i] = tb[i] BY <1>2
  <2>3. ta[i + 1] = IF A[i + 1].state = "REG"
                    THEN Append(ta[i], EndpointOf(A[i + 1])) ELSE ta[i]
    BY <2>1, TextStep
  <2>4. tb[i + 1] = IF B[i + 1].state = "REG"
                    THEN Append(tb[i], EndpointOf(B[i + 1])) ELSE tb[i]
    BY <2>1, TextStep
  <2> QED BY <2>1, <2>2, <2>3, <2>4
<1>3. S \subseteq Nat OBVIOUS
<1> HIDE DEF S
<1>4. k \in S
  <2>1. 0 .. k \subseteq S BY <1>1, <1>2, <1>3, Upwards
  <2> QED BY <2>1
<1> QED BY <1>4 DEF S

\* No two of these records are of one endpoint.
Distinct(records) ==
  \A i, j \in DOMAIN records : EndpointOf(records[i]) = EndpointOf(records[j]) => i = j

\* This text names registered ones of the first k records, each of them once.
Names(t, records, k) ==
  /\ t \in Seq(Entry)
  /\ \A j \in DOMAIN t : \E i \in 1 .. k :
       records[i].state = "REG" /\ t[j] = EndpointOf(records[i])
  /\ IsInjective(t)

LEMMA EndpointType ==
  ASSUME NEW r \in ServerRecord PROVE EndpointOf(r) \in Entry
BY DEF ServerRecord, EndpointOf, Entry

\* An entry is appended.
LEMMA NamesAppend ==
  ASSUME NEW records \in Seq(ServerRecord), Distinct(records),
         NEW k \in Nat, k + 1 <= Len(records), NEW t, Names(t, records, k),
         records[k + 1].state = "REG"
  PROVE  Names(Append(t, EndpointOf(records[k + 1])), records, k + 1)
<1> DEFINE e == EndpointOf(records[k + 1])
           u == Append(t, e)
<1>0. t \in Seq(Entry) BY DEF Names
<1>1. k + 1 \in 1 .. Len(records) OBVIOUS
<1>2. e \in Entry BY <1>1, EndpointType
<1> HIDE DEF e
<1>3. u \in Seq(Entry) BY <1>0, <1>2
<1>4. /\ Len(t) \in Nat /\ DOMAIN t = 1 .. Len(t) /\ DOMAIN u = 1 .. Len(t) + 1
      /\ u[Len(t) + 1] = e /\ \A j \in 1 .. Len(t) : u[j] = t[j]
  BY <1>0, <1>2
<1> HIDE DEF u
<1>5. ASSUME NEW j \in DOMAIN t PROVE u[j] # e
  <2>1. PICK i \in 1 .. k : t[j] = EndpointOf(records[i]) BY <1>5 DEF Names
  <2>2. i \in DOMAIN records /\ k + 1 \in DOMAIN records /\ i # k + 1 BY <1>1
  <2>3. EndpointOf(records[i]) # e BY <2>2 DEF Distinct, e
  <2> QED BY <1>4, <2>1, <2>3
<1>6. \A j \in DOMAIN u : \E i \in 1 .. k + 1 :
        records[i].state = "REG" /\ u[j] = EndpointOf(records[i])
  <2> SUFFICES ASSUME NEW j \in DOMAIN u
               PROVE  \E i \in 1 .. k + 1 :
                        records[i].state = "REG" /\ u[j] = EndpointOf(records[i])
    OBVIOUS
  <2>1. CASE j = Len(t) + 1
    <3>1. k + 1 \in 1 .. k + 1 OBVIOUS
    <3> QED BY <1>4, <2>1, <3>1 DEF e
  <2>2. CASE j # Len(t) + 1
    <3>1. j \in DOMAIN t /\ u[j] = t[j] BY <1>4, <2>2
    <3>2. PICK i \in 1 .. k : records[i].state = "REG" /\ t[j] = EndpointOf(records[i])
      BY <3>1 DEF Names
    <3>3. i \in 1 .. k + 1 OBVIOUS
    <3> QED BY <3>1, <3>2, <3>3
  <2> QED BY <2>1, <2>2
<1>7. IsInjective(u)
  <2> SUFFICES ASSUME NEW a \in DOMAIN u, NEW b \in DOMAIN u, u[a] = u[b]
               PROVE  a = b
    BY DEF IsInjective
  <2>1. CASE a \in DOMAIN t /\ b \in DOMAIN t
    <3>1. t[a] = t[b] BY <1>4, <2>1
    <3> QED BY <2>1, <3>1 DEF Names, IsInjective
  <2>2. CASE a \notin DOMAIN t \/ b \notin DOMAIN t BY <1>4, <1>5, <2>2
  <2> QED BY <2>1, <2>2
<1> QED BY <1>3, <1>6, <1>7 DEF Names, u, e

\* What Listing writes names registered records, each of them once.
LEMMA ListingNames ==
  ASSUME NEW records \in Seq(ServerRecord), Distinct(records)
  PROVE  Names(Rewritten(<<>>, records), records, Len(records))
<1>1. PICK text : /\ IsText(text, <<>>, records)
                  /\ Listing(<<>>, records) = text[Len(records)]
  BY ListingText
<1> DEFINE n == Len(records)
           S == {k \in Nat : k <= n => Names(text[k], records, k)}
<1>2. 0 \in S
  <2>1. text[0] = <<>> BY <1>1, TextStep
  <2>2. Names(<<>>, records, 0) BY DEF Names, IsInjective
  <2> QED BY <2>1, <2>2
<1>3. n \in Nat OBVIOUS
<1>4. ASSUME NEW k \in S, k < n PROVE k + 1 \in S
  <2>1. k + 1 \in 1 .. n /\ (k + 1) - 1 = k /\ k + 1 \in Nat /\ k \in Nat BY <1>3, <1>4
  <2>2. text[k + 1] = IF records[k + 1].state = "REG"
                      THEN Append(text[k], EndpointOf(records[k + 1])) ELSE text[k]
    BY <1>1, <2>1, TextStep
  <2>3. Names(text[k], records, k) BY <1>4, <2>1
  <2>4. CASE records[k + 1].state = "REG"
    <3>1. Names(text[k + 1], records, k + 1) BY <1>3, <2>1, <2>2, <2>3, <2>4, NamesAppend
    <3> QED BY <2>1, <3>1
  <2>5. CASE records[k + 1].state # "REG"
    <3>1. \A i \in 1 .. k : i \in 1 .. k + 1 BY <2>1
    <3>2. Names(text[k], records, k + 1) BY <2>3, <3>1 DEF Names
    <3> QED BY <2>1, <2>2, <2>5, <3>2
  <2> QED BY <2>4, <2>5
<1>5. S \subseteq Nat OBVIOUS
<1> HIDE DEF S
<1>6. n \in S
  <2>1. 0 .. n \subseteq S BY <1>2, <1>3, <1>4, <1>5, Upwards
  <2> QED BY <1>3, <2>1
<1> QED BY <1>1, <1>3, <1>6 DEF S, Rewritten

\* The text of records that were changed, or joined by one more, where the loop
\* does not look or after it.
LEMMA RewrittenSame ==
  ASSUME NEW A \in Seq(ServerRecord), NEW B \in Seq(ServerRecord), Len(A) = Len(B),
         \A i \in 1 .. Len(A) : /\ A[i].state = "REG" <=> B[i].state = "REG"
                                /\ EndpointOf(A[i]) = EndpointOf(B[i])
  PROVE  Rewritten(<<>>, A) = Rewritten(<<>>, B)
<1>1. PICK ta : IsText(ta, <<>>, A) /\ Listing(<<>>, A) = ta[Len(A)] BY ListingText
<1>2. PICK tb : IsText(tb, <<>>, B) /\ Listing(<<>>, B) = tb[Len(B)] BY ListingText
<1>3. Len(A) \in Nat OBVIOUS
<1>4. ta[Len(A)] = tb[Len(A)] BY <1>1, <1>2, <1>3, TextSame
<1> QED BY <1>1, <1>2, <1>4 DEF Rewritten

LEMMA ListingLonger ==
  ASSUME NEW first, NEW A \in Seq(ServerRecord), NEW B \in Seq(ServerRecord)
  PROVE  /\ Len(B) = Len(A) + 1 /\ B[Len(B)].state = "REG"
         /\ \A i \in 1 .. Len(A) : /\ A[i].state = "REG" <=> B[i].state = "REG"
                                   /\ EndpointOf(A[i]) = EndpointOf(B[i])
         => Listing(first, B) = Append(Listing(first, A), EndpointOf(B[Len(B)]))
<1>1. PICK ta : IsText(ta, first, A) /\ Listing(first, A) = ta[Len(A)] BY ListingText
<1>2. PICK tb : IsText(tb, first, B) /\ Listing(first, B) = tb[Len(B)] BY ListingText
<1>3. ASSUME Len(A) <= Len(B),
             \A i \in 1 .. Len(A) : /\ A[i].state = "REG" <=> B[i].state = "REG"
                                    /\ EndpointOf(A[i]) = EndpointOf(B[i])
      PROVE  ta[Len(A)] = tb[Len(A)]
  <2>1. Len(A) \in Nat /\ Len(A) <= Len(A) OBVIOUS
  <2> QED BY <1>1, <1>2, <1>3, <2>1, TextSame
<1>4. \A n \in 1 .. Len(B) :
        tb[n] = IF B[n].state = "REG"
                THEN Append(tb[n - 1], EndpointOf(B[n])) ELSE tb[n - 1]
  BY <1>2, TextStep
<1>5. Len(A) \in Nat /\ Len(B) \in Nat OBVIOUS
<1>6. Len(B) = Len(A) + 1 => Len(A) <= Len(B) /\ Len(B) \in 1 .. Len(B) /\ Len(B) - 1 = Len(A)
  BY <1>5
<1> QED BY <1>1, <1>2, <1>3, <1>4, <1>6

LEMMA RewrittenAppend ==
  ASSUME NEW A \in Seq(ServerRecord), NEW r \in ServerRecord, r.state = "REG"
  PROVE  Rewritten(<<>>, Append(A, r)) = Append(Rewritten(<<>>, A), EndpointOf(r))
<1> DEFINE B == Append(A, r)
<1>1. /\ B \in Seq(ServerRecord) /\ Len(B) = Len(A) + 1 /\ B[Len(B)] = r
      /\ \A i \in 1 .. Len(A) : B[i] = A[i]
  OBVIOUS
<1> HIDE DEF B
<1>2. Rewritten(<<>>, B) = Append(Rewritten(<<>>, A), EndpointOf(B[Len(B)]))
  BY <1>1, ListingLonger DEF Rewritten
<1> QED BY <1>1, <1>2 DEF B

-----------------------------------------------------------------------------
(***************************************************************************)
(* The rounds of main.                                                     *)
(***************************************************************************)

\* The two searches of the handler of 'R'.
LEMMA FoundFacts ==
  ASSUME NEW e, servers \in Seq(ServerRecord)
  PROVE  /\ Found(e) = 0 => \A i \in DOMAIN servers : EndpointOf(servers[i]) # e
         /\ Found(e) # 0 => /\ Found(e) \in DOMAIN servers
                            /\ EndpointOf(servers[Found(e)]) = e
<1> DEFINE I == {i \in 1 .. Len(servers) : EndpointOf(servers[i]) = e}
<1>1. Found(e) = IF I # {} THEN Min(I) ELSE 0 BY DEF Found, SelectInSeq
<1>2. DOMAIN servers = 1 .. Len(servers) OBVIOUS
<1>3. ASSUME I # {} PROVE Min(I) \in I
  <2>1. I \subseteq Nat OBVIOUS
  <2> HIDE DEF I
  <2>2. \E m \in I : \A n \in I : m <= n BY <1>3, <2>1, Smallest
  <2> QED BY <2>2 DEF Min
<1>4. 0 \notin I OBVIOUS
<1> QED BY <1>1, <1>2, <1>3, <1>4

\* The records as they are at the end of a round, before the list is written
\* again: well typed, one per endpoint, and fresh when the list was written.
RecordsOK(records) ==
  /\ records \in Seq(ServerRecord)
  /\ Distinct(records)
  /\ \A i \in DOMAIN records :
       records[i].state = "REG" => lastListRefresh - records[i].lastUpdate <= ListTimeout

\* Dropping records that are too old leaves their endpoints.
LEMMA PurgedOK ==
  ASSUME NEW records \in Seq(ServerRecord), Distinct(records), NEW time \in Nat
  PROVE  LET left == Purged(records, time)
         IN /\ left \in Seq(ServerRecord) /\ Distinct(left)
            /\ Len(left) = Len(records)
            /\ \A i \in DOMAIN left :
                 left[i].state = "REG" => time - left[i].lastUpdate <= ListTimeout
<1> DEFINE left == Purged(records, time)
<1>1. ASSUME NEW i \in DOMAIN records
      PROVE  /\ left[i] \in ServerRecord
             /\ EndpointOf(left[i]) = EndpointOf(records[i])
             /\ left[i].state = "REG" => time - left[i].lastUpdate <= ListTimeout
  <2>1. records[i] \in ServerRecord OBVIOUS
  <2>2. left[i] = IF Expired(records[i], time)
                  THEN [records[i] EXCEPT !.state = "EMPTY"] ELSE records[i]
    BY DEF Purged
  <2>3. ListTimeout \in Nat BY MasterAssumption
  <2> HIDE DEF left
  <2>4. CASE Expired(records[i], time)
    BY <2>1, <2>2, <2>4 DEF ServerRecord, EndpointOf
  <2>5. CASE ~ Expired(records[i], time)
    BY <2>1, <2>2, <2>3, <2>5 DEF ServerRecord, Expired
  <2> QED BY <2>4, <2>5
<1>2. DOMAIN left = DOMAIN records /\ DOMAIN records = 1 .. Len(records) BY DEF Purged
<1>3. left = [i \in 1 .. Len(records) |-> left[i]] BY <1>2 DEF Purged
<1> HIDE DEF left
<1>4. left \in Seq(ServerRecord) /\ Len(left) = Len(records) BY <1>1, <1>2, <1>3
<1>5. Distinct(left) BY <1>1, <1>2 DEF Distinct
<1> QED BY <1>1, <1>2, <1>4, <1>5 DEF left

\* The end of a round keeps the invariant if the packet left the records and the
\* list in order.
LEMMA RoundKeeps ==
  ASSUME MasterInv, up, NEW time \in Times, NEW records, RecordsOK(records), NEW list,
         list \in Seq(Entry), list = Rewritten(<<>>, records),
         RoundEnds(records, list, time), UNCHANGED up
  PROVE  MasterInv'
<1>1. /\ time \in Nat /\ now <= time /\ time <= now + 1 /\ now' = time /\ up' = TRUE
      /\ now \in Nat /\ lastListRefresh \in 0 .. now /\ up \in BOOLEAN
  BY DEF MasterInv, TypeOK, Times, RoundEnds
<1>2. {ListTimeout, Refresh, MaxTime} \subseteq Nat BY MasterAssumption
<1>3. CASE Due(records, time)
  <2> DEFINE left == Purged(records, time)
  <2>1. /\ servers' = left /\ server_list' = Rewritten(<<>>, left)
        /\ lastListRefresh' = time
    BY <1>3 DEF RoundEnds, Rewritten
  <2>2. /\ left \in Seq(ServerRecord) /\ Distinct(left)
        /\ \A i \in DOMAIN left :
             left[i].state = "REG" => time - left[i].lastUpdate <= ListTimeout
    BY <1>1, PurgedOK DEF RecordsOK
  <2>3. Rewritten(<<>>, left) \in Seq(Entry) BY <2>2, ListingNames DEF Names
  <2> HIDE DEF left
  <2>4. TypeOK' BY <1>1, <2>1, <2>2, <2>3 DEF TypeOK, Entry
  <2>5. RecordedOnce' BY <2>1, <2>2 DEF RecordedOnce, Distinct
  <2>6. FreshWhenWritten' BY <2>1, <2>2 DEF FreshWhenWritten
  <2>7. ListIsRecent' BY <1>1, <1>2, <2>1 DEF ListIsRecent
  <2>8. server_list' = Rewritten(<<>>, servers') BY <2>1
  <2> QED BY <2>4, <2>5, <2>6, <2>7, <2>8 DEF MasterInv, Rewritten
<1>4. CASE ~ Due(records, time)
  <2>1. servers' = records /\ server_list' = list /\ lastListRefresh' = lastListRefresh
    BY <1>4 DEF RoundEnds
  <2>2. TypeOK' BY <1>1, <2>1 DEF TypeOK, RecordsOK, Entry
  <2>3. RecordedOnce' BY <2>1 DEF RecordedOnce, Distinct, RecordsOK
  <2>4. FreshWhenWritten' BY <2>1 DEF FreshWhenWritten, RecordsOK
  <2>5. ListIsRecent' BY <1>1, <1>2, <1>4, <2>1 DEF ListIsRecent, Due
  <2>6. server_list' = Rewritten(<<>>, servers') BY <2>1
  <2> QED BY <2>2, <2>3, <2>4, <2>5, <2>6 DEF MasterInv, Rewritten
<1> QED BY <1>3, <1>4

\* An endpoint is what a record keeps of it.
LEMMA RecordFacts ==
  ASSUME NEW e \in Endpoints, NEW time \in Nat
  PROVE  /\ Record(e, time) \in ServerRecord
         /\ EndpointOf(Record(e, time)) = e
         /\ Record(e, time).state = "REG" /\ Record(e, time).lastUpdate = time
<1>1. e = [address |-> e.address, port |-> e.port] BY MasterAssumption
<1>2. e.address \in Hosts /\ e.port \in Ports BY DEF Hosts, Ports
<1> QED BY <1>1, <1>2 DEF Record, ServerRecord, EndpointOf

LEMMA RegistersAgainKeeps ==
  ASSUME MasterInv, up, NEW time \in Times, NEW e \in Endpoints, RegistersAgain(e, time)
  PROVE  MasterInv'
<1> DEFINE at      == Found(e)
           updated == [servers[at] EXCEPT !.lastUpdate = time]
           records == [servers EXCEPT ![at] = updated]
<1>1. /\ servers \in Seq(ServerRecord) /\ time \in Nat /\ now <= time
      /\ now \in Nat /\ lastListRefresh \in 0 .. now /\ ListTimeout \in Nat
  BY MasterAssumption DEF MasterInv, TypeOK, Times
<1>2. at \in DOMAIN servers BY <1>1, FoundFacts DEF RegistersAgain
<1>3. RoundEnds([servers EXCEPT ![at].lastUpdate = time], server_list, time) /\ UNCHANGED up
  BY DEF RegistersAgain
<1>4. RoundEnds(records, server_list, time) BY <1>3
<1> HIDE DEF at
<1>5. servers[at] \in ServerRecord BY <1>1, <1>2
<1>6. /\ updated \in ServerRecord /\ updated.state = servers[at].state
      /\ EndpointOf(updated) = EndpointOf(servers[at]) /\ updated.lastUpdate = time
  BY <1>1, <1>5 DEF ServerRecord, EndpointOf
<1> HIDE DEF updated
<1>7. /\ records \in Seq(ServerRecord) /\ Len(records) = Len(servers)
      /\ DOMAIN records = DOMAIN servers
      /\ \A i \in DOMAIN servers : records[i] = IF i = at THEN updated ELSE servers[i]
  BY <1>1, <1>2, <1>6
<1> HIDE DEF records
<1>8. \A i \in DOMAIN servers : /\ records[i].state = servers[i].state
                                /\ EndpointOf(records[i]) = EndpointOf(servers[i])
  BY <1>6, <1>7
<1>9. RecordsOK(records)
  <2>1. Distinct(records) BY <1>7, <1>8 DEF Distinct, MasterInv, RecordedOnce
  <2>2. \A i \in DOMAIN records :
          records[i].state = "REG" => lastListRefresh - records[i].lastUpdate <= ListTimeout
    BY <1>1, <1>6, <1>7 DEF MasterInv, FreshWhenWritten
  <2> QED BY <1>7, <2>1, <2>2 DEF RecordsOK
<1>10. server_list = Rewritten(<<>>, records)
  <2>1. \A i \in 1 .. Len(records) : /\ records[i].state = "REG" <=> servers[i].state = "REG"
                                     /\ EndpointOf(records[i]) = EndpointOf(servers[i])
    BY <1>1, <1>7, <1>8
  <2>2. Rewritten(<<>>, records) = Rewritten(<<>>, servers)
    BY <1>1, <1>7, <2>1, RewrittenSame
  <2> QED BY <2>2 DEF MasterInv
<1>11. server_list \in Seq(Entry) BY DEF MasterInv, TypeOK, Entry
<1> QED BY <1>3, <1>4, <1>9, <1>10, <1>11, RoundKeeps

LEMMA RegistersFirstKeeps ==
  ASSUME MasterInv, up, NEW time \in Times, NEW e \in Endpoints, RegistersFirst(e, time)
  PROVE  MasterInv'
<1> DEFINE r       == Record(e, time)
           records == Append(servers, r)
           n       == Len(servers)
<1>1. /\ servers \in Seq(ServerRecord) /\ time \in Nat /\ now <= time
      /\ now \in Nat /\ lastListRefresh \in 0 .. now /\ ListTimeout \in Nat
  BY MasterAssumption DEF MasterInv, TypeOK, Times
<1>2. /\ RoundEnds(records, Append(server_list, e), time) /\ UNCHANGED up
      /\ Found(e) = 0
  BY DEF RegistersFirst
<1>3. /\ r \in ServerRecord /\ EndpointOf(r) = e
      /\ r.state = "REG" /\ r.lastUpdate = time
  BY <1>1, RecordFacts
<1> HIDE DEF r
<1>4. \A i \in DOMAIN servers : EndpointOf(servers[i]) # e BY <1>1, <1>2, FoundFacts
<1>5. /\ records \in Seq(ServerRecord) /\ DOMAIN records = 1 .. n + 1 /\ n \in Nat
      /\ DOMAIN servers = 1 .. n
      /\ records[n + 1] = r /\ \A i \in 1 .. n : records[i] = servers[i]
  BY <1>1, <1>3
<1>6. server_list \in Seq(Entry) /\ server_list = Rewritten(<<>>, servers)
  BY DEF MasterInv, TypeOK, Entry
<1>7. Append(server_list, e) = Rewritten(<<>>, records)
  BY <1>1, <1>3, <1>6, RewrittenAppend
<1>8. Append(server_list, e) \in Seq(Entry)
  <2>1. e \in Entry BY <1>3, EndpointType
  <2> QED BY <1>6, <2>1
<1> HIDE DEF records, n
<1>9. RecordsOK(records)
  <2>1. \A i \in DOMAIN records : i \in DOMAIN servers \/ i = n + 1 BY <1>5
  <2>2. Distinct(records)
    <3> SUFFICES ASSUME NEW i \in DOMAIN records, NEW j \in DOMAIN records,
                        EndpointOf(records[i]) = EndpointOf(records[j])
                 PROVE  i = j
      BY DEF Distinct
    <3>1. CASE i \in DOMAIN servers /\ j \in DOMAIN servers
      <4>1. EndpointOf(servers[i]) = EndpointOf(servers[j]) BY <1>5, <3>1
      <4> QED BY <3>1, <4>1 DEF MasterInv, RecordedOnce
    <3>2. CASE i \in DOMAIN servers /\ j = n + 1 BY <1>3, <1>4, <1>5, <3>2
    <3>3. CASE i = n + 1 /\ j \in DOMAIN servers BY <1>3, <1>4, <1>5, <3>3
    <3>4. CASE i = n + 1 /\ j = n + 1 BY <3>4
    <3> QED BY <2>1, <3>1, <3>2, <3>3, <3>4
  <2>3. ASSUME NEW i \in DOMAIN records, records[i].state = "REG"
        PROVE  lastListRefresh - records[i].lastUpdate <= ListTimeout
    <3>1. CASE i \in DOMAIN servers
      BY <1>5, <2>3, <3>1 DEF MasterInv, FreshWhenWritten
    <3>2. CASE i = n + 1 BY <1>1, <1>3, <1>5, <3>2
    <3> QED BY <2>1, <3>1, <3>2
  <2> QED BY <1>5, <2>2, <2>3 DEF RecordsOK
<1> QED BY <1>2, <1>7, <1>8, <1>9, RoundKeeps

\* servers.at(i) throws: the list is one round older, and the program has ended.
LEMMA RegistersInUsedSlotKeeps ==
  ASSUME MasterInv, up, NEW time \in Times, NEW e \in Endpoints,
         RegistersInUsedSlot(e, time)
  PROVE  MasterInv'
<1>1. /\ time \in Nat /\ now <= time /\ time <= now + 1 /\ now' = time /\ up' = FALSE
      /\ now \in Nat /\ lastListRefresh \in 0 .. now /\ Refresh \in Nat
      /\ servers' = servers /\ server_list' = server_list
      /\ lastListRefresh' = lastListRefresh
  BY MasterAssumption DEF MasterInv, TypeOK, Times, RegistersInUsedSlot
<1>2. TypeOK'
  <2>1. lastListRefresh \in 0 .. time BY <1>1
  <2>2. TypeOK BY DEF MasterInv
  <2> QED BY <1>1, <2>1, <2>2 DEF TypeOK
<1>3. RecordedOnce' BY <1>1 DEF MasterInv, RecordedOnce
<1>4. FreshWhenWritten' BY <1>1 DEF MasterInv, FreshWhenWritten
<1>5. ListIsRecent' BY <1>1 DEF MasterInv, ListIsRecent
<1>6. server_list' = Rewritten(<<>>, servers') BY <1>1 DEF MasterInv
<1> QED BY <1>2, <1>3, <1>4, <1>5, <1>6 DEF MasterInv, Rewritten

LEMMA UnregistersKeeps ==
  ASSUME MasterInv, up, NEW time \in Times, NEW e, Unregisters(e, time)
  PROVE  MasterInv'
<1> DEFINE at      == SelectInSeq(servers, LAMBDA r : r.address # e.address)
           dropped == IF at = 0 THEN servers ELSE [servers EXCEPT ![at].state = "EMPTY"]
           left    == Purged(dropped, time)
<1>1. /\ servers \in Seq(ServerRecord) /\ time \in Nat /\ Refresh \in Nat
  BY MasterAssumption DEF MasterInv, TypeOK, Times
<1>2. /\ now' = time /\ servers' = left /\ server_list' = Rewritten(server_list, servers')
      /\ lastListRefresh' = time /\ up' = up
  BY DEF Unregisters
<1> HIDE DEF at
<1>3. dropped \in Seq(ServerRecord) /\ Distinct(dropped)
  <2>1. CASE at = 0 BY <1>1, <2>1 DEF Distinct, MasterInv, RecordedOnce
  <2>2. CASE at # 0
    <3> DEFINE marked == [servers[at] EXCEPT !.state = "EMPTY"]
    <3>1. dropped = [servers EXCEPT ![at] = marked] BY <2>2
    <3>2. at \in DOMAIN servers =>
            marked \in ServerRecord /\ EndpointOf(marked) = EndpointOf(servers[at])
      <4>1. at \in DOMAIN servers => servers[at] \in ServerRecord BY <1>1
      <4> QED BY <4>1 DEF ServerRecord, EndpointOf
    <3> HIDE DEF marked, dropped
    <3>3. /\ dropped \in Seq(ServerRecord) /\ DOMAIN dropped = DOMAIN servers
          /\ \A i \in DOMAIN servers : EndpointOf(dropped[i]) = EndpointOf(servers[i])
      <4>1. CASE at \in DOMAIN servers
        <5>1. DOMAIN dropped = DOMAIN servers BY <3>1
        <5>2. \A i \in DOMAIN servers :
                dropped[i] = IF i = at THEN marked ELSE servers[i]
          BY <3>1
        <5>3. dropped \in Seq(ServerRecord) BY <1>1, <3>1, <3>2, <4>1
        <5> QED BY <3>2, <4>1, <5>1, <5>2, <5>3
      <4>2. CASE at \notin DOMAIN servers
        <5>1. dropped = servers BY <1>1, <3>1, <4>2
        <5> QED BY <1>1, <5>1
      <4> QED BY <4>1, <4>2
    <3> QED BY <3>3 DEF Distinct, MasterInv, RecordedOnce
  <2> QED BY <2>1, <2>2
<1> HIDE DEF dropped
<1>4. /\ left \in Seq(ServerRecord) /\ Distinct(left)
      /\ \A i \in DOMAIN left :
           left[i].state = "REG" => time - left[i].lastUpdate <= ListTimeout
  BY <1>1, <1>3, PurgedOK
<1>5. Rewritten(<<>>, left) \in Seq(Entry) BY <1>4, ListingNames DEF Names
<1> HIDE DEF left
<1>6. server_list' = Rewritten(<<>>, left) BY <1>2 DEF Rewritten
<1>7. TypeOK' BY <1>1, <1>2, <1>4, <1>5, <1>6 DEF MasterInv, TypeOK, Entry
<1>8. RecordedOnce' BY <1>2, <1>4 DEF RecordedOnce, Distinct
<1>9. FreshWhenWritten' BY <1>2, <1>4 DEF FreshWhenWritten
<1>10. ListIsRecent' BY <1>1, <1>2 DEF ListIsRecent
<1> QED BY <1>2, <1>6, <1>7, <1>8, <1>9, <1>10 DEF MasterInv, Rewritten

\* A start finds no records and an empty text.
LEMMA EmptyListing == Rewritten(<<>>, <<>>) = <<>>
<1>1. <<>> \in Seq(ServerRecord) /\ Len(<<>>) = 0 OBVIOUS
<1>2. PICK text : IsText(text, <<>>, <<>>) /\ Listing(<<>>, <<>>) = text[Len(<<>>)]
  BY <1>1, ListingText
<1>3. text[0] = <<>> BY <1>1, <1>2, TextStep
<1> QED BY <1>1, <1>2, <1>3 DEF Rewritten

LEMMA StartedInv ==
  ASSUME servers = <<>>, server_list = <<>>, now \in Nat, lastListRefresh \in 0 .. now,
         up \in BOOLEAN
  PROVE  MasterInv
<1>1. TypeOK BY DEF TypeOK
<1>2. RecordedOnce /\ FreshWhenWritten /\ ListIsRecent
  BY DEF RecordedOnce, FreshWhenWritten, ListIsRecent
<1> QED BY <1>1, <1>2, EmptyListing DEF MasterInv

-----------------------------------------------------------------------------
(***************************************************************************)
(* The invariant and what follows from it.                                 *)
(***************************************************************************)
LEMMA StepKeeps ==
  ASSUME MasterInv, [Next]_vars PROVE MasterInv'
<1>1. ASSUME up, NEW time \in Times, NothingToRecord(time) PROVE MasterInv'
  <2>1. RecordsOK(servers)
    BY DEF MasterInv, TypeOK, RecordsOK, Distinct, RecordedOnce, FreshWhenWritten
  <2>2. server_list \in Seq(Entry) /\ server_list = Rewritten(<<>>, servers)
    BY DEF MasterInv, TypeOK, Entry
  <2> QED BY <1>1, <2>1, <2>2, RoundKeeps DEF NothingToRecord
<1>2. ASSUME Restarts PROVE MasterInv'
  <2>1. /\ servers' = <<>> /\ server_list' = <<>> /\ now' \in Nat
        /\ lastListRefresh' \in 0 .. now' /\ up' \in BOOLEAN
    BY <1>2 DEF Restarts, Started, MasterInv, TypeOK
  <2>2. TypeOK' BY <2>1 DEF TypeOK
  <2>3. RecordedOnce' /\ FreshWhenWritten' /\ ListIsRecent'
    BY <2>1 DEF RecordedOnce, FreshWhenWritten, ListIsRecent
  <2>4. server_list' = Rewritten(<<>>, servers') BY <2>1, EmptyListing
  <2> QED BY <2>2, <2>3, <2>4 DEF MasterInv, Rewritten
<1>3. CASE UNCHANGED vars
  BY <1>3 DEF vars, MasterInv, TypeOK, RecordedOnce, FreshWhenWritten, ListIsRecent, Rewritten
<1> QED
  BY <1>1, <1>2, <1>3, RegistersAgainKeeps, RegistersFirstKeeps, RegistersInUsedSlotKeeps,
     UnregistersKeeps DEF Next

\* The inductive invariant.
LEMMA Invariant == Spec => []MasterInv
<1>1. Init => MasterInv
  <2> SUFFICES ASSUME Init PROVE MasterInv OBVIOUS
  <2> QED BY StartedInv DEF Init
<1>2. MasterInv /\ [Next]_vars => MasterInv' BY StepKeeps
<1> QED BY <1>1, <1>2, PTL DEF Spec

\* The text names registered records, each of them once.
LEMMA ListNames == MasterInv => Names(server_list, servers, Len(servers))
<1> SUFFICES ASSUME MasterInv PROVE Names(server_list, servers, Len(servers)) OBVIOUS
<1>1. servers \in Seq(ServerRecord) /\ Distinct(servers)
  BY DEF MasterInv, TypeOK, RecordedOnce, Distinct
<1>2. Names(Rewritten(<<>>, servers), servers, Len(servers)) BY <1>1, ListingNames
<1> QED BY <1>2 DEF MasterInv

\* A server is never listed twice, however often and however late it registers,
\* and although 'R' appends to the text what RecreateList writes anew.
THEOREM NoneTwice == Spec => []ListedOnce
<1>1. MasterInv => ListedOnce BY ListNames DEF Names, ListedOnce
<1> QED BY <1>1, Invariant, PTL

\* The text is always the one RecreateList would write of the records.
THEOREM TextIsRecords == Spec => []ListMatchesRecords
<1>1. MasterInv => ListMatchesRecords BY DEF MasterInv, ListMatchesRecords
<1> QED BY <1>1, Invariant, PTL

\* No answer names a server that registered longer ago than the timeout and one
\* refresh of the list.
THEOREM NoStaleAnswer == Spec => []AnswersAreFresh
<1>1. ASSUME MasterInv PROVE AnswersAreFresh
  <2> SUFFICES ASSUME NEW i \in DOMAIN server_list
               PROVE  LET record == CHOOSE r \in ToSet(servers) :
                                      EndpointOf(r) = server_list[i]
                      IN now - record.lastUpdate <= ListTimeout + Refresh + 1
    BY DEF AnswersAreFresh
  <2> DEFINE record == CHOOSE r \in ToSet(servers) : EndpointOf(r) = server_list[i]
  <2>1. servers \in Seq(ServerRecord) BY <1>1 DEF MasterInv, TypeOK
  <2>2. PICK k \in 1 .. Len(servers) :
          servers[k].state = "REG" /\ server_list[i] = EndpointOf(servers[k])
    BY <1>1, ListNames DEF Names
  <2>3. k \in DOMAIN servers /\ servers[k] \in ServerRecord BY <2>1
  <2>4. record \in ToSet(servers) /\ EndpointOf(record) = server_list[i]
    BY <2>2, <2>3 DEF ToSet
  <2>5. PICK j \in DOMAIN servers : record = servers[j] BY <2>4 DEF ToSet
  <2>6. record = servers[k]
    BY <1>1, <2>2, <2>3, <2>4, <2>5 DEF MasterInv, RecordedOnce
  <2> HIDE DEF record
  <2>7. servers # <<>> BY <2>1, <2>3
  <2>8. lastListRefresh - record.lastUpdate <= ListTimeout
    BY <1>1, <2>2, <2>3, <2>6 DEF MasterInv, FreshWhenWritten
  <2>9. now - lastListRefresh <= Refresh + 1
    BY <1>1, <2>7, MasterAssumption DEF MasterInv, TypeOK, ListIsRecent
  <2>10. /\ record.lastUpdate \in Nat /\ now \in Nat /\ lastListRefresh \in Nat
         /\ ListTimeout \in Nat /\ Refresh \in Nat
    BY <1>1, <2>3, <2>6, MasterAssumption DEF MasterInv, TypeOK, ServerRecord
  <2>11. now - record.lastUpdate <= ListTimeout + Refresh + 1 BY <2>8, <2>9, <2>10
  <2> QED BY <2>11 DEF record
<1> QED BY <1>1, Invariant, PTL
=============================================================================
