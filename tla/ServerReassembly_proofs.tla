------------------------ MODULE ServerReassembly_proofs ------------------------
(***************************************************************************)
(* Theorems about ServerReassembly, for every FEC profile, payload length, *)
(* number of fragments, payloads, sessions and threads, and every choice   *)
(* of timeouts that meets the premises a theorem names.                    *)
(***************************************************************************)
EXTENDS ServerReassembly, FiniteSetTheorems, TLAPS

-------------------------------------------------------------------------------
(* Types.                                                                  *)

LEMMA NextSeqType == ASSUME NEW n \in Seqs PROVE NextSeq(n) \in Seqs
  BY ProfileAssumption DEF NextSeq, Seqs

LEMMA NewGroupType == ASSUME NEW t \in Nat PROVE NewGroup(t) \in Group
  BY DEF NewGroup, Group, NoParts, Parts

LEMMA KeyType == ASSUME TypeOK, NEW t \in Thread PROVE KeyOf(t) \in Keys
  BY DEF TypeOK, Thread, KeyOf, Keys

LEMMA FoundType == ASSUME TypeOK, NEW key \in Keys PROVE Found(key) \in Group
  BY NewGroupType DEF TypeOK, Found

LEMMA StoredType == ASSUME TypeOK, NEW t \in Thread PROVE Stored(t) \in Parts
<1>1. Found(KeyOf(t)).parts \in Parts
  BY KeyType, FoundType DEF Group
<1>2. t.shard \in Shards /\ t.frag \in Frags /\ t.payload \in Payloads
  BY DEF Thread
<1>3. QED
  BY <1>1, <1>2 DEF Stored, Parts

LEMMA DecodedType ==
  ASSUME NEW parts PROVE Decoded(parts) \in Payloads \union {Corrupt}
  BY DEF Decoded, DecodedAs

\* The fields of a kept group and the tables around it stay well typed.
LEMMA KeepType ==
  ASSUME TypeOK, NEW t \in threads, Keep(t)
  PROVE  /\ KeyOf(t) \in Keys
         /\ groups' \subseteq Keys
         /\ group' \in [Keys -> Group]
<1>1. t \in Thread
  BY DEF TypeOK
<1>2. KeyOf(t) \in Keys /\ Stored(t) \in Parts /\ Found(KeyOf(t)) \in Group
  BY <1>1, KeyType, StoredType, FoundType
<1>3. [parts |-> Stored(t), ts |-> Found(KeyOf(t)).ts] \in Group
  BY <1>2 DEF Group
<1>4. QED
  BY <1>2, <1>3 DEF Keep, TypeOK

LEMMA FinishType ==
  ASSUME TypeOK, NEW t \in threads, Finish(t)
  PROVE  /\ now' \in Nat /\ sent' \subseteq Payloads /\ seq' \in Seqs
         /\ seqOf' \in [Payloads -> Seqs] /\ sentAt' \in [Payloads -> Nat]
         /\ sessions' \in 0 .. MaxSessions /\ current' \in {0, sessions'}
         /\ lastSeen' \in [Sessions -> Nat] /\ threads' \subseteq Thread
  BY DEF TypeOK, Finish, clientVars, sessionVars

LEMMA InitType == Init => TypeOK
<1> SUFFICES ASSUME Init PROVE TypeOK
  OBVIOUS
<1>1. 0 \in Seqs
  BY ProfileAssumption DEF Seqs
<1>2. NewGroup(0) \in Group
  BY NewGroupType
<1>3. QED
  BY <1>1, <1>2, BoundAssumption DEF Init, TypeOK

\* Every step keeps every variable in its type: sequence numbers stay below
\* SeqSpace, threads hold datagrams of the profile, every group has the shape
\* of its FEC profile.
LEMMA TypeStep == TypeOK /\ [Next]_vars => TypeOK'
<1> SUFFICES ASSUME TypeOK, [Next]_vars PROVE TypeOK'
  OBVIOUS
<1>1. ASSUME NEW p \in Payloads, ClientSend(p) PROVE TypeOK'
  <2>1. NextSeq(seq) \in Seqs
    BY NextSeqType DEF TypeOK
  <2>2. QED
    BY <1>1, <2>1 DEF TypeOK, ClientSend, sessionVars, groupVars
<1>2. CASE ClientResume
  <2>1. 0 \in Seqs
    BY ProfileAssumption DEF Seqs
  <2>2. QED
    BY <1>2, <2>1 DEF TypeOK, ClientResume, sessionVars, groupVars
<1>3. ASSUME NEW p \in Payloads, NEW i \in Shards, NEW f \in Frags, Receive(p, i, f)
      PROVE  TypeOK'
  <2>1. /\ sessions' \in 0 .. MaxSessions
        /\ current' \in {0, sessions'}
        /\ current' \in Sessions
        /\ lastSeen' \in [Sessions -> Nat]
    <3>1. CASE current # 0 /\ UNCHANGED <<sessionVars, lastSeen>>
      BY <3>1, BoundAssumption DEF TypeOK, sessionVars, Sessions
    <3>2. CASE /\ current = 0
               /\ sessions < MaxSessions
               /\ sessions' = sessions + 1
               /\ current' = sessions + 1
               /\ lastSeen' = [lastSeen EXCEPT ![sessions + 1] = now]
      BY <3>2, BoundAssumption DEF TypeOK, Sessions
    <3>3. QED
      BY <1>3, <3>1, <3>2 DEF Receive
  <2>2. threads' \subseteq Thread
    BY <1>3, <2>1 DEF TypeOK, Receive, Thread
  <2>3. QED
    BY <1>3, <2>1, <2>2 DEF TypeOK, Receive, clientVars, groupVars
<1>4. ASSUME NEW t \in threads, Discard(t) PROVE TypeOK'
  <2>1. Finish(t)
    BY <1>4 DEF Discard
  <2>2. QED
    BY <1>4, <2>1, FinishType DEF TypeOK, Discard, groupVars
<1>5. ASSUME NEW t \in threads, Store(t) PROVE TypeOK'
  <2>1. Finish(t) /\ Keep(t)
    BY <1>5 DEF Store
  <2>2. delivered' \subseteq groups' /\ out' = out
    BY <1>5, <2>1 DEF Store, Keep, TypeOK
  <2>3. QED
    BY <2>1, <2>2, FinishType, KeepType DEF TypeOK
<1>6. ASSUME NEW t \in threads, Deliver(t) PROVE TypeOK'
  <2>1. Finish(t) /\ Keep(t)
    BY <1>6 DEF Deliver
  <2>2. t.session \in Sessions /\ Decoded(Stored(t)) \in Payloads \union {Corrupt}
    BY DecodedType DEF TypeOK, Thread
  <2>3. out' \in [Sessions -> [Payloads \union {Corrupt} -> Nat]]
    <3> DEFINE v == Decoded(Stored(t))
    <3>1. out[t.session][v] + 1 \in Nat
      BY <2>2 DEF TypeOK
    <3>2. out' = [out EXCEPT ![t.session][v] = out[t.session][v] + 1]
      BY <1>6 DEF Deliver
    <3> HIDE DEF v
    <3>3. QED
      BY <2>2, <3>1, <3>2 DEF TypeOK, v
  <2>4. delivered' \subseteq groups'
    BY <1>6, <2>1 DEF Deliver, Keep, TypeOK
  <2>5. QED
    BY <2>1, <2>3, <2>4, FinishType, KeepType DEF TypeOK
<1>7. CASE ExpireSession
  BY <1>7 DEF TypeOK, ExpireSession, clientVars, groupVars
<1>8. CASE SweepGroups
  BY <1>8, NewGroupType DEF TypeOK, SweepGroups, clientVars, sessionVars
<1>9. CASE Tick
  <2>1. now' \in Nat
    BY <1>9 DEF TypeOK, Tick
  <2>2. QED
    BY <1>9, <2>1 DEF TypeOK, Tick, clientVars, sessionVars, groupVars
<1>10. CASE UNCHANGED vars
  BY <1>10 DEF TypeOK, vars, clientVars, sessionVars, groupVars
<1>11. QED
  BY <1>1, <1>2, <1>3, <1>4, <1>5, <1>6, <1>7, <1>8, <1>9, <1>10 DEF Next

\* Whatever the constants, the server and the network never leave the types.
THEOREM TypeCorrect == Spec => []TypeOK
  BY InitType, TypeStep, PTL DEF Spec

-------------------------------------------------------------------------------
(* Decoding.                                                               *)

\* K shards hold the whole payload.
LEMMA ShardLenCovers == ShardLen \in Nat /\ K * ShardLen >= PayloadLen
<1> DEFINE n == PayloadLen + K - 1
<1>1. n \in Nat /\ K \in Nat /\ K > 0 /\ PayloadLen \in Nat
  BY ProfileAssumption
<1>2. n = K * (n \div K) + (n % K) /\ n % K \in 0 .. K - 1 /\ n \div K \in Int
  BY <1>1
<1>3. n \div K \in Nat
  BY <1>1
<1>4. K * (n \div K) \in Int
  BY <1>1, <1>2
<1>5. K * (n \div K) >= PayloadLen
  BY <1>1, <1>2, <1>4
<1>6. QED
  BY <1>3, <1>5 DEF ShardLen

\* If the payload does not fit into K - 1 shards, the server cannot take a
\* count below K for the profile, and K itself is acceptable.
LEMMA OnlyKFits ==
  ASSUME SafeLength, NEW n \in 0 .. K, NEW k, Fits(k, n)
  PROVE  k = K
<1>1. k \in 1 .. n /\ k * ShardLen >= PayloadLen
  BY DEF Fits
<1>2. K \in Nat /\ PayloadLen \in Nat /\ ShardLen \in Nat
  BY ProfileAssumption, ShardLenCovers
<1>3. SUFFICES ASSUME k <= K - 1 PROVE FALSE
  BY <1>1, <1>2
<1> DEFINE d == (K - 1) - k
<1>4. d \in Nat /\ k \in Nat /\ K - 1 = k + d
  BY <1>1, <1>2, <1>3
<1>5. d * ShardLen \in Nat /\ k * ShardLen \in Nat
  BY <1>2, <1>4
<1>6. (k + d) * ShardLen = k * ShardLen + d * ShardLen
  BY <1>2, <1>4
<1>7. QED
  BY <1>1, <1>2, <1>4, <1>5, <1>6 DEF SafeLength

LEMMA KFits ==
  ASSUME NEW n \in Nat, n >= K PROVE Fits(K, n) /\ Reconstructs(n)
<1>1. K \in 1 .. n
  BY ProfileAssumption
<1>2. Fits(K, n)
  BY <1>1, ShardLenCovers DEF Fits
<1>3. QED
  BY <1>1, <1>2 DEF Reconstructs

\* With fewer than K shards nothing is reconstructed.
LEMMA NothingEarly ==
  ASSUME SafeLength, NEW n \in Nat, n < K PROVE ~Reconstructs(n)
<1>1. ASSUME NEW k \in 1 .. n, Fits(k, n) PROVE FALSE
  <2>1. n \in 0 .. K /\ k < K
    BY ProfileAssumption
  <2>2. k = K
    BY <1>1, <2>1, OnlyKFits
  <2>3. QED
    BY <2>1, <2>2, ProfileAssumption
<1>2. QED
  BY <1>1 DEF Reconstructs

\* With K shards the server settles on K, whatever its own fec_k and fec_m.
LEMMA ChoosesK == ASSUME SafeLength PROVE ChosenK(K) = K
<1> DEFINE fit == {i \in 1 .. 3 : Fits(Preferred[i], K)}
           least == CHOOSE i \in fit : \A j \in fit : i <= j
<1>1. CASE fit = {}
  BY <1>1 DEF ChosenK
<1>2. CASE fit # {}
  <2>1. \E i \in fit : \A j \in fit : i <= j
    <3>1. CASE 1 \in fit
      BY <3>1
    <3>2. CASE 1 \notin fit /\ 2 \in fit
      BY <3>2
    <3>3. CASE 1 \notin fit /\ 2 \notin fit
      <4>1. \A j \in fit : j = 3
        BY <3>3
      <4>2. QED
        BY <1>2, <4>1
    <3>4. QED
      BY <3>1, <3>2, <3>3
  <2>2. least \in fit
    BY <2>1
  <2>3. Fits(Preferred[least], K)
    BY <2>2
  <2>4. K \in 0 .. K
    BY ProfileAssumption
  <2>5. Preferred[least] = K
    BY <2>3, <2>4, OnlyKFits
  <2>6. QED
    BY <1>2, <2>5 DEF ChosenK
<1>3. QED
  BY <1>1, <1>2

LEMMA PresentFinite ==
  ASSUME NEW parts
  PROVE  /\ Present(parts) \subseteq Shards
         /\ IsFiniteSet(Present(parts))
         /\ Cardinality(Present(parts)) \in Nat
<1>1. IsFiniteSet(Shards)
  BY ProfileAssumption, FS_Interval DEF Shards, Total
<1>2. Present(parts) \subseteq Shards
  BY DEF Present
<1>3. QED
  BY <1>1, <1>2, FS_Subset, FS_CardinalityType

\* K shards, all of one payload, decode to that payload.
LEMMA DecodesRight ==
  ASSUME SafeLength, NEW parts \in Parts, NEW p \in Payloads,
         Cardinality(Present(parts)) = K,
         \A i \in Shards, f \in Frags : parts[i][f] \in {p, Empty}
  PROVE  Decoded(parts) = p
<1> DEFINE present == Present(parts)
           rows == Rows(present, K)
           sources == {parts[i][f] : i \in rows, f \in Frags}
<1>1. K \in Nat /\ K > 0 /\ 0 \in Frags
  BY ProfileAssumption DEF Frags
<1>2. present \subseteq Shards /\ IsFiniteSet(present)
  BY PresentFinite
<1>3. rows \subseteq present /\ rows # {}
  <2>1. CASE 0 .. K - 1 \subseteq present
    <3>1. rows = 0 .. K - 1
      BY <2>1 DEF Rows
    <3>2. 0 \in 0 .. K - 1
      BY <1>1
    <3>3. QED
      BY <2>1, <3>1, <3>2
  <2>2. CASE ~(0 .. K - 1 \subseteq present)
    <3>1. ASSUME NEW i \in present
          PROVE  Cardinality({j \in present : j < i}) < K
      <4> DEFINE below == {j \in present : j < i}
      <4>1. below \in SUBSET present
        OBVIOUS
      <4>2. below # present
        BY <1>2 DEF Shards
      <4> HIDE DEF below
      <4>3. /\ Cardinality(below) <= Cardinality(present)
            /\ Cardinality(present) = Cardinality(below) => present = below
        BY <1>2, <4>1, FS_Subset
      <4>4. IsFiniteSet(below)
        BY <1>2, <4>1, FS_Subset
      <4>5. Cardinality(below) \in Nat
        BY <4>4, FS_CardinalityType
      <4>6. Cardinality(below) < K
        BY <1>1, <4>2, <4>3, <4>5
      <4>7. QED
        BY <4>6 DEF below
    <3>2. rows = present
      BY <2>2, <3>1 DEF Rows
    <3>3. present # {}
      BY <1>1, FS_EmptySet
    <3>4. QED
      BY <3>2, <3>3
  <2>3. QED
    BY <2>1, <2>2
<1>4. sources = {p}
  <2>1. \A i \in rows, f \in Frags : parts[i][f] = p
    BY <1>2, <1>3 DEF Present
  <2>2. QED
    BY <1>1, <1>3, <2>1
<1>5. RowsAgree(rows, K)
  BY <1>1 DEF RowsAgree
<1>6. ChosenK(Cardinality(present)) = K
  BY ChoosesK
<1>7. DecodedAs(parts, K) = IF RowsAgree(rows, K) /\ \E q \in Payloads : sources = {q}
                            THEN CHOOSE q \in Payloads : sources = {q}
                            ELSE Corrupt
  BY DEF DecodedAs
<1> HIDE DEF rows, sources
<1>8. RowsAgree(rows, K) /\ \E q \in Payloads : sources = {q}
  BY <1>4, <1>5
<1>9. (CHOOSE q \in Payloads : sources = {q}) = p
  BY <1>4
<1>10. QED
  BY <1>6, <1>7, <1>8, <1>9 DEF Decoded

-------------------------------------------------------------------------------
(* What a handler thread finds.                                            *)

LEMMA ThreadType ==
  ASSUME TypeOK, NEW t \in threads
  PROVE  /\ t \in Thread
         /\ t.session \in Sessions /\ t.payload \in Payloads
         /\ t.shard \in Shards /\ t.frag \in Frags
         /\ KeyOf(t) \in Keys
         /\ KeyOf(t)[1] = t.session /\ KeyOf(t)[2] = seqOf[t.payload]
<1>1. t \in Thread
  BY DEF TypeOK
<1>2. QED
  BY <1>1, KeyType DEF Thread, KeyOf

\* The group a thread meets under its sequence number collects the shards of
\* the thread's own payload: an earlier payload's group is gone by now, and a
\* later payload cannot have been sent yet.
LEMMA SameOwner ==
  ASSUME IInv, WellTimed, NEW t \in threads, KeyOf(t) \in groups,
         NEW p \in Payloads, Owns(p, KeyOf(t))
  PROVE  p = t.payload
<1> DEFINE q == t.payload
           key == KeyOf(t)
           ts == group[key].ts
<1>1. /\ q \in Payloads /\ key \in Keys
      /\ key[1] = t.session /\ key[2] = seqOf[q]
  BY ThreadType DEF IInv
<1>2. /\ now \in Nat /\ ts \in Nat
      /\ sentAt[p] \in Nat /\ sentAt[q] \in Nat
  BY <1>1 DEF IInv, TypeOK, Group
<1>3. /\ p \in sent /\ seqOf[p] = seqOf[q]
      /\ ts <= sentAt[p] + Lifetime
  BY <1>1 DEF Owns
<1>4. q \in sent /\ now <= sentAt[q] + Lifetime /\ sentAt[p] <= now
  BY <1>3 DEF IInv, Timely, InFlight
<1>5. sentAt[q] <= ts + GroupTTL + SweepPeriod
  BY <1>1 DEF IInv, Young
<1>6. SUFFICES ASSUME p # q PROVE FALSE
  OBVIOUS
<1>7. \/ sentAt[p] > sentAt[q] + QuietTime
      \/ sentAt[q] > sentAt[p] + QuietTime
  BY <1>3, <1>4, <1>6 DEF IInv, Separated
<1> HIDE DEF q, key, ts
<1>8. QED
  BY <1>2, <1>3, <1>4, <1>5, <1>7, TimeAssumption DEF WellTimed

LEMMA OwnGroup ==
  ASSUME IInv, WellTimed, NEW t \in threads, KeyOf(t) \in groups
  PROVE  Owns(t.payload, KeyOf(t))
<1>1. PICK p \in Payloads : Owns(p, KeyOf(t))
  BY DEF IInv, Owned
<1>2. QED
  BY <1>1, SameOwner

LEMMA NothingInNoParts == Present(NoParts) = {}
<1>1. 0 \in Frags
  BY ProfileAssumption DEF Frags
<1>2. QED
  BY <1>1 DEF Present, NoParts

\* The group found holds only the thread's payload, opened within a Lifetime
\* of its send, and before its delivery it holds fewer than K shards.
LEMMA FoundGroup ==
  ASSUME IInv, WellTimed, NEW t \in threads
  PROVE  /\ Found(KeyOf(t)).ts \in sentAt[t.payload] .. now
         /\ Found(KeyOf(t)).ts <= sentAt[t.payload] + Lifetime
         /\ \A i \in Shards, f \in Frags :
                Found(KeyOf(t)).parts[i][f] \in {t.payload, Empty}
         /\ KeyOf(t) \notin delivered =>
                Cardinality(Present(Found(KeyOf(t)).parts)) < K
<1> DEFINE q == t.payload
           key == KeyOf(t)
<1>1. q \in Payloads /\ key \in Keys
  BY ThreadType DEF IInv
<1>2. CASE key \in groups
  <2>1. Found(key) = group[key] /\ Owns(q, key)
    BY <1>2, OwnGroup DEF Found
  <2>2. key \notin delivered => ~(Cardinality(Present(group[key].parts)) >= K)
    BY <1>2 DEF IInv, NoStuckGroup
  <2>3. Cardinality(Present(group[key].parts)) \in Nat /\ K \in Nat
    BY PresentFinite, ProfileAssumption
  <2>4. key \notin delivered => Cardinality(Present(group[key].parts)) < K
    BY <2>2, <2>3
  <2>5. QED
    BY <2>1, <2>4 DEF Owns
<1>3. CASE key \notin groups
  <2>1. Found(key) = NewGroup(now)
    BY <1>3 DEF Found
  <2>2. Found(key).ts = now /\ Found(key).parts = NoParts
    BY <2>1 DEF NewGroup
  <2>3. sentAt[q] <= now /\ now <= sentAt[q] + Lifetime
    BY DEF IInv, Timely, InFlight
  <2>4. now \in Nat /\ sentAt[q] \in Nat
    BY <1>1 DEF IInv, TypeOK
  <2>5. Cardinality(Present(NoParts)) = 0
    BY NothingInNoParts, FS_EmptySet
  <2>6. \A i \in Shards, f \in Frags : NoParts[i][f] = Empty
    BY DEF NoParts
  <2>7. QED
    BY <2>2, <2>3, <2>4, <2>5, <2>6, ProfileAssumption
<1>4. QED
  BY <1>2, <1>3

LEMMA StoredSlots ==
  ASSUME TypeOK, NEW t \in threads, NEW i \in Shards, NEW f \in Frags
  PROVE  Stored(t)[i][f] = IF i = t.shard /\ f = t.frag
                           THEN t.payload
                           ELSE Found(KeyOf(t)).parts[i][f]
<1>1. Found(KeyOf(t)).parts \in Parts
  BY ThreadType, FoundType DEF Group
<1>2. QED
  BY <1>1, ThreadType DEF Stored, Parts

\* Storing a fragment completes its own shard or none.
LEMMA PresentGrows ==
  ASSUME TypeOK, NEW t \in threads
  PROVE  LET old == Present(Found(KeyOf(t)).parts)
             new == Present(Stored(t))
         IN  new = IF t.shard \in new THEN old \union {t.shard} ELSE old
<1> DEFINE old == Present(Found(KeyOf(t)).parts)
           new == Present(Stored(t))
<1>1. t.shard \in Shards /\ t.frag \in Frags /\ t.payload # Empty
  BY ThreadType, PayloadAssumption
<1>2. \A i \in Shards : i # t.shard => (i \in new <=> i \in old)
  BY StoredSlots DEF Present
<1>3. t.shard \in old => t.shard \in new
  BY <1>1, StoredSlots DEF Present
<1>4. old \subseteq Shards /\ new \subseteq Shards
  BY DEF Present
<1> HIDE DEF old, new
<1>5. new = IF t.shard \in new THEN old \union {t.shard} ELSE old
  BY <1>1, <1>2, <1>3, <1>4
<1>6. QED
  BY <1>5 DEF old, new

\* A fragment that sets off a reconstruction brings the K-th shard, and what
\* comes out is the thread's own payload.
LEMMA DeliversPayload ==
  ASSUME IInv, WellTimed, SafeLength,
         NEW t \in threads, ~Duplicate(t), Completes(t)
  PROVE  Decoded(Stored(t)) = t.payload
<1> DEFINE old == Present(Found(KeyOf(t)).parts)
           new == Present(Stored(t))
<1>1. IsFiniteSet(old) /\ Cardinality(old) \in Nat /\ Cardinality(new) \in Nat
  BY PresentFinite
<1>2. Cardinality(old) < K
  BY FoundGroup DEF Duplicate
<1>3. t.shard \in new /\ Reconstructs(Cardinality(new))
  BY DEF Completes
<1>4. new = old \union {t.shard}
  BY <1>3, PresentGrows DEF IInv
<1>5. Cardinality(new) <= Cardinality(old) + 1
  BY <1>1, <1>4, FS_AddElement, SMTT(20)
<1>6. ~(Cardinality(new) < K)
  BY <1>1, <1>3, NothingEarly
<1>7. Cardinality(new) = K
  BY <1>1, <1>2, <1>5, <1>6, ProfileAssumption
<1>8. Stored(t) \in Parts /\ t.payload \in Payloads
  BY StoredType, ThreadType DEF IInv
<1>9. \A i \in Shards, f \in Frags : Stored(t)[i][f] \in {t.payload, Empty}
  BY StoredSlots, FoundGroup DEF IInv
<1>10. QED
  BY <1>7, <1>8, <1>9, DecodesRight

-------------------------------------------------------------------------------
(* The invariant under the two actions that keep a fragment.               *)

LEMMA KeptGroup ==
  ASSUME TypeOK, NEW t \in threads, Keep(t)
  PROVE  /\ group'[KeyOf(t)].parts = Stored(t)
         /\ group'[KeyOf(t)].ts = Found(KeyOf(t)).ts
         /\ \A key \in Keys : key # KeyOf(t) => group'[key] = group[key]
<1>1. KeyOf(t) \in Keys
  BY ThreadType
<1>2. QED
  BY <1>1 DEF Keep, TypeOK

LEMMA KeptOwned ==
  ASSUME IInv, WellTimed, NEW t \in threads, ~Duplicate(t), Finish(t), Keep(t),
         delivered' \in {delivered, delivered \union {KeyOf(t)}},
         \A s \in Sessions, p \in Payloads : out[s][p] >= 1 => out'[s][p] >= 1,
         KeyOf(t) \in delivered' => out'[t.session][t.payload] >= 1
  PROVE  Owned'
<1> DEFINE key == KeyOf(t)
           q == t.payload
<1>1. /\ key \in Keys /\ q \in Payloads
      /\ key[1] = t.session /\ key[2] = seqOf[q] /\ t.session \in Sessions
  BY ThreadType DEF IInv
<1>2. UNCHANGED <<now, sent, seqOf, sentAt, sessions>>
  BY DEF Finish, clientVars, sessionVars
<1>3. groups' = groups \union {key} /\ groups \subseteq Keys
  BY DEF Keep, IInv, TypeOK
<1>4. q \in sent /\ t.session <= sessions
  BY DEF IInv, Timely, InFlight
<1>5. ASSUME NEW mine \in groups', mine = key
      PROVE  mine[1] <= sessions /\ \E p \in Payloads : Owns(p, mine)'
  <2>1. group'[key].parts = Stored(t) /\ group'[key].ts = Found(key).ts
    BY KeptGroup DEF IInv
  <2>2. \A i \in Shards, f \in Frags : group'[key].parts[i][f] \in {q, Empty}
    BY <2>1, StoredSlots, FoundGroup DEF IInv
  <2>3. /\ group'[key].ts \in sentAt[q] .. now
        /\ group'[key].ts <= sentAt[q] + Lifetime
    BY <2>1, FoundGroup
  <2>4. key \in delivered' => out'[key[1]][q] >= 1
    BY <1>1
  <2> HIDE DEF key
  <2>5. Owns(q, mine)'
    BY <1>1, <1>2, <1>4, <1>5, <2>2, <2>3, <2>4 DEF Owns
  <2>6. QED
    BY <1>1, <1>4, <1>5, <2>5
<1>6. ASSUME NEW other \in groups, other # key
      PROVE  other[1] <= sessions /\ \E p \in Payloads : Owns(p, other)'
  <2>1. other \in Keys /\ other[1] \in Sessions
    BY <1>3, <1>6 DEF Keys
  <2>2. PICK p \in Payloads : Owns(p, other)
    BY <1>6 DEF IInv, Owned
  <2>3. group'[other] = group[other]
    BY <1>6, <2>1, KeptGroup DEF IInv
  <2>4. other \in delivered' => other \in delivered
    BY <1>6
  <2>5. Owns(p, other)'
    BY <1>2, <2>1, <2>2, <2>3, <2>4 DEF Owns
  <2>6. QED
    BY <1>6, <2>5 DEF IInv, Owned
<1>7. sessions' = sessions /\ \A k \in groups' : k = key \/ k \in groups
  BY <1>2, <1>3
<1> HIDE DEF key
<1>8. QED
  BY <1>5, <1>6, <1>7 DEF Owned

LEMMA KeptYoung ==
  ASSUME IInv, WellTimed, NEW t \in threads, Finish(t), Keep(t)
  PROVE  Young'
<1> DEFINE key == KeyOf(t)
<1>1. key \in Keys /\ group'[key].ts = Found(key).ts
  BY ThreadType, KeptGroup DEF IInv
<1>2. /\ UNCHANGED <<now, sentAt, current>>
      /\ threads' \subseteq threads
      /\ groups' = groups \union {key}
  BY DEF Finish, Keep, clientVars, sessionVars
<1>3. \A other \in groups : other # key => group'[other] = group[other]
  BY KeptGroup DEF IInv, TypeOK
<1>4. CASE key \in groups
  <2>1. group'[key].ts = group[key].ts
    BY <1>1, <1>4 DEF Found
  <2>2. groups' = groups /\ \A other \in groups : group'[other].ts = group[other].ts
    BY <1>2, <1>3, <1>4, <2>1
  <2>3. QED
    BY <1>2, <2>2 DEF IInv, Young
<1>5. CASE key \notin groups
  <2>1. group'[key].ts = now
    BY <1>1, <1>5 DEF Found, NewGroup
  <2>2. now \in Nat /\ \A r \in threads : sentAt[r.payload] \in Nat
    BY ThreadType DEF IInv, TypeOK
  <2>3. \A r \in threads : sentAt[r.payload] <= now
    BY DEF IInv, Timely, InFlight
  <2>4. now <= group'[key].ts + GroupTTL + SweepPeriod
    BY <2>1, <2>2, TimeAssumption
  <2>5. \A r \in threads : sentAt[r.payload] <= group'[key].ts + GroupTTL + SweepPeriod
    BY <2>1, <2>2, <2>3, TimeAssumption
  <2>6. \A other \in groups : other # key
    BY <1>5
  <2> HIDE DEF key
  <2>7. QED
    BY <1>2, <1>3, <2>4, <2>5, <2>6 DEF IInv, Young
<1>6. QED
  BY <1>4, <1>5

LEMMA KeptTimely ==
  ASSUME IInv, NEW t \in threads, Finish(t) PROVE Timely' /\ Separated'
  BY DEF IInv, Timely, Separated, InFlight, Finish, clientVars, sessionVars

\* No payload that may still send stragglers has its delivered group reopened.
LEMMA KeptRemembered ==
  ASSUME IInv, NEW t \in threads, ~Duplicate(t), Finish(t), Keep(t),
         delivered \subseteq delivered',
         NEW s \in Sessions, NEW p \in Payloads, out[s][p] >= 1, InFlight(p)
  PROVE  /\ <<s, seqOf[p]>> \in delivered'
         /\ sentAt[p] <= group'[<<s, seqOf[p]>>].ts
<1>1. <<s, seqOf[p]>> \in delivered /\ sentAt[p] <= group[<<s, seqOf[p]>>].ts
  BY DEF IInv, Remembered
<1>2. <<s, seqOf[p]>> # KeyOf(t)
  BY <1>1 DEF Duplicate
<1>3. <<s, seqOf[p]>> \in Keys
  BY <1>1 DEF IInv, TypeOK
<1>4. QED
  BY <1>1, <1>2, <1>3, KeptGroup DEF IInv

LEMMA StoreStep ==
  ASSUME IInv, WellTimed, NEW t \in threads, Store(t), TypeOK'
  PROVE  IInv'
<1>1. /\ ~Duplicate(t) /\ ~Completes(t) /\ Finish(t) /\ Keep(t)
      /\ delivered' = delivered /\ out' = out
  BY DEF Store
<1>2. KeyOf(t) \notin delivered
  BY <1>1 DEF Duplicate
<1>3. Owned'
  BY <1>1, <1>2, KeptOwned
<1>4. Young' /\ Timely' /\ Separated'
  BY <1>1, KeptYoung, KeptTimely
<1>5. Remembered'
  <2>1. UNCHANGED <<now, sent, seqOf, sentAt>>
    BY <1>1 DEF Finish, clientVars
  <2>2. \A p : InFlight(p)' <=> InFlight(p)
    BY <2>1 DEF InFlight
  <2>3. QED
    BY <1>1, <2>1, <2>2, KeptRemembered DEF Remembered
<1>6. NoStuckGroup'
  <2>1. ASSUME NEW key \in groups', Cardinality(Present(group'[key].parts)) >= K,
               key # KeyOf(t)
        PROVE  key \in delivered
    <3>1. key \in groups /\ key \in Keys
      BY <1>1, <2>1 DEF Keep, IInv, TypeOK
    <3>2. group'[key] = group[key]
      BY <1>1, <2>1, <3>1, KeptGroup DEF IInv
    <3>3. QED
      BY <2>1, <3>1, <3>2 DEF IInv, NoStuckGroup
  <2>2. ASSUME Cardinality(Present(group'[KeyOf(t)].parts)) >= K
        PROVE  FALSE
    <3> DEFINE old == Present(Found(KeyOf(t)).parts)
               new == Present(Stored(t))
    <3>1. Cardinality(new) >= K /\ Cardinality(new) \in Nat /\ Cardinality(old) \in Nat
      BY <1>1, <2>2, KeptGroup, PresentFinite DEF IInv
    <3>2. Reconstructs(Cardinality(new))
      BY <3>1, KFits
    <3>3. new = old
      BY <1>1, <3>2, PresentGrows DEF Completes, IInv
    <3>4. Cardinality(old) < K
      BY <1>2, FoundGroup
    <3>5. QED
      BY <3>1, <3>3, <3>4, ProfileAssumption
  <2>3. KeyOf(t)' = KeyOf(t)
    BY <1>1 DEF Finish, clientVars, KeyOf
  <2>4. QED
    BY <1>1, <2>1, <2>2 DEF NoStuckGroup
<1>7. Sourced' /\ NoCorruptDelivery' /\ AtMostOncePerSession'
  BY <1>1 DEF Finish, clientVars, IInv, Sourced, NoCorruptDelivery, AtMostOncePerSession
<1>8. QED
  BY <1>3, <1>4, <1>5, <1>6, <1>7 DEF IInv

\* A delivery passes on the thread's own payload, for the first time.
LEMMA DeliverOut ==
  ASSUME IInv, WellTimed, SafeLength, NEW t \in threads, Deliver(t)
  PROVE  /\ t.payload \in sent
         /\ out[t.session][t.payload] = 0
         /\ out' = [out EXCEPT ![t.session][t.payload] = 1]
<1> DEFINE q == t.payload
           s == t.session
<1>1. q \in Payloads /\ s \in Sessions /\ KeyOf(t) = <<s, seqOf[q]>>
  BY ThreadType DEF IInv, KeyOf
<1>2. InFlight(q) /\ q \in sent
  BY DEF IInv, Timely, InFlight
<1>3. KeyOf(t) \notin delivered
  BY DEF Deliver, Duplicate
<1>4. ~(out[s][q] >= 1)
  BY <1>1, <1>2, <1>3 DEF IInv, Remembered
<1>5. out[s][q] \in Nat
  BY <1>1 DEF IInv, TypeOK
<1>6. out[s][q] = 0
  BY <1>4, <1>5
<1>7. Decoded(Stored(t)) = q
  BY DeliversPayload DEF Deliver
<1>8. out' = [out EXCEPT ![s][q] = out[s][q] + 1]
  BY <1>7 DEF Deliver
<1> HIDE DEF q, s
<1>9. out' = [out EXCEPT ![s][q] = 1]
  BY <1>6, <1>8
<1>10. QED
  BY <1>2, <1>6, <1>9 DEF q, s

LEMMA DeliverStep ==
  ASSUME IInv, WellTimed, SafeLength, NEW t \in threads, Deliver(t), TypeOK'
  PROVE  IInv'
<1> DEFINE q == t.payload
<1>1. /\ ~Duplicate(t) /\ Finish(t) /\ Keep(t)
      /\ delivered' = delivered \union {KeyOf(t)}
  BY DEF Deliver
<1>2. /\ q \in Payloads /\ t.session \in Sessions
      /\ KeyOf(t) \in Keys /\ KeyOf(t) = <<t.session, seqOf[q]>>
  BY ThreadType DEF IInv, KeyOf
<1>3. /\ q \in sent
      /\ out[t.session][q] = 0
      /\ out' = [out EXCEPT ![t.session][q] = 1]
  BY DeliverOut
<1>4. /\ out'[t.session][q] = 1
      /\ \A s \in Sessions, v \in Payloads \union {Corrupt} :
             s # t.session \/ v # q => out'[s][v] = out[s][v]
  BY <1>2, <1>3 DEF IInv, TypeOK
<1>5. UNCHANGED <<now, sent, seqOf, sentAt, sessions>>
  BY <1>1 DEF Finish, clientVars, sessionVars
<1>6. Owned'
  <2>1. \A s \in Sessions, p \in Payloads : out[s][p] >= 1 => out'[s][p] >= 1
    BY <1>4
  <2>2. QED
    BY <1>1, <1>4, <2>1, KeptOwned
<1>7. Young' /\ Timely' /\ Separated'
  BY <1>1, KeptYoung, KeptTimely
<1>8. Remembered'
  <2>1. \A p : InFlight(p)' <=> InFlight(p)
    BY <1>5 DEF InFlight
  <2>2. ASSUME NEW s \in Sessions, NEW p \in Payloads, out'[s][p] >= 1, InFlight(p)
        PROVE  /\ <<s, seqOf[p]>> \in delivered'
               /\ sentAt[p] <= group'[<<s, seqOf[p]>>].ts
    <3>1. CASE s = t.session /\ p = q
      <4>1. group'[KeyOf(t)].ts = Found(KeyOf(t)).ts
        BY <1>1, KeptGroup DEF IInv
      <4>2. Found(KeyOf(t)).ts \in sentAt[q] .. now
        BY FoundGroup
      <4>3. now \in Nat /\ sentAt[q] \in Nat
        BY <1>2 DEF IInv, TypeOK
      <4>4. sentAt[q] <= group'[KeyOf(t)].ts
        BY <4>1, <4>2, <4>3
      <4>5. QED
        BY <1>1, <1>2, <3>1, <4>4
    <3>2. CASE ~(s = t.session /\ p = q)
      <4>1. out[s][p] >= 1
        BY <1>4, <2>2, <3>2
      <4>2. QED
        BY <1>1, <2>2, <4>1, KeptRemembered
    <3>3. QED
      BY <3>1, <3>2
  <2>3. QED
    BY <1>5, <2>1, <2>2 DEF Remembered
<1>9. NoStuckGroup'
  <2>1. ASSUME NEW key \in groups', Cardinality(Present(group'[key].parts)) >= K,
               key # KeyOf(t)
        PROVE  key \in delivered
    <3>1. key \in groups /\ key \in Keys
      BY <1>1, <2>1 DEF Keep, IInv, TypeOK
    <3>2. group'[key] = group[key]
      BY <1>1, <2>1, <3>1, KeptGroup DEF IInv
    <3>3. QED
      BY <2>1, <3>1, <3>2 DEF IInv, NoStuckGroup
  <2>2. QED
    BY <1>1, <2>1 DEF NoStuckGroup
<1>10. Sourced'
  BY <1>3, <1>4, <1>5 DEF IInv, Sourced
<1>11. NoCorruptDelivery'
  <2>1. q # Corrupt
    BY <1>2, PayloadAssumption
  <2>2. QED
    BY <1>4, <2>1 DEF IInv, NoCorruptDelivery
<1>12. AtMostOncePerSession'
  BY <1>4 DEF IInv, AtMostOncePerSession
<1>13. QED
  BY <1>6, <1>7, <1>8, <1>9, <1>10, <1>11, <1>12 DEF IInv

-------------------------------------------------------------------------------
(* The invariant under the other actions.                                  *)

LEMMA ClientSendStep ==
  ASSUME IInv, WellTimed, NEW p \in Payloads, ClientSend(p), TypeOK'
  PROVE  IInv'
<1> DEFINE n == NextSeq(seq)
<1>1. /\ p \notin sent /\ sent' = sent \union {p} /\ Rested(n)
      /\ seqOf'[p] = n /\ sentAt'[p] = now
      /\ \A q \in Payloads : q # p => seqOf'[q] = seqOf[q] /\ sentAt'[q] = sentAt[q]
  BY DEF ClientSend, WellTimed, IInv, TypeOK
<1>2. UNCHANGED <<now, sessions, current, threads, groups, group, delivered, out>>
  BY DEF ClientSend, sessionVars, groupVars
<1>3. sent \subseteq Payloads /\ now \in Nat
  BY DEF IInv, TypeOK
<1>4. \A q \in Payloads : q # p => (InFlight(q)' <=> InFlight(q))
  BY <1>1, <1>2 DEF InFlight
<1>5. \A t \in threads : t.payload \in sent /\ t.payload # p
  BY <1>1 DEF IInv, Timely, InFlight
<1>6. Timely'
  <2>1. \A q \in sent' : sentAt'[q] <= now
    BY <1>1, <1>3 DEF IInv, Timely
  <2>2. \A t \in threads : InFlight(t.payload)' /\ t.session <= sessions
    BY <1>3, <1>4, <1>5 DEF IInv, Timely
  <2>3. QED
    BY <1>2, <2>1, <2>2 DEF Timely
<1>7. Separated'
  <2>1. \A q \in sent : seqOf[q] = n => now > sentAt[q] + QuietTime
    BY <1>1 DEF Rested
  <2>2. ASSUME NEW q \in sent, NEW r \in sent, q # r, seqOf'[q] = seqOf'[r]
        PROVE  \/ sentAt'[q] > sentAt'[r] + QuietTime
               \/ sentAt'[r] > sentAt'[q] + QuietTime
    BY <1>1, <1>3, <2>2 DEF IInv, Separated
  <2>3. ASSUME NEW q \in sent, seqOf'[q] = seqOf'[p]
        PROVE  sentAt'[p] > sentAt'[q] + QuietTime
    BY <1>1, <1>3, <2>1, <2>3
  <2> HIDE DEF n
  <2>4. QED
    BY <1>1, <2>2, <2>3 DEF Separated
<1>8. Owned'
  <2>1. ASSUME NEW key \in groups, NEW q \in Payloads, Owns(q, key)
        PROVE  Owns(q, key)'
    <3>1. q # p
      BY <1>1, <2>1 DEF Owns
    <3>2. QED
      BY <1>1, <1>2, <2>1, <3>1 DEF Owns
  <2>2. QED
    BY <1>2, <2>1 DEF IInv, Owned
<1>9. Young'
  <2>1. \A t \in threads : sentAt'[t.payload] = sentAt[t.payload]
    BY <1>1, <1>3, <1>5
  <2>2. QED
    BY <1>2, <2>1 DEF IInv, Young
<1>10. Remembered'
  <2>1. \A s \in Sessions : ~(out[s][p] >= 1)
    BY <1>1 DEF IInv, Sourced
  <2>2. QED
    BY <1>1, <1>2, <1>4, <2>1 DEF IInv, Remembered
<1>11. Sourced'
  BY <1>1, <1>2 DEF IInv, Sourced
<1>12. NoStuckGroup' /\ NoCorruptDelivery' /\ AtMostOncePerSession'
  BY <1>2 DEF IInv, NoStuckGroup, NoCorruptDelivery, AtMostOncePerSession
<1>13. QED
  BY <1>6, <1>7, <1>8, <1>9, <1>10, <1>11, <1>12 DEF IInv

LEMMA ReceiveStep ==
  ASSUME IInv, NEW p \in Payloads, NEW i \in Shards, NEW f \in Frags,
         Receive(p, i, f), TypeOK'
  PROVE  IInv'
<1> DEFINE new == [session |-> current', payload |-> p, shard |-> i, frag |-> f]
<1>1. /\ InFlight(p) /\ threads' = threads \union {new}
      /\ UNCHANGED <<now, sent, seqOf, sentAt, groups, group, delivered, out>>
  BY DEF Receive, clientVars, groupVars
<1>2. new.payload = p /\ new.session = current'
  OBVIOUS
<1>3. /\ sessions \in Nat /\ now \in Nat /\ sentAt[p] \in Nat
      /\ \A key \in groups : key \in Keys /\ group[key].ts \in Nat
  BY DEF IInv, TypeOK, Group
<1>4. /\ sessions <= sessions'
      /\ current' <= sessions'
      /\ \A key \in groups : key[1] = current' => key[1] = current
  <2>1. CASE current # 0 /\ UNCHANGED <<sessionVars, lastSeen>>
    BY <2>1 DEF sessionVars, IInv, TypeOK
  <2>2. CASE current = 0 /\ sessions' = sessions + 1 /\ current' = sessions + 1
    <3>1. \A key \in groups : key[1] <= sessions
      BY DEF IInv, Owned
    <3>2. \A key \in groups : key[1] \in Nat
      BY <1>3 DEF Keys, Sessions
    <3>3. QED
      BY <1>3, <2>2, <3>1, <3>2
  <2>3. QED
    BY <2>1, <2>2 DEF Receive
<1> HIDE DEF new
<1>5. \A q : InFlight(q)' <=> InFlight(q)
  BY <1>1 DEF InFlight
<1>6. Timely'
  <2>1. \A t \in threads : t.session \in Nat
    BY ThreadType DEF IInv, Sessions
  <2>2. sessions' \in Nat
    BY DEF TypeOK
  <2>3. \A t \in threads : InFlight(t.payload) /\ t.session <= sessions'
    BY <1>3, <1>4, <2>1, <2>2 DEF IInv, Timely
  <2>4. QED
    BY <1>1, <1>2, <1>4, <1>5, <2>3 DEF IInv, Timely
<1>7. Separated' /\ Sourced'
  BY <1>1 DEF IInv, Separated, Sourced
<1>8. Owned'
  <2>1. ASSUME NEW key \in groups, NEW q \in Payloads, Owns(q, key)
        PROVE  Owns(q, key)'
    BY <1>1, <2>1 DEF Owns
  <2>2. \A key \in groups : key[1] <= sessions'
    <3>1. sessions' \in Nat
      BY DEF TypeOK
    <3>2. \A key \in groups : key[1] \in Nat
      BY <1>3 DEF Keys, Sessions
    <3>3. QED
      BY <1>3, <1>4, <3>1, <3>2 DEF IInv, Owned
  <2>3. QED
    BY <1>1, <2>1, <2>2 DEF IInv, Owned
<1>9. Young'
  <2>1. \A key \in groups :
            key[1] = current' => now <= group[key].ts + GroupTTL + SweepPeriod
    BY <1>4 DEF IInv, Young
  <2>2. sentAt[p] <= now
    BY <1>1 DEF IInv, Timely, InFlight
  <2>3. \A key \in groups :
            key[1] = current' => sentAt[p] <= group[key].ts + GroupTTL + SweepPeriod
    BY <1>3, <2>1, <2>2, TimeAssumption
  <2>4. QED
    BY <1>1, <1>2, <2>1, <2>3 DEF IInv, Young
<1>10. Remembered'
  BY <1>1, <1>5 DEF IInv, Remembered
<1>11. NoStuckGroup' /\ NoCorruptDelivery' /\ AtMostOncePerSession'
  BY <1>1 DEF IInv, NoStuckGroup, NoCorruptDelivery, AtMostOncePerSession
<1>12. QED
  BY <1>6, <1>7, <1>8, <1>9, <1>10, <1>11 DEF IInv

\* A sweep takes no group whose payload can still send a datagram.
LEMMA SweepStep ==
  ASSUME IInv, WellTimed, SweepGroups, TypeOK' PROVE IInv'
<1> DEFINE old == {key \in groups : Stale(key)}
<1>1. /\ groups' = groups \ old /\ delivered' = delivered \ old
      /\ UNCHANGED <<now, sent, seqOf, sentAt, sessions, current, threads, out>>
  BY DEF SweepGroups, clientVars, sessionVars
<1>2. \A key \in groups' : key \in groups /\ group'[key] = group[key]
  BY <1>1 DEF SweepGroups, IInv, TypeOK
<1>3. \A q : InFlight(q)' <=> InFlight(q)
  BY <1>1 DEF InFlight
<1>4. Timely' /\ Separated' /\ Sourced'
  BY <1>1, <1>3 DEF IInv, Timely, Separated, Sourced
<1>5. Owned'
  <2>1. ASSUME NEW key \in groups', NEW q \in Payloads, Owns(q, key)
        PROVE  Owns(q, key)'
    BY <1>1, <1>2, <2>1 DEF Owns
  <2>2. QED
    BY <1>1, <1>2, <2>1 DEF IInv, Owned
<1>6. Young'
  BY <1>1, <1>2 DEF IInv, Young
<1>7. Remembered'
  <2>1. ASSUME NEW s \in Sessions, NEW p \in Payloads, out[s][p] >= 1, InFlight(p)
        PROVE  /\ <<s, seqOf[p]>> \in delivered'
               /\ sentAt[p] <= group'[<<s, seqOf[p]>>].ts
    <3> DEFINE key == <<s, seqOf[p]>>
               ts == group[key].ts
    <3>1. key \in delivered /\ sentAt[p] <= ts
      BY <2>1 DEF IInv, Remembered
    <3>2. key \in groups /\ now \in Nat /\ sentAt[p] \in Nat /\ ts \in Nat
      BY <3>1 DEF IInv, TypeOK, Group
    <3>3. now <= sentAt[p] + Lifetime /\ Lifetime <= GroupTTL
      BY <2>1 DEF InFlight, WellTimed
    <3> HIDE DEF ts
    <3>4. ~(now - ts > GroupTTL)
      BY <3>1, <3>2, <3>3, TimeAssumption
    <3>5. key \notin old
      BY <3>4 DEF Stale, ts
    <3> HIDE DEF key, old
    <3>6. key \in groups' /\ key \in delivered'
      BY <1>1, <3>1, <3>2, <3>5
    <3>7. QED
      BY <1>2, <3>1, <3>6 DEF key, ts
  <2>2. QED
    BY <1>1, <1>3, <2>1 DEF Remembered
<1>8. NoStuckGroup'
  <2> HIDE DEF old
  <2>1. QED
    BY <1>1, <1>2 DEF IInv, NoStuckGroup
<1>9. NoCorruptDelivery' /\ AtMostOncePerSession'
  BY <1>1 DEF IInv, NoCorruptDelivery, AtMostOncePerSession
<1>10. QED
  BY <1>4, <1>5, <1>6, <1>7, <1>8, <1>9 DEF IInv

\* The clock does not outrun a handler or a sweep.
LEMMA TickStep ==
  ASSUME IInv, Tick, TypeOK' PROVE IInv'
<1>1. /\ now' = now + 1 /\ now \in Nat
      /\ UNCHANGED <<sent, seqOf, sentAt, sessions, current, threads,
                     groups, group, delivered, out>>
  BY DEF Tick, clientVars, sessionVars, groupVars, IInv, TypeOK
<1>2. /\ sent \subseteq Payloads
      /\ \A p \in Payloads : sentAt[p] \in Nat
      /\ \A key \in groups : key \in Keys /\ group[key].ts \in Nat
  BY DEF IInv, TypeOK, Group
<1>3. \A p \in Payloads : InFlight(p)' => InFlight(p)
  BY <1>1, <1>2, TimeAssumption DEF InFlight
<1>4. Timely'
  <2>1. \A p \in sent : sentAt[p] <= now + 1
    BY <1>1, <1>2 DEF IInv, Timely
  <2>2. \A t \in threads : t.payload \in sent /\ t.session <= sessions
    BY DEF IInv, Timely, InFlight
  <2>3. \A t \in threads : now + 1 <= sentAt[t.payload] + Lifetime
    BY <1>1, <1>2, <2>2, TimeAssumption DEF Tick
  <2>4. QED
    BY <1>1, <2>1, <2>2, <2>3 DEF Timely, InFlight
<1>5. Separated' /\ Sourced'
  BY <1>1 DEF IInv, Separated, Sourced
<1>6. Owned'
  <2>1. ASSUME NEW key \in groups, NEW q \in Payloads, Owns(q, key)
        PROVE  Owns(q, key)'
    <3>1. group[key].ts \in sentAt[q] .. now'
      BY <1>1, <1>2, <2>1 DEF Owns
    <3>2. QED
      BY <1>1, <2>1, <3>1 DEF Owns
  <2>2. QED
    BY <1>1, <2>1 DEF IInv, Owned
<1>7. Young'
  <2>1. \A key \in groups :
            key[1] = current => now + 1 <= group[key].ts + GroupTTL + SweepPeriod
    BY <1>1, <1>2, TimeAssumption DEF Tick
  <2>2. QED
    BY <1>1, <2>1 DEF IInv, Young
<1>8. Remembered'
  BY <1>1, <1>3 DEF IInv, Remembered
<1>9. NoStuckGroup' /\ NoCorruptDelivery' /\ AtMostOncePerSession'
  BY <1>1 DEF IInv, NoStuckGroup, NoCorruptDelivery, AtMostOncePerSession
<1>10. QED
  BY <1>4, <1>5, <1>6, <1>7, <1>8, <1>9 DEF IInv

\* Steps that change nothing the invariant speaks of, but the table's entry.
LEMMA IdleStep ==
  ASSUME IInv, TypeOK', current' \in {0, current}, threads' \subseteq threads,
         UNCHANGED <<now, sent, seqOf, sentAt, sessions, groups, group,
                     delivered, out>>
  PROVE  IInv'
<1>1. \A q : InFlight(q)' <=> InFlight(q)
  BY DEF InFlight
<1>2. Timely' /\ Separated' /\ Sourced' /\ Remembered'
  BY <1>1 DEF IInv, Timely, Separated, Sourced, Remembered
<1>3. Owned'
  <2>1. ASSUME NEW key \in groups, NEW q \in Payloads, Owns(q, key)
        PROVE  Owns(q, key)'
    BY <2>1 DEF Owns
  <2>2. QED
    BY <2>1 DEF IInv, Owned
<1>4. Young'
  <2>1. \A key \in groups : key[1] = current' => key[1] = current
    BY DEF IInv, TypeOK, Keys, Sessions
  <2>2. QED
    BY <2>1 DEF IInv, Young
<1>5. NoStuckGroup' /\ NoCorruptDelivery' /\ AtMostOncePerSession'
  BY DEF IInv, NoStuckGroup, NoCorruptDelivery, AtMostOncePerSession
<1>6. QED
  BY <1>2, <1>3, <1>4, <1>5 DEF IInv

-------------------------------------------------------------------------------
(* The theorems.                                                           *)

LEMMA InitIInv == Init => IInv
<1> SUFFICES ASSUME Init PROVE IInv
  OBVIOUS
<1>1. TypeOK
  BY InitType
<1>2. /\ sent = {} /\ threads = {} /\ groups = {}
      /\ \A s \in Sessions, v \in Payloads \union {Corrupt} : out[s][v] = 0
  BY DEF Init
<1>3. QED
  BY <1>1, <1>2 DEF IInv, Timely, Separated, Owned, Young, Remembered, Sourced,
                    NoStuckGroup, NoCorruptDelivery, AtMostOncePerSession

LEMMA IInvStep ==
  ASSUME WellTimed, SafeLength PROVE IInv /\ [Next]_vars => IInv'
<1> SUFFICES ASSUME IInv, [Next]_vars PROVE IInv'
  OBVIOUS
<1>1. TypeOK'
  BY TypeStep DEF IInv
<1>2. ASSUME NEW p \in Payloads, ClientSend(p) PROVE IInv'
  BY <1>1, <1>2, ClientSendStep
<1>3. CASE ClientResume
  BY <1>1, <1>3, IdleStep DEF ClientResume, sessionVars, groupVars
<1>4. ASSUME NEW p \in Payloads, NEW i \in Shards, NEW f \in Frags, Receive(p, i, f)
      PROVE  IInv'
  BY <1>1, <1>4, ReceiveStep
<1>5. ASSUME NEW t \in threads, Discard(t) PROVE IInv'
  BY <1>1, <1>5, IdleStep DEF Discard, Finish, clientVars, sessionVars, groupVars
<1>6. ASSUME NEW t \in threads, Store(t) PROVE IInv'
  BY <1>1, <1>6, StoreStep
<1>7. ASSUME NEW t \in threads, Deliver(t) PROVE IInv'
  BY <1>1, <1>7, DeliverStep
<1>8. CASE ExpireSession
  BY <1>1, <1>8, IdleStep DEF ExpireSession, clientVars, groupVars
<1>9. CASE SweepGroups
  BY <1>1, <1>9, SweepStep
<1>10. CASE Tick
  BY <1>1, <1>10, TickStep
<1>11. CASE UNCHANGED vars
  BY <1>1, <1>11, IdleStep DEF vars, clientVars, sessionVars, groupVars
<1>12. QED
  BY <1>2, <1>3, <1>4, <1>5, <1>6, <1>7, <1>8, <1>9, <1>10, <1>11 DEF Next

\* The whole inductive invariant, for every well-timed server and every payload
\* that does not fit into K - 1 shards.
THEOREM Inductive == ASSUME WellTimed, SafeLength PROVE Spec => []IInv
<1>1. IInv /\ [Next]_vars => IInv'
  BY IInvStep
<1>2. QED
  BY <1>1, InitIInv, PTL DEF Spec

\* Every byte string _handle_data hands to _on_payload is one a client sent.
THEOREM NothingCorrupt ==
  ASSUME WellTimed, SafeLength PROVE Spec => []NoCorruptDelivery
<1>1. IInv => NoCorruptDelivery
  BY DEF IInv
<1>2. QED
  BY <1>1, Inductive, PTL

\* No Session delivers a payload twice, whatever copies of its datagrams the
\* network makes and whenever the cleanup loop runs.
THEOREM AtMostOnce ==
  ASSUME WellTimed, SafeLength PROVE Spec => []AtMostOncePerSession
<1>1. IInv => AtMostOncePerSession
  BY DEF IInv
<1>2. QED
  BY <1>1, Inductive, PTL

\* Enough shards mean a delivery: no group waits for a shard it does not need.
THEOREM NothingStuck ==
  ASSUME WellTimed, SafeLength PROVE Spec => []NoStuckGroup
<1>1. IInv => NoStuckGroup
  BY DEF IInv
<1>2. QED
  BY <1>1, Inductive, PTL

\* "Duplicate after delivery" is only ever said of a payload that has been
\* delivered.
THEOREM DuplicatesAreTrue ==
  ASSUME WellTimed, SafeLength PROVE Spec => []NoFalseDuplicate
<1>1. IInv => NoFalseDuplicate
  <2>1. ASSUME IInv, NEW t \in threads, KeyOf(t) \in delivered
        PROVE  out[t.session][t.payload] >= 1
    <3>1. KeyOf(t) \in groups /\ KeyOf(t)[1] = t.session
      BY <2>1, ThreadType DEF IInv, TypeOK
    <3>2. Owns(t.payload, KeyOf(t))
      BY <2>1, <3>1, OwnGroup
    <3>3. QED
      BY <2>1, <3>1, <3>2 DEF Owns
  <2>2. QED
    BY <2>1 DEF NoFalseDuplicate
<1>2. QED
  BY <1>1, Inductive, PTL

-------------------------------------------------------------------------------
(* The refinement.                                                         *)

LEMMA InitRefines == Init => Service!Init
  BY DEF Init, Service!Init

LEMMA StepRefines ==
  ASSUME WellTimed, SafeLength
  PROVE  IInv /\ [Next]_vars => [Service!Next]_Service!vars
<1> SUFFICES ASSUME IInv, [Next]_vars PROVE [Service!Next]_Service!vars
  OBVIOUS
<1>1. ASSUME NEW p \in Payloads, ClientSend(p) PROVE Service!Next
  BY <1>1 DEF ClientSend, Service!Next, Service!Send
<1>2. ASSUME NEW t \in threads, Deliver(t) PROVE Service!Next
  <2>1. t.session \in Sessions /\ t.payload \in Payloads
    BY ThreadType DEF IInv
  <2>2. sent' = sent
    BY <1>2 DEF Deliver, Finish, clientVars
  <2>3. Service!Deliver(t.session, t.payload)
    BY <1>2, <2>2, DeliverOut DEF Service!Deliver
  <2>4. QED
    BY <2>1, <2>3 DEF Service!Next
<1>3. ASSUME NEW t \in threads, Discard(t) \/ Store(t) PROVE UNCHANGED <<sent, out>>
  BY <1>3 DEF Discard, Store, Finish, clientVars
<1>4. ASSUME NEW p \in Payloads, NEW i \in Shards, NEW f \in Frags, Receive(p, i, f)
      PROVE  UNCHANGED <<sent, out>>
  BY <1>4 DEF Receive, clientVars
<1>5. CASE ClientResume \/ ExpireSession \/ SweepGroups \/ Tick \/ UNCHANGED vars
  <2>1. UNCHANGED <<sent, out>>
    BY <1>5 DEF ClientResume, ExpireSession, SweepGroups, Tick, vars, clientVars
  <2>2. QED
    BY <2>1 DEF Service!vars
<1>6. QED
  BY <1>1, <1>2, <1>3, <1>4, <1>5 DEF Next, Service!vars

\* The server's receive path implements Delivery: each Session object is a
\* channel that hands on a sent payload, unaltered and at most once.
THEOREM ServerImplements ==
  ASSUME WellTimed, SafeLength PROVE Spec => Implements
<1>1. IInv /\ [Next]_vars => [Service!Next]_Service!vars
  BY StepRefines
<1>2. QED
  BY <1>1, InitRefines, Inductive, PTL DEF Spec, Implements, Service!Spec
================================================================================
