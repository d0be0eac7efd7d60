-------------------------- MODULE TunnelReturn_proofs --------------------------
(***************************************************************************)
(* Proofs about TunnelReturn: a client's device is given each packet once, *)
(* but for the Window after a restart of the server, and after it a group  *)
(* holds one packet again.                                                 *)
(*                                                                         *)
(* The argument is about time. A packet of before the last restart (Past)  *)
(* has been under way at least since then; a group it can still be in was  *)
(* opened at most Flight after it. When the Window is over neither is of   *)
(* use any more, and within one run of the server no number is used twice. *)
(***************************************************************************)
EXTENDS TunnelReturn, FiniteSetTheorems, WellFoundedInduction, TLAPS

-------------------------------------------------------------------------------
(* The inductive invariant *)

SentInOrder ==
    \A p \in Packets :
        IF packet[p].sent
        THEN packet[p].seq > 0 /\ \A q \in Packets : q < p => packet[q].sent
        ELSE tunSeq < p

\* A packet whose number is, in the server's present run, another packet's or
\* nobody's yet was sent before the last restart.
Past(p) ==
    \/ packet[p].seq > tunSeq
    \/ \E q \in Packets : q > p /\ packet[q].sent /\ packet[q].seq = packet[p].seq

PastIsOld ==
    \A p \in Packets : packet[p].sent /\ Past(p) =>
        packet[p].age > Flight \/ packet[p].age >= since

\* What a group needs to be to hold a packet of before the restart.
Mixable(g) == g.age > TTL \/ g.age + Flight >= since

Senders(k) == {p \in Packets : packet[p].sent /\ KeyOf(p) = k}

HasSender(k, g) == Senders(k) # {} /\ Contents(g) \subseteq Senders(k) \cup {Corrupt}

MixesOnlyPast(k, g) ==
    /\ \A x \in Contents(g) : x = Corrupt \/ Past(x) => Mixable(g)
    /\ k[1] > tunSeq => Mixable(g)

\* A group is opened after its packet is sent, or was there before it.
NotOlder(k, g) ==
    \A p \in Senders(k) :
        Past(p) \/ packet[p].age > Flight \/ g.age <= packet[p].age \/ Mixable(g)

DecodedOrMixed(g) == Cardinality(Present(g.shards)) >= K => g.result # None \/ Mixable(g)

GroupTrue(k, g) ==
    HasSender(k, g) /\ MixesOnlyPast(k, g) /\ NotOlder(k, g) /\ DecodedOrMixed(g)

GroupsTrue == \A k \in DOMAIN groups : GroupTrue(k, groups[k])

\* The group that a packet was handed out of is remembered for as long as a copy
\* of the packet can arrive.
Remembered(p, gs) ==
    \/ Past(p)
    \/ packet[p].age > Flight
    \/ /\ KeyOf(p) \in DOMAIN gs
       /\ gs[KeyOf(p)].result = p
       /\ gs[KeyOf(p)].age <= packet[p].age

HandedOnce ==
    /\ out[Corrupt] = 0
    /\ \A p \in Packets : out[p] # 0 =>
          packet[p].sent /\ out[p] = 1 /\ Remembered(p, groups)

IInv == TypeOK /\ SentInOrder /\ PastIsOld /\ GroupsTrue /\ HandedOnce

-------------------------------------------------------------------------------
(* The constants, and what is in a group *)

LEMMA PacketNumbers ==
    /\ Cardinality(Packets) \in Nat
    /\ \A p \in Packets : p \in Nat /\ p > 0 /\ p <= Cardinality(Packets)
    /\ \A n \in Nat : n > 0 /\ n <= Cardinality(Packets) => n \in Packets
    /\ Corrupt \notin Packets /\ None \notin Packets /\ None # Corrupt
<1>1. Cardinality(Packets) \in Nat
  BY NumberAssumption, FS_CardinalityType
<1>2. Packets = 1 .. Cardinality(Packets)
  BY NumberAssumption
<1>3. /\ \A p \in 1 .. Cardinality(Packets) : p \in Nat /\ p > 0 /\ p <= Cardinality(Packets)
      /\ \A n \in Nat : n > 0 /\ n <= Cardinality(Packets) => n \in 1 .. Cardinality(Packets)
  BY <1>1
<1>4. Corrupt \notin Packets /\ None \notin Packets /\ None # Corrupt
  BY ValueAssumption
<1>. QED
  BY <1>1, <1>2, <1>3, <1>4, Zenon

LEMMA ContentsMembers ==
    ASSUME NEW g, NEW x
    PROVE  x \in Contents(g) <=>
              /\ x # None
              /\ \/ x = g.length \/ x = g.result
                 \/ \E i \in Shards : x = g.shards[i]
                 \/ \E i \in Shards : \E f \in Frags : x = g.parts[i].from[f]
  BY DEF Contents

LEMMA NoPartsTyped ==
    /\ NoParts \in Parts /\ NoParts.count = 0
    /\ \A f \in Frags : NoParts.from[f] = None
  BY ProfileAssumption DEF NoParts, Parts

LEMMA NewGroupTyped ==
    /\ NewGroup \in Group /\ NewGroup.age = 0 /\ NewGroup.result = None
    /\ Present(NewGroup.shards) = {}
    /\ \A x : x \notin Contents(NewGroup)
<1>1. /\ NewGroup.age = 0 /\ NewGroup.result = None /\ NewGroup.length = None
      /\ NewGroup.shards = [i \in Shards |-> None] /\ NewGroup.parts = [i \in Shards |-> NoParts]
  BY DEF NewGroup
<1>2. NewGroup \in Group
  <2>1. /\ [i \in Shards |-> None] \in [Shards -> Sources \cup {None}]
        /\ [i \in Shards |-> NoParts] \in [Shards -> Parts]
        /\ 0 \in 0 .. TTL + 1
    BY NoPartsTyped, ClockAssumption
  <2>. QED
    BY <2>1 DEF NewGroup, Group
<1>3. Present(NewGroup.shards) = {}
  BY <1>1 DEF Present
<1>4. \A x : x \notin Contents(NewGroup)
  BY <1>1, NoPartsTyped, ContentsMembers
<1>. QED
  BY <1>1, <1>2, <1>3, <1>4

LEMMA LeastExists ==
    ASSUME NEW S \in SUBSET Nat, S # {}
    PROVE  \E m \in S : \A n \in S : m <= n
<1>. DEFINE Below == OpToRel(<, Nat)
<1>1. \A m, n \in Nat : n < m => <<n, m>> \in Below
  BY DEF OpToRel
<1>2. IsWellFoundedOn(Below, Nat)
  BY NatLessThanWellFounded, Zenon
<1>. HIDE DEF Below
<1>3. PICK m \in S : \A n \in S : ~ (<<n, m>> \in Below)
  BY <1>2, WFMin
<1>4. \A n \in S : ~ (n < m)
  BY <1>1, <1>3
<1>. QED
  BY <1>4

\* Some of the whole shards are decoded, and no others.
LEMMA RowsThere ==
    ASSUME NEW shards, Enough(shards)
    PROVE  /\ Rows(Present(shards)) \subseteq Present(shards)
           /\ Rows(Present(shards)) # {}
<1>. DEFINE present == Present(shards)
<1>1. present \subseteq Nat /\ K \in Nat /\ K > 0
  BY ProfileAssumption DEF Present, Shards
<1>2. Cardinality({}) = 0
  BY FS_EmptySet
<1>3. present # {}
  BY <1>1, <1>2 DEF Enough
<1>4. PICK m \in present : \A n \in present : m <= n
  BY <1>1, <1>3, LeastExists
<1>. HIDE DEF present
<1>5. {j \in present : j < m} = {}
  <2>1. \A j \in present : ~ (j < m)
    BY <1>1, <1>4
  <2>. QED
    BY <2>1, Zenon
<1>6. m \in {i \in present : Cardinality({j \in present : j < i}) < K}
  BY <1>1, <1>2, <1>5
<1>7. Rows(present) \subseteq present
  BY DEF Rows
<1>8. Rows(present) # {}
  <2>1. CASE 0 .. K - 1 \subseteq present
    BY <1>1, <2>1 DEF Rows
  <2>2. CASE ~(0 .. K - 1 \subseteq present)
    BY <1>6, <2>2 DEF Rows
  <2>. QED
    BY <2>1, <2>2
<1>. QED
  BY <1>7, <1>8 DEF present

LEMMA InitInv == Init => IInv
<1>. SUFFICES ASSUME Init PROVE IInv
  OBVIOUS
<1>1. packet \in [Packets -> Packet] /\ \A p \in Packets : ~packet[p].sent
  <2>. DEFINE Unsent == {[sent |-> FALSE, seq |-> 0, stream |-> s, frags |-> f,
                          age |-> 0] : s \in Streams, f \in Frags}
  <2>1. packet \in [Packets -> Unsent]
    BY DEF Init
  <2>2. \A x \in Unsent : x \in Packet /\ ~x.sent
    <3>1. 0 \in 0 .. Cardinality(Packets) /\ 0 \in 0 .. Flight + 1
      BY PacketNumbers, ClockAssumption
    <3>2. ASSUME NEW s \in Streams, NEW f \in Frags
          PROVE  [sent |-> FALSE, seq |-> 0, stream |-> s, frags |-> f, age |-> 0] \in Packet
      BY <3>1 DEF Packet
    <3>3. ASSUME NEW x \in Unsent PROVE x \in Packet /\ ~x.sent
      <4>1. PICK s \in Streams, f \in Frags :
               x = [sent |-> FALSE, seq |-> 0, stream |-> s, frags |-> f, age |-> 0]
        OBVIOUS
      <4>. QED
        BY <3>2, <4>1
    <3>. QED
      BY <3>3
  <2>. HIDE DEF Unsent
  <2>. QED
    BY <2>1, <2>2
<1>2. DOMAIN groups = {} /\ since \in 0 .. Window + 1 /\ restarts \in 0 .. MaxRestarts
  BY ClockAssumption, BoundAssumption DEF Init, Window
<1>3. tunSeq = 0 /\ tunSeq \in 0 .. Cardinality(Packets) /\ \A p \in Packets : tunSeq < p
  BY PacketNumbers DEF Init
<1>4. out \in [Sources -> 0 .. 2] /\ \A x \in Sources : out[x] = 0
  BY DEF Init
<1>5. TypeOK
  BY <1>1, <1>2, <1>3, <1>4 DEF TypeOK
<1>6. SentInOrder /\ PastIsOld
  BY <1>1, <1>3 DEF SentInOrder, PastIsOld
<1>7. GroupsTrue
  BY <1>2 DEF GroupsTrue
<1>8. HandedOnce
  BY <1>4 DEF HandedOnce, Sources
<1>. QED
  BY <1>5, <1>6, <1>7, <1>8 DEF IInv

-------------------------------------------------------------------------------
(* Packets and their age *)

LEMMA PacketTyped ==
    ASSUME TypeOK, NEW p \in Packets
    PROVE  /\ packet[p] \in Packet /\ packet[p].stream \in Streams
           /\ packet[p].seq \in 0 .. Cardinality(Packets) /\ packet[p].seq \in Nat
           /\ packet[p].frags \in Frags /\ packet[p].frags \in Nat /\ packet[p].frags > 0
           /\ packet[p].age \in 0 .. Flight + 1 /\ packet[p].age \in Nat
           /\ packet[p].sent \in BOOLEAN
<1>1. packet[p] \in Packet
  BY DEF TypeOK
<1>2. /\ packet[p].stream \in Streams /\ packet[p].seq \in 0 .. Cardinality(Packets)
      /\ packet[p].frags \in Frags /\ packet[p].age \in 0 .. Flight + 1
      /\ packet[p].sent \in BOOLEAN
  BY <1>1 DEF Packet
<1>. QED
  BY <1>1, <1>2, PacketNumbers, ProfileAssumption, ClockAssumption DEF Frags

LEMMA KeyTyped ==
    ASSUME IInv, NEW p \in Packets, packet[p].sent
    PROVE  KeyOf(p) \in Keys /\ KeyOf(p)[1] = packet[p].seq /\ p \in Senders(KeyOf(p))
<1>1. packet[p].seq > 0
  BY DEF IInv, SentInOrder
<1>2. packet[p].seq \in Packets /\ packet[p].stream \in Streams
  BY <1>1, PacketTyped, PacketNumbers DEF IInv
<1>. QED
  BY <1>2 DEF KeyOf, Keys, Senders

\* A copy that still arrives of a packet of before the restart: it is not long ago.
LEMMA ArrivalPast ==
    ASSUME IInv, NEW p \in Packets, packet[p].sent, packet[p].age <= Flight, Past(p),
           NEW g \in Group
    PROVE  Mixable(g)
<1>1. packet[p].age >= since
  BY PacketTyped, ClockAssumption DEF IInv, PastIsOld
<1>2. g.age \in Nat
  BY ClockAssumption DEF Group
<1>. QED
  BY <1>1, <1>2, PacketTyped, ClockAssumption DEF Mixable, IInv, TypeOK, Window

\* Of two packets with one number the earlier is of before the restart.
LEMMA OneIsPast ==
    ASSUME IInv, NEW p \in Packets, NEW q \in Packets, p # q,
           packet[p].sent, packet[q].sent, KeyOf(p) = KeyOf(q)
    PROVE  Past(p) \/ Past(q)
<1>1. packet[p].seq = packet[q].seq
  BY DEF KeyOf
<1>2. p < q \/ q < p
  BY PacketNumbers
<1>. QED
  BY <1>1, <1>2 DEF Past

-------------------------------------------------------------------------------
(* The groups push works on *)

LEMMA GroupTyped ==
    ASSUME NEW g \in Group
    PROVE  /\ g.age \in 0 .. TTL + 1 /\ g.age \in Nat
           /\ g.shards \in [Shards -> Sources \cup {None}]
           /\ g.parts \in [Shards -> Parts]
           /\ g.length \in Sources \cup {None} /\ g.result \in Sources \cup {None}
  BY ClockAssumption DEF Group

LEMMA OpenedGroups ==
    ASSUME IInv, NEW p \in Packets, packet[p].sent
    PROVE  /\ DOMAIN Opened(p) \subseteq Keys /\ KeyOf(p) \in DOMAIN Opened(p)
           /\ \A k \in DOMAIN Opened(p) :
                 /\ Opened(p)[k] \in Group /\ Opened(p)[k].age <= TTL
                 /\ \/ k \in DOMAIN groups /\ Opened(p)[k] = groups[k]
                    \/ k = KeyOf(p) /\ Opened(p)[k] = NewGroup
           /\ \A k \in DOMAIN groups : groups[k].age <= TTL =>
                 k \in DOMAIN Opened(p) /\ Opened(p)[k] = groups[k]
<1>. DEFINE kept == {k \in DOMAIN groups : ~Stale(groups[k])}
<1>1. Opened(p) = [k \in kept \cup {KeyOf(p)} |-> IF k \in kept THEN groups[k] ELSE NewGroup]
  BY DEF Opened
<1>2. \A k \in DOMAIN groups : k \in Keys /\ groups[k] \in Group
  BY DEF IInv, TypeOK
<1>3. \A k \in DOMAIN groups : k \in kept <=> groups[k].age <= TTL
  BY <1>2, GroupTyped, ClockAssumption DEF Stale
<1>4. kept \subseteq DOMAIN groups
  OBVIOUS
<1>. HIDE DEF kept
<1>5. DOMAIN Opened(p) = kept \cup {KeyOf(p)}
  BY <1>1
<1>6. \A k \in DOMAIN Opened(p) : Opened(p)[k] = IF k \in kept THEN groups[k] ELSE NewGroup
  BY <1>1, <1>5
<1>7. KeyOf(p) \in Keys
  BY KeyTyped
<1>8. NewGroup \in Group /\ NewGroup.age <= TTL
  BY NewGroupTyped, ClockAssumption
<1>. QED
  BY <1>2, <1>3, <1>4, <1>5, <1>6, <1>7, <1>8

LEMMA NewGroupTrue ==
    ASSUME IInv, NEW p \in Packets, packet[p].sent, packet[p].age <= Flight
    PROVE  GroupTrue(KeyOf(p), NewGroup)
<1>. DEFINE k == KeyOf(p)
<1>1. k[1] = packet[p].seq /\ p \in Senders(k)
  BY KeyTyped
<1>. HIDE DEF k
<1>2. HasSender(k, NewGroup)
  BY <1>1, NewGroupTyped DEF HasSender
<1>3. MixesOnlyPast(k, NewGroup)
  BY <1>1, NewGroupTyped, ArrivalPast DEF MixesOnlyPast, Past
<1>4. NotOlder(k, NewGroup)
  BY NewGroupTyped, PacketTyped DEF NotOlder, Senders, IInv
<1>5. DecodedOrMixed(NewGroup)
  BY NewGroupTyped, FS_EmptySet, ProfileAssumption DEF DecodedOrMixed
<1>. QED
  BY <1>2, <1>3, <1>4, <1>5 DEF GroupTrue, k

\* Opening and forgetting keep what is known of the groups and of the packets.
LEMMA OpenedTrue ==
    ASSUME IInv, NEW p \in Packets, packet[p].sent, packet[p].age <= Flight
    PROVE  /\ \A k \in DOMAIN Opened(p) : GroupTrue(k, Opened(p)[k])
           /\ \A q \in Packets : Remembered(q, groups) => Remembered(q, Opened(p))
<1>1. \A k \in DOMAIN Opened(p) : GroupTrue(k, Opened(p)[k])
  BY OpenedGroups, NewGroupTrue DEF IInv, GroupsTrue
<1>2. ASSUME NEW q \in Packets, Remembered(q, groups)
      PROVE  Remembered(q, Opened(p))
  <2>1. SUFFICES ASSUME /\ KeyOf(q) \in DOMAIN groups
                        /\ groups[KeyOf(q)].result = q
                        /\ groups[KeyOf(q)].age <= packet[q].age
                 PROVE  Remembered(q, Opened(p))
    BY <1>2 DEF Remembered
  <2>2. CASE groups[KeyOf(q)].age <= TTL
    BY <2>1, <2>2, OpenedGroups DEF Remembered
  <2>3. CASE ~(groups[KeyOf(q)].age <= TTL)
    <3>1. groups[KeyOf(q)].age \in Nat
      BY <2>1, GroupTyped DEF IInv, TypeOK
    <3>2. packet[q].age > Flight
      BY <2>1, <2>3, <3>1, PacketTyped, ClockAssumption DEF IInv
    <3>. QED
      BY <3>2 DEF Remembered
  <2>. QED
    BY <2>2, <2>3
<1>. QED
  BY <1>1, <1>2

\* A group that cannot hold a packet of before the restart holds what it is sent.
LEMMA Unmixed ==
    ASSUME IInv, NEW p \in Packets, packet[p].sent, packet[p].age <= Flight,
           ~Mixable(Opened(p)[KeyOf(p)])
    PROVE  Contents(Opened(p)[KeyOf(p)]) \subseteq {p} /\ ~Past(p)
<1>. DEFINE k == KeyOf(p)
            g == Opened(p)[k]
<1>1. g \in Group /\ GroupTrue(k, g)
  BY OpenedGroups, OpenedTrue
<1>2. ~Past(p)
  BY <1>1, ArrivalPast
<1>3. ASSUME NEW x \in Contents(g) PROVE x = p
  <2>1. x # Corrupt /\ ~Past(x)
    BY <1>1 DEF GroupTrue, MixesOnlyPast
  <2>2. x \in Packets /\ packet[x].sent /\ KeyOf(x) = KeyOf(p)
    BY <1>1, <2>1 DEF GroupTrue, HasSender, Senders
  <2>. QED
    BY <1>2, <2>1, <2>2, OneIsPast
<1>. QED
  BY <1>2, <1>3


-------------------------------------------------------------------------------
(* What a push adds to a group *)

LEMMA StoredTyped ==
    ASSUME NEW g \in Group, NEW p \in Packets, packet[p].frags \in Frags,
           NEW i \in Shards, NEW f \in Frags
    PROVE  /\ Stored(g, p, i, f) \in [Frags -> Packets \cup {None}]
           /\ \A j \in Frags :
                 \/ Stored(g, p, i, f)[j] \in {p, None}
                 \/ Stored(g, p, i, f)[j] = g.parts[i].from[j]
<1>. DEFINE parts == PartsFor(g, p, i)
<1>1. g.parts[i] \in Parts
  BY GroupTyped
<1>2. g.parts[i].from \in [Frags -> Packets \cup {None}]
  BY <1>1 DEF Parts
<1>3. /\ parts.from \in [Frags -> Packets \cup {None}]
      /\ \A j \in Frags : parts.from[j] = None \/ parts.from[j] = g.parts[i].from[j]
  <2>1. CASE g.parts[i].count = packet[p].frags
    BY <1>2, <2>1 DEF PartsFor
  <2>2. CASE g.parts[i].count # packet[p].frags
    <3>1. parts.from = NoParts.from
      BY <2>2 DEF PartsFor, NoParts
    <3>2. NoParts.from \in [Frags -> Packets \cup {None}]
      BY NoPartsTyped DEF Parts
    <3>. QED
      BY <3>1, <3>2, NoPartsTyped
  <2>. QED
    BY <2>1, <2>2
<1>. HIDE DEF parts
<1>4. Stored(g, p, i, f) = [parts.from EXCEPT ![f] = p]
  BY DEF Stored, parts
<1>. QED
  BY <1>3, <1>4

\* What the steps of a push have in common: one group changes, and takes on
\* nothing but the packet that arrived, or Corrupt if it is mixed.
LEMMA PushStep ==
    ASSUME IInv, NEW p \in Packets, packet[p].sent, packet[p].age <= Flight,
           NEW g \in Group,
           g.age = Opened(p)[KeyOf(p)].age, Opened(p)[KeyOf(p)].result = None,
           Contents(g) \subseteq Contents(Opened(p)[KeyOf(p)]) \cup {p, Corrupt},
           ~Mixable(Opened(p)[KeyOf(p)]) =>
              Contents(g) \subseteq {p} /\ (Enough(g.shards) => g.result # None),
           UNCHANGED <<tunSeq, restarts, since, packet>>,
           groups' = [Opened(p) EXCEPT ![KeyOf(p)] = g]
    PROVE  /\ DOMAIN groups' \subseteq Keys /\ \A k \in DOMAIN groups' : groups'[k] \in Group
           /\ SentInOrder' /\ PastIsOld' /\ GroupsTrue'
           /\ \A q \in Packets : packet[q].sent =>
                 (Remembered(q, groups) => Remembered(q, groups)')
<1>. DEFINE key == KeyOf(p)
            old == Opened(p)
<1>1. /\ DOMAIN old \subseteq Keys /\ key \in DOMAIN old
      /\ \A k \in DOMAIN old : old[k] \in Group /\ GroupTrue(k, old[k])
  BY OpenedGroups, OpenedTrue
<1>2. \A q \in Packets : Remembered(q, groups) => Remembered(q, old)
  BY OpenedTrue
<1>3. /\ g.age = old[key].age /\ old[key].result = None
      /\ Contents(g) \subseteq Contents(old[key]) \cup {p, Corrupt}
      /\ ~Mixable(old[key]) => Contents(g) \subseteq {p} /\ (Enough(g.shards) => g.result # None)
      /\ groups' = [old EXCEPT ![key] = g]
  OBVIOUS
<1>4. p \in Senders(key) /\ p \in Packets
  BY KeyTyped
<1>5. p # Corrupt
  BY PacketNumbers
<1>6. ~Mixable(old[key]) => ~Past(p)
  BY Unmixed
<1>7. ASSUME NEW q \in Packets, ~Past(q) PROVE ~Past(q)'
  BY <1>7 DEF Past
<1>. HIDE DEF key, old
<1>8. /\ DOMAIN groups' = DOMAIN old /\ groups'[key] = g
      /\ \A k \in DOMAIN old : k # key => groups'[k] = old[k]
  BY <1>1, <1>3
<1>9. Mixable(g) <=> Mixable(old[key])
  BY <1>3 DEF Mixable
<1>10. GroupTrue(key, g)
  <2>1. GroupTrue(key, old[key])
    BY <1>1
  <2>2. HasSender(key, g)
    BY <1>3, <1>4, <2>1 DEF GroupTrue, HasSender
  <2>3. MixesOnlyPast(key, g)
    BY <1>3, <1>5, <1>6, <1>9, <2>1 DEF GroupTrue, MixesOnlyPast
  <2>4. NotOlder(key, g)
    BY <1>3, <1>9, <2>1 DEF GroupTrue, NotOlder
  <2>5. DecodedOrMixed(g)
    BY <1>3, <1>9 DEF DecodedOrMixed, Enough
  <2>. QED
    BY <2>2, <2>3, <2>4, <2>5 DEF GroupTrue
<1>11. \A k \in DOMAIN old : GroupTrue(k, groups'[k])
  BY <1>1, <1>8, <1>10
<1>12. GroupsTrue'
  BY <1>8, <1>11
  DEF GroupsTrue, GroupTrue, HasSender, MixesOnlyPast, NotOlder, DecodedOrMixed,
      Senders, KeyOf, Past, Mixable
<1>13. SentInOrder' /\ PastIsOld'
  BY DEF IInv, SentInOrder, PastIsOld, Past
<1>14. ASSUME NEW q \in Packets, packet[q].sent, Remembered(q, groups)
       PROVE  Remembered(q, groups)'
  <2>1. Remembered(q, old)
    BY <1>2, <1>14
  <2>2. ASSUME KeyOf(q) \in DOMAIN old, old[KeyOf(q)].result = q
        PROVE  KeyOf(q) # key
    BY <1>3, <2>2, PacketNumbers
  <2>. QED
    BY <1>8, <2>1, <2>2 DEF Remembered, KeyOf, Past
<1>15. /\ DOMAIN groups' \subseteq Keys
       /\ \A k \in DOMAIN groups' : groups'[k] \in Group
  BY <1>1, <1>8
<1>. QED
  BY <1>12, <1>13, <1>14, <1>15

LEMMA PushDroppedInv ==
    ASSUME IInv, NEW p \in Packets, NEW i \in Shards, NEW f \in Frags, PushDropped(p, i, f)
    PROVE  IInv'
<1>1. /\ packet[p].sent /\ packet[p].age <= Flight /\ groups' = Opened(p)
      /\ UNCHANGED <<tunSeq, restarts, since, packet, out>>
  BY DEF PushDropped, Arrives
<1>2. TypeOK'
  BY <1>1, OpenedGroups DEF IInv, TypeOK
<1>3. SentInOrder' /\ PastIsOld'
  BY <1>1 DEF IInv, SentInOrder, PastIsOld, Past
<1>4. \A k \in DOMAIN groups' : GroupTrue(k, groups'[k])
  BY <1>1, OpenedTrue
<1>5. GroupsTrue'
  BY <1>1, <1>4
  DEF GroupsTrue, GroupTrue, HasSender, MixesOnlyPast, NotOlder, DecodedOrMixed,
      Senders, KeyOf, Past, Mixable
<1>6. \A q \in Packets : Remembered(q, groups) => Remembered(q, groups')
  BY <1>1, OpenedTrue
<1>7. HandedOnce'
  BY <1>1, <1>6 DEF IInv, HandedOnce, Remembered, KeyOf, Past
<1>. QED
  BY <1>2, <1>3, <1>5, <1>7 DEF IInv

LEMMA PushFragmentInv ==
    ASSUME IInv, NEW p \in Packets, NEW i \in Shards, NEW f \in Frags, PushFragment(p, i, f)
    PROVE  IInv'
<1>. DEFINE g == Opened(p)[KeyOf(p)]
            from == Stored(g, p, i, f)
            d == [count |-> packet[p].frags, from |-> from]
            new == [g EXCEPT !.parts[i] = d]
<1>1. /\ packet[p].sent /\ packet[p].age <= Flight /\ g.result = None
      /\ groups' = [Opened(p) EXCEPT ![KeyOf(p)].parts[i] = d]
      /\ UNCHANGED <<tunSeq, restarts, since, packet, out>>
  BY DEF PushFragment, Arrives, Superfluous
<1>2. g \in Group /\ GroupTrue(KeyOf(p), g)
  BY <1>1, OpenedGroups, OpenedTrue
<1>3. packet[p].frags \in Frags /\ packet[p].frags \in 0 .. MaxFrags
  BY PacketTyped, ProfileAssumption DEF IInv, Frags
<1>4. /\ from \in [Frags -> Packets \cup {None}]
      /\ \A j \in Frags : from[j] \in {p, None} \/ from[j] = g.parts[i].from[j]
  BY <1>2, <1>3, StoredTyped
<1>5. ~Mixable(g) => Contents(g) \subseteq {p}
  BY <1>1, Unmixed
<1>6. groups' = [Opened(p) EXCEPT ![KeyOf(p)] = new]
  BY <1>1
<1>. HIDE DEF g, from
<1>7. d \in Parts /\ d.from = from
  BY <1>3, <1>4 DEF Parts
<1>. HIDE DEF d
<1>8. /\ new \in Group /\ new.age = g.age /\ new.result = g.result
      /\ new.length = g.length /\ new.shards = g.shards
      /\ new.parts = [g.parts EXCEPT ![i] = d]
  BY <1>2, <1>7 DEF Group
<1>9. /\ \A j \in Shards : new.parts[j] = IF j = i THEN d ELSE g.parts[j]
  BY <1>2, <1>8, GroupTyped
<1>. HIDE DEF new
<1>10. Contents(new) \subseteq Contents(g) \cup {p}
  <2>1. ASSUME NEW x \in Contents(new), x # p PROVE x \in Contents(g)
    <3>1. x # None
      BY <2>1, ContentsMembers
    <3>2. CASE x = g.length \/ x = g.result \/ \E j \in Shards : x = g.shards[j]
      BY <3>1, <3>2, ContentsMembers
    <3>3. CASE \E j \in Shards : \E h \in Frags : x = new.parts[j].from[h]
      <4>1. PICK j \in Shards, h \in Frags : x = new.parts[j].from[h]
        BY <3>3
      <4>2. x = g.parts[j].from[h]
        BY <1>4, <1>7, <1>9, <2>1, <3>1, <4>1
      <4>. QED
        BY <3>1, <4>2, ContentsMembers
    <3>4. \/ x = new.length \/ x = new.result
          \/ \E j \in Shards : x = new.shards[j]
          \/ \E j \in Shards : \E h \in Frags : x = new.parts[j].from[h]
      BY <2>1, ContentsMembers
    <3>. QED
      BY <1>8, <3>2, <3>3, <3>4
  <2>. QED
    BY <2>1
<1>11. ~Mixable(g) => ~Enough(new.shards)
  BY <1>1, <1>2, <1>8 DEF GroupTrue, DecodedOrMixed, Enough
<1>12. /\ DOMAIN groups' \subseteq Keys /\ \A k \in DOMAIN groups' : groups'[k] \in Group
       /\ SentInOrder' /\ PastIsOld' /\ GroupsTrue'
       /\ \A q \in Packets : packet[q].sent =>
             (Remembered(q, groups) => Remembered(q, groups)')
  BY <1>1, <1>5, <1>6, <1>8, <1>10, <1>11, PushStep, ZenonT(30) DEF g
<1>13. TypeOK'
  BY <1>1, <1>12 DEF IInv, TypeOK
<1>14. HandedOnce'
  BY <1>1, <1>12 DEF IInv, HandedOnce
<1>. QED
  BY <1>12, <1>13, <1>14 DEF IInv


\* The group that PushShard makes of g, but for its age.
MadeWhole(g, p, i, f, new) ==
    LET from == Stored(g, p, i, f)
    IN /\ Whole(from, packet[p].frags)
       /\ new.shards = [g.shards EXCEPT ![i] = ShardOf(from, packet[p].frags)]
       /\ new.parts = [g.parts EXCEPT ![i] = NoParts]
       /\ new.length = from[1]
       /\ IF Enough(new.shards) THEN new.result \in Decodings(new.shards, from[1])
                                ELSE new.result = None

\* A shard that becomes whole is of the packet its fragments are of. With K whole
\* shards the group is decoded; a group that holds one packet gives that packet.
LEMMA WholeShard ==
    ASSUME IInv, NEW p \in Packets, NEW i \in Shards, NEW f \in Frags,
           packet[p].sent, packet[p].age <= Flight,
           NEW g \in Group, g.result = None, NEW new, MadeWhole(g, p, i, f, new)
    PROVE  /\ new.shards \in [Shards -> Sources \cup {None}]
           /\ Contents(new) \subseteq Contents(g) \cup {p, Corrupt}
           /\ Contents(g) \subseteq {p} =>
                 Contents(new) \subseteq {p} /\ (Enough(new.shards) => new.result = p)
<1>. DEFINE from == Stored(g, p, i, f)
            shards == new.shards
            result == new.result
            n == packet[p].frags
<1>1. /\ Whole(from, n) /\ shards = [g.shards EXCEPT ![i] = ShardOf(from, n)]
      /\ new.parts = [g.parts EXCEPT ![i] = NoParts] /\ new.length = from[1]
      /\ IF Enough(shards) THEN result \in Decodings(shards, from[1]) ELSE result = None
  BY DEF MadeWhole
<1>2. n \in Frags /\ n \in Nat /\ n > 0 /\ 1 \in Frags /\ 1 \in 1 .. n /\ 1 .. n \subseteq Frags
  BY PacketTyped, ProfileAssumption DEF IInv, Frags
<1>3. /\ from \in [Frags -> Packets \cup {None}]
      /\ \A j \in Frags : from[j] \in {p, None} \/ from[j] = g.parts[i].from[j]
  BY <1>2, StoredTyped
<1>4. \A j \in 1 .. n : from[j] # None /\ from[j] \in Packets
  BY <1>1, <1>2, <1>3 DEF Whole
<1>5. \A j \in 1 .. n : from[j] = p \/ from[j] \in Contents(g)
  BY <1>2, <1>3, <1>4, ContentsMembers
<1>6. from[1] \in Packets /\ (from[1] = p \/ from[1] \in Contents(g))
  BY <1>2, <1>4, <1>5
<1>7. ShardOf(from, n) \in {from[1], Corrupt}
  BY DEF ShardOf
<1>8. Contents(g) \subseteq {p} => ShardOf(from, n) = p /\ from[1] = p
  <2>1. SUFFICES ASSUME Contents(g) \subseteq {p} PROVE ShardOf(from, n) = p /\ from[1] = p
    OBVIOUS
  <2>2. \A j \in 1 .. n : from[j] = p
    BY <1>5, <2>1
  <2>. QED
    BY <1>2, <2>2 DEF ShardOf
<1>. DEFINE shard == ShardOf(from, n)
<1>9. shards = [g.shards EXCEPT ![i] = shard]
  BY <1>1
<1>10. /\ new.length = from[1] /\ new.result = result /\ new.shards = shards
      /\ new.parts = [g.parts EXCEPT ![i] = NoParts]
  BY <1>1
<1>11. IF Enough(shards) THEN result \in Decodings(shards, from[1]) ELSE result = None
  BY <1>1
<1>. HIDE DEF shard, n, from, shards, result
<1>12. shard \in Sources \cup {None} /\ from[1] \in Sources
  BY <1>6, <1>7 DEF Sources, shard
<1>13. /\ shards \in [Shards -> Sources \cup {None}]
       /\ \A j \in Shards : shards[j] = IF j = i THEN shard ELSE g.shards[j]
  BY <1>9, <1>12, GroupTyped
<1>14. \A j \in Shards : new.parts[j] = IF j = i THEN NoParts ELSE g.parts[j]
  BY <1>10, GroupTyped
<1>15. \A j \in Shards : shards[j] # None => shards[j] = shard \/ shards[j] \in Contents(g)
  BY <1>13, ContentsMembers
<1>16. Enough(shards) => result \in {Corrupt, None, from[1]}
  BY <1>11 DEF Decodings
<1>17. Contents(g) \subseteq {p} /\ Enough(shards) => result = p
  <2>1. SUFFICES ASSUME Contents(g) \subseteq {p}, Enough(shards) PROVE result = p
    OBVIOUS
  <2>2. shard = p /\ from[1] = p
    BY <1>8, <2>1 DEF shard
  <2>3. \A j \in Present(shards) : shards[j] = p
    BY <1>15, <2>1, <2>2 DEF Present
  <2>4. Rows(Present(shards)) \subseteq Present(shards) /\ Rows(Present(shards)) # {}
    BY <2>1, RowsThere
  <2>5. {shards[j] : j \in Rows(Present(shards))} = {p}
    BY <2>3, <2>4
  <2>6. Decodings(shards, from[1]) = {p}
    BY <2>2, <2>5 DEF Decodings
  <2>. QED
    BY <1>11, <2>1, <2>6
<1>18. ASSUME NEW x, x \in Contents(new)
       PROVE  x \in {from[1], shard, result} \/ x \in Contents(g)
  <2>1. x # None
    BY <1>18, ContentsMembers
  <2>2. \/ x = new.length \/ x = new.result
        \/ \E j \in Shards : x = new.shards[j]
        \/ \E j \in Shards : \E h \in Frags : x = new.parts[j].from[h]
    BY <1>18 DEF Contents
  <2>3. CASE \E j \in Shards : \E h \in Frags : x = new.parts[j].from[h]
    <3>1. PICK j \in Shards, h \in Frags : x = new.parts[j].from[h]
      BY <2>3
    <3>2. x = g.parts[j].from[h]
      BY <1>14, <2>1, <3>1, NoPartsTyped
    <3>. QED
      BY <2>1, <3>2, ContentsMembers
  <2>4. CASE \E j \in Shards : x = new.shards[j]
    BY <1>10, <1>15, <2>1, <2>4
  <2>. QED
    BY <1>10, <2>2, <2>3, <2>4
<1>19. \A x \in Contents(new) : x # None
  BY ContentsMembers
<1>20. Contents(new) \subseteq Contents(g) \cup {p, Corrupt}
  BY <1>6, <1>7, <1>11, <1>16, <1>18, <1>19 DEF shard
<1>21. Contents(g) \subseteq {p} => Contents(new) \subseteq {p}
  BY <1>8, <1>11, <1>17, <1>18, <1>19 DEF shard
<1>. QED
  BY <1>10, <1>13, <1>17, <1>20, <1>21 DEF shards, result


\* What is written to the device outside the Window is the packet that arrived,
\* and it was not written before.
LEMMA PushShardInv ==
    ASSUME IInv, NEW p \in Packets, NEW i \in Shards, NEW f \in Frags, PushShard(p, i, f)
    PROVE  /\ IInv'
           /\ UNCHANGED packet
           /\ \/ UNCHANGED out
              \/ packet[p].sent /\ out[p] = 0 /\ out' = [out EXCEPT ![p] = 1]
<1>. DEFINE key == KeyOf(p)
            g == Opened(p)[key]
            from == Stored(g, p, i, f)
            shards == [g.shards EXCEPT ![i] = ShardOf(from, packet[p].frags)]
            whole == [g EXCEPT !.shards = shards, !.parts[i] = NoParts, !.length = from[1]]
            Made(result) == [g EXCEPT !.shards = shards, !.parts[i] = NoParts,
                                      !.length = from[1], !.result = result]
<1>1. /\ packet[p].sent /\ packet[p].age <= Flight /\ g.result = None
      /\ Whole(from, packet[p].frags)
      /\ UNCHANGED <<tunSeq, restarts, since, packet>>
  BY DEF PushShard, Arrives, Superfluous
<1>2. /\ g \in Group /\ g.age <= TTL /\ GroupTrue(key, g) /\ key \in DOMAIN Opened(p)
  BY <1>1, OpenedGroups, OpenedTrue
<1>3. from[1] \in Sources \cup {None}
  <2>1. from \in [Frags -> Packets \cup {None}] /\ 1 \in Frags
    BY <1>2, PacketTyped, StoredTyped, ProfileAssumption DEF IInv, Frags
  <2>. QED
    BY <2>1 DEF Sources
<1>4. PICK result :
         /\ IF Enough(shards) THEN result \in Decodings(shards, from[1]) ELSE result = None
         /\ groups' = [Opened(p) EXCEPT ![key] = Made(result)]
         /\ UNCHANGED out \/ (Enough(shards) /\ Write(result))
  <2>1. CASE Enough(shards)
    <3>1. PICK result \in Decodings(shards, from[1]) :
             /\ groups' = [Opened(p) EXCEPT ![key] = [whole EXCEPT !.result = result]]
             /\ Write(result)
      BY <2>1 DEF PushShard
    <3>2. [whole EXCEPT !.result = result] = Made(result)
      BY <1>2 DEF Group
    <3>. QED
      BY <2>1, <3>1, <3>2
  <2>2. CASE ~Enough(shards)
    <3>1. groups' = [Opened(p) EXCEPT ![key] = whole] /\ UNCHANGED out
      BY <2>2 DEF PushShard
    <3>2. whole = Made(None)
      BY <1>1, <1>2 DEF Group
    <3>. QED
      BY <2>2, <3>1, <3>2
  <2>. QED
    BY <2>1, <2>2
<1>5. result \in Sources \cup {None}
  BY <1>3, <1>4 DEF Decodings, Sources
<1>. DEFINE new == Made(result)
<1>6. /\ new.age = g.age /\ new.result = result /\ new.shards = shards
      /\ new.length = from[1] /\ new.parts = [g.parts EXCEPT ![i] = NoParts]
  BY <1>2 DEF Group
<1>7. from = Stored(g, p, i, f) /\ shards = [g.shards EXCEPT ![i] = ShardOf(from, packet[p].frags)]
  OBVIOUS
<1>. HIDE DEF new, g, from, shards, whole, key, Made
<1>8. /\ shards \in [Shards -> Sources \cup {None}]
      /\ Contents(new) \subseteq Contents(g) \cup {p, Corrupt}
      /\ Contents(g) \subseteq {p} =>
            Contents(new) \subseteq {p} /\ (Enough(shards) => result = p)
  <2>1. MadeWhole(g, p, i, f, new)
    BY <1>1, <1>4, <1>6, <1>7 DEF MadeWhole
  <2>. QED
    BY <1>1, <1>2, <1>6, <2>1, WholeShard
<1>9. new \in Group
  <2>1. [g.parts EXCEPT ![i] = NoParts] \in [Shards -> Parts]
    BY <1>2, GroupTyped, NoPartsTyped
  <2>2. new = [g EXCEPT !.shards = shards, !.parts = [g.parts EXCEPT ![i] = NoParts],
                       !.length = from[1], !.result = result]
    BY <1>2 DEF new, Made, Group
  <2>. QED
    BY <1>2, <1>3, <1>5, <1>8, <2>1, <2>2 DEF Group
<1>10. p # None /\ p # Corrupt
  BY PacketNumbers
<1>11. ~Mixable(g) => Contents(g) \subseteq {p} /\ ~Past(p)
  BY <1>1, Unmixed DEF g, key
<1>12. groups' = [Opened(p) EXCEPT ![key] = new]
  BY <1>4 DEF new
<1>13. /\ DOMAIN groups' \subseteq Keys /\ \A k \in DOMAIN groups' : groups'[k] \in Group
       /\ SentInOrder' /\ PastIsOld' /\ GroupsTrue'
       /\ \A q \in Packets : packet[q].sent =>
             (Remembered(q, groups) => Remembered(q, groups)')
  BY <1>1, <1>6, <1>10, <1>11, <1>12, <1>8, <1>9, PushStep DEF g, key
<1>14. groups'[key] = new /\ key \in DOMAIN groups'
  BY <1>2, <1>12
<1>15. CASE UNCHANGED out
  <2>1. TypeOK' /\ HandedOnce'
    BY <1>1, <1>13, <1>15 DEF IInv, TypeOK, HandedOnce
  <2>. QED
    BY <1>1, <1>13, <1>15, <2>1 DEF IInv
<1>16. CASE Enough(shards) /\ Write(result) /\ ~UNCHANGED out
  <2>1. Calm /\ out' = [out EXCEPT ![result] = @ + 1]
    BY <1>16 DEF Write
  <2>2. ~Mixable(g)
    BY <1>2, <2>1, GroupTyped, ClockAssumption DEF Mixable, Calm, Window, IInv, TypeOK
  <2>3. result = p /\ ~Past(p)
    BY <1>11, <1>16, <1>8, <2>2
  <2>4. ~Remembered(p, groups)
    <3>1. ~(packet[p].age > Flight) /\ ~Past(p)
      BY <1>1, <2>3, PacketTyped, ClockAssumption DEF IInv
    <3>2. ASSUME key \in DOMAIN groups, groups[key].result = p, groups[key].age <= packet[p].age
          PROVE  FALSE
      <4>1. groups[key].age \in Nat
        BY <3>2, GroupTyped DEF IInv, TypeOK
      <4>2. groups[key].age <= TTL
        BY <1>1, <3>2, <4>1, PacketTyped, ClockAssumption DEF IInv
      <4>3. groups[key] = g
        BY <1>1, <3>2, <4>2, OpenedGroups DEF g
      <4>. QED
        BY <1>1, <1>10, <3>2, <4>3
    <3>. QED
      BY <3>1, <3>2 DEF Remembered, key
  <2>5. out[p] = 0
    BY <2>4 DEF IInv, HandedOnce
  <2>6. out \in [Sources -> 0 .. 2] /\ p \in Sources
    BY DEF IInv, TypeOK, Sources
  <2>7. out' = [out EXCEPT ![p] = 1]
    BY <2>1, <2>3, <2>5, <2>6
  <2>8. g.age <= packet[p].age
    BY <1>1, <1>2, <2>2, <2>3, KeyTyped, PacketTyped, ClockAssumption
    DEF GroupTrue, NotOlder, IInv, key
  <2>9. Remembered(p, groups)'
    BY <1>1, <1>6, <1>14, <2>3, <2>8 DEF Remembered, KeyOf, key
  <2>10. TypeOK'
    BY <1>1, <1>13, <2>6, <2>7 DEF IInv, TypeOK
  <2>11. HandedOnce'
    BY <1>1, <1>10, <1>13, <2>6, <2>7, <2>9 DEF IInv, HandedOnce, Sources
  <2>. QED
    BY <1>1, <1>13, <2>5, <2>7, <2>10, <2>11 DEF IInv
<1>. QED
  BY <1>4, <1>15, <1>16


-------------------------------------------------------------------------------
(* The server's steps, and time *)

\* The number taken is one that, in this run of the server, nobody has.
LEMMA SendTunnelPayloadInv ==
    ASSUME IInv, NEW p \in Packets, SendTunnelPayload(p)
    PROVE  IInv'
<1>. DEFINE d == [packet[p] EXCEPT !.sent = TRUE, !.seq = tunSeq + 1]
<1>1. /\ ~packet[p].sent /\ tunSeq' = tunSeq + 1
      /\ UNCHANGED <<restarts, since, groups, out>>
      /\ \A q \in Packets : q < p => packet[q].sent
  BY DEF SendTunnelPayload, NextSeq
<1>2. packet' = [packet EXCEPT ![p] = d]
  BY <1>1 DEF SendTunnelPayload
<1>3. /\ packet \in [Packets -> Packet] /\ packet[p] \in Packet
      /\ tunSeq \in Nat /\ tunSeq + 1 \in 0 .. Cardinality(Packets)
  BY <1>1, PacketNumbers DEF IInv, TypeOK, SentInOrder
<1>4. d \in Packet /\ d.sent /\ d.seq = tunSeq + 1
  BY <1>3 DEF Packet
<1>. HIDE DEF d
<1>5. /\ packet' \in [Packets -> Packet] /\ packet'[p] = d
      /\ \A q \in Packets : q # p => packet'[q] = packet[q]
  BY <1>2, <1>3, <1>4
<1>6. \A q \in Packets : packet[q].sent => q < p
  BY <1>1, PacketNumbers DEF IInv, SentInOrder
<1>7. TypeOK'
  BY <1>1, <1>3, <1>5 DEF IInv, TypeOK
<1>8. SentInOrder'
  BY <1>1, <1>3, <1>4, <1>5, <1>6, PacketNumbers DEF IInv, SentInOrder
<1>9. ASSUME NEW q \in Packets, packet[q].sent
      PROVE  /\ Past(q)' <=> Past(q)
             /\ q # p /\ packet'[q] = packet[q] /\ KeyOf(q)' = KeyOf(q)
  <2>1. q # p /\ q < p /\ packet'[q] = packet[q] /\ packet[q].seq \in Nat
    BY <1>1, <1>5, <1>6, <1>9, PacketTyped DEF IInv
  <2>2. ASSUME Past(q) PROVE Past(q)'
    <3>1. CASE packet[q].seq > tunSeq
      BY <1>1, <1>3, <1>4, <1>5, <2>1, <3>1 DEF Past
    <3>2. CASE \E r \in Packets : r > q /\ packet[r].sent /\ packet[r].seq = packet[q].seq
      BY <1>1, <1>5, <2>1, <3>2 DEF Past
    <3>. QED
      BY <2>2, <3>1, <3>2 DEF Past
  <2>3. ASSUME Past(q)' PROVE Past(q)
    BY <1>1, <1>3, <1>4, <1>5, <2>1, <2>3 DEF Past
  <2>. QED
    BY <2>1, <2>2, <2>3 DEF KeyOf
<1>10. ~Past(p)'
  BY <1>1, <1>3, <1>4, <1>5, <1>6, PacketNumbers DEF Past
<1>11. PastIsOld'
  BY <1>1, <1>5, <1>9, <1>10 DEF IInv, PastIsOld
<1>12. KeyOf(p)'[1] = tunSeq + 1
  BY <1>4, <1>5 DEF KeyOf
<1>13. \A q \in Packets : packet'[q].sent => q = p \/ packet[q].sent
  BY <1>5
<1>14. ASSUME NEW k \in DOMAIN groups PROVE GroupTrue(k, groups[k])'
  <2>. DEFINE g == groups[k]
  <2>1. GroupTrue(k, g) /\ k \in Keys /\ g' = g /\ k[1] \in Nat
    BY <1>1, PacketNumbers DEF IInv, GroupsTrue, TypeOK, Keys
  <2>2. Mixable(g)' <=> Mixable(g)
    BY <1>1 DEF Mixable
  <2>3. Senders(k) \subseteq Senders(k)'
    BY <1>5, <1>9 DEF Senders
  <2>. HIDE DEF g
  <2>4. HasSender(k, g)'
    BY <2>1, <2>3 DEF GroupTrue, HasSender, Contents
  <2>5. \A x \in Contents(g) : x = Corrupt \/ (x \in Packets /\ packet[x].sent)
    <3>1. Contents(g) \subseteq Senders(k) \cup {Corrupt}
      BY <2>1 DEF GroupTrue, HasSender
    <3>. QED
      BY <3>1 DEF Senders
  <2>6. MixesOnlyPast(k, g)'
    <3>1. Contents(g)' = Contents(g)
      BY <2>1 DEF Contents
    <3>2. \A x \in Contents(g) : (x = Corrupt \/ Past(x)') => Mixable(g)
      BY <1>9, <2>1, <2>5 DEF GroupTrue, MixesOnlyPast
    <3>3. k[1] > tunSeq' => Mixable(g)
      BY <1>1, <1>3, <2>1 DEF GroupTrue, MixesOnlyPast
    <3>. QED
      BY <2>2, <3>1, <3>2, <3>3 DEF MixesOnlyPast
  <2>7. NotOlder(k, g)'
    <3>1. ASSUME NEW q \in Senders(k)'
          PROVE  (Past(q) \/ packet[q].age > Flight \/ g.age <= packet[q].age \/ Mixable(g))'
      <4>1. CASE q = p
        <5>1. k[1] > tunSeq
          BY <1>3, <1>12, <3>1, <4>1 DEF Senders
        <5>. QED
          BY <2>1, <2>2, <5>1 DEF GroupTrue, MixesOnlyPast
      <4>2. CASE q # p
        <5>1. q \in Senders(k) /\ packet[q].sent /\ q \in Packets
          BY <1>9, <1>13, <3>1, <4>2 DEF Senders
        <5>. QED
          BY <1>9, <2>1, <2>2, <5>1 DEF GroupTrue, NotOlder
      <4>. QED
        BY <4>1, <4>2
    <3>. QED
      BY <3>1 DEF NotOlder
  <2>8. DecodedOrMixed(g)'
    BY <2>1, <2>2 DEF GroupTrue, DecodedOrMixed
  <2>. QED
    BY <2>4, <2>6, <2>7, <2>8 DEF GroupTrue, g
<1>15. GroupsTrue'
  BY <1>1, <1>14 DEF GroupsTrue
<1>16. HandedOnce'
  BY <1>1, <1>9 DEF IInv, HandedOnce, Remembered
<1>. QED
  BY <1>7, <1>8, <1>11, <1>15, <1>16 DEF IInv

\* After a restart every packet is of before it, and any group may hold some.
LEMMA RestartInv ==
    ASSUME IInv, Restart
    PROVE  IInv'
<1>1. /\ restarts < MaxRestarts /\ restarts' = restarts + 1
      /\ tunSeq' = 0 /\ since' = 0 /\ UNCHANGED <<packet, groups, out>>
  BY DEF Restart
<1>2. TypeOK'
  BY <1>1, PacketNumbers, BoundAssumption, ClockAssumption DEF IInv, TypeOK, Window
<1>3. SentInOrder'
  BY <1>1, PacketNumbers DEF IInv, SentInOrder
<1>4. PastIsOld'
  BY <1>1, PacketTyped DEF IInv, PastIsOld
<1>5. \A q \in Packets : packet[q].sent => Past(q)'
  BY <1>1 DEF IInv, SentInOrder, Past
<1>6. ASSUME NEW k \in DOMAIN groups PROVE Mixable(groups[k])'
  <2>1. groups[k].age \in Nat
    BY GroupTyped DEF IInv, TypeOK
  <2>. QED
    BY <1>1, <2>1, ClockAssumption DEF Mixable
<1>7. ASSUME NEW k \in DOMAIN groups PROVE GroupTrue(k, groups[k])'
  BY <1>1, <1>6
  DEF IInv, GroupsTrue, GroupTrue, HasSender, Senders, KeyOf, Contents, MixesOnlyPast,
      NotOlder, DecodedOrMixed
<1>8. GroupsTrue'
  BY <1>1, <1>7 DEF GroupsTrue
<1>9. HandedOnce'
  BY <1>1, <1>5 DEF IInv, HandedOnce, Remembered
<1>. QED
  BY <1>2, <1>3, <1>4, <1>8, <1>9 DEF IInv

\* Everything ages alike, until it is of no use any more.
LEMMA TickInv ==
    ASSUME IInv, Tick
    PROVE  IInv'
<1>1. /\ since' = Older(since, Window) /\ UNCHANGED <<tunSeq, restarts, out>>
      /\ since \in Nat /\ Window \in Nat /\ Window = TTL + Flight
  BY ClockAssumption DEF Tick, IInv, TypeOK, Window
<1>2. ASSUME NEW p \in Packets
      PROVE  /\ packet'[p] \in Packet
             /\ packet'[p].sent = packet[p].sent /\ packet'[p].seq = packet[p].seq
             /\ packet'[p].stream = packet[p].stream
             /\ packet[p].sent => packet'[p].age = Older(packet[p].age, Flight)
  <2>1. packet'[p] = IF packet[p].sent
                     THEN [packet[p] EXCEPT !.age = Older(@, Flight)] ELSE packet[p]
    BY DEF Tick
  <2>2. packet[p] \in Packet /\ Older(packet[p].age, Flight) \in 0 .. Flight + 1
    BY PacketTyped, ClockAssumption DEF IInv, Older
  <2>. HIDE DEF Older
  <2>. QED
    BY <2>1, <2>2 DEF Packet
<1>3. packet' \in [Packets -> Packet]
  BY <1>2 DEF Tick
<1>4. DOMAIN groups' = DOMAIN groups
  BY DEF Tick
<1>5. ASSUME NEW k \in DOMAIN groups
      PROVE  /\ groups'[k] \in Group /\ groups'[k].age = Older(groups[k].age, TTL)
             /\ groups'[k].shards = groups[k].shards /\ groups'[k].parts = groups[k].parts
             /\ groups'[k].length = groups[k].length /\ groups'[k].result = groups[k].result
  <2>1. groups'[k] = [groups[k] EXCEPT !.age = Older(@, TTL)]
    BY DEF Tick
  <2>2. groups[k] \in Group
    BY DEF IInv, TypeOK
  <2>3. Older(groups[k].age, TTL) \in 0 .. TTL + 1
    BY <2>2, GroupTyped, ClockAssumption DEF Older
  <2>. QED
    BY <2>1, <2>2, <2>3 DEF Group
<1>6. TypeOK'
  <2>1. since' \in 0 .. Window + 1
    BY <1>1 DEF Older, IInv, TypeOK
  <2>. QED
    BY <1>1, <1>3, <1>4, <1>5, <2>1 DEF IInv, TypeOK
<1>7. SentInOrder'
  BY <1>1, <1>2 DEF IInv, SentInOrder
<1>8. \A p \in Packets : (Past(p)' <=> Past(p)) /\ KeyOf(p)' = KeyOf(p)
  BY <1>1, <1>2 DEF Past, KeyOf
<1>9. PastIsOld'
  BY <1>1, <1>2, <1>8, PacketTyped, ClockAssumption DEF IInv, PastIsOld, Older
<1>10. \A k : Senders(k)' = Senders(k)
  BY <1>2, <1>8 DEF Senders
<1>11. ASSUME NEW k \in DOMAIN groups PROVE GroupTrue(k, groups[k])'
  <2>1. PICK g : g = groups[k]
    OBVIOUS
  <2>2. PICK h : h = groups'[k]
    OBVIOUS
  <2>3. GroupTrue(k, g) /\ g \in Group /\ g.age \in Nat
    BY <2>1, GroupTyped DEF IInv, GroupsTrue, TypeOK
  <2>4. /\ h.age = Older(g.age, TTL) /\ h.shards = g.shards /\ h.parts = g.parts
        /\ h.length = g.length /\ h.result = g.result
    BY <1>5, <2>1, <2>2
  <2>5. Contents(h) = Contents(g)
    BY <2>4 DEF Contents
  <2>6. Mixable(g) => Mixable(h)'
    BY <1>1, <2>3, <2>4, ClockAssumption DEF Mixable, Older
  <2>7. HasSender(k, h)'
    BY <1>10, <2>3, <2>5 DEF GroupTrue, HasSender
  <2>8. MixesOnlyPast(k, h)'
    <3>1. \A x \in Contents(g) : x = Corrupt \/ x \in Packets
      BY <2>3 DEF GroupTrue, HasSender, Senders
    <3>2. \A x \in Contents(g) : (x = Corrupt \/ Past(x)') => Mixable(h)'
      BY <1>8, <2>3, <2>6, <3>1 DEF GroupTrue, MixesOnlyPast
    <3>3. k[1] > tunSeq' => Mixable(h)'
      BY <1>1, <2>3, <2>6 DEF GroupTrue, MixesOnlyPast
    <3>. QED
      BY <2>5, <3>2, <3>3 DEF MixesOnlyPast
  <2>9. NotOlder(k, h)'
    <3>1. ASSUME NEW p \in Senders(k)
          PROVE  Past(p)' \/ packet'[p].age > Flight \/ h.age <= packet'[p].age \/ Mixable(h)'
      <4>1. p \in Packets /\ packet[p].sent
        BY <3>1 DEF Senders
      <4>2. Past(p) \/ packet[p].age > Flight \/ g.age <= packet[p].age \/ Mixable(g)
        BY <2>3, <3>1 DEF GroupTrue, NotOlder
      <4>3. packet[p].age \in Nat /\ packet'[p].age = Older(packet[p].age, Flight)
        BY <1>2, <4>1, PacketTyped DEF IInv
      <4>4. packet[p].age > Flight => packet'[p].age > Flight
        BY <4>3, ClockAssumption DEF Older
      <4>5. g.age <= packet[p].age => packet'[p].age > Flight \/ h.age <= packet'[p].age
        BY <2>3, <2>4, <4>3, ClockAssumption DEF Older
      <4>. QED
        BY <1>8, <2>6, <4>1, <4>2, <4>4, <4>5
    <3>. QED
      BY <1>10, <3>1 DEF NotOlder
  <2>10. DecodedOrMixed(h)'
    BY <2>3, <2>4, <2>6 DEF GroupTrue, DecodedOrMixed
  <2>11. GroupTrue(k, h)'
    BY <2>7, <2>8, <2>9, <2>10 DEF GroupTrue
  <2>. QED
    BY <2>2, <2>11
<1>12. GroupsTrue'
  BY <1>4, <1>11 DEF GroupsTrue
<1>13. ASSUME NEW p \in Packets, packet[p].sent, Remembered(p, groups)
       PROVE  Remembered(p, groups)'
  <2>1. packet[p].age \in Nat /\ packet'[p].age = Older(packet[p].age, Flight)
    BY <1>2, <1>13, PacketTyped DEF IInv
  <2>2. CASE Past(p)
    BY <1>8, <2>2 DEF Remembered
  <2>3. CASE packet[p].age > Flight
    BY <2>1, <2>3, ClockAssumption DEF Older, Remembered
  <2>4. CASE /\ KeyOf(p) \in DOMAIN groups
             /\ groups[KeyOf(p)].result = p
             /\ groups[KeyOf(p)].age <= packet[p].age
    <3>1. groups[KeyOf(p)].age \in Nat
      BY <2>4, GroupTyped DEF IInv, TypeOK
    <3>2. /\ KeyOf(p)' = KeyOf(p) /\ KeyOf(p) \in DOMAIN groups'
          /\ groups'[KeyOf(p)].result = p
          /\ groups'[KeyOf(p)].age = Older(groups[KeyOf(p)].age, TTL)
      BY <1>4, <1>5, <1>8, <2>4
    <3>3. packet'[p].age > Flight \/ groups'[KeyOf(p)].age <= packet'[p].age
      BY <2>1, <2>4, <3>1, <3>2, ClockAssumption DEF Older
    <3>. QED
      BY <3>2, <3>3 DEF Remembered
  <2>. QED
    BY <1>13, <2>2, <2>3, <2>4 DEF Remembered
<1>14. HandedOnce'
  BY <1>1, <1>2, <1>13 DEF IInv, HandedOnce
<1>. QED
  BY <1>6, <1>7, <1>9, <1>12, <1>14 DEF IInv

LEMMA StepInv ==
    ASSUME IInv, [Next]_vars
    PROVE  IInv'
<1>1. CASE UNCHANGED vars
  BY <1>1
  DEF vars, IInv, TypeOK, SentInOrder, PastIsOld, Past, GroupsTrue, GroupTrue, HasSender,
      MixesOnlyPast, NotOlder, DecodedOrMixed, Senders, KeyOf, Mixable, HandedOnce, Remembered
<1>2. ASSUME NEW p \in Packets, NEW i \in Shards, NEW f \in Frags, Push(p, i, f)
      PROVE  IInv'
  BY <1>2, PushDroppedInv, PushFragmentInv, PushShardInv DEF Push
<1>. QED
  BY <1>1, <1>2, SendTunnelPayloadInv, RestartInv, TickInv DEF Next

-------------------------------------------------------------------------------
(* The theorems *)

\* The invariant holds in every state of the program.
THEOREM Inductive == Spec => []IInv
<1>1. IInv /\ [Next]_vars => IInv'
  BY StepInv
<1>. QED
  BY <1>1, InitInv, PTL DEF Spec

\* Numbers, packets and groups are well typed in every state (DataReassembler).
THEOREM TypeCorrect == Spec => []TypeOK
<1>1. IInv => TypeOK
  BY DEF IInv
<1>. QED
  BY <1>1, Inductive, PTL

\* For any coding profile, any times and any number of restarts: when TTL and
\* Flight have gone by since the last one, a group that push still uses holds one
\* packet only (DataReassembler.push, _cleanup_stale_groups).
THEOREM GroupsHeal == Spec => []RestartHeals
<1>1. ASSUME IInv PROVE RestartHeals
  <2>1. SUFFICES ASSUME Calm, NEW k \in DOMAIN groups, Fresh(k)
                 PROVE  \E p \in Packets : KeyOf(p) = k /\ Contents(groups[k]) \subseteq {p}
    BY DEF RestartHeals
  <2>. DEFINE g == groups[k]
  <2>2. g \in Group /\ GroupTrue(k, g)
    BY <1>1 DEF IInv, TypeOK, GroupsTrue
  <2>3. ~Mixable(g)
    BY <1>1, <2>1, <2>2, GroupTyped, ClockAssumption
    DEF Mixable, Calm, Window, Fresh, Stale, IInv, TypeOK
  <2>. HIDE DEF g
  <2>4. \A x \in Contents(g) : x \in Packets /\ packet[x].sent /\ KeyOf(x) = k /\ ~Past(x)
    BY <2>2, <2>3 DEF GroupTrue, HasSender, Senders, MixesOnlyPast
  <2>5. \A x, y \in Contents(g) : x = y
    BY <1>1, <2>4, OneIsPast
  <2>6. CASE Contents(g) = {}
    BY <2>2, <2>6 DEF GroupTrue, HasSender, Senders, g
  <2>7. CASE Contents(g) # {}
    BY <2>4, <2>5, <2>7 DEF g
  <2>. QED
    BY <2>6, <2>7
<1>. QED
  BY <1>1, Inductive, PTL

\* Outside the Window no group waits with K whole shards (DataReassembler.push).
THEOREM NothingStuck == Spec => []NoStuckGroup
<1>1. ASSUME IInv PROVE NoStuckGroup
  <2>1. ASSUME Calm, NEW k \in DOMAIN groups, Fresh(k) PROVE ~Mixable(groups[k])
    BY <1>1, <2>1, GroupTyped, ClockAssumption
    DEF Mixable, Calm, Window, Fresh, Stale, IInv, TypeOK
  <2>. QED
    BY <1>1, <2>1 DEF IInv, GroupsTrue, GroupTrue, DecodedOrMixed, NoStuckGroup
<1>. QED
  BY <1>1, Inductive, PTL

LEMMA InitRefines == Init => Service!Init
<1>. SUFFICES ASSUME Init PROVE Service!Init
  OBVIOUS
<1>1. {p \in Packets : packet[p].sent} = {}
  BY InitInv DEF Init
<1>2. out = [v \in Packets \cup {Corrupt} |-> 0]
  BY DEF Init, Sources
<1>. QED
  BY <1>1, <1>2 DEF Service!Init

LEMMA StepRefines ==
    ASSUME IInv, [Next]_vars
    PROVE  [Service!Next]_(Service!vars)
<1>. DEFINE sent == {p \in Packets : packet[p].sent}
            handed == [c \in {"device"} |-> out]
<1>1. ASSUME NEW p \in Packets, SendTunnelPayload(p) PROVE Service!Send(p)
  <2>1. packet \in [Packets -> Packet]
    BY DEF IInv, TypeOK
  <2>2. packet'[p].sent /\ \A q \in Packets : q # p => packet'[q] = packet[q]
    BY <1>1, <2>1 DEF SendTunnelPayload, Packet
  <2>3. sent' = sent \cup {p}
    BY <2>2
  <2>4. UNCHANGED handed
    BY <1>1 DEF SendTunnelPayload
  <2>. QED
    BY <2>3, <2>4 DEF Service!Send
<1>2. ASSUME NEW p \in Packets, NEW i \in Shards, NEW f \in Frags, PushShard(p, i, f),
             ~UNCHANGED out
      PROVE  Service!Deliver("device", p)
  <2>1. packet[p].sent /\ out[p] = 0 /\ out' = [out EXCEPT ![p] = 1] /\ UNCHANGED packet
    BY <1>2, PushShardInv
  <2>2. handed["device"] = out /\ UNCHANGED sent
    BY <2>1
  <2>3. handed' = [handed EXCEPT !["device"][p] = 1]
    BY <2>1
  <2>. QED
    BY <2>1, <2>2, <2>3 DEF Service!Deliver
<1>3. ASSUME UNCHANGED out, \A p \in Packets : packet'[p].sent = packet[p].sent
      PROVE  UNCHANGED Service!vars
  BY <1>3 DEF Service!vars
<1>4. ASSUME NEW p \in Packets, NEW i \in Shards, NEW f \in Frags, Push(p, i, f)
      PROVE  [Service!Next]_(Service!vars)
  <2>1. UNCHANGED packet
    BY <1>4 DEF Push, PushDropped, PushFragment, PushShard
  <2>2. CASE UNCHANGED out
    BY <1>3, <2>1, <2>2
  <2>3. CASE ~UNCHANGED out
    BY <1>2, <1>4, <2>3 DEF Push, PushDropped, PushFragment, Service!Next
  <2>. QED
    BY <2>2, <2>3
<1>5. ASSUME Tick PROVE UNCHANGED Service!vars
  <2>1. ASSUME NEW p \in Packets PROVE packet'[p].sent = packet[p].sent
    <3>1. packet[p] \in Packet
      BY PacketTyped DEF IInv
    <3>. QED
      BY <1>5, <3>1 DEF Tick, Packet
  <2>. QED
    BY <1>3, <1>5, <2>1 DEF Tick
<1>6. Restart => UNCHANGED Service!vars
  BY <1>3 DEF Restart
<1>7. UNCHANGED vars => UNCHANGED Service!vars
  BY <1>3 DEF vars
<1>. QED
  BY <1>1, <1>4, <1>5, <1>6, <1>7 DEF Next, Service!Next

\* The way back implements Delivery: a packet is given to the device at most once,
\* unaltered, and only if the server sent it, but for the Window after a restart.
THEOREM ReturnImplements == Spec => Implements
<1>1. Init => Service!Init
  BY InitRefines
<1>2. IInv /\ [Next]_vars => [Service!Next]_(Service!vars)
  BY StepRefines
<1>. QED
  BY <1>1, <1>2, Inductive, PTL DEF Spec, Implements, Service!Spec
===============================================================================
