----------------------------- MODULE TunnelReturn -----------------------------
(***************************************************************************)
(* The tunnel's way back: the server numbers each packet it reads from its *)
(* device, codes it into shards and cuts the shards into fragments; the    *)
(* client's DataReassembler puts them together again and its receive loop  *)
(* writes the result to the client's device.                               *)
(*                                                                         *)
(* The reassembler knows a packet by sequence number and stream id and     *)
(* forgets a group 30 s after its first fragment, when it next gets one.   *)
(* The numbers start again when the server does. A group may then hold     *)
(* fragments of two packets, and stays so until it is forgotten; Window    *)
(* is how long that can last.                                              *)
(*                                                                         *)
(* Client and server have the same coding profile.                         *)
(***************************************************************************)
EXTENDS Integers, FiniteSets

CONSTANTS
    Packets,      \* 1 .. N, in the order they are read from the device
    Streams,      \* stream ids: what is left of the destination address
    K, M,         \* fec_k and fec_m
    MaxFrags,     \* bound: fragments of a shard
    TTL,          \* group_ttl_sec
    Flight,       \* longest time a datagram is under way
    MaxRestarts,  \* bound: restarts of the server
    None, Corrupt

ASSUME ProfileAssumption == K \in Nat \ {0} /\ M \in Nat /\ MaxFrags \in Nat \ {0}
ASSUME NumberAssumption == Packets = 1 .. Cardinality(Packets) /\ IsFiniteSet(Packets)
ASSUME ValueAssumption == {None, Corrupt} \cap Packets = {} /\ None # Corrupt
ASSUME BoundAssumption == MaxRestarts \in Nat

\* A copy of a datagram does not outlive the group it belongs to.
ASSUME ClockAssumption == TTL \in Nat /\ Flight \in Nat /\ Flight <= TTL

VARIABLES
    tunSeq,    \* _tun_seq of the server
    restarts,  \* restarts of the server so far
    since,     \* ticks since the last one, as far as they matter
    packet,    \* packet -> how it was sent, and how long ago
    groups,    \* _groups: (seq, stream id) -> group
    out        \* packet -> writes to the client's device, the Window left out

vars == <<tunSeq, restarts, since, packet, groups, out>>

Window == TTL + Flight
Calm == since > Window

Shards == 0 .. K + M - 1
Frags == 1 .. MaxFrags
Keys == Packets \X Streams
Sources == Packets \cup {Corrupt}

\* shards: the packet a whole shard is of; Corrupt if its fragments are of two.
\* parts: the fragments of the shards that are not whole.
\* length: the packet whose length was noted last. result: what was decoded.
Parts == [count : 0 .. MaxFrags, from : [Frags -> Packets \cup {None}]]
Group == [shards : [Shards -> Sources \cup {None}], parts : [Shards -> Parts],
          length : Sources \cup {None}, result : Sources \cup {None},
          age : 0 .. TTL + 1]
Packet == [sent : BOOLEAN, seq : 0 .. Cardinality(Packets), stream : Streams,
           frags : Frags, age : 0 .. Flight + 1]

NoParts == [count |-> 0, from |-> [f \in Frags |-> None]]
NewGroup == [shards |-> [i \in Shards |-> None], parts |-> [i \in Shards |-> NoParts],
             length |-> None, result |-> None, age |-> 0]

Init ==
    /\ tunSeq = 0
    /\ restarts = 0
    /\ since = Window + 1
    /\ packet \in [Packets -> {[sent |-> FALSE, seq |-> 0, stream |-> s, frags |-> f,
                                age |-> 0] : s \in Streams, f \in Frags}]
    /\ groups = [k \in {} |-> NewGroup]
    /\ out = [p \in Sources |-> 0]

-------------------------------------------------------------------------------
(* The server *)

\* Slip: every fragment takes a number.
NextSeqPerFragment(p) == tunSeq + packet[p].frags
NextSeq(p) == tunSeq + 1

\* One loop reads the device; a packet is coded and sent before the next is read.
SendTunnelPayload(p) ==
    /\ ~packet[p].sent
    /\ \A q \in Packets : q < p => packet[q].sent
    /\ tunSeq' = NextSeq(p)
    /\ packet' = [packet EXCEPT ![p].sent = TRUE, ![p].seq = tunSeq']
    /\ UNCHANGED <<restarts, since, groups, out>>

Restart ==
    /\ restarts < MaxRestarts
    /\ restarts' = restarts + 1
    /\ tunSeq' = 0
    /\ since' = 0
    /\ UNCHANGED <<packet, groups, out>>

-------------------------------------------------------------------------------
(* The client: push, and the write of what it returns *)

\* Slips: a delivered group need not be remembered; groups are never forgotten.
StaleDelivered(g) == g.age > TTL \/ g.result # None
StaleNever(g) == FALSE
Stale(g) == g.age > TTL

KeyOf(p) == <<packet[p].seq, packet[p].stream>>

\* The groups _cleanup_stale_groups leaves, the datagram's own opened if need be.
Opened(p) ==
    LET kept == {k \in DOMAIN groups : ~Stale(groups[k])}
    IN [k \in kept \cup {KeyOf(p)} |-> IF k \in kept THEN groups[k] ELSE NewGroup]

\* A part list for another number of fragments is thrown away.
PartsFor(g, p, i) ==
    IF g.parts[i].count = packet[p].frags THEN g.parts[i]
    ELSE [NoParts EXCEPT !.count = packet[p].frags]

Stored(g, p, i, f) == [PartsFor(g, p, i).from EXCEPT ![f] = p]

Whole(from, n) == \A f \in 1 .. n : from[f] # None

ShardOf(from, n) ==
    IF \A f \in 1 .. n : from[f] = from[1] THEN from[1] ELSE Corrupt

Present(shards) == {i \in Shards : shards[i] # None}

\* The data shards if they are all there, else the K lowest.
Rows(present) ==
    IF 0 .. K - 1 \subseteq present THEN 0 .. K - 1
    ELSE {i \in present : Cardinality({j \in present : j < i}) < K}

\* reconstruct_data, which uses the length noted last. Shards of two packets
\* give bytes nobody sent, or do not fit together: None is the exception.
Decodings(shards, length) ==
    LET sources == {shards[i] : i \in Rows(Present(shards))}
    IN IF sources = {length} /\ length \in Packets THEN {length} ELSE {Corrupt, None}

\* Slip: one shard too many is waited for.
EnoughLate(shards) == Cardinality(Present(shards)) > K
Enough(shards) == Cardinality(Present(shards)) >= K

\* What is handed out in the Window after a restart is not counted, nor what the
\* device does not take.
Write(result) ==
    \/ UNCHANGED out
    \/ /\ result # None
       /\ Calm
       /\ out[result] < 2
       /\ out' = [out EXCEPT ![result] = @ + 1]

Arrives(p, i, f) ==
    /\ packet[p].sent
    /\ packet[p].age <= Flight
    /\ i \in Shards
    /\ f \in 1 .. packet[p].frags

\* Delivered, the shard there already, or the fragment there already.
Superfluous(g, p, i, f) ==
    \/ g.result # None
    \/ g.shards[i] # None
    \/ PartsFor(g, p, i).from[f] # None

PushDropped(p, i, f) ==
    /\ Arrives(p, i, f)
    /\ Superfluous(Opened(p)[KeyOf(p)], p, i, f)
    /\ groups' = Opened(p)
    /\ UNCHANGED <<tunSeq, restarts, since, packet, out>>

PushFragment(p, i, f) ==
    LET g == Opened(p)[KeyOf(p)]
        from == Stored(g, p, i, f)
    IN /\ Arrives(p, i, f)
       /\ ~Superfluous(g, p, i, f)
       /\ ~Whole(from, packet[p].frags)
       /\ groups' = [Opened(p) EXCEPT ![KeyOf(p)].parts[i] =
                        [count |-> packet[p].frags, from |-> from]]
       /\ UNCHANGED <<tunSeq, restarts, since, packet, out>>

\* The first fragment of a shard tells the length.
PushShard(p, i, f) ==
    LET g == Opened(p)[KeyOf(p)]
        from == Stored(g, p, i, f)
        shards == [g.shards EXCEPT ![i] = ShardOf(from, packet[p].frags)]
        whole == [g EXCEPT !.shards = shards, !.parts[i] = NoParts, !.length = from[1]]
    IN /\ Arrives(p, i, f)
       /\ ~Superfluous(g, p, i, f)
       /\ Whole(from, packet[p].frags)
       /\ IF Enough(shards)
          THEN \E result \in Decodings(shards, from[1]) :
                  /\ groups' = [Opened(p) EXCEPT ![KeyOf(p)] =
                                   [whole EXCEPT !.result = result]]
                  /\ Write(result)
          ELSE /\ groups' = [Opened(p) EXCEPT ![KeyOf(p)] = whole]
               /\ UNCHANGED out
       /\ UNCHANGED <<tunSeq, restarts, since, packet>>

-------------------------------------------------------------------------------

Older(n, limit) == IF n <= limit THEN n + 1 ELSE n

Tick ==
    /\ since' = Older(since, Window)
    /\ packet' = [p \in Packets |->
                     IF packet[p].sent
                     THEN [packet[p] EXCEPT !.age = Older(@, Flight)] ELSE packet[p]]
    /\ groups' = [k \in DOMAIN groups |-> [groups[k] EXCEPT !.age = Older(@, TTL)]]
    /\ UNCHANGED <<tunSeq, restarts, out>>

Push(p, i, f) == PushDropped(p, i, f) \/ PushFragment(p, i, f) \/ PushShard(p, i, f)

Next ==
    \/ \E p \in Packets : SendTunnelPayload(p)
    \/ \E p \in Packets, i \in Shards, f \in Frags : Push(p, i, f)
    \/ Restart
    \/ Tick

Spec == Init /\ [][Next]_vars

-------------------------------------------------------------------------------
(* Properties *)

\* The state of both ends is well typed.
TypeOK ==
    /\ tunSeq \in 0 .. Cardinality(Packets)
    /\ restarts \in 0 .. MaxRestarts
    /\ since \in 0 .. Window + 1
    /\ packet \in [Packets -> Packet]
    /\ DOMAIN groups \subseteq Keys
    /\ \A k \in DOMAIN groups : groups[k] \in Group
    /\ out \in [Sources -> 0 .. 2]

\* But for the Window after a restart of the server, the client's device is
\* given each packet at most once, unaltered, and only if the server sent it,
\* however datagrams are copied, delayed and reordered (DataReassembler.push).
Service == INSTANCE Delivery
    WITH Payloads <- Packets, Channels <- {"device"},
         sent <- {p \in Packets : packet[p].sent}, out <- [c \in {"device"} |-> out]
Implements == Service!Spec

Fresh(k) == k \in DOMAIN groups /\ ~Stale(groups[k])

Contents(g) ==
    ({g.shards[i] : i \in Shards} \cup {g.length, g.result}
        \cup UNION {{g.parts[i].from[f] : f \in Frags} : i \in Shards}) \ {None}

\* Once the Window after a restart is over, a group that push would still use
\* holds one packet only: a number that is used again meets nothing of its
\* earlier use, so no datagram is taken for a copy of another packet's and no
\* two packets are decoded together.
RestartHeals ==
    Calm => \A k \in DOMAIN groups : Fresh(k) =>
        \E p \in Packets : KeyOf(p) = k /\ Contents(groups[k]) \subseteq {p}

\* Outside that Window a group with K whole shards has been decoded: it does not
\* wait for a shard more, nor for ever after an exception.
NoStuckGroup ==
    Calm => \A k \in DOMAIN groups :
        Fresh(k) /\ Cardinality(Present(groups[k].shards)) >= K => groups[k].result # None
===============================================================================
