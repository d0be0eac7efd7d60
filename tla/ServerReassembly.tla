--------------------------- MODULE ServerReassembly ---------------------------
(***************************************************************************)
(* The server's receive path, from a DATA datagram to _on_payload:         *)
(* HopShotServer._handle_data with its Session and ShardGroup tables,      *)
(* _reconstruct_group_adaptive, and the part of _cleanup_loop that retires *)
(* shard groups and idle sessions. One client feeds it through a network   *)
(* that loses, duplicates, delays and reorders.                            *)
(*                                                                         *)
(* Every datagram is served by a thread of its own (_udp_loop_on_socket).  *)
(* The thread first finds the Session under sess_lock and works on its     *)
(* groups later, under the session's own lock: two steps, Receive and one  *)
(* of Discard, Store and Deliver. _cleanup_loop may run between them and   *)
(* drop the Session from the table, so Sessions are numbered in the order  *)
(* of their creation and a thread keeps the number it found.               *)
(*                                                                         *)
(* All traffic carries one session id. Payloads have one length and one    *)
(* FEC profile. Bytes are abstracted to who sent them: each fragment slot  *)
(* of a group holds the payload its content came from.                     *)
(***************************************************************************)
EXTENDS Integers, FiniteSets

CONSTANTS
    Payloads,        \* what the client can send
    Corrupt,         \* a byte string no client sent
    Empty,           \* a fragment slot that has received nothing
    K, M,            \* the client's FEC profile: data and parity shards
    PayloadLen,      \* bytes in a payload
    FragCount,       \* datagrams per shard
    ServerK, ServerM,\* the server's own fec_k and fec_m
    SeqSpace,        \* sequence numbers, 2^32 in the code
    MaxSessions,     \* bound: Session objects created
    MaxThreads,      \* bound: datagrams being handled at once
    MaxTime,         \* bound: the clock
    Lifetime,        \* how long after its send a datagram may still act
    GroupTTL,        \* 10 s in _cleanup_loop
    SweepPeriod,     \* time between two sweeps, 10 s in the code
    SessionTimeout,  \* session_timeout_sec
    QuietTime        \* how long a sequence number rests before its next use

ASSUME ProfileAssumption ==
    /\ K \in Nat \ {0}
    /\ M \in Nat
    /\ PayloadLen \in Nat \ {0}
    /\ FragCount \in Nat \ {0}
    /\ ServerK \in Nat
    /\ ServerM \in Nat
    /\ SeqSpace \in Nat \ {0}

ASSUME BoundAssumption ==
    /\ MaxSessions \in Nat
    /\ MaxThreads \in Nat
    /\ MaxTime \in Nat

ASSUME TimeAssumption ==
    /\ Lifetime \in Nat
    /\ GroupTTL \in Nat
    /\ SweepPeriod \in Nat
    /\ SessionTimeout \in Nat
    /\ QuietTime \in Nat

ASSUME PayloadAssumption ==
    /\ Corrupt \notin Payloads
    /\ Empty \notin Payloads

-------------------------------------------------------------------------------
Total    == K + M
Shards   == 0 .. Total - 1
Frags    == 0 .. FragCount - 1
Seqs     == 0 .. SeqSpace - 1
Sessions == 1 .. MaxSessions
Keys     == Sessions \X Seqs

Parts    == [Shards -> [Frags -> Payloads \union {Empty}]]
Group    == [parts : Parts, ts : Nat]
Thread   == [session : Sessions, payload : Payloads, shard : Shards, frag : Frags]

NoParts     == [i \in Shards |-> [f \in Frags |-> Empty]]
NewGroup(t) == [parts |-> NoParts, ts |-> t]

VARIABLES
    now,        \* time.monotonic
    sent,       \* payloads the client has sent
    seq,        \* the client's _seq
    seqOf,      \* the sequence number each payload went out with
    sentAt,     \* when
    sessions,   \* Session objects created so far; the newest is the last one
    current,    \* the Session in the server's table, 0 if there is none
    lastSeen,   \* Session.last_seen
    threads,    \* datagrams between session lookup and group update
    groups,     \* keys <<session, seq>> of the shard groups that exist
    group,      \* their shards and creation times
    delivered,  \* the keys of those whose delivered flag is set
    out         \* out[s][v]: how often Session s passed v to _on_payload

clientVars  == <<sent, seq, seqOf, sentAt>>
sessionVars == <<sessions, current>>
groupVars   == <<groups, group, delivered>>
vars == <<now, clientVars, sessionVars, lastSeen, threads, groupVars, out>>

TypeOK ==
    /\ now \in Nat
    /\ sent \subseteq Payloads
    /\ seq \in Seqs
    /\ seqOf \in [Payloads -> Seqs]
    /\ sentAt \in [Payloads -> Nat]
    /\ sessions \in 0 .. MaxSessions
    /\ current \in {0, sessions}
    /\ lastSeen \in [Sessions -> Nat]
    /\ threads \subseteq Thread
    /\ groups \subseteq Keys
    /\ group \in [Keys -> Group]
    /\ delivered \subseteq groups
    /\ out \in [Sessions -> [Payloads \union {Corrupt} -> Nat]]

Init ==
    /\ now = 0
    /\ sent = {}
    /\ seq = 0
    /\ seqOf = [p \in Payloads |-> 0]
    /\ sentAt = [p \in Payloads |-> 0]
    /\ sessions = 0
    /\ current = 0
    /\ lastSeen = [s \in Sessions |-> 0]
    /\ threads = {}
    /\ groups = {}
    /\ group = [key \in Keys |-> NewGroup(0)]
    /\ delivered = {}
    /\ out = [s \in Sessions |-> [v \in Payloads \union {Corrupt} |-> 0]]

-------------------------------------------------------------------------------
(* The client, as far as the server can tell.                              *)

\* A datagram of p can still be on its way, or in a handler thread.
InFlight(p) == p \in sent /\ now <= sentAt[p] + Lifetime

\* A sequence number is used again only after every payload that carried it
\* has rested for QuietTime. The code has no such rule: QuietTime = 0 is the
\* code as it stands, a larger value is what an operator would have to grant.
Rested(n) == \A p \in sent : seqOf[p] = n => now > sentAt[p] + QuietTime

\* Slip: the counter is not masked to the header's 32 bits.
NextSeqUnmasked(n) == n + 1

NextSeq(n) == (n + 1) % SeqSpace

\* send: takes the next sequence number and bursts every shard.
ClientSend(p) ==
    LET n == NextSeq(seq) IN
    /\ p \notin sent
    /\ QuietTime > 0 => Rested(n)
    /\ sent' = sent \union {p}
    /\ seq' = n
    /\ seqOf' = [seqOf EXCEPT ![p] = n]
    /\ sentAt' = [sentAt EXCEPT ![p] = now]
    /\ UNCHANGED <<now, sessionVars, lastSeen, threads, groupVars, out>>

\* A new client process counts from 0 again. Its resume_token puts it into the
\* session of the probe that carried the token, and every further resume back
\* into that same session; the model starts with the first such client.
ClientResume ==
    /\ seq # 0
    /\ seq' = 0
    /\ UNCHANGED <<now, sent, seqOf, sentAt, sessionVars, lastSeen, threads,
                   groupVars, out>>

-------------------------------------------------------------------------------
(* FEC reconstruction.                                                     *)

\* Slip: a whole extra row of padding when K divides the length.
ShardLenOverpadded == PayloadLen \div K + 1

\* split_and_encode pads the payload to a multiple of K.
ShardLen == (PayloadLen + K - 1) \div K

\* Slip: a shard counts as soon as one of its fragments is in.
PresentInPart(parts) == {i \in Shards : \E f \in Frags : parts[i][f] # Empty}

\* The shards all of whose fragments have arrived.
Present(parts) == {i \in Shards : \A f \in Frags : parts[i][f] # Empty}

\* Slip: more than k shards are asked for.
FitsLate(k, received) == k \in 1 .. received - 1 /\ k * ShardLen >= PayloadLen

\* reconstruct_data cuts k shards to orig_len bytes; the caller keeps the
\* result if it has that many.
Fits(k, received) == k \in 1 .. received /\ k * ShardLen >= PayloadLen

\* The candidates that come before the count down from grp.received.
Preferred == <<ServerK, Total - ServerM, IF Total > 1 THEN Total \div 2 ELSE 1>>

\* The data-shard count the server settles on: the first preferred one that
\* fits, else the largest that does.
ChosenK(received) ==
    LET fit == {i \in 1 .. 3 : Fits(Preferred[i], received)} IN
    IF fit # {}
    THEN Preferred[CHOOSE i \in fit : \A j \in fit : i <= j]
    ELSE received

Reconstructs(received) == \E k \in 1 .. received : Fits(k, received)

\* The k rows _reconstruct works with: the data shards if they are all there,
\* else the k present shards of smallest index.
Rows(present, k) ==
    IF 0 .. k - 1 \subseteq present
    THEN 0 .. k - 1
    ELSE {i \in present : Cardinality({j \in present : j < i}) < k}

\* Row r of the matrix holds 1/(r XOR j) for a parity shard, whatever k is, and
\* is a unit row for a data shard. Decoding with k instead of K therefore
\* misreads exactly the rows that only one of the two takes for data shards.
RowsAgree(rows, k) ==
    \/ rows = 0 .. k - 1
    \/ rows \intersect ((K .. k - 1) \union (k .. K - 1)) = {}

\* The bytes reconstruct_data returns for k data shards, named by the payload
\* they are equal to. (Bytes are in general position: a wrong row gives wrong
\* bytes.)
DecodedAs(parts, k) ==
    LET rows    == Rows(Present(parts), k)
        sources == {parts[i][f] : i \in rows, f \in Frags}
    IN  IF RowsAgree(rows, k) /\ \E p \in Payloads : sources = {p}
        THEN CHOOSE p \in Payloads : sources = {p}
        ELSE Corrupt

Decoded(parts) == DecodedAs(parts, ChosenK(Cardinality(Present(parts))))

-------------------------------------------------------------------------------
(* A handler thread.                                                       *)

\* _handle_udp up to the Session: _get_session, which makes a Session when the
\* table has none.
Receive(p, i, f) ==
    /\ InFlight(p)
    /\ Cardinality(threads) < MaxThreads
    /\ \/ /\ current # 0
          /\ UNCHANGED <<sessionVars, lastSeen>>
       \/ /\ current = 0
          /\ sessions < MaxSessions
          /\ sessions' = sessions + 1
          /\ current' = sessions + 1
          /\ lastSeen' = [lastSeen EXCEPT ![sessions + 1] = now]
    /\ threads' = threads \union
           {[session |-> current', payload |-> p, shard |-> i, frag |-> f]}
    /\ UNCHANGED <<now, clientVars, groupVars, out>>

\* Slip: one group per session.
KeyOfSession(t) == <<t.session, 0>>

KeyOf(t) == <<t.session, seqOf[t.payload]>>

\* Slip: a group's clock starts at zero, not at its first shard.
FoundUnstamped(key) == IF key \in groups THEN group[key] ELSE NewGroup(0)

\* sess.groups.get(seq), or the group made in its absence.
Found(key) == IF key \in groups THEN group[key] ELSE NewGroup(now)

\* The two early returns: the group is delivered, or the slot is taken.
Duplicate(t) ==
    \/ KeyOf(t) \in delivered
    \/ Found(KeyOf(t)).parts[t.shard][t.frag] # Empty

Stored(t) ==
    [Found(KeyOf(t)).parts EXCEPT ![t.shard][t.frag] = t.payload]

\* Slip: the fragment with the last index is taken for the last to arrive.
CompletesInOrder(t) ==
    LET present == Present(Stored(t)) IN
    /\ t.frag = FragCount - 1
    /\ t.shard \in present
    /\ Reconstructs(Cardinality(present))

\* Reconstruction is tried when a fragment completes its shard.
Completes(t) ==
    LET present == Present(Stored(t)) IN
    t.shard \in present /\ Reconstructs(Cardinality(present))

\* What every path through the locked part of _handle_data does.
Finish(t) ==
    /\ threads' = threads \ {t}
    /\ lastSeen' = [lastSeen EXCEPT ![t.session] = now]
    /\ UNCHANGED <<now, clientVars, sessionVars>>

Keep(t) ==
    /\ groups' = groups \union {KeyOf(t)}
    /\ group' = [group EXCEPT ![KeyOf(t)] =
                    [parts |-> Stored(t), ts |-> Found(KeyOf(t)).ts]]

Discard(t) ==
    /\ Duplicate(t)
    /\ Finish(t)
    /\ UNCHANGED <<groupVars, out>>

Store(t) ==
    /\ ~Duplicate(t)
    /\ ~Completes(t)
    /\ Finish(t)
    /\ Keep(t)
    /\ UNCHANGED <<delivered, out>>

\* Slip: the delivered flag is never set.
DeliverUnmarked(t) ==
    /\ ~Duplicate(t)
    /\ Completes(t)
    /\ Finish(t)
    /\ Keep(t)
    /\ out' = [out EXCEPT ![t.session][Decoded(Stored(t))] = @ + 1]
    /\ UNCHANGED delivered

Deliver(t) ==
    /\ ~Duplicate(t)
    /\ Completes(t)
    /\ Finish(t)
    /\ Keep(t)
    /\ delivered' = delivered \union {KeyOf(t)}
    /\ out' = [out EXCEPT ![t.session][Decoded(Stored(t))] = @ + 1]

-------------------------------------------------------------------------------
(* _cleanup_loop, and time.                                                *)

ExpireSession ==
    /\ current # 0
    /\ now - lastSeen[current] > SessionTimeout
    /\ current' = 0
    /\ UNCHANGED <<now, clientVars, sessions, lastSeen, threads, groupVars, out>>

\* Slip: a delivered group is freed by the next sweep.
StaleDelivered(key) ==
    key[1] = current /\ (key \in delivered \/ now - group[key].ts > GroupTTL)

\* Only Sessions still in the table are swept.
Stale(key) == key[1] = current /\ now - group[key].ts > GroupTTL

SweepGroups ==
    LET old == {key \in groups : Stale(key)} IN
    /\ old # {}
    /\ groups' = groups \ old
    /\ group' = [key \in Keys |-> IF key \in old THEN NewGroup(0) ELSE group[key]]
    /\ delivered' = delivered \ old
    /\ UNCHANGED <<now, clientVars, sessionVars, lastSeen, threads, out>>

\* The clock waits for a handler whose datagram is about to outlive Lifetime,
\* and for a sweep that is due: threads are not stalled for seconds, and the
\* loop comes round every SweepPeriod.
Tick ==
    /\ now < MaxTime
    /\ \A t \in threads : now < sentAt[t.payload] + Lifetime
    /\ \A key \in groups :
           key[1] = current => now < group[key].ts + GroupTTL + SweepPeriod
    /\ now' = now + 1
    /\ UNCHANGED <<clientVars, sessionVars, lastSeen, threads, groupVars, out>>

Next ==
    \/ \E p \in Payloads : ClientSend(p)
    \/ ClientResume
    \/ \E p \in Payloads, i \in Shards, f \in Frags : Receive(p, i, f)
    \/ \E t \in threads : Discard(t)
    \/ \E t \in threads : Store(t)
    \/ \E t \in threads : Deliver(t)
    \/ ExpireSession
    \/ SweepGroups
    \/ Tick

Spec == Init /\ [][Next]_vars

-------------------------------------------------------------------------------
(* Properties.                                                             *)

\* What a Session passes to _on_payload is a payload the client sent, byte for
\* byte: no decode under the wrong profile and no mixture of two payloads.
NoCorruptDelivery == \A s \in Sessions : out[s][Corrupt] = 0

\* However many copies of its datagrams arrive, and however late within their
\* lifetime, a Session passes a payload on at most once: sweeping a delivered
\* group never reopens it to its own stragglers.
AtMostOncePerSession == \A s \in Sessions, p \in Payloads : out[s][p] <= 1

\* A shard that _handle_data throws away as "duplicate after delivery" belongs
\* to a payload that really was delivered; it is never the shard of a new
\* payload that meets an old group under the same sequence number.
NoFalseDuplicate ==
    \A t \in threads :
        KeyOf(t) \in delivered => out[t.session][t.payload] >= 1

\* A group that holds enough shards has been delivered: reconstruction is never
\* put off, and no group keeps K shards waiting for one more.
NoStuckGroup ==
    \A key \in groups :
        Cardinality(Present(group[key].parts)) >= K => key \in delivered

\* Each Session object is a channel of the abstract service.
Service == INSTANCE Delivery WITH Channels <- Sessions
Implements == Service!Spec
-------------------------------------------------------------------------------
(* Why the properties hold.                                                *)

\* The payload and the profile leave no room for a decode with fewer than K
\* shards: the payload does not fit into K - 1 of them.
SafeLength == (K - 1) * ShardLen < PayloadLen

\* A datagram dies before the group it belongs to can be retired, and a
\* sequence number rests until nothing of its last use is left.
WellTimed ==
    /\ Lifetime <= GroupTTL
    /\ QuietTime > 0
    /\ QuietTime >= Lifetime + GroupTTL + SweepPeriod

\* The payload whose shards a group collects.
Owns(p, key) ==
    LET g == group[key] IN
    /\ p \in sent
    /\ seqOf[p] = key[2]
    /\ g.ts \in sentAt[p] .. now
    /\ g.ts <= sentAt[p] + Lifetime
    /\ \A i \in Shards, f \in Frags : g.parts[i][f] \in {p, Empty}
    /\ key \in delivered => out[key[1]][p] >= 1

Owned ==
    \A key \in groups : key[1] <= sessions /\ \E p \in Payloads : Owns(p, key)

\* Two uses of one sequence number are far apart.
Separated ==
    \A p, q \in sent :
        p # q /\ seqOf[p] = seqOf[q] =>
            \/ sentAt[p] > sentAt[q] + QuietTime
            \/ sentAt[q] > sentAt[p] + QuietTime

\* The groups a thread can meet are younger than a sweep from the time its
\* datagram was sent; in the table, from now.
Young ==
    /\ \A key \in groups :
           key[1] = current => now <= group[key].ts + GroupTTL + SweepPeriod
    /\ \A t \in threads, key \in groups :
           key[1] = t.session =>
               sentAt[t.payload] <= group[key].ts + GroupTTL + SweepPeriod

Timely ==
    /\ \A p \in sent : sentAt[p] <= now
    /\ \A t \in threads : InFlight(t.payload) /\ t.session <= sessions

\* While a delivered payload can still send stragglers, its group is there to
\* turn them away.
Remembered ==
    \A s \in Sessions, p \in Payloads :
        out[s][p] >= 1 /\ InFlight(p) =>
            /\ <<s, seqOf[p]>> \in delivered
            /\ sentAt[p] <= group[<<s, seqOf[p]>>].ts

\* Only payloads that were sent come out.
Sourced == \A s \in Sessions, p \in Payloads : out[s][p] >= 1 => p \in sent

\* The inductive invariant from which the properties above follow.
IInv ==
    /\ TypeOK
    /\ Timely
    /\ Separated
    /\ Owned
    /\ Young
    /\ Remembered
    /\ Sourced
    /\ NoStuckGroup
    /\ NoCorruptDelivery
    /\ AtMostOncePerSession
===============================================================================
