# A TLA+ verification of HopShot

HopShot moves packets between a client and a server over UDP (and QUIC in
parallel) through networks that throttle and drop. A payload is cut into
`fec_k` data and `fec_m` parity shards, every shard is sent several times to
several ports and addresses, and the receiver rebuilds the payload from any
`fec_k` of them. This directory models that system in TLA+, checks the models
with TLC and proves theorems about them with TLAPS.

Files: `*.tla` modules and `*.cfg` models; `PROJECT.json` lists components,
runs, slips each property must catch, the source lines of every definition,
findings, hazards and theorems.

    tlc -config MCServerReassembly.cfg MCServerReassembly.tla
    tlapm ServerReassembly_proofs.tla
    tlc -config MCServerSessions.cfg ServerSessions.tla
    tlapm ServerSessions_proofs.tla
    tlc -config MCTunnelReturn.cfg TunnelReturn.tla
    tlapm TunnelReturn_proofs.tla
    tlc -config MCProxyStreams.cfg ProxyStreams.tla
    tlapm ProxyStreams_proofs.tla
    tlc -config MCClientControl.cfg ClientControl.tla
    tlapm ClientControl_proofs.tla
    tlc -config MCRateControl.cfg RateControl.tla
    tlapm RateControl_proofs.tla

## The system

| Part | State | Operations | Talks to |
|---|---|---|---|
| Client send path (`client.py` `send`, `_burst_send`) | `_seq`, mode, hop interval, burst factor | number, split, pad, pace, burst | server over UDP and QUIC |
| FEC codec (`fec.py`) | matrix caches | `split_and_encode`, `reconstruct_data` | both ends |
| Server receive path (`server.py` `_handle_udp`, `_handle_data`) | `sessions`, per session `groups` of shards | one thread per datagram: look up, store, rebuild, `_on_payload` | cleanup loop, tunnel device |
| Cleanup loop (`_cleanup_loop`) | | drops idle sessions and groups older than 10 s, every 10 s | the two tables above |
| Session handling (`_handle_probe`, `_handle_keepalive`, `_handle_resume`) | `last_seen`, `addr`, `reply_addr`, `_tunnel_session_id` | create, refresh, pin | receive path, return path |
| Tokens (`session_resume.py`) | issued tokens | issue, verify, revoke | probe and resume |
| Return path (`_send_tunnel_payload`, `_tunnel_tx_loop`, `DataReassembler`) | `_tun_seq`, the client's own shard groups | encode, fan out, reassemble, purge after 30 s | tunnel devices |
| TCP proxy (`client.py` 798-1050, `server.py` 412-496) | streams on the client, relays on the server | OPEN, ACK, DATA, CLOSE, ERROR | local sockets, targets |
| Selective ARQ (`fec.SelectiveARQ`) | window of groups | `on_send`, `on_ack`, `pending_retransmits`, `_evict` | client `send` |
| Congestion control (`brutal.py`) | rate, ceiling, receive window | `on_feedback`, `pace`, `feedback` | both ends |
| QUIC (`quic_transport.py`, client fallback race) | connection, pool of attempts | connect, race, recover | client, server |
| Bootstrap and mode control | mode, MTU, primary address | resume or probe, scan, monitor every 30 s | everything on the client |
| Header, jitter, obfuscation, port schedule (`common.py`) | | pure functions | both ends |
| Resolver, MTU probing, HTTP/3 masquerading, TUN/TAP, deployment, terminal | caches | I/O | |

What is hard about it, and what makes each part correct:

* **Receive path.** Every datagram has its own thread. A thread finds its
  session under one lock and works on it under another; the cleanup loop runs
  in between. Copies of a shard arrive before and after the delivery of its
  payload, before and after the sweep of its group, and sequence numbers are
  used again after a resume and after 2^32 sends. The decoder has to guess how
  many of the shards are data shards. Correct means: what comes out was sent,
  byte for byte; it comes out once; nothing new is mistaken for a duplicate; and
  a group with enough shards is not left lying.
* **Return path.** The same with another group lifetime, a receiver that outlives
  restarts of the sender, and a session chosen once for all return traffic.
* **Proxy.** A TCP byte stream over datagrams that are duplicated, reordered and
  unnumbered, with a relay table that duplicated OPENs overwrite and 255 stream
  ids that are used over and over. Correct means no byte twice, none of another
  stream, no relay left open. The code keeps none of these three without
  exception; the runs show the exceptions and what holds apart from them.
* **Congestion control.** A loss estimate from a window that two threads empty, on
  numbers that are reordered, copied, wrap and start again; a rate that has to
  follow reports and a ceiling that both change under it.
* **QUIC fallback.** Attempts race a deadline: exactly one connection may
  survive, and it has to be the one in use.
* **Bootstrap.** It has to end with no server, and must not keep a dead connection.

`PROJECT.json` "hazards" lists these at their lines, with the properties that
cover them or the reason why none does.

## How the modules divide the system

| Module | Parts |
|---|---|
| `Delivery` | what a receiver of coded packets promises; abstract |
| `ServerReassembly` | client `send`, network, server receive path, cleanup loop. Implements `Delivery` |
| `ServerSessions` | the server's session table, its handlers, return addresses, the tunnel backend |
| `TunnelReturn` | the server's return path and the client's `DataReassembler`. Implements `Delivery` outside a window after a restart |
| `ProxyStreams` | the TCP proxy: client streams, frames, server relays |
| `ClientControl` | client start, QUIC connections, race, monitor, stop, token buckets |
| `RateControl` | `BrutalSender`, `BrutalReceiver`, the reports between them, ceilings |

They meet at the datagrams: each module has its own network, and what another
module's part can send or do is an action of the environment there. Every
module with state has a proof module beside it (`X_proofs` for `X`). Each states
an inductive invariant, a lemma per action that keeps it, and the properties that
follow: every invariant, the action property and both refinements that the runs
check are theorems, for all values of the constants that meet the module's named
assumptions. Bounds on objects and restarts (`MaxRelays`, `MaxConns`,
`MaxRestarts` and their like) are arbitrary natural numbers there.

Liveness is model-checked only: `ReturnPathSettles`, `StreamsEnd`, `RelaysDrain`,
`StartEnds`, `Reconnects`, `RampsUp`, `BacksOff`. It rests on fairness and
ENABLED, which the prover does not treat.

## Delivery

What a receiver promises: a channel hands on a payload at most once, unaltered,
and only if it was sent. It may never hand it on. `Corrupt` stands for all byte
strings nobody sent; no step of `Delivery` hands it on.

## ServerReassembly

### State and actions

| Module | Code |
|---|---|
| `seq`, `seqOf`, `sentAt`, `sent`; `ClientSend` | `HopShotClient._seq`, `send` |
| `ClientResume` | a new client process: `_seq = 0`, session id from the token (`_try_resume`) |
| `sessions`, `current`, `lastSeen` | `HopShotServer.sessions`, `Session.last_seen` |
| `groups`, `group`, `delivered` | `Session.groups`, `ShardGroup.shards`/`fragments`/`ts`, `ShardGroup.delivered` |
| `threads`; `Receive` | the thread `_handle_udp` runs in, up to the return of `_get_session` |
| `Discard`, `Store`, `Deliver` | the rest of `_handle_data`: early returns, a shard kept, a payload rebuilt |
| `ChosenK`, `Rows`, `RowsAgree`, `Decoded` | `_reconstruct_group_adaptive`, `fec._reconstruct` |
| `ExpireSession`, `SweepGroups` | the two halves of `_cleanup_loop` |
| `out` | calls of `_on_payload` |

A Session that the cleanup loop drops is still held by the threads that found
it, with its groups: the module numbers Session objects and keeps the number in
the thread. `current` is the one in the table.

`send` never retransmits, but bursts and QUIC make copies; in the model any
datagram of a sent payload can be received any number of times, in any order,
or never, while it is in flight. So loss, duplication and reordering have no
actions of their own.

Decoding with k data shards instead of the sender's K is right exactly when no
row in use is a data row for one of the two and a parity row for the other: the
parity row r holds 1/(r XOR j) whatever k is. `RowsAgree` says that, and bytes are
in general position: a wrong row gives wrong bytes. That was compared with the
real codec: with k = 4, m = 4 and five bytes, 630 of the 1680 orders in which
the first four shards can arrive give wrong bytes.

`lastSeen` is written when the thread finishes; the code writes it between the
lookup and the session lock. The window in which the cleanup loop can drop the
session is the one before that write, and it is the window a thread in the model
waits in.

Left out: other packet types, several session ids (sessions share only the table
lock), the fast path of obfuscation and jitter, `BrutalReceiver`, what
`_on_payload` does with the bytes, and inputs no client produces (a fragment
count that changes, a shard under four bytes).

### Assumptions

`Lifetime` is how long after its send a datagram can still take effect. It
includes the time in the handler thread. The clock (`Tick`) waits for a handler
whose datagram is about to outlive it and for a sweep that is due, so a sweep
comes every `SweepPeriod`. The theorems need:

* `SafeLength`: the payload does not fit into K - 1 of its shards. The code does
  not check it; `short_payload` shows what happens without.
* `WellTimed`: `Lifetime <= GroupTTL` (10 s in the code: a datagram delayed longer
  than that is delivered again), and a sequence number rests for
  `Lifetime + GroupTTL + SweepPeriod` before its next use. The counter takes
  2^32 sends to come round, so one client meets this; a client that resumes does
  not, unless it waits. The bound is tight: with `QuietTime` 2 instead of 3 TLC
  finds a counterexample in the `reassembly` model.

### Runs

| Run | Model | Shows |
|---|---|---|
| `reassembly` | K = 2, M = 1, two payloads, sequence numbers 0 and 1, two Sessions, two threads, clock to 6, group lifetime and sweep period 1, session timeout 3 | all safety properties, the inductive invariant and `Implements` hold (165 thousand states) |
| `fragments` | two datagrams per shard, one thread, clock to 3 | no shard counts before it is whole; a whole shard counts (1.9 million states) |
| `short_payload` | a payload of one byte in two shards | **violated**: bytes nobody sent are delivered |
| `resume` | no rest for sequence numbers | **violated**: a new payload is discarded as a duplicate |

The bounds are the smallest in which everything can happen: three shards of which
two suffice, so a shard can come after the delivery; two payloads that share a
number (0 and 1 wrap and a resume goes back to 0); a Session that expires while a
thread holds it and a second one; a clock long enough for send, delivery, sweep,
rest and reuse (3 + 1 + 1 ticks) and for expiry (4). The server's own profile
(`ServerK` = 2, `ServerM` = 2) differs from the client's, so all three preferred
counts are tried. Payloads are symmetric: nothing compares or orders them.

The runs end at the clock's bound, so deadlock is not checked; the server itself
never waits for anything but a lock it holds for one step. There is no liveness
property: UDP may lose everything, and what must not be left waiting, a group
with enough shards, is the invariant `NoStuckGroup`.

### Findings

* **A short payload can come out wrong** (`server.py:297`). With fec 4+4, payloads of
  1, 2, 3, 5, 6 and 9 bytes fit into three shards, and the decoder accepts three.
* **A resumed client's data is discarded** (`client.py:1291`, `server.py:891`). The
  resumed client counts from 1 in a session where these numbers were just used.

At most once is a promise of one Session object here, and no more holds: handlers
that looked an idle session up just before the cleanup loop dropped it
(`server.py:871`, `server.py:1083`) deliver in the orphan, and later copies of the
same payload can be delivered again in its successor.

### Proofs

`ServerReassembly_proofs` proves, for all values of the constants that meet the
module's assumptions:

| Theorem | Premises |
|---|---|
| `TypeCorrect`: `Spec => []TypeOK` | none |
| `Inductive`: `Spec => []IInv` | `WellTimed`, `SafeLength` |
| `NothingCorrupt`, `AtMostOnce`, `NothingStuck`, `DuplicatesAreTrue` | the same |
| `ServerImplements`: `Spec => Implements` | the same |

The properties are not inductive. `AtMostOncePerSession` needs to know that a
delivered group is still there while stragglers of its payload are in flight
(`Remembered`); `NoCorruptDelivery` needs a group's shards to be of one payload
(`Owned`), and that one to be the payload of the thread at hand. That is the heart
of the argument (lemma `SameOwner`): two payloads with one number were sent more
than `QuietTime` apart (`Separated`); if the thread's payload is the earlier one it
is no longer in flight (`Timely`), and if it is the later one the group would be
older than a group can be when that payload was sent (`Young`, and the group was
opened within a `Lifetime` of its payload's send, `Owns`). From `SameOwner` follows
that a group never holds more than K - 1 shards before its delivery
(`FoundGroup`), that the delivery happens with exactly K (`NothingEarly`,
`DeliversPayload`), and that K shards decode to their payload whatever the
server's own profile is (`ChoosesK`, `DecodesRight`).

Only model-checked: nothing of this module; only argued: that `RowsAgree` describes
the matrices (compared with the code as said above).

## ServerSessions

### State and actions

| Module | Code |
|---|---|
| `sessions`; `Lookup`, `Touch`, `Expire` | `HopShotServer.sessions` with `Session.addr`, `reply_addr`, `last_seen`; `_get_session`, the four handlers, `_cleanup_loop` |
| `pin`; `PinOnLookup`, `Assign` | `_tunnel_session_id`, set by `_get_session` in tunnel mode and by `_ensure_adaptive_tunnel_backend` without it |
| `tunnelUp`, `socks`, `txLoops`; `Rebuild`, `Bind`, `Assign` | the backend `_on_payload` opens on demand, the sockets bound for it, `_tunnel_tx_loop` threads |
| `Selected`, `Reached` | the sessions `_tunnel_tx_loop` sends a packet to, and `_send_tunnel_payload`'s target address |
| `started`, `silent`, `moves`; `ReceiveClient`, `ReceiveResume`, `Move` | a client in tunnel mode: its loops, its two sockets, a NAT that rebinds it, a restart |
| `probing`; `ReceiveProbe`, `ProbeDone` | `probe_port`: its own socket, its own random session id |

A handler is a lookup and a later write. `live` says whether the Session it
found is still in the table; the cleanup loop can drop it in between, and the
write is then lost. `_handle_udp` looks the session up three times (style, size
hint, handler); the lookups write the same address and are one here.

`Rebuild` takes `sess.lock`, which is held to the end of `_on_payload`; two
sessions, or a Session and its orphan, have different locks, so several handlers
can be on their way to `Bind`. The second bind fails, and the code gives that
payload up (it is printed): that is in the model and no property forbids it.

`_tunnel_tx_loop` has no action: it changes nothing modelled here, so what it
would do is a predicate of the state. It copies the list of sessions before it
sends; a session dropped in between is sent one packet more.

Left out: QUIC, whose sessions have no address and get no return packets;
`rand_src`; random ids that collide (a later probe may draw a pinned id);
`adaptive_tunnel_on_demand` set to false; shutdown.

### Time and fairness

Time only ages sessions. A tick is longer than a handler takes (`Tick` waits for
them) and a running client is heard from within `Silence` ticks: the keepalive
interval is 5 to 20 s in the client's profiles (0 turns it off) and the timeout at
least 60 s, so several keepalives may be lost in a row. `KeepaliveAssumption` is
that; without it sessions of running clients expire.

`Fairness` says that time passes (`[]<><<Tick>>_vars`), that the cleanup loop
runs, that probes end, and that of the DATA a client goes on sending some is
handled and some completes a payload. The last ones are strong fairness: the
server may be busy, and UDP may lose, over and over. Without them nothing can be
promised over UDP.

### Runs

| Run | Model | Shows |
|---|---|---|
| `return_path` | one client that moves or restarts twice, one probe, two handlers, silence 1 tick, timeout 2, tunnel mode on and off | the invariants and `ReturnPathSettles` hold (120 thousand states) |
| `tunnel_pin` | the same | **violated** in three steps: a probe, then DATA, and the client gets nothing back |

Two handlers are what every race here takes; two moves let a handler of the
first address outlive the second; the timeout is longer than the silence by one
tick, so a session can expire only when its client restarts. One client is
enough for the backend race, because an orphaned Session and the one that
replaced it have different locks. The system never stops; deadlock is checked.

### Finding

* **Return traffic goes to a closed socket first** (`server.py:1063`). In tunnel
  mode the first session, usually a start-up probe's, is the tunnel's. It has to
  expire before the server falls back to all sessions; `ReturnPathSettles` shows
  that it does.

### Proofs

`ServerSessions_proofs` proves `TypeCorrect`, `SingleBackend` and
`ReturnPathKept` for any number of clients, probes, handlers and moves, from the
module's assumptions. The invariant has three parts beyond types:
`BackendStages` (no socket, one socket in the hands of one handler, or the
backend), `ThreadsTrue` (what a handler carries fits the present state) and
`KnownFresh`: the idle time of a known client's session never exceeds the time
the client has been silent, except while the handler of its last datagram is on
its way. As a tick waits for handlers, the exception is over before idle time
grows, and idle time stays within `Silence`. `ReturnPathSettles` is liveness and
only model-checked.

## TunnelReturn

### State and actions

| Module | Code |
|---|---|
| `tunSeq`; `SendTunnelPayload`, `Restart` | `_tun_seq`, `_send_tunnel_payload` with `encode_datagrams`; the operator |
| `packet` | how a packet was cut, and how long ago: what is under way |
| `groups`; `Opened`, `Stale` | `DataReassembler._groups`, `_cleanup_stale_groups` and the group `push` finds or makes |
| `PushDropped`, `PushFragment`, `PushShard` | `push`: its early returns, a shard in part, a shard that is whole |
| `Decodings` | `reconstruct_data`: what it gives, or that it raises, when the shards are of two packets |
| `Write`, `out` | the write in `_tunnel_rx_loop` |

`_send_tunnel_payload` sends each datagram to every selected session and the
network copies it: any datagram of a sent packet arrives any number of times, in
any order or never, for `Flight` ticks. `Flight <= TTL` is the assumption that no
copy is later than the 30 s a group is kept; a later one is delivered again.

A restarted server counts from 1 again while the client still has the old
groups: the client then drops new packets as copies, or decodes shards of two
packets together. That is in the model. Both last no longer than `Window`, the
group's lifetime and a datagram's flight, and the properties say so: `Calm` is
the time outside it. `out` leaves the window out, so `Implements` is `Delivery`
with an exception of known length.

### Run

`tunnel_return`: two packets of one stream id, K = 2, M = 1, two fragments a shard,
lifetime 2, flight 1, one restart (893 thousand states). One restart and two packets
is what a collision takes; three shards of which two suffice let a shard come
after delivery; two fragments let a shard be made of two packets. Ages stop
counting one above their bound. The server need not send: deadlock is not checked.

Left out: different profiles at the two ends; a wall clock that jumps (the code
takes ages from `time.time()`); the bytes of a packet.

### Proofs

`TunnelReturn_proofs` proves `Inductive`, `TypeCorrect`, `GroupsHeal`
(`RestartHeals`), `NothingStuck` (`NoStuckGroup`) and `ReturnImplements`
(`Implements`) from the module's assumptions, for any profile, number of
fragments, packets, streams and restarts, and any `TTL >= Flight`.

None of the properties is inductive: each speaks of the time outside the Window
and depends on what happened in it. The invariant describes both. A packet is
`Past` if its number is, in the server's present run, another packet's or nobody's
yet. Then it was sent before the last restart (`PastIsOld`), so it is over or at
least as old as that. A group is `Mixable` if it was opened no later than `Flight`
after the restart, or is stale. `GroupTrue` says of every group that its contents
were sent under its key, that only a `Mixable` group holds a `Past` packet or a
garbled shard (`MixesOnlyPast`), that it is no older than a packet of it that can
still arrive (`NotOlder`), and that K whole shards were decoded unless it is
`Mixable` (`DecodedOrMixed`). `HandedOnce` says that a packet the device was given
is remembered by a group for as long as a copy of it can come (`Remembered`);
`Flight <= TTL` is used there.

The heart is lemma `Unmixed`: a group that is not `Mixable` holds nothing but the
packet that arrives. From it follows that a shard completed then is that packet's
(`WholeShard`) and that a decode gives that packet, once (`PushShardInv`). A
`Mixable` group is out of use when the Window ends, hence `RestartHeals`. The
step of `Implements` is a write outside the Window, by the same lemma, or a
stutter.

## ProxyStreams

### State and actions

| Module | Code |
|---|---|
| `nextId`, `holder`; `Alloc`, `Register`, `Released` | `_proxy_next_stream_id`, `_proxy_sessions`; `_alloc_proxy_stream_id`, `_register_proxy_stream`, `_release_proxy_stream` |
| `stream`; `Opened`, `OpenTimeout`, `ReadLocal`, `SendChunk`, `LocalEnds`, `CloseStream`, `Writer` | `ProxyStreamState`, `_handle_proxy_client`, `_proxy_client_writer` |
| `Listen` | `_feedback_listener`, `_handle_proxy_response` |
| `table`, `relays`; `ReceiveOpen`, `Connected`, `Refused` | `_proxy_relays`, `_handle_proxy_open` |
| `writers`; `ReceiveData`, `WriteTarget` | a `_handle_proxy_data` thread between lookup and `sendall` |
| `CheckTable`, `ReadTarget`, `EndReader`, `ReceiveClose` | `_proxy_reader_loop`, `_handle_proxy_close` |
| `net` | frames sent: a copy arrives any number of times, or never |
| `of` (in frames and relays), `left` | none: history that only the properties read |

Each frame has a thread of its own on the server: two OPENs overwrite each other's
relay, DATA overtakes the connect, the reader of an overwritten relay closes, by
key, the one that replaced it. All of that happens in the model. A handler that has
read from its application sends every piece of it, closed or not (`SendChunk`); a
DATA handler's `sendall` may fail on an open socket (`WriteTarget`).

`Alloc` gives an id out when the client's own table does not have it: the code
looks at nothing else. What remains of the id's former stream then is a question of
time, because 254 other streams have had their ids in between. `Rested` and `Fresh`
say what the model takes to be gone: threads and frames whose lives a timeout
bounds, that is connects under way, DATA handlers in `sendall`, client handlers in
the middle of a send, and frames on the network. A relay that is connected is bounded
by nothing: its reader waits for its target second by second for ever. It may be
there still (`Leftovers`), in the table or not, and so may the REPLYs it has just
read. `left` records them for the new stream.

### Runs

| Run | Model | Shows |
|---|---|---|
| `proxy` | two connections in turn, one id, two relays, one chunk, one reply at a time | `OnlyLeftoversCross`, `EstablishedIsConnected`, `StreamsEnd`, `RelaysDrain` (320 thousand states) |
| `proxy_reuse` | as `proxy` | **violated**: the old relay's data reaches the new stream (`NoCrossTalk`) |
| `proxy_copies` | one connection, one relay | **violated**: a target is sent a chunk twice |

One id makes the two streams use it one after the other; two relays let a copied
OPEN overwrite a relay, or the earlier stream's relay stay beside the later one's.
`MayRead` bounds the replies: while a relay that is not over has read `MaxReplies`
pieces, no relay reads. Fairness: threads run, and each wait ends by its timeout
(10 s for the open and for `recv`, 1 s for the queue and the relay, the connect's
own); nothing is assumed of the network or of the peers.

`RelaysDrain` speaks of an id that has left the relay table for good: it is not in
the table, no OPEN of it is to come, which the bound on relays stands for, and none
is being connected. Then the readers of all its relays end, the overwritten ones
too. It is a promise with a condition, because the code keeps no other: a relay that
stays in the table under an id nobody uses any more has no timeout, and its reader
runs until its target ends it. Such a relay is the one that crosses in `proxy_reuse`,
where the CLOSE of its stream came while it was being connected. Deadlock is not
checked: the runs end when both connections have.

### Findings

* **Copies of DATA frames reach the target** (`server.py:487`). The header of
  `server.py` says that copies are dropped; the proxy's handlers drop none, so a
  burst factor above 1, or a network copy, repeats bytes in the target's stream.
* **An id is given out again while its old relay lives** (`client.py:805`). The
  allocator knows the client's table only. The old relay is alive when its stream's
  CLOSE was lost, or when it was handled during the connect: nothing is in the table
  then, the CLOSE is forgotten (`server.py:496`), and the relay is entered after it
  (`server.py:470`). The client gives an open up after 10 s and more, a connect has
  3 s for each address of the target's name, and each copy of an OPEN has a connect
  of its own, so that any of them may end after the CLOSE. The relay then sends its
  target's data to the new stream's application, and the new stream's first DATA
  can go to the old target.

Left out: the HTTP CONNECT and SOCKS5 parsers in front; bytes (a REPLY longer than
the listener's 256 bytes is cut short); ids handed out while another handler has
chosen one and not yet registered it, which takes 255 allocations in between. No
property says that an old handler leaves a later stream of its id alone: its late
CLOSE and its release of the id are in the model, and they do end that stream.

### Proofs

`ProxyStreams_proofs` proves `Inductive`, `TypeCorrect`, `JoinedInLeftoversOnly`
(`OnlyLeftoversCross`) and `EstablishedHasRelay` (`EstablishedIsConnected`), for any
number of streams, ids, relays, chunks and replies.

`OnlyLeftoversCross` speaks of what was written; what makes it true is who may speak
under an id. A stream claims an id if it is entered for it in the table, its handler
is on its way there or sending, an OPEN, DATA or ACK frame of it is on the network,
or a relay for it is being connected. `OneClaimant` says that all claims to an id are
of one stream. Connected relays claim nothing: `SpeakersKnown` says that each
one alive under an id, and the one a REPLY on its way is from, is of the stream that
claims the id or was there before it, in its `left`. Every step but one only passes
a claim on: a frame from its sender, a relay from its OPEN, a reply from its relay.
The one that makes a new claim is `Alloc`. What rules out other claims then is the
assumption on time, `Rested` and `Fresh`, used nowhere else; about relays it
assumes nothing but that none is being connected, and `left` takes in the rest.

The rest connects claims with data: what waits for or was given to an application
or a target is of its own stream or went through a relay in `left` (`PiecesKnown`,
`ChunksKnown`), the table names relays under their own ids, connected and not over
(`TableTrue`), an ACK comes from a relay that was connected (`FramesTrue`), a handler
whose entry is gone has been closed (`OpenHeld`), and an opened stream has a relay or
an error (`OpenedTrue`).

`StreamsEnd` and `RelaysDrain` are liveness and only model-checked.

## ClientControl

### State and actions

| Module | Code |
|---|---|
| `pc`; the actions of `Control` | the thread of `start()`, then of `_monitor_loop` |
| `resumeUsed`, `token`; `TryResume`, `Verify` | `_resume_used`, `_try_resume`, `SessionTokenManager.verify` |
| `answered`, `expired`; `Bootstrap`, `Decide`, `BudgetEnds` | the loop of `start()`: health check, probe, 180 s |
| `primary`; `BestDestinations` | `primary_ip`, `Resolver.best_destination` |
| `quic`, `quicOk`; `Connect`, `ConnectSucceeds`, `ConnectFails`, `Monitor` | `self.quic`, `quic_ok`, `_connect_quic`, `_check_and_recover_quic` |
| `conns`; `Made`, `ReadLoopEnds`, `Closed` | `QUICClient`: `_attempt_connect`, `_read_loop`, `close` |
| `winner`; `StartRace`, `Attempt`, `RaceWon`, `RaceLost` | `_connect_quic_multi_fallback`: `done`, `winner`, `pool` (`pooled`), `attempt` threads |
| `Stop` | `stop()` |

The server sends nothing on a QUIC connection and the socket keeps its connect
timeout, so `_read_loop` ends by itself on a healthy connection; the monitor then
takes it for lost and makes a new one. The old object is closed by nobody but
the garbage collector (`Collect`).

Race threads outlive the race: one may still be trying after the race was lost
and set `winner` when nobody looks any more. Its connection stays open, in the
pool, until the next race or `stop()`. `RaceLeavesOne` allows for that one.

Time: a race is lost at its deadline, and that may come while a host that can be
reached is still connecting or has just connected. As this can happen for ever only
to a host that is always too slow, it counts as a fault. A read loop does not end
between a connection made and its use (8 s against 0.1 s). `StartRace` waits until
the threads of the last race are over: they have two tries of 8 s, the monitor comes
every 60 s. This last one is a bound and not the code's: nothing in the code waits.

### Run

`client_control`: two hosts, of which any may be down at first, and one fault: a host
goes down, comes up or answers too late. Four connection objects, one try per
connection, a token window of 2 ticks (408 thousand states). Two hosts make a race;
four objects are the one in use, the one that failed and two racers; with more tries
the attempts only last longer. Tokens of every age up to two windows and over are in
the initial states.

Fairness: threads run, tries and reads end by their timeouts, the 180 s pass, the
garbage collector works. `StartEnds` needs the budget only. `Reconnects` holds
although hosts go down: some host has to be up, and a connection to it is made by
connect or race.

Left out: the proxy service mode, which makes no connection in `start()`; modes,
MTU, the startup scan; records on the connection; the server's side (its accept
thread does TLS handshakes itself: a hazard without a property).

### Proofs

`ClientControl_proofs` proves `Inductive`, `TypeCorrect`, `ChosenStaysOpen`
(`ChosenIsOpen`), `OneWinner` (`RaceLeavesOne`) and `TokensByAge`
(`ResumeWindow`), for any number of hosts, connection objects, tries and faults
and any token window.

The properties need to know who may still work on a connection. `ChosenSettled`:
nobody on the one in use. `RacersTrue`: a race's connections are in its pool while
their threads run, and of those whose thread is over only the winner's is still
there. `WinnerReady`: between the race won and the control thread taking note, the
winner's connection stays open and in the pool, and no other attempt touches it.
`ConnectingOwn`: the control thread's own attempt is none of a race. A connection
just made is open as long as its race goes on; after a lost race its thread may
still set a winner, which nobody takes. `TokenAged`: a token is not from the future,
which makes the difference of buckets in `Verify` a statement about its age (lemma
`BucketAge`). `RaceLeavesOne` is then `RacersTrue` when all threads are over; the
proof uses that a new race waits for the threads of the last one, the bound named
above.

`StartEnds` and `Reconnects` are liveness and only model-checked.

## RateControl

### State and actions

| Module | Code |
|---|---|
| `seq`; `Send`, `Resume` | `_seq`, the shards and copies of a payload; a client started again |
| `window`; `OnPacket`, `Loss`, `Reset` | `BrutalReceiver` |
| `ripe`, `handling`; `HandlerReports`, `HandlerEnds`, `LoopReports` | the 200 ms; a thread of `_handle_data` before the end of `_on_payload`; `_feedback_loop` |
| `report` | a BW_FEEDBACK packet |
| `rate`, `ceil`; `OnFeedback`, `SetCeil` | `BrutalSender`; `_apply_probe_bandwidth_hints` |
| `late`, `calm` | the network |

The network loses, copies and delays until it turns calm, if it does. `LossIsReal`
says that a window that began after that shows no loss. It does not say that
earlier estimates are right, and they are not: the lowest number of a window is
the first to arrive, so a late datagram counts as many losses as payloads lie
between, or hides some.

One report is under way at a time: a new one overtakes and replaces an old one.
Rates are whole numbers from 4 to 7 instead of 64 to 500000, and the upper loss
threshold is 40 % instead of 15 %: with four sequence numbers a window cannot show
less than 25 %. All three branches of `on_feedback` are taken. A resume is a new
process: its numbers and its sender begin anew, with what its user declares then.

`RateInBounds` bounds the rate by what the sender was last told: by a server's hint
since the client's start, else by its user, cut to the range of rates. `hint` and
`fed` are there to say so. The user's own figure is no bound, although
`BrutalSender`'s comment says that the rate "will never exceed what the user
declared" (`brutal.py:39-40`). It does in two ways: a hint replaces the ceiling and
never looks at the declared rate, so it lifts it too (`brutal.py:113`), and a rate
declared below the minimum is exceeded at the first report (`brutal.py:77`). Both are
steps of the module, and no property claims otherwise.

### Run

`rate_control`: four sequence numbers, so they wrap all the time; nothing declared, or
less than the minimum; no hint, hints within the range and above it. `RateInBounds`,
`LossIsReal`, `RampsUp` and `BacksOff` hold (384 thousand states).

Fairness: the client sends, time passes, the loop runs, and of the reports sent for
ever some is handled (strong fairness). `RampsUp` needs a calm network; `BacksOff`
takes reports of heavy loss as its premise, because a network that loses everything
produces no report at all. Both leave out a client that is started again for ever
(`StartsForEver`): each new sender forgets what the earlier one learned.

Left out: `BBRSender`, which replaces `BrutalSender` on an exception it does not
raise; the sleeps of `pace()`. The client paces one copy of a shard and then sends
the whole burst, so the rate on the wire is a multiple of the rate here: a hazard
without a property.

### Proofs

`RateControl_proofs` proves `Inductive`, `TypeCorrect`, `BoundsKept`
(`RateInBounds`) and `NoLossInvented` (`LossIsReal`), for any number space, any
rates with `MinRate <= InitRate <= MaxRate`, any thresholds and whatever the user
declares or the other end hints or reports.

`LossIsReal` needs three parts. `NothingLate`: a calm network holds nothing back.
`WindowOrdered`: a lowest number comes with a highest. `WindowWhole`: in a window of
the calm network all numbers from the lowest to the highest were seen, and the
client's next one leaves no gap; this outlives the wrap and a resume, where numbers
start again below the highest. Lemma `WholeIsNoLoss` gives the estimate 0 for such
a window. `PercentRange` and `LossTyped` show that a report is a percentage whatever
was seen, so the division in `feedback` is safe. `RateInBounds` needs `CeilTrue`: the
present ceiling is that of the last hint, or of the declaration of this start.

`RampsUp` and `BacksOff` are liveness and only model-checked.

## Not modelled

* Selective ARQ: the client calls `on_send` and nothing calls `on_ack`,
  `pending_retransmits` or the receiver's operations, so nothing is retransmitted
  and no other part sees its state.
* Mode control and startup scan: one thread computes mode, hop interval and burst
  factor and writes them under a lock; ports are a keyed hash of the time.
* MTU probing: one thread, one socket, a search that only lost replies disturb.
* Header packing, obfuscation, jitter padding, HTTP/3 wrapping: pure functions on
  bytes, without state. Two width hazards are listed.
* The DNS client and its cache, TUN/TAP devices, deployment, terminal: I/O.
* Proofs of liveness: the properties under fairness are model-checked only.
