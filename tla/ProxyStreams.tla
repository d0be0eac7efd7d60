----------------------------- MODULE ProxyStreams -----------------------------
(***************************************************************************)
(* The TCP proxy: local connections accepted by the client, relays to      *)
(* their targets opened by the server, and between the two a datagram      *)
(* network that loses, copies and reorders OPEN, ACK, DATA, CLOSE and      *)
(* ERROR frames.                                                           *)
(*                                                                         *)
(* Frames carry an 8-bit stream id and nothing else that orders them or    *)
(* tells copies apart. Every copy reaches a thread of its own at the       *)
(* server; the client has one listener, and per connection a handler and   *)
(* a writer thread. A relay is numbered by the connect that made it; the   *)
(* relay table knows it by its stream id only.                             *)
(*                                                                         *)
(* "of" in a frame or a relay says which stream or relay it is about,      *)
(* "left" in a stream which relays of its id were there before it. The     *)
(* code has neither: only the properties read them, and the receiver of a  *)
(* frame, who copies its "of".                                             *)
(***************************************************************************)
EXTENDS Integers, Sequences, FiniteSets

CONSTANTS
    Streams,     \* local connections, each a ProxyStreamState
    NumIds,      \* stream ids 1 .. NumIds; 255 in the code
    MaxRelays,   \* bound: OPEN frames the server handles
    MaxChunks,   \* bound: DATA frames of a local connection
    MaxReplies,  \* bound: pieces a relay reads; at it no relay reads any more
    MaxWrites    \* bound: pieces handed to one socket, copies included

ASSUME BoundAssumption ==
    /\ NumIds \in Nat \ {0}
    /\ MaxRelays \in Nat
    /\ MaxChunks \in Nat
    /\ MaxReplies \in Nat
    /\ MaxWrites \in Nat

VARIABLES
    nextId,   \* _proxy_next_stream_id
    holder,   \* _proxy_sessions: stream id -> stream
    stream,   \* stream -> its connection, its threads and its events
    table,    \* _proxy_relays: stream id -> relay
    relays,   \* relay -> its socket and its reader thread
    writers,  \* DATA handlers between the table lookup and sendall
    net       \* frames sent; a copy may arrive at any time, any number of times

clientVars == <<nextId, holder, stream>>
serverVars == <<table, relays, writers>>
vars == <<clientVars, serverVars, net>>

Ids == 1 .. NumIds
Relays == 1 .. MaxRelays
Closing == <<0, 0>>          \* the None put into an inbound queue
Pieces == (Relays \X (1 .. MaxReplies)) \cup {Closing}

ClientTypes == {"OPEN", "DATA", "CLOSE"}
Frames == [type : ClientTypes, id : Ids, of : Streams, n : 0 .. MaxChunks]
     \cup [type : {"ACK", "REPLY", "ERROR", "ENDED"}, id : Ids, of : Relays,
           n : 0 .. MaxReplies]

\* PROXY_DATA and PROXY_CLOSE of the server are REPLY and ENDED here. A REPLY
\* longer than the listener's 256 bytes arrives cut short; which bytes a frame
\* carries is left out, which frame they come from is kept.
Frame(type, id, of, n) == [type |-> type, id |-> id, of |-> of, n |-> n]

Phases == {"parsed", "allocated", "opening", "open", "sending", "closing", "done"}
Stream == [phase : Phases, id : 0 .. NumIds,
           opened : BOOLEAN, error : BOOLEAN, closed : BOOLEAN, conn : BOOLEAN,
           inbound : Seq(Pieces), written : Seq(Pieces), sent : 0 .. MaxChunks,
           writer : {"none", "running", "ended"}, left : SUBSET Relays]

Over == {"refused", "ended"}
Relay == [id : Ids, of : Streams, open : BOOLEAN, read : 0 .. MaxReplies,
          thread : {"connecting", "checking", "reading"} \cup Over,
          got : Seq(Streams \X (1 .. MaxChunks))]

NewStream == [phase |-> "parsed", id |-> 0,
              opened |-> FALSE, error |-> FALSE, closed |-> FALSE, conn |-> TRUE,
              inbound |-> <<>>, written |-> <<>>, sent |-> 0, writer |-> "none",
              left |-> {}]

Init ==
    /\ nextId = 1
    /\ holder = [i \in {} |-> i]
    /\ stream = [s \in Streams |-> NewStream]
    /\ table = [i \in {} |-> i]
    /\ relays = <<>>
    /\ writers = {}
    /\ net = {}

Without(f, i) == [j \in DOMAIN f \ {i} |-> f[j]]
With(f, i, v) == [j \in DOMAIN f \cup {i} |-> IF j = i THEN v ELSE f[j]]

-------------------------------------------------------------------------------
(* The client: one handler thread per local connection *)

SuccessorUncapped(id) == id + 1
Successor(id) == IF id >= NumIds THEN 1 ELSE id + 1

Steps(id) == IF id >= nextId THEN id - nextId ELSE id - nextId + NumIds

FreeIdsAny == Ids
FreeIds == Ids \ DOMAIN holder

\* The threads and the frames of the stream that had the id before are gone when the
\* counter, having gone round 255 ids, gives it out again, where a timeout bounds
\* their lives. Nothing bounds the life of a relay whose target stays silent.
Rested(id) ==
    id \notin DOMAIN holder =>
        /\ \A r \in DOMAIN relays : relays[r].id = id => relays[r].thread # "connecting"
        /\ \A w \in writers : relays[w.relay].id # id
        /\ \A s \in Streams :
              stream[s].id = id => stream[s].phase \notin {"allocated", "sending"}

Alive == {r \in DOMAIN relays : relays[r].thread \notin Over}
Leftovers(id) == {r \in Alive : relays[r].id = id}

\* Of the former stream's frames only what such a relay has just read is on its way.
Fresh(id) == {f \in net : f.id = id => f.type = "REPLY" /\ f.of \in Leftovers(id)}

\* The first free id from the counter on; none is free with NumIds streams.
Alloc(s) ==
    /\ stream[s].phase = "parsed"
    /\ \E id \in FreeIds :
          /\ \A j \in FreeIds : Steps(id) <= Steps(j)
          /\ Rested(id)
          /\ nextId' = Successor(id)
          /\ stream' = [stream EXCEPT ![s].phase = "allocated", ![s].id = id,
                                      ![s].left = Leftovers(id)]
          /\ net' = Fresh(id)
    /\ UNCHANGED <<holder, serverVars>>

AllocFails(s) ==
    /\ stream[s].phase = "parsed"
    /\ FreeIds = {}
    /\ stream' = [stream EXCEPT ![s].phase = "done", ![s].conn = FALSE]
    /\ UNCHANGED <<nextId, holder, serverVars, net>>

\* The stream is entered under another lock than its id was taken under.
Register(s) ==
    /\ stream[s].phase = "allocated"
    /\ holder' = With(holder, stream[s].id, s)
    /\ stream' = [stream EXCEPT ![s].phase = "opening"]
    /\ net' = net \cup {Frame("OPEN", stream[s].id, s, 0)}
    /\ UNCHANGED <<nextId, serverVars>>

\* The answer to the local application fails on a connection closed meanwhile. What
\* came behind the request is sent first; then the handler waits in recv ("open").
Opened(s) ==
    /\ stream[s].phase = "opening"
    /\ stream[s].opened
    /\ IF stream[s].error \/ ~stream[s].conn
       THEN stream' = [stream EXCEPT ![s].phase = "closing"]
       ELSE \E next \in {"open"} \cup {p \in {"sending"} : MaxChunks > 0} :
               stream' = [stream EXCEPT ![s].phase = next, ![s].writer = "running"]
    /\ UNCHANGED <<nextId, holder, serverVars, net>>

OpenTimeout(s) ==
    /\ stream[s].phase = "opening"
    /\ ~stream[s].opened
    /\ stream' = [stream EXCEPT ![s].phase = "closing"]
    /\ UNCHANGED <<nextId, holder, serverVars, net>>

ReadLocal(s) ==
    /\ stream[s].phase = "open"
    /\ stream[s].conn
    /\ stream[s].sent < MaxChunks
    /\ stream' = [stream EXCEPT ![s].phase = "sending"]
    /\ UNCHANGED <<nextId, holder, serverVars, net>>

\* What was read goes out in one frame or more, whether the stream is closed
\* meanwhile or not; only the loop's next round looks.
SendChunk(s) ==
    LET n == stream[s].sent + 1
        waits == IF stream[s].closed THEN "closing" ELSE "open"
    IN /\ stream[s].phase = "sending"
       /\ n <= MaxChunks
       /\ \E next \in {waits} \cup {p \in {"sending"} : n < MaxChunks} :
             stream' = [stream EXCEPT ![s].phase = next, ![s].sent = n]
       /\ net' = net \cup {Frame("DATA", stream[s].id, s, n)}
       /\ UNCHANGED <<nextId, holder, serverVars>>

\* End of file, or ten seconds without a byte: the accept's timeout stays on.
LocalEnds(s) ==
    /\ stream[s].phase = "open"
    /\ stream' = [stream EXCEPT ![s].phase = "closing"]
    /\ UNCHANGED <<nextId, holder, serverVars, net>>

\* recv fails or times out on a connection that was closed under it.
LoopEnds(s) ==
    /\ stream[s].closed \/ ~stream[s].conn
    /\ LocalEnds(s)

\* _release_proxy_stream: whoever holds the id now.
ReleasedQuietly(st, s) == [st EXCEPT ![s].conn = FALSE]
Released(st, s) == [st EXCEPT ![s].closed = TRUE, ![s].conn = FALSE]

\* The finally block: CLOSE, release of the id, the connection. What only this
\* handler reads goes with it.
CloseStream(s) ==
    LET id == stream[s].id
        own == [stream EXCEPT ![s] = [NewStream EXCEPT
                   !.phase = "done", !.conn = FALSE, !.closed = stream[s].closed,
                   !.written = stream[s].written, !.writer = stream[s].writer,
                   !.left = stream[s].left]]
    IN /\ stream[s].phase = "closing"
       /\ net' = net \cup {Frame("CLOSE", id, s, 0)}
       /\ holder' = Without(holder, id)
       /\ stream' = IF id \in DOMAIN holder THEN Released(own, holder[id]) ELSE own
       /\ UNCHANGED <<nextId, serverVars>>

\* The writer takes one item, or sees that the stream is closed.
Writer(s) ==
    /\ stream[s].writer = "running"
    /\ \/ /\ \/ stream[s].closed
             \/ /\ stream[s].inbound # <<>>
                /\ Head(stream[s].inbound) = Closing \/ ~stream[s].conn
          /\ stream' = [stream EXCEPT ![s].writer = "ended", ![s].closed = TRUE]
       \/ /\ stream[s].inbound # <<>>
          /\ Head(stream[s].inbound) # Closing
          /\ stream[s].conn
          /\ stream' = [stream EXCEPT
                           ![s].written = Append(@, Head(stream[s].inbound)),
                           ![s].inbound = Tail(@)]
    /\ UNCHANGED <<nextId, holder, serverVars, net>>

-------------------------------------------------------------------------------
(* The client's listener: _handle_proxy_response *)

HandleAck(f) ==
    /\ f.type = "ACK"
    /\ f.id \in DOMAIN holder
    /\ stream' = [stream EXCEPT ![holder[f.id]].opened = TRUE]
    /\ UNCHANGED <<nextId, holder>>

HandleReply(f) ==
    LET s == holder[f.id]
    IN /\ f.type = "REPLY"
       /\ f.id \in DOMAIN holder
       /\ Len(stream[s].inbound) + Len(stream[s].written) < MaxWrites
       /\ stream' = [stream EXCEPT ![s].inbound = Append(@, <<f.of, f.n>>)]
       /\ UNCHANGED <<nextId, holder>>

\* A refusal also wakes the handler that waits for the open.
HandleEnd(f) ==
    LET s == holder[f.id]
        heard == IF f.type = "ERROR"
                 THEN [stream EXCEPT ![s].error = TRUE, ![s].opened = TRUE,
                                     ![s].inbound = Append(@, Closing)]
                 ELSE [stream EXCEPT ![s].inbound = Append(@, Closing)]
    IN /\ f.type \in {"ERROR", "ENDED"}
       /\ f.id \in DOMAIN holder
       /\ stream' = Released(heard, s)
       /\ holder' = Without(holder, f.id)
       /\ UNCHANGED nextId

Listen(f) ==
    /\ HandleAck(f) \/ HandleReply(f) \/ HandleEnd(f)
    /\ UNCHANGED <<serverVars, net>>

-------------------------------------------------------------------------------
(* The server: a thread per frame, a reader thread per relay *)

ReceiveOpen(f) ==
    /\ f.type = "OPEN"
    /\ Len(relays) < MaxRelays
    /\ relays' = Append(relays, [id |-> f.id, of |-> f.of, open |-> TRUE, read |-> 0,
                                 thread |-> "connecting", got |-> <<>>])
    /\ UNCHANGED <<table, writers, net>>

\* The new relay takes the place of an earlier one, which is not closed.
Connected(r) ==
    /\ relays[r].thread = "connecting"
    /\ relays' = [relays EXCEPT ![r].thread = "checking"]
    /\ table' = With(table, relays[r].id, r)
    /\ net' = net \cup {Frame("ACK", relays[r].id, r, 0)}
    /\ UNCHANGED writers

\* No backend by policy, a bad target, or a target that cannot be reached.
RefusedAcked(r) ==
    /\ relays[r].thread = "connecting"
    /\ relays' = [relays EXCEPT ![r].thread = "refused", ![r].open = FALSE]
    /\ net' = net \cup {Frame("ACK", relays[r].id, r, 0), Frame("ERROR", relays[r].id, r, 0)}
    /\ UNCHANGED <<table, writers>>
Refused(r) ==
    /\ relays[r].thread = "connecting"
    /\ relays' = [relays EXCEPT ![r].thread = "refused", ![r].open = FALSE]
    /\ net' = net \cup {Frame("ERROR", relays[r].id, r, 0)}
    /\ UNCHANGED <<table, writers>>

ReceiveData(f) ==
    /\ f.type = "DATA"
    /\ f.id \in DOMAIN table
    /\ LET r == table[f.id]
       IN /\ Len(relays[r].got) < MaxWrites
          /\ writers' = writers \cup {[relay |-> r, chunk |-> <<f.of, f.n>>]}
    /\ UNCHANGED <<table, relays, net>>

\* _proxy_close: the relay under the id now, whichever it is.
ClosedUnder(id, rs) ==
    IF id \in DOMAIN table THEN [rs EXCEPT ![table[id]].open = FALSE] ELSE rs

\* sendall can fail on an open socket, too: its reader set a timeout of a second.
WriteTarget(w) ==
    /\ writers' = writers \ {w}
    /\ \/ /\ relays[w.relay].open
          /\ relays' = [relays EXCEPT ![w.relay].got = Append(@, w.chunk)]
          /\ UNCHANGED table
       \/ /\ relays' = ClosedUnder(relays[w.relay].id, relays)
          /\ table' = Without(table, relays[w.relay].id)
    /\ UNCHANGED net

\* A relay that is being connected is not in the table yet.
ReceiveClose(f) ==
    /\ f.type = "CLOSE"
    /\ relays' = ClosedUnder(f.id, relays)
    /\ table' = Without(table, f.id)
    /\ UNCHANGED <<writers, net>>

VanishedNever(r) == FALSE
Vanished(r) == relays[r].id \notin DOMAIN table

CheckTable(r) ==
    /\ relays[r].thread = "checking"
    /\ ~Vanished(r)
    /\ relays' = [relays EXCEPT ![r].thread = "reading"]
    /\ UNCHANGED <<table, writers, net>>

MayRead == \A r \in DOMAIN relays : relays[r].read < MaxReplies

\* recv: data, or a second without any.
ReadTarget(r) ==
    /\ relays[r].thread = "reading"
    /\ relays[r].open
    /\ \/ /\ MayRead
          /\ relays' = [relays EXCEPT ![r].thread = "checking", ![r].read = @ + 1]
          /\ net' = net \cup {Frame("REPLY", relays[r].id, r, relays[r].read + 1)}
       \/ /\ relays' = [relays EXCEPT ![r].thread = "checking"]
          /\ UNCHANGED net
    /\ UNCHANGED <<table, writers>>

\* End of file, a socket closed under the reader, or an id that left the table.
\* The reader closes what is in the table and drops its own socket.
EndReader(r) ==
    /\ \/ relays[r].thread = "reading"
       \/ relays[r].thread = "checking" /\ Vanished(r)
    /\ relays' = [ClosedUnder(relays[r].id, relays)
                     EXCEPT ![r].thread = "ended", ![r].open = FALSE, ![r].read = 0]
    /\ table' = Without(table, relays[r].id)
    /\ net' = net \cup {Frame("ENDED", relays[r].id, r, 0)}
    /\ UNCHANGED writers

Serve(f) == ReceiveOpen(f) \/ ReceiveData(f) \/ ReceiveClose(f)
RunRelay(r) == Connected(r) \/ Refused(r) \/ CheckTable(r) \/ ReadTarget(r) \/ EndReader(r)

-------------------------------------------------------------------------------

Handler(s) ==
    \/ Alloc(s) \/ AllocFails(s) \/ Register(s) \/ Opened(s) \/ OpenTimeout(s)
    \/ ReadLocal(s) \/ SendChunk(s) \/ LocalEnds(s) \/ CloseStream(s)

Next ==
    \/ \E s \in Streams : Handler(s) \/ Writer(s)
    \/ \E f \in net : Listen(f)
    \/ /\ \/ \E f \in net : Serve(f)
          \/ \E w \in writers : WriteTarget(w)
          \/ \E r \in DOMAIN relays : RunRelay(r)
       /\ UNCHANGED clientVars

Spec == Init /\ [][Next]_vars

\* Threads run; waits end by their timeouts: ten seconds for the open and for
\* recv of the local connection, one for the writer's queue and for recv of a
\* relay; connect ends one way or the other. The network owes nothing.
Fairness ==
    /\ \A s \in Streams :
          /\ WF_vars(Opened(s) \/ OpenTimeout(s))
          /\ WF_vars(SendChunk(s))
          /\ WF_vars(LoopEnds(s))
          /\ WF_vars(CloseStream(s))
          /\ WF_vars(Writer(s))
    /\ \A r \in Relays :
          /\ WF_vars(r \in DOMAIN relays /\ (Connected(r) \/ Refused(r)) /\ UNCHANGED clientVars)
          /\ WF_vars(r \in DOMAIN relays /\ (CheckTable(r) \/ ReadTarget(r) \/ EndReader(r))
                        /\ UNCHANGED clientVars)

FairSpec == Spec /\ Fairness

-------------------------------------------------------------------------------
(* Properties *)

\* The state of the streams and relays is well typed.
TypeOK ==
    /\ nextId \in Ids
    /\ DOMAIN holder \subseteq Ids /\ \A i \in DOMAIN holder : holder[i] \in Streams
    /\ stream \in [Streams -> Stream]
    /\ relays \in Seq(Relay)
    /\ DOMAIN table \subseteq Ids /\ \A i \in DOMAIN table : table[i] \in DOMAIN relays
    /\ \A w \in writers : w.relay \in DOMAIN relays /\ w.chunk \in Streams \X (1 .. MaxChunks)
    /\ net \subseteq Frames

\* Only an available id is given out, and it separates streams: what a local
\* application is sent was read by a relay that was opened for its own stream, and a
\* target gets what was sent by the stream its relay was opened for
\* (_alloc_proxy_stream_id).
NoCrossTalk ==
    /\ \A s \in Streams : \A i \in DOMAIN stream[s].written :
        relays[stream[s].written[i][1]].of = s
    /\ \A r \in DOMAIN relays : \A i \in DOMAIN relays[r].got :
        relays[r].got[i][1] = relays[r].of

\* Copies, late frames and a reused id join two streams only in a relay of the
\* earlier one that was still alive when the later one got the id
\* (_handle_proxy_response, _handle_proxy_data, _alloc_proxy_stream_id).
OnlyLeftoversCross ==
    /\ \A s \in Streams : \A i \in DOMAIN stream[s].written :
        LET r == stream[s].written[i][1] IN relays[r].of = s \/ r \in stream[s].left
    /\ \A r \in DOMAIN relays : \A i \in DOMAIN relays[r].got :
        LET s == relays[r].got[i][1] IN relays[r].of = s \/ r \in stream[s].left

\* The local application is told that the connection is established only after
\* the server has connected to the target for this stream (_handle_proxy_client).
EstablishedIsConnected ==
    \A s \in Streams : stream[s].phase \in {"open", "sending"} =>
        \E r \in DOMAIN relays : relays[r].of = s /\ relays[r].thread \notin {"connecting", "refused"}

\* No handler and no writer waits for ever: an open is answered or given up, and
\* a stream that was closed by either side gives its threads back.
StreamsEnd ==
    \A s \in Streams :
        /\ stream[s].phase = "opening" ~> stream[s].phase \in {"open", "done"}
        /\ ~stream[s].conn ~>
              stream[s].phase = "done" /\ stream[s].writer # "running"

\* Once an id has left the relay table and nothing can open a relay for it any more,
\* its readers end and give their sockets back, those of overwritten relays too
\* (_proxy_reader_loop). Of an id that stays in the table nothing is said.
RelaysDrain ==
    \A id \in Ids :
        /\ id \notin DOMAIN table
        /\ Len(relays) = MaxRelays
        /\ \A r \in DOMAIN relays : relays[r].id = id => relays[r].thread # "connecting"
        ~> \A r \in DOMAIN relays :
              relays[r].id = id => relays[r].thread \in Over /\ ~relays[r].open

\* A target gets no chunk of the local application twice: redundant copies of a
\* DATA frame are dropped (_handle_proxy_data).
CopiesDropped ==
    \A r \in DOMAIN relays : \A i, j \in DOMAIN relays[r].got :
        relays[r].got[i] = relays[r].got[j] => i = j
===============================================================================
