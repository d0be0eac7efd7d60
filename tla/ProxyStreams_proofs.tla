-------------------------- MODULE ProxyStreams_proofs --------------------------
(***************************************************************************)
(* Proofs about ProxyStreams: every state is well typed, streams are       *)
(* joined in relays only that were left of an id's earlier stream, and a   *)
(* connection that is reported established has a relay that was connected  *)
(* for it.                                                                 *)
(*                                                                         *)
(* The argument is about claims to a stream id: the table's entry, a       *)
(* handler that speaks under it, a frame that opens, feeds or acknowledges *)
(* a relay, a relay being connected. All claims to an id are of one        *)
(* stream, because none but the allocation of an id makes a claim that was *)
(* not there. A relay at work makes no claim: it may be of an earlier      *)
(* stream, and is then among those that were left of it.                   *)
(***************************************************************************)
EXTENDS ProxyStreams, SequenceTheorems, TLAPS

-------------------------------------------------------------------------------
(* The inductive invariant *)

RelaysBounded == Len(relays) <= MaxRelays

\* A handler that has work left has an id.
IdsTaken == \A s \in Streams : stream[s].phase \notin {"parsed", "done"} => stream[s].id \in Ids

\* A relay in the table is there under its own id, connected and not over.
TableTrue ==
    \A i \in DOMAIN table :
        /\ relays[table[i]].id = i
        /\ relays[table[i]].thread \in {"checking", "reading"}

\* A handler whose id was taken from it has been closed.
OpenHeld ==
    \A s \in Streams : stream[s].phase \in {"opening", "open", "sending"} =>
        \/ (stream[s].id \in DOMAIN holder /\ holder[stream[s].id] = s)
        \/ (stream[s].closed /\ ~stream[s].conn)

WasConnected(r) == relays[r].thread \notin {"connecting", "refused"}

FramesTrue ==
    \A f \in net :
        /\ f.type \notin ClientTypes => f.of \in DOMAIN relays
        /\ f.type = "ACK" => WasConnected(f.of)
        /\ f.type \in {"DATA", "REPLY"} => f.n # 0

\* The stream a frame comes from; a CLOSE may come from one that has lost the id.
Author(f) == IF f.type \in ClientTypes THEN f.of ELSE relays[f.of].of

HolderClaims(i, s) == i \in DOMAIN holder /\ holder[i] = s
HandlerClaims(i, s) == stream[s].id = i /\ stream[s].phase \in {"allocated", "sending"}
FrameClaims(i, s) ==
    \E f \in net : f.type \in {"OPEN", "DATA", "ACK"} /\ f.id = i /\ Author(f) = s
RelayClaims(i, s) ==
    \E r \in DOMAIN relays :
        relays[r].id = i /\ relays[r].of = s /\ relays[r].thread = "connecting"

Claims(i, s) ==
    HolderClaims(i, s) \/ HandlerClaims(i, s) \/ FrameClaims(i, s) \/ RelayClaims(i, s)

OneClaimant ==
    \A i \in Ids : \A s, t \in Streams : Claims(i, s) /\ Claims(i, t) => s = t

\* A relay speaks under its id as long as it lives and what it read is on its way.
\* Under the id of a stream none but the stream's own and those left there speak.
Speaks(i, r) ==
    \/ r \in Leftovers(i)
    \/ \E f \in net : f.type = "REPLY" /\ f.id = i /\ f.of = r

OwnOrLeft(s, r) == relays[r].of = s \/ r \in stream[s].left

SpeakersKnown ==
    \A i \in Ids : \A s \in Streams : \A r \in DOMAIN relays :
        Claims(i, s) /\ Speaks(i, r) => OwnOrLeft(s, r)

\* Nothing is left of a stream before its own.
NoneLeft == \A s \in Streams : stream[s].phase = "parsed" => stream[s].left = {}

\* What waits for an application or was given to it is from such a relay, and so
\* is what waits for a target or was given to it.
PiecesKnown ==
    \A s \in Streams :
        /\ \A i \in DOMAIN stream[s].inbound :
              stream[s].inbound[i] # Closing =>
                  /\ stream[s].inbound[i][1] \in DOMAIN relays
                  /\ OwnOrLeft(s, stream[s].inbound[i][1])
        /\ \A i \in DOMAIN stream[s].written :
              /\ stream[s].written[i][1] \in DOMAIN relays
              /\ OwnOrLeft(s, stream[s].written[i][1])

ChunksKnown ==
    /\ \A w \in writers : OwnOrLeft(w.chunk[1], w.relay)
    /\ \A r \in DOMAIN relays : \A i \in DOMAIN relays[r].got :
          OwnOrLeft(relays[r].got[i][1], r)

HasRelay(s) == \E r \in DOMAIN relays : relays[r].of = s /\ WasConnected(r)

OpenedTrue ==
    \A s \in Streams :
        /\ stream[s].opened => stream[s].error \/ HasRelay(s)
        /\ stream[s].phase \in {"open", "sending"} => HasRelay(s)

IInv ==
    /\ TypeOK
    /\ RelaysBounded /\ IdsTaken /\ TableTrue /\ OpenHeld /\ FramesTrue
    /\ OneClaimant /\ SpeakersKnown /\ NoneLeft
    /\ PiecesKnown /\ ChunksKnown /\ OpenedTrue

-------------------------------------------------------------------------------
(* Typing of the parts *)

LEMMA ClientFrameTyped ==
    ASSUME NEW type \in ClientTypes, NEW id \in Ids, NEW of \in Streams,
           NEW n \in 0 .. MaxChunks
    PROVE  /\ Frame(type, id, of, n) \in Frames
           /\ Frame(type, id, of, n).type = type
           /\ Frame(type, id, of, n).id = id
           /\ Frame(type, id, of, n).of = of
           /\ Frame(type, id, of, n).n = n
  BY DEF Frame, Frames

LEMMA ServerFrameTyped ==
    ASSUME NEW type \in {"ACK", "REPLY", "ERROR", "ENDED"}, NEW id \in Ids,
           NEW of \in Relays, NEW n \in 0 .. MaxReplies
    PROVE  /\ Frame(type, id, of, n) \in Frames
           /\ Frame(type, id, of, n).type = type
           /\ Frame(type, id, of, n).id = id
           /\ Frame(type, id, of, n).of = of
           /\ Frame(type, id, of, n).n = n
  BY DEF Frame, Frames

\* Frames of the two kinds, told apart by their type.
LEMMA FrameKinds ==
    ASSUME NEW f \in Frames
    PROVE  /\ f.id \in Ids
           /\ f.type \in ClientTypes => f.of \in Streams /\ f.n \in 0 .. MaxChunks
           /\ f.type \notin ClientTypes => f.of \in Relays /\ f.n \in 0 .. MaxReplies
  BY DEF Frames, ClientTypes

LEMMA RelaysTyped ==
    ASSUME TypeOK, RelaysBounded
    PROVE  /\ DOMAIN relays = 1 .. Len(relays)
           /\ Len(relays) \in Nat
           /\ DOMAIN relays \subseteq Relays
           /\ \A r \in DOMAIN relays : relays[r] \in Relay
<1>1. /\ Len(relays) \in Nat /\ DOMAIN relays = 1 .. Len(relays)
      /\ relays \in [1 .. Len(relays) -> Relay]
  BY LenProperties DEF TypeOK
<1>. QED
  BY <1>1, BoundAssumption DEF RelaysBounded, Relays

LEMMA GotTyped ==
    ASSUME TypeOK, RelaysBounded, NEW r \in DOMAIN relays, NEW i \in DOMAIN relays[r].got
    PROVE  relays[r].got[i][1] \in Streams
<1>1. relays[r].got \in Seq(Streams \X (1 .. MaxChunks))
  BY RelaysTyped DEF Relay
<1>2. relays[r].got[i] \in Streams \X (1 .. MaxChunks)
  BY <1>1, LenProperties
<1>. QED
  BY <1>2

\* One relay is replaced.
LEMMA OneRelay ==
    ASSUME TypeOK, RelaysBounded, NEW r \in DOMAIN relays, NEW d \in Relay
    PROVE  /\ [relays EXCEPT ![r] = d] \in Seq(Relay)
           /\ DOMAIN [relays EXCEPT ![r] = d] = DOMAIN relays
           /\ Len([relays EXCEPT ![r] = d]) = Len(relays)
           /\ \A q \in DOMAIN relays :
                 [relays EXCEPT ![r] = d][q] = IF q = r THEN d ELSE relays[q]
  BY RelaysTyped, ExceptSeq DEF TypeOK

\* Closing what is under an id is seen in "open" only.
LEMMA ClosedUnderTyped ==
    ASSUME TypeOK, RelaysBounded, NEW id
    PROVE  /\ ClosedUnder(id, relays) \in Seq(Relay)
           /\ DOMAIN ClosedUnder(id, relays) = DOMAIN relays
           /\ Len(ClosedUnder(id, relays)) = Len(relays)
           /\ \A q \in DOMAIN relays :
                 /\ ClosedUnder(id, relays)[q].id = relays[q].id
                 /\ ClosedUnder(id, relays)[q].of = relays[q].of
                 /\ ClosedUnder(id, relays)[q].thread = relays[q].thread
                 /\ ClosedUnder(id, relays)[q].got = relays[q].got
<1>1. CASE id \in DOMAIN table
  <2>. DEFINE r == table[id]
              d == [relays[r] EXCEPT !.open = FALSE]
  <2>1. r \in DOMAIN relays /\ relays[r] \in Relay
    BY <1>1, RelaysTyped DEF TypeOK
  <2>2. /\ d \in Relay /\ d.id = relays[r].id /\ d.of = relays[r].of
        /\ d.thread = relays[r].thread /\ d.got = relays[r].got
    BY <2>1 DEF Relay
  <2>3. ClosedUnder(id, relays) = [relays EXCEPT ![r] = d]
    BY <1>1 DEF ClosedUnder
  <2>. HIDE DEF r, d
  <2>. QED
    BY <2>1, <2>2, <2>3, OneRelay
<1>2. CASE id \notin DOMAIN table
  BY <1>2 DEF ClosedUnder, TypeOK
<1>. QED
  BY <1>1, <1>2

LEMMA NewStreamTyped == NewStream \in Stream
<1>1. << >> \in Seq(Pieces)
  BY EmptySeq
<1>. QED
  BY <1>1, BoundAssumption DEF NewStream, Stream, Phases

LEMMA InitInv == Init => IInv
<1>. SUFFICES ASSUME Init PROVE IInv
  OBVIOUS
<1>1. relays \in Seq(Relay) /\ Len(relays) = 0 /\ DOMAIN relays = {}
  BY EmptySeq DEF Init
<1>2. TypeOK
  BY <1>1, NewStreamTyped, BoundAssumption DEF Init, TypeOK, Ids
<1>3. RelaysBounded /\ TableTrue /\ FramesTrue
  BY <1>1, BoundAssumption DEF Init, RelaysBounded, TableTrue, FramesTrue
<1>4. \A s \in Streams :
         /\ stream[s].phase = "parsed" /\ ~stream[s].opened
         /\ stream[s].inbound = << >> /\ stream[s].written = << >>
         /\ stream[s].left = {}
  BY DEF Init, NewStream
<1>5. IdsTaken /\ OpenHeld /\ OpenedTrue /\ NoneLeft
  BY <1>4 DEF IdsTaken, OpenHeld, OpenedTrue, NoneLeft
<1>6. DOMAIN << >> = {}
  OBVIOUS
<1>7. PiecesKnown
  BY <1>4, <1>6 DEF PiecesKnown
<1>8. OneClaimant
  BY <1>1, <1>4
  DEF Init, OneClaimant, Claims, HolderClaims, HandlerClaims, FrameClaims, RelayClaims
<1>9. ChunksKnown /\ SpeakersKnown
  BY <1>1 DEF Init, ChunksKnown, SpeakersKnown
<1>. QED
  BY <1>2, <1>3, <1>5, <1>7, <1>8, <1>9 DEF IInv

-------------------------------------------------------------------------------
(* What all steps have in common *)

\* Relays are added and go on: none changes its stream, none comes back.
RelaysGo ==
    /\ DOMAIN relays \subseteq DOMAIN relays'
    /\ \A r \in DOMAIN relays :
          /\ relays'[r].id = relays[r].id
          /\ relays'[r].of = relays[r].of
          /\ relays[r].thread \in Over => relays'[r].thread \in Over
          /\ WasConnected(r) => relays'[r].thread \notin {"connecting", "refused"}

\* What was a stream's own, or left before it, is so after the step.
LEMMA OwnOrLeftStays ==
    ASSUME RelaysGo, NEW s \in Streams, stream[s].left \subseteq stream'[s].left,
           NEW r \in DOMAIN relays, OwnOrLeft(s, r)
    PROVE  OwnOrLeft(s, r)' /\ r \in DOMAIN relays'
  BY DEF RelaysGo, OwnOrLeft

LEMMA ChunksStay ==
    ASSUME IInv, RelaysGo, \A s \in Streams : stream[s].left \subseteq stream'[s].left,
           writers' \subseteq writers,
           \A r \in DOMAIN relays' :
              IF r \in DOMAIN relays THEN relays'[r].got = relays[r].got
                                     ELSE relays'[r].got = << >>
    PROVE  ChunksKnown'
<1>1. \A w \in writers : w.chunk[1] \in Streams /\ w.relay \in DOMAIN relays
  BY DEF IInv, TypeOK
<1>2. \A w \in writers' : OwnOrLeft(w.chunk[1], w.relay)'
  BY <1>1, OwnOrLeftStays DEF IInv, ChunksKnown
<1>3. DOMAIN << >> = {}
  OBVIOUS
<1>4. ASSUME NEW r \in DOMAIN relays', NEW i \in DOMAIN relays'[r].got
      PROVE  OwnOrLeft(relays[r].got[i][1], r)'
  <2>1. r \in DOMAIN relays /\ relays'[r].got = relays[r].got
    BY <1>3, <1>4
  <2>2. relays[r].got[i][1] \in Streams
    BY <1>4, <2>1, GotTyped DEF IInv
  <2>. QED
    BY <1>4, <2>1, <2>2, OwnOrLeftStays DEF IInv, ChunksKnown
<1>. QED
  BY <1>2, <1>4 DEF ChunksKnown

LEMMA ServerKeepsClient ==
    ASSUME IInv, UNCHANGED clientVars, RelaysGo
    PROVE  IdsTaken' /\ OpenHeld' /\ NoneLeft' /\ PiecesKnown' /\ OpenedTrue'
<1>1. IdsTaken' /\ OpenHeld' /\ NoneLeft'
  BY DEF IInv, IdsTaken, OpenHeld, NoneLeft, clientVars
<1>2. \A s \in Streams : stream'[s] = stream[s] /\ stream[s].left \subseteq stream'[s].left
  BY DEF clientVars
<1>3. PiecesKnown'
  BY <1>2, OwnOrLeftStays DEF IInv, PiecesKnown
<1>4. \A s \in Streams : HasRelay(s) => HasRelay(s)'
  BY DEF HasRelay, WasConnected, RelaysGo
<1>5. OpenedTrue'
  BY <1>4 DEF IInv, OpenedTrue, clientVars
<1>. QED
  BY <1>1, <1>3, <1>5

\* A relay that is new is of the stream that sent its OPEN, an ACK of the relay that was
\* being connected, and what else the server sends of a relay at work: no claim
\* and no speaker comes in that was not there.
LEMMA ServerClaims ==
    ASSUME IInv, UNCHANGED clientVars, RelaysGo,
           \A f \in net' : f \in net \/
              /\ f.type \notin ClientTypes /\ f.of \in DOMAIN relays
              /\ f.id = relays[f.of].id /\ relays[f.of].thread \notin Over
              /\ f.type = "ACK" => relays[f.of].thread = "connecting",
           \A r \in DOMAIN relays' : r \in DOMAIN relays \/
              \E f \in net : /\ f.type = "OPEN"
                             /\ relays'[r].id = f.id /\ relays'[r].of = f.of
    PROVE  OneClaimant' /\ SpeakersKnown'
<1>1. ASSUME NEW i \in Ids, NEW s \in Streams, Claims(i, s)'
      PROVE  Claims(i, s)
  <2>1. CASE HolderClaims(i, s)' \/ HandlerClaims(i, s)'
    BY <2>1 DEF Claims, HolderClaims, HandlerClaims, clientVars
  <2>2. CASE FrameClaims(i, s)'
    <3>1. PICK f \in net' : f.type \in {"OPEN", "DATA", "ACK"} /\ f.id = i /\ Author(f)' = s
      BY <2>2 DEF FrameClaims
    <3>2. CASE f \in net
      <4>1. Author(f)' = Author(f)
        BY <3>2 DEF IInv, FramesTrue, Author, RelaysGo
      <4>. QED
        BY <3>1, <3>2, <4>1 DEF Claims, FrameClaims
    <3>3. CASE f \notin net
      <4>1. f.type = "ACK" /\ Author(f)' = relays[f.of].of
        BY <3>1, <3>3 DEF Author, RelaysGo, ClientTypes
      <4>. QED
        BY <3>1, <3>3, <4>1 DEF Claims, RelayClaims
    <3>. QED
      BY <3>2, <3>3
  <2>3. CASE RelayClaims(i, s)'
    <3>1. PICK r \in DOMAIN relays' :
             relays'[r].id = i /\ relays'[r].of = s /\ relays'[r].thread = "connecting"
      BY <2>3 DEF RelayClaims
    <3>2. CASE r \in DOMAIN relays
      <4>1. relays[r] \in Relay
        BY <3>2, RelaysTyped DEF IInv
      <4>2. relays[r].thread = "connecting"
        BY <3>1, <3>2, <4>1 DEF RelaysGo, WasConnected, Relay, Over
      <4>. QED
        BY <3>1, <3>2, <4>2 DEF Claims, RelayClaims, RelaysGo
    <3>3. CASE r \notin DOMAIN relays
      BY <3>1, <3>3 DEF Claims, FrameClaims, Author, ClientTypes
    <3>. QED
      BY <3>2, <3>3
  <2>. QED
    BY <1>1, <2>1, <2>2, <2>3 DEF Claims
<1>2. ASSUME NEW i \in Ids, NEW r \in DOMAIN relays, Speaks(i, r)'
      PROVE  Speaks(i, r)
  <2>1. CASE r \in Leftovers(i)'
    BY <1>2, <2>1 DEF Speaks, Leftovers, Alive, RelaysGo
  <2>2. CASE \E f \in net' : f.type = "REPLY" /\ f.id = i /\ f.of = r
    BY <1>2, <2>2 DEF Speaks, Leftovers, Alive
  <2>. QED
    BY <1>2, <2>1, <2>2 DEF Speaks
<1>3. ASSUME NEW i \in Ids, NEW s \in Streams, NEW r \in DOMAIN relays',
             Claims(i, s)', Speaks(i, r)'
      PROVE  OwnOrLeft(s, r)'
  <2>1. CASE r \in DOMAIN relays
    <3>1. OwnOrLeft(s, r)
      BY <1>1, <1>2, <1>3, <2>1 DEF IInv, SpeakersKnown
    <3>. QED
      BY <2>1, <3>1, OwnOrLeftStays DEF clientVars
  <2>2. CASE r \notin DOMAIN relays
    <3>1. PICK f \in net : f.type = "OPEN" /\ relays'[r].id = f.id /\ relays'[r].of = f.of
      BY <1>3, <2>2
    <3>2. r \in Leftovers(i)'
      BY <1>3, <2>2 DEF Speaks, IInv, FramesTrue, ClientTypes
    <3>3. f \in Frames /\ f.of \in Streams /\ f.id = i
      BY <3>1, <3>2, FrameKinds DEF IInv, TypeOK, ClientTypes, Leftovers
    <3>4. Claims(i, f.of)
      BY <3>1, <3>3 DEF Claims, FrameClaims, Author, ClientTypes
    <3>5. f.of = s
      BY <1>1, <1>3, <3>3, <3>4 DEF IInv, OneClaimant
    <3>. QED
      BY <3>1, <3>5 DEF OwnOrLeft
  <2>. QED
    BY <2>1, <2>2
<1>4. OneClaimant'
  BY <1>1 DEF IInv, OneClaimant
<1>. QED
  BY <1>3, <1>4 DEF SpeakersKnown

\* What a step that leaves the network, the writers and what was written alone
\* still has to show.
LEMMA ServerFrames ==
    ASSUME IInv, RelaysGo, \A f \in net' : f \in net \/
              /\ f.type \notin ClientTypes /\ f.of \in DOMAIN relays'
              /\ f.type = "ACK" => relays'[f.of].thread \notin {"connecting", "refused"}
              /\ f.type = "REPLY" => f.n # 0
    PROVE  FramesTrue'
  BY DEF IInv, FramesTrue, RelaysGo, WasConnected, ClientTypes

\* One relay goes on and sends what it has to: the parts this cannot disturb.
LEMMA RelayStep ==
    ASSUME IInv, UNCHANGED <<clientVars, writers>>,
           relays' \in Seq(Relay), DOMAIN relays' = DOMAIN relays,
           Len(relays') = Len(relays),
           NEW r \in DOMAIN relays, relays[r].thread \notin Over,
           \A q \in DOMAIN relays :
              /\ relays'[q].id = relays[q].id /\ relays'[q].of = relays[q].of
              /\ relays'[q].got = relays[q].got
              /\ q # r => relays'[q].thread = relays[q].thread,
           WasConnected(r) => relays'[r].thread \notin {"connecting", "refused"},
           \A f \in net' : f \in net \/
              /\ f \in Frames /\ f.type \notin ClientTypes
              /\ f.of = r /\ f.id = relays[r].id
              /\ f.type = "ACK" =>
                    /\ relays[r].thread = "connecting"
                    /\ relays'[r].thread \notin {"connecting", "refused"}
              /\ f.type = "REPLY" => f.n # 0,
           DOMAIN table' \subseteq Ids,
           \A i \in DOMAIN table' :
              /\ table'[i] \in DOMAIN relays /\ relays[table'[i]].id = i
              /\ relays'[table'[i]].thread \in {"checking", "reading"}
    PROVE  IInv'
<1>1. RelaysGo
  BY DEF RelaysGo, WasConnected
<1>2. IdsTaken' /\ OpenHeld' /\ NoneLeft' /\ PiecesKnown' /\ OpenedTrue'
  BY <1>1, ServerKeepsClient
<1>3. OneClaimant' /\ SpeakersKnown'
  BY <1>1, ServerClaims
<1>4. FramesTrue'
  BY <1>1, ServerFrames
<1>5. ChunksKnown'
  BY <1>1, ChunksStay DEF clientVars
<1>6. RelaysBounded' /\ TableTrue'
  BY DEF IInv, RelaysBounded, TableTrue
<1>7. TypeOK'
  BY DEF IInv, TypeOK, clientVars
<1>. QED
  BY <1>2, <1>3, <1>4, <1>5, <1>6, <1>7 DEF IInv

LEMMA ConnectedInv ==
    ASSUME IInv, NEW r \in DOMAIN relays, Connected(r), UNCHANGED clientVars
    PROVE  IInv'
<1>1. TypeOK /\ RelaysBounded /\ r \in Relays /\ relays[r] \in Relay
  BY RelaysTyped DEF IInv
<1>. DEFINE d == [relays[r] EXCEPT !.thread = "checking"]
            f == Frame("ACK", relays[r].id, r, 0)
<1>2. /\ d \in Relay /\ d.id = relays[r].id /\ d.of = relays[r].of
      /\ d.got = relays[r].got /\ d.thread = "checking"
  BY <1>1 DEF Relay
<1>3. f \in Frames /\ f.type = "ACK" /\ f.of = r /\ f.id = relays[r].id
  BY <1>1, ServerFrameTyped, BoundAssumption DEF Relay
<1>4. /\ relays[r].thread = "connecting" /\ relays' = [relays EXCEPT ![r] = d]
      /\ table' = With(table, relays[r].id, r) /\ net' = net \cup {f} /\ UNCHANGED writers
  BY DEF Connected
<1>. HIDE DEF d, f
<1>5. /\ relays' \in Seq(Relay) /\ DOMAIN relays' = DOMAIN relays
      /\ Len(relays') = Len(relays)
      /\ \A q \in DOMAIN relays : relays'[q] = IF q = r THEN d ELSE relays[q]
  BY <1>1, <1>2, <1>4, OneRelay
<1>6. /\ DOMAIN table' \subseteq Ids
      /\ \A i \in DOMAIN table' :
            /\ table'[i] \in DOMAIN relays /\ relays[table'[i]].id = i
            /\ relays'[table'[i]].thread \in {"checking", "reading"}
  BY <1>1, <1>2, <1>4, <1>5 DEF IInv, TypeOK, TableTrue, With, Relay
<1>7. relays[r].thread \notin Over
  BY <1>4 DEF Over
<1>. QED
  BY <1>2, <1>3, <1>4, <1>5, <1>6, <1>7, RelayStep DEF ClientTypes

LEMMA RefusedInv ==
    ASSUME IInv, NEW r \in DOMAIN relays, Refused(r), UNCHANGED clientVars
    PROVE  IInv'
<1>1. TypeOK /\ RelaysBounded /\ r \in Relays /\ relays[r] \in Relay
  BY RelaysTyped DEF IInv
<1>. DEFINE d == [relays[r] EXCEPT !.thread = "refused", !.open = FALSE]
            f == Frame("ERROR", relays[r].id, r, 0)
<1>2. /\ d \in Relay /\ d.id = relays[r].id /\ d.of = relays[r].of /\ d.got = relays[r].got
  BY <1>1 DEF Relay, Over
<1>3. f \in Frames /\ f.type = "ERROR" /\ f.of = r /\ f.id = relays[r].id
  BY <1>1, ServerFrameTyped, BoundAssumption DEF Relay
<1>4. /\ relays[r].thread = "connecting" /\ relays' = [relays EXCEPT ![r] = d]
      /\ table' = table /\ net' = net \cup {f} /\ UNCHANGED writers
  BY <1>1 DEF Refused, Relay, TypeOK
<1>. HIDE DEF d, f
<1>5. /\ relays' \in Seq(Relay) /\ DOMAIN relays' = DOMAIN relays
      /\ Len(relays') = Len(relays)
      /\ \A q \in DOMAIN relays : relays'[q] = IF q = r THEN d ELSE relays[q]
  BY <1>1, <1>2, <1>4, OneRelay
<1>6. /\ DOMAIN table' \subseteq Ids
      /\ \A i \in DOMAIN table' :
            /\ table'[i] \in DOMAIN relays /\ relays[table'[i]].id = i
            /\ relays'[table'[i]].thread \in {"checking", "reading"}
  BY <1>4, <1>5 DEF IInv, TypeOK, TableTrue
<1>7. relays[r].thread \notin Over /\ ~WasConnected(r)
  BY <1>4 DEF Over, WasConnected
<1>. QED
  BY <1>2, <1>3, <1>4, <1>5, <1>6, <1>7, RelayStep DEF ClientTypes

LEMMA CheckTableInv ==
    ASSUME IInv, NEW r \in DOMAIN relays, CheckTable(r), UNCHANGED clientVars
    PROVE  IInv'
<1>1. TypeOK /\ RelaysBounded /\ relays[r] \in Relay
  BY RelaysTyped DEF IInv
<1>. DEFINE d == [relays[r] EXCEPT !.thread = "reading"]
<1>2. /\ d \in Relay /\ d.id = relays[r].id /\ d.of = relays[r].of
      /\ d.got = relays[r].got /\ d.thread = "reading"
  BY <1>1 DEF Relay
<1>3. /\ relays[r].thread = "checking" /\ relays' = [relays EXCEPT ![r] = d]
      /\ UNCHANGED <<table, writers, net>>
  BY DEF CheckTable
<1>. HIDE DEF d
<1>4. /\ relays' \in Seq(Relay) /\ DOMAIN relays' = DOMAIN relays
      /\ Len(relays') = Len(relays)
      /\ \A q \in DOMAIN relays : relays'[q] = IF q = r THEN d ELSE relays[q]
  BY <1>1, <1>2, <1>3, OneRelay
<1>5. /\ DOMAIN table' \subseteq Ids
      /\ \A i \in DOMAIN table' :
            /\ table'[i] \in DOMAIN relays /\ relays[table'[i]].id = i
            /\ relays'[table'[i]].thread \in {"checking", "reading"}
  BY <1>2, <1>3, <1>4 DEF IInv, TypeOK, TableTrue
<1>6. relays[r].thread \notin Over
  BY <1>3 DEF Over
<1>. QED
  BY <1>2, <1>3, <1>4, <1>5, <1>6, RelayStep

LEMMA ReadTargetInv ==
    ASSUME IInv, NEW r \in DOMAIN relays, ReadTarget(r), UNCHANGED clientVars
    PROVE  IInv'
<1>1. TypeOK /\ RelaysBounded /\ r \in Relays /\ relays[r] \in Relay
  BY RelaysTyped DEF IInv
<1>2. /\ relays[r].thread = "reading" /\ relays[r].thread \notin Over
      /\ UNCHANGED <<table, writers>>
  BY DEF ReadTarget, Over
<1>3. PICK n \in 0 .. MaxReplies :
         /\ relays' = [relays EXCEPT ![r] = [relays[r] EXCEPT !.thread = "checking", !.read = n]]
         /\ \/ net' = net
            \/ n # 0 /\ net' = net \cup {Frame("REPLY", relays[r].id, r, n)}
  <2>1. CASE /\ MayRead
             /\ relays' = [relays EXCEPT ![r].thread = "checking", ![r].read = @ + 1]
             /\ net' = net \cup {Frame("REPLY", relays[r].id, r, relays[r].read + 1)}
    <3>1. relays[r].read + 1 \in 0 .. MaxReplies /\ relays[r].read + 1 # 0
      BY <1>1, <2>1, BoundAssumption DEF Relay, MayRead
    <3>2. relays' = [relays EXCEPT ![r] = [relays[r] EXCEPT !.thread = "checking",
                                                          !.read = relays[r].read + 1]]
      BY <1>1, <2>1 DEF Relay
    <3>. QED
      BY <2>1, <3>1, <3>2
  <2>2. CASE relays' = [relays EXCEPT ![r].thread = "checking"] /\ net' = net
    <3>1. relays' = [relays EXCEPT ![r] = [relays[r] EXCEPT !.thread = "checking",
                                                          !.read = relays[r].read]]
      BY <1>1, <2>2 DEF Relay
    <3>. QED
      BY <1>1, <2>2, <3>1 DEF Relay
  <2>. QED
    BY <2>1, <2>2 DEF ReadTarget
<1>. DEFINE d == [relays[r] EXCEPT !.thread = "checking", !.read = n]
            f == Frame("REPLY", relays[r].id, r, n)
<1>4. /\ d \in Relay /\ d.id = relays[r].id /\ d.of = relays[r].of
      /\ d.got = relays[r].got /\ d.thread = "checking"
  BY <1>1 DEF Relay
<1>5. f \in Frames /\ f.type = "REPLY" /\ f.of = r /\ f.id = relays[r].id /\ f.n = n
  BY <1>1, ServerFrameTyped DEF Relay
<1>6. /\ relays' = [relays EXCEPT ![r] = d]
      /\ \/ net' = net
         \/ n # 0 /\ net' = net \cup {f}
  BY <1>3
<1>. HIDE DEF d, f
<1>7. /\ relays' \in Seq(Relay) /\ DOMAIN relays' = DOMAIN relays
      /\ Len(relays') = Len(relays)
      /\ \A q \in DOMAIN relays : relays'[q] = IF q = r THEN d ELSE relays[q]
  BY <1>1, <1>4, <1>6, OneRelay
<1>8. /\ DOMAIN table' \subseteq Ids
      /\ \A i \in DOMAIN table' :
            /\ table'[i] \in DOMAIN relays /\ relays[table'[i]].id = i
            /\ relays'[table'[i]].thread \in {"checking", "reading"}
  BY <1>2, <1>4, <1>7 DEF IInv, TypeOK, TableTrue
<1>9. \A g \in net' : g \in net \/
         /\ g \in Frames /\ g.type \notin ClientTypes
         /\ g.of = r /\ g.id = relays[r].id
         /\ g.type # "ACK"
         /\ g.type = "REPLY" => g.n # 0
  BY <1>5, <1>6 DEF ClientTypes
<1>. QED
  BY <1>2, <1>4, <1>7, <1>8, <1>9, RelayStep

LEMMA EndReaderInv ==
    ASSUME IInv, NEW r \in DOMAIN relays, EndReader(r), UNCHANGED clientVars
    PROVE  IInv'
<1>1. TypeOK /\ RelaysBounded /\ r \in Relays /\ relays[r] \in Relay
  BY RelaysTyped DEF IInv
<1>. DEFINE cs == ClosedUnder(relays[r].id, relays)
            d == [cs[r] EXCEPT !.thread = "ended", !.open = FALSE, !.read = 0]
            f == Frame("ENDED", relays[r].id, r, 0)
<1>2. /\ cs \in Seq(Relay) /\ DOMAIN cs = DOMAIN relays /\ Len(cs) = Len(relays)
      /\ \A q \in DOMAIN relays :
            /\ cs[q].id = relays[q].id /\ cs[q].of = relays[q].of
            /\ cs[q].thread = relays[q].thread /\ cs[q].got = relays[q].got
  BY <1>1, ClosedUnderTyped
<1>3. /\ relays' = [cs EXCEPT ![r] = d]
      /\ relays[r].thread \in {"reading", "checking"}
      /\ table' = Without(table, relays[r].id) /\ net' = net \cup {f} /\ UNCHANGED writers
  BY DEF EndReader
<1>4. f \in Frames /\ f.type = "ENDED" /\ f.of = r /\ f.id = relays[r].id
  BY <1>1, ServerFrameTyped, BoundAssumption DEF Relay
<1>. HIDE DEF cs, f
<1>5. cs[r] \in Relay /\ r \in 1 .. Len(cs)
  <2>1. DOMAIN cs = 1 .. Len(cs) /\ cs \in [1 .. Len(cs) -> Relay]
    BY <1>2, LenProperties
  <2>. QED
    BY <1>2, <2>1
<1>6. /\ d \in Relay /\ d.id = relays[r].id /\ d.of = relays[r].of
      /\ d.got = relays[r].got /\ d.thread = "ended"
  <2>1. 0 \in 0 .. MaxReplies
    BY BoundAssumption
  <2>2. d \in Relay
    BY <1>5, <2>1 DEF Relay, Over
  <2>3. /\ d.id = cs[r].id /\ d.of = cs[r].of /\ d.got = cs[r].got /\ d.thread = "ended"
    BY <1>5 DEF Relay
  <2>. QED
    BY <1>1, <1>2, <2>2, <2>3
<1>. HIDE DEF d
<1>7. /\ relays' \in Seq(Relay) /\ DOMAIN relays' = DOMAIN relays
      /\ Len(relays') = Len(relays)
      /\ \A q \in DOMAIN relays : relays'[q] = IF q = r THEN d ELSE cs[q]
  <2>1. [cs EXCEPT ![r] = d] \in Seq(Relay) /\ Len([cs EXCEPT ![r] = d]) = Len(cs)
    BY <1>2, <1>5, <1>6, ExceptSeq
  <2>. QED
    BY <1>2, <1>3, <2>1
<1>8. /\ DOMAIN table' \subseteq Ids
      /\ \A i \in DOMAIN table' :
            /\ table'[i] \in DOMAIN relays /\ relays[table'[i]].id = i
            /\ relays'[table'[i]].thread \in {"checking", "reading"}
  <2>1. /\ DOMAIN table' = DOMAIN table \ {relays[r].id}
        /\ \A i \in DOMAIN table' : table'[i] = table[i]
    BY <1>3 DEF Without
  <2>2. \A i \in DOMAIN table' :
           /\ table'[i] \in DOMAIN relays /\ table'[i] # r
           /\ relays[table'[i]].id = i
           /\ relays[table'[i]].thread \in {"checking", "reading"}
    BY <2>1 DEF IInv, TypeOK, TableTrue
  <2>3. \A q \in DOMAIN relays : q # r => relays'[q].thread = relays[q].thread
    BY <1>2, <1>7
  <2>4. DOMAIN table' \subseteq Ids
    BY <2>1 DEF IInv, TypeOK
  <2>. QED
    BY <2>2, <2>3, <2>4
<1>9. relays[r].thread \notin Over
  BY <1>3 DEF Over
<1>. QED
  BY <1>2, <1>3, <1>4, <1>6, <1>7, <1>8, <1>9, RelayStep DEF ClientTypes

\* The new relay is of the stream whose OPEN is handled.
LEMMA ReceiveOpenInv ==
    ASSUME IInv, NEW f \in net, ReceiveOpen(f), UNCHANGED clientVars
    PROVE  IInv'
<1>. DEFINE d == [id |-> f.id, of |-> f.of, open |-> TRUE, read |-> 0,
                  thread |-> "connecting", got |-> << >>]
<1>1. TypeOK /\ RelaysBounded /\ f \in Frames /\ f.type = "OPEN" /\ f.type \in ClientTypes
  BY DEF IInv, TypeOK, ReceiveOpen, ClientTypes
<1>2. d \in Relay
  <2>1. << >> \in Seq(Streams \X (1 .. MaxChunks))
    BY EmptySeq
  <2>2. f.id \in Ids /\ f.of \in Streams
    BY <1>1, FrameKinds
  <2>. QED
    BY <2>1, <2>2, BoundAssumption DEF Relay
<1>3. relays' = Append(relays, d) /\ Len(relays) < MaxRelays
      /\ UNCHANGED <<table, writers, net>>
  BY DEF ReceiveOpen
<1>4. d.id = f.id /\ d.of = f.of /\ d.got = << >> /\ d.thread = "connecting"
  OBVIOUS
<1>. HIDE DEF d
<1>5. /\ relays' \in Seq(Relay) /\ Len(relays') = Len(relays) + 1
      /\ \A r \in 1 .. Len(relays) : relays'[r] = relays[r]
      /\ relays'[Len(relays) + 1] = d
  BY <1>1, <1>2, <1>3, AppendProperties DEF TypeOK
<1>6. /\ DOMAIN relays' = 1 .. Len(relays) + 1
      /\ DOMAIN relays = 1 .. Len(relays) /\ Len(relays) \in Nat
  BY <1>1, <1>5, RelaysTyped, LenProperties
<1>7. /\ \A r \in DOMAIN relays : r \in DOMAIN relays' /\ relays'[r] = relays[r]
      /\ \A r \in DOMAIN relays' : r \in DOMAIN relays \/ relays'[r] = d
  BY <1>5, <1>6
<1>8. RelaysGo
  BY <1>7 DEF RelaysGo, WasConnected
<1>9. IdsTaken' /\ OpenHeld' /\ NoneLeft' /\ PiecesKnown' /\ OpenedTrue'
  BY <1>8, ServerKeepsClient
<1>10. OneClaimant' /\ SpeakersKnown'
  BY <1>1, <1>3, <1>4, <1>7, <1>8, ServerClaims
<1>11. FramesTrue'
  BY <1>3, <1>8, ServerFrames
<1>12. ChunksKnown'
  BY <1>3, <1>4, <1>7, <1>8, ChunksStay DEF clientVars
<1>13. RelaysBounded'
  BY <1>3, <1>5, <1>6, BoundAssumption DEF RelaysBounded
<1>14. TableTrue'
  BY <1>3, <1>7 DEF IInv, TypeOK, TableTrue
<1>15. TypeOK'
  BY <1>3, <1>5, <1>7 DEF IInv, TypeOK, clientVars
<1>. QED
  BY <1>9, <1>10, <1>11, <1>12, <1>13, <1>14, <1>15 DEF IInv

\* The frame claims the id the relay in the table speaks under: the relay is of the
\* frame's stream, or was left there before it.
LEMMA ReceiveDataInv ==
    ASSUME IInv, NEW f \in net, ReceiveData(f), UNCHANGED clientVars
    PROVE  IInv'
<1>1. f \in Frames /\ f.type = "DATA" /\ f.id \in Ids /\ f.of \in Streams /\ f.n \in 0 .. MaxChunks
  BY FrameKinds DEF IInv, TypeOK, ReceiveData, ClientTypes
<1>. DEFINE r == table[f.id]
            w == [relay |-> r, chunk |-> <<f.of, f.n>>]
<1>2. /\ f.id \in DOMAIN table /\ writers' = writers \cup {w}
      /\ UNCHANGED <<table, relays, net>>
  BY DEF ReceiveData
<1>3. r \in DOMAIN relays /\ relays[r].id = f.id /\ relays[r].thread \notin Over
  BY <1>2 DEF IInv, TypeOK, TableTrue, Over
<1>4. Claims(f.id, f.of) /\ Speaks(f.id, r)
  BY <1>1, <1>3
  DEF Claims, FrameClaims, Author, ClientTypes, Speaks, Leftovers, Alive
<1>5. OwnOrLeft(f.of, r)
  BY <1>1, <1>3, <1>4 DEF IInv, SpeakersKnown
<1>6. f.n \in 1 .. MaxChunks
  BY <1>1, BoundAssumption DEF IInv, FramesTrue
<1>7. w.relay = r /\ w.chunk = <<f.of, f.n>>
  OBVIOUS
<1>. HIDE DEF r, w
<1>8. TypeOK'
  <2>1. w.relay \in DOMAIN relays /\ w.chunk \in Streams \X (1 .. MaxChunks)
    BY <1>1, <1>3, <1>6, <1>7
  <2>2. \A v \in writers' : v.relay \in DOMAIN relays /\ v.chunk \in Streams \X (1 .. MaxChunks)
    BY <1>2, <2>1, Zenon DEF IInv, TypeOK
  <2>. QED
    BY <1>2, <2>2 DEF IInv, TypeOK, clientVars
<1>9. ChunksKnown'
  <2>1. w.chunk[1] = f.of
    BY <1>7
  <2>. QED
    BY <1>2, <1>5, <1>7, <2>1 DEF IInv, ChunksKnown, OwnOrLeft, clientVars
<1>10. RelaysGo
  BY <1>2 DEF RelaysGo, WasConnected
<1>11. IdsTaken' /\ OpenHeld' /\ NoneLeft' /\ PiecesKnown' /\ OpenedTrue'
  BY <1>10, ServerKeepsClient
<1>12. OneClaimant' /\ SpeakersKnown'
  BY <1>2, <1>10, ServerClaims
<1>13. RelaysBounded' /\ TableTrue' /\ FramesTrue'
  BY <1>2 DEF IInv, RelaysBounded, TableTrue, FramesTrue, WasConnected
<1>. QED
  BY <1>8, <1>9, <1>11, <1>12, <1>13 DEF IInv

\* A close that is not the relay's own: of a CLOSE frame, or of a failed write.
LEMMA CloseInv ==
    ASSUME IInv, UNCHANGED <<clientVars, net>>, NEW id,
           relays' = ClosedUnder(id, relays), table' = Without(table, id),
           writers' \subseteq writers
    PROVE  IInv'
<1>1. /\ relays' \in Seq(Relay) /\ DOMAIN relays' = DOMAIN relays
      /\ Len(relays') = Len(relays)
      /\ \A q \in DOMAIN relays :
            /\ relays'[q].id = relays[q].id /\ relays'[q].of = relays[q].of
            /\ relays'[q].thread = relays[q].thread /\ relays'[q].got = relays[q].got
  BY ClosedUnderTyped DEF IInv
<1>2. RelaysGo
  BY <1>1 DEF RelaysGo, WasConnected
<1>3. IdsTaken' /\ OpenHeld' /\ NoneLeft' /\ PiecesKnown' /\ OpenedTrue'
  BY <1>2, ServerKeepsClient
<1>4. OneClaimant' /\ SpeakersKnown'
  BY <1>1, <1>2, ServerClaims
<1>5. FramesTrue'
  BY <1>2, ServerFrames
<1>6. ChunksKnown'
  BY <1>1, <1>2, ChunksStay DEF clientVars
<1>7. /\ DOMAIN table' \subseteq DOMAIN table
      /\ \A i \in DOMAIN table' : table'[i] = table[i]
  BY DEF Without
<1>8. RelaysBounded' /\ TableTrue'
  BY <1>1, <1>7, SMTT(20) DEF IInv, TypeOK, RelaysBounded, TableTrue
<1>9. TypeOK'
  BY <1>1, <1>7 DEF IInv, TypeOK, clientVars
<1>. QED
  BY <1>3, <1>4, <1>5, <1>6, <1>8, <1>9 DEF IInv

LEMMA WriteTargetInv ==
    ASSUME IInv, NEW w \in writers, WriteTarget(w), UNCHANGED clientVars
    PROVE  IInv'
<1>. DEFINE Fails == /\ relays' = ClosedUnder(relays[w.relay].id, relays)
                     /\ table' = Without(table, relays[w.relay].id)
<1>1. CASE Fails
  <2>1. writers' \subseteq writers /\ net' = net
    BY DEF WriteTarget, IInv, TypeOK
  <2>. QED
    BY <1>1, <2>1, CloseInv
<1>2. CASE ~Fails
  <2>. DEFINE r == w.relay
              d == [relays[r] EXCEPT !.got = Append(@, w.chunk)]
  <2>1. /\ TypeOK /\ RelaysBounded /\ r \in DOMAIN relays /\ relays[r] \in Relay
        /\ w.chunk \in Streams \X (1 .. MaxChunks) /\ OwnOrLeft(w.chunk[1], r)
    BY RelaysTyped DEF IInv, TypeOK, ChunksKnown
  <2>2. /\ relays' = [relays EXCEPT ![r] = d] /\ writers' = writers \ {w}
        /\ UNCHANGED <<table, net>>
    BY <1>2 DEF WriteTarget
  <2>3. relays[r].got \in Seq(Streams \X (1 .. MaxChunks))
    BY <2>1 DEF Relay
  <2>4. /\ Append(relays[r].got, w.chunk) \in Seq(Streams \X (1 .. MaxChunks))
        /\ \A i \in DOMAIN Append(relays[r].got, w.chunk) :
              \/ i \in DOMAIN relays[r].got
                 /\ Append(relays[r].got, w.chunk)[i] = relays[r].got[i]
              \/ Append(relays[r].got, w.chunk)[i] = w.chunk
    BY <2>1, <2>3, AppendProperties, LenProperties
  <2>5. /\ d \in Relay /\ d.id = relays[r].id /\ d.of = relays[r].of
        /\ d.thread = relays[r].thread /\ d.got = Append(relays[r].got, w.chunk)
    BY <2>1, <2>4 DEF Relay
  <2>. HIDE DEF r, d
  <2>6. /\ relays' \in Seq(Relay) /\ DOMAIN relays' = DOMAIN relays
        /\ Len(relays') = Len(relays)
        /\ \A q \in DOMAIN relays : relays'[q] = IF q = r THEN d ELSE relays[q]
    BY <2>1, <2>2, <2>5, OneRelay
  <2>7. RelaysGo
    BY <2>5, <2>6 DEF RelaysGo, WasConnected
  <2>8. IdsTaken' /\ OpenHeld' /\ NoneLeft' /\ PiecesKnown' /\ OpenedTrue'
    BY <2>7, ServerKeepsClient
  <2>9. OneClaimant' /\ SpeakersKnown'
    BY <2>2, <2>6, <2>7, ServerClaims
  <2>10. FramesTrue'
    BY <2>2, <2>7, ServerFrames
  <2>11. ChunksKnown'
    <3>1. \A t, q : OwnOrLeft(t, q) /\ q \in DOMAIN relays => OwnOrLeft(t, q)'
      BY <2>7 DEF OwnOrLeft, RelaysGo, clientVars
    <3>2. \A v \in writers' : OwnOrLeft(v.chunk[1], v.relay)'
      BY <2>2, <3>1 DEF IInv, TypeOK, ChunksKnown
    <3>3. \A i \in DOMAIN d.got : OwnOrLeft(d.got[i][1], r)
      BY <2>1, <2>4, <2>5 DEF IInv, ChunksKnown
    <3>. QED
      BY <2>1, <2>6, <3>1, <3>2, <3>3 DEF IInv, ChunksKnown
  <2>12. RelaysBounded' /\ TableTrue'
    BY <2>2, <2>5, <2>6 DEF IInv, TypeOK, RelaysBounded, TableTrue
  <2>13. TypeOK'
    BY <2>2, <2>6 DEF IInv, TypeOK, clientVars
  <2>. QED
    BY <2>8, <2>9, <2>10, <2>11, <2>12, <2>13 DEF IInv
<1>. QED
  BY <1>1, <1>2

LEMMA ServerInv ==
    ASSUME IInv, UNCHANGED clientVars,
           \/ \E f \in net : Serve(f)
           \/ \E w \in writers : WriteTarget(w)
           \/ \E r \in DOMAIN relays : RunRelay(r)
    PROVE  IInv'
<1>1. ASSUME NEW f \in net, ReceiveClose(f) PROVE IInv'
  <2>1. net' = net /\ writers' = writers
    BY <1>1 DEF ReceiveClose, IInv, TypeOK, Leftovers, Alive
  <2>. QED
    BY <1>1, <2>1, CloseInv DEF ReceiveClose
<1>. QED
  BY <1>1, ReceiveOpenInv, ReceiveDataInv, WriteTargetInv, ConnectedInv, RefusedInv,
     CheckTableInv, ReadTargetInv, EndReaderInv
  DEF Serve, RunRelay

-------------------------------------------------------------------------------
(* What the steps of the client have in common *)

\* No step of the client but the allocation of an id makes a claim or a speaker: the
\* table's entry, the handler and the frame are of a stream that claims the id.
LEMMA ClientClaims ==
    ASSUME IInv, UNCHANGED serverVars,
           \A f \in net' : f \in net \/
              /\ f.type \in ClientTypes
              /\ f.type # "CLOSE" => Claims(f.id, f.of),
           \A i \in DOMAIN holder' :
              \/ i \in DOMAIN holder /\ holder'[i] = holder[i]
              \/ Claims(i, holder'[i]),
           \A s \in Streams :
              /\ stream'[s].phase \in {"allocated", "sending"} => Claims(stream'[s].id, s)
              /\ stream[s].left \subseteq stream'[s].left
    PROVE  OneClaimant' /\ SpeakersKnown'
<1>1. ASSUME NEW i \in Ids, NEW s \in Streams, Claims(i, s)'
      PROVE  Claims(i, s)
  <2>1. CASE HolderClaims(i, s)'
    BY <2>1 DEF Claims, HolderClaims
  <2>2. CASE HandlerClaims(i, s)'
    BY <2>2 DEF HandlerClaims
  <2>3. CASE FrameClaims(i, s)'
    <3>1. PICK f \in net' : f.type \in {"OPEN", "DATA", "ACK"} /\ f.id = i /\ Author(f)' = s
      BY <2>3 DEF FrameClaims
    <3>2. Author(f)' = Author(f)
      BY DEF Author, serverVars
    <3>3. CASE f \in net
      BY <3>1, <3>2, <3>3 DEF Claims, FrameClaims
    <3>4. CASE f \notin net
      <4>1. f.of = s /\ Claims(f.id, f.of)
        BY <3>1, <3>2, <3>4 DEF Author
      <4>. QED
        BY <3>1, <4>1
    <3>. QED
      BY <3>3, <3>4
  <2>4. CASE RelayClaims(i, s)'
    BY <2>4 DEF Claims, RelayClaims, serverVars
  <2>. QED
    BY <1>1, <2>1, <2>2, <2>3, <2>4 DEF Claims
<1>2. ASSUME NEW i \in Ids, NEW r \in DOMAIN relays, Speaks(i, r)'
      PROVE  Speaks(i, r)
  BY <1>2 DEF Speaks, Leftovers, Alive, ClientTypes, serverVars
<1>3. OneClaimant'
  BY <1>1 DEF IInv, OneClaimant
<1>4. SpeakersKnown'
  <2>1. RelaysGo /\ DOMAIN relays' = DOMAIN relays
    BY DEF RelaysGo, WasConnected, serverVars
  <2>. QED
    BY <1>1, <1>2, <2>1, OwnOrLeftStays DEF IInv, SpeakersKnown
<1>. QED
  BY <1>3, <1>4

LEMMA ClientStep ==
    ASSUME IInv, UNCHANGED serverVars,
           nextId' \in Ids, stream' \in [Streams -> Stream], net' \subseteq Frames,
           DOMAIN holder' \subseteq Ids, \A i \in DOMAIN holder' : holder'[i] \in Streams,
           \A f \in net' : f \in net \/
              /\ f.type \in ClientTypes
              /\ f.type = "DATA" => f.n # 0,
           \A s \in Streams :
              /\ stream[s].left \subseteq stream'[s].left
              /\ stream'[s].phase = "parsed" =>
                    stream[s].phase = "parsed" /\ stream'[s].left = stream[s].left,
           OneClaimant', SpeakersKnown', IdsTaken', OpenHeld', PiecesKnown', OpenedTrue'
    PROVE  IInv'
<1>1. TypeOK'
  BY DEF IInv, TypeOK, serverVars
<1>2. RelaysBounded' /\ TableTrue' /\ NoneLeft'
  BY DEF IInv, RelaysBounded, TableTrue, NoneLeft, serverVars
<1>3. FramesTrue'
  BY DEF IInv, FramesTrue, WasConnected, ClientTypes, serverVars
<1>4. ChunksKnown'
  BY ChunksStay DEF RelaysGo, WasConnected, serverVars
<1>. QED
  BY <1>1, <1>2, <1>3, <1>4 DEF IInv

\* What a step that gives no stream anything new to read or to believe keeps.
Alike(s) ==
    /\ stream'[s].inbound \in {stream[s].inbound, << >>}
    /\ stream'[s].written = stream[s].written
    /\ stream'[s].opened => stream[s].opened /\ (stream[s].error => stream'[s].error)
    /\ stream'[s].phase \in {"open", "sending"} => stream[s].phase \in {"open", "sending"}
    /\ stream[s].left \subseteq stream'[s].left

LEMMA AlikePieces ==
    ASSUME IInv, UNCHANGED serverVars, \A s \in Streams : Alike(s)
    PROVE  PiecesKnown' /\ OpenedTrue'
<1>1. DOMAIN << >> = {}
  OBVIOUS
<1>2. RelaysGo
  BY DEF RelaysGo, WasConnected, serverVars
<1>3. PiecesKnown'
  BY <1>1, <1>2, OwnOrLeftStays DEF IInv, PiecesKnown, Alike
<1>4. \A s \in Streams : HasRelay(s)' <=> HasRelay(s)
  BY DEF HasRelay, WasConnected, serverVars
<1>5. OpenedTrue'
  BY <1>4 DEF IInv, OpenedTrue, Alike
<1>. QED
  BY <1>3, <1>5

\* A step of one handler that leaves table and counter alone and sends nothing or
\* a frame it may send.
LEMMA HandlerStep ==
    ASSUME IInv, UNCHANGED <<nextId, holder, serverVars>>, NEW s \in Streams,
           NEW d \in Stream, stream' = [stream EXCEPT ![s] = d],
           \A f \in net' : f \in net \/
              /\ f \in Frames /\ f.type \in ClientTypes
              /\ f.type # "CLOSE" => Claims(f.id, f.of)
              /\ f.type = "DATA" => f.n # 0,
           d.id = stream[s].id, d.left = stream[s].left,
           d.phase \in {"parsed", "allocated", "opening"} => stream[s].phase = d.phase,
           d.phase \notin {"parsed", "done"} => stream[s].phase \notin {"parsed", "done"},
           d.phase \in {"open", "sending"} =>
              \/ stream[s].phase \in {"open", "sending"}
              \/ stream[s].phase = "opening" /\ d.conn,
           d.phase = "sending" => stream[s].phase = "sending" \/ Claims(stream[s].id, s),
           stream[s].closed => d.closed, ~stream[s].conn => ~d.conn,
           PiecesKnown', OpenedTrue'
    PROVE  IInv'
<1>1. stream' \in [Streams -> Stream] /\ stream'[s] = d
      /\ \A t \in Streams : t # s => stream'[t] = stream[t]
  BY DEF IInv, TypeOK
<1>2. OneClaimant' /\ SpeakersKnown'
  <2>1. \A t \in Streams :
           stream[t].phase \in {"allocated", "sending"} => Claims(stream[t].id, t)
    BY DEF Claims, HandlerClaims
  <2>. QED
    BY <1>1, <2>1, ClientClaims
<1>3. IdsTaken'
  BY <1>1 DEF IInv, IdsTaken
<1>4. OpenHeld'
  BY <1>1 DEF IInv, OpenHeld
<1>5. \A t \in Streams :
         /\ stream[t].left \subseteq stream'[t].left
         /\ stream'[t].phase = "parsed" =>
               stream[t].phase = "parsed" /\ stream'[t].left = stream[t].left
  BY <1>1
<1>. QED
  BY <1>1, <1>2, <1>3, <1>4, <1>5, ClientStep DEF IInv, TypeOK

-------------------------------------------------------------------------------
(* The client's steps *)

\* The only step that makes a claim: the id is taken when no claim to it is left, and
\* the relays that still speak under it are those that are left.
LEMMA AllocInv ==
    ASSUME IInv, NEW s \in Streams, Alloc(s)
    PROVE  IInv'
<1>1. PICK id \in FreeIds :
         /\ Rested(id) /\ nextId' = Successor(id)
         /\ stream' = [stream EXCEPT ![s].phase = "allocated", ![s].id = id,
                                     ![s].left = Leftovers(id)]
         /\ net' = Fresh(id)
  BY DEF Alloc
<1>2. stream[s].phase = "parsed" /\ UNCHANGED <<holder, serverVars>> /\ id \in Ids
      /\ id \notin DOMAIN holder
  BY DEF Alloc, FreeIds
<1>. DEFINE d == [stream[s] EXCEPT !.phase = "allocated", !.id = id, !.left = Leftovers(id)]
<1>3. stream[s] \in Stream /\ stream \in [Streams -> Stream]
  BY DEF IInv, TypeOK
<1>4. /\ d \in Stream /\ d.phase = "allocated" /\ d.id = id /\ d.left = Leftovers(id)
      /\ d.inbound = stream[s].inbound /\ d.written = stream[s].written
      /\ d.opened = stream[s].opened /\ d.error = stream[s].error
  <2>1. id \in 0 .. NumIds /\ "allocated" \in Phases
    BY <1>2, BoundAssumption DEF Ids, Phases
  <2>2. Leftovers(id) \in SUBSET Relays
    BY RelaysTyped DEF IInv, Leftovers, Alive
  <2>3. d \in Stream
    BY <1>3, <2>1, <2>2 DEF Stream
  <2>. QED
    BY <1>3, <2>3 DEF Stream
<1>5. stream' = [stream EXCEPT ![s] = d]
  BY <1>1, <1>3 DEF Stream
<1>. HIDE DEF d
<1>6. stream' \in [Streams -> Stream] /\ stream'[s] = d
      /\ \A t \in Streams : t # s => stream'[t] = stream[t]
  BY <1>3, <1>4, <1>5
<1>7. IdsTaken' /\ OpenHeld'
  BY <1>2, <1>4, <1>6 DEF IInv, IdsTaken, OpenHeld
<1>8. /\ stream[s].left = {}
      /\ \A t \in Streams : stream[t].left \subseteq stream'[t].left
  BY <1>2, <1>6 DEF IInv, NoneLeft
<1>9. PiecesKnown' /\ OpenedTrue'
  BY <1>2, <1>4, <1>6, <1>8, AlikePieces DEF Alike
<1>10. nextId' \in Ids
  BY <1>1, <1>2, BoundAssumption DEF Successor, Ids
<1>11. ASSUME NEW t \in Streams, Claims(id, t)' PROVE t = s
  <2>1. \A u \in Streams : ~HandlerClaims(id, u)
    BY <1>1, <1>2 DEF Rested, HandlerClaims
  <2>2. CASE HolderClaims(id, t)'
    BY <1>2, <2>2 DEF HolderClaims
  <2>3. CASE HandlerClaims(id, t)'
    BY <1>6, <2>1, <2>3 DEF HandlerClaims
  <2>4. CASE FrameClaims(id, t)'
    BY <1>1, <2>4 DEF FrameClaims, Fresh
  <2>5. CASE RelayClaims(id, t)'
    BY <1>1, <1>2, <2>5 DEF RelayClaims, Rested, serverVars
  <2>. QED
    BY <1>11, <2>2, <2>3, <2>4, <2>5 DEF Claims
<1>12. ASSUME NEW i \in Ids, i # id, NEW t \in Streams, Claims(i, t)' PROVE Claims(i, t)
  <2>1. CASE HolderClaims(i, t)'
    BY <1>2, <2>1 DEF Claims, HolderClaims
  <2>2. CASE HandlerClaims(i, t)'
    BY <1>4, <1>6, <1>12, <2>2 DEF Claims, HandlerClaims
  <2>3. CASE FrameClaims(i, t)'
    BY <1>1, <1>2, <2>3 DEF Claims, FrameClaims, Fresh, Author, serverVars
  <2>4. CASE RelayClaims(i, t)'
    BY <1>2, <2>4 DEF Claims, RelayClaims, serverVars
  <2>. QED
    BY <1>12, <2>1, <2>2, <2>3, <2>4 DEF Claims
<1>13. OneClaimant'
  BY <1>11, <1>12 DEF IInv, OneClaimant
<1>14. SpeakersKnown'
  <2>1. ASSUME NEW i \in Ids, NEW r, Speaks(i, r)' PROVE Speaks(i, r)
    BY <1>1, <1>2, <2>1 DEF Speaks, Leftovers, Alive, Fresh, serverVars
  <2>2. ASSUME NEW r, Speaks(id, r)' PROVE r \in Leftovers(id)
    BY <1>1, <1>2, <2>2 DEF Speaks, Leftovers, Alive, Fresh, serverVars
  <2>3. RelaysGo /\ DOMAIN relays' = DOMAIN relays
    BY <1>2 DEF RelaysGo, WasConnected, serverVars
  <2>4. ASSUME NEW i \in Ids, NEW t \in Streams, NEW r \in DOMAIN relays,
               Claims(i, t)', Speaks(i, r)'
        PROVE  OwnOrLeft(t, r)'
    <3>1. CASE i = id
      BY <1>4, <1>6, <1>11, <2>2, <2>4, <3>1 DEF OwnOrLeft
    <3>2. CASE i # id
      <4>1. OwnOrLeft(t, r)
        BY <1>12, <2>1, <2>4, <3>2 DEF IInv, SpeakersKnown
      <4>. QED
        BY <1>8, <2>3, <4>1, OwnOrLeftStays
    <3>. QED
      BY <3>1, <3>2
  <2>. QED
    BY <2>3, <2>4 DEF SpeakersKnown
<1>15. net' \subseteq net
  BY <1>1 DEF Fresh
<1>16. \A t \in Streams : stream'[t].phase = "parsed" =>
          stream[t].phase = "parsed" /\ stream'[t].left = stream[t].left
  BY <1>4, <1>6
<1>. QED
  BY <1>2, <1>6, <1>7, <1>8, <1>9, <1>10, <1>13, <1>14, <1>15, <1>16, ClientStep
  DEF IInv, TypeOK

LEMMA RegisterInv ==
    ASSUME IInv, NEW s \in Streams, Register(s)
    PROVE  IInv'
<1>. DEFINE id == stream[s].id
            d == [stream[s] EXCEPT !.phase = "opening"]
            f == Frame("OPEN", id, s, 0)
<1>1. stream[s] \in Stream /\ stream \in [Streams -> Stream]
  BY DEF IInv, TypeOK
<1>2. /\ stream[s].phase = "allocated" /\ holder' = With(holder, id, s)
      /\ stream' = [stream EXCEPT ![s] = d] /\ net' = net \cup {f}
      /\ UNCHANGED <<nextId, serverVars>>
  BY DEF Register
<1>3. id \in Ids
  BY <1>2 DEF IInv, IdsTaken
<1>4. f \in Frames /\ f.type = "OPEN" /\ f.of = s /\ f.id = id
  BY <1>3, ClientFrameTyped, BoundAssumption DEF ClientTypes
<1>5. /\ d \in Stream /\ d.phase = "opening" /\ d.id = id /\ d.left = stream[s].left
      /\ d.inbound = stream[s].inbound /\ d.written = stream[s].written
      /\ d.opened = stream[s].opened /\ d.error = stream[s].error
  BY <1>1 DEF Stream, Phases
<1>. HIDE DEF d, f
<1>6. stream' \in [Streams -> Stream] /\ stream'[s] = d
      /\ \A t \in Streams : t # s => stream'[t] = stream[t]
  BY <1>1, <1>2, <1>5
<1>7. /\ DOMAIN holder' = DOMAIN holder \cup {id} /\ holder'[id] = s
      /\ \A i \in DOMAIN holder : i # id => holder'[i] = holder[i]
  BY <1>2 DEF With
<1>8. HandlerClaims(id, s)
  BY <1>2 DEF HandlerClaims
<1>9. OneClaimant' /\ SpeakersKnown'
  <2>1. \A i \in DOMAIN holder' :
           \/ i \in DOMAIN holder /\ holder'[i] = holder[i]
           \/ Claims(i, holder'[i])
    BY <1>7, <1>8 DEF Claims
  <2>2. \A g \in net' : g \in net \/
           /\ g.type \in ClientTypes
           /\ g.type # "CLOSE" => Claims(g.id, g.of)
    BY <1>2, <1>4, <1>8 DEF Claims, ClientTypes
  <2>3. \A t \in Streams :
           /\ stream'[t].phase \in {"allocated", "sending"} => Claims(stream'[t].id, t)
           /\ stream[t].left \subseteq stream'[t].left
    BY <1>2, <1>5, <1>6 DEF Claims, HandlerClaims
  <2>. QED
    BY <1>2, <2>1, <2>2, <2>3, ClientClaims
<1>10. IdsTaken'
  BY <1>3, <1>5, <1>6 DEF IInv, IdsTaken
<1>11. OpenHeld'
  <2>1. ASSUME NEW t \in Streams, stream[t].phase \in {"opening", "open", "sending"},
               stream[t].id \in DOMAIN holder, holder[stream[t].id] = t
        PROVE  stream[t].id # id
    <3>1. SUFFICES ASSUME stream[t].id = id PROVE FALSE
      OBVIOUS
    <3>2. Claims(id, t) /\ Claims(id, s)
      BY <1>8, <2>1, <3>1 DEF Claims, HolderClaims
    <3>3. t = s
      BY <1>3, <3>2 DEF IInv, OneClaimant
    <3>. QED
      BY <1>2, <2>1, <3>3
  <2>. QED
    BY <1>5, <1>6, <1>7, <2>1 DEF IInv, OpenHeld
<1>12. PiecesKnown' /\ OpenedTrue'
  BY <1>2, <1>5, <1>6, AlikePieces DEF Alike
<1>13. \A t \in Streams :
          /\ stream[t].left \subseteq stream'[t].left
          /\ stream'[t].phase = "parsed" =>
                stream[t].phase = "parsed" /\ stream'[t].left = stream[t].left
  BY <1>5, <1>6
<1>. QED
  BY <1>2, <1>3, <1>4, <1>6, <1>7, <1>9, <1>10, <1>11, <1>12, <1>13, ClientStep
  DEF IInv, TypeOK, ClientTypes

\* The handler gives up, or ends: nothing it is told or believes changes.
LEMMA HandlerEnds ==
    ASSUME IInv, UNCHANGED <<nextId, holder, serverVars, net>>, NEW s \in Streams,
           NEW d \in Stream, stream' = [stream EXCEPT ![s] = d],
           \/ d.phase = "done"
           \/ d.phase = "closing" /\ stream[s].phase \notin {"parsed", "done"},
           d.id = stream[s].id, d.opened = stream[s].opened, d.error = stream[s].error,
           d.inbound = stream[s].inbound, d.written = stream[s].written,
           d.left = stream[s].left,
           d.closed = stream[s].closed, ~stream[s].conn => ~d.conn
    PROVE  IInv'
<1>1. stream'[s] = d /\ \A t \in Streams : t # s => stream'[t] = stream[t]
  BY DEF IInv, TypeOK
<1>2. \A t \in Streams : Alike(t)
  BY <1>1 DEF Alike
<1>3. PiecesKnown' /\ OpenedTrue'
  BY <1>2, AlikePieces
<1>. QED
  BY <1>3, HandlerStep

LEMMA AllocFailsInv ==
    ASSUME IInv, NEW s \in Streams, AllocFails(s)
    PROVE  IInv'
<1>. DEFINE d == [stream[s] EXCEPT !.phase = "done", !.conn = FALSE]
<1>1. stream[s] \in Stream /\ stream \in [Streams -> Stream]
  BY DEF IInv, TypeOK
<1>2. d \in Stream
  BY <1>1 DEF Stream, Phases
<1>3. /\ d.phase = "done" /\ ~d.conn /\ d.closed = stream[s].closed
      /\ d.id = stream[s].id /\ d.opened = stream[s].opened /\ d.error = stream[s].error
      /\ d.inbound = stream[s].inbound /\ d.written = stream[s].written
      /\ d.left = stream[s].left
  BY <1>1 DEF Stream
<1>4. stream' = [stream EXCEPT ![s] = d] /\ UNCHANGED <<nextId, holder, serverVars, net>>
  BY <1>1 DEF AllocFails, Stream
<1>. HIDE DEF d
<1>. QED
  BY <1>2, <1>3, <1>4, HandlerEnds

\* The open timed out, or was refused; the local connection ended.
LEMMA ClosingInv ==
    ASSUME IInv, NEW s \in Streams, UNCHANGED <<nextId, holder, serverVars, net>>,
           stream[s].phase \in {"opening", "open"},
           stream' = [stream EXCEPT ![s].phase = "closing"]
    PROVE  IInv'
<1>. DEFINE d == [stream[s] EXCEPT !.phase = "closing"]
<1>1. stream[s] \in Stream /\ stream \in [Streams -> Stream]
  BY DEF IInv, TypeOK
<1>2. d \in Stream
  BY <1>1 DEF Stream, Phases
<1>3. /\ d.phase = "closing" /\ d.conn = stream[s].conn /\ d.closed = stream[s].closed
      /\ d.id = stream[s].id /\ d.opened = stream[s].opened /\ d.error = stream[s].error
      /\ d.inbound = stream[s].inbound /\ d.written = stream[s].written
      /\ d.left = stream[s].left
  BY <1>1 DEF Stream
<1>4. stream' = [stream EXCEPT ![s] = d] /\ stream[s].phase \notin {"parsed", "done"}
  BY <1>1 DEF Stream
<1>. HIDE DEF d
<1>5. /\ \/ d.phase = "done"
         \/ d.phase = "closing" /\ stream[s].phase \notin {"parsed", "done"}
      /\ ~stream[s].conn => ~d.conn
  BY <1>3, <1>4
<1>. QED
  BY <1>2, <1>3, <1>4, <1>5, HandlerEnds, Zenon

\* A handler whose connection is not closed still holds its id.
LEMMA HolderHolds ==
    ASSUME IInv, NEW s \in Streams, stream[s].conn,
           stream[s].phase \in {"opening", "open"}
    PROVE  Claims(stream[s].id, s)
  BY DEF IInv, OpenHeld, Claims, HolderClaims

\* "200 Connection Established": opened, and not by a refusal.
LEMMA OpenedInv ==
    ASSUME IInv, NEW s \in Streams, Opened(s)
    PROVE  IInv'
<1>1. CASE stream[s].error \/ ~stream[s].conn
  BY <1>1, ClosingInv DEF Opened
<1>2. CASE ~(stream[s].error \/ ~stream[s].conn)
  <2>1. PICK next \in {"open", "sending"} :
           stream' = [stream EXCEPT ![s].phase = next, ![s].writer = "running"]
    BY <1>2 DEF Opened
  <2>. DEFINE d == [stream[s] EXCEPT !.phase = next, !.writer = "running"]
  <2>2. stream[s] \in Stream /\ stream \in [Streams -> Stream]
    BY DEF IInv, TypeOK
  <2>3. d \in Stream
    BY <2>2 DEF Stream, Phases
  <2>4. /\ d.phase = next /\ d.conn = stream[s].conn /\ d.closed = stream[s].closed
        /\ d.id = stream[s].id /\ d.opened = stream[s].opened /\ d.error = stream[s].error
        /\ d.inbound = stream[s].inbound /\ d.written = stream[s].written
        /\ d.left = stream[s].left
    BY <2>2 DEF Stream
  <2>5. stream' = [stream EXCEPT ![s] = d]
    BY <2>1, <2>2 DEF Stream
  <2>6. stream[s].phase = "opening" /\ UNCHANGED <<nextId, holder, serverVars, net>>
    BY DEF Opened
  <2>7. d.phase \in {"open", "sending"}
    BY <2>1, <2>4
  <2>. HIDE DEF d
  <2>8. stream'[s] = d /\ \A t \in Streams : t # s => stream'[t] = stream[t]
    BY <2>2, <2>5
  <2>9. HasRelay(s)
    BY <1>2 DEF IInv, OpenedTrue, Opened
  <2>10. OpenedTrue'
    BY <2>4, <2>6, <2>8, <2>9 DEF IInv, OpenedTrue, HasRelay, WasConnected, serverVars
  <2>11. PiecesKnown'
    BY <2>4, <2>6, <2>8 DEF IInv, PiecesKnown, OwnOrLeft, serverVars
  <2>12. Claims(stream[s].id, s) /\ d.conn
    BY <1>2, <2>4, <2>6, HolderHolds
  <2>. QED
    BY <2>3, <2>4, <2>5, <2>6, <2>7, <2>10, <2>11, <2>12, HandlerStep
<1>. QED
  BY <1>1, <1>2

LEMMA ReadLocalInv ==
    ASSUME IInv, NEW s \in Streams, ReadLocal(s)
    PROVE  IInv'
<1>. DEFINE d == [stream[s] EXCEPT !.phase = "sending"]
<1>1. stream[s] \in Stream /\ stream \in [Streams -> Stream]
  BY DEF IInv, TypeOK
<1>2. /\ stream[s].phase = "open" /\ stream[s].conn /\ stream' = [stream EXCEPT ![s] = d]
      /\ UNCHANGED <<nextId, holder, serverVars, net>>
  BY DEF ReadLocal
<1>3. d \in Stream
  BY <1>1 DEF Stream, Phases
<1>4. /\ d.phase = "sending" /\ d.conn = stream[s].conn /\ d.closed = stream[s].closed
      /\ d.id = stream[s].id /\ d.opened = stream[s].opened /\ d.error = stream[s].error
      /\ d.inbound = stream[s].inbound /\ d.written = stream[s].written
      /\ d.left = stream[s].left
  BY <1>1 DEF Stream
<1>5. Claims(stream[s].id, s)
  BY <1>2, HolderHolds
<1>. HIDE DEF d
<1>6. stream'[s] = d /\ \A t \in Streams : t # s => stream'[t] = stream[t]
  BY <1>1, <1>2
<1>7. \A t \in Streams : Alike(t)
  BY <1>2, <1>4, <1>6 DEF Alike
<1>8. PiecesKnown' /\ OpenedTrue'
  BY <1>2, <1>7, AlikePieces
<1>. QED
  BY <1>2, <1>3, <1>4, <1>5, <1>8, HandlerStep

\* A handler that has data in hand claims the id, whoever holds it.
LEMMA SendChunkInv ==
    ASSUME IInv, NEW s \in Streams, SendChunk(s)
    PROVE  IInv'
<1>. DEFINE n == stream[s].sent + 1
            f == Frame("DATA", stream[s].id, s, n)
<1>1. stream[s] \in Stream /\ stream \in [Streams -> Stream]
  BY DEF IInv, TypeOK
<1>2. /\ stream[s].phase = "sending" /\ n <= MaxChunks /\ net' = net \cup {f}
      /\ UNCHANGED <<nextId, holder, serverVars>>
  BY DEF SendChunk
<1>3. PICK next \in {"open", "sending", "closing"} :
         stream' = [stream EXCEPT ![s].phase = next, ![s].sent = n]
  BY DEF SendChunk
<1>4. n \in 0 .. MaxChunks /\ n # 0
  BY <1>1, <1>2, BoundAssumption DEF Stream
<1>. DEFINE d == [stream[s] EXCEPT !.phase = next, !.sent = n]
<1>5. d \in Stream
  BY <1>1, <1>4 DEF Stream, Phases
<1>6. /\ d.phase = next /\ d.conn = stream[s].conn /\ d.closed = stream[s].closed
      /\ d.id = stream[s].id /\ d.opened = stream[s].opened /\ d.error = stream[s].error
      /\ d.inbound = stream[s].inbound /\ d.written = stream[s].written
      /\ d.left = stream[s].left
  BY <1>1 DEF Stream
<1>7. stream' = [stream EXCEPT ![s] = d]
  BY <1>1, <1>3 DEF Stream
<1>8. stream[s].id \in Ids
  BY <1>2 DEF IInv, IdsTaken
<1>9. /\ f \in Frames /\ f.type = "DATA" /\ f.of = s /\ f.id = stream[s].id /\ f.n # 0
  BY <1>4, <1>8, ClientFrameTyped DEF ClientTypes
<1>10. Claims(stream[s].id, s)
  BY <1>2 DEF Claims, HandlerClaims
<1>. HIDE DEF d, f, n
<1>11. stream'[s] = d /\ \A t \in Streams : t # s => stream'[t] = stream[t]
  BY <1>1, <1>7
<1>12. \A t \in Streams : Alike(t)
  BY <1>2, <1>6, <1>11 DEF Alike
<1>13. PiecesKnown' /\ OpenedTrue'
  BY <1>2, <1>12, AlikePieces
<1>14. \A g \in net' : g \in net \/
          /\ g \in Frames /\ g.type \in ClientTypes
          /\ g.type # "CLOSE" => Claims(g.id, g.of)
          /\ g.type = "DATA" => g.n # 0
  BY <1>2, <1>9, <1>10 DEF ClientTypes
<1>15. d.phase \notin {"parsed", "allocated", "opening", "done"} /\ d.phase # "parsed"
  BY <1>3, <1>6
<1>16. /\ d.id = stream[s].id /\ d.left = stream[s].left
       /\ d.phase \in {"parsed", "allocated", "opening"} => stream[s].phase = d.phase
       /\ d.phase \notin {"parsed", "done"} => stream[s].phase \notin {"parsed", "done"}
       /\ stream[s].phase \in {"open", "sending"}
       /\ stream[s].closed => d.closed
       /\ ~stream[s].conn => ~d.conn
  BY <1>2, <1>6, <1>15
<1>. QED
  BY <1>2, <1>5, <1>7, <1>10, <1>13, <1>14, <1>16, HandlerStep

\* Whoever holds an id is closed with it.
LEMMA ReleasedClosed ==
    ASSUME NEW st \in [Streams -> Stream], NEW h \in Streams
    PROVE  /\ Released(st, h) \in [Streams -> Stream]
           /\ \A t \in Streams : t # h => Released(st, h)[t] = st[t]
           /\ Released(st, h)[h].closed /\ ~Released(st, h)[h].conn
           /\ Released(st, h)[h].phase = st[h].phase
           /\ Released(st, h)[h].id = st[h].id
           /\ Released(st, h)[h].opened = st[h].opened
           /\ Released(st, h)[h].error = st[h].error
           /\ Released(st, h)[h].inbound = st[h].inbound
           /\ Released(st, h)[h].written = st[h].written
           /\ Released(st, h)[h].left = st[h].left
<1>. DEFINE d == [st[h] EXCEPT !.closed = TRUE, !.conn = FALSE]
<1>1. st[h] \in Stream
  OBVIOUS
<1>2. d \in Stream
  BY <1>1 DEF Stream
<1>3. /\ d.closed /\ ~d.conn /\ d.phase = st[h].phase /\ d.id = st[h].id
      /\ d.opened = st[h].opened /\ d.error = st[h].error
      /\ d.inbound = st[h].inbound /\ d.written = st[h].written
      /\ d.left = st[h].left
  BY <1>1 DEF Stream
<1>4. Released(st, h) = [st EXCEPT ![h] = d]
  BY <1>1 DEF Released, Stream
<1>. HIDE DEF d
<1>. QED
  BY <1>2, <1>3, <1>4

\* The handler of a stream may outlive its claim to the id: what it closes then
\* is the stream that has it now, and that one is told.
LEMMA CloseStreamInv ==
    ASSUME IInv, NEW s \in Streams, CloseStream(s)
    PROVE  IInv'
<1>. DEFINE id == stream[s].id
            c == [NewStream EXCEPT
                     !.phase = "done", !.conn = FALSE, !.closed = stream[s].closed,
                     !.written = stream[s].written, !.writer = stream[s].writer,
                     !.left = stream[s].left]
            own == [stream EXCEPT ![s] = c]
            f == Frame("CLOSE", id, s, 0)
<1>1. stream[s] \in Stream /\ stream \in [Streams -> Stream]
  BY DEF IInv, TypeOK
<1>2. /\ stream[s].phase = "closing" /\ net' = net \cup {f} /\ holder' = Without(holder, id)
      /\ stream' = IF id \in DOMAIN holder THEN Released(own, holder[id]) ELSE own
      /\ UNCHANGED <<nextId, serverVars>>
  BY DEF CloseStream
<1>3. c \in Stream
  BY <1>1, NewStreamTyped DEF Stream, Phases
<1>4. /\ c.phase = "done" /\ ~c.opened /\ c.inbound = << >>
      /\ c.written = stream[s].written /\ c.left = stream[s].left
  BY <1>1 DEF NewStream
<1>5. id \in Ids
  BY <1>2 DEF IInv, IdsTaken
<1>6. f \in Frames /\ f.type = "CLOSE"
  BY <1>5, ClientFrameTyped, BoundAssumption DEF ClientTypes
<1>. HIDE DEF c, f
<1>7. own \in [Streams -> Stream] /\ own[s] = c /\ \A t \in Streams : t # s => own[t] = stream[t]
  BY <1>1, <1>3
<1>8. id \in DOMAIN holder => holder[id] \in Streams
  BY DEF IInv, TypeOK
<1>. HIDE DEF own
<1>9. /\ stream' \in [Streams -> Stream]
      /\ \A t \in Streams :
            /\ stream'[t].phase = own[t].phase /\ stream'[t].id = own[t].id
            /\ stream'[t].opened = own[t].opened /\ stream'[t].error = own[t].error
            /\ stream'[t].inbound = own[t].inbound /\ stream'[t].written = own[t].written
            /\ stream'[t].left = own[t].left
            /\ \/ stream'[t].closed = own[t].closed /\ stream'[t].conn = own[t].conn
               \/ stream'[t].closed /\ ~stream'[t].conn
            /\ id \in DOMAIN holder /\ holder[id] = t => stream'[t].closed /\ ~stream'[t].conn
  <2>1. CASE id \in DOMAIN holder
    <3>. DEFINE h == holder[id]
    <3>1. h \in Streams /\ stream' = Released(own, h) /\ h = holder[id]
      BY <1>2, <1>8, <2>1
    <3>. HIDE DEF h
    <3>2. /\ stream' \in [Streams -> Stream]
          /\ \A t \in Streams : t # h => stream'[t] = own[t]
          /\ stream'[h].closed /\ ~stream'[h].conn
          /\ stream'[h].phase = own[h].phase /\ stream'[h].id = own[h].id
          /\ stream'[h].opened = own[h].opened /\ stream'[h].error = own[h].error
          /\ stream'[h].inbound = own[h].inbound /\ stream'[h].written = own[h].written
          /\ stream'[h].left = own[h].left
      BY <1>7, <3>1, ReleasedClosed
    <3>. QED
      BY <3>1, <3>2
  <2>2. CASE id \notin DOMAIN holder
    BY <1>2, <1>7, <2>2
  <2>. QED
    BY <2>1, <2>2
<1>10. /\ DOMAIN holder' = DOMAIN holder \ {id}
       /\ \A i \in DOMAIN holder' : holder'[i] = holder[i]
  BY <1>2 DEF Without
<1>11. \A t \in Streams : Alike(t)
  <2>1. Alike(s)
    BY <1>4, <1>7, <1>9 DEF Alike
  <2>2. ASSUME NEW t \in Streams, t # s PROVE Alike(t)
    BY <1>7, <1>9, <2>2 DEF Alike
  <2>. QED
    BY <2>1, <2>2
<1>12. PiecesKnown' /\ OpenedTrue'
  BY <1>2, <1>11, AlikePieces
<1>13. IdsTaken'
  BY <1>4, <1>7, <1>9 DEF IInv, IdsTaken
<1>14. OpenHeld'
  BY <1>4, <1>7, <1>9, <1>10 DEF IInv, OpenHeld
<1>15. OneClaimant' /\ SpeakersKnown'
  <2>1. \A g \in net' : g \in net \/
           /\ g.type \in ClientTypes
           /\ g.type # "CLOSE" => Claims(g.id, g.of)
    BY <1>2, <1>6 DEF ClientTypes
  <2>2. \A t \in Streams :
           /\ stream'[t].phase \in {"allocated", "sending"} => Claims(stream'[t].id, t)
           /\ stream[t].left \subseteq stream'[t].left
    BY <1>4, <1>7, <1>9 DEF Claims, HandlerClaims
  <2>. QED
    BY <1>2, <1>10, <2>1, <2>2, ClientClaims
<1>16. net' \subseteq Frames /\ nextId' \in Ids
       /\ DOMAIN holder' \subseteq Ids /\ \A i \in DOMAIN holder' : holder'[i] \in Streams
  BY <1>2, <1>6, <1>10 DEF IInv, TypeOK
<1>17. \A g \in net' : g \in net \/
          /\ g.type \in ClientTypes
          /\ g.type = "DATA" => g.n # 0
  BY <1>2, <1>6 DEF ClientTypes
<1>18. \A t \in Streams :
          /\ stream[t].left \subseteq stream'[t].left
          /\ stream'[t].phase = "parsed" =>
                stream[t].phase = "parsed" /\ stream'[t].left = stream[t].left
  BY <1>4, <1>7, <1>9
<1>. QED
  BY <1>2, <1>9, <1>12, <1>13, <1>14, <1>15, <1>16, <1>17, <1>18, ClientStep

LEMMA WriterInv ==
    ASSUME IInv, NEW s \in Streams, Writer(s)
    PROVE  IInv'
<1>1. stream[s] \in Stream /\ stream \in [Streams -> Stream]
  BY DEF IInv, TypeOK
<1>2. UNCHANGED <<nextId, holder, serverVars, net>>
  BY DEF Writer
<1>3. CASE stream' = [stream EXCEPT ![s].writer = "ended", ![s].closed = TRUE]
  <2>. DEFINE d == [stream[s] EXCEPT !.writer = "ended", !.closed = TRUE]
  <2>1. d \in Stream
    BY <1>1 DEF Stream
  <2>2. /\ d.phase = stream[s].phase /\ d.conn = stream[s].conn /\ d.closed
        /\ d.id = stream[s].id /\ d.opened = stream[s].opened /\ d.error = stream[s].error
        /\ d.inbound = stream[s].inbound /\ d.written = stream[s].written
        /\ d.left = stream[s].left
    BY <1>1 DEF Stream
  <2>3. stream' = [stream EXCEPT ![s] = d]
    BY <1>1, <1>3 DEF Stream
  <2>. HIDE DEF d
  <2>4. stream'[s] = d /\ \A t \in Streams : t # s => stream'[t] = stream[t]
    BY <1>1, <2>3
  <2>5. \A t \in Streams : Alike(t)
    BY <2>2, <2>4 DEF Alike
  <2>6. PiecesKnown' /\ OpenedTrue'
    BY <1>2, <2>5, AlikePieces
  <2>. QED
    BY <1>2, <2>1, <2>2, <2>3, <2>6, HandlerStep
<1>4. CASE /\ stream[s].inbound # << >>
           /\ Head(stream[s].inbound) # Closing
           /\ stream' = [stream EXCEPT
                            ![s].written = Append(@, Head(stream[s].inbound)),
                            ![s].inbound = Tail(@)]
  <2>. DEFINE in == stream[s].inbound
              out == stream[s].written
              d == [stream[s] EXCEPT !.written = Append(out, Head(in)), !.inbound = Tail(in)]
  <2>1. in \in Seq(Pieces) /\ out \in Seq(Pieces) /\ in # << >>
    BY <1>1, <1>4 DEF Stream
  <2>2. /\ Head(in) \in Pieces /\ Tail(in) \in Seq(Pieces) /\ Head(in) = in[1] /\ 1 \in DOMAIN in
        /\ \A i \in DOMAIN Tail(in) : i + 1 \in DOMAIN in /\ Tail(in)[i] = in[i + 1]
    BY <2>1, HeadTailProperties, LenProperties
  <2>3. /\ Append(out, Head(in)) \in Seq(Pieces)
        /\ \A i \in DOMAIN Append(out, Head(in)) :
              \/ i \in DOMAIN out /\ Append(out, Head(in))[i] = out[i]
              \/ Append(out, Head(in))[i] = in[1]
    BY <2>1, <2>2, AppendProperties, LenProperties
  <2>4. d \in Stream
    BY <1>1, <2>2, <2>3 DEF Stream
  <2>5. /\ d.phase = stream[s].phase /\ d.conn = stream[s].conn /\ d.closed = stream[s].closed
        /\ d.id = stream[s].id /\ d.opened = stream[s].opened /\ d.error = stream[s].error
        /\ d.inbound = Tail(in) /\ d.written = Append(out, Head(in))
        /\ d.left = stream[s].left
    BY <1>1 DEF Stream
  <2>6. stream' = [stream EXCEPT ![s] = d]
    BY <1>1, <1>4 DEF Stream
  <2>7. in = stream[s].inbound /\ out = stream[s].written
    OBVIOUS
  <2>. HIDE DEF d, in, out
  <2>8. stream'[s] = d /\ \A t \in Streams : t # s => stream'[t] = stream[t]
    BY <1>1, <2>6
  <2>9. in[1] # Closing
    BY <1>4, <2>2, <2>7
  <2>10. PiecesKnown'
    <3>1. \A i \in DOMAIN d.inbound : d.inbound[i] # Closing =>
             d.inbound[i][1] \in DOMAIN relays /\ OwnOrLeft(s, d.inbound[i][1])
      BY <2>2, <2>5, <2>7 DEF IInv, PiecesKnown
    <3>2. \A i \in DOMAIN d.written :
             d.written[i][1] \in DOMAIN relays /\ OwnOrLeft(s, d.written[i][1])
      BY <2>2, <2>3, <2>5, <2>7, <2>9 DEF IInv, PiecesKnown
    <3>. QED
      BY <1>2, <2>5, <2>8, <3>1, <3>2, ZenonT(30) DEF IInv, PiecesKnown, OwnOrLeft, serverVars
  <2>11. OpenedTrue'
    BY <1>2, <2>5, <2>8 DEF IInv, OpenedTrue, HasRelay, WasConnected, serverVars
  <2>. QED
    BY <1>2, <2>4, <2>5, <2>6, <2>10, <2>11, HandlerStep
<1>. QED
  BY <1>3, <1>4 DEF Writer

-------------------------------------------------------------------------------
(* The listener *)

\* An ACK reaches the stream the relay was opened for, a REPLY that stream or one the
\* relay was left to.
LEMMA FrameReaches ==
    ASSUME IInv, NEW f \in net, f.type \notin ClientTypes, f.id \in DOMAIN holder
    PROVE  /\ holder[f.id] \in Streams
           /\ f.of \in DOMAIN relays
           /\ f.type = "ACK" => relays[f.of].of = holder[f.id]
           /\ f.type = "REPLY" => OwnOrLeft(holder[f.id], f.of)
<1>1. f \in Frames /\ f.id \in Ids /\ holder[f.id] \in Streams /\ f.of \in DOMAIN relays
  BY FrameKinds DEF IInv, TypeOK, FramesTrue
<1>2. relays[f.of] \in Relay
  BY <1>1, RelaysTyped DEF IInv
<1>3. relays[f.of].of \in Streams
  BY <1>2 DEF Relay
<1>4. Claims(f.id, holder[f.id])
  BY DEF Claims, HolderClaims
<1>5. ASSUME f.type = "ACK" PROVE relays[f.of].of = holder[f.id]
  <2>1. Claims(f.id, relays[f.of].of)
    BY <1>5 DEF Claims, FrameClaims, Author
  <2>. QED
    BY <1>1, <1>3, <1>4, <2>1 DEF IInv, OneClaimant
<1>6. ASSUME f.type = "REPLY" PROVE OwnOrLeft(holder[f.id], f.of)
  <2>1. Speaks(f.id, f.of)
    BY <1>6 DEF Speaks
  <2>. QED
    BY <1>1, <1>4, <2>1 DEF IInv, SpeakersKnown
<1>. QED
  BY <1>1, <1>5, <1>6

LEMMA HandleAckInv ==
    ASSUME IInv, NEW f \in net, HandleAck(f), UNCHANGED <<serverVars, net>>
    PROVE  IInv'
<1>. DEFINE s == holder[f.id]
            d == [stream[s] EXCEPT !.opened = TRUE]
<1>1. /\ f.type = "ACK" /\ f.id \in DOMAIN holder
      /\ stream' = [stream EXCEPT ![s].opened = TRUE]
      /\ UNCHANGED <<nextId, holder, serverVars, net>>
  BY DEF HandleAck
<1>2. s \in Streams /\ f.of \in DOMAIN relays /\ relays[f.of].of = s /\ WasConnected(f.of)
  BY <1>1, FrameReaches DEF ClientTypes, IInv, FramesTrue
<1>. HIDE DEF s
<1>3. stream[s] \in Stream /\ stream \in [Streams -> Stream]
  BY <1>2 DEF IInv, TypeOK
<1>4. d \in Stream
  BY <1>3 DEF Stream
<1>5. /\ d.phase = stream[s].phase /\ d.conn = stream[s].conn /\ d.closed = stream[s].closed
      /\ d.id = stream[s].id /\ d.error = stream[s].error
      /\ d.inbound = stream[s].inbound /\ d.written = stream[s].written
      /\ d.left = stream[s].left
  BY <1>3 DEF Stream
<1>6. stream' = [stream EXCEPT ![s] = d]
  BY <1>1, <1>3 DEF Stream
<1>. HIDE DEF d
<1>7. stream'[s] = d /\ \A t \in Streams : t # s => stream'[t] = stream[t]
  BY <1>2, <1>3, <1>6
<1>8. HasRelay(s)
  BY <1>2 DEF HasRelay
<1>9. OpenedTrue'
  BY <1>1, <1>5, <1>7, <1>8 DEF IInv, OpenedTrue, HasRelay, WasConnected, serverVars
<1>10. PiecesKnown'
  BY <1>1, <1>5, <1>7, SMTT(20) DEF IInv, PiecesKnown, OwnOrLeft, serverVars
<1>11. /\ \A g \in net' : g \in net
       /\ d.phase = "sending" => stream[s].phase = "sending" \/ Claims(stream[s].id, s)
       /\ stream[s].closed => d.closed
       /\ ~stream[s].conn => ~d.conn
       /\ d.phase \in {"open", "sending"} => stream[s].phase \in {"open", "sending"}
  BY <1>1, <1>5
<1>. QED
  BY <1>1, <1>2, <1>4, <1>5, <1>6, <1>9, <1>10, <1>11, HandlerStep

LEMMA HandleReplyInv ==
    ASSUME IInv, NEW f \in net, HandleReply(f), UNCHANGED <<serverVars, net>>
    PROVE  IInv'
<1>. DEFINE s == holder[f.id]
            in == Append(stream[s].inbound, <<f.of, f.n>>)
            d == [stream[s] EXCEPT !.inbound = in]
<1>1. /\ f.type = "REPLY" /\ f.id \in DOMAIN holder
      /\ stream' = [stream EXCEPT ![s].inbound = in]
      /\ UNCHANGED <<nextId, holder, serverVars, net>>
  BY DEF HandleReply
<1>2. s \in Streams /\ f.of \in DOMAIN relays /\ OwnOrLeft(s, f.of)
  BY <1>1, FrameReaches DEF ClientTypes
<1>3. <<f.of, f.n>> \in Pieces
  <2>1. f \in Frames /\ f.n # 0
    BY <1>1 DEF IInv, TypeOK, FramesTrue
  <2>2. f.of \in Relays /\ f.n \in 0 .. MaxReplies
    BY <1>1, <2>1, FrameKinds DEF ClientTypes
  <2>3. f.n \in 1 .. MaxReplies
    BY <2>1, <2>2, BoundAssumption
  <2>. QED
    BY <2>2, <2>3 DEF Pieces
<1>. HIDE DEF s
<1>4. stream[s] \in Stream /\ stream \in [Streams -> Stream]
  BY <1>2 DEF IInv, TypeOK
<1>5. /\ in \in Seq(Pieces)
      /\ \A i \in DOMAIN in : \/ i \in DOMAIN stream[s].inbound /\ in[i] = stream[s].inbound[i]
                              \/ in[i] = <<f.of, f.n>>
  <2>1. stream[s].inbound \in Seq(Pieces)
    BY <1>4 DEF Stream
  <2>. QED
    BY <1>3, <2>1, AppendProperties, LenProperties
<1>. HIDE DEF in
<1>6. d \in Stream
  BY <1>4, <1>5 DEF Stream
<1>7. /\ d.phase = stream[s].phase /\ d.conn = stream[s].conn /\ d.closed = stream[s].closed
      /\ d.id = stream[s].id /\ d.opened = stream[s].opened /\ d.error = stream[s].error
      /\ d.inbound = in /\ d.written = stream[s].written /\ d.left = stream[s].left
  BY <1>4 DEF Stream
<1>8. stream' = [stream EXCEPT ![s] = d]
  BY <1>1, <1>4 DEF Stream
<1>. HIDE DEF d
<1>9. stream'[s] = d /\ \A t \in Streams : t # s => stream'[t] = stream[t]
  BY <1>2, <1>4, <1>8
<1>10. PiecesKnown'
  <2>1. \A i \in DOMAIN d.inbound : d.inbound[i] # Closing =>
           d.inbound[i][1] \in DOMAIN relays /\ OwnOrLeft(s, d.inbound[i][1])
    <3>1. <<f.of, f.n>>[1] = f.of
      OBVIOUS
    <3>. QED
      BY <1>2, <1>5, <1>7, <3>1 DEF IInv, PiecesKnown
  <2>. QED
    BY <1>1, <1>7, <1>9, <2>1 DEF IInv, PiecesKnown, OwnOrLeft, serverVars
<1>11. OpenedTrue'
  BY <1>1, <1>7, <1>9 DEF IInv, OpenedTrue, HasRelay, WasConnected, serverVars
<1>12. UNCHANGED <<nextId, holder, serverVars>> /\ net' = net
  BY <1>1
<1>13. /\ d.phase = stream[s].phase /\ d.left = stream[s].left
       /\ stream[s].closed => d.closed
       /\ ~stream[s].conn => ~d.conn
       /\ d.id = stream[s].id
  BY <1>7
<1>. QED
  BY <1>2, <1>6, <1>8, <1>10, <1>11, <1>12, <1>13, HandlerStep

\* The stream that loses its id to a frame is the one that is told.
LEMMA HandleEndInv ==
    ASSUME IInv, NEW f \in net, HandleEnd(f), UNCHANGED <<serverVars, net>>
    PROVE  IInv'
<1>. DEFINE s == holder[f.id]
            in == Append(stream[s].inbound, Closing)
            d == IF f.type = "ERROR"
                 THEN [stream[s] EXCEPT !.error = TRUE, !.opened = TRUE, !.inbound = in]
                 ELSE [stream[s] EXCEPT !.inbound = in]
            heard == [stream EXCEPT ![s] = d]
<1>1. f.type \in {"ERROR", "ENDED"} /\ f.id \in DOMAIN holder
      /\ holder' = Without(holder, f.id) /\ UNCHANGED <<nextId, serverVars, net>>
  BY DEF HandleEnd
<1>2. s \in Streams
  BY <1>1, FrameReaches DEF ClientTypes
<1>3. stream[s] \in Stream /\ stream \in [Streams -> Stream]
  BY <1>2 DEF IInv, TypeOK
<1>4. stream' = Released(heard, s)
  BY <1>3 DEF HandleEnd, Stream
<1>5. /\ in \in Seq(Pieces)
      /\ \A i \in DOMAIN in : \/ i \in DOMAIN stream[s].inbound /\ in[i] = stream[s].inbound[i]
                              \/ in[i] = Closing
  <2>1. stream[s].inbound \in Seq(Pieces) /\ Closing \in Pieces
    BY <1>3 DEF Stream, Pieces
  <2>. QED
    BY <2>1, AppendProperties, LenProperties
<1>6. s = holder[f.id]
  OBVIOUS
<1>. HIDE DEF s, in
<1>7. d \in Stream
  BY <1>3, <1>5 DEF Stream
<1>8. /\ d.phase = stream[s].phase /\ d.id = stream[s].id
      /\ d.inbound = in /\ d.written = stream[s].written /\ d.left = stream[s].left
      /\ d.opened => stream[s].opened \/ d.error
      /\ stream[s].error => d.error
  BY <1>3 DEF Stream
<1>. HIDE DEF d
<1>9. heard \in [Streams -> Stream] /\ heard[s] = d /\ \A t \in Streams : t # s => heard[t] = stream[t]
  BY <1>2, <1>3, <1>7
<1>. HIDE DEF heard
<1>10. /\ stream' \in [Streams -> Stream]
       /\ \A t \in Streams : t # s => stream'[t] = stream[t]
       /\ stream'[s].closed /\ ~stream'[s].conn
       /\ stream'[s].phase = stream[s].phase /\ stream'[s].id = stream[s].id
       /\ stream'[s].opened = d.opened /\ stream'[s].error = d.error
       /\ stream'[s].inbound = in /\ stream'[s].written = stream[s].written
       /\ stream'[s].left = stream[s].left
  BY <1>2, <1>4, <1>8, <1>9, ReleasedClosed
<1>11. /\ DOMAIN holder' = DOMAIN holder \ {f.id}
       /\ \A i \in DOMAIN holder' : holder'[i] = holder[i]
  BY <1>1 DEF Without
<1>12. IdsTaken'
  BY <1>10 DEF IInv, IdsTaken
<1>13. OpenHeld'
  BY <1>6, <1>10, <1>11 DEF IInv, OpenHeld
<1>14. OneClaimant' /\ SpeakersKnown'
  <2>1. \A t \in Streams :
           /\ stream'[t].phase \in {"allocated", "sending"} => Claims(stream'[t].id, t)
           /\ stream[t].left \subseteq stream'[t].left
    BY <1>10 DEF Claims, HandlerClaims
  <2>. QED
    BY <1>1, <1>11, <2>1, ClientClaims
<1>15. PiecesKnown'
  BY <1>1, <1>5, <1>10 DEF IInv, PiecesKnown, OwnOrLeft, serverVars
<1>16. OpenedTrue'
  BY <1>1, <1>8, <1>10 DEF IInv, OpenedTrue, HasRelay, WasConnected, serverVars
<1>17. net' \subseteq Frames /\ nextId' \in Ids
       /\ DOMAIN holder' \subseteq Ids /\ \A i \in DOMAIN holder' : holder'[i] \in Streams
  BY <1>1, <1>11 DEF IInv, TypeOK
<1>18. \A t \in Streams :
          /\ stream[t].left \subseteq stream'[t].left
          /\ stream'[t].phase = "parsed" =>
                stream[t].phase = "parsed" /\ stream'[t].left = stream[t].left
  BY <1>10
<1>. QED
  BY <1>1, <1>10, <1>12, <1>13, <1>14, <1>15, <1>16, <1>17, <1>18, ClientStep

-------------------------------------------------------------------------------
(* The theorems *)

LEMMA StepInv ==
    ASSUME IInv, [Next]_vars
    PROVE  IInv'
<1>1. CASE UNCHANGED vars
  BY <1>1 DEF vars, clientVars, serverVars, IInv, TypeOK, RelaysBounded, IdsTaken,
     TableTrue, OpenHeld, FramesTrue, WasConnected, OneClaimant, Claims, HolderClaims,
     HandlerClaims, FrameClaims, RelayClaims, Author, Speaks, Leftovers, Alive, OwnOrLeft,
     SpeakersKnown, NoneLeft, PiecesKnown, ChunksKnown, OpenedTrue, HasRelay
<1>2. ASSUME NEW s \in Streams, Handler(s) PROVE IInv'
  <2>1. CASE OpenTimeout(s)
    BY <2>1, ClosingInv DEF OpenTimeout
  <2>2. CASE LocalEnds(s)
    BY <2>2, ClosingInv DEF LocalEnds
  <2>. QED
    BY <1>2, <2>1, <2>2, AllocInv, AllocFailsInv, RegisterInv, OpenedInv, ReadLocalInv,
       SendChunkInv, CloseStreamInv
    DEF Handler
<1>3. ASSUME NEW f \in net, Listen(f) PROVE IInv'
  BY <1>3, HandleAckInv, HandleReplyInv, HandleEndInv DEF Listen
<1>. QED
  BY <1>1, <1>2, <1>3, WriterInv, ServerInv DEF Next

\* The invariant holds in every state of the program.
THEOREM Inductive == Spec => []IInv
<1>1. IInv /\ [Next]_vars => IInv'
  BY StepInv
<1>. QED
  BY <1>1, InitInv, PTL DEF Spec

\* Streams, relays, tables and frames are well typed in every state
\* (_proxy_sessions, _proxy_relays).
THEOREM TypeCorrect == Spec => []TypeOK
<1>1. IInv => TypeOK
  BY DEF IInv
<1>. QED
  BY <1>1, Inductive, PTL

\* For any number of streams, of ids to share, of relays and of copies on the network:
\* what an application or a target is given is of the stream at its other end, or
\* came through a relay of an earlier stream that was alive when the id was given out
\* again. Nothing is assumed of how long a relay lives; frames, connects, writes and
\* a handler's sends are over by then (Fresh, Rested).
THEOREM JoinedInLeftoversOnly == Spec => []OnlyLeftoversCross
<1>1. IInv => OnlyLeftoversCross
  BY DEF IInv, PiecesKnown, ChunksKnown, OwnOrLeft, OnlyLeftoversCross
<1>. QED
  BY <1>1, Inductive, PTL

\* An application that is told its connection is established has a relay of its
\* own that has connected to the target (_handle_proxy_client).
THEOREM EstablishedHasRelay == Spec => []EstablishedIsConnected
<1>1. IInv => EstablishedIsConnected
  BY DEF IInv, OpenedTrue, HasRelay, WasConnected, EstablishedIsConnected
<1>. QED
  BY <1>1, Inductive, PTL
===============================================================================
