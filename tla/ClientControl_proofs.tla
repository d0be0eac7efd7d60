------------------------- MODULE ClientControl_proofs --------------------------
(***************************************************************************)
(* Proofs about ClientControl: every state is well typed, the connection   *)
(* send() uses is one the client has not closed itself, a race leaves one  *)
(* connection behind, and resumes are judged by the age of their token.    *)
(***************************************************************************)
EXTENDS ClientControl, WellFoundedInduction, TLAPS

-------------------------------------------------------------------------------
(* The inductive invariant *)

\* A connection in use is one nobody works on; while there is none to use the
\* control thread may be anywhere.
ChosenSettled ==
    quicOk =>
        /\ pc \in {"decide", "idle", "over"}
        /\ quic # 0
        /\ conns[quic].thread = "over"
        /\ ~stopped => conns[quic].open

\* The control thread's own attempt is no attempt of a race.
ConnectingOwn == pc = "connecting" => quic # 0 /\ ~conns[quic].racer

\* From the moment a race is won to the moment the control thread takes note,
\* the winner's connection waits in the pool.
WinnerReady ==
    pc = "racing" /\ Done =>
        /\ conns[winner].thread = "over"
        /\ ~stopped => conns[winner].open /\ conns[winner].pooled

\* A connection a race has made is in its pool, and open until the race ends; of
\* those whose thread is over only the winner's is still there.
RacersTrue ==
    \A c \in Conns :
        /\ conns[c].thread \in {"starting", "made"} => conns[c].racer
        /\ conns[c].racer /\ conns[c].thread \in {"trying", "made"} => conns[c].pooled
        /\ conns[c].racer /\ conns[c].thread = "over" => c = winner
        /\ pc = "racing" /\ conns[c].thread = "made" /\ ~stopped /\ ~Done => conns[c].open

TokenAged == token.issued <= token.now

IInv ==
    /\ TypeOK
    /\ ChosenSettled /\ ConnectingOwn
    /\ WinnerReady /\ RacersTrue
    /\ TokenAged

-------------------------------------------------------------------------------
(* Helpers *)

\* A set of natural numbers that is not empty has a least element.
LEMMA LeastExists ==
    ASSUME NEW S \in SUBSET Nat, S # {}
    PROVE  \E c \in S : \A d \in S : c <= d
<1>. DEFINE Below == OpToRel(<, Nat)
<1>1. \A c, d \in Nat : d < c => <<d, c>> \in Below
  BY DEF OpToRel
<1>2. IsWellFoundedOn(Below, Nat)
  BY NatLessThanWellFounded
<1>. HIDE DEF Below
<1>3. PICK c \in S : \A d \in S : ~ (<<d, c>> \in Below)
  BY <1>2, WFMin
<1>4. \A d \in S : ~ (d < c)
  BY <1>1, <1>3
<1>. QED
  BY <1>4

LEMMA LowestTyped ==
    ASSUME NEW S \in SUBSET Conns, S # {}
    PROVE  Lowest(S) \in S
<1>1. S \in SUBSET Nat
  BY DEF Conns
<1>2. \E c \in S : \A d \in S : c <= d
  BY <1>1, LeastExists
<1>. QED
  BY <1>2 DEF Lowest

LEMMA UnusedTyped == Unused \in Conn
  BY HostAssumption, BoundAssumption DEF Unused, Conn

LEMMA ObjectTyped ==
    ASSUME NEW h \in Hosts, NEW t \in {"over", "starting", "trying", "made"}
    PROVE  /\ Object(h, t) \in Conn
           /\ Object(h, t).thread = t
           /\ Object(h, t).racer = FALSE
           /\ [Object(h, t) EXCEPT !.racer = TRUE] \in Conn
           /\ [Object(h, t) EXCEPT !.racer = TRUE].thread = t
<1>1. Tries \in 0 .. Tries
  BY BoundAssumption
<1>2. Object(h, t) \in Conn
  BY <1>1, UnusedTyped DEF Object, Conn
<1>3. Object(h, t).thread = t /\ Object(h, t).racer = FALSE
  BY DEF Object, Unused
<1>. QED
  BY <1>2, <1>3 DEF Conn

\* What closing does to one connection.
LEMMA ClosedTyped ==
    ASSUME NEW cs \in [Conns -> Conn], NEW S
    PROVE  /\ Closed(cs, S) \in [Conns -> Conn]
           /\ \A c \in Conns :
                 /\ c \notin S => Closed(cs, S)[c] = cs[c]
                 /\ Closed(cs, S)[c].thread = cs[c].thread
                 /\ c \in S /\ cs[c].thread = "over" => Closed(cs, S)[c] = Unused
                 /\ c \in S /\ cs[c].thread # "over" =>
                       /\ Closed(cs, S)[c].racer = cs[c].racer
                       /\ Closed(cs, S)[c].pooled = cs[c].pooled
<1>1. \A c \in Conns : [cs[c] EXCEPT !.run = FALSE, !.open = FALSE] \in Conn
  BY DEF Conn
<1>2. Unused.thread = "over"
  BY DEF Unused
<1>3. \A c \in Conns : LET d == [cs[c] EXCEPT !.run = FALSE, !.open = FALSE]
                       IN  /\ d.thread = cs[c].thread
                           /\ d.racer = cs[c].racer
                           /\ d.pooled = cs[c].pooled
  BY DEF Conn
<1>. QED
  BY <1>1, <1>2, <1>3, UnusedTyped DEF Closed

LEMMA InitInv == Init => IInv
<1>. SUFFICES ASSUME Init PROVE IInv
  OBVIOUS
<1>1. {boot, expired, answered, resumeUsed, quicOk, stopped} \subseteq BOOLEAN
  BY Zenon DEF Init
<1>2. token \in [issued : Times, now : Times] /\ token.issued <= token.now
  BY BoundAssumption DEF Init, Times
<1>3. conns \in [Conns -> Conn]
  BY UnusedTyped DEF Init
<1>4. TypeOK
  BY <1>1, <1>2, <1>3, HostAssumption, BoundAssumption DEF Init, TypeOK
<1>5. ChosenSettled /\ ConnectingOwn /\ WinnerReady
  BY DEF Init, ChosenSettled, ConnectingOwn, WinnerReady
<1>6. RacersTrue
  BY DEF Init, RacersTrue, Unused
<1>. QED
  BY <1>2, <1>4, <1>5, <1>6 DEF IInv, TokenAged

-------------------------------------------------------------------------------
(* Steps that leave the connections alone *)

\* The control thread moves on among states in which it has no connection of its
\* own under way and no race to watch.
LEMMA ConnsKeptInv ==
    ASSUME IInv, UNCHANGED <<conns, choice, stopped, token>>, TypeOK',
           \/ pc' = pc
           \/ pc' \notin {"connecting", "racing"} /\ ~quicOk
           \/ pc' \in {"decide", "idle", "over"}
    PROVE  IInv'
<1>1. ChosenSettled'
  BY DEF IInv, ChosenSettled, choice
<1>2. ConnectingOwn' /\ WinnerReady'
  BY DEF IInv, ConnectingOwn, WinnerReady, Done, choice
<1>3. RacersTrue'
  BY DEF IInv, RacersTrue, Done, choice
<1>. QED
  BY <1>1, <1>2, <1>3 DEF IInv, TokenAged

LEMMA BootstrapInv ==
    ASSUME IInv, Bootstrap \/ Decide \/ BudgetEnds \/ MonitorEnds
    PROVE  IInv'
<1>1. TypeOK'
  BY DEF IInv, TypeOK, Bootstrap, Decide, BudgetEnds, MonitorEnds, BestDestinations, choice, world
<1>2. CASE Bootstrap
  BY <1>1, <1>2, ConnsKeptInv DEF Bootstrap, IInv, ChosenSettled
<1>3. CASE Decide
  BY <1>1, <1>3, ConnsKeptInv DEF Decide, GivesUp, Reached
<1>4. CASE BudgetEnds \/ MonitorEnds
  BY <1>1, <1>4, ConnsKeptInv DEF BudgetEnds, MonitorEnds
<1>. QED
  BY <1>2, <1>3, <1>4

LEMMA TryResumeInv ==
    ASSUME IInv, TryResume
    PROVE  IInv'
<1>1. token' \in [issued : Times, now : Times] /\ token'.issued <= token'.now
  BY BoundAssumption DEF TryResume, Times
<1>2. TypeOK'
  BY <1>1 DEF IInv, TypeOK, TryResume, choice, world
<1>3. ChosenSettled' /\ ConnectingOwn' /\ WinnerReady'
  BY DEF IInv, TryResume, ChosenSettled, ConnectingOwn, WinnerReady, choice
<1>4. RacersTrue'
  BY DEF IInv, TryResume, RacersTrue, Done, control, choice
<1>. QED
  BY <1>1, <1>2, <1>3, <1>4 DEF IInv, TokenAged

LEMMA MonitorInv ==
    ASSUME IInv, Monitor
    PROVE  IInv'
<1>1. TypeOK'
  BY DEF IInv, TypeOK, Monitor, BestDestinations, world
<1>2. ChosenSettled' /\ ConnectingOwn' /\ WinnerReady'
  BY DEF IInv, Monitor, ChosenSettled, ConnectingOwn, WinnerReady
<1>3. RacersTrue'
  BY DEF IInv, Monitor, RacersTrue, Done
<1>. QED
  BY <1>1, <1>2, <1>3 DEF IInv, TokenAged, Monitor

LEMMA FaultInv ==
    ASSUME IInv, Fault
    PROVE  IInv'
<1>1. TypeOK'
  BY BoundAssumption DEF IInv, TypeOK, Fault, control, choice
<1>. QED
  BY <1>1, ConnsKeptInv DEF Fault, control

LEMMA StutterInv ==
    ASSUME IInv, UNCHANGED vars
    PROVE  IInv'
<1>1. TypeOK'
  BY DEF IInv, TypeOK, vars, control, choice, world
<1>. QED
  BY <1>1, ConnsKeptInv DEF vars, control

-------------------------------------------------------------------------------
(* The control thread's own connection *)

LEMMA ConnectInv ==
    ASSUME IInv, Connect
    PROVE  IInv'
<1>. DEFINE c == Lowest({d \in Conns : Free(d)})
<1>1. c \in Conns /\ Free(c)
  BY LowestTyped DEF Connect
<1>2. /\ quic' = c
      /\ conns' = [conns EXCEPT ![c] = Object(primary, "trying")]
      /\ pc = "connect" /\ pc' = "connecting"
      /\ UNCHANGED <<boot, expired, answered, resumeUsed, token, primary,
                     quicOk, winner, stopped, world>>
  BY DEF Connect
<1>. HIDE DEF c
<1>3. TypeOK'
  <2>1. Object(primary, "trying") \in Conn
    BY ObjectTyped DEF IInv, TypeOK
  <2>2. conns' \in [Conns -> Conn] /\ quic' \in 0 .. MaxConns
    BY <1>1, <1>2, <2>1 DEF IInv, TypeOK, Conns
  <2>. QED
    BY <1>2, <2>2 DEF IInv, TypeOK, world
<1>4. ChosenSettled' /\ WinnerReady'
  BY <1>2 DEF IInv, ChosenSettled, WinnerReady
<1>5. ConnectingOwn'
  <2>1. ~Object(primary, "trying").racer
    BY ObjectTyped DEF IInv, TypeOK
  <2>2. quic' # 0 /\ conns'[quic'] = Object(primary, "trying")
    BY <1>1, <1>2 DEF IInv, TypeOK, Conns
  <2>. QED
    BY <2>1, <2>2 DEF ConnectingOwn
<1>6. RacersTrue'
  BY <1>1, <1>2, ObjectTyped DEF IInv, TypeOK, RacersTrue, Done
<1>. QED
  BY <1>2, <1>3, <1>4, <1>5, <1>6 DEF IInv, TokenAged

LEMMA ConnectSucceedsInv ==
    ASSUME IInv, ConnectSucceeds
    PROVE  IInv'
<1>1. quic \in Conns /\ conns[quic] \in Conn
  BY DEF IInv, ConnectSucceeds, ConnectingOwn, TypeOK, Conns
<1>. DEFINE d == [conns[quic] EXCEPT !.thread = "over", !.run = TRUE, !.open = TRUE]
<1>2. conns' = [conns EXCEPT ![quic] = d]
  BY <1>1 DEF ConnectSucceeds, Made, IInv, TypeOK
<1>3. /\ d \in Conn /\ d.thread = "over" /\ d.open /\ d.racer = conns[quic].racer
      /\ conns[quic].thread = "trying"
  BY <1>1 DEF Conn, ConnectSucceeds, Made
<1>. HIDE DEF d
<1>4. TypeOK'
  BY <1>1, <1>2, <1>3 DEF IInv, TypeOK, ConnectSucceeds, Return, world
<1>5. ChosenSettled' /\ ConnectingOwn' /\ WinnerReady'
  BY <1>1, <1>2, <1>3
  DEF IInv, TypeOK, ConnectSucceeds, Return, ChosenSettled, ConnectingOwn, WinnerReady, Conns
<1>6. RacersTrue'
  BY <1>1, <1>2, <1>3 DEF IInv, TypeOK, ConnectingOwn, RacersTrue, Done, ConnectSucceeds, Return
<1>. QED
  BY <1>4, <1>5, <1>6 DEF IInv, TokenAged, ConnectSucceeds

LEMMA ConnectFailsInv ==
    ASSUME IInv, ConnectFails
    PROVE  IInv'
<1>1. /\ quic \in Conns /\ conns[quic] \in Conn /\ ~conns[quic].racer
      /\ conns[quic].thread = "trying" /\ pc = "connecting" /\ ~quicOk
  BY DEF IInv, ConnectFails, ConnectingOwn, ChosenSettled, TypeOK, Conns, Failed
<1>. DEFINE d == IF TriesLeft(quic) THEN [conns[quic] EXCEPT !.tries = @ - 1] ELSE Unused
<1>2. d \in Conn /\ d.racer = FALSE /\ d.thread \in {"trying", "over"}
  BY <1>1, UnusedTyped, BoundAssumption DEF TriesLeft, Conn, Unused
<1>3. conns' = [conns EXCEPT ![quic] = d]
  BY <1>1 DEF ConnectFails, IInv, TypeOK
<1>. HIDE DEF d
<1>4. /\ quicOk' = FALSE /\ pc' \in {"connecting", "race", "decide", "idle"}
      /\ UNCHANGED <<boot, expired, answered, resumeUsed, token, primary,
                     quic, winner, stopped, world>>
  BY <1>1, Zenon DEF ConnectFails, Return, IInv, TypeOK
<1>5. TypeOK'
  BY <1>1, <1>2, <1>3, <1>4 DEF IInv, TypeOK, world
<1>6. ChosenSettled' /\ WinnerReady'
  BY <1>4 DEF ChosenSettled, WinnerReady
<1>7. ConnectingOwn'
  BY <1>1, <1>2, <1>3, <1>4 DEF IInv, TypeOK, ConnectingOwn, Conns
<1>8. RacersTrue'
  BY <1>1, <1>2, <1>3, <1>4 DEF IInv, TypeOK, RacersTrue, Done
<1>. QED
  BY <1>4, <1>5, <1>6, <1>7, <1>8 DEF IInv, TokenAged

-------------------------------------------------------------------------------
(* The attempts of a race *)

\* An attempt changes its own connection, which neither the control thread nor a
\* race that was won has in its hands.
LEMMA AttemptFrame ==
    ASSUME IInv, NEW c \in Conns, conns[c].thread # "over", conns[c].racer,
           NEW d \in Conn, conns' = [conns EXCEPT ![c] = d],
           UNCHANGED <<control, choice, stopped, world>>,
           pc = "connecting" => quic # c
    PROVE  TypeOK' /\ ChosenSettled' /\ ConnectingOwn' /\ WinnerReady' /\ TokenAged'
<1>1. TypeOK'
  BY DEF IInv, TypeOK, control, choice, world
<1>2. ChosenSettled'
  BY DEF IInv, TypeOK, ChosenSettled, control, choice, Conns
<1>3. ConnectingOwn'
  BY DEF IInv, TypeOK, ConnectingOwn, control, choice, Conns
<1>4. WinnerReady'
  BY DEF IInv, TypeOK, WinnerReady, Done, control, choice, Conns
<1>. QED
  BY <1>1, <1>2, <1>3, <1>4 DEF IInv, TokenAged, control

LEMMA AttemptStartsInv ==
    ASSUME IInv, NEW c \in Conns, AttemptStarts(c)
    PROVE  IInv'
<1>1. conns[c] \in Conn /\ conns[c].thread = "starting" /\ conns[c].racer
  BY DEF IInv, TypeOK, RacersTrue, AttemptStarts
<1>. DEFINE d == IF Done THEN Unused ELSE [conns[c] EXCEPT !.thread = "trying", !.pooled = TRUE]
<1>2. /\ d \in Conn /\ d.thread \in {"over", "trying"}
      /\ d.thread = "trying" => d.pooled
      /\ d.thread = "over" => ~d.racer
  BY <1>1, UnusedTyped DEF Conn, Unused
<1>3. conns' = [conns EXCEPT ![c] = d]
  BY DEF AttemptStarts, IInv, TypeOK
<1>. HIDE DEF d
<1>4. UNCHANGED <<control, choice, stopped, world>>
  BY DEF AttemptStarts
<1>5. TypeOK' /\ ChosenSettled' /\ ConnectingOwn' /\ WinnerReady' /\ TokenAged'
  BY <1>1, <1>2, <1>3, <1>4, AttemptFrame DEF IInv, ConnectingOwn, choice
<1>6. RacersTrue'
  BY <1>1, <1>2, <1>3, <1>4 DEF IInv, TypeOK, RacersTrue, Done, control, choice
<1>. QED
  BY <1>5, <1>6 DEF IInv

LEMMA AttemptSucceedsInv ==
    ASSUME IInv, NEW c \in Conns, AttemptSucceeds(c)
    PROVE  IInv'
<1>1. /\ conns[c] \in Conn /\ conns[c].thread = "trying" /\ conns[c].racer
      /\ conns[c].pooled
  BY DEF IInv, TypeOK, RacersTrue, AttemptSucceeds, Made
<1>. DEFINE d == [conns[c] EXCEPT !.thread = "made", !.run = TRUE, !.open = TRUE]
<1>2. d \in Conn /\ d.thread = "made" /\ d.open /\ d.racer /\ d.pooled
  BY <1>1 DEF Conn
<1>3. conns' = [conns EXCEPT ![c] = d]
  BY DEF AttemptSucceeds, Made, IInv, TypeOK
<1>. HIDE DEF d
<1>4. UNCHANGED <<control, choice, stopped, world>>
  BY DEF AttemptSucceeds
<1>5. TypeOK' /\ ChosenSettled' /\ ConnectingOwn' /\ WinnerReady' /\ TokenAged'
  BY <1>1, <1>2, <1>3, <1>4, AttemptFrame DEF IInv, ConnectingOwn, choice
<1>6. RacersTrue'
  BY <1>1, <1>2, <1>3, <1>4 DEF IInv, TypeOK, RacersTrue, Done, control, choice
<1>. QED
  BY <1>5, <1>6 DEF IInv

LEMMA AttemptFailsInv ==
    ASSUME IInv, NEW c \in Conns, AttemptFails(c)
    PROVE  IInv'
<1>1. /\ conns[c] \in Conn /\ conns[c].thread = "trying" /\ conns[c].racer
      /\ conns[c].pooled
  BY DEF IInv, TypeOK, RacersTrue, AttemptFails, Failed
<1>. DEFINE d == IF TriesLeft(c) THEN [conns[c] EXCEPT !.tries = @ - 1] ELSE Unused
<1>2. /\ d \in Conn /\ d.thread \in {"over", "trying"}
      /\ d.thread = "trying" => d.pooled
      /\ d.thread = "over" => ~d.racer
  BY <1>1, UnusedTyped, BoundAssumption DEF Conn, Unused, TriesLeft
<1>3. conns' = [conns EXCEPT ![c] = d]
  BY DEF AttemptFails, IInv, TypeOK
<1>. HIDE DEF d
<1>4. UNCHANGED <<control, choice, stopped, world>>
  BY DEF AttemptFails
<1>5. TypeOK' /\ ChosenSettled' /\ ConnectingOwn' /\ WinnerReady' /\ TokenAged'
  BY <1>1, <1>2, <1>3, <1>4, AttemptFrame DEF IInv, ConnectingOwn, choice
<1>6. RacersTrue'
  BY <1>1, <1>2, <1>3, <1>4 DEF IInv, TypeOK, RacersTrue, Done, control, choice
<1>. QED
  BY <1>5, <1>6 DEF IInv

\* The first to end wins; one that ends later leaves nothing behind.
LEMMA AttemptEndsInv ==
    ASSUME IInv, NEW c \in Conns, AttemptEnds(c)
    PROVE  IInv'
<1>. DEFINE d == [conns[c] EXCEPT !.thread = "over"]
            over == [conns EXCEPT ![c].thread = "over"]
<1>1. /\ conns[c] \in Conn /\ conns[c].thread = "made" /\ conns[c].racer
      /\ conns[c].pooled
      /\ pc = "racing" /\ ~stopped /\ ~Done => conns[c].open
  BY DEF IInv, TypeOK, RacersTrue, AttemptEnds
<1>2. /\ d \in Conn /\ d.thread = "over"
      /\ d.pooled = conns[c].pooled /\ d.open = conns[c].open
  BY <1>1 DEF Conn
<1>3. over = [conns EXCEPT ![c] = d] /\ over \in [Conns -> Conn]
  BY <1>2 DEF IInv, TypeOK
<1>4. UNCHANGED <<control, quic, quicOk, stopped, world>>
  BY DEF AttemptEnds
<1>5. CASE Done
  <2>1. conns' = Closed(over, {c}) /\ winner' = winner
    BY <1>5 DEF AttemptEnds, Loser
  <2>2. conns' = [conns EXCEPT ![c] = Unused]
    <3>1. over[c].thread = "over" /\ \A e \in Conns : e # c => over[e] = conns[e]
      BY <1>2, <1>3 DEF IInv, TypeOK
    <3>. HIDE DEF over
    <3>2. \A e \in Conns : conns'[e] = IF e = c THEN Unused ELSE conns[e]
      BY <2>1, <3>1 DEF Closed
    <3>. QED
      BY <2>1, <3>2 DEF Closed, IInv, TypeOK
  <2>. HIDE DEF over, d
  <2>3. TypeOK' /\ ChosenSettled' /\ ConnectingOwn' /\ WinnerReady' /\ TokenAged'
    BY <1>1, <1>4, <2>1, <2>2, UnusedTyped, AttemptFrame DEF IInv, ConnectingOwn, choice
  <2>4. RacersTrue'
    <3>1. Unused.thread = "over" /\ ~Unused.racer
      BY DEF Unused
    <3>. QED
      BY <1>4, <2>1, <2>2, <3>1 DEF IInv, TypeOK, RacersTrue, Done, control
  <2>. QED
    BY <2>3, <2>4 DEF IInv
<1>6. CASE ~Done
  <2>1. conns' = [conns EXCEPT ![c] = d] /\ winner' = c /\ winner = 0
    BY <1>3, <1>6 DEF AttemptEnds, Done
  <2>. HIDE DEF over, d
  <2>2. TypeOK'
    BY <1>2, <1>4, <2>1 DEF IInv, TypeOK, control, world, Conns
  <2>3. ChosenSettled' /\ ConnectingOwn'
    BY <1>1, <1>4, <2>1 DEF IInv, TypeOK, ChosenSettled, ConnectingOwn, control, Conns
  <2>4. WinnerReady'
    BY <1>1, <1>2, <1>4, <1>6, <2>1 DEF IInv, TypeOK, WinnerReady, Conns, control
  <2>5. RacersTrue'
    BY <1>2, <1>4, <2>1 DEF IInv, TypeOK, RacersTrue, Done, Conns
  <2>. QED
    BY <1>4, <2>2, <2>3, <2>4, <2>5 DEF IInv, TokenAged, control
<1>. QED
  BY <1>5, <1>6

-------------------------------------------------------------------------------
(* Closing *)

\* Closing any set of connections keeps what is known of racers, provided that
\* the race ends with it, or is done already, or the client has stopped.
LEMMA ClosedRacers ==
    ASSUME IInv, NEW S, conns' = Closed(conns, S), winner' = winner,
           stopped' \/ Done \/ pc' # "racing"
    PROVE  RacersTrue'
<1>1. conns \in [Conns -> Conn] /\ RacersTrue
  BY DEF IInv, TypeOK
<1>2. \A c \in Conns :
         /\ c \notin S => conns'[c] = conns[c]
         /\ conns'[c].thread = conns[c].thread
         /\ c \in S /\ conns[c].thread = "over" => ~conns'[c].racer
         /\ c \in S /\ conns[c].thread # "over" =>
               /\ conns'[c].racer = conns[c].racer
               /\ conns'[c].pooled = conns[c].pooled
  <2>1. ~Unused.racer
    BY DEF Unused
  <2>. QED
    BY <1>1, <2>1, ClosedTyped
<1>3. ASSUME NEW c \in Conns
      PROVE  /\ conns'[c].thread \in {"starting", "made"} => conns'[c].racer
             /\ conns'[c].racer /\ conns'[c].thread \in {"trying", "made"} => conns'[c].pooled
             /\ conns'[c].racer /\ conns'[c].thread = "over" => c = winner'
             /\ pc' = "racing" /\ conns'[c].thread = "made" /\ ~stopped' /\ ~Done'
                   => conns'[c].open
  <2>1. CASE c \notin S
    BY <1>1, <1>2, <2>1 DEF RacersTrue, Done
  <2>2. CASE c \in S
    BY <1>1, <1>2, <2>2 DEF RacersTrue, Done
  <2>. QED
    BY <2>1, <2>2
<1>. QED
  BY <1>3 DEF RacersTrue

LEMMA RaceWonInv ==
    ASSUME IInv, RaceWon
    PROVE  IInv'
<1>1. /\ quic' = winner /\ winner' = winner /\ quicOk' = TRUE /\ stopped' = stopped
      /\ conns' = Closed(conns, Others(winner)) /\ pc' \in {"decide", "idle"}
      /\ pc = "racing" /\ Done
      /\ UNCHANGED <<boot, expired, answered, resumeUsed, token, winner, stopped, world>>
  BY DEF RaceWon, Return
<1>2. winner \in Conns /\ conns \in [Conns -> Conn]
  BY <1>1 DEF IInv, TypeOK, Done, Conns
<1>3. conns' \in [Conns -> Conn] /\ conns'[winner] = conns[winner]
  BY <1>1, <1>2, ClosedTyped DEF Others
<1>4. primary' \in Hosts
  BY <1>2 DEF RaceWon, Conn
<1>5. TypeOK'
  BY <1>1, <1>2, <1>3, <1>4 DEF IInv, TypeOK, world
<1>6. ChosenSettled' /\ ConnectingOwn' /\ WinnerReady'
  BY <1>1, <1>2, <1>3
  DEF IInv, ChosenSettled, ConnectingOwn, WinnerReady, Conns
<1>7. RacersTrue'
  BY <1>1, ClosedRacers
<1>. QED
  BY <1>1, <1>5, <1>6, <1>7 DEF IInv, TokenAged

LEMMA RaceLostInv ==
    ASSUME IInv, RaceLost
    PROVE  IInv'
<1>1. /\ conns' = Closed(conns, Pool) /\ pc' \in {"decide", "idle"} /\ pc = "racing"
      /\ UNCHANGED <<boot, expired, answered, resumeUsed, token, primary, choice, stopped, up>>
      /\ faults' \in 0 .. MaxFaults
  BY BoundAssumption DEF RaceLost, Return, IInv, TypeOK
<1>2. conns \in [Conns -> Conn] /\ conns' \in [Conns -> Conn]
  BY <1>1, ClosedTyped DEF IInv, TypeOK
<1>3. TypeOK'
  BY <1>1, <1>2 DEF IInv, TypeOK, choice
<1>4. ChosenSettled' /\ ConnectingOwn' /\ WinnerReady'
  BY <1>1 DEF IInv, ChosenSettled, ConnectingOwn, WinnerReady, choice
<1>5. RacersTrue'
  BY <1>1, ClosedRacers DEF choice
<1>. QED
  BY <1>1, <1>3, <1>4, <1>5 DEF IInv, TokenAged

LEMMA StopInv ==
    ASSUME IInv, Stop
    PROVE  IInv'
<1>. DEFINE S == Pool \cup ({quic} \ {0})
<1>1. /\ conns' = Closed(conns, S) /\ stopped' = TRUE
      /\ UNCHANGED <<control, choice, world>>
  BY DEF Stop
<1>2. conns \in [Conns -> Conn]
  BY DEF IInv, TypeOK
<1>. HIDE DEF S
<1>3. /\ conns' \in [Conns -> Conn]
      /\ \A c \in Conns : conns'[c].thread = conns[c].thread
      /\ \A c \in Conns : ~conns[c].racer => ~conns'[c].racer
  <2>1. ~Unused.racer
    BY DEF Unused
  <2>. QED
    BY <1>1, <1>2, <2>1, ClosedTyped
<1>4. TypeOK'
  BY <1>1, <1>3 DEF IInv, TypeOK, control, choice, world
<1>5. ChosenSettled' /\ ConnectingOwn' /\ WinnerReady'
  BY <1>1, <1>3
  DEF IInv, TypeOK, ChosenSettled, ConnectingOwn, WinnerReady, Done, control, choice, Conns
<1>6. RacersTrue'
  BY <1>1, ClosedRacers DEF choice
<1>. QED
  BY <1>1, <1>4, <1>5, <1>6 DEF IInv, TokenAged, control

\* The read loop's end is seen in "run" only.
LEMMA ReadLoopEndsInv ==
    ASSUME IInv, NEW c \in Conns, ReadLoopEnds(c)
    PROVE  IInv'
<1>1. conns[c] \in Conn /\ conns \in [Conns -> Conn]
  BY DEF IInv, TypeOK
<1>. DEFINE d == [conns[c] EXCEPT !.run = FALSE]
<1>2. /\ d \in Conn /\ d.thread = conns[c].thread /\ d.open = conns[c].open
      /\ d.racer = conns[c].racer /\ d.pooled = conns[c].pooled
  BY <1>1 DEF Conn
<1>3. conns' = [conns EXCEPT ![c] = d]
  BY <1>1 DEF ReadLoopEnds
<1>. HIDE DEF d
<1>4. /\ conns' \in [Conns -> Conn]
      /\ \A e \in Conns :
            /\ conns'[e].thread = conns[e].thread /\ conns'[e].open = conns[e].open
            /\ conns'[e].racer = conns[e].racer /\ conns'[e].pooled = conns[e].pooled
  BY <1>1, <1>2, <1>3
<1>5. UNCHANGED <<control, choice, stopped, world>>
  BY DEF ReadLoopEnds
<1>6. TypeOK'
  BY <1>4, <1>5 DEF IInv, TypeOK, control, choice, world
<1>7. ChosenSettled' /\ ConnectingOwn' /\ WinnerReady'
  BY <1>4, <1>5
  DEF IInv, TypeOK, ChosenSettled, ConnectingOwn, WinnerReady, Done, control, choice, Conns
<1>8. RacersTrue'
  BY <1>4, <1>5 DEF IInv, RacersTrue, Done, control, choice
<1>. QED
  BY <1>5, <1>6, <1>7, <1>8 DEF IInv, TokenAged, control

\* What is collected is neither in use nor in a pool, so no winner that waits.
LEMMA CollectInv ==
    ASSUME IInv, NEW c \in Conns, Collect(c)
    PROVE  IInv'
<1>1. /\ conns' = Closed(conns, {c}) /\ conns[c].thread = "over" /\ c # quic
      /\ ~conns[c].pooled /\ conns \in [Conns -> Conn]
      /\ UNCHANGED <<control, choice, stopped, world>>
  BY DEF IInv, TypeOK, Collect
<1>2. /\ conns' \in [Conns -> Conn]
      /\ \A e \in Conns : e # c => conns'[e] = conns[e]
      /\ conns'[c] = Unused
  BY <1>1, ClosedTyped
<1>3. Unused.thread = "over" /\ ~Unused.racer
  BY DEF Unused
<1>4. TypeOK'
  BY <1>1, <1>2 DEF IInv, TypeOK, control, choice, world
<1>5. ChosenSettled' /\ ConnectingOwn'
  <2>1. quic # 0 => quic \in Conns
    BY DEF IInv, TypeOK, Conns
  <2>2. quic # 0 => conns'[quic] = conns[quic]
    BY <1>1, <1>2, <2>1, Zenon
  <2>. QED
    BY <1>1, <2>2 DEF IInv, ChosenSettled, ConnectingOwn, control, choice
<1>6. WinnerReady'
  <2>1. SUFFICES ASSUME pc = "racing", Done
                 PROVE  /\ conns'[winner].thread = "over"
                        /\ ~stopped => conns'[winner].open /\ conns'[winner].pooled
    BY <1>1 DEF WinnerReady, Done, control, choice
  <2>2. winner \in Conns
    BY <2>1 DEF IInv, TypeOK, Done, Conns
  <2>3. CASE winner # c
    BY <1>2, <2>1, <2>2, <2>3 DEF IInv, WinnerReady
  <2>4. CASE winner = c
    BY <1>1, <1>2, <1>3, <2>1, <2>4 DEF IInv, WinnerReady
  <2>. QED
    BY <2>3, <2>4
<1>7. RacersTrue'
  BY <1>1, <1>2, <1>3 DEF IInv, RacersTrue, Done, control, choice
<1>. QED
  BY <1>1, <1>4, <1>5, <1>6, <1>7 DEF IInv, TokenAged, control

-------------------------------------------------------------------------------
(* The start of a race *)

LEMMA StartRaceInv ==
    ASSUME IInv, StartRace
    PROVE  IInv'
<1>1. PICK place \in [Hosts -> {c \in Conns : Free(c)}] :
         conns' = [c \in Conns |->
            LET here == {h \in Hosts : place[h] = c}
            IN IF here # {}
               THEN [Object(CHOOSE h \in here : TRUE, "starting") EXCEPT !.racer = TRUE]
               ELSE [conns[c] EXCEPT !.racer = FALSE, !.pooled = FALSE]]
  BY DEF StartRace
<1>2. /\ pc = "race" /\ pc' = "racing" /\ winner' = 0 /\ ~quicOk
      /\ \A c \in Conns : conns[c].racer => conns[c].thread = "over"
      /\ UNCHANGED <<boot, expired, answered, resumeUsed, token, primary, quic, quicOk,
                     stopped, world>>
  BY DEF IInv, ChosenSettled, StartRace
<1>3. conns \in [Conns -> Conn]
  BY DEF IInv, TypeOK
<1>4. ASSUME NEW c \in Conns
      PROVE  /\ conns'[c] \in Conn
             /\ \/ conns'[c].thread = "starting" /\ conns'[c].racer
                \/ conns'[c].thread = conns[c].thread /\ ~conns'[c].racer
  <2>. DEFINE here == {h \in Hosts : place[h] = c}
              h == CHOOSE g \in here : TRUE
  <2>1. CASE here # {}
    <3>1. h \in Hosts
      BY <2>1
    <3>2. conns'[c] = [Object(h, "starting") EXCEPT !.racer = TRUE]
      BY <1>1, <2>1
    <3>. HIDE DEF h
    <3>3. Object(h, "starting") \in Conn
      BY <3>1, ObjectTyped
    <3>. QED
      BY <3>1, <3>2, <3>3, ObjectTyped DEF Conn
  <2>2. CASE here = {}
    <3>1. conns'[c] = [conns[c] EXCEPT !.racer = FALSE, !.pooled = FALSE]
      BY <1>1, <2>2
    <3>. QED
      BY <1>3, <3>1, ZenonT(30) DEF Conn
  <2>. QED
    BY <2>1, <2>2
<1>5. conns' \in [Conns -> Conn]
  BY <1>1, <1>4
<1>6. TypeOK'
  BY <1>2, <1>5, BoundAssumption DEF IInv, TypeOK, world
<1>7. ChosenSettled' /\ ConnectingOwn' /\ WinnerReady'
  BY <1>2 DEF ChosenSettled, ConnectingOwn, WinnerReady, Done
<1>8. RacersTrue'
  BY <1>2, <1>4 DEF IInv, RacersTrue
<1>. QED
  BY <1>2, <1>6, <1>7, <1>8 DEF IInv, TokenAged

-------------------------------------------------------------------------------
(* Tokens *)

\* A token of this bucket or the one before is less than two windows old, and one
\* that is less than a window old is of one of these.
LEMMA BucketAge ==
    ASSUME NEW issued \in Nat, NEW now \in Nat, issued <= now
    PROVE  /\ Bucket(issued) \in {Bucket(now), Bucket(now) - 1}
                 => now - issued < 2 * TokenWindow
           /\ now - issued < TokenWindow
                 => Bucket(issued) \in {Bucket(now), Bucket(now) - 1}
<1>. DEFINE W == TokenWindow
            a == issued \div W
            b == now \div W
            r == issued % W
            q == now % W
<1>1. W \in Nat \ {0}
  BY BoundAssumption
<1>2. /\ a \in Int /\ r \in 0 .. W - 1 /\ issued = W * a + r
      /\ b \in Int /\ q \in 0 .. W - 1 /\ now = W * b + q
  BY <1>1
<1>. HIDE DEF W, a, b, r, q
<1>3. now - issued = W * (b - a) + (q - r)
  BY <1>1, <1>2
<1>4. ASSUME a \in {b, b - 1} PROVE now - issued < 2 * W
  <2>1. b - a \in {0, 1}
    BY <1>2, <1>4
  <2>2. W * (b - a) <= W
    BY <1>1, <2>1
  <2>3. W * (b - a) \in Int
    BY <1>1, <1>2
  <2>. QED
    BY <1>1, <1>2, <1>3, <2>2, <2>3
<1>5. ASSUME now - issued < W PROVE a \in {b, b - 1}
  <2>1. CASE b - a >= 2
    <3>1. W * (b - a) >= W * 2
      BY <1>1, <1>2, <2>1
    <3>. QED
      BY <1>1, <1>2, <1>3, <1>5, <3>1
  <2>2. CASE b - a <= -1
    <3>1. W * (b - a) <= W * (-1)
      BY <1>1, <1>2, <2>2
    <3>. QED
      BY <1>1, <1>2, <1>3, <3>1
  <2>. QED
    BY <1>2, <2>1, <2>2
<1>. QED
  BY <1>4, <1>5 DEF Bucket, W, a, b

-------------------------------------------------------------------------------
(* The theorems *)

LEMMA StepInv ==
    ASSUME IInv, [Next]_vars
    PROVE  IInv'
  BY TryResumeInv, BootstrapInv, ConnectInv, ConnectSucceedsInv, ConnectFailsInv,
     MonitorInv, StartRaceInv, RaceWonInv, RaceLostInv, AttemptStartsInv,
     AttemptSucceedsInv, AttemptFailsInv, AttemptEndsInv, ReadLoopEndsInv,
     CollectInv, StopInv, FaultInv, StutterInv
  DEF Next, Control, Attempt

\* What is known of the connection in use, of the control thread's own attempt, of
\* a winner that waits and of every attempt of a race is kept by every step.
THEOREM Inductive == Spec => []IInv
  BY InitInv, StepInv, PTL DEF Spec

\* The control state and every QUICClient object are well typed.
THEOREM TypeCorrect == Spec => []TypeOK
<1>1. IInv => TypeOK
  BY DEF IInv
<1>. QED
  BY <1>1, Inductive, PTL

\* For any number of hosts and attempts: the connection send() uses has not been
\* closed by the client, whichever attempt ends when (_connect_quic_multi_fallback).
THEOREM ChosenStaysOpen == Spec => []ChosenIsOpen
<1>1. IInv => ChosenIsOpen
  BY DEF IInv, ChosenSettled, ChosenIsOpen
<1>. QED
  BY <1>1, Inductive, PTL

\* For any number of hosts: when the threads of a race that was won are over, one
\* connection at most is left of it (attempt, winner_lock).
THEOREM OneWinner == Spec => []RaceLeavesOne
<1>1. IInv => RaceLeavesOne
  BY DEF IInv, RacersTrue, RaceLeavesOne
<1>. QED
  BY <1>1, Inductive, PTL

\* For every window length: no token of two windows' age is accepted, none younger
\* than one is turned down (SessionTokenManager.verify).
THEOREM TokensByAge == Spec => ResumeWindow
<1>. DEFINE A == /\ resumeUsed' # resumeUsed => token.now - token.issued < 2 * TokenWindow
                 /\ token.now - token.issued < TokenWindow => Verify(token)
<1>1. IInv /\ [Next]_vars => [A]_vars
  <2>1. SUFFICES ASSUME IInv, Next PROVE A
    OBVIOUS
  <2>2. token.issued \in Nat /\ token.now \in Nat /\ token.issued <= token.now
    BY <2>1, BoundAssumption DEF IInv, TypeOK, TokenAged, Times
  <2>3. resumeUsed' # resumeUsed => Verify(token)
    BY <2>1 DEF Next, Control, Attempt, TryResume, Bootstrap, Decide, Connect,
       ConnectSucceeds, ConnectFails, Monitor, MonitorEnds, StartRace, RaceWon, RaceLost,
       AttemptStarts, AttemptSucceeds, AttemptFails, AttemptEnds, ReadLoopEnds, Collect,
       BudgetEnds, Stop, Fault, control
  <2>. QED
    BY <2>2, <2>3, BucketAge DEF Verify
<1>. QED
  BY <1>1, Inductive, PTL DEF Spec, ResumeWindow
===============================================================================
