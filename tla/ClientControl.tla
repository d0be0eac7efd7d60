----------------------------- MODULE ClientControl -----------------------------
(***************************************************************************)
(* How the client finds its server and keeps its QUIC connection: the      *)
(* bootstrap of start(), the resume it tries first, the connection to the  *)
(* primary destination, the race over all destinations when that fails,    *)
(* the monitor that replaces a lost connection, and stop().                *)
(*                                                                         *)
(* start() and then the monitor are one control thread. Every attempt of a *)
(* race is a thread of its own: it outlives the race, and the client knows *)
(* of it only through the race's "done" event, its winner and its pool.    *)
(*                                                                         *)
(* The server never sends on a connection, and the socket's timeout is the *)
(* connect timeout, so a client's read loop ends after some seconds on a   *)
(* connection that works. Such a connection counts as lost. An object      *)
(* nobody refers to any more closes its socket.                            *)
(***************************************************************************)
EXTENDS Integers, FiniteSets

CONSTANTS
    Hosts,      \* dest_ips
    First,      \* the first of them
    MaxConns,   \* bound: QUICClient objects at a time
    Tries,      \* max_retries of a QUICClient
    MaxFaults,  \* bound: how often a host goes down or comes up, or answers too late
    TokenWindow \* TOKEN_WINDOW_SEC in ticks

ASSUME HostAssumption == First \in Hosts
ASSUME BoundAssumption ==
    /\ MaxConns \in Nat /\ MaxFaults \in Nat
    /\ Tries \in Nat \ {0} /\ TokenWindow \in Nat \ {0}

VARIABLES
    pc,         \* where the control thread is
    boot,       \* it is in start()
    expired,    \* the 180 s of the bootstrap are over
    answered,   \* the last probe of the bootstrap had an answer
    resumeUsed, \* _resume_used
    token,      \* when the stored token was issued, and the time at start
    primary,    \* primary_ip
    quic,       \* the QUICClient in use; 0 is None
    quicOk,     \* quic_ok
    conns,      \* QUICClient objects, numbered
    winner,     \* the connection that set the latest race's "done"; 0 is none
    stopped,    \* stop() has run
    up,         \* hosts that can be reached
    faults      \* faults so far

control == <<pc, boot, expired, answered, resumeUsed, token, primary>>
choice == <<quic, quicOk, winner>>
world == <<up, faults>>
vars == <<control, choice, conns, stopped, world>>

Conns == 1 .. MaxConns

\* racer: made in the latest race. thread: what attempt(), or the control thread
\* for a connection of its own, is doing with it. pooled: in _quic_fallback_pool.
\* run: _running. open: its socket.
Conn == [host : Hosts, racer : BOOLEAN, tries : 0 .. Tries,
         thread : {"over", "starting", "trying", "made"},
         pooled : BOOLEAN, run : BOOLEAN, open : BOOLEAN]

Unused == [host |-> First, racer |-> FALSE, tries |-> 0, thread |-> "over",
           pooled |-> FALSE, run |-> FALSE, open |-> FALSE]

Object(h, thread) == [Unused EXCEPT !.host = h, !.tries = Tries, !.thread = thread]

Times == 0 .. 3 * TokenWindow

Init ==
    /\ pc = "resume"
    /\ boot = TRUE
    /\ expired = FALSE
    /\ answered = FALSE
    /\ resumeUsed = FALSE
    /\ token \in {t \in [issued : 0 .. TokenWindow, now : Times] : t.issued <= t.now}
    /\ primary = First
    /\ quic = 0
    /\ quicOk = FALSE
    /\ conns = [c \in Conns |-> Unused]
    /\ winner = 0
    /\ stopped = FALSE
    /\ up \in SUBSET Hosts
    /\ faults = 0

-------------------------------------------------------------------------------
(* Connections *)

\* Objects nobody refers to, lowest first.
Free(c) == c # quic /\ conns[c].thread = "over" /\ ~conns[c].open
Lowest(S) == CHOOSE c \in S : \A d \in S : c <= d

\* close(): of an object whose thread is over nothing is left to be told.
Closed(cs, S) ==
    [c \in Conns |->
        IF c \notin S THEN cs[c]
        ELSE IF cs[c].thread = "over" THEN Unused
        ELSE [cs[c] EXCEPT !.run = FALSE, !.open = FALSE]]

Pool == {c \in Conns : conns[c].pooled}

\* A try that gets through, and one that does not.
Made(c, next) ==
    /\ conns[c].thread = "trying"
    /\ conns[c].host \in up
    /\ conns' = [conns EXCEPT ![c].thread = next, ![c].run = TRUE, ![c].open = TRUE]

Failed(c) ==
    /\ conns[c].thread = "trying"
    /\ conns[c].host \notin up

\* Slip: tries without end.
TriesAlways(c) == TRUE
TriesLeft(c) == conns[c].tries > 1

\* The read loop ends: the host is gone, or nothing came for the socket's timeout,
\* which is longer (8 s) than a race takes from a connection made to its use (0.1 s).
ReadLoopEnds(c) ==
    /\ conns[c].run
    /\ \/ conns[c].host \notin up
       \/ conns[c].thread = "over" /\ ~(pc = "racing" /\ c = winner)
    /\ conns' = [conns EXCEPT ![c].run = FALSE]
    /\ UNCHANGED <<control, choice, stopped, world>>

\* The last reference goes: the object's socket with it.
Collect(c) ==
    /\ conns[c].open /\ ~conns[c].run /\ conns[c].thread = "over"
    /\ c # quic /\ ~conns[c].pooled
    /\ conns' = Closed(conns, {c})
    /\ UNCHANGED <<control, choice, stopped, world>>

-------------------------------------------------------------------------------
(* start(): resume or probe, until the server has been reached *)

Bucket(t) == t \div TokenWindow
\* Slip: any earlier bucket will do.
VerifyAnyEarlier(t) == Bucket(t.issued) <= Bucket(t.now)
Verify(t) == Bucket(t.issued) \in {Bucket(t.now), Bucket(t.now) - 1}

\* Two datagrams; the ACK may be lost, or not be the next thing on the socket.
TryResume ==
    /\ pc = "resume"
    /\ pc' = "probe"
    /\ \/ UNCHANGED resumeUsed
       \/ /\ primary \in up
          /\ Verify(token)
          /\ resumeUsed' = TRUE
    /\ token' = [issued |-> 0, now |-> 0]
    /\ UNCHANGED <<boot, expired, answered, primary, choice, conns, stopped, world>>

\* best_destination probes every host in a thread of its own and waits 1.5 s for a
\* probe that takes two: what is there by then, nothing included, decides.
BestDestinations == Hosts

\* The health check, the probe, and the choice among the hosts.
Bootstrap ==
    /\ pc = "probe"
    /\ answered' \in BOOLEAN
    /\ answered' => up # {} /\ ~resumeUsed
    /\ primary' \in BestDestinations
    /\ pc' = "connect"
    /\ UNCHANGED <<boot, expired, resumeUsed, token, choice, conns, stopped, world>>

Reached == resumeUsed \/ quicOk \/ answered

\* Slip: there is no budget.
GivesUpNever == Reached
GivesUp == Reached \/ expired \/ stopped

Decide ==
    /\ pc = "decide"
    /\ pc' = IF GivesUp THEN "idle" ELSE "probe"
    /\ boot' = ~GivesUp
    /\ answered' = FALSE
    /\ expired' = (expired /\ ~GivesUp)
    /\ UNCHANGED <<resumeUsed, token, primary, choice, conns, stopped, world>>

BudgetEnds ==
    /\ boot /\ ~expired
    /\ expired' = TRUE
    /\ UNCHANGED <<pc, boot, answered, resumeUsed, token, primary, choice, conns, stopped, world>>

Return == IF boot THEN "decide" ELSE "idle"

-------------------------------------------------------------------------------
(* The control thread's own connection: _connect_quic, _check_and_recover_quic *)

Connect ==
    /\ pc = "connect"
    /\ \E c \in Conns : Free(c)
    /\ LET c == Lowest({d \in Conns : Free(d)})
       IN /\ quic' = c
          /\ conns' = [conns EXCEPT ![c] = Object(primary, "trying")]
    /\ pc' = "connecting"
    /\ UNCHANGED <<boot, expired, answered, resumeUsed, token, primary,
                   quicOk, winner, stopped, world>>

ConnectSucceeds ==
    /\ pc = "connecting"
    /\ Made(quic, "over")
    /\ quicOk' = TRUE
    /\ pc' = Return
    /\ UNCHANGED <<boot, expired, answered, resumeUsed, token, primary,
                   quic, winner, stopped, world>>

ConnectFails ==
    /\ pc = "connecting"
    /\ Failed(quic)
    /\ IF TriesLeft(quic)
       THEN /\ conns' = [conns EXCEPT ![quic].tries = @ - 1]
            /\ UNCHANGED <<pc, quicOk>>
       ELSE /\ conns' = [conns EXCEPT ![quic] = Unused]
            /\ quicOk' = FALSE
            /\ pc' = IF Cardinality(Hosts) > 1 THEN "race" ELSE Return
    /\ UNCHANGED <<boot, expired, answered, resumeUsed, token, primary,
                   quic, winner, stopped, world>>

\* One round of the monitor: the primary is chosen again, and a connection that
\* is not there, or whose read loop has ended, is made anew.
\* Slip: a connection once made is taken to be there.
LostNever == ~quicOk
Lost == ~quicOk \/ ~conns[quic].run

Monitor ==
    /\ pc = "idle"
    /\ ~stopped
    /\ primary' \in BestDestinations
    /\ IF Lost
       THEN pc' = "connect" /\ quicOk' = FALSE
       ELSE UNCHANGED <<pc, quicOk>>
    /\ UNCHANGED <<boot, expired, answered, resumeUsed, token,
                   quic, winner, conns, stopped, world>>

MonitorEnds ==
    /\ pc = "idle"
    /\ stopped
    /\ pc' = "over"
    /\ UNCHANGED <<boot, expired, answered, resumeUsed, token, primary, choice, conns,
                   stopped, world>>

-------------------------------------------------------------------------------
(* The race: _connect_quic_multi_fallback *)

\* Bound: a race begins when no thread of the one before is left. What that one
\* left open is in no pool any more.
StartRace ==
    /\ pc = "race"
    /\ \A c \in Conns : conns[c].racer => conns[c].thread = "over"
    /\ \E place \in [Hosts -> {c \in Conns : Free(c)}] :
          /\ \A g, h \in Hosts : g # h => place[g] # place[h]
          /\ conns' = [c \in Conns |->
                LET here == {h \in Hosts : place[h] = c}
                IN IF here # {}
                   THEN [Object(CHOOSE h \in here : TRUE, "starting") EXCEPT !.racer = TRUE]
                   ELSE [conns[c] EXCEPT !.racer = FALSE, !.pooled = FALSE]]
    /\ winner' = 0
    /\ pc' = "racing"
    /\ UNCHANGED <<boot, expired, answered, resumeUsed, token, primary, quic, quicOk, stopped, world>>

Done == winner # 0

\* A thread that finds the race done makes no connection.
AttemptStarts(c) ==
    /\ conns[c].thread = "starting"
    /\ conns' = [conns EXCEPT ![c] =
                    IF Done THEN Unused ELSE [@ EXCEPT !.thread = "trying", !.pooled = TRUE]]
    /\ UNCHANGED <<control, choice, stopped, world>>

AttemptSucceeds(c) ==
    /\ conns[c].racer
    /\ Made(c, "made")
    /\ UNCHANGED <<control, choice, stopped, world>>

AttemptFails(c) ==
    /\ conns[c].racer
    /\ Failed(c)
    /\ conns' = IF TriesLeft(c)
                THEN [conns EXCEPT ![c].tries = @ - 1]
                ELSE [conns EXCEPT ![c] = Unused]
    /\ UNCHANGED <<control, choice, stopped, world>>

\* Under winner_lock: the first one wins, the others close what they made.
\* Slip: a loser keeps its connection.
LoserKept(cs, c) == cs
Loser(cs, c) == Closed(cs, {c})

AttemptEnds(c) ==
    LET over == [conns EXCEPT ![c].thread = "over"]
    IN /\ conns[c].thread = "made"
       /\ IF Done
          THEN conns' = Loser(over, c) /\ UNCHANGED winner
          ELSE conns' = over /\ winner' = c
       /\ UNCHANGED <<control, quic, quicOk, stopped, world>>

\* Slip: the whole pool is closed.
OthersAll(w) == Pool
Others(w) == Pool \ {w}

RaceWon ==
    /\ pc = "racing"
    /\ Done
    /\ quic' = winner
    /\ quicOk' = TRUE
    /\ primary' = conns[winner].host
    /\ conns' = Closed(conns, Others(winner))
    /\ pc' = Return
    /\ UNCHANGED <<boot, expired, answered, resumeUsed, token, winner, stopped, world>>

\* The deadline. A host that can be reached by then, or has just answered, is one
\* more fault.
OutOfReach ==
    \A c \in Conns : conns[c].racer => conns[c].host \notin up /\ conns[c].thread # "made"

RaceLost ==
    /\ pc = "racing"
    /\ ~Done
    /\ \/ OutOfReach /\ UNCHANGED faults
       \/ ~OutOfReach /\ faults < MaxFaults /\ faults' = faults + 1
    /\ conns' = Closed(conns, Pool)
    /\ pc' = Return
    /\ UNCHANGED <<boot, expired, answered, resumeUsed, token, primary, choice, stopped, up>>

-------------------------------------------------------------------------------

Stop ==
    /\ ~stopped /\ ~boot
    /\ stopped' = TRUE
    /\ conns' = Closed(conns, Pool \cup ({quic} \ {0}))
    /\ UNCHANGED <<control, choice, world>>

Fault ==
    /\ faults < MaxFaults
    /\ faults' = faults + 1
    /\ \E h \in Hosts : up' = IF h \in up THEN up \ {h} ELSE up \cup {h}
    /\ UNCHANGED <<control, choice, conns, stopped>>

Control ==
    \/ TryResume \/ Bootstrap \/ Decide
    \/ Connect \/ ConnectSucceeds \/ ConnectFails \/ Monitor \/ MonitorEnds
    \/ StartRace \/ RaceWon \/ RaceLost

Attempt(c) == AttemptStarts(c) \/ AttemptSucceeds(c) \/ AttemptFails(c) \/ AttemptEnds(c)

Next ==
    \/ Control
    \/ \E c \in Conns : Attempt(c) \/ ReadLoopEnds(c) \/ Collect(c)
    \/ BudgetEnds
    \/ Stop
    \/ Fault

Spec == Init /\ [][Next]_vars

\* Threads run, tries and reads end by their timeouts, the 180 s pass.
Fairness ==
    /\ WF_vars(Control)
    /\ WF_vars(BudgetEnds)
    /\ \A c \in Conns : WF_vars(Attempt(c)) /\ WF_vars(ReadLoopEnds(c)) /\ WF_vars(Collect(c))

FairSpec == Spec /\ Fairness

-------------------------------------------------------------------------------
(* Properties *)

\* The client's control state is well typed.
TypeOK ==
    /\ pc \in {"resume", "probe", "connect", "connecting", "race", "racing",
               "decide", "idle", "over"}
    /\ {boot, expired, answered, resumeUsed, quicOk, stopped} \subseteq BOOLEAN
    /\ token \in [issued : Times, now : Times]
    /\ primary \in Hosts
    /\ quic \in 0 .. MaxConns
    /\ conns \in [Conns -> Conn]
    /\ winner \in 0 .. MaxConns
    /\ up \subseteq Hosts
    /\ faults \in 0 .. MaxFaults

\* The connection that send() uses is one the client has not closed itself,
\* whatever attempts are still under way (_connect_quic_multi_fallback).
ChosenIsOpen == quicOk /\ ~stopped => quic # 0 /\ conns[quic].open

\* A race that was won leaves one connection behind: when its threads are over,
\* every other one they made is closed again (attempt, winner_lock).
RaceLeavesOne ==
    /\ Done
    /\ pc # "racing"
    /\ \A c \in Conns : conns[c].racer => conns[c].thread = "over"
    => \A c, d \in Conns :
          conns[c].racer /\ conns[d].racer /\ conns[c].open /\ conns[d].open => c = d

\* A resume is accepted with a token that is less than two windows old, and a
\* token less than one window old is never turned down (SessionTokenManager.verify).
ResumeWindow ==
    [][/\ resumeUsed' # resumeUsed => token.now - token.issued < 2 * TokenWindow
       /\ token.now - token.issued < TokenWindow => Verify(token)]_vars

\* start() comes to its background loops, reachable server or not.
StartEnds == boot ~> ~boot

\* As long as some host can be reached, the client has a connection again and
\* again whose read loop runs; it never settles on one that it holds for good
\* and that is not (_check_and_recover_quic).
Reconnects ==
    []<>(stopped \/ up = {} \/ (quicOk /\ conns[quic].run))
===============================================================================
