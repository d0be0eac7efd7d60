---------------------------- MODULE ServerSessions ----------------------------
(***************************************************************************)
(* Where the server's return traffic goes: the session table with the two  *)
(* addresses of a Session, the session the tunnel is pinned to, idle       *)
(* expiry, the tunnel backend opened on the first payload, and the choice  *)
(* _tunnel_tx_loop makes for every packet it reads from the tunnel.        *)
(*                                                                         *)
(* The clients run in tunnel mode: DATA and KEEPALIVE leave from the       *)
(* transport socket, the one that is read; RESUME leaves from the UDP      *)
(* socket; every probe has a socket and a random session id of its own.    *)
(* The server runs with its tunnel mode on or off; off, it opens a         *)
(* backend when the first payload is rebuilt.                              *)
(*                                                                         *)
(* A datagram is handled by a thread of its own. It looks the Session up   *)
(* under sess_lock, and writes to it later. The cleanup loop may drop the  *)
(* Session in between: then the thread's Session is no longer live and its *)
(* writes are lost with it.                                                *)
(***************************************************************************)
EXTENDS Integers, FiniteSets

CONSTANTS
    Clients,         \* a client stands for its session id
    Probes,          \* a probe stands for its random session id
    NoSid,           \* _tunnel_session_id is None
    MaxMoves,        \* bound: how often a client's address changes
    MaxThreads,      \* bound: datagrams being handled at once
    Silence,         \* longest time without a datagram from a running client
    SessionTimeout   \* session_timeout_sec

ASSUME SidAssumption ==
    /\ Clients \cap Probes = {}
    /\ NoSid \notin Clients \cup Probes

ASSUME BoundAssumption ==
    /\ MaxMoves \in Nat
    /\ MaxThreads \in Nat
    /\ Silence \in Nat
    /\ SessionTimeout \in Nat

\* What keeps the session of a running client in the table.
ASSUME KeepaliveAssumption == Silence <= SessionTimeout

VARIABLES
    tunnelMode,  \* the server's tunnel_mode is not "off"
    sessions,    \* sid -> Session: addr, reply_addr, ticks since last_seen
    pin,         \* _tunnel_session_id
    tunnelUp,    \* _tunnel or _tunnel_udp_sock is set
    socks,       \* sockets bound to the on-demand backend's address
    txLoops,     \* _tunnel_tx_loop threads started
    threads,     \* handler threads and the Session each one found
    started,     \* clients whose background loops run
    silent,      \* client -> ticks since its last datagram
    moves,       \* client -> changes of its address so far
    probing,     \* probe -> not begun, its socket open, or closed
    known        \* clients whose DATA the server took at their present address

backend == <<tunnelUp, socks, txLoops>>
clientVars == <<started, silent, moves, probing>>
vars == <<tunnelMode, sessions, pin, backend, threads, clientVars, known>>

Sids == Clients \cup Probes
Kinds == {"data", "keepalive", "resume", "probe"}
Addrs == {"transport", "udp", "probe"} \X (0 .. MaxMoves)

\* The client's sockets as the server sees them.
Home(c) == <<"transport", moves[c]>>
Control(c) == <<"udp", moves[c]>>
ProbeAddr == <<"probe", 0>>

\* A datagram in its handler. live: the Session it found is still in the table.
Thread == [kind : Kinds, sid : Sids, from : Addrs,
           step : {"found", "locking", "binding", "assigning"},
           live : BOOLEAN]

\* Idle time counts no further than it takes to expire.
Session == [addr : Addrs, reply : Addrs, idle : 0 .. SessionTimeout + 1]

NewSession(a) == [addr |-> a, reply |-> a, idle |-> 0]

Init ==
    /\ tunnelMode \in BOOLEAN
    /\ sessions = [s \in {} |-> s]
    /\ pin = NoSid
    /\ tunnelUp = tunnelMode
    /\ socks = 0
    /\ txLoops = IF tunnelMode THEN 1 ELSE 0
    /\ threads = {}
    /\ started = {}
    /\ silent = [c \in Clients |-> 0]
    /\ moves = [c \in Clients |-> 0]
    /\ probing = [p \in Probes |-> "ready"]
    /\ known = {}

-------------------------------------------------------------------------------
(* The session table *)

Known(sid) == sid \in DOMAIN sessions

\* _get_session: a new Session, or the new source address of one.
Lookup(sid, a) ==
    sessions' = [s \in DOMAIN sessions \cup {sid} |->
                    IF s # sid THEN sessions[s]
                    ELSE IF Known(sid) THEN [sessions[sid] EXCEPT !.addr = a]
                    ELSE NewSession(a)]

\* The first session that is created takes the tunnel.
PinOnLookup(sid, a) ==
    pin' = IF /\ tunnelMode
              /\ pin = NoSid
              /\ Known(sid) => sessions[sid].addr # a
           THEN sid ELSE pin

Arrive(kind, sid, a) ==
    /\ Cardinality(threads) < MaxThreads
    /\ Lookup(sid, a)
    /\ PinOnLookup(sid, a)
    /\ threads' = threads \cup
          {[kind |-> kind, sid |-> sid, from |-> a, step |-> "found", live |-> TRUE]}
    /\ UNCHANGED <<tunnelMode, backend, known>>

ReceiveClient(kind, c) ==
    /\ Arrive(kind, c, Home(c))
    /\ started' = started \cup {c}
    /\ silent' = [silent EXCEPT ![c] = 0]
    /\ UNCHANGED <<moves, probing>>

\* A client resumes before it starts its loops.
ReceiveResume(c) ==
    /\ c \notin started
    /\ Arrive("resume", c, Control(c))
    /\ UNCHANGED clientVars

ReceiveProbe(p) ==
    /\ probing[p] # "closed"
    /\ Arrive("probe", p, ProbeAddr)
    /\ probing' = [probing EXCEPT ![p] = "open"]
    /\ UNCHANGED <<started, silent, moves>>

-------------------------------------------------------------------------------
(* The rest of a handler *)

Goto(t, step) == threads' = (threads \ {t}) \cup {[t EXCEPT !.step = step]}
Leave(t) == threads' = threads \ {t}

\* Slip: the session id is stored where the address belongs.
RefreshedSid(t) == [sessions[t.sid] EXCEPT !.idle = 0, !.reply = t.sid]

\* Slip: every datagram's source becomes the return address.
RefreshedByAny(t) == [sessions[t.sid] EXCEPT !.idle = 0, !.reply = t.from]

\* last_seen, and for DATA the address return packets go to.
Refreshed(t) ==
    [addr |-> sessions[t.sid].addr,
     reply |-> IF t.kind = "data" THEN t.from ELSE sessions[t.sid].reply,
     idle |-> 0]

\* DATA goes on to the shard groups, everything else is done.
Touch(t) ==
    /\ t.step = "found"
    /\ sessions' = IF t.live THEN [sessions EXCEPT ![t.sid] = Refreshed(t)]
                   ELSE sessions
    /\ known' = IF t.kind = "data" /\ t.live /\ t.from = Home(t.sid)
                THEN known \cup {t.sid} ELSE known
    /\ IF t.kind = "data" THEN Goto(t, "locking") ELSE Leave(t)
    /\ UNCHANGED <<tunnelMode, pin, backend, clientVars>>

\* The shard does not complete its group.
Store(t) ==
    /\ t.step = "locking"
    /\ Leave(t)
    /\ UNCHANGED <<tunnelMode, sessions, pin, backend, clientVars, known>>

\* sess.lock is held until _on_payload returns.
LockFree(t) ==
    \A u \in threads : u.sid = t.sid /\ u.live = t.live =>
        u.step \notin {"binding", "assigning"}

\* The shard completes its group, and _on_payload looks for a backend.
Rebuild(t) ==
    /\ t.step = "locking"
    /\ LockFree(t)
    /\ IF tunnelUp THEN Leave(t) ELSE Goto(t, "binding")
    /\ UNCHANGED <<tunnelMode, sessions, pin, backend, clientVars, known>>

\* Slip: the address can be bound twice (SO_REUSEADDR).
BindShared(t) ==
    /\ t.step = "binding"
    /\ IF tunnelUp THEN Leave(t) /\ UNCHANGED socks
       ELSE Goto(t, "assigning") /\ socks' = socks + 1
    /\ UNCHANGED <<tunnelMode, sessions, pin, tunnelUp, txLoops, clientVars, known>>

\* Only one socket can be bound to the backend's address; the handler that
\* comes second gives its payload up.
Bind(t) ==
    /\ t.step = "binding"
    /\ IF tunnelUp \/ socks > 0
       THEN Leave(t) /\ UNCHANGED socks
       ELSE Goto(t, "assigning") /\ socks' = socks + 1
    /\ UNCHANGED <<tunnelMode, sessions, pin, tunnelUp, txLoops, clientVars, known>>

\* Slip: the loop is only ever started with the server.
AssignUnread(t) ==
    /\ t.step = "assigning"
    /\ tunnelUp' = TRUE
    /\ pin' = IF pin = NoSid THEN t.sid ELSE pin
    /\ Leave(t)
    /\ UNCHANGED <<tunnelMode, sessions, socks, txLoops, clientVars, known>>

\* The socket becomes the backend, its session the tunnel's, and the loop
\* that reads the backend is started.
Assign(t) ==
    /\ t.step = "assigning"
    /\ tunnelUp' = TRUE
    /\ pin' = IF pin = NoSid THEN t.sid ELSE pin
    /\ txLoops' = IF txLoops = 0 THEN 1 ELSE txLoops
    /\ Leave(t)
    /\ UNCHANGED <<tunnelMode, sessions, socks, clientVars, known>>

HandlerStep(t) == Touch(t) \/ Store(t) \/ Rebuild(t) \/ Bind(t) \/ Assign(t)

-------------------------------------------------------------------------------
(* Cleanup, time, and what the clients do *)

Expired == {s \in DOMAIN sessions : sessions[s].idle > SessionTimeout}

Expire ==
    /\ Expired # {}
    /\ sessions' = [s \in DOMAIN sessions \ Expired |-> sessions[s]]
    /\ threads' = {[t EXCEPT !.live = t.live /\ t.sid \notin Expired] : t \in threads}
    /\ UNCHANGED <<tunnelMode, pin, backend, clientVars, known>>

Aged(s) == [s EXCEPT !.idle = IF @ > SessionTimeout THEN @ ELSE @ + 1]

\* A tick is long: every handler is done within the one of its lookup.
Tick ==
    /\ threads = {}
    /\ \A c \in started : silent[c] < Silence
    /\ sessions' = [s \in DOMAIN sessions |-> Aged(sessions[s])]
    /\ silent' = [c \in Clients |-> IF c \in started THEN silent[c] + 1 ELSE 0]
    /\ UNCHANGED <<tunnelMode, pin, backend, threads, started, moves, probing,
                   known>>

\* A NAT gives the client new addresses, or it is restarted on new sockets.
Move(c) ==
    /\ moves[c] < MaxMoves
    /\ moves' = [moves EXCEPT ![c] = @ + 1]
    /\ started' \in {started, started \ {c}}
    /\ known' = known \ {c}
    /\ UNCHANGED <<tunnelMode, sessions, pin, backend, threads, silent, probing>>

ProbeDone(p) ==
    /\ probing[p] = "open"
    /\ probing' = [probing EXCEPT ![p] = "closed"]
    /\ UNCHANGED <<tunnelMode, sessions, pin, backend, threads, started, silent,
                   moves, known>>

Next ==
    \/ \E c \in Clients, kind \in {"data", "keepalive"} : ReceiveClient(kind, c)
    \/ \E c \in Clients : ReceiveResume(c) \/ Move(c)
    \/ \E p \in Probes : ReceiveProbe(p) \/ ProbeDone(p)
    \/ \E t \in threads : HandlerStep(t)
    \/ Expire
    \/ Tick

Spec == Init /\ [][Next]_vars

-------------------------------------------------------------------------------
(* Return traffic *)

\* Slip: no way back from a pinned session that is gone.
SelectedPinned == IF pin # NoSid THEN {pin} \cap DOMAIN sessions ELSE DOMAIN sessions

\* _tunnel_tx_loop sends every packet to the pinned session, or to all of them
\* while the pinned one is not in the table.
Selected == IF Known(pin) THEN {pin} ELSE DOMAIN sessions

\* Packets from the tunnel reach the socket c reads.
Reached(c) == txLoops > 0 /\ c \in Selected /\ sessions[c].reply = Home(c)

\* The tunnel belongs to another client: the server has one tunnel to give.
HeldByOther(c) == pin \in Clients \ {c}

-------------------------------------------------------------------------------
(* Fairness *)

\* Threads are scheduled, time passes, the cleanup loop runs, and probes end.
\* Of the DATA a client sends without end some is handled, and so is a payload's
\* last shard: these are strong, because a full server drops datagrams.
Fairness ==
    /\ []<><<Tick>>_vars
    /\ WF_vars(Expire)
    /\ \A p \in Probes : WF_vars(ProbeDone(p))
    /\ \A c \in Clients : SF_vars(ReceiveClient("data", c))
    /\ SF_vars(\E t \in threads : Rebuild(t))
    /\ SF_vars(\E t \in threads : Bind(t))

FairSpec == Spec /\ Fairness

-------------------------------------------------------------------------------
(* Properties *)

TypeOK ==
    /\ tunnelMode \in BOOLEAN
    /\ DOMAIN sessions \subseteq Sids
    /\ sessions \in [DOMAIN sessions -> Session]
    /\ pin \in Sids \cup {NoSid}
    /\ tunnelUp \in BOOLEAN
    /\ socks \in Nat
    /\ txLoops \in Nat
    /\ threads \subseteq Thread
    /\ started \subseteq Clients
    /\ silent \in [Clients -> 0 .. Silence]
    /\ moves \in [Clients -> 0 .. MaxMoves]
    /\ probing \in [Probes -> {"ready", "open", "closed"}]
    /\ known \subseteq Clients

\* Handlers that rebuild the first payloads of several sessions at once find no
\* backend and all set out to open one (_ensure_adaptive_tunnel_backend holds no
\* lock): still one socket is bound and one _tunnel_tx_loop is started.
OneBackend ==
    /\ socks <= 1
    /\ txLoops <= 1
    /\ tunnelUp <=> txLoops = 1

\* Once the server took DATA from a running client, its session stays in the
\* table, and return packets leave for a socket DATA came from, whatever RESUME,
\* probes and keepalives do to Session.addr.
DataKeepsReturnPath ==
    \A c \in known :
        /\ Known(c)
        /\ \E m \in 0 .. moves[c] : sessions[c].reply = <<"transport", m>>

\* After a restart, a NAT rebinding, a probe that took the tunnel, or a race for
\* the backend, return packets reach the client again and keep reaching it,
\* unless another client holds the tunnel (_tunnel_tx_loop, _cleanup_loop).
ReturnPathSettles == \A c \in Clients : <>[](Reached(c) \/ HeldByOther(c))

\* "Keep tunnel return path pinned to the latest data socket, not transient
\* probe/keepalive source ports" (_handle_data).
PinnedToData ==
    \A c \in known : txLoops > 0 /\ moves[c] = 0 => Reached(c) \/ HeldByOther(c)
===============================================================================
