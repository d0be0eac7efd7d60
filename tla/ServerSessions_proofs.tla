------------------------ MODULE ServerSessions_proofs -------------------------
(***************************************************************************)
(* Proofs about ServerSessions: every state is well typed, there is never  *)
(* more than one tunnel backend, and a client whose DATA the server took   *)
(* keeps its session and its return address.                               *)
(***************************************************************************)
EXTENDS ServerSessions, TLAPS

-------------------------------------------------------------------------------
(* The inductive invariant *)

\* What a handler carries still fits the state it left: a live Session is in the
\* table, and DATA came from a transport socket of the client it names.
ThreadsTrue ==
    \A t \in threads :
        /\ t.live => Known(t.sid)
        /\ t.kind = "data" =>
              /\ t.sid \in Clients
              /\ \E m \in 0 .. moves[t.sid] : t.from = <<"transport", m>>
              /\ t.from = Home(t.sid) => t.sid \in started

Refreshing(c) == \E t \in threads : t.live /\ t.step = "found" /\ t.sid = c

\* The session of a known client is as fresh as the client's last datagram,
\* unless the handler of that datagram has yet to say so.
KnownFresh ==
    \A c \in known :
        /\ c \in started
        /\ Known(c)
        /\ sessions[c].idle <= Silence
        /\ sessions[c].idle <= silent[c] \/ Refreshing(c)
        /\ \E m \in 0 .. moves[c] : sessions[c].reply = <<"transport", m>>

Assigning == {t \in threads : t.step = "assigning"}

\* No socket yet; one that a single handler is about to make the backend; or
\* the backend.
BackendStages ==
    \/ ~tunnelUp /\ socks = 0 /\ txLoops = 0 /\ Assigning = {}
    \/ ~tunnelUp /\ socks = 1 /\ txLoops = 0 /\ \A t, u \in Assigning : t = u
    \/ tunnelUp /\ socks \in {0, 1} /\ txLoops = 1 /\ Assigning = {}

IInv == TypeOK /\ ThreadsTrue /\ KnownFresh /\ BackendStages

LEMMA InitInv == Init => IInv
<1>. SUFFICES ASSUME Init PROVE IInv
  OBVIOUS
<1>1. TypeOK
  BY BoundAssumption DEF Init, TypeOK
<1>2. ThreadsTrue /\ KnownFresh
  BY DEF Init, ThreadsTrue, KnownFresh
<1>3. BackendStages
  BY DEF Init, BackendStages, Assigning
<1>. QED
  BY <1>1, <1>2, <1>3 DEF IInv

-------------------------------------------------------------------------------
(* The lookup every datagram starts with *)

\* A lookup leaves a well-typed table in which the session is present, and
\* changes neither the reply address nor the idle time of a known session.
LEMMA LookupKeeps ==
    ASSUME TypeOK, NEW sid \in Sids, NEW a \in Addrs, Lookup(sid, a)
    PROVE  /\ DOMAIN sessions' = DOMAIN sessions \cup {sid}
           /\ sessions' \in [DOMAIN sessions' -> Session]
           /\ \A s \in DOMAIN sessions :
                 /\ sessions'[s].reply = sessions[s].reply
                 /\ sessions'[s].idle = sessions[s].idle
<1>1. NewSession(a) \in Session
  BY BoundAssumption DEF NewSession, Session
<1>2. \A s \in DOMAIN sessions :
         /\ sessions[s] \in Session
         /\ [sessions[s] EXCEPT !.addr = a] \in Session
         /\ [sessions[s] EXCEPT !.addr = a].reply = sessions[s].reply
         /\ [sessions[s] EXCEPT !.addr = a].idle = sessions[s].idle
  BY DEF TypeOK, Session
<1>. QED
  BY <1>1, <1>2 DEF Lookup, Known

\* The thread Arrive starts.
Fresh(kind, sid, a) ==
    [kind |-> kind, sid |-> sid, from |-> a, step |-> "found", live |-> TRUE]

LEMMA ArriveTyped ==
    ASSUME TypeOK, NEW kind \in Kinds, NEW sid \in Sids, NEW a \in Addrs,
           Arrive(kind, sid, a)
    PROVE  /\ DOMAIN sessions' \subseteq Sids
           /\ sessions' \in [DOMAIN sessions' -> Session]
           /\ pin' \in Sids \cup {NoSid}
           /\ threads' = threads \cup {Fresh(kind, sid, a)}
           /\ threads' \subseteq Thread
           /\ UNCHANGED <<tunnelMode, tunnelUp, socks, txLoops, known>>
<1>1. /\ DOMAIN sessions' = DOMAIN sessions \cup {sid}
      /\ sessions' \in [DOMAIN sessions' -> Session]
  BY LookupKeeps DEF Arrive
<1>2. pin' \in Sids \cup {NoSid}
  BY DEF Arrive, PinOnLookup, TypeOK
<1>3. threads' = threads \cup {Fresh(kind, sid, a)}
  BY DEF Arrive, Fresh
<1>4. Fresh(kind, sid, a) \in Thread
  BY DEF Fresh, Thread
<1>5. DOMAIN sessions' \subseteq Sids /\ threads' \subseteq Thread
  BY <1>1, <1>3, <1>4 DEF TypeOK
<1>6. UNCHANGED <<tunnelMode, tunnelUp, socks, txLoops, known>>
  BY DEF Arrive, backend
<1>. QED
  BY <1>1, <1>2, <1>3, <1>5, <1>6

\* A new thread in "found" disturbs no stage of the backend.
LEMMA ArriveStages ==
    ASSUME IInv, NEW kind, NEW sid, NEW a, Arrive(kind, sid, a)
    PROVE  BackendStages'
<1>1. Assigning' = Assigning
  BY DEF Assigning, Arrive
<1>. QED
  BY <1>1 DEF IInv, BackendStages, Arrive, backend

\* Whatever arrives, known clients keep their sessions.
LEMMA ArriveKnown ==
    ASSUME IInv, NEW kind \in Kinds, NEW sid \in Sids, NEW a \in Addrs,
           Arrive(kind, sid, a), NEW c \in known
    PROVE  /\ Known(c)'
           /\ sessions'[c].reply = sessions[c].reply
           /\ sessions'[c].idle = sessions[c].idle
           /\ Refreshing(c) => Refreshing(c)'
<1>1. Known(c) /\ TypeOK
  BY DEF IInv, KnownFresh
<1>2. /\ DOMAIN sessions' = DOMAIN sessions \cup {sid}
      /\ sessions'[c].reply = sessions[c].reply
      /\ sessions'[c].idle = sessions[c].idle
  BY <1>1, LookupKeeps DEF Arrive, Known
<1>3. threads \subseteq threads'
  BY DEF Arrive
<1>. QED
  BY <1>1, <1>2, <1>3 DEF Known, Refreshing

-------------------------------------------------------------------------------
(* One lemma per action *)

LEMMA ReceiveClientInv ==
    ASSUME IInv, NEW c \in Clients, NEW kind \in {"data", "keepalive"},
           ReceiveClient(kind, c)
    PROVE  IInv'
<1>. USE DEF IInv
<1>. DEFINE t == Fresh(kind, c, Home(c))
<1>1. kind \in Kinds /\ c \in Sids /\ moves[c] \in 0 .. MaxMoves /\ Home(c) \in Addrs
  BY DEF Kinds, Sids, TypeOK, Home, Addrs
<1>2. /\ DOMAIN sessions' \subseteq Sids
      /\ sessions' \in [DOMAIN sessions' -> Session]
      /\ pin' \in Sids \cup {NoSid}
      /\ threads' = threads \cup {t}
      /\ threads' \subseteq Thread
      /\ UNCHANGED <<tunnelMode, tunnelUp, socks, txLoops, known>>
  BY <1>1, ArriveTyped DEF ReceiveClient
<1>3. /\ started' = started \cup {c}
      /\ silent' = [silent EXCEPT ![c] = 0]
      /\ UNCHANGED <<moves, probing>>
  BY DEF ReceiveClient
<1>4. DOMAIN sessions' = DOMAIN sessions \cup {c}
  BY <1>1, LookupKeeps DEF ReceiveClient, Arrive
<1>5. TypeOK'
  BY <1>2, <1>3, BoundAssumption DEF TypeOK
<1>6. ThreadsTrue'
  <2>. SUFFICES ASSUME NEW u \in threads'
                PROVE  /\ u.live => Known(u.sid)'
                       /\ u.kind = "data" =>
                             /\ u.sid \in Clients
                             /\ \E m \in 0 .. moves'[u.sid] : u.from = <<"transport", m>>
                             /\ u.from = Home(u.sid)' => u.sid \in started'
    BY DEF ThreadsTrue
  <2>1. CASE u \in threads
    BY <2>1, <1>3, <1>4 DEF ThreadsTrue, Known, Home
  <2>2. CASE u = t
    <3>1. u.sid = c /\ u.from = <<"transport", moves[c]>>
      BY <2>2 DEF Fresh, Home
    <3>. QED
      BY <3>1, <1>1, <1>3, <1>4 DEF Known
  <2>. QED
    BY <2>1, <2>2, <1>2
<1>7. KnownFresh'
  <2>. SUFFICES ASSUME NEW d \in known
                PROVE  /\ d \in started'
                       /\ Known(d)'
                       /\ sessions'[d].idle <= Silence
                       /\ sessions'[d].idle <= silent'[d] \/ Refreshing(d)'
                       /\ \E m \in 0 .. moves'[d] : sessions'[d].reply = <<"transport", m>>
    BY <1>2 DEF KnownFresh
  <2>1. /\ Known(d)'
        /\ sessions'[d].reply = sessions[d].reply
        /\ sessions'[d].idle = sessions[d].idle
        /\ Refreshing(d) => Refreshing(d)'
    BY <1>1, ArriveKnown DEF ReceiveClient
  <2>2. sessions'[d].idle <= silent'[d] \/ Refreshing(d)'
    <3>1. CASE d = c
      <4>1. t \in threads' /\ t.live /\ t.step = "found" /\ t.sid = d
        BY <3>1, <1>2 DEF Fresh
      <4>. QED
        BY <4>1 DEF Refreshing
    <3>2. CASE d # c
      <4>1. silent'[d] = silent[d]
        BY <3>2, <1>3 DEF TypeOK
      <4>2. sessions[d].idle <= silent[d] \/ Refreshing(d)
        BY DEF KnownFresh
      <4>. QED
        BY <4>1, <4>2, <2>1
    <3>. QED
      BY <3>1, <3>2
  <2>. QED
    BY <2>1, <2>2, <1>3 DEF KnownFresh
<1>8. BackendStages'
  BY ArriveStages DEF ReceiveClient
<1>. QED
  BY <1>5, <1>6, <1>7, <1>8

LEMMA ReceiveResumeInv ==
    ASSUME IInv, NEW c \in Clients, ReceiveResume(c)
    PROVE  IInv'
<1>. USE DEF IInv
<1>. DEFINE t == Fresh("resume", c, Control(c))
<1>1. "resume" \in Kinds /\ c \in Sids /\ Control(c) \in Addrs
  BY DEF Kinds, Sids, TypeOK, Control, Addrs
<1>2. /\ DOMAIN sessions' \subseteq Sids
      /\ sessions' \in [DOMAIN sessions' -> Session]
      /\ pin' \in Sids \cup {NoSid}
      /\ threads' = threads \cup {t}
      /\ threads' \subseteq Thread
      /\ UNCHANGED <<tunnelMode, tunnelUp, socks, txLoops, known>>
  BY <1>1, ArriveTyped DEF ReceiveResume
<1>3. UNCHANGED <<started, silent, moves, probing>>
  BY DEF ReceiveResume, clientVars
<1>4. DOMAIN sessions' = DOMAIN sessions \cup {c}
  BY <1>1, LookupKeeps DEF ReceiveResume, Arrive
<1>5. TypeOK'
  BY <1>2, <1>3 DEF TypeOK
<1>6. ThreadsTrue'
  BY <1>2, <1>3, <1>4 DEF ThreadsTrue, Known, Home, Fresh
<1>7. KnownFresh'
  <2>1. \A d \in known : /\ Known(d)'
                         /\ sessions'[d].reply = sessions[d].reply
                         /\ sessions'[d].idle = sessions[d].idle
                         /\ Refreshing(d) => Refreshing(d)'
    BY <1>1, ArriveKnown DEF ReceiveResume
  <2>. QED
    BY <2>1, <1>2, <1>3 DEF KnownFresh
<1>8. BackendStages'
  BY ArriveStages DEF ReceiveResume
<1>. QED
  BY <1>5, <1>6, <1>7, <1>8

LEMMA ReceiveProbeInv ==
    ASSUME IInv, NEW p \in Probes, ReceiveProbe(p)
    PROVE  IInv'
<1>. USE DEF IInv
<1>. DEFINE t == Fresh("probe", p, ProbeAddr)
<1>1. "probe" \in Kinds /\ p \in Sids /\ ProbeAddr \in Addrs
  BY BoundAssumption DEF Kinds, Sids, ProbeAddr, Addrs
<1>2. /\ DOMAIN sessions' \subseteq Sids
      /\ sessions' \in [DOMAIN sessions' -> Session]
      /\ pin' \in Sids \cup {NoSid}
      /\ threads' = threads \cup {t}
      /\ threads' \subseteq Thread
      /\ UNCHANGED <<tunnelMode, tunnelUp, socks, txLoops, known>>
  BY <1>1, ArriveTyped DEF ReceiveProbe
<1>3. /\ UNCHANGED <<started, silent, moves>>
      /\ probing' = [probing EXCEPT ![p] = "open"]
  BY DEF ReceiveProbe
<1>4. DOMAIN sessions' = DOMAIN sessions \cup {p}
  BY <1>1, LookupKeeps DEF ReceiveProbe, Arrive
<1>5. TypeOK'
  BY <1>2, <1>3 DEF TypeOK
<1>6. ThreadsTrue'
  BY <1>2, <1>3, <1>4 DEF ThreadsTrue, Known, Home, Fresh
<1>7. KnownFresh'
  <2>1. \A d \in known : /\ Known(d)'
                         /\ sessions'[d].reply = sessions[d].reply
                         /\ sessions'[d].idle = sessions[d].idle
                         /\ Refreshing(d) => Refreshing(d)'
    BY <1>1, ArriveKnown DEF ReceiveProbe
  <2>. QED
    BY <2>1, <1>2, <1>3 DEF KnownFresh
<1>8. BackendStages'
  BY ArriveStages DEF ReceiveProbe
<1>. QED
  BY <1>5, <1>6, <1>7, <1>8

LEMMA TouchInv ==
    ASSUME IInv, NEW t \in threads, Touch(t)
    PROVE  IInv'
<1>. USE DEF IInv
<1>1. t \in Thread /\ threads \subseteq Thread
  BY DEF TypeOK
<1>2. /\ t.sid \in Sids /\ t.from \in Addrs /\ t.live \in BOOLEAN /\ t.kind \in Kinds
      /\ t.live => t.sid \in DOMAIN sessions
  BY <1>1 DEF Thread, ThreadsTrue, Known
<1>3. [t EXCEPT !.step = "locking"] \in Thread
  BY <1>1 DEF Thread
<1>4. t.step = "found"
  BY DEF Touch
<1>5. UNCHANGED <<tunnelMode, pin, tunnelUp, socks, txLoops,
                  started, silent, moves, probing>>
  BY DEF Touch, backend, clientVars
<1>6. \/ threads' = threads \ {t}
      \/ threads' = (threads \ {t}) \cup {[t EXCEPT !.step = "locking"]}
  BY DEF Touch, Goto, Leave
<1>7. /\ DOMAIN sessions' = DOMAIN sessions
      /\ sessions' \in [DOMAIN sessions -> Session]
      /\ \A s \in DOMAIN sessions : t.live /\ s = t.sid =>
            /\ sessions'[s].idle = 0
            /\ sessions'[s].reply = IF t.kind = "data" THEN t.from ELSE sessions[s].reply
      /\ \A s \in DOMAIN sessions : ~(t.live /\ s = t.sid) => sessions'[s] = sessions[s]
  <2>1. CASE ~t.live
    BY <2>1 DEF Touch, TypeOK
  <2>2. CASE t.live
    <3>1. sessions[t.sid] \in Session
      BY <2>2, <1>2 DEF TypeOK
    <3>2. /\ Refreshed(t) \in Session
          /\ Refreshed(t).idle = 0
          /\ Refreshed(t).reply = IF t.kind = "data" THEN t.from ELSE sessions[t.sid].reply
      <4>1. /\ sessions[t.sid].addr \in Addrs
            /\ sessions[t.sid].reply \in Addrs
        BY <3>1 DEF Session
      <4>. QED
        BY <4>1, <1>2, BoundAssumption DEF Refreshed, Session
    <3>3. sessions' = [sessions EXCEPT ![t.sid] = Refreshed(t)]
      BY <2>2 DEF Touch
    <3>. QED
      BY <3>2, <3>3, <2>2, <1>2 DEF TypeOK
  <2>. QED
    BY <2>1, <2>2, <1>2
<1>8. /\ known' \in {known, known \cup {t.sid}}
      /\ known' # known => t.kind = "data" /\ t.live /\ t.from = Home(t.sid)
  BY DEF Touch
<1>9. t.kind = "data" =>
         /\ t.sid \in Clients
         /\ \E m \in 0 .. moves[t.sid] : t.from = <<"transport", m>>
         /\ t.from = Home(t.sid) => t.sid \in started
  BY DEF ThreadsTrue
<1>10. TypeOK'
  <2>1. known' \subseteq Clients
    BY <1>8, <1>9 DEF TypeOK
  <2>2. threads' \subseteq Thread
    BY <1>1, <1>3, <1>6
  <2>. QED
    BY <1>5, <1>7, <2>1, <2>2 DEF TypeOK
<1>11. ThreadsTrue'
  <2>. SUFFICES ASSUME NEW u \in threads'
                PROVE  /\ u.live => Known(u.sid)'
                       /\ u.kind = "data" =>
                             /\ u.sid \in Clients
                             /\ \E m \in 0 .. moves'[u.sid] : u.from = <<"transport", m>>
                             /\ u.from = Home(u.sid)' => u.sid \in started'
    BY DEF ThreadsTrue
  <2>1. PICK v \in threads : /\ u.live = v.live /\ u.sid = v.sid
                             /\ u.kind = v.kind /\ u.from = v.from
    BY <1>6, <1>1 DEF Thread
  <2>. QED
    BY <2>1, <1>5, <1>7 DEF ThreadsTrue, Known, Home
<1>12. KnownFresh'
  <2>. SUFFICES ASSUME NEW c \in known'
                PROVE  /\ c \in started
                       /\ c \in DOMAIN sessions
                       /\ sessions'[c].idle <= Silence
                       /\ sessions'[c].idle <= silent[c] \/ Refreshing(c)'
                       /\ \E m \in 0 .. moves[c] : sessions'[c].reply = <<"transport", m>>
    BY <1>5, <1>7 DEF KnownFresh, Known
  <2>1. c \in Clients
    BY <1>10 DEF TypeOK
  <2>2. CASE t.live /\ t.sid = c
    <3>1. c \in started
      BY <2>2, <1>8, <1>9 DEF KnownFresh
    <3>2. \E m \in 0 .. moves[c] : sessions'[c].reply = <<"transport", m>>
      <4>1. CASE t.kind = "data"
        BY <4>1, <2>2, <1>2, <1>7, <1>9
      <4>2. CASE t.kind # "data"
        BY <4>2, <2>2, <1>2, <1>7, <1>8 DEF KnownFresh
      <4>. QED
        BY <4>1, <4>2
    <3>3. silent[c] \in Nat /\ Silence \in Nat
      BY <2>1, BoundAssumption DEF TypeOK
    <3>. QED
      BY <3>1, <3>2, <3>3, <2>2, <1>2, <1>7
  <2>3. CASE ~(t.live /\ t.sid = c)
    <3>1. c \in known
      BY <2>3, <1>8
    <3>2. Refreshing(c) => Refreshing(c)'
      BY <2>3, <1>6 DEF Refreshing
    <3>. QED
      BY <3>1, <3>2, <2>3, <1>7 DEF KnownFresh, Known
  <2>. QED
    BY <2>2, <2>3
<1>13. BackendStages'
  <2>1. Assigning' = Assigning
    BY <1>1, <1>4, <1>6 DEF Assigning, Thread
  <2>. QED
    BY <2>1, <1>5 DEF BackendStages
<1>. QED
  BY <1>10, <1>11, <1>12, <1>13

\* What Store, Rebuild, Bind and Assign have in common: a thread past its lookup
\* goes on or ends, and table and clients stay as they are.
LEMMA MoveOn ==
    ASSUME IInv, NEW t \in threads, t.step # "found",
           NEW step \in {"binding", "assigning"}, Leave(t) \/ Goto(t, step),
           UNCHANGED <<tunnelMode, sessions, clientVars, known>>
    PROVE  threads' \subseteq Thread /\ ThreadsTrue' /\ KnownFresh'
<1>. USE DEF IInv
<1>1. threads \subseteq Thread
  BY DEF TypeOK
<1>2. [t EXCEPT !.step = step] \in Thread
  BY <1>1 DEF Thread
<1>3. UNCHANGED <<sessions, started, silent, moves, probing, known>>
  BY DEF clientVars
<1>4. \/ threads' = threads \ {t}
      \/ threads' = (threads \ {t}) \cup {[t EXCEPT !.step = step]}
  BY DEF Goto, Leave
<1>5. threads' \subseteq Thread
  BY <1>1, <1>2, <1>4
<1>6. ThreadsTrue'
  <2>1. \A u \in threads' : \E v \in threads :
           u.live = v.live /\ u.sid = v.sid /\ u.kind = v.kind /\ u.from = v.from
    BY <1>1, <1>4 DEF Thread
  <2>. QED
    BY <2>1, <1>3 DEF ThreadsTrue, Known, Home
<1>7. KnownFresh'
  <2>1. ASSUME NEW c, Refreshing(c) PROVE Refreshing(c)'
    BY <2>1, <1>4 DEF Refreshing
  <2>. QED
    BY <2>1, <1>3 DEF KnownFresh, Known
<1>. QED
  BY <1>5, <1>6, <1>7

LEMMA HandlerInv ==
    ASSUME IInv, NEW t \in threads, Store(t) \/ Rebuild(t) \/ Bind(t) \/ Assign(t)
    PROVE  IInv'
<1>. USE DEF IInv
<1>1. t \in Thread /\ threads \subseteq Thread
  BY DEF TypeOK
<1>2. CASE Store(t) \/ Rebuild(t)
  <2>1. /\ t.step = "locking"
        /\ Leave(t) \/ Goto(t, "binding")
        /\ UNCHANGED <<tunnelMode, sessions, clientVars, known>>
        /\ UNCHANGED <<pin, tunnelUp, socks, txLoops>>
    BY <1>2 DEF Store, Rebuild, backend
  <2>2. threads' \subseteq Thread /\ ThreadsTrue' /\ KnownFresh'
    BY <2>1, MoveOn
  <2>3. Assigning' = Assigning
    BY <2>1, <1>1 DEF Assigning, Leave, Goto, Thread
  <2>4. TypeOK'
    BY <2>1, <2>2 DEF TypeOK, clientVars
  <2>. QED
    BY <2>1, <2>2, <2>3, <2>4 DEF BackendStages
<1>3. CASE Bind(t)
  <2>1. /\ t.step = "binding"
        /\ UNCHANGED <<tunnelMode, sessions, clientVars, known>>
        /\ UNCHANGED <<pin, tunnelUp, txLoops>>
    BY <1>3 DEF Bind
  <2>2. CASE tunnelUp \/ socks > 0
    <3>1. Leave(t) /\ UNCHANGED socks
      BY <2>2, <1>3 DEF Bind
    <3>2. threads' \subseteq Thread /\ ThreadsTrue' /\ KnownFresh'
      BY <3>1, <2>1, MoveOn
    <3>3. Assigning' = Assigning
      BY <3>1, <2>1, <1>1 DEF Assigning, Leave
    <3>4. TypeOK'
      BY <2>1, <3>1, <3>2 DEF TypeOK, clientVars
    <3>. QED
      BY <2>1, <3>1, <3>2, <3>3, <3>4 DEF BackendStages
  <2>3. CASE ~(tunnelUp \/ socks > 0)
    <3>1. Goto(t, "assigning") /\ socks' = socks + 1
      BY <2>3, <1>3 DEF Bind
    <3>2. threads' \subseteq Thread /\ ThreadsTrue' /\ KnownFresh'
      BY <3>1, <2>1, MoveOn
    <3>3. ~tunnelUp /\ socks = 0 /\ txLoops = 0 /\ Assigning = {}
      BY <2>3 DEF BackendStages
    <3>4. \A u, v \in Assigning' : u = v
      BY <3>1, <3>3 DEF Assigning, Goto
    <3>5. TypeOK'
      BY <2>1, <3>1, <3>2 DEF TypeOK, clientVars
    <3>. QED
      BY <2>1, <3>1, <3>2, <3>3, <3>4, <3>5 DEF BackendStages
  <2>. QED
    BY <2>2, <2>3
<1>4. CASE Assign(t)
  <2>1. /\ t.step = "assigning"
        /\ Leave(t)
        /\ UNCHANGED <<tunnelMode, sessions, clientVars, known>>
        /\ tunnelUp' = TRUE
        /\ UNCHANGED socks
        /\ pin' = IF pin = NoSid THEN t.sid ELSE pin
        /\ txLoops' = IF txLoops = 0 THEN 1 ELSE txLoops
    BY <1>4 DEF Assign
  <2>2. threads' \subseteq Thread /\ ThreadsTrue' /\ KnownFresh'
    BY <2>1, MoveOn
  <2>3. t \in Assigning
    BY <2>1 DEF Assigning
  <2>4. socks = 1 /\ txLoops = 0 /\ \A u, v \in Assigning : u = v
    BY <2>3 DEF BackendStages
  <2>5. Assigning' = {}
    BY <2>1, <2>3, <2>4 DEF Assigning, Leave
  <2>6. t.sid \in Sids
    BY <1>1 DEF Thread
  <2>7. TypeOK'
    BY <2>1, <2>2, <2>4, <2>6 DEF TypeOK, clientVars
  <2>. QED
    BY <2>1, <2>2, <2>4, <2>5, <2>7 DEF BackendStages
<1>. QED
  BY <1>2, <1>3, <1>4

LEMMA ExpireInv == IInv /\ Expire => IInv'
<1>. SUFFICES ASSUME IInv, Expire PROVE IInv'
  OBVIOUS
<1>. USE DEF IInv
<1>1. /\ DOMAIN sessions' = DOMAIN sessions \ Expired
      /\ \A s \in DOMAIN sessions' : sessions'[s] = sessions[s]
      /\ sessions' \in [DOMAIN sessions' -> Session]
      /\ DOMAIN sessions' \subseteq Sids
  BY DEF Expire, TypeOK
<1>2. UNCHANGED <<tunnelMode, pin, tunnelUp, socks, txLoops,
                  started, silent, moves, probing, known>>
  BY DEF Expire, backend, clientVars
<1>. DEFINE Cut(t) == [t EXCEPT !.live = t.live /\ t.sid \notin Expired]
<1>3. \A t \in threads : /\ Cut(t) \in Thread
                         /\ Cut(t).live <=> t.live /\ t.sid \notin Expired
                         /\ Cut(t).sid = t.sid
                         /\ Cut(t).kind = t.kind
                         /\ Cut(t).from = t.from
                         /\ Cut(t).step = t.step
  BY DEF TypeOK, Thread
<1>4. threads' = {Cut(t) : t \in threads}
  BY DEF Expire
<1>. HIDE DEF Cut
<1>5. TypeOK'
  BY <1>1, <1>2, <1>3, <1>4 DEF TypeOK
<1>6. ThreadsTrue'
  <2>. SUFFICES ASSUME NEW u \in threads'
                PROVE  /\ u.live => u.sid \in DOMAIN sessions'
                       /\ u.kind = "data" =>
                             /\ u.sid \in Clients
                             /\ \E m \in 0 .. moves[u.sid] : u.from = <<"transport", m>>
                             /\ u.from = Home(u.sid) => u.sid \in started
    BY <1>2 DEF ThreadsTrue, Home, Known
  <2>1. PICK t \in threads : u = Cut(t)
    BY <1>4
  <2>. QED
    BY <2>1, <1>1, <1>3 DEF ThreadsTrue, Known
<1>7. KnownFresh'
  <2>. SUFFICES ASSUME NEW c \in known
                PROVE  /\ c \in started
                       /\ Known(c)'
                       /\ sessions'[c].idle <= Silence
                       /\ sessions'[c].idle <= silent[c] \/ Refreshing(c)'
                       /\ \E m \in 0 .. moves[c] : sessions'[c].reply = <<"transport", m>>
    BY <1>2 DEF KnownFresh
  <2>1. Known(c) /\ sessions[c].idle <= Silence
    BY DEF KnownFresh
  <2>2. sessions[c] \in Session
    BY <2>1 DEF TypeOK, Known
  <2>3. c \notin Expired
    BY <2>1, <2>2, KeepaliveAssumption, BoundAssumption DEF Expired, Session
  <2>4. c \in DOMAIN sessions' /\ sessions'[c] = sessions[c]
    BY <1>1, <2>1, <2>3 DEF Known
  <2>5. Refreshing(c) => Refreshing(c)'
    <3>. SUFFICES ASSUME NEW t \in threads, t.live, t.step = "found", t.sid = c
                  PROVE  Refreshing(c)'
      BY DEF Refreshing
    <3>. QED
      BY <1>3, <1>4, <2>3 DEF Refreshing
  <2>. QED
    BY <2>4, <2>5 DEF KnownFresh, Known
<1>8. BackendStages'
  <2>1. \A t \in threads : Cut(t).step = "assigning" <=> t.step = "assigning"
    BY <1>3
  <2>2. Assigning' = {Cut(t) : t \in Assigning}
    BY <2>1, <1>4 DEF Assigning
  <2>. QED
    BY <2>2, <1>2 DEF BackendStages
<1>. QED
  BY <1>5, <1>6, <1>7, <1>8

LEMMA TickInv == IInv /\ Tick => IInv'
<1>. SUFFICES ASSUME IInv, Tick PROVE IInv'
  OBVIOUS
<1>. USE DEF IInv
<1>1. /\ threads = {}
      /\ threads' = {}
      /\ \A c \in started : silent[c] < Silence
      /\ UNCHANGED <<tunnelMode, pin, tunnelUp, socks, txLoops,
                     started, moves, probing, known>>
  BY DEF Tick, backend
<1>2. \A s \in Session : /\ Aged(s) \in Session
                         /\ Aged(s).reply = s.reply
                         /\ Aged(s).idle <= s.idle + 1
  <2>. SUFFICES ASSUME NEW s \in Session
                PROVE  /\ Aged(s) \in Session
                       /\ Aged(s).reply = s.reply
                       /\ Aged(s).idle <= s.idle + 1
    OBVIOUS
  <2>. DEFINE i == IF s.idle > SessionTimeout THEN s.idle ELSE s.idle + 1
  <2>1. s.idle \in 0 .. SessionTimeout + 1
    BY DEF Session
  <2>2. i \in 0 .. SessionTimeout + 1 /\ i <= s.idle + 1
    BY <2>1, BoundAssumption
  <2>3. Aged(s) = [s EXCEPT !.idle = i]
    BY DEF Aged
  <2>. HIDE DEF i
  <2>. QED
    BY <2>2, <2>3 DEF Session
<1>3. /\ DOMAIN sessions' = DOMAIN sessions
      /\ \A s \in DOMAIN sessions : sessions'[s] = Aged(sessions[s])
      /\ sessions' \in [DOMAIN sessions -> Session]
  BY <1>2 DEF Tick, TypeOK
<1>4. silent' = [c \in Clients |-> IF c \in started THEN silent[c] + 1 ELSE 0]
  BY DEF Tick
<1>5. silent' \in [Clients -> 0 .. Silence]
  <2>. SUFFICES ASSUME NEW c \in Clients
                PROVE  (IF c \in started THEN silent[c] + 1 ELSE 0) \in 0 .. Silence
    BY <1>4
  <2>1. silent[c] \in 0 .. Silence
    BY DEF TypeOK
  <2>. QED
    BY <2>1, <1>1, BoundAssumption
<1>6. TypeOK'
  BY <1>1, <1>3, <1>5 DEF TypeOK
<1>7. ThreadsTrue'
  BY <1>1 DEF ThreadsTrue
<1>8. KnownFresh'
  <2>. SUFFICES ASSUME NEW c \in known
                PROVE  /\ c \in started
                       /\ Known(c)'
                       /\ sessions'[c].idle <= Silence
                       /\ sessions'[c].idle <= silent'[c]
                       /\ \E m \in 0 .. moves[c] : sessions'[c].reply = <<"transport", m>>
    BY <1>1 DEF KnownFresh
  <2>1. /\ c \in started
        /\ c \in DOMAIN sessions
        /\ sessions[c].idle <= silent[c]
        /\ \E m \in 0 .. moves[c] : sessions[c].reply = <<"transport", m>>
    BY <1>1 DEF KnownFresh, Refreshing, Known
  <2>2. c \in Clients /\ silent[c] \in 0 .. Silence /\ silent[c] < Silence
    BY <2>1, <1>1 DEF TypeOK
  <2>3. sessions[c] \in Session /\ sessions'[c] = Aged(sessions[c])
    BY <2>1, <1>3 DEF TypeOK
  <2>4. /\ Aged(sessions[c]).reply = sessions[c].reply
        /\ Aged(sessions[c]).idle <= sessions[c].idle + 1
        /\ Aged(sessions[c]).idle \in Int /\ sessions[c].idle \in Int
    BY <2>3, <1>2, BoundAssumption DEF Session
  <2>5. silent'[c] = silent[c] + 1
    BY <2>1, <2>2, <1>4
  <2>. QED
    BY <2>1, <2>2, <2>3, <2>4, <2>5, <1>3, BoundAssumption DEF Known
<1>9. BackendStages'
  BY <1>1 DEF BackendStages, Assigning
<1>. QED
  BY <1>6, <1>7, <1>8, <1>9

LEMMA MoveInv ==
    ASSUME IInv, NEW c \in Clients, Move(c)
    PROVE  IInv'
<1>. USE DEF IInv
<1>1. /\ moves[c] < MaxMoves
      /\ moves' = [moves EXCEPT ![c] = moves[c] + 1]
      /\ started' \in {started, started \ {c}}
      /\ known' = known \ {c}
      /\ UNCHANGED <<tunnelMode, sessions, pin, tunnelUp, socks, txLoops,
                     threads, silent, probing>>
  BY DEF Move, backend
<1>2. moves[c] \in 0 .. MaxMoves
  BY DEF TypeOK
<1>3. moves' \in [Clients -> 0 .. MaxMoves]
  BY <1>1, <1>2, BoundAssumption DEF TypeOK
<1>4. TypeOK'
  BY <1>1, <1>3 DEF TypeOK
<1>5. \A d \in Clients : d # c => moves'[d] = moves[d] /\ (d \in started => d \in started')
  BY <1>1 DEF TypeOK
<1>6. moves'[c] = moves[c] + 1
  BY <1>1 DEF TypeOK
<1>7. ThreadsTrue'
  <2>. SUFFICES ASSUME NEW t \in threads
                PROVE  /\ t.live => Known(t.sid)
                       /\ t.kind = "data" =>
                             /\ t.sid \in Clients
                             /\ \E m \in 0 .. moves'[t.sid] : t.from = <<"transport", m>>
                             /\ t.from = <<"transport", moves'[t.sid]>> => t.sid \in started'
    BY <1>1 DEF ThreadsTrue, Known, Home
  <2>1. t.live => Known(t.sid)
    BY DEF ThreadsTrue
  <2>2. ASSUME t.kind = "data"
        PROVE  /\ t.sid \in Clients
               /\ \E m \in 0 .. moves'[t.sid] : t.from = <<"transport", m>>
               /\ t.from = <<"transport", moves'[t.sid]>> => t.sid \in started'
    <3>1. t.sid \in Clients
      BY <2>2 DEF ThreadsTrue
    <3>2. PICK m \in 0 .. moves[t.sid] : t.from = <<"transport", m>>
      BY <2>2 DEF ThreadsTrue
    <3>3. CASE t.sid # c
      BY <3>1, <3>2, <3>3, <1>5, <2>2 DEF ThreadsTrue, Home
    <3>4. CASE t.sid = c
      <4>1. m \in 0 .. moves'[c] /\ m # moves'[c]
        BY <3>2, <3>4, <1>2, <1>6
      <4>. QED
        BY <3>1, <3>2, <3>4, <4>1
    <3>. QED
      BY <3>3, <3>4
  <2>. QED
    BY <2>1, <2>2
<1>8. KnownFresh'
  <2>. SUFFICES ASSUME NEW d \in known, d # c
                PROVE  /\ d \in started'
                       /\ Known(d)
                       /\ sessions[d].idle <= Silence
                       /\ sessions[d].idle <= silent[d] \/ Refreshing(d)
                       /\ \E m \in 0 .. moves'[d] : sessions[d].reply = <<"transport", m>>
    BY <1>1 DEF KnownFresh, Known, Refreshing
  <2>1. d \in Clients
    BY DEF TypeOK
  <2>. QED
    BY <2>1, <1>5 DEF KnownFresh
<1>9. BackendStages'
  BY <1>1 DEF BackendStages, Assigning
<1>. QED
  BY <1>4, <1>7, <1>8, <1>9

LEMMA ProbeDoneInv ==
    ASSUME IInv, NEW p \in Probes, ProbeDone(p)
    PROVE  IInv'
<1>. USE DEF IInv
<1>1. /\ probing' = [probing EXCEPT ![p] = "closed"]
      /\ UNCHANGED <<tunnelMode, sessions, pin, tunnelUp, socks, txLoops,
                     threads, started, silent, moves, known>>
  BY DEF ProbeDone, backend
<1>2. TypeOK'
  BY <1>1 DEF TypeOK
<1>3. ThreadsTrue' /\ KnownFresh' /\ BackendStages'
  BY <1>1 DEF ThreadsTrue, KnownFresh, BackendStages, Assigning, Known, Home, Refreshing
<1>. QED
  BY <1>2, <1>3

LEMMA StutterInv == IInv /\ UNCHANGED vars => IInv'
BY DEF vars, backend, clientVars, IInv, TypeOK, ThreadsTrue, KnownFresh,
       BackendStages, Assigning, Known, Home, Refreshing

-------------------------------------------------------------------------------
(* The theorems *)

\* IInv holds in every reachable state, for all clients, probes and bounds.
THEOREM Inductive == Spec => []IInv
<1>1. IInv /\ [Next]_vars => IInv'
  <2>. SUFFICES ASSUME IInv, [Next]_vars PROVE IInv'
    OBVIOUS
  <2>1. CASE \E c \in Clients, kind \in {"data", "keepalive"} : ReceiveClient(kind, c)
    BY <2>1, ReceiveClientInv
  <2>2. CASE \E c \in Clients : ReceiveResume(c) \/ Move(c)
    BY <2>2, ReceiveResumeInv, MoveInv
  <2>3. CASE \E p \in Probes : ReceiveProbe(p) \/ ProbeDone(p)
    BY <2>3, ReceiveProbeInv, ProbeDoneInv
  <2>4. CASE \E t \in threads : HandlerStep(t)
    BY <2>4, TouchInv, HandlerInv DEF HandlerStep
  <2>5. CASE Expire
    BY <2>5, ExpireInv
  <2>6. CASE Tick
    BY <2>6, TickInv
  <2>7. CASE UNCHANGED vars
    BY <2>7, StutterInv
  <2>. QED
    BY <2>1, <2>2, <2>3, <2>4, <2>5, <2>6, <2>7 DEF Next
<1>. QED
  BY InitInv, <1>1, PTL DEF Spec

\* Every reachable state is well typed.
THEOREM TypeCorrect == Spec => []TypeOK
<1>1. IInv => TypeOK
  BY DEF IInv
<1>. QED
  BY <1>1, Inductive, PTL

\* However many handlers find no backend at once, one socket is bound and one
\* loop reads it (_ensure_adaptive_tunnel_backend).
THEOREM SingleBackend == Spec => []OneBackend
<1>1. IInv => OneBackend
  BY DEF IInv, TypeOK, BackendStages, OneBackend
<1>. QED
  BY <1>1, Inductive, PTL

\* A running client whose DATA the server took keeps its session, and return
\* packets leave for one of its transport sockets (_handle_data, _cleanup_loop).
THEOREM ReturnPathKept == Spec => []DataKeepsReturnPath
<1>1. IInv => DataKeepsReturnPath
  BY DEF IInv, KnownFresh, DataKeepsReturnPath
<1>. QED
  BY <1>1, Inductive, PTL
===============================================================================
