------------------------------ MODULE RateControl ------------------------------
(***************************************************************************)
(* Brutal congestion control: the server's receive window estimates loss   *)
(* from gaps in the payloads' sequence numbers, its handlers and its       *)
(* feedback loop report the estimate, the client's sender moves its rate   *)
(* by it, under a ceiling that the user declares and probe replies replace.*)
(*                                                                         *)
(* Reports and data travel over a network that loses, copies, delays and   *)
(* reorders them until, possibly, it turns calm. A client may start again  *)
(* in the session it left (a resume): a new process, with its numbers from *)
(* the beginning and a sender that knows nothing of the earlier one's.     *)
(*                                                                         *)
(* Rates are whole numbers of a coarse unit; products are rounded down.    *)
(* BBRSender is the client's stand-in for exceptions BrutalSender does not *)
(* raise; it is not modelled, nor is the time pace() sleeps.               *)
(***************************************************************************)
EXTENDS Integers, FiniteSets

CONSTANTS
    SeqSpace,   \* sequence numbers: 2^32 in the code
    MinRate,    \* MIN_RATE_KBPS
    InitRate,   \* INITIAL_RATE_KBPS
    MaxRate,    \* MAX_RATE_KBPS
    Good,       \* GOOD_LOSS_THRESH, in percent
    Bad,        \* BAD_LOSS_THRESH, in percent
    Declared,   \* what declared_up_kbps may be; 0 is not declared
    Hints,      \* what a server may declare in its probe replies
    Received    \* the rates a report may carry

ASSUME SeqAssumption == SeqSpace \in Nat \ {0}
ASSUME RateAssumption ==
    /\ {MinRate, InitRate, MaxRate} \subseteq Nat
    /\ 0 < MinRate /\ MinRate <= InitRate /\ InitRate <= MaxRate
    /\ Declared \subseteq Nat /\ Hints \subseteq Nat /\ Received \subseteq Nat
ASSUME LossAssumption ==
    Good \in 1 .. 100 /\ Bad \in 1 .. 100 /\ Good < Bad

VARIABLES
    seq,        \* the client's _seq
    late,       \* the number of a datagram that is on its way still
    window,     \* the receiver's measurement
    ripe,       \* FEEDBACK_INTERVAL has passed since its start
    handling,   \* a handler is between on_packet and feedback
    report,     \* the loss in the report on its way
    declared,   \* the sender's _declared
    rate, ceil, \* its _rate and _ceil
    fed,        \* it was given a report: _last_fb
    hint,       \* history: the last hint it was given; only properties read it
    calm        \* 0: the network misbehaves; 1: not any more; 2: nor did it in this window

data == <<seq, late>>
receiver == <<window, ripe, handling>>
sender == <<declared, rate, ceil, fed, hint>>
vars == <<data, receiver, report, sender, calm>>

Seqs == 0 .. SeqSpace - 1
None == -1

Least(a, b) == IF a <= b THEN a ELSE b
Greatest(a, b) == IF a >= b THEN a ELSE b

\* min and max are None together; the code's _min_seq is the first to arrive.
Window == [min : Seqs \cup {None}, max : Seqs \cup {None}, seen : SUBSET Seqs]

Fresh == [min |-> None, max |-> None, seen |-> {}]

\* A new BrutalSender.
FirstRate(d) == Least(IF d > 0 THEN d ELSE InitRate, MaxRate)
FirstCeil(d) == IF d > 0 THEN d ELSE MaxRate

Init ==
    /\ seq = 0
    /\ late = {}
    /\ window = Fresh
    /\ ripe = FALSE
    /\ handling = FALSE
    /\ report = None
    /\ declared \in Declared
    /\ rate = FirstRate(declared)
    /\ ceil = FirstCeil(declared)
    /\ fed = FALSE
    /\ hint = 0
    /\ calm = 0

-------------------------------------------------------------------------------
(* BrutalReceiver *)

OnPacket(w, s) ==
    [min |-> IF w.min = None THEN s ELSE w.min,
     max |-> IF w.min = None THEN s ELSE Greatest(w.max, s),
     seen |-> w.seen \cup {s}]

Span(w) == w.max - w.min + 1

\* Slip: the span is taken to the number after the highest one.
LossToNext(w) ==
    IF w.min = None THEN 0
    ELSE (100 * (w.max - w.min + 2 - Cardinality(w.seen))) \div (w.max - w.min + 2)
Loss(w) ==
    IF w.min # None /\ Span(w) > 1 /\ Cardinality(w.seen) < Span(w)
    THEN (100 * (Span(w) - Cardinality(w.seen))) \div Span(w)
    ELSE 0

\* Slip: the lowest and highest number stay.
ResetSeenOnly(w) == [w EXCEPT !.seen = {}]
Reset(w) == Fresh

\* feedback(): what there is to report goes with the window.
Measure ==
    /\ ripe
    /\ ripe' = FALSE
    /\ window' = Reset(window)
    /\ calm' = IF calm = 1 THEN 2 ELSE calm

\* The handler that delivered a payload reports whatever the window holds; the
\* loop may have emptied it since this handler's on_packet.
HandlerReports ==
    /\ handling
    /\ Measure
    /\ report' = Loss(window)
    /\ handling' = FALSE
    /\ UNCHANGED <<data, sender>>

\* A window that is too young is left, and a payload may not have been completed.
HandlerEnds ==
    /\ handling
    /\ handling' = FALSE
    /\ UNCHANGED <<data, window, ripe, report, sender, calm>>

\* The loop keeps a report without traffic to itself. (A packet in a window of
\* 0.2 s to 0.4 s is taken to be worth 1 kbps at least.)
LoopReports ==
    /\ Measure
    /\ report' = IF window.seen # {} THEN Loss(window) ELSE report
    /\ UNCHANGED <<data, handling, sender>>

IntervalPasses ==
    /\ ~ripe
    /\ ripe' = TRUE
    /\ UNCHANGED <<data, window, handling, report, sender, calm>>

-------------------------------------------------------------------------------
(* Data *)

Arrives(s) ==
    /\ window' = OnPacket(window, s)
    /\ handling' = TRUE
    /\ UNCHANGED <<ripe, report, sender, calm>>

Lost == UNCHANGED <<receiver, report, sender, calm>>

\* The shards and copies of a payload have one number: some arrive, and then one
\* may be late, or none does.
Send ==
    /\ seq' = (seq + 1) % SeqSpace
    /\ \/ Arrives(seq') /\ UNCHANGED late
       \/ calm = 0 /\ late = {} /\ late' = {seq'} /\ (Arrives(seq') \/ Lost)
       \/ calm = 0 /\ Lost /\ UNCHANGED late

LateArrives ==
    /\ \E s \in late : Arrives(s)
    /\ late' = {}
    /\ UNCHANGED seq

\* The client starts again and resumes its session, perhaps configured otherwise.
Resume ==
    /\ seq' = 0
    /\ declared' \in Declared
    /\ rate' = FirstRate(declared')
    /\ ceil' = FirstCeil(declared')
    /\ fed' = FALSE
    /\ hint' = 0
    /\ UNCHANGED <<late, receiver, report, calm>>

TurnsCalm ==
    /\ calm = 0
    /\ calm' = 1
    /\ late' = {}
    /\ UNCHANGED <<seq, receiver, report, sender>>

ReportLost ==
    /\ calm = 0
    /\ report # None
    /\ report' = None
    /\ UNCHANGED <<data, receiver, sender, calm>>

-------------------------------------------------------------------------------
(* BrutalSender *)

\* Slip: too fast a sender goes on as it is.
SlowerNever(r, recv) == r
Slower(r, recv) ==
    LET down == (r * 85) \div 100
    IN IF recv > 0 THEN Least(down, (recv * 9) \div 10) ELSE down

\* Slip: what was received is the new rate.
FasterTracks(r, recv) == IF recv > 0 THEN recv ELSE r
Faster(r, recv) ==
    LET up == (r * 125) \div 100
    IN IF (recv * 11) \div 10 > up THEN (recv * 12) \div 10 ELSE up

Held(r, recv) == IF recv > 0 THEN (r * 7 + recv * 3) \div 10 ELSE r

\* Slip: no lower end.
ClampAbove(r) == Least(ceil, r)
Clamp(r) == Greatest(MinRate, Least(ceil, r))

OnFeedback ==
    /\ report # None
    /\ report' = None
    /\ \E recv \in Received :
          rate' = Clamp(CASE report < Good -> Faster(rate, recv)
                          [] report > Bad -> Slower(rate, recv)
                          [] OTHER -> Held(rate, recv))
    /\ fed' = TRUE
    /\ UNCHANGED <<data, receiver, declared, ceil, hint, calm>>

\* Slip: the rate waits for the next report.
LoweredLater(r, c) == r
Lowered(r, c) == Least(r, c)

\* A probe's replies carry what the server declares.
SetCeil ==
    /\ \E h \in Hints \ {0} :
          /\ ceil' = Least(MaxRate, Greatest(MinRate, h))
          /\ rate' = Lowered(rate, ceil')
          /\ hint' = h
    /\ UNCHANGED <<data, receiver, report, declared, fed, calm>>

-------------------------------------------------------------------------------

Next ==
    \/ Send \/ LateArrives \/ Resume \/ TurnsCalm
    \/ HandlerReports \/ HandlerEnds \/ LoopReports \/ IntervalPasses
    \/ OnFeedback \/ ReportLost
    \/ SetCeil

Spec == Init /\ [][Next]_vars

\* The server's loop runs and time passes, the client has something to send, and
\* the network does not lose every report.
Fairness ==
    /\ WF_vars(Send)
    /\ WF_vars(IntervalPasses)
    /\ WF_vars(LoopReports)
    /\ SF_vars(OnFeedback)

FairSpec == Spec /\ Fairness

-------------------------------------------------------------------------------
(* Properties *)

\* The receiver's window, the reports and the sender's state are well typed.
TypeOK ==
    /\ seq \in Seqs
    /\ late \in SUBSET Seqs
    /\ window \in Window
    /\ {ripe, handling} \subseteq BOOLEAN
    /\ report \in {None} \cup (0 .. 100)
    /\ {declared, rate, ceil, hint} \subseteq Nat
    /\ fed \in BOOLEAN
    /\ calm \in 0 .. 2

\* What the sender was told: by the last hint since its client started, or else by
\* its user.
Allowed ==
    CASE hint > 0 -> Least(MaxRate, hint)
      [] hint = 0 /\ declared > 0 -> declared
      [] OTHER -> MaxRate

\* Whatever reports, probe replies and restarts come in between, the sender is never
\* faster than the last hint allows, or than its user declared if there was none, the
\* minimum aside; and it is not slower than the minimum any more once a report has
\* reached it. What the user declared is no bound by itself: a hint replaces it,
\* upwards too (BrutalSender.on_feedback, set_ceil_kbps).
RateInBounds ==
    /\ rate <= Greatest(MinRate, Allowed)
    /\ fed => rate >= MinRate

\* Loss is reported only when there was some: while every payload arrives, in
\* order, the estimate is 0, over the wrap of the numbers and a resume as well
\* (BrutalReceiver.on_packet, feedback).
LossIsReal == calm = 2 => Loss(window) = 0

Top == Greatest(MinRate, ceil)

StartsForEver == []<><<Resume>>_vars

\* On a network that has turned calm the sender of a client that is not started
\* again for ever comes to its ceiling, however slow the losses before have made it.
RampsUp == StartsForEver \/ (calm = 2 ~> rate = Top)

\* A sender that is told of nothing but heavy loss goes down to the minimum, unless
\* its client is started again for ever.
BacksOff ==
    /\ <>[](report = None \/ report > Bad)
    /\ []<>(report # None)
    /\ ~StartsForEver
    => <>[](rate = MinRate)
===============================================================================
