-------------------------- MODULE RateControl_proofs ---------------------------
(***************************************************************************)
(* Proofs about RateControl: every state is well typed, the sender's rate  *)
(* keeps its bounds whatever reports and probe replies come in between,    *)
(* and the receiver sees no loss where there is none.                      *)
(***************************************************************************)
EXTENDS RateControl, FiniteSetTheorems, TLAPS

-------------------------------------------------------------------------------
(* The inductive invariant *)

\* A network that has turned calm has nothing late on its way.
NothingLate == calm # 0 => late = {}

\* A window of the calm network: no number between the lowest and the highest is
\* missing, and the next one leaves no gap.
WindowWhole ==
    calm = 2 /\ window.min # None =>
        /\ window.max # None
        /\ window.min .. window.max \subseteq window.seen
        /\ seq <= window.max

\* The highest number is that of a datagram, as soon as there is a lowest.
WindowOrdered == window.min # None => window.max # None

\* The ceiling is what the last hint, or else the user, made it.
CeilTrue ==
    ceil = IF hint > 0 THEN Least(MaxRate, Greatest(MinRate, hint)) ELSE FirstCeil(declared)

IInv ==
    /\ TypeOK
    /\ NothingLate /\ WindowOrdered /\ WindowWhole
    /\ CeilTrue /\ RateInBounds

\* So the bounds are the ceiling's, the minimum aside.
LEMMA AllowedIsTop ==
    ASSUME {declared, hint, ceil} \subseteq Nat, CeilTrue
    PROVE  Greatest(MinRate, Allowed) = Top
<1>1. CASE hint > 0
  BY <1>1, RateAssumption DEF CeilTrue, Allowed, Top, Least, Greatest
<1>2. CASE hint = 0
  BY <1>2, RateAssumption DEF CeilTrue, Allowed, Top, FirstCeil, Greatest
<1>. QED
  BY <1>1, <1>2

\* A new sender is within its bounds.
LEMMA NewSenderTrue ==
    ASSUME declared \in Declared, rate = FirstRate(declared), ceil = FirstCeil(declared),
           fed = FALSE, hint = 0
    PROVE  /\ {declared, rate, ceil, hint} \subseteq Nat
           /\ CeilTrue /\ RateInBounds
<1>1. {declared, rate, ceil, hint} \subseteq Nat
  BY RateAssumption DEF FirstRate, FirstCeil, Least
<1>2. CeilTrue
  BY DEF CeilTrue
<1>3. rate <= Greatest(MinRate, Allowed)
  BY <1>1, RateAssumption DEF Allowed, FirstRate, Least, Greatest
<1>. QED
  BY <1>1, <1>2, <1>3 DEF RateInBounds

LEMMA InitInv == Init => IInv
<1>. SUFFICES ASSUME Init PROVE IInv
  OBVIOUS
<1>1. TypeOK
  <2>1. {ripe, handling} \subseteq BOOLEAN
    BY Zenon DEF Init
  <2>2. window = Fresh /\ late = {} /\ calm = 0 /\ report = None
    BY DEF Init
  <2>3. window \in Window /\ seq \in Seqs
    BY <2>2, SeqAssumption DEF Init, Fresh, Window, Seqs
  <2>4. {declared, rate, ceil, hint} \subseteq Nat /\ fed \in BOOLEAN
    BY NewSenderTrue DEF Init
  <2>5. late \in SUBSET Seqs /\ calm \in 0 .. 2
    BY <2>2
  <2>. QED
    BY <2>1, <2>2, <2>3, <2>4, <2>5, Zenon DEF TypeOK
<1>2. NothingLate /\ WindowOrdered /\ WindowWhole
  BY DEF Init, NothingLate, WindowOrdered, WindowWhole, Fresh
<1>3. CeilTrue /\ RateInBounds
  BY NewSenderTrue DEF Init
<1>. QED
  BY <1>1, <1>2, <1>3 DEF IInv

-------------------------------------------------------------------------------
(* Arithmetic of the estimate and of the rate *)

\* A part of a whole is between 0 and 100 percent of it.
LEMMA PercentRange ==
    ASSUME NEW x \in Nat, NEW y \in Nat \ {0}, x <= y
    PROVE  (100 * x) \div y \in 0 .. 100
<1>1. 100 * x <= 100 * y /\ 100 * x \in Nat
  OBVIOUS
<1>. DEFINE q == (100 * x) \div y
            r == (100 * x) % y
<1>2. q \in Int /\ r \in 0 .. y - 1 /\ 100 * x = q * y + r
  OBVIOUS
<1>3. q <= 100
  <2>1. SUFFICES ASSUME q >= 101 PROVE FALSE
    BY <1>2
  <2>2. q * y >= 101 * y
    BY <2>1, <1>2
  <2>. QED
    BY <2>2, <1>1, <1>2
<1>4. q >= 0
  <2>1. SUFFICES ASSUME q <= -1 PROVE FALSE
    BY <1>2
  <2>2. q * y <= (-1) * y
    BY <2>1, <1>2
  <2>. QED
    BY <2>2, <1>1, <1>2
<1>. QED
  BY <1>2, <1>3, <1>4

\* The estimate is a percentage, whatever is in the window.
LEMMA LossTyped ==
    ASSUME NEW w \in Window, w.min # None => w.max # None
    PROVE  Loss(w) \in 0 .. 100
<1>1. CASE w.min # None /\ Span(w) > 1 /\ Cardinality(w.seen) < Span(w)
  <2>1. IsFiniteSet(w.seen) /\ Cardinality(w.seen) \in Nat
    <3>1. IsFiniteSet(Seqs) /\ w.seen \in SUBSET Seqs
      BY SeqAssumption, FS_Interval DEF Seqs, Window
    <3>. QED
      BY <3>1, FS_Subset, FS_CardinalityType
  <2>2. Span(w) \in Nat \ {0}
    BY <1>1, SeqAssumption DEF Window, Seqs, Span, None
  <2>3. Span(w) - Cardinality(w.seen) \in Nat
    BY <1>1, <2>1, <2>2
  <2>. QED
    BY <1>1, <2>1, <2>2, <2>3, PercentRange, SMTT(20) DEF Loss
<1>2. CASE ~(w.min # None /\ Span(w) > 1 /\ Cardinality(w.seen) < Span(w))
  BY <1>2 DEF Loss
<1>. QED
  BY <1>1, <1>2

\* A window without a gap shows no loss.
LEMMA WholeIsNoLoss ==
    ASSUME NEW w \in Window,
           w.min # None => w.max # None /\ w.min .. w.max \subseteq w.seen
    PROVE  Loss(w) = 0
<1>1. CASE w.min = None
  BY <1>1 DEF Loss
<1>2. CASE w.min # None
  <2>1. w.min \in Int /\ w.max \in Int /\ w.seen \in SUBSET Seqs
    BY SeqAssumption, <1>2 DEF Window, Seqs, None
  <2>2. IsFiniteSet(Seqs)
    BY SeqAssumption, FS_Interval DEF Seqs
  <2>3. IsFiniteSet(w.seen) /\ Cardinality(w.seen) \in Nat
    BY <2>1, <2>2, FS_Subset, FS_CardinalityType
  <2>4. Cardinality(w.min .. w.max) <= Cardinality(w.seen)
    BY <1>2, <2>1, <2>3, FS_Subset
  <2>5. Span(w) > 1 => Cardinality(w.min .. w.max) = Span(w)
    BY <2>1, FS_Interval DEF Span
  <2>6. ~(Span(w) > 1 /\ Cardinality(w.seen) < Span(w))
    BY <2>1, <2>3, <2>4, <2>5 DEF Span
  <2>. QED
    BY <2>6 DEF Loss
<1>. QED
  BY <1>1, <1>2

\* Whatever the rule asks for, the rate that is set is between the bounds.
LEMMA ClampBounds ==
    ASSUME NEW r \in Int, ceil \in Nat
    PROVE  Clamp(r) \in Nat /\ MinRate <= Clamp(r) /\ Clamp(r) <= Top
  BY RateAssumption DEF Clamp, Top, Greatest, Least

\* Each of the three rules asks for a whole number.
LEMMA RulesTyped ==
    ASSUME NEW r \in Nat, NEW recv \in Nat
    PROVE  Faster(r, recv) \in Int /\ Slower(r, recv) \in Int /\ Held(r, recv) \in Int
  BY DEF Faster, Slower, Held, Least

\* Taking in a packet keeps the window typed and ordered.
LEMMA OnPacketTyped ==
    ASSUME NEW w \in Window, w.min # None => w.max # None, NEW s \in Seqs
    PROVE  /\ OnPacket(w, s) \in Window
           /\ OnPacket(w, s).min # None
           /\ OnPacket(w, s).max # None
<1>1. s \in Int /\ s # None
  BY SeqAssumption DEF Seqs, None
<1>2. w.min # None => Greatest(w.max, s) \in Seqs
  BY <1>1 DEF Window, Greatest
<1>. QED
  BY <1>1, <1>2 DEF OnPacket, Window, None, Seqs

\* The number after one that is no higher than the highest leaves no gap.
LEMMA OnPacketWhole ==
    ASSUME NEW w \in Window, NEW s \in Seqs,
           w.min # None =>
              w.max # None /\ w.min .. w.max \subseteq w.seen /\ s <= w.max + 1
    PROVE  /\ OnPacket(w, s).min .. OnPacket(w, s).max \subseteq OnPacket(w, s).seen
           /\ s <= OnPacket(w, s).max
<1>1. s \in Int
  BY SeqAssumption DEF Seqs
<1>2. CASE w.min = None
  BY <1>1, <1>2 DEF OnPacket
<1>3. CASE w.min # None
  <2>1. w.min \in Int /\ w.max \in Int
    BY SeqAssumption, <1>3 DEF Window, Seqs, None
  <2>2. w.min .. Greatest(w.max, s) \subseteq w.seen \cup {s}
    BY <1>1, <1>3, <2>1 DEF Greatest
  <2>. QED
    BY <1>1, <1>3, <2>1, <2>2 DEF OnPacket, Greatest
<1>. QED
  BY <1>2, <1>3

-------------------------------------------------------------------------------
(* One lemma per group of actions *)

\* What the data path leaves alone.
LEMMA SenderKept ==
    ASSUME CeilTrue, RateInBounds, UNCHANGED sender
    PROVE  CeilTrue' /\ RateInBounds'
  BY DEF CeilTrue, RateInBounds, Allowed, sender

LEMMA SendInv ==
    ASSUME IInv, Send
    PROVE  IInv'
<1>. USE DEF IInv
<1>1. seq' \in Seqs /\ seq' <= seq + 1
  BY SeqAssumption DEF TypeOK, Seqs, Send
<1>2. CASE Arrives(seq') /\ UNCHANGED late
  <2>1. window' \in Window /\ window'.min # None /\ window'.max # None
    BY <1>1, <1>2, OnPacketTyped DEF TypeOK, WindowOrdered, Arrives
  <2>2. TypeOK'
    BY <1>1, <1>2, <2>1 DEF TypeOK, Arrives, sender
  <2>3. WindowWhole'
    <3>. SUFFICES ASSUME calm = 2 PROVE WindowWhole'
      BY <1>2 DEF WindowWhole, Arrives
    <3>1. window.min # None => seq' <= window.max + 1
      BY SeqAssumption, <1>1 DEF WindowWhole, TypeOK, Window, Seqs, None
    <3>2. /\ window'.min .. window'.max \subseteq window'.seen
          /\ seq' <= window'.max
      BY <1>1, <1>2, <3>1, OnPacketWhole DEF WindowWhole, TypeOK, Arrives
    <3>. QED
      BY <2>1, <3>2 DEF WindowWhole
  <2>. QED
    BY <1>2, <2>1, <2>2, <2>3, SenderKept DEF NothingLate, WindowOrdered, Arrives
<1>3. CASE calm = 0 /\ late = {} /\ late' = {seq'} /\ (Arrives(seq') \/ Lost)
  <2>1. window' \in Window /\ (window'.min # None => window'.max # None)
    BY <1>1, <1>3, OnPacketTyped DEF TypeOK, WindowOrdered, Arrives, Lost, receiver
  <2>2. TypeOK'
    BY <1>1, <1>3, <2>1 DEF TypeOK, Arrives, Lost, receiver, sender
  <2>3. calm' = 0 /\ UNCHANGED sender
    BY <1>3 DEF Arrives, Lost
  <2>. QED
    BY <2>1, <2>2, <2>3, SenderKept DEF NothingLate, WindowOrdered, WindowWhole
<1>4. CASE calm = 0 /\ Lost /\ UNCHANGED late
  <2>1. TypeOK'
    BY <1>1, <1>4 DEF TypeOK, Lost, receiver, sender
  <2>2. calm' = 0 /\ UNCHANGED <<sender, window>>
    BY <1>4 DEF Lost, receiver
  <2>. QED
    BY <2>1, <2>2, SenderKept DEF NothingLate, WindowOrdered, WindowWhole
<1>. QED
  BY <1>2, <1>3, <1>4 DEF Send

\* A late datagram comes into a window of the calm network only by not being there.
LEMMA LateArrivesInv ==
    ASSUME IInv, LateArrives
    PROVE  IInv'
<1>. USE DEF IInv
<1>1. PICK s \in late : Arrives(s)
  BY DEF LateArrives
<1>2. calm = 0 /\ calm' = 0 /\ late' = {} /\ seq' = seq
  BY <1>1 DEF LateArrives, NothingLate, Arrives
<1>3. window' \in Window /\ window'.max # None
  BY <1>1, OnPacketTyped DEF TypeOK, WindowOrdered, Arrives
<1>4. TypeOK'
  BY <1>1, <1>2, <1>3 DEF TypeOK, Arrives, sender
<1>. QED
  BY <1>1, <1>2, <1>3, <1>4, SenderKept
  DEF NothingLate, WindowOrdered, WindowWhole, Arrives

LEMMA NewSenderPrimed ==
    ASSUME declared' \in Declared, rate' = FirstRate(declared'),
           ceil' = FirstCeil(declared'), fed' = FALSE, hint' = 0
    PROVE  /\ {declared', rate', ceil', hint'} \subseteq Nat
           /\ CeilTrue' /\ RateInBounds'
<1>1. {declared', rate', ceil', hint'} \subseteq Nat
  BY RateAssumption DEF FirstRate, FirstCeil, Least
<1>2. CeilTrue'
  BY DEF CeilTrue
<1>3. rate' <= Greatest(MinRate, Allowed')
  BY <1>1, RateAssumption DEF Allowed, FirstRate, Least, Greatest
<1>. QED
  BY <1>1, <1>2, <1>3 DEF RateInBounds

LEMMA ResumeInv ==
    ASSUME IInv, Resume
    PROVE  IInv'
<1>. USE DEF IInv
<1>1. {declared', rate', ceil', hint'} \subseteq Nat /\ CeilTrue' /\ RateInBounds'
  BY NewSenderPrimed DEF Resume
<1>2. WindowWhole'
  BY SeqAssumption DEF TypeOK, WindowWhole, Resume, Window, Seqs, None, receiver
<1>3. TypeOK'
  <2>1. seq' \in Seqs
    BY SeqAssumption DEF Resume, Seqs
  <2>2. UNCHANGED <<late, receiver, report, calm>> /\ fed' \in BOOLEAN
    BY Zenon DEF Resume
  <2>. QED
    BY <1>1, <2>1, <2>2, Zenon DEF TypeOK, receiver
<1>. QED
  BY <1>1, <1>2, <1>3 DEF NothingLate, WindowOrdered, Resume, receiver

LEMMA NetworkInv ==
    ASSUME IInv, TurnsCalm \/ ReportLost
    PROVE  IInv'
<1>. USE DEF IInv
<1>1. TypeOK'
  BY DEF TypeOK, TurnsCalm, ReportLost, data, receiver, sender
<1>2. calm' # 2 \/ UNCHANGED <<calm, window, seq>>
  BY DEF TurnsCalm, ReportLost, data, receiver
<1>. QED
  BY <1>1, <1>2, SenderKept
  DEF TurnsCalm, ReportLost, NothingLate, WindowOrdered, WindowWhole, data, receiver

\* The window is emptied with what it was worth.
LEMMA MeasureInv ==
    ASSUME IInv, Measure, UNCHANGED <<data, sender>>, handling' \in BOOLEAN,
           report' \in {None} \cup (0 .. 100)
    PROVE  IInv'
<1>. USE DEF IInv
<1>1. window' = Fresh /\ Fresh \in Window
  BY DEF Measure, Reset, Fresh, Window
<1>2. TypeOK'
  <2>1. {ripe', handling'} \subseteq BOOLEAN
    BY Zenon DEF Measure
  <2>2. calm' \in 0 .. 2 /\ UNCHANGED <<seq, late, sender>>
    BY DEF TypeOK, Measure, data
  <2>. QED
    BY <1>1, <2>1, <2>2, Zenon DEF TypeOK, sender
<1>3. calm' # 0 <=> calm # 0
  BY DEF TypeOK, Measure
<1>. QED
  BY <1>1, <1>2, <1>3, SenderKept
  DEF NothingLate, WindowOrdered, WindowWhole, Fresh, data

LEMMA ReceiverInv ==
    ASSUME IInv, HandlerReports \/ HandlerEnds \/ LoopReports \/ IntervalPasses
    PROVE  IInv'
<1>. USE DEF IInv
<1>1. Loss(window) \in 0 .. 100
  BY LossTyped DEF TypeOK, WindowOrdered
<1>2. CASE HandlerReports
  BY <1>1, <1>2, MeasureInv DEF HandlerReports
<1>3. CASE LoopReports
  BY <1>1, <1>3, MeasureInv DEF LoopReports, TypeOK
<1>4. CASE HandlerEnds \/ IntervalPasses
  <2>1. TypeOK'
    BY <1>4 DEF TypeOK, HandlerEnds, IntervalPasses, data, sender
  <2>. QED
    BY <1>4, <2>1, SenderKept
    DEF HandlerEnds, IntervalPasses, NothingLate, WindowOrdered, WindowWhole, data
<1>. QED
  BY <1>2, <1>3, <1>4

LEMMA OnFeedbackInv ==
    ASSUME IInv, OnFeedback
    PROVE  IInv'
<1>. USE DEF IInv
<1>1. PICK recv \in Received :
         rate' = Clamp(CASE report < Good -> Faster(rate, recv)
                         [] report > Bad -> Slower(rate, recv)
                         [] OTHER -> Held(rate, recv))
  BY DEF OnFeedback
<1>2. \E r \in Int : rate' = Clamp(r)
  BY <1>1, RulesTyped, RateAssumption DEF TypeOK
<1>3. rate' \in Nat /\ MinRate <= rate' /\ rate' <= Top /\ ceil' = ceil
  BY <1>2, ClampBounds DEF TypeOK, OnFeedback
<1>4. TypeOK'
  BY <1>3 DEF TypeOK, OnFeedback, data, receiver
<1>5. CeilTrue' /\ Allowed' = Allowed
  BY DEF OnFeedback, CeilTrue, Allowed
<1>6. RateInBounds'
  BY <1>3, <1>5, AllowedIsTop DEF RateInBounds, TypeOK
<1>. QED
  BY <1>4, <1>5, <1>6
  DEF OnFeedback, NothingLate, WindowOrdered, WindowWhole, data, receiver

LEMMA SetCeilInv ==
    ASSUME IInv, SetCeil
    PROVE  IInv'
<1>. USE DEF IInv
<1>1. PICK h \in Hints \ {0} :
         /\ ceil' = Least(MaxRate, Greatest(MinRate, h))
         /\ rate' = Lowered(rate, ceil')
         /\ hint' = h
  BY DEF SetCeil
<1>2. ceil' \in Nat /\ MinRate <= ceil' /\ hint' \in Nat /\ hint' > 0
  BY <1>1, RateAssumption DEF Least, Greatest
<1>3. rate' \in Nat /\ rate' <= ceil' /\ (rate' < MinRate => rate' = rate)
  BY <1>1, <1>2, RateAssumption DEF TypeOK, Lowered, Least
<1>4. TypeOK'
  BY <1>2, <1>3 DEF TypeOK, SetCeil, data, receiver
<1>5. CeilTrue'
  BY <1>1, <1>2 DEF CeilTrue
<1>6. Allowed' = Least(MaxRate, hint')
  BY <1>2 DEF Allowed
<1>7. ceil' = Greatest(MinRate, Allowed')
  BY <1>1, <1>2, <1>6, RateAssumption DEF Least, Greatest
<1>8. RateInBounds'
  BY <1>2, <1>3, <1>7, RateAssumption DEF RateInBounds, SetCeil, TypeOK
<1>. QED
  BY <1>4, <1>5, <1>8
  DEF SetCeil, NothingLate, WindowOrdered, WindowWhole, data, receiver

LEMMA StutterInv ==
    ASSUME IInv, UNCHANGED vars
    PROVE  IInv'
<1>1. TypeOK'
  BY DEF IInv, TypeOK, vars, data, receiver, sender
<1>2. CeilTrue' /\ RateInBounds'
  BY SenderKept DEF IInv, vars
<1>. QED
  BY <1>1, <1>2
  DEF IInv, NothingLate, WindowOrdered, WindowWhole, vars, data, receiver

-------------------------------------------------------------------------------
(* The theorems *)

\* The conjunction of the rate's bounds, the calm window's wholeness and typing
\* is kept by every step of receiver, network and sender.
THEOREM Inductive == Spec => []IInv
<1>1. IInv /\ [Next]_vars => IInv'
  BY SendInv, LateArrivesInv, ResumeInv, NetworkInv, ReceiverInv, OnFeedbackInv,
     SetCeilInv, StutterInv
  DEF Next
<1>. QED
  BY <1>1, InitInv, PTL DEF Spec

\* The window, the reports and the sender's state are well typed; a report is a
\* percentage whatever numbers were seen (BrutalReceiver.feedback).
THEOREM TypeCorrect == Spec => []TypeOK
<1>1. IInv => TypeOK
  BY DEF IInv
<1>. QED
  BY <1>1, Inductive, PTL

\* For every rate that is declared, hinted or received and every sequence of reports,
\* hints and restarts: the rate is within what the last hint allows, or else the user
\* declared, but for the minimum, and not below the minimum from the first report on
\* (BrutalSender.on_feedback, set_ceil_kbps).
THEOREM BoundsKept == Spec => []RateInBounds
<1>1. IInv => RateInBounds
  BY DEF IInv
<1>. QED
  BY <1>1, Inductive, PTL

\* For every number space, over its wrap and over resumes: a window in which every
\* payload arrived shows no loss (BrutalReceiver.on_packet, feedback).
THEOREM NoLossInvented == Spec => []LossIsReal
<1>1. IInv => LossIsReal
  BY WholeIsNoLoss DEF IInv, TypeOK, WindowWhole, LossIsReal
<1>. QED
  BY <1>1, Inductive, PTL
===============================================================================
