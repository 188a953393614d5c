---------------------------- MODULE PlotterProofs ----------------------------
(* The axis on any screen, with any data, rates and calls: a drag begins     *)
(* where the pointer is, draw() finds data and stays in its tables, and the  *)
(* grid is that of the view.                                                 *)
EXTENDS Plotter, SequenceTheorems, NaturalsInduction, WellFoundedInduction, TLAPS

\* The types, but that of grid, which none of the others depends on.
Op == Clamping \cup {"rate", "span", "full", "retune", "update", "grid", "clear"}
Command == {d \in [op : Op, val : Int, arg : Int] : d.op \in {"rate", "span"} => d.val > 0}
Types ==
    /\ m_SampleFreq \in Nat \ {0} /\ m_Span \in Nat \ {0}
    /\ m_FftCenter \in Int /\ m_CenterFreq \in Int
    /\ m_Running \in BOOLEAN /\ m_DrawOverlay \in BOOLEAN
    /\ lost \in BOOLEAN /\ stale \in BOOLEAN
    /\ todo \in [Thread -> Seq(Command)]
    /\ m_CursorCaptured \in Overlay /\ m_Xzero \in Int
    /\ pointer \in Point /\ buttons \subseteq Button /\ twice \in BOOLEAN

\* A drag starts where the pointer is.
DragInv == ~twice /\ Drags(m_CursorCaptured) => m_Xzero = pointer.x

-----------------------------------------------------------------------------
(* The mouse *)

LEMMA DragInit == Init => DragInv
  BY DEF Init, DragInv, Drags

LEMMA DragStep ==
    ASSUME DragInv, [Next]_vars
    PROVE  DragInv'
  <1> USE DEF DragInv, Drags
  <1>1. CASE UNCHANGED mouse
    BY <1>1 DEF mouse
  <1>2. ASSUME NEW p \in Point, MouseMove(p) PROVE DragInv'
    <2>1. /\ pointer' = p /\ buttons' = buttons /\ twice' = twice
          /\ m_CursorCaptured' \in {"NOCAP", Captured(p)}
      BY <1>2 DEF MouseMove, Kept
    <2>2. CASE Drags(Captured(p))
      BY <1>2, <2>1, <2>2 DEF MouseMove
    <2>3. CASE ~Drags(Captured(p))
      BY <2>1, <2>3
    <2> QED
      BY <2>2, <2>3
  <1>3. ASSUME NEW b \in Button, MousePress(b) PROVE DragInv'
    <2>1. CASE m_CursorCaptured = "XAXIS"
      BY <1>3, <2>1 DEF MousePress
    <2>2. CASE m_CursorCaptured = "NOCAP"
      <3>1. PressFree(b)
        BY <1>3, <2>2 DEF MousePress
      <3>2. m_CursorCaptured' # "XAXIS"
        BY <3>1 DEF PressFree, Line
      <3> QED
        BY <3>2
    <2>3. CASE m_CursorCaptured \notin {"XAXIS", "NOCAP"}
      BY <1>3, <2>3 DEF MousePress
    <2> QED
      BY <2>1, <2>2, <2>3
  <1>4. ASSUME NEW b \in Button, MouseRelease(b) PROVE DragInv'
    BY <1>4 DEF MouseRelease
  <1>5. \A t \in Thread : Step(t) => UNCHANGED mouse
    BY DEF Step, WriteRate, WriteSpan, ReadArgument, ReadRate, ReadSpan, WriteCenter, Retune,
           UpdateOverlay, DrawOverlay
  <1>6. (\E s \in ZoomStep : Wheel(s)) => UNCHANGED mouse
    BY DEF Wheel
  <1>7. ClearFlag \/ Draw \/ (\E c \in Clock : Confirmed(c)) => UNCHANGED mouse
    BY DEF ClearFlag, Draw, Confirmed
  <1>8. UNCHANGED vars => UNCHANGED mouse
    BY DEF vars, mouse
  <1> QED
    BY <1>1, <1>2, <1>3, <1>4, <1>5, <1>6, <1>7, <1>8 DEF Next, Mouse

\* Only a move changes the pointer, and only a drag has something to do.
LEMMA PanStep ==
    ASSUME Types, DragInv, [Next]_vars, pointer' # pointer, todo'["window"] # <<>>, ~twice
    PROVE  m_Xzero = pointer.x
  <1>1. \A t \in Thread : Step(t) => UNCHANGED mouse
    BY DEF Step, WriteRate, WriteSpan, ReadArgument, ReadRate, ReadSpan, WriteCenter, Retune,
           UpdateOverlay, DrawOverlay
  <1>2. ClearFlag \/ Draw \/ (\E c \in Clock : Confirmed(c)) \/ (\E s \in ZoomStep : Wheel(s))
          => UNCHANGED mouse
    BY DEF ClearFlag, Draw, Confirmed, Wheel
  <1>3. \A b \in Button : MousePress(b) \/ MouseRelease(b) => UNCHANGED pointer
    BY DEF MousePress, MouseRelease
  <1>4. PICK p \in Point : MouseMove(p)
    BY <1>1, <1>2, <1>3 DEF Next, Mouse, vars, mouse
  <1>5. Drags(Captured(p))
    <2> SUFFICES ASSUME ~Drags(Captured(p)) PROVE FALSE
      OBVIOUS
    <2>1. Handle(<<>>)
      BY <1>4 DEF MouseMove
    <2>2. todo'["window"] = <<>>
      BY <2>1 DEF Handle, Types, Thread
    <2> QED
      BY <2>2
  <1>6. buttons # {}
    BY <1>5 DEF Drags
  <1>7. Captured(p) = m_CursorCaptured
    BY <1>6 DEF Captured
  <1> QED
    BY <1>5, <1>7 DEF DragInv

-----------------------------------------------------------------------------
(* Types: arithmetic, the handlers' scripts, then one step per action        *)

LEMMA QuotInt == \A a \in Int, b \in Nat \ {0} : Quot(a, b) \in Int
  BY DEF Quot

LEMMA BoundInt == \A lo, v, hi \in Int : Bound(lo, v, hi) \in Int
  BY DEF Bound

LEMMA FreqInt == ASSUME Types PROVE StartFreq \in Int /\ \A x \in Int : freqFromX(x) \in Int
  <1>1. StartFreq \in Int
    BY DEF Types, StartFreq
  <1>2. ASSUME NEW x \in Int PROVE freqFromX(x) \in Int
    <2>1. m_Span * x \in Int
      BY DEF Types
    <2>2. Quot(m_Span * x, Width) \in Int
      BY <2>1, QuotInt, PointAssumption
    <2> QED
      BY <1>1, <2>2 DEF freqFromX
  <1> QED
    BY <1>1, <1>2

LEMMA RoundInt == \A f \in Int : roundFreq(f) \in Int
  <1> TAKE f \in Int
  <1> DEFINE half == ClickResolution \div 2
  <1>1. half \in Int
    BY ZoomAssumption
  <1>2. Rem(f + half, ClickResolution) \in Int
    <2>1. Quot(f + half, ClickResolution) \in Int
      BY <1>1, QuotInt, ZoomAssumption
    <2> QED
      BY <1>1, <2>1, ZoomAssumption DEF Rem
  <1> QED
    BY <1>1, <1>2 DEF roundFreq

LEMMA Scripts ==
    /\ \A op \in Op, v \in Int : (op \in {"rate", "span"} => v > 0) => Do(op, v) \in Command
    /\ \A r \in Nat \ {0} : setSampleRate(r) \in Seq(Command) /\ setSpanFreq(r) \in Seq(Command)
    /\ \A f \in Int : setFftCenterFreq(f) \in Seq(Command)
  <1>1. \A op \in Op, v \in Int : (op \in {"rate", "span"} => v > 0) => Do(op, v) \in Command
    BY DEF Do, Command
  <1>2. ASSUME NEW r \in Nat \ {0} PROVE setSampleRate(r) \in Seq(Command)
    <2>1. Do("rate", r) \in Command /\ Do("grid", 0) \in Command
      BY <1>1 DEF Op, Clamping
    <2> QED
      BY <2>1 DEF setSampleRate
  <1>3. ASSUME NEW r \in Nat \ {0} PROVE setSpanFreq(r) \in Seq(Command)
    <2>1. Do("span", r) \in Command /\ Do("again", 0) \in Command /\ Do("grid", 0) \in Command
      BY <1>1 DEF Op, Clamping
    <2> QED
      BY <2>1 DEF setSpanFreq
  <1>4. ASSUME NEW f \in Int PROVE setFftCenterFreq(f) \in Seq(Command)
    <2>1. Do("clamp", f) \in Command
      BY <1>1 DEF Op, Clamping
    <2> QED
      BY <2>1 DEF setFftCenterFreq
  <1> QED
    BY <1>1, <1>2, <1>3, <1>4

LEMMA ResetScript == resetHorizontalZoom \in Seq(Command)
  <1>1. setFftCenterFreq(0) \in Seq(Command)
    BY Scripts
  <1>2. Do("full", 0) \in Command /\ Do("again", 0) \in Command /\ Do("grid", 0) \in Command
    BY Scripts DEF Op, Clamping
  <1>3. <<Do("full", 0), Do("again", 0), Do("grid", 0)>> \in Seq(Command)
    BY <1>2
  <1> QED
    BY <1>1, <1>3, ConcatProperties DEF resetHorizontalZoom

LEMMA ZoomScript ==
    ASSUME Types, NEW s \in ZoomStep, NEW x \in Int
    PROVE  zoomStepX(s, x) \in Seq(Command)
  <1> DEFINE range == Bound(MinRange, Quot(m_Span * s.num, s.den), m_SampleFreq * MaxFactor)
             fc == freqFromX(x) + Quot(range * (Width - 2 * x), 2 * Width)
  <1>1. s.num \in Nat \ {0} /\ s.den \in Nat \ {0}
    BY ZoomAssumption
  <1>2. Quot(m_Span * s.num, s.den) \in Int
    <2>1. m_Span * s.num \in Int
      BY <1>1 DEF Types
    <2> QED
      BY <1>1, <2>1, QuotInt
  <1>3. m_SampleFreq * MaxFactor \in Nat \ {0}
    BY ZoomAssumption DEF Types
  <1>4. range \in Nat \ {0}
    BY <1>2, <1>3, ZoomAssumption DEF Bound
  <1>5. fc \in Int
    <2>1. range * (Width - 2 * x) \in Int /\ 2 * Width \in Nat \ {0}
      BY <1>4, PointAssumption
    <2>2. Quot(range * (Width - 2 * x), 2 * Width) \in Int
      BY <2>1, QuotInt
    <2> QED
      BY <2>2, FreqInt
  <1>6. fc - m_CenterFreq \in Int
    BY <1>5 DEF Types
  <1>7. setFftCenterFreq(fc - m_CenterFreq) \in Seq(Command) /\ setSpanFreq(range) \in Seq(Command)
    BY <1>4, <1>6, Scripts
  <1>8. zoomStepX(s, x) = setFftCenterFreq(fc - m_CenterFreq) \o setSpanFreq(range)
    BY DEF zoomStepX
  <1> QED
    BY <1>7, <1>8, ConcatProperties

LEMMA TypesInit == Init => Types
  <1> SUFFICES ASSUME Init PROVE Types
    OBVIOUS
  <1>1. m_SampleFreq \in Nat \ {0} /\ m_Span \in Nat \ {0} /\ m_FftCenter \in Int
    BY RateAssumption DEF Init
  <1>2. m_CenterFreq \in Int
    BY RateAssumption DEF Init
  <1>3. todo \in [Thread -> Seq(Command)]
    BY DEF Init
  <1>4. m_CursorCaptured \in Overlay /\ m_Xzero \in Int
    BY DEF Init, Overlay
  <1>5. m_Running \in BOOLEAN /\ m_DrawOverlay \in BOOLEAN /\ lost \in BOOLEAN /\ stale \in BOOLEAN
    BY DEF Init
  <1>6. pointer \in Point /\ buttons \subseteq Button /\ twice \in BOOLEAN
    BY DEF Init
  <1> QED
    BY <1>1, <1>2, <1>3, <1>4, <1>5, <1>6 DEF Types

\* A read puts in the head's place what it has to be done with, of the same
\* kind.
LEMMA ReadThen ==
    ASSUME Types, NEW t \in Thread, ReadArgument(t) \/ ReadRate(t) \/ ReadSpan(t)
    PROVE  \E d \in Command :
              /\ Then(t, <<d>>)
              /\ \/ At(t, {"full"}) /\ d.op = "span"
                 \/ At(t, Clamping) /\ d.op \in Clamping \ {"again"}
  <1>1. ~Idle(t) /\ todo[t] \in Seq(Command)
    BY DEF ReadArgument, ReadRate, ReadSpan, At, Types
  <1>2. Head(todo[t]) \in Command
    BY <1>1, HeadTailProperties DEF Idle
  <1>3. Val(t) \in Int /\ Arg(t) \in Int
    BY <1>2 DEF Val, Arg, Command
  <1>4. CASE ReadArgument(t) /\ At(t, {"again"})
    <2>1. PICK d : d = Do("clamp", m_FftCenter)
      OBVIOUS
    <2>2. d \in Command /\ d.op = "clamp"
      BY <2>1 DEF Do, Command, Op, Clamping, Types
    <2>3. Then(t, <<d>>) /\ At(t, Clamping)
      BY <1>4, <2>1 DEF ReadArgument, At, Clamping
    <2> QED
      BY <2>2, <2>3 DEF Clamping
  <1>5. CASE ReadArgument(t) /\ ~At(t, {"again"})
    <2>1. PICK d : d = Do("span", m_SampleFreq)
      OBVIOUS
    <2>2. d \in Command /\ d.op = "span"
      BY <2>1 DEF Do, Command, Op, Clamping, Types
    <2>3. Then(t, <<d>>) /\ At(t, {"full"})
      BY <1>5, <2>1 DEF ReadArgument, At
    <2> QED
      BY <2>2, <2>3
  <1>6. CASE ReadRate(t)
    <2>1. PICK d : d = Carry("limit", Val(t), m_SampleFreq)
      OBVIOUS
    <2>2. d \in Command /\ d.op = "limit"
      BY <1>3, <2>1 DEF Carry, Command, Op, Clamping, Types
    <2>3. Then(t, <<d>>) /\ At(t, Clamping)
      BY <1>6, <2>1 DEF ReadRate, At, Clamping
    <2> QED
      BY <2>2, <2>3 DEF Clamping
  <1>7. CASE ReadSpan(t)
    <2>1. PICK d : d = Carry("center", Val(t), Limit(Arg(t), m_Span))
      OBVIOUS
    <2>2. Limit(Arg(t), m_Span) \in Int
      BY <1>3 DEF Limit, Types
    <2>3. d \in Command /\ d.op = "center"
      BY <1>3, <2>1, <2>2 DEF Carry, Command, Op, Clamping
    <2>4. Then(t, <<d>>) /\ At(t, Clamping)
      BY <1>7, <2>1 DEF ReadSpan, At, Clamping
    <2> QED
      BY <2>3, <2>4 DEF Clamping
  <1> QED
    BY <1>4, <1>5, <1>6, <1>7

LEMMA StepTypes ==
    ASSUME Types, NEW t \in Thread, Step(t)
    PROVE  Types'
  <1>1. t \in DOMAIN todo /\ todo[t] \in Seq(Command)
    BY DEF Types
  <1>2. ASSUME ~Idle(t) PROVE Head(todo[t]) \in Command /\ Tail(todo[t]) \in Seq(Command)
    BY <1>1, <1>2, HeadTailProperties DEF Idle
  <1>3. ASSUME ~Idle(t), Done(t) PROVE todo' \in [Thread -> Seq(Command)]
    BY <1>2, <1>3 DEF Done, Types
  <1>4. ASSUME ~Idle(t), NEW s \in Seq(Command), Then(t, s) PROVE todo' \in [Thread -> Seq(Command)]
    <2>1. s \o Tail(todo[t]) \in Seq(Command)
      BY <1>2, <1>4, ConcatProperties
    <2> QED
      BY <1>4, <2>1 DEF Then, Types
  <1>5. ASSUME ~Idle(t)
        PROVE  Val(t) \in Int /\ Arg(t) \in Int /\ (At(t, {"rate", "span"}) => Val(t) > 0)
    BY <1>2, <1>5 DEF Val, Arg, At, Command
  <1>6. CASE WriteRate(t)
    <2>1. ~Idle(t) /\ At(t, {"rate", "span"})
      BY <1>6 DEF WriteRate, At
    <2>2. Val(t) \in Nat \ {0}
      BY <1>5, <2>1
    <2>3. todo' \in [Thread -> Seq(Command)]
      BY <1>3, <1>6, <2>1 DEF WriteRate
    <2> QED
      BY <1>6, <2>2, <2>3 DEF WriteRate, Types, overlay, mouse
  <1>7. CASE WriteSpan(t)
    <2>1. ~Idle(t) /\ At(t, {"rate", "span"})
      BY <1>7 DEF WriteSpan, At
    <2>2. Val(t) \in Nat \ {0}
      BY <1>5, <2>1
    <2>3. todo' \in [Thread -> Seq(Command)]
      BY <1>3, <1>7, <2>1 DEF WriteSpan
    <2> QED
      BY <1>7, <2>2, <2>3 DEF WriteSpan, Types, overlay, mouse
  <1>8. CASE WriteCenter(t)
    <2>1. ~Idle(t)
      BY <1>8 DEF WriteCenter, At
    <2>2. Arg(t) \in Int /\ -Arg(t) \in Int /\ Val(t) \in Int
      BY <1>5, <2>1
    <2>3. m_FftCenter' \in Int
      BY <1>8, <2>2, BoundInt DEF WriteCenter
    <2>4. todo' \in [Thread -> Seq(Command)]
      BY <1>3, <1>8, <2>1 DEF WriteCenter
    <2>5. lost' \in BOOLEAN /\ stale' \in BOOLEAN
      BY <1>8 DEF WriteCenter, Types
    <2> QED
      BY <1>8, <2>3, <2>4, <2>5 DEF WriteCenter, Types, mouse
  <1>9. CASE ReadArgument(t) \/ ReadRate(t) \/ ReadSpan(t)
    <2>1. ~Idle(t) /\ UNCHANGED <<view, overlay, mouse>>
      BY <1>9 DEF ReadArgument, ReadRate, ReadSpan, At
    <2>2. PICK d \in Command : Then(t, <<d>>)
      BY <1>9, ReadThen
    <2>3. <<d>> \in Seq(Command)
      OBVIOUS
    <2>4. todo' \in [Thread -> Seq(Command)]
      BY <1>4, <2>1, <2>2, <2>3
    <2> QED
      BY <2>1, <2>4 DEF Types, view, overlay, mouse
  <1>10. CASE Retune(t)
    <2>1. ~Idle(t)
      BY <1>10 DEF Retune, At
    <2>2. <<Do("update", 0)>> \in Seq(Command)
      BY Scripts DEF Op, Clamping
    <2>3. todo' \in [Thread -> Seq(Command)]
      BY <1>3, <1>4, <1>10, <2>1, <2>2 DEF Retune
    <2> QED
      BY <1>5, <1>10, <2>1, <2>3 DEF Retune, Types, overlay, mouse
  <1>11. CASE UpdateOverlay(t)
    <2>1. ~Idle(t)
      BY <1>11 DEF UpdateOverlay, At
    <2>2. <<Do("grid", 0)>> \in Seq(Command)
      BY Scripts DEF Op, Clamping
    <2>3. todo' \in [Thread -> Seq(Command)]
      BY <1>3, <1>4, <1>11, <2>1, <2>2 DEF UpdateOverlay
    <2>4. lost' \in BOOLEAN /\ m_DrawOverlay' \in BOOLEAN
      BY <1>11 DEF UpdateOverlay, Types
    <2> QED
      BY <1>11, <2>3, <2>4 DEF UpdateOverlay, Types, view, mouse
  <1>12. CASE DrawOverlay(t)
    <2>1. ~Idle(t)
      BY <1>12 DEF DrawOverlay, At
    <2>2. todo' \in [Thread -> Seq(Command)]
      BY <1>3, <1>12, <2>1 DEF DrawOverlay
    <2> QED
      BY <1>12, <2>2 DEF DrawOverlay, Types, view, mouse
  <1> QED
    BY <1>6, <1>7, <1>8, <1>9, <1>10, <1>11, <1>12 DEF Step

LEMMA HandleTypes ==
    ASSUME Types, NEW s \in Seq(Command), Handle(s)
    PROVE  todo' \in [Thread -> Seq(Command)]
  BY DEF Handle, Types

LEMMA MoveTypes ==
    ASSUME Types, NEW p \in Point, MouseMove(p)
    PROVE  Types'
  <1>1. p.x \in Int /\ p.zone \in Zone /\ pointer.x \in Int
    BY PointAssumption DEF Types
  <1>2. m_CursorCaptured' \in Overlay
    <2>1. Captured(p) \in Overlay
      BY DEF Captured, Types, Overlay
    <2> QED
      BY <1>1, <2>1 DEF MouseMove, Kept, Overlay
  <1>3. CASE Drags(Captured(p))
    <2>1. Pan(p) \in Int
      <3>1. (m_Xzero - p.x) * m_Span \in Int
        BY <1>1 DEF Types
      <3> QED
        BY <3>1, QuotInt, PointAssumption DEF Pan
    <2>2. <<Do("update", 0)>> \in Seq(Command)
      BY Scripts DEF Op, Clamping
    <2>3. setFftCenterFreq(m_FftCenter + Pan(p)) \in Seq(Command)
      BY <2>1, Scripts DEF Types
    <2>4. setFftCenterFreq(m_FftCenter + Pan(p)) \o <<Do("update", 0)>> \in Seq(Command)
      BY <2>2, <2>3, ConcatProperties
    <2>5. todo' \in [Thread -> Seq(Command)] /\ m_CenterFreq' \in Int /\ m_Xzero' \in Int
      <3>1. CASE "mid" \in buttons
        <4>1. /\ m_CenterFreq' = m_CenterFreq + Pan(p) /\ m_Xzero' = p.x
              /\ Handle(<<Do("update", 0)>>)
          BY <1>3, <3>1 DEF MouseMove
        <4>2. todo' \in [Thread -> Seq(Command)]
          BY <2>2, <4>1, HandleTypes
        <4> QED
          BY <1>1, <2>1, <4>1, <4>2 DEF Types
      <3>2. CASE "mid" \notin buttons
        <4>1. /\ m_CenterFreq' = m_CenterFreq /\ m_Xzero' = p.x
              /\ Handle(setFftCenterFreq(m_FftCenter + Pan(p)) \o <<Do("update", 0)>>)
          BY <1>3, <3>2 DEF MouseMove
        <4>2. todo' \in [Thread -> Seq(Command)]
          BY <2>4, <4>1, HandleTypes
        <4> QED
          BY <1>1, <4>1, <4>2 DEF Types
      <3> QED
        BY <3>1, <3>2
    <2> QED
      BY <1>2, <2>5 DEF MouseMove, Types, overlay
  <1>4. CASE ~Drags(Captured(p))
    <2>1. todo' \in [Thread -> Seq(Command)] /\ UNCHANGED <<m_Xzero, m_CenterFreq>>
      <3>1. Handle(<<>>) /\ <<>> \in Seq(Command) /\ UNCHANGED <<m_Xzero, m_CenterFreq>>
        BY <1>4 DEF MouseMove
      <3> QED
        BY <3>1, HandleTypes
    <2> QED
      BY <1>2, <2>1 DEF MouseMove, Types, overlay
  <1> QED
    BY <1>3, <1>4

LEMMA PressTypes ==
    ASSUME Types, NEW b \in Button, MousePress(b)
    PROVE  Types'
  <1>1. pointer.x \in Int /\ pointer.zone \in Zone
    BY PointAssumption DEF Types
  <1>2. m_Xzero' \in Int /\ buttons' \subseteq Button /\ twice' \in BOOLEAN
    BY <1>1 DEF MousePress, Types
  <1>3. resetHorizontalZoom \in Seq(Command) /\ <<>> \in Seq(Command)
    BY ResetScript
  <1>4. <<Do("grid", 0)>> \in Seq(Command)
    BY Scripts DEF Op, Clamping
  <1>5. /\ todo' \in [Thread -> Seq(Command)]
        /\ m_CenterFreq' \in Int /\ m_CursorCaptured' \in Overlay
    <2>1. CASE m_CursorCaptured # "NOCAP"
      <3>1. /\ UNCHANGED <<m_CursorCaptured, m_CenterFreq>>
            /\ \/ Handle(resetHorizontalZoom)
               \/ Handle(<<>>)
        BY <2>1 DEF MousePress
      <3>2. todo' \in [Thread -> Seq(Command)]
        BY <1>3, <3>1, HandleTypes
      <3> QED
        BY <3>1, <3>2 DEF Types
    <2>2. CASE m_CursorCaptured = "NOCAP"
      <3>1. PressFree(b)
        BY <2>2 DEF MousePress
      <3>2. m_CursorCaptured' \in Overlay
        BY <3>1 DEF PressFree, Overlay, Line
      <3>3. m_CenterFreq' \in Int
        BY <1>1, <3>1, FreqInt, RoundInt DEF PressFree, Types
      <3>4. todo' \in [Thread -> Seq(Command)]
        BY <1>3, <1>4, <3>1 DEF PressFree, Handle, Types
      <3> QED
        BY <3>2, <3>3, <3>4
    <2> QED
      BY <2>1, <2>2
  <1> QED
    BY <1>2, <1>5 DEF MousePress, Types, overlay

LEMMA TypesStep ==
    ASSUME Types, [Next]_vars
    PROVE  Types'
  <1>1. ASSUME NEW t \in Thread, Step(t) PROVE Types'
    BY <1>1, StepTypes
  <1>2. CASE ClearFlag
    <2>1. todo["window"] \in Seq(Command) /\ todo["window"] # <<>>
      BY <1>2 DEF ClearFlag, At, Idle, Types, Thread
    <2>2. Tail(todo["window"]) \in Seq(Command)
      BY <2>1, HeadTailProperties
    <2> QED
      BY <1>2, <2>2 DEF ClearFlag, Done, Types, view, mouse
  <1>3. CASE Draw
    <2>1. Do("grid", 0) \in Command /\ Do("clear", 0) \in Command
      BY Scripts DEF Op, Clamping
    <2>2. <<Do("grid", 0), Do("clear", 0)>> \in Seq(Command)
      BY <2>1
    <2>3. todo' \in [Thread -> Seq(Command)]
      <3>1. CASE m_DrawOverlay
        BY <1>3, <2>2, <3>1 DEF Draw, Types
      <3>2. CASE ~m_DrawOverlay
        <4>1. todo' = [todo EXCEPT !["window"] = <<>>] /\ <<>> \in Seq(Command)
          BY <1>3, <3>2 DEF Draw
        <4> QED
          BY <4>1 DEF Types
      <3> QED
        BY <3>1, <3>2
    <2> QED
      BY <1>3, <2>3 DEF Draw, Types, view, mouse
  <1>4. ASSUME NEW p \in Point, MouseMove(p) PROVE Types'
    BY <1>4, MoveTypes
  <1>5. ASSUME NEW b \in Button, MousePress(b) PROVE Types'
    BY <1>5, PressTypes
  <1>6. ASSUME NEW b \in Button, MouseRelease(b) PROVE Types'
    <2>1. todo' \in [Thread -> Seq(Command)]
      <3>1. Handle(<<>>) /\ <<>> \in Seq(Command)
        BY <1>6 DEF MouseRelease
      <3> QED
        BY <3>1, HandleTypes
    <2>2. m_CursorCaptured' \in Overlay /\ m_Xzero' \in Int
      BY <1>6 DEF MouseRelease, Types, Overlay
    <2>3. buttons' \subseteq Button /\ twice' \in BOOLEAN
      BY <1>6 DEF MouseRelease, Types
    <2> QED
      BY <1>6, <2>1, <2>2, <2>3 DEF MouseRelease, Types, view, overlay
  <1>7. ASSUME NEW s \in ZoomStep, Wheel(s) PROVE Types'
    <2>1. pointer.x \in Int
      BY PointAssumption DEF Types
    <2>2. zoomStepX(s, pointer.x) \in Seq(Command) /\ <<Do("update", 0)>> \in Seq(Command)
      <3>1. zoomStepX(s, pointer.x) \in Seq(Command)
        BY <2>1, ZoomScript
      <3>2. Do("update", 0) \in Command
        BY Scripts DEF Op, Clamping
      <3> QED
        BY <3>1, <3>2
    <2>3. zoomStepX(s, pointer.x) \o <<Do("update", 0)>> \in Seq(Command)
      BY <2>2, ConcatProperties
    <2> QED
      BY <1>7, <2>3 DEF Wheel, Handle, Types, view, overlay, mouse
  <1>8. ASSUME NEW c \in Clock, Confirmed(c) PROVE Types'
    <2>1. c \div 2 \in Nat \ {0} /\ c \div 4 \in Int
      BY RateAssumption
    <2>2. /\ setSampleRate(c \div 2) \in Seq(Command) /\ setSpanFreq(c \div 2) \in Seq(Command)
          /\ <<Do("retune", c \div 4)>> \in Seq(Command) /\ setFftCenterFreq(0) \in Seq(Command)
      <3>1. Do("retune", c \div 4) \in Command
        BY <2>1, Scripts DEF Op, Clamping
      <3>2. <<Do("retune", c \div 4)>> \in Seq(Command)
        BY <3>1
      <3>3. setSampleRate(c \div 2) \in Seq(Command) /\ setSpanFreq(c \div 2) \in Seq(Command)
        BY <2>1, Scripts
      <3>4. setFftCenterFreq(0) \in Seq(Command)
        BY Scripts
      <3> QED
        BY <3>2, <3>3, <3>4
    <2> DEFINE script == setSampleRate(c \div 2) \o setSpanFreq(c \div 2)
                         \o <<Do("retune", c \div 4)>> \o setFftCenterFreq(0)
    <2>3. script \in Seq(Command)
      <3>1. setSampleRate(c \div 2) \o setSpanFreq(c \div 2) \in Seq(Command)
        BY <2>2, ConcatProperties
      <3>2. setSampleRate(c \div 2) \o setSpanFreq(c \div 2) \o <<Do("retune", c \div 4)>> \in Seq(Command)
        BY <2>2, <3>1, ConcatProperties
      <3> QED
        BY <2>2, <3>2, ConcatProperties
    <2>4. todo' = [todo EXCEPT !["worker"] = script]
      BY <1>8 DEF Confirmed
    <2> HIDE DEF script
    <2> QED
      BY <1>8, <2>3, <2>4 DEF Confirmed, Types, view, overlay, mouse
  <1>9. CASE UNCHANGED vars
    BY <1>9 DEF vars, Types, view, overlay, mouse
  <1> QED
    BY <1>1, <1>2, <1>3, <1>4, <1>5, <1>6, <1>7, <1>8, <1>9 DEF Next, Mouse

-----------------------------------------------------------------------------
(* The bins and the grid: the invariant                                      *)

Has(s, ops) == \E i \in DOMAIN s : s[i].op \in ops
Followed(s, ops, by) ==
    \A i \in DOMAIN s : s[i].op \in ops => \E j \in DOMAIN s : j > i /\ s[j].op \in by
Drawing == {"grid", "update"}

\* What is left of a script: a change of the rate or the span is followed by a
\* clamp, one of the view by a drawing (but for the worker's last clamp), and a
\* flag is cleared right after the drawing.
Orderly(t, s) ==
    /\ Followed(s, {"rate", "span", "full"}, {"again"})
    /\ Followed(s, {"span", "full", "again"}, Drawing)
    /\ \A i \in DOMAIN s : s[i].op \in Clamping =>
          (t = "worker" /\ i = Len(s)) \/ \E j \in DOMAIN s : j > i /\ s[j].op \in Drawing
    /\ \A i \in DOMAIN s : s[i].op = "clear" /\ i > 1 => s[i - 1].op = "grid"

\* The grid g is that of the view: GridFitsView when nothing is under way.
Fit(g) ==
    /\ g.divs <= HORZ_DIVS_MAX
    /\ m_Span > HORZ_DIVS_MAX =>
          /\ g.adj \in StartFreq .. StartFreq + g.step - 1
          /\ g.adj + g.divs * g.step
                \in StartFreq + m_Span - g.step + 1 .. StartFreq + m_Span + g.step
Fits == Fit(grid)

Pending(ops) == \E t \in Thread : Has(todo[t], ops)
\* The grid is that of the view, will be drawn again, or the history tells.
Covered == Fits \/ lost \/ Pending(Drawing)

\* ClampDue of any thread.
Due(s) == \E i \in DOMAIN s : s[i].op \in Clamping /\ i < Len(s)
SomeDue == \E t \in Thread : Due(todo[t])
InLimits ==
    m_FftCenter \in -Limit(m_SampleFreq, m_Span) .. Limit(m_SampleFreq, m_Span)

\* Unless a clamp is still to come or was made with a stale limit the centre
\* is in its limits, and unless draw() will see the flag the grid is covered.
ViewInv ==
    /\ \A t \in Thread : Orderly(t, todo[t])
    /\ SomeDue \/ stale \/ InLimits
    /\ Covered \/ m_DrawOverlay
    /\ At("window", {"clear"}) => Covered

-----------------------------------------------------------------------------
(* Arithmetic of the grid *)

LEMMA LeastNat ==
    ASSUME NEW T, T \subseteq Nat, T # {}
    PROVE  \E m \in T : \A k \in T : m <= k
  <1>0. \E m \in T : \A k \in T : ~(<<k, m>> \in OpToRel(<, Nat))
    BY NatLessThanWellFounded, WFMin
  <1>1. PICK m \in T : \A k \in T : ~(<<k, m>> \in OpToRel(<, Nat))
    BY <1>0
  <1>2. \A k \in T : m <= k
    <2> TAKE k \in T
    <2>1. m \in Nat /\ k \in Nat
      OBVIOUS
    <2>2. <<k, m>> \in OpToRel(<, Nat) <=> k < m
      BY <2>1 DEF OpToRel
    <2>3. ~(k < m)
      BY <1>1, <2>2
    <2> QED
      BY <2>1, <2>3
  <1> QED
    BY <1>2

Chain(f, n) == f = [i \in 0 .. n |-> IF i = 0 THEN 1 ELSE f[i - 1] * 10]

LEMMA ChainExists == \A n \in Nat : \E f : Chain(f, n)
  <1> DEFINE Bad == {n \in Nat : ~ \E f : Chain(f, n)}
  <1> SUFFICES ASSUME Bad # {} PROVE FALSE
    OBVIOUS
  <1>1. PICK m \in Bad : \A k \in Bad : m <= k
    BY LeastNat
  <1>2. m # 0
    <2>1. Chain([i \in 0 .. 0 |-> 1], 0)
      BY DEF Chain
    <2> QED
      BY <2>1
  <1>3. m - 1 \in Nat /\ m - 1 \notin Bad
    BY <1>1, <1>2
  <1>4. PICK f : Chain(f, m - 1)
    BY <1>3
  <1> DEFINE g == [i \in 0 .. m |-> IF i = m THEN f[m - 1] * 10 ELSE f[i]]
  <1>5. \A i \in 0 .. m - 1 : f[i] = IF i = 0 THEN 1 ELSE f[i - 1] * 10
    BY <1>4 DEF Chain
  <1>6. ASSUME NEW i \in 0 .. m
        PROVE  g[i] = IF i = 0 THEN 1 ELSE g[i - 1] * 10
    <2>1. CASE i = m
      <3>1. g[i - 1] = f[m - 1] /\ i # 0
        BY <2>1, <1>2, <1>3
      <3> QED
        BY <2>1, <3>1
    <2>2. CASE i # m
      <3>1. i \in 0 .. m - 1 /\ g[i] = f[i]
        BY <2>2, <1>3
      <3>2. i # 0 => g[i - 1] = f[i - 1]
        BY <2>2, <1>3
      <3> QED
        BY <3>1, <3>2, <1>5
    <2> QED
      BY <2>1, <2>2
  <1>7. Chain(g, m)
    <2>1. g = [i \in 0 .. m |-> g[i]]
      OBVIOUS
    <2> HIDE DEF g
    <2> QED
      BY <2>1, <1>6 DEF Chain
  <1> QED
    BY <1>1, <1>7

\* multiplier is positive and outgrows the rounds.
LEMMA MultiplierGrows == \A n \in Nat : Multiplier(n) \in Nat /\ Multiplier(n) > 3 * n
  <1> TAKE n \in Nat
  <1>1. PICK f : Chain(f, n) /\ Multiplier(n) = f[n]
    BY ChainExists DEF Chain, Multiplier
  <1>2. f[0] = 1 /\ \A i \in 1 .. n : f[i] = f[i - 1] * 10
    BY <1>1 DEF Chain
  <1>3. \A i \in 0 .. n : f[i] \in Nat /\ f[i] > 3 * i
    <2> DEFINE Bad == {i \in 0 .. n : ~(f[i] \in Nat /\ f[i] > 3 * i)}
    <2> SUFFICES ASSUME Bad # {} PROVE FALSE
      OBVIOUS
    <2>0. Bad \subseteq Nat
      OBVIOUS
    <2>1. PICK m \in Bad : \A k \in Bad : m <= k
      BY <2>0, LeastNat
    <2>2. m # 0
      BY <1>2
    <2>3. f[m - 1] \in Nat /\ f[m - 1] > 3 * (m - 1) /\ f[m] = f[m - 1] * 10
      BY <1>2, <2>1, <2>2
    <2> QED
      BY <2>1, <2>2, <2>3
  <1> QED
    BY <1>1, <1>3

LEMMA StepGrows == \A n \in Nat : StepTable(n) \in Nat \ {0} /\ StepTable(n) > n
  <1> TAKE n \in Nat
  <1> DEFINE q == n \div 3
  <1>1. q \in Nat /\ n % 3 \in 0 .. 2 /\ n = 3 * q + (n % 3)
    OBVIOUS
  <1>2. Multiplier(q) \in Nat /\ Multiplier(q) > 3 * q
    BY <1>1, MultiplierGrows
  <1>3. StepTable(n) = <<1, 2, 5>>[(n % 3) + 1] * Multiplier(q)
    BY DEF StepTable
  <1> HIDE DEF q
  <1>4. CASE n % 3 = 0
    BY <1>1, <1>2, <1>3, <1>4
  <1>5. CASE n % 3 = 1
    BY <1>1, <1>2, <1>3, <1>5
  <1>6. CASE n % 3 = 2
    BY <1>1, <1>2, <1>3, <1>6
  <1> QED
    BY <1>1, <1>4, <1>5, <1>6

LEMMA Division ==
    \A a \in Nat, b \in Nat \ {0} :
        a \div b \in Nat /\ (a \div b) * b <= a /\ a < (a \div b) * b + b
  <1> TAKE a \in Nat, b \in Nat \ {0}
  <1>1. a = b * (a \div b) + (a % b) /\ a \div b \in Nat /\ a % b \in 0 .. b - 1
    OBVIOUS
  <1> QED
    BY <1>1

LEMMA FirstLineFits ==
    \A low \in Int, step \in Nat \ {0} :
        FirstLine(low, step) \in Int /\ low <= FirstLine(low, step) /\ FirstLine(low, step) < low + step
  <1> TAKE low \in Int, step \in Nat \ {0}
  <1> DEFINE adj == Quot(low, step) * step
  <1>1. adj \in Int /\ low - step < adj /\ adj < low + step
    <2>1. CASE low >= 0
      <3>1. PICK q : q = low \div step
        OBVIOUS
      <3>2. q \in Nat /\ q * step <= low /\ low < q * step + step
        BY <2>1, <3>1, Division
      <3>3. adj = q * step
        BY <2>1, <3>1 DEF Quot
      <3> QED
        BY <3>2, <3>3
    <2>2. CASE low < 0
      <3>1. PICK q : q = (-low) \div step
        OBVIOUS
      <3>2. -low \in Nat
        BY <2>2
      <3>3. q \in Nat /\ q * step <= -low /\ -low < q * step + step
        BY <3>1, <3>2, Division
      <3>4. adj = (-q) * step
        BY <2>2, <3>1 DEF Quot
      <3>5. (-q) * step = -(q * step)
        BY <3>3
      <3> QED
        BY <3>3, <3>4, <3>5
    <2> QED
      BY <2>1, <2>2
  <1>2. FirstLine(low, step) = IF adj < low THEN adj + step ELSE adj
    BY DEF FirstLine
  <1> HIDE DEF adj
  <1> QED
    BY <1>1, <1>2

\* The loop ends: a step beyond the span leaves no division.
LEMMA LoopEnds ==
    ASSUME NEW span \in Nat, NEW wanted \in Nat
    PROVE  \E k \in 0 .. span : /\ span \div StepTable(k) <= wanted
                                /\ \A j \in 0 .. k - 1 : ~(span \div StepTable(j) <= wanted)
  <1> DEFINE T == {k \in 0 .. span : span \div StepTable(k) <= wanted}
  <1>1. T \subseteq Nat
    OBVIOUS
  <1>2. span \in T
    <2>1. PICK s : s = StepTable(span)
      OBVIOUS
    <2>2. s \in Nat \ {0} /\ s > span
      BY <2>1, StepGrows
    <2>3. span \div s = 0
      BY <2>2
    <2> QED
      BY <2>1, <2>3
  <1>3. PICK k \in T : \A j \in T : k <= j
    BY <1>1, <1>2, LeastNat
  <1>4. \A j \in 0 .. k - 1 : j \notin T /\ j \in 0 .. span
    BY <1>1, <1>3
  <1> QED
    BY <1>3, <1>4

\* The grid that calcDivSize finds, for any screen.
LEMMA DivSizeFits ==
    ASSUME Types, NEW wanted \in Wanted, NEW g, g = calcDivSize(StartFreq, m_Span, wanted)
    PROVE  Fit(g)
  <1>1. m_Span \in Nat \ {0} /\ StartFreq \in Int
    BY FreqInt DEF Types
  <1>2. wanted \in Nat /\ wanted <= HORZ_DIVS_MAX /\ HORZ_DIVS_MAX \in Nat
    BY GridAssumption
  <1>3. CASE m_Span <= wanted
    <2>1. g.divs = m_Span
      BY <1>3 DEF calcDivSize
    <2> QED
      BY <1>1, <1>2, <1>3, <2>1 DEF Fit
  <1>4. CASE ~(m_Span <= wanted)
    <2> DEFINE Least(k) == /\ m_Span \div StepTable(k) <= wanted
                           /\ \A j \in 0 .. k - 1 : ~(m_Span \div StepTable(j) <= wanted)
    <2>1. PICK n : n = CHOOSE k \in 0 .. m_Span : Least(k)
      OBVIOUS
    <2>2. \E k \in 0 .. m_Span : Least(k)
      BY <1>1, <1>2, LoopEnds
    <2>3. n \in 0 .. m_Span /\ Least(n)
      BY <2>1, <2>2
    <2>4. PICK step : step = StepTable(n)
      OBVIOUS
    <2>5. PICK divs : divs = m_Span \div step
      OBVIOUS
    <2>6. step \in Nat \ {0}
      BY <2>3, <2>4, StepGrows
    <2>7. divs \in Nat /\ divs * step <= m_Span /\ m_Span < divs * step + step
      BY <1>1, <2>5, <2>6, Division
    <2>8. divs <= wanted
      BY <2>3, <2>4, <2>5
    <2>9. g = [adj |-> FirstLine(StartFreq, step), step |-> step, divs |-> divs]
      BY <1>4, <2>1, <2>4, <2>5 DEF calcDivSize
    <2>10. PICK adj : adj = FirstLine(StartFreq, step)
      OBVIOUS
    <2>11. adj \in Int /\ StartFreq <= adj /\ adj < StartFreq + step
      BY <1>1, <2>6, <2>10, FirstLineFits
    <2>12. g.adj = adj /\ g.step = step /\ g.divs = divs
      BY <2>9, <2>10
    <2>13. PICK w : w = divs * step
      OBVIOUS
    <2>14. w \in Int /\ w <= m_Span /\ m_Span < w + step
      BY <2>6, <2>7, <2>13
    <2>15. adj \in StartFreq .. StartFreq + step - 1
      BY <1>1, <2>6, <2>11
    <2>16. adj + w \in StartFreq + m_Span - step + 1 .. StartFreq + m_Span + step
      BY <1>1, <2>6, <2>11, <2>14
    <2>17. divs <= HORZ_DIVS_MAX
      BY <1>2, <2>7, <2>8
    <2> QED
      BY <2>12, <2>13, <2>15, <2>16, <2>17 DEF Fit
  <1> QED
    BY <1>3, <1>4

-----------------------------------------------------------------------------
(* Scripts *)

LEMMA Rest ==
    ASSUME NEW s \in Seq(Command), s # <<>>
    PROVE  /\ Head(s) = s[1] /\ 1 \in DOMAIN s
           /\ \A i \in DOMAIN s : i = 1 \/ (i - 1 \in DOMAIN Tail(s) /\ Tail(s)[i - 1] = s[i])
           /\ \A i \in DOMAIN Tail(s) : i \in Nat \ {0} /\ i + 1 \in DOMAIN s /\ Tail(s)[i] = s[i + 1]
           /\ DOMAIN s \subseteq Nat \ {0}
           /\ Len(Tail(s)) = Len(s) - 1 /\ Len(s) \in Nat
  <1>1. Tail(s) \in Seq(Command) /\ Len(Tail(s)) = Len(s) - 1
        /\ \A i \in 1 .. Len(Tail(s)) : Tail(s)[i] = s[i + 1]
    BY HeadTailProperties
  <1>2. DOMAIN s = 1 .. Len(s) /\ DOMAIN Tail(s) = 1 .. Len(Tail(s)) /\ Len(s) \in Nat /\ Len(s) > 0
    BY <1>1
  <1> QED
    BY <1>1, <1>2, HeadTailProperties

LEMMA TailOrderly ==
    ASSUME NEW t, NEW s \in Seq(Command), s # <<>>, Orderly(t, s)
    PROVE  Orderly(t, Tail(s))
  <1>1. ASSUME NEW ops, NEW by, Followed(s, ops, by) PROVE Followed(Tail(s), ops, by)
    <2> SUFFICES ASSUME NEW i \in DOMAIN Tail(s), Tail(s)[i].op \in ops
                 PROVE  \E j \in DOMAIN Tail(s) : j > i /\ Tail(s)[j].op \in by
      BY DEF Followed
    <2>1. i + 1 \in DOMAIN s /\ s[i + 1].op \in ops /\ i \in Nat \ {0}
      BY Rest
    <2>2. PICK j \in DOMAIN s : j > i + 1 /\ s[j].op \in by
      BY <1>1, <2>1 DEF Followed
    <2>3. j - 1 \in DOMAIN Tail(s) /\ Tail(s)[j - 1] = s[j] /\ j - 1 > i
      BY <2>1, <2>2, Rest
    <2> QED
      BY <2>2, <2>3
  <1>2. ASSUME NEW i \in DOMAIN Tail(s), Tail(s)[i].op = "clear", i > 1
        PROVE  Tail(s)[i - 1].op = "grid"
    <2>1. i + 1 \in DOMAIN s /\ s[i + 1].op = "clear" /\ i \in Nat \ {0}
      BY <1>2, Rest
    <2>2. s[(i + 1) - 1].op = "grid" /\ (i + 1) - 1 = i
      BY <1>2, <2>1 DEF Orderly
    <2>3. i \in DOMAIN s
      BY <2>1
    <2> QED
      BY <1>2, <2>1, <2>2, <2>3, Rest
  <1>3. ASSUME NEW i \in DOMAIN Tail(s), Tail(s)[i].op \in Clamping,
               ~(t = "worker" /\ i = Len(Tail(s)))
        PROVE  \E j \in DOMAIN Tail(s) : j > i /\ Tail(s)[j].op \in Drawing
    <2>1. i + 1 \in DOMAIN s /\ s[i + 1].op \in Clamping /\ i \in Nat \ {0}
      BY <1>3, Rest
    <2>2. ~(t = "worker" /\ i + 1 = Len(s))
      BY <1>3, <2>1, Rest
    <2>3. PICK j \in DOMAIN s : j > i + 1 /\ s[j].op \in Drawing
      BY <2>1, <2>2 DEF Orderly
    <2>4. j - 1 \in DOMAIN Tail(s) /\ Tail(s)[j - 1] = s[j] /\ j - 1 > i
      BY <2>1, <2>3, Rest
    <2> QED
      BY <2>3, <2>4
  <1> QED
    BY <1>1, <1>2, <1>3 DEF Orderly

LEMMA Front ==
    ASSUME NEW s \in Seq(Command), s # <<>>, NEW d \in Command
    PROVE  LET u == <<d>> \o Tail(s) IN
           /\ u[1] = d /\ DOMAIN u = DOMAIN s /\ Len(u) = Len(s)
           /\ \A i \in DOMAIN s : i > 1 => u[i] = s[i]
  <1>1. PICK v : v = Tail(s)
    OBVIOUS
  <1>2. v \in Seq(Command) /\ Len(v) = Len(s) - 1 /\ \A i \in 1 .. Len(v) : v[i] = s[i + 1]
    BY <1>1, HeadTailProperties
  <1>3. <<d>> \in Seq(Command) /\ Len(<<d>>) = 1 /\ <<d>>[1] = d
    OBVIOUS
  <1>4. PICK u : u = <<d>> \o v
    OBVIOUS
  <1>5. u \in Seq(Command) /\ Len(u) = 1 + Len(v)
        /\ \A i \in 1 .. Len(u) : u[i] = IF i <= 1 THEN <<d>>[i] ELSE v[i - 1]
    BY <1>2, <1>3, <1>4, ConcatProperties
  <1>6. Len(s) \in Nat /\ Len(s) > 0 /\ DOMAIN s = 1 .. Len(s) /\ DOMAIN u = 1 .. Len(u)
    BY <1>5
  <1>7. Len(u) = Len(s)
    BY <1>2, <1>5, <1>6
  <1>8. u[1] = d
    BY <1>3, <1>5, <1>6, <1>7
  <1>9. \A i \in DOMAIN s : i > 1 => u[i] = s[i]
    BY <1>2, <1>5, <1>6, <1>7
  <1> QED
    BY <1>1, <1>4, <1>6, <1>7, <1>8, <1>9

\* In the head's place comes something of its kind, or a drawing.
Replaces(s, d) ==
    /\ Head(s).op # "grid" /\ d.op # "clear"
    /\ \/ d.op \in Drawing
       \/ Head(s).op = "full" /\ d.op = "span"
       \/ Head(s).op \in Clamping /\ d.op \in Clamping \ {"again"}

LEMMA FrontOrderly ==
    ASSUME NEW t, NEW s \in Seq(Command), s # <<>>, Orderly(t, s),
           NEW d \in Command, Replaces(s, d)
    PROVE  Orderly(t, <<d>> \o Tail(s))
  <1>1. PICK u : u = <<d>> \o Tail(s)
    OBVIOUS
  <1>2. u[1] = d /\ DOMAIN u = DOMAIN s /\ Len(u) = Len(s) /\ \A i \in DOMAIN s : i > 1 => u[i] = s[i]
    BY <1>1, Front
  <1>3. 1 \in DOMAIN s /\ DOMAIN s \subseteq Nat \ {0} /\ Head(s) = s[1]
    BY Rest
  <1>4. ASSUME NEW ops, NEW by, Followed(s, ops, by), d.op \in ops => Head(s).op \in ops
        PROVE  Followed(u, ops, by)
    <2> SUFFICES ASSUME NEW i \in DOMAIN u, u[i].op \in ops
                 PROVE  \E j \in DOMAIN u : j > i /\ u[j].op \in by
      BY DEF Followed
    <2>1. i \in Nat \ {0} /\ s[i].op \in ops /\ i \in DOMAIN s
      BY <1>2, <1>3, <1>4
    <2>2. PICK j \in DOMAIN s : j > i /\ s[j].op \in by
      BY <1>4, <2>1 DEF Followed
    <2>3. j > 1 /\ u[j] = s[j]
      BY <1>2, <1>3, <2>1, <2>2
    <2> QED
      BY <1>2, <2>2, <2>3
  <1>5. ASSUME NEW i \in DOMAIN u, u[i].op = "clear", i > 1 PROVE u[i - 1].op = "grid"
    <2>1. s[i].op = "clear" /\ i \in DOMAIN s /\ i \in Nat
      BY <1>2, <1>3, <1>5
    <2>2. s[i - 1].op = "grid"
      BY <1>5, <2>1 DEF Orderly
    <2>3. i - 1 # 1
      BY <1>3, <2>2 DEF Replaces
    <2>4. i - 1 \in DOMAIN s /\ i - 1 > 1
      BY <1>3, <1>5, <2>1, <2>3
    <2> QED
      BY <1>2, <2>2, <2>4
  <1>6. ASSUME NEW i \in DOMAIN u, u[i].op \in Clamping, ~(t = "worker" /\ i = Len(u))
        PROVE  \E j \in DOMAIN u : j > i /\ u[j].op \in Drawing
    <2>1. i \in Nat \ {0} /\ i \in DOMAIN s
      BY <1>2, <1>3
    <2>2. s[i].op \in Clamping
      <3>1. CASE i = 1
        BY <1>2, <1>3, <1>6, <3>1 DEF Replaces, Clamping, Drawing
      <3>2. CASE i # 1
        BY <1>2, <1>6, <2>1, <3>2
      <3> QED
        BY <3>1, <3>2
    <2>3. PICK j \in DOMAIN s : j > i /\ s[j].op \in Drawing
      BY <1>2, <1>6, <2>1, <2>2 DEF Orderly
    <2>4. u[j] = s[j]
      BY <1>2, <1>3, <2>1, <2>3
    <2> QED
      BY <1>2, <2>3, <2>4
  <1>7. /\ d.op \in {"rate", "span", "full"} => Head(s).op \in {"rate", "span", "full"}
        /\ d.op \in {"span", "full", "again"} => Head(s).op \in {"span", "full", "again"}
    BY DEF Replaces, Drawing, Clamping
  <1>8. Followed(u, {"rate", "span", "full"}, {"again"}) /\ Followed(u, {"span", "full", "again"}, Drawing)
    BY <1>4, <1>7 DEF Orderly
  <1> QED
    BY <1>1, <1>5, <1>6, <1>8 DEF Orderly

\* A clamp that is due stays due unless it is what the step does.
LEMMA DueTail ==
    ASSUME NEW s \in Seq(Command), s # <<>>, Head(s).op \notin Clamping, Due(s)
    PROVE  Due(Tail(s))
  <1>1. PICK i \in DOMAIN s : s[i].op \in Clamping /\ i < Len(s)
    BY DEF Due
  <1>2. i # 1 /\ i \in Nat
    BY <1>1, Rest
  <1>3. i - 1 \in DOMAIN Tail(s) /\ Tail(s)[i - 1] = s[i] /\ i - 1 < Len(Tail(s))
    BY <1>1, <1>2, Rest
  <1> QED
    BY <1>1, <1>3 DEF Due

LEMMA DueFront ==
    ASSUME NEW s \in Seq(Command), s # <<>>, NEW d \in Command, Due(s),
           Head(s).op \in Clamping => d.op \in Clamping
    PROVE  Due(<<d>> \o Tail(s))
  <1>1. PICK u : u = <<d>> \o Tail(s)
    OBVIOUS
  <1>2. u[1] = d /\ DOMAIN u = DOMAIN s /\ Len(u) = Len(s) /\ \A i \in DOMAIN s : i > 1 => u[i] = s[i]
    BY <1>1, Front
  <1>3. 1 \in DOMAIN s /\ DOMAIN s \subseteq Nat \ {0} /\ Head(s) = s[1]
    BY Rest
  <1>4. PICK i \in DOMAIN s : s[i].op \in Clamping /\ i < Len(s)
    BY DEF Due
  <1>5. u[i].op \in Clamping
    BY <1>2, <1>3, <1>4
  <1> QED
    BY <1>1, <1>2, <1>4, <1>5 DEF Due

\* A change of the rate or the span makes a clamp due.
LEMMA AgainDue ==
    ASSUME NEW t, NEW s \in Seq(Command), Orderly(t, s), Has(s, {"again"})
    PROVE  Due(s)
  <1>1. PICK i \in DOMAIN s : s[i].op = "again"
    BY DEF Has
  <1>2. PICK j \in DOMAIN s : j > i /\ s[j].op \in Drawing
    BY <1>1 DEF Orderly, Followed
  <1>3. i < Len(s) /\ s[i].op \in Clamping
    BY <1>1, <1>2 DEF Clamping
  <1> QED
    BY <1>3 DEF Due

LEMMA HasTail ==
    ASSUME NEW s \in Seq(Command), s # <<>>, NEW ops, Head(s).op \notin ops, Has(s, ops)
    PROVE  Has(Tail(s), ops)
  <1>1. PICK i \in DOMAIN s : s[i].op \in ops
    BY DEF Has
  <1>2. i # 1
    BY <1>1, Rest
  <1>3. i - 1 \in DOMAIN Tail(s) /\ Tail(s)[i - 1] = s[i]
    BY <1>2, Rest
  <1> QED
    BY <1>1, <1>3 DEF Has

LEMMA FollowedHas ==
    ASSUME NEW s \in Seq(Command), s # <<>>, NEW ops, NEW by,
           Followed(s, ops, by), Head(s).op \in ops
    PROVE  Has(Tail(s), by)
  <1>1. 1 \in DOMAIN s /\ s[1].op \in ops
    BY Rest
  <1>2. PICK j \in DOMAIN s : j > 1 /\ s[j].op \in by
    BY <1>1 DEF Followed
  <1>3. j - 1 \in DOMAIN Tail(s) /\ Tail(s)[j - 1] = s[j]
    BY <1>2, Rest
  <1> QED
    BY <1>2, <1>3 DEF Has

LEMMA EmptyOrderly == \A t : Orderly(t, <<>>)
  BY DEF Orderly, Followed

LEMMA EmptyDue == ~Due(<<>>)
  BY DEF Due

LEMMA ShortOrderly ==
    ASSUME NEW d \in Command, NEW t, d.op \in Drawing
    PROVE  Orderly(t, <<d>>) /\ Has(<<d>>, Drawing) /\ <<d>>[1].op # "clear"
  BY DEF Orderly, Followed, Has, Drawing, Clamping

\* What the scripts of the setters do, by index.
LEMMA Setters ==
    ASSUME NEW f \in Int, NEW r \in Nat \ {0}
    PROVE  /\ setFftCenterFreq(f) \in Seq(Command) /\ Len(setFftCenterFreq(f)) = 1
           /\ setFftCenterFreq(f)[1].op = "clamp"
           /\ setSampleRate(r) \in Seq(Command) /\ Len(setSampleRate(r)) = 2
           /\ setSampleRate(r)[1].op = "rate" /\ setSampleRate(r)[2].op = "grid"
           /\ setSpanFreq(r) \in Seq(Command) /\ Len(setSpanFreq(r)) = 3
           /\ setSpanFreq(r)[1].op = "span" /\ setSpanFreq(r)[2].op = "again"
           /\ setSpanFreq(r)[3].op = "grid"
  <1>1. /\ setFftCenterFreq(f) \in Seq(Command) /\ setSampleRate(r) \in Seq(Command)
        /\ setSpanFreq(r) \in Seq(Command)
    BY Scripts
  <1>2. Len(setFftCenterFreq(f)) = 1 /\ setFftCenterFreq(f)[1].op = "clamp"
    BY DEF setFftCenterFreq, Do
  <1>3. /\ Len(setSampleRate(r)) = 2
        /\ setSampleRate(r)[1].op = "rate" /\ setSampleRate(r)[2].op = "grid"
    BY DEF setSampleRate, Do
  <1>4. /\ Len(setSpanFreq(r)) = 3
        /\ setSpanFreq(r)[1].op = "span" /\ setSpanFreq(r)[2].op = "again"
        /\ setSpanFreq(r)[3].op = "grid"
    BY DEF setSpanFreq, Do
  <1> QED
    BY <1>1, <1>2, <1>3, <1>4

LEMMA UpdateScript ==
    <<Do("update", 0)>> \in Seq(Command) /\ Len(<<Do("update", 0)>>) = 1
    /\ <<Do("update", 0)>>[1].op = "update"
  <1>1. Do("update", 0) \in Command
    BY Scripts DEF Op, Clamping
  <1> QED
    BY <1>1 DEF Do

LEMMA Concat ==
    ASSUME NEW a \in Seq(Command), NEW b \in Seq(Command)
    PROVE  /\ a \o b \in Seq(Command) /\ Len(a \o b) = Len(a) + Len(b)
           /\ \A i \in 1 .. Len(a) : (a \o b)[i] = a[i]
           /\ \A i \in 1 .. Len(b) : (a \o b)[Len(a) + i] = b[i]
  <1>1. /\ a \o b \in Seq(Command) /\ Len(a \o b) = Len(a) + Len(b)
        /\ \A i \in 1 .. Len(a) + Len(b) :
              (a \o b)[i] = IF i <= Len(a) THEN a[i] ELSE b[i - Len(a)]
    BY ConcatProperties
  <1>2. ASSUME NEW i \in 1 .. Len(a) PROVE (a \o b)[i] = a[i]
    <2>1. i \in 1 .. Len(a) + Len(b) /\ i <= Len(a)
      OBVIOUS
    <2> QED
      BY <1>1, <2>1
  <1>3. ASSUME NEW i \in 1 .. Len(b) PROVE (a \o b)[Len(a) + i] = b[i]
    <2>1. Len(a) + i \in 1 .. Len(a) + Len(b) /\ ~(Len(a) + i <= Len(a)) /\ (Len(a) + i) - Len(a) = i
      OBVIOUS
    <2>2. (a \o b)[Len(a) + i] = b[(Len(a) + i) - Len(a)]
      BY <1>1, <2>1
    <2> QED
      BY <2>1, <2>2
  <1> QED
    BY <1>1, <1>2, <1>3

\* A drag.
LEMMA DragOrderly ==
    ASSUME NEW t, NEW f \in Int
    PROVE  LET s == setFftCenterFreq(f) \o <<Do("update", 0)>> IN
           s \in Seq(Command) /\ Orderly(t, s) /\ s[1].op = "clamp"
  <1>1. PICK s : s = setFftCenterFreq(f) \o <<Do("update", 0)>>
    OBVIOUS
  <1>2. PICK a : a = setFftCenterFreq(f)
    OBVIOUS
  <1>3. PICK b : b = <<Do("update", 0)>>
    OBVIOUS
  <1>4. a \in Seq(Command) /\ Len(a) = 1 /\ a[1].op = "clamp"
    BY <1>2, Setters
  <1>5. b \in Seq(Command) /\ Len(b) = 1 /\ b[1].op = "update"
    BY <1>3, UpdateScript
  <1>6. s = a \o b
    BY <1>1, <1>2, <1>3
  <1>7. s \in Seq(Command) /\ Len(s) = 2 /\ s[1] = a[1] /\ s[2] = b[1]
    BY <1>4, <1>5, <1>6, ConcatProperties
  <1>8. DOMAIN s = {1, 2}
    BY <1>7
  <1>9. Orderly(t, s)
    BY <1>4, <1>5, <1>7, <1>8 DEF Orderly, Followed, Drawing, Clamping
  <1> QED
    BY <1>1, <1>4, <1>7, <1>9

\* resetHorizontalZoom, and zoomStepX.
LEMMA ZoomOrderly ==
    ASSUME NEW t, NEW f \in Int, NEW b \in Seq(Command), Len(b) = 3,
           b[1].op \in {"span", "full"}, b[2].op = "again", b[3].op = "grid"
    PROVE  LET s == setFftCenterFreq(f) \o b
               z == s \o <<Do("update", 0)>>
           IN /\ s \in Seq(Command) /\ Orderly(t, s) /\ s[1].op = "clamp"
              /\ z \in Seq(Command) /\ Orderly(t, z) /\ z[1].op = "clamp"
  <1>1. PICK s : s = setFftCenterFreq(f) \o b
    OBVIOUS
  <1>2. PICK z : z = s \o <<Do("update", 0)>>
    OBVIOUS
  <1>3. PICK a : a = setFftCenterFreq(f)
    OBVIOUS
  <1>4. PICK c : c = <<Do("update", 0)>>
    OBVIOUS
  <1>5. a \in Seq(Command) /\ Len(a) = 1 /\ a[1].op = "clamp"
    BY <1>3, Setters
  <1>6. c \in Seq(Command) /\ Len(c) = 1 /\ c[1].op = "update"
    BY <1>4, UpdateScript
  <1>7. s = a \o b /\ z = s \o c
    BY <1>1, <1>2, <1>3, <1>4
  <1>8. /\ s \in Seq(Command) /\ Len(s) = 4
        /\ s[1].op = "clamp" /\ s[2].op \in {"span", "full"} /\ s[3].op = "again" /\ s[4].op = "grid"
    <2>1. /\ s \in Seq(Command) /\ Len(s) = Len(a) + Len(b)
          /\ \A i \in 1 .. Len(a) : s[i] = a[i]
          /\ \A i \in 1 .. Len(b) : s[Len(a) + i] = b[i]
      BY <1>5, <1>7, Concat
    <2>2. s[1] = a[1] /\ s[2] = b[1] /\ s[3] = b[2] /\ s[4] = b[3]
      BY <1>5, <2>1
    <2> QED
      BY <1>5, <2>1, <2>2
  <1>9. /\ z \in Seq(Command) /\ Len(z) = 5 /\ z[5].op = "update"
        /\ z[1].op = "clamp" /\ z[2].op \in {"span", "full"} /\ z[3].op = "again" /\ z[4].op = "grid"
    <2>1. /\ z \in Seq(Command) /\ Len(z) = Len(s) + Len(c)
          /\ \A i \in 1 .. Len(s) : z[i] = s[i]
          /\ \A i \in 1 .. Len(c) : z[Len(s) + i] = c[i]
      <3>1. s \in Seq(Command) /\ c \in Seq(Command) /\ z = s \o c
        BY <1>6, <1>7, <1>8
      <3> QED
        BY <3>1, Concat
    <2>2. z[1] = s[1] /\ z[2] = s[2] /\ z[3] = s[3] /\ z[4] = s[4]
      BY <1>8, <2>1
    <2>3. z[5] = c[1]
      <3>1. Len(s) = 4 /\ 1 \in 1 .. Len(c) /\ z[Len(s) + 1] = c[1]
        BY <1>6, <1>8, <2>1
      <3> QED
        BY <3>1
    <2> QED
      BY <1>6, <1>8, <2>1, <2>2, <2>3
  <1>10. DOMAIN s = {1, 2, 3, 4} /\ DOMAIN z = {1, 2, 3, 4, 5}
    BY <1>8, <1>9
  <1>11. Orderly(t, s)
    BY <1>8, <1>10 DEF Orderly, Followed, Drawing, Clamping
  <1>12. Orderly(t, z)
    BY <1>9, <1>10 DEF Orderly, Followed, Drawing, Clamping
  <1> QED
    BY <1>1, <1>2, <1>8, <1>9, <1>11, <1>12

\* onCallConfirmed's calls of the setters, by the worker.
LEMMA ConfirmedOrderly ==
    ASSUME NEW r \in Nat \ {0}, NEW f \in Int
    PROVE  Orderly("worker", setSampleRate(r) \o setSpanFreq(r)
                             \o <<Do("retune", f)>> \o setFftCenterFreq(0))
  <1>1. PICK a : a = setSampleRate(r)
    OBVIOUS
  <1>2. PICK b : b = setSpanFreq(r)
    OBVIOUS
  <1>3. PICK c : c = <<Do("retune", f)>>
    OBVIOUS
  <1>4. PICK d : d = setFftCenterFreq(0)
    OBVIOUS
  <1>5. a \in Seq(Command) /\ Len(a) = 2 /\ a[1].op = "rate" /\ a[2].op = "grid"
    BY <1>1, Setters
  <1>6. b \in Seq(Command) /\ Len(b) = 3
        /\ b[1].op = "span" /\ b[2].op = "again" /\ b[3].op = "grid"
    BY <1>2, Setters
  <1>7. c \in Seq(Command) /\ Len(c) = 1 /\ c[1].op = "retune"
    <2>1. Do("retune", f) \in Command
      BY Scripts DEF Op, Clamping
    <2> QED
      BY <1>3, <2>1 DEF Do
  <1>8. d \in Seq(Command) /\ Len(d) = 1 /\ d[1].op = "clamp"
    BY <1>4, Setters
  <1>9. PICK u : u = a \o b
    OBVIOUS
  <1>10. /\ u \in Seq(Command) /\ Len(u) = Len(a) + Len(b)
         /\ \A i \in 1 .. Len(a) : u[i] = a[i]
         /\ \A i \in 1 .. Len(b) : u[Len(a) + i] = b[i]
    BY <1>5, <1>6, <1>9, Concat
  <1>11. PICK v : v = u \o c
    OBVIOUS
  <1>12. /\ v \in Seq(Command) /\ Len(v) = Len(u) + Len(c)
         /\ \A i \in 1 .. Len(u) : v[i] = u[i]
         /\ \A i \in 1 .. Len(c) : v[Len(u) + i] = c[i]
    BY <1>7, <1>10, <1>11, Concat
  <1>13. PICK w : w = v \o d
    OBVIOUS
  <1>14. /\ w \in Seq(Command) /\ Len(w) = Len(v) + Len(d)
         /\ \A i \in 1 .. Len(v) : w[i] = v[i]
         /\ \A i \in 1 .. Len(d) : w[Len(v) + i] = d[i]
    BY <1>8, <1>12, <1>13, Concat
  <1>15. Len(u) = 5 /\ Len(v) = 6 /\ Len(w) = 7
    BY <1>5, <1>6, <1>7, <1>8, <1>10, <1>12, <1>14
  <1>16. /\ w[1] = a[1] /\ w[2] = a[2] /\ w[3] = b[1] /\ w[4] = b[2] /\ w[5] = b[3]
         /\ w[6] = c[1] /\ w[7] = d[1]
    <2>1. u[1] = a[1] /\ u[2] = a[2] /\ u[3] = b[1] /\ u[4] = b[2] /\ u[5] = b[3]
      BY <1>5, <1>6, <1>10
    <2>2. v[1] = u[1] /\ v[2] = u[2] /\ v[3] = u[3] /\ v[4] = u[4] /\ v[5] = u[5] /\ v[6] = c[1]
      BY <1>7, <1>12, <1>15
    <2>3. /\ w[1] = v[1] /\ w[2] = v[2] /\ w[3] = v[3] /\ w[4] = v[4] /\ w[5] = v[5]
          /\ w[6] = v[6] /\ w[7] = d[1]
      BY <1>8, <1>14, <1>15
    <2> QED
      BY <2>1, <2>2, <2>3
  <1>17. DOMAIN w = {1, 2, 3, 4, 5, 6, 7}
    <2>1. w \in Seq(Command)
      BY <1>14
    <2>2. DOMAIN w = 1 .. 7
      BY <1>15, <2>1
    <2>3. 1 .. 7 = {1, 2, 3, 4, 5, 6, 7}
      OBVIOUS
    <2> QED
      BY <2>2, <2>3
  <1>18. /\ w[1].op = "rate" /\ w[2].op = "grid" /\ w[3].op = "span" /\ w[4].op = "again"
         /\ w[5].op = "grid" /\ w[6].op = "retune" /\ w[7].op = "clamp"
    BY <1>5, <1>6, <1>7, <1>8, <1>16
  <1>19. Followed(w, {"rate", "span", "full"}, {"again"})
    <2>1. \A i \in DOMAIN w : w[i].op \in {"rate", "span", "full"} => 4 > i
      BY <1>17, <1>18
    <2> QED
      BY <1>17, <1>18, <2>1 DEF Followed
  <1>20. Followed(w, {"span", "full", "again"}, Drawing)
    <2>1. \A i \in DOMAIN w : w[i].op \in {"span", "full", "again"} => 5 > i
      BY <1>17, <1>18
    <2> QED
      BY <1>17, <1>18, <2>1 DEF Followed, Drawing
  <1>21. \A i \in DOMAIN w : w[i].op # "clear"
    BY <1>17, <1>18
  <1>22. ASSUME NEW i \in DOMAIN w, w[i].op \in Clamping, i # Len(w)
         PROVE  \E j \in DOMAIN w : j > i /\ w[j].op \in Drawing
    <2>1. i = 4
      BY <1>15, <1>17, <1>18, <1>22 DEF Clamping
    <2> QED
      BY <1>17, <1>18, <2>1 DEF Drawing
  <1>23. Orderly("worker", w)
    BY <1>19, <1>20, <1>21, <1>22 DEF Orderly
  <1> QED
    BY <1>1, <1>2, <1>3, <1>4, <1>9, <1>11, <1>13, <1>23

-----------------------------------------------------------------------------
(* ViewInv: a step, then the handlers that write scripts *)

\* A step that does the head of a script.
LEMMA DoneView ==
    ASSUME Types, ViewInv, NEW t \in Thread, ~Idle(t), Done(t)
    PROVE  /\ \A u \in Thread : Orderly(u, todo'[u])
           /\ \A ops : Pending(ops) /\ ~At(t, ops) => Pending(ops)'
           /\ At("window", {"clear"})' => At(t, {"grid"}) \/ (t # "window" /\ At("window", {"clear"}))
           /\ \A ops, by : Followed(todo[t], ops, by) /\ At(t, ops) => Has(todo'[t], by)
           /\ SomeDue /\ ~At(t, Clamping) => SomeDue'
  <1>1. PICK s : s = todo[t]
    OBVIOUS
  <1>2. s \in Seq(Command) /\ s # <<>> /\ Orderly(t, s) /\ DOMAIN todo = Thread
    BY <1>1 DEF Types, Idle, ViewInv
  <1>3. todo'[t] = Tail(s) /\ \A u \in Thread \ {t} : todo'[u] = todo[u]
    BY <1>1, <1>2 DEF Done
  <1>4. ASSUME NEW u \in Thread PROVE Orderly(u, todo'[u])
    <2>1. CASE u = t
      BY <1>2, <1>3, <2>1, TailOrderly
    <2>2. CASE u # t
      BY <1>3, <2>2 DEF ViewInv
    <2> QED
      BY <2>1, <2>2
  <1>5. ASSUME NEW ops, Pending(ops), ~At(t, ops) PROVE Pending(ops)'
    <2>1. PICK u \in Thread : Has(todo[u], ops)
      BY <1>5 DEF Pending
    <2>2. CASE u = t
      <3>1. Head(s).op \notin ops /\ Has(s, ops)
        BY <1>1, <1>2, <1>5, <2>1, <2>2 DEF At, Idle
      <3>2. Has(Tail(s), ops)
        BY <1>2, <3>1, HasTail
      <3> QED
        BY <1>3, <3>2 DEF Pending
    <2>3. CASE u # t
      BY <1>3, <2>1, <2>3 DEF Pending
    <2> QED
      BY <2>2, <2>3
  <1>6. ASSUME At("window", {"clear"})'
        PROVE  At(t, {"grid"}) \/ (t # "window" /\ At("window", {"clear"}))
    <2>1. CASE t # "window"
      BY <1>3, <1>6, <2>1 DEF At, Idle, Thread
    <2>2. CASE t = "window"
      <3>1. Tail(s) # <<>> /\ Head(Tail(s)).op = "clear"
        BY <1>3, <1>6, <2>2 DEF At, Idle
      <3>2. Tail(s) \in Seq(Command)
        BY <1>2, HeadTailProperties
      <3>3. 1 \in DOMAIN Tail(s) /\ Head(Tail(s)) = Tail(s)[1]
        BY <3>1, <3>2, Rest
      <3>4. 1 + 1 \in DOMAIN s /\ s[1 + 1].op = "clear"
        BY <1>2, <3>1, <3>3, Rest
      <3>5. s[1].op = "grid"
        BY <1>2, <3>4 DEF Orderly
      <3>6. Head(s).op = "grid"
        BY <1>2, <3>5, Rest
      <3> QED
        BY <1>1, <1>2, <3>6 DEF At, Idle
    <2> QED
      BY <2>1, <2>2
  <1>7. ASSUME NEW ops, NEW by, Followed(todo[t], ops, by), At(t, ops) PROVE Has(todo'[t], by)
    <2>1. Followed(s, ops, by) /\ Head(s).op \in ops
      BY <1>1, <1>7 DEF At
    <2>2. Has(Tail(s), by)
      BY <1>2, <2>1, FollowedHas
    <2> QED
      BY <1>3, <2>2
  <1>8. ASSUME SomeDue, ~At(t, Clamping) PROVE SomeDue'
    <2>1. PICK u \in Thread : Due(todo[u])
      BY <1>8 DEF SomeDue
    <2>2. CASE u = t
      <3>1. Head(s).op \notin Clamping /\ Due(s)
        BY <1>1, <1>2, <1>8, <2>1, <2>2 DEF At, Idle
      <3>2. Due(Tail(s))
        BY <1>2, <3>1, DueTail
      <3> QED
        BY <1>3, <3>2 DEF SomeDue
    <2>3. CASE u # t
      BY <1>3, <2>1, <2>3 DEF SomeDue
    <2> QED
      BY <2>2, <2>3
  <1> QED
    BY <1>4, <1>5, <1>6, <1>7, <1>8

\* A step that puts something in the place of the head.
LEMMA ThenView ==
    ASSUME Types, ViewInv, NEW t \in Thread, ~Idle(t),
           NEW d \in Command, Replaces(todo[t], d), Then(t, <<d>>)
    PROVE  /\ \A u \in Thread : Orderly(u, todo'[u])
           /\ d.op \in Drawing \/ (Pending(Drawing) /\ ~At(t, Drawing)) => Pending(Drawing)'
           /\ SomeDue /\ (At(t, Clamping) => d.op \in Clamping) => SomeDue'
           /\ At("window", {"clear"})' => t # "window" /\ At("window", {"clear"})
  <1>1. PICK s : s = todo[t]
    OBVIOUS
  <1>2. s \in Seq(Command) /\ s # <<>> /\ Orderly(t, s) /\ DOMAIN todo = Thread
    BY <1>1 DEF Types, Idle, ViewInv
  <1>3. PICK w : w = <<d>> \o Tail(s)
    OBVIOUS
  <1>4. todo'[t] = w /\ \A u \in Thread \ {t} : todo'[u] = todo[u]
    BY <1>1, <1>2, <1>3 DEF Then
  <1>5. Orderly(t, w)
    BY <1>1, <1>2, <1>3, FrontOrderly
  <1>6. ASSUME NEW u \in Thread PROVE Orderly(u, todo'[u])
    <2>1. CASE u = t
      BY <1>4, <1>5, <2>1
    <2>2. CASE u # t
      BY <1>4, <2>2 DEF ViewInv
    <2> QED
      BY <2>1, <2>2
  <1>7. w[1] = d /\ DOMAIN w = DOMAIN s /\ \A i \in DOMAIN s : i > 1 => w[i] = s[i]
    BY <1>2, <1>3, Front
  <1>8. Head(s) = s[1] /\ 1 \in DOMAIN s /\ DOMAIN s \subseteq Nat \ {0}
    BY <1>2, Rest
  <1>9. ASSUME d.op \in Drawing PROVE Pending(Drawing)'
    BY <1>4, <1>7, <1>8, <1>9 DEF Pending, Has
  <1>10. ASSUME Pending(Drawing), ~At(t, Drawing) PROVE Pending(Drawing)'
    <2>1. PICK u \in Thread : Has(todo[u], Drawing)
      BY <1>10 DEF Pending
    <2>2. CASE u = t
      <3>1. PICK i \in DOMAIN s : s[i].op \in Drawing
        BY <1>1, <2>1, <2>2 DEF Has
      <3>2. i # 1
        BY <1>1, <1>2, <1>8, <1>10, <3>1 DEF At, Idle
      <3>3. Has(w, Drawing)
        BY <1>7, <1>8, <3>1, <3>2 DEF Has
      <3> QED
        BY <1>4, <3>3 DEF Pending
    <2>3. CASE u # t
      BY <1>4, <2>1, <2>3 DEF Pending
    <2> QED
      BY <2>2, <2>3
  <1>11. ASSUME SomeDue, At(t, Clamping) => d.op \in Clamping PROVE SomeDue'
    <2>1. PICK u \in Thread : Due(todo[u])
      BY <1>11 DEF SomeDue
    <2>2. CASE u = t
      <3>1. Due(s) /\ (Head(s).op \in Clamping => d.op \in Clamping)
        BY <1>1, <1>2, <1>11, <2>1, <2>2 DEF At, Idle
      <3>2. Due(w)
        BY <1>2, <1>3, <3>1, DueFront
      <3> QED
        BY <1>4, <3>2 DEF SomeDue
    <2>3. CASE u # t
      BY <1>4, <2>1, <2>3 DEF SomeDue
    <2> QED
      BY <2>2, <2>3
  <1>12. ASSUME At("window", {"clear"})' PROVE t # "window" /\ At("window", {"clear"})
    <2>1. CASE t = "window"
      <3>1. Head(w) = d
        <4>1. w \in Seq(Command) /\ w # <<>>
          <5>1. <<d>> \in Seq(Command) /\ Tail(s) \in Seq(Command)
            BY <1>2, HeadTailProperties
          <5>2. w \in Seq(Command)
            BY <1>3, <5>1, ConcatProperties
          <5> QED
            BY <1>7, <1>8, <5>2
        <4> QED
          BY <1>7, <4>1, Rest
      <3> QED
        BY <1>4, <1>12, <2>1, <3>1 DEF At, Replaces
    <2>2. CASE t # "window"
      BY <1>4, <1>12, <2>2 DEF At, Idle, Thread
    <2> QED
      BY <2>1, <2>2
  <1> QED
    BY <1>6, <1>9, <1>10, <1>11, <1>12

LEMMA BoundIn ==
    ASSUME Types, NEW v \in Int
    PROVE  LET limit == Limit(m_SampleFreq, m_Span) IN Bound(-limit, v, limit) \in -limit .. limit
  <1>1. Limit(m_SampleFreq, m_Span) \in Nat
    BY DEF Types, Limit
  <1> QED
    BY <1>1 DEF Bound

LEMMA FitsKept ==
    ASSUME UNCHANGED <<grid, m_Span, m_FftCenter, m_CenterFreq>>
    PROVE  Fits' <=> Fits
  BY DEF Fits, Fit, StartFreq

LEMMA LimitsKept ==
    ASSUME UNCHANGED <<m_SampleFreq, m_Span, m_FftCenter>>
    PROVE  InLimits' <=> InLimits
  BY DEF InLimits

LEMMA StepView ==
    ASSUME Types, ViewInv, NEW t \in Thread, Step(t)
    PROVE  ViewInv'
  <1>1. todo[t] \in Seq(Command) /\ DOMAIN todo = Thread /\ Orderly(t, todo[t])
    BY DEF Types, ViewInv
  <1>2. ASSUME ~Idle(t)
        PROVE  Val(t) \in Int /\ Head(todo[t]) \in Command /\ Head(todo[t]) = todo[t][1]
               /\ 1 \in DOMAIN todo[t]
    BY <1>1, <1>2, HeadTailProperties, Rest DEF Val, Idle, Command
  <1>3. /\ Followed(todo[t], {"rate", "span", "full"}, {"again"})
        /\ Followed(todo[t], {"span", "full", "again"}, Drawing)
    BY <1>1 DEF Orderly
  <1>4. ASSUME ~Idle(t), Done(t), At(t, {"rate", "span", "full"}) PROVE SomeDue'
    <2>1. Has(todo'[t], {"again"}) /\ Orderly(t, todo'[t])
      BY <1>3, <1>4, DoneView
    <2>2. todo'[t] \in Seq(Command)
      BY <1>1, <1>4, HeadTailProperties DEF Done, Idle
    <2> QED
      BY <2>1, <2>2, AgainDue DEF SomeDue
  <1>5. ASSUME ~Idle(t), Done(t), At(t, {"span", "full", "again"}) PROVE Pending(Drawing)'
    BY <1>3, <1>5, DoneView DEF Pending
  <1>6. CASE WriteRate(t)
    <2>1. /\ ~Idle(t) /\ Done(t) /\ At(t, {"rate", "span", "full"})
          /\ ~At(t, Drawing) /\ ~At(t, {"grid"})
          /\ UNCHANGED <<m_Span, m_FftCenter, m_CenterFreq, grid, lost, m_DrawOverlay>>
      BY <1>6 DEF WriteRate, At, Drawing, overlay
    <2>2. SomeDue'
      BY <1>4, <2>1
    <2>3. \A u \in Thread : Orderly(u, todo'[u])
      BY <2>1, DoneView
    <2>4. At("window", {"clear"})' => At("window", {"clear"})
      BY <2>1, DoneView
    <2>5. Pending(Drawing) => Pending(Drawing)'
      BY <2>1, DoneView
    <2>6. Covered => Covered'
      BY <2>1, <2>5, FitsKept DEF Covered
    <2> QED
      BY <2>1, <2>2, <2>3, <2>4, <2>6 DEF ViewInv
  <1>7. CASE WriteSpan(t)
    <2>1. /\ ~Idle(t) /\ Done(t) /\ At(t, {"rate", "span", "full"})
          /\ At(t, {"span", "full", "again"})
      BY <1>7 DEF WriteSpan, At
    <2>2. SomeDue' /\ Pending(Drawing)'
      BY <1>4, <1>5, <2>1
    <2>3. \A u \in Thread : Orderly(u, todo'[u])
      BY <2>1, DoneView
    <2> QED
      BY <2>2, <2>3 DEF ViewInv, Covered
  <1>8. CASE ReadArgument(t) \/ ReadRate(t) \/ ReadSpan(t)
    <2>1. ~Idle(t) /\ ~At(t, Drawing) /\ ~At(t, {"grid"}) /\ UNCHANGED <<view, overlay>>
      BY <1>8 DEF ReadArgument, ReadRate, ReadSpan, At, Drawing
    <2>2. PICK d \in Command :
             /\ Then(t, <<d>>)
             /\ \/ At(t, {"full"}) /\ d.op = "span"
                \/ At(t, Clamping) /\ d.op \in Clamping \ {"again"}
      BY <1>8, ReadThen
    <2>3. Replaces(todo[t], d)
      BY <2>1, <2>2 DEF Replaces, At, Clamping
    <2>4. At(t, Clamping) => d.op \in Clamping
      BY <2>2 DEF At, Clamping
    <2>5. /\ \A u \in Thread : Orderly(u, todo'[u])
          /\ (Pending(Drawing) => Pending(Drawing)') /\ (SomeDue => SomeDue')
          /\ (At("window", {"clear"})' => At("window", {"clear"}))
      BY <2>1, <2>2, <2>3, <2>4, ThenView
    <2>6. (Covered => Covered') /\ (InLimits' <=> InLimits)
      BY <2>1, <2>5, FitsKept, LimitsKept DEF Covered, view, overlay
    <2> QED
      BY <2>1, <2>5, <2>6 DEF ViewInv, overlay
  <1>9. CASE WriteCenter(t)
    <2> DEFINE limit == Limit(m_SampleFreq, m_Span)
    <2>1. ~Idle(t) /\ Done(t) /\ ~At(t, {"grid"}) /\ UNCHANGED <<m_SampleFreq, m_Span>>
      BY <1>9 DEF WriteCenter, At
    <2>2. ~stale' => InLimits'
      <3>1. ~stale' => m_FftCenter' = Bound(-limit, Val(t), limit)
        BY <1>9 DEF WriteCenter
      <3>2. Bound(-limit, Val(t), limit) \in -limit .. limit
        BY <1>2, <2>1, BoundIn
      <3> QED
        BY <2>1, <3>1, <3>2 DEF InLimits
    <2>3. \A u \in Thread : Orderly(u, todo'[u])
      BY <2>1, DoneView
    <2>4. Covered'
      <3>1. CASE t = "worker" /\ Len(todo[t]) = 1
        BY <1>9, <3>1 DEF WriteCenter, Covered
      <3>2. CASE ~(t = "worker" /\ Len(todo[t]) = 1)
        <4>1. todo[t][1].op \in Clamping
          BY <1>2, <1>9, <2>1 DEF WriteCenter, At, Clamping
        <4>2. PICK j \in DOMAIN todo[t] : j > 1 /\ todo[t][j].op \in Drawing
          BY <1>1, <1>2, <2>1, <3>2, <4>1 DEF Orderly
        <4>3. j - 1 \in DOMAIN Tail(todo[t]) /\ Tail(todo[t])[j - 1] = todo[t][j]
          BY <1>1, <2>1, <4>2, Rest DEF Idle
        <4>4. todo'[t] = Tail(todo[t])
          BY <1>1, <2>1 DEF Done
        <4> QED
          BY <4>2, <4>3, <4>4 DEF Covered, Pending, Has
      <3> QED
        BY <3>1, <3>2
    <2> QED
      BY <2>2, <2>3, <2>4 DEF ViewInv
  <1>10. CASE Retune(t)
    <2>1. /\ ~Idle(t) /\ ~At(t, {"grid"}) /\ ~At(t, Drawing) /\ ~At(t, Clamping)
          /\ UNCHANGED <<m_SampleFreq, m_Span, m_FftCenter, grid, lost, stale, m_DrawOverlay>>
      BY <1>10 DEF Retune, At, Drawing, Clamping, overlay
    <2>2. InLimits' <=> InLimits
      BY <2>1, LimitsKept
    <2>3. CASE Val(t) = m_CenterFreq
      <3>1. Done(t) /\ UNCHANGED m_CenterFreq
        BY <1>10, <2>3 DEF Retune
      <3>2. \A u \in Thread : Orderly(u, todo'[u])
        BY <2>1, <3>1, DoneView
      <3>3. At("window", {"clear"})' => At("window", {"clear"})
        BY <2>1, <3>1, DoneView
      <3>4. (Pending(Drawing) => Pending(Drawing)') /\ (SomeDue => SomeDue')
        BY <2>1, <3>1, DoneView
      <3>5. Covered => Covered'
        BY <2>1, <3>1, <3>4, FitsKept DEF Covered
      <3> QED
        BY <2>1, <2>2, <3>2, <3>3, <3>4, <3>5 DEF ViewInv
    <2>4. CASE Val(t) # m_CenterFreq
      <3>1. PICK d : d = Do("update", 0)
        OBVIOUS
      <3>2. d \in Command /\ d.op = "update" /\ d.op \in Drawing
        BY <3>1, Scripts DEF Op, Clamping, Drawing, Do
      <3>3. Then(t, <<d>>)
        BY <1>10, <2>4, <3>1 DEF Retune
      <3>4. Replaces(todo[t], d)
        BY <2>1, <3>2 DEF Replaces, At
      <3>5. /\ \A u \in Thread : Orderly(u, todo'[u])
            /\ Pending(Drawing)' /\ (SomeDue => SomeDue')
        BY <2>1, <3>2, <3>3, <3>4, ThenView
      <3> QED
        BY <2>1, <2>2, <3>5 DEF ViewInv, Covered
    <2> QED
      BY <2>3, <2>4
  <1>11. CASE UpdateOverlay(t)
    <2>1. /\ ~Idle(t) /\ ~At(t, {"grid"}) /\ ~At(t, Clamping)
          /\ UNCHANGED <<m_SampleFreq, m_Span, m_FftCenter, stale>>
      BY <1>11 DEF UpdateOverlay, At, Clamping, view
    <2>2. InLimits' <=> InLimits
      BY <2>1, LimitsKept
    <2>3. CASE m_Running
      <3>1. Done(t) /\ m_DrawOverlay'
        BY <1>11, <2>3 DEF UpdateOverlay
      <3>2. \A u \in Thread : Orderly(u, todo'[u])
        BY <2>1, <3>1, DoneView
      <3>3. SomeDue => SomeDue'
        BY <2>1, <3>1, DoneView
      <3>4. At("window", {"clear"})' => t = "worker" /\ At("window", {"clear"})
        BY <2>1, <3>1, DoneView DEF Thread
      <3>5. At("window", {"clear"})' => lost'
        BY <1>11, <3>4 DEF UpdateOverlay
      <3> QED
        BY <2>1, <2>2, <3>1, <3>2, <3>3, <3>5 DEF ViewInv, Covered
    <2>4. CASE ~m_Running
      <3>1. PICK d : d = Do("grid", 0)
        OBVIOUS
      <3>2. d \in Command /\ d.op = "grid" /\ d.op \in Drawing
        BY <3>1, Scripts DEF Op, Clamping, Drawing, Do
      <3>3. Then(t, <<d>>)
        BY <1>11, <2>4, <3>1 DEF UpdateOverlay
      <3>4. Replaces(todo[t], d)
        BY <2>1, <3>2 DEF Replaces, At
      <3>5. /\ \A u \in Thread : Orderly(u, todo'[u])
            /\ Pending(Drawing)' /\ (SomeDue => SomeDue')
        BY <2>1, <3>2, <3>3, <3>4, ThenView
      <3> QED
        BY <2>1, <2>2, <3>5 DEF ViewInv, Covered
    <2> QED
      BY <2>3, <2>4
  <1>12. CASE DrawOverlay(t)
    <2>1. /\ ~Idle(t) /\ Done(t) /\ ~At(t, Clamping)
          /\ UNCHANGED <<m_SampleFreq, m_Span, m_FftCenter, m_CenterFreq, m_DrawOverlay, stale>>
      BY <1>12 DEF DrawOverlay, At, Clamping, view
    <2>2. InLimits' <=> InLimits
      BY <2>1, LimitsKept
    <2>3. \A u \in Thread : Orderly(u, todo'[u])
      BY <2>1, DoneView
    <2>4. SomeDue => SomeDue'
      BY <2>1, DoneView
    <2>5. Fits'
      <3>1. PICK wanted \in Wanted : grid' = calcDivSize(StartFreq, m_Span, wanted)
        BY <1>12 DEF DrawOverlay
      <3>2. PICK g : g = grid'
        OBVIOUS
      <3>3. Fit(g)
        BY <3>1, <3>2, DivSizeFits
      <3>4. StartFreq' = StartFreq /\ m_Span' = m_Span
        BY <2>1 DEF StartFreq
      <3> QED
        BY <3>2, <3>3, <3>4 DEF Fits, Fit
    <2> QED
      BY <2>1, <2>2, <2>3, <2>4, <2>5 DEF ViewInv, Covered
  <1> QED
    BY <1>6, <1>7, <1>8, <1>9, <1>10, <1>11, <1>12 DEF Step

\* A handler of the window begins, and the draw() it may wait for.
LEMMA HandleView ==
    ASSUME Types, ViewInv, NEW s \in Seq(Command), Orderly("window", s),
           s = <<>> \/ s[1].op # "clear", Handle(s),
           UNCHANGED <<m_SampleFreq, m_Span, m_FftCenter, grid, m_DrawOverlay, lost, stale>>,
           UNCHANGED m_CenterFreq \/ Has(s, Drawing)
    PROVE  ViewInv'
  <1>1. todo["window"] = <<>> /\ todo'["window"] = s /\ DOMAIN todo = Thread
        /\ \A u \in Thread : u # "window" => todo'[u] = todo[u]
    BY DEF Handle, Idle, Types, Thread
  <1>2. \A u \in Thread : Orderly(u, todo'[u])
    BY <1>1 DEF ViewInv
  <1>3. ASSUME NEW ops, Pending(ops) PROVE Pending(ops)'
    <2>1. PICK u \in Thread : Has(todo[u], ops)
      BY <1>3 DEF Pending
    <2>2. u # "window"
      <3>1. ~Has(<<>>, ops)
        BY DEF Has
      <3> QED
        BY <1>1, <2>1, <3>1
    <2> QED
      BY <1>1, <2>1, <2>2 DEF Pending
  <1>4. InLimits' <=> InLimits
    BY LimitsKept
  <1>5. ~At("window", {"clear"})'
    <2>1. s # <<>> => Head(s) = s[1]
      BY Rest
    <2> QED
      BY <1>1, <2>1 DEF At, Idle
  <1>6. Covered => Covered'
    <2>1. CASE UNCHANGED m_CenterFreq
      BY <1>3, <2>1, FitsKept DEF Covered
    <2>2. CASE Has(s, Drawing)
      BY <1>1, <2>2 DEF Covered, Pending, Thread
    <2> QED
      BY <2>1, <2>2
  <1>7. ASSUME SomeDue PROVE SomeDue'
    <2>1. PICK u \in Thread : Due(todo[u])
      BY <1>7 DEF SomeDue
    <2>2. u # "window"
      BY <1>1, <2>1, EmptyDue
    <2> QED
      BY <1>1, <2>1, <2>2 DEF SomeDue
  <1> QED
    BY <1>2, <1>4, <1>5, <1>6, <1>7 DEF ViewInv

LEMMA MoveView ==
    ASSUME Types, ViewInv, NEW p \in Point, MouseMove(p)
    PROVE  ViewInv'
  <1>1. UNCHANGED <<m_SampleFreq, m_Span, m_FftCenter, grid, m_DrawOverlay, lost, stale>>
    BY DEF MouseMove, overlay
  <1>2. CASE ~Drags(Captured(p))
    <2>1. Handle(<<>>) /\ UNCHANGED m_CenterFreq /\ <<>> \in Seq(Command)
      BY <1>2 DEF MouseMove
    <2> QED
      BY <1>1, <2>1, EmptyOrderly, HandleView
  <1>3. CASE Drags(Captured(p)) /\ "mid" \in buttons
    <2>1. PICK d : d = Do("update", 0)
      OBVIOUS
    <2>2. d \in Command /\ d.op \in Drawing
      BY <2>1, Scripts DEF Op, Clamping, Drawing, Do
    <2>3. Handle(<<d>>) /\ <<d>> \in Seq(Command)
      BY <1>3, <2>1, <2>2 DEF MouseMove
    <2>4. Orderly("window", <<d>>) /\ Has(<<d>>, Drawing) /\ <<d>>[1].op # "clear"
      BY <2>2, ShortOrderly
    <2> QED
      BY <1>1, <2>3, <2>4, HandleView
  <1>4. CASE Drags(Captured(p)) /\ "mid" \notin buttons
    <2>1. m_FftCenter + Pan(p) \in Int
      <3>1. (m_Xzero - p.x) * m_Span \in Int
        BY PointAssumption DEF Types
      <3>2. Pan(p) \in Int
        BY <3>1, QuotInt, PointAssumption DEF Pan
      <3> QED
        BY <3>2 DEF Types
    <2>2. PICK s : s = setFftCenterFreq(m_FftCenter + Pan(p)) \o <<Do("update", 0)>>
      OBVIOUS
    <2>3. Handle(s) /\ UNCHANGED m_CenterFreq
      BY <1>4, <2>2 DEF MouseMove
    <2>4. s \in Seq(Command) /\ Orderly("window", s) /\ s[1].op # "clear"
      BY <2>1, <2>2, DragOrderly
    <2> QED
      BY <1>1, <2>3, <2>4, HandleView
  <1> QED
    BY <1>2, <1>3, <1>4

LEMMA ResetView ==
    ASSUME Types, ViewInv, Handle(resetHorizontalZoom),
           UNCHANGED <<m_SampleFreq, m_Span, m_FftCenter, m_CenterFreq, grid, m_DrawOverlay, lost, stale>>
    PROVE  ViewInv'
  <1>1. PICK f \in Int : f = 0
    OBVIOUS
  <1>2. PICK b : b = <<Do("full", 0), Do("again", 0), Do("grid", 0)>>
    OBVIOUS
  <1>3. b \in Seq(Command) /\ Len(b) = 3 /\ b[1].op = "full" /\ b[2].op = "again" /\ b[3].op = "grid"
    <2>1. Do("full", 0) \in Command /\ Do("again", 0) \in Command /\ Do("grid", 0) \in Command
      BY Scripts DEF Op, Clamping
    <2> QED
      BY <1>2, <2>1 DEF Do
  <1>4. PICK s : s = setFftCenterFreq(f) \o b
    OBVIOUS
  <1>5. s \in Seq(Command) /\ Orderly("window", s) /\ s[1].op # "clear"
    BY <1>3, <1>4, ZoomOrderly
  <1>6. Handle(s)
    BY <1>1, <1>2, <1>4 DEF resetHorizontalZoom
  <1> QED
    BY <1>5, <1>6, HandleView

LEMMA PressView ==
    ASSUME Types, ViewInv, NEW b \in Button, MousePress(b)
    PROVE  ViewInv'
  <1>1. UNCHANGED <<m_SampleFreq, m_Span, m_FftCenter, grid, m_DrawOverlay, lost, stale>>
    BY DEF MousePress, overlay
  <1>2. <<>> \in Seq(Command)
    OBVIOUS
  <1>3. CASE Handle(<<>>) /\ UNCHANGED m_CenterFreq
    BY <1>1, <1>2, <1>3, EmptyOrderly, HandleView
  <1>4. CASE Handle(resetHorizontalZoom) /\ UNCHANGED m_CenterFreq
    BY <1>1, <1>4, ResetView
  <1>5. CASE Handle(<<Do("grid", 0)>>)
    <2>1. PICK d : d = Do("grid", 0)
      OBVIOUS
    <2>2. d \in Command /\ d.op \in Drawing
      BY <2>1, Scripts DEF Op, Clamping, Drawing, Do
    <2>3. Handle(<<d>>) /\ <<d>> \in Seq(Command)
      BY <1>5, <2>1, <2>2
    <2>4. Orderly("window", <<d>>) /\ Has(<<d>>, Drawing) /\ <<d>>[1].op # "clear"
      BY <2>2, ShortOrderly
    <2> QED
      BY <1>1, <2>3, <2>4, HandleView
  <1>6. \/ Handle(<<>>) /\ UNCHANGED m_CenterFreq
        \/ Handle(resetHorizontalZoom) /\ UNCHANGED m_CenterFreq
        \/ Handle(<<Do("grid", 0)>>)
    <2>1. CASE m_CursorCaptured = "NOCAP"
      <3>1. PressFree(b)
        BY <2>1 DEF MousePress
      <3> QED
        BY <3>1 DEF PressFree
    <2>2. CASE m_CursorCaptured # "NOCAP"
      BY <2>2 DEF MousePress
    <2> QED
      BY <2>1, <2>2
  <1> QED
    BY <1>3, <1>4, <1>5, <1>6

LEMMA WheelView ==
    ASSUME Types, ViewInv, NEW step \in ZoomStep, Wheel(step)
    PROVE  ViewInv'
  <1> DEFINE range == Bound(MinRange, Quot(m_Span * step.num, step.den), m_SampleFreq * MaxFactor)
             f == (freqFromX(pointer.x) + Quot(range * (Width - 2 * pointer.x), 2 * Width)) - m_CenterFreq
  <1>1. zoomStepX(step, pointer.x) = setFftCenterFreq(f) \o setSpanFreq(range)
    BY DEF zoomStepX
  <1>2. Handle(zoomStepX(step, pointer.x) \o <<Do("update", 0)>>)
    BY DEF Wheel
  <1>3. range \in Nat \ {0}
    <2>1. step.num \in Nat \ {0} /\ step.den \in Nat \ {0}
      BY ZoomAssumption
    <2>2. m_Span * step.num \in Int
      BY <2>1 DEF Types
    <2>3. Quot(m_Span * step.num, step.den) \in Int
      BY <2>1, <2>2, QuotInt
    <2>4. m_SampleFreq * MaxFactor \in Nat \ {0}
      BY ZoomAssumption DEF Types
    <2> QED
      BY <2>3, <2>4, ZoomAssumption DEF Bound
  <1>4. f \in Int
    <2>1. pointer.x \in Int
      BY PointAssumption DEF Types
    <2>2. range * (Width - 2 * pointer.x) \in Int /\ 2 * Width \in Nat \ {0}
      BY <1>3, <2>1, PointAssumption
    <2>3. Quot(range * (Width - 2 * pointer.x), 2 * Width) \in Int
      BY <2>2, QuotInt
    <2>4. freqFromX(pointer.x) \in Int /\ m_CenterFreq \in Int
      BY <2>1, FreqInt DEF Types
    <2> QED
      BY <2>3, <2>4
  <1> HIDE DEF range, f
  <1>5. PICK s : s = (setFftCenterFreq(f) \o setSpanFreq(range)) \o <<Do("update", 0)>>
    OBVIOUS
  <1>6. Handle(s)
    BY <1>1, <1>2, <1>5
  <1>7. s \in Seq(Command) /\ Orderly("window", s) /\ s[1].op # "clear"
    <2>1. PICK b : b = setSpanFreq(range)
      OBVIOUS
    <2>2. b \in Seq(Command) /\ Len(b) = 3 /\ b[1].op = "span" /\ b[2].op = "again" /\ b[3].op = "grid"
      BY <1>3, <2>1, Setters
    <2> QED
      BY <1>4, <1>5, <2>1, <2>2, ZoomOrderly
  <1>8. UNCHANGED <<m_SampleFreq, m_Span, m_FftCenter, m_CenterFreq, grid, m_DrawOverlay, lost, stale>>
    BY DEF Wheel, view, overlay
  <1> QED
    BY <1>6, <1>7, <1>8, HandleView

LEMMA DrawView ==
    ASSUME Types, ViewInv, Draw
    PROVE  ViewInv'
  <1>1. UNCHANGED <<m_SampleFreq, m_Span, m_FftCenter, m_CenterFreq, grid, m_DrawOverlay, lost, stale>>
    BY DEF Draw, view
  <1>2. CASE ~m_DrawOverlay
    <2>1. Handle(<<>>) /\ <<>> \in Seq(Command)
      BY <1>2 DEF Draw, Handle
    <2> QED
      BY <1>1, <2>1, EmptyOrderly, HandleView
  <1>3. CASE m_DrawOverlay
    <2>1. PICK s : s = <<Do("grid", 0), Do("clear", 0)>>
      OBVIOUS
    <2>2. Handle(s)
      BY <1>3, <2>1 DEF Draw, Handle
    <2>3. s \in Seq(Command) /\ Len(s) = 2 /\ s[1].op = "grid" /\ s[2].op = "clear"
      <3>1. Do("grid", 0) \in Command /\ Do("clear", 0) \in Command
        BY Scripts DEF Op, Clamping
      <3> QED
        BY <2>1, <3>1 DEF Do
    <2>4. DOMAIN s = {1, 2}
      BY <2>3
    <2>5. Orderly("window", s)
      BY <2>3, <2>4 DEF Orderly, Followed, Clamping
    <2> QED
      BY <1>1, <2>2, <2>3, <2>5, HandleView
  <1> QED
    BY <1>2, <1>3

LEMMA ClearView ==
    ASSUME Types, ViewInv, ClearFlag
    PROVE  ViewInv'
  <1>1. /\ At("window", {"clear"}) /\ Done("window") /\ "window" \in Thread
        /\ UNCHANGED <<m_SampleFreq, m_Span, m_FftCenter, m_CenterFreq, grid, lost, stale>>
    BY DEF ClearFlag, view, Thread
  <1>2. ~Idle("window") /\ ~At("window", Drawing) /\ ~At("window", Clamping) /\ ~At("window", {"grid"})
    BY <1>1 DEF At, Drawing, Clamping
  <1>3. \A u \in Thread : Orderly(u, todo'[u])
    BY <1>1, <1>2, DoneView
  <1>4. (Pending(Drawing) => Pending(Drawing)') /\ (SomeDue => SomeDue')
    BY <1>1, <1>2, DoneView
  <1>5. ~At("window", {"clear"})'
    BY <1>1, <1>2, DoneView
  <1>6. Covered'
    BY <1>1, <1>4, FitsKept DEF Covered, ViewInv
  <1>7. InLimits' <=> InLimits
    BY <1>1, LimitsKept
  <1> QED
    BY <1>1, <1>3, <1>4, <1>5, <1>6, <1>7 DEF ViewInv

LEMMA ConfirmedView ==
    ASSUME Types, ViewInv, NEW c \in Clock, Confirmed(c)
    PROVE  ViewInv'
  <1>1. c \div 2 \in Nat \ {0} /\ c \div 4 \in Int
    BY RateAssumption
  <1>2. PICK s : s = setSampleRate(c \div 2) \o setSpanFreq(c \div 2)
                     \o <<Do("retune", c \div 4)>> \o setFftCenterFreq(0)
    OBVIOUS
  <1>3. Orderly("worker", s)
    BY <1>1, <1>2, ConfirmedOrderly
  <1>4. /\ todo["worker"] = <<>> /\ todo' = [todo EXCEPT !["worker"] = s]
        /\ UNCHANGED <<m_SampleFreq, m_Span, m_FftCenter, m_CenterFreq, grid, m_DrawOverlay, lost, stale>>
    BY <1>2 DEF Confirmed, Idle, view, overlay
  <1>5. /\ todo'["worker"] = s /\ DOMAIN todo = Thread
        /\ \A u \in Thread : u # "worker" => todo'[u] = todo[u]
    BY <1>4 DEF Types, Thread
  <1>6. \A u \in Thread : Orderly(u, todo'[u])
    BY <1>3, <1>5 DEF ViewInv
  <1>7. ASSUME NEW ops, Pending(ops) PROVE Pending(ops)'
    <2>1. PICK u \in Thread : Has(todo[u], ops)
      BY <1>7 DEF Pending
    <2>2. u # "worker"
      <3>1. ~Has(<<>>, ops)
        BY DEF Has
      <3> QED
        BY <1>4, <2>1, <3>1
    <2> QED
      BY <1>5, <2>1, <2>2 DEF Pending
  <1>8. Covered => Covered'
    BY <1>4, <1>7, FitsKept DEF Covered
  <1>9. At("window", {"clear"})' => At("window", {"clear"})
    BY <1>5 DEF At, Idle, Thread
  <1>10. InLimits' <=> InLimits
    BY <1>4, LimitsKept
  <1>11. ASSUME SomeDue PROVE SomeDue'
    <2>1. PICK u \in Thread : Due(todo[u])
      BY <1>11 DEF SomeDue
    <2>2. u # "worker"
      BY <1>4, <2>1, EmptyDue
    <2> QED
      BY <1>5, <2>1, <2>2 DEF SomeDue
  <1> QED
    BY <1>4, <1>6, <1>8, <1>9, <1>10, <1>11 DEF ViewInv

LEMMA ViewInit == Init => ViewInv
  <1> SUFFICES ASSUME Init PROVE ViewInv
    OBVIOUS
  <1>1. \A u \in Thread : Orderly(u, todo[u])
    BY EmptyOrderly DEF Init
  <1>2. InLimits
    BY RateAssumption DEF Init, InLimits, Limit
  <1>3. m_DrawOverlay /\ ~At("window", {"clear"})
    BY DEF Init, At, Idle, Thread
  <1> QED
    BY <1>1, <1>2, <1>3 DEF ViewInv

LEMMA ViewStep ==
    ASSUME Types, ViewInv, [Next]_vars
    PROVE  ViewInv'
  <1>1. ASSUME NEW t \in Thread, Step(t) PROVE ViewInv'
    BY <1>1, StepView
  <1>2. CASE ClearFlag
    BY <1>2, ClearView
  <1>3. CASE Draw
    BY <1>3, DrawView
  <1>4. ASSUME NEW p \in Point, MouseMove(p) PROVE ViewInv'
    BY <1>4, MoveView
  <1>5. ASSUME NEW b \in Button, MousePress(b) PROVE ViewInv'
    BY <1>5, PressView
  <1>6. ASSUME NEW b \in Button, MouseRelease(b) PROVE ViewInv'
    <2>1. Handle(<<>>) /\ <<>> \in Seq(Command)
      BY <1>6 DEF MouseRelease
    <2>2. UNCHANGED <<m_SampleFreq, m_Span, m_FftCenter, m_CenterFreq, grid, m_DrawOverlay, lost, stale>>
      BY <1>6 DEF MouseRelease, view, overlay
    <2> QED
      BY <2>1, <2>2, EmptyOrderly, HandleView
  <1>7. ASSUME NEW s \in ZoomStep, Wheel(s) PROVE ViewInv'
    BY <1>7, WheelView
  <1>8. ASSUME NEW c \in Clock, Confirmed(c) PROVE ViewInv'
    BY <1>8, ConfirmedView
  <1>9. CASE UNCHANGED vars
    <2>1. UNCHANGED <<m_SampleFreq, m_Span, m_FftCenter, m_CenterFreq, grid, m_DrawOverlay, lost, stale, todo>>
      BY <1>9 DEF vars, view, overlay
    <2>2. Fits' <=> Fits
      BY <2>1, FitsKept
    <2>3. At("window", {"clear"})' <=> At("window", {"clear"})
      BY <2>1 DEF At, Idle
    <2>4. (Pending(Drawing)' <=> Pending(Drawing)) /\ (SomeDue' <=> SomeDue)
      BY <2>1 DEF Pending, SomeDue
    <2>5. InLimits' <=> InLimits
      BY <2>1, LimitsKept
    <2> QED
      BY <2>1, <2>2, <2>3, <2>4, <2>5 DEF ViewInv, Covered
  <1> QED
    BY <1>1, <1>2, <1>3, <1>4, <1>5, <1>6, <1>7, <1>8, <1>9 DEF Next, Mouse

-----------------------------------------------------------------------------
(* Arithmetic of the bins *)

\* A frequency less than half the rate off the centre has a bin.
LEMMA BinBelow ==
    ASSUME NEW f \in Int, NEW r \in Nat \ {0}, NEW h \in Nat \ {0}, 2 * f < r
    PROVE  Quot(f * (2 * h), r) < h
  <1>1. CASE f >= 0
    <2>1. PICK n : n = f * (2 * h)
      OBVIOUS
    <2>2. n \in Nat /\ n = (2 * f) * h
      BY <1>1, <2>1
    <2>3. PICK q : q = n \div r
      OBVIOUS
    <2>4. q \in Nat /\ q * r <= n
      BY <2>2, <2>3, Division
    <2>5. (2 * f) * h < r * h
      BY <1>1
    <2>6. ASSUME q >= h PROVE FALSE
      <3>1. h * r <= q * r
        BY <2>4, <2>6
      <3> QED
        BY <2>2, <2>4, <2>5, <3>1
    <2>7. Quot(n, r) = q
      BY <2>2, <2>3 DEF Quot
    <2> QED
      BY <2>1, <2>4, <2>6, <2>7
  <1>2. CASE f < 0
    <2>1. PICK n : n = f * (2 * h)
      OBVIOUS
    <2>2. n \in Int /\ n < 0
      BY <1>2, <2>1
    <2>3. PICK q : q = (-n) \div r
      OBVIOUS
    <2>4. q \in Nat
      BY <2>2, <2>3, Division
    <2>5. Quot(n, r) = -q
      BY <2>2, <2>3 DEF Quot
    <2> QED
      BY <2>1, <2>4, <2>5
  <1> QED
    BY <1>1, <1>2

LEMMA QuotNegative ==
    ASSUME NEW a \in Int, NEW b \in Nat \ {0}
    PROVE  Quot(-a, b) = -Quot(a, b)
  <1>1. CASE a > 0
    BY <1>1 DEF Quot
  <1>2. CASE a < 0
    BY <1>2 DEF Quot
  <1>3. CASE a = 0
    BY <1>3 DEF Quot
  <1> QED
    BY <1>1, <1>2, <1>3

LEMMA BinAbove ==
    ASSUME NEW f \in Int, NEW r \in Nat \ {0}, NEW h \in Nat \ {0}, -r < 2 * f
    PROVE  -h < Quot(f * (2 * h), r)
  <1>1. PICK g : g = -f
    OBVIOUS
  <1>2. g \in Int /\ 2 * g < r
    BY <1>1
  <1>3. Quot(g * (2 * h), r) < h
    BY <1>2, BinBelow
  <1>4. PICK n : n = f * (2 * h)
    OBVIOUS
  <1>5. n \in Int /\ g * (2 * h) = -n
    BY <1>1, <1>4
  <1>6. Quot(-n, r) = -Quot(n, r) /\ Quot(n, r) \in Int
    BY <1>5, QuotNegative, QuotInt
  <1> QED
    BY <1>3, <1>4, <1>5, <1>6

LEMMA ColumnInPlot ==
    ASSUME NEW a \in Nat, NEW d \in Nat \ {0}, NEW w \in Nat \ {0}, a < d
    PROVE  Quot(a * w, d) \in 0 .. w - 1
  <1>1. PICK n : n = a * w
    OBVIOUS
  <1>2. n \in Nat /\ n < d * w
    BY <1>1
  <1>3. PICK q : q = n \div d
    OBVIOUS
  <1>4. q \in Nat /\ q * d <= n
    BY <1>2, <1>3, Division
  <1>5. ASSUME q >= w PROVE FALSE
    <2>1. w * d <= q * d
      BY <1>4, <1>5
    <2> QED
      BY <1>2, <1>4, <2>1
  <1>6. Quot(n, d) = q
    BY <1>2, <1>3 DEF Quot
  <1> QED
    BY <1>1, <1>4, <1>5, <1>6

LEMMA CentreShowsBins ==
    ASSUME Types, InLimits
    PROVE  /\ Bins.minbin < Bins.maxbin
           /\ ColumnOf(Bins.minbin) \in 0 .. Width - 1
           /\ ColumnOf(Bins.maxbin - 1) \in 0 .. Width - 1
  <1>1. PICK h : h = FFTSize \div 2
    OBVIOUS
  <1>2. h \in Nat \ {0} /\ FFTSize = 2 * h
    BY <1>1, RateAssumption
  <1>3. PICK lo : lo = m_FftCenter - m_Span \div 2
    OBVIOUS
  <1>4. PICK hi : hi = m_FftCenter + m_Span \div 2
    OBVIOUS
  <1>5. lo \in Int /\ hi \in Int /\ 2 * lo < m_SampleFreq /\ -m_SampleFreq < 2 * hi
    BY <1>3, <1>4 DEF Types, InLimits, Limit
  <1>6. PICK first : first = BinOf(lo)
    OBVIOUS
  <1>7. PICK last : last = BinOf(hi)
    OBVIOUS
  <1>8. first \in Int /\ first < FFTSize
    <2>1. Quot(lo * (2 * h), m_SampleFreq) < h
      BY <1>2, <1>5, BinBelow DEF Types
    <2>2. lo * (2 * h) \in Int
      BY <1>2, <1>5
    <2>3. Quot(lo * (2 * h), m_SampleFreq) \in Int
      BY <2>2, QuotInt DEF Types
    <2>4. first = Quot(lo * (2 * h), m_SampleFreq) + h
      BY <1>1, <1>2, <1>6 DEF BinOf
    <2> QED
      BY <1>2, <2>1, <2>3, <2>4
  <1>9. last \in Int /\ last > 0
    <2>1. -h < Quot(hi * (2 * h), m_SampleFreq)
      BY <1>2, <1>5, BinAbove DEF Types
    <2>2. hi * (2 * h) \in Int
      BY <1>2, <1>5
    <2>3. Quot(hi * (2 * h), m_SampleFreq) \in Int
      BY <2>2, QuotInt DEF Types
    <2>4. last = Quot(hi * (2 * h), m_SampleFreq) + h
      BY <1>1, <1>2, <1>7 DEF BinOf
    <2> QED
      BY <1>2, <2>1, <2>3, <2>4
  <1>10. PICK max : max = IF last <= first THEN first + 1 ELSE last
    OBVIOUS
  <1>11. /\ Bins.m_BinMin = first /\ Bins.m_BinMax = max
         /\ Bins.minbin = (IF first < 0 THEN 0 ELSE first)
         /\ Bins.maxbin = (IF max < FFTSize THEN max ELSE FFTSize)
    <2>1. (IF first > FFTSize THEN FFTSize - 1 ELSE first) = first
      BY <1>2, <1>8
    <2> QED
      BY <1>3, <1>4, <1>6, <1>7, <1>10, <2>1 DEF Bins
  <1>12. max \in Int /\ max > first /\ max > 0
    BY <1>8, <1>9, <1>10
  <1>13. PICK min : min = IF first < 0 THEN 0 ELSE first
    OBVIOUS
  <1>14. PICK end : end = IF max < FFTSize THEN max ELSE FFTSize
    OBVIOUS
  <1>15. /\ min \in Int /\ end \in Int /\ first <= min /\ min < end /\ end <= max
    BY <1>2, <1>8, <1>12, <1>13, <1>14
  <1>16. PICK d : d = max - first
    OBVIOUS
  <1>17. d \in Nat \ {0} /\ min - first \in 0 .. d - 1 /\ (end - 1) - first \in 0 .. d - 1
    BY <1>8, <1>12, <1>15, <1>16
  <1>18. \A i \in Int : ColumnOf(i) = Quot((i - first) * Width, d)
    BY <1>11, <1>16 DEF ColumnOf
  <1>19. \A i \in 0 .. d - 1 : Quot(i * Width, d) \in 0 .. Width - 1
    <2> TAKE i \in 0 .. d - 1
    <2>1. i \in Nat /\ i < d /\ Width \in Nat \ {0}
      BY <1>17, PointAssumption
    <2> QED
      BY <1>17, <2>1, ColumnInPlot
  <1>20. ColumnOf(min) \in 0 .. Width - 1
    BY <1>15, <1>17, <1>18, <1>19
  <1>21. end - 1 \in Int /\ ColumnOf(end - 1) = Quot(((end - 1) - first) * Width, d)
    BY <1>15, <1>18
  <1>22. ColumnOf(end - 1) \in 0 .. Width - 1
    BY <1>17, <1>19, <1>21
  <1> QED
    BY <1>11, <1>13, <1>14, <1>15, <1>20, <1>22


-----------------------------------------------------------------------------
(* Theorems *)

\* Every member of CPlotter that the axis is made of keeps its type, and the
\* rate and the span, by which the drawing divides, stay positive.
THEOREM TypeCorrect == Spec => []Types
  <1> QED
    BY TypesInit, TypesStep, PTL DEF Spec

\* Dragging the axis (mouseMoveEvent with mousePressEvent and
\* mouseReleaseEvent) moves it by what the pointer moved, for any screen,
\* zoom and sequence of calls.
THEOREM PanSafe == Spec => PanFollowsPointer
  <1>1. Init => Types /\ DragInv
    BY TypesInit, DragInit
  <1>2. Types /\ DragInv /\ [Next]_vars => (Types /\ DragInv)'
    BY TypesStep, DragStep
  <1>3. Types /\ DragInv /\ [Next]_vars =>
           [(pointer' # pointer /\ todo'["window"] # <<>> /\ ~twice) => m_Xzero = pointer.x]_vars
    BY PanStep
  <1> QED
    BY <1>1, <1>2, <1>3, PTL DEF Spec, PanFollowsPointer

\* A draw() finds data in the view and stays in its tables, on any screen,
\* with any data, rates and calls, however the user pans and zooms, unless it
\* meets the worker's setters before their clamp or follows a clamp by a limit
\* that was out of date when it was applied.
THEOREM BinsSafe == Spec => []BinsInRange
  <1>1. Init => Types /\ ViewInv
    BY TypesInit, ViewInit
  <1>2. Types /\ ViewInv /\ [Next]_vars => (Types /\ ViewInv)'
    BY TypesStep, ViewStep
  <1>3. Types /\ ViewInv => BinsInRange
    <2> SUFFICES ASSUME Types, ViewInv, Idle("window"), ~ClampDue("worker"), ~stale
                 PROVE  InLimits
      BY CentreShowsBins DEF BinsInRange
    <2>1. ~SomeDue
      BY EmptyDue DEF SomeDue, Due, ClampDue, Idle, Thread
    <2> QED
      BY <2>1 DEF ViewInv
  <1> QED
    BY <1>1, <1>2, <1>3, PTL DEF Spec

\* calcDivSize's loop always ends, with no more divisions than m_HDivText has
\* room for, and whatever the two threads did since, the grid is that of the
\* view unless GridFitsView's exceptions apply.
THEOREM GridSafe == Spec => []GridFitsView
  <1>1. Init => Types /\ ViewInv
    BY TypesInit, ViewInit
  <1>2. Types /\ ViewInv /\ [Next]_vars => (Types /\ ViewInv)'
    BY TypesStep, ViewStep
  <1>3. Types /\ ViewInv => GridFitsView
    <2> SUFFICES ASSUME ViewInv, \A t \in Thread : Idle(t), ~m_DrawOverlay, ~lost
                 PROVE  Fits
      BY DEF GridFitsView, Fits, Fit
    <2>1. ~Pending(Drawing)
      BY DEF Pending, Has, Idle
    <2> QED
      BY <2>1 DEF ViewInv, Covered
  <1> QED
    BY <1>1, <1>2, <1>3, PTL DEF Spec
=============================================================================
