------------------------------- MODULE Plotter -------------------------------
(***************************************************************************)
(* The horizontal axis of the spectrum: which frequencies CPlotter shows,  *)
(* the grid it labels them with, and the mouse that pans and zooms.        *)
(*                                                                         *)
(* Two threads change the view: the window, with mouse events and with     *)
(* draw(), and pjsua's worker, which sets the plotter up anew, call by     *)
(* call of its setters, when a SIP call is confirmed.  Nothing locks them. *)
(* A handler is a list of steps that its thread has still to do; a step is *)
(* the read of one member by a setter, the write of one, or the drawing of *)
(* the overlay.  What a mouse handler works out before it calls a setter,  *)
(* and an update like m_CenterFreq += ..., is one step as well.            *)
(*                                                                         *)
(* The filter box is switched off after its first drawing, so the zones in *)
(* which the mouse captures something never move: a point of the screen    *)
(* has a column and a zone.  Levels (the vertical axis) and the            *)
(* demodulator's frequencies, which nothing here shows, are left out.      *)
(* Products and quotients of floats are taken as exact.                    *)
(***************************************************************************)
EXTENDS Integers, Sequences

CONSTANTS
    Width,             \* columns of the plot
    Point,             \* points of the screen: [x, zone]
    FFTSize,           \* bins of the data: fftSize / 2
    DefaultRate, Clock,    \* sample rate at the start, clock rates of calls
    MinRange, MaxFactor,   \* the bounds of a zoom, 10 Hz and 10 times the rate
    ZoomStep,          \* [num, den] of the factors of the wheel, 11/10 and 9/10
    ClickResolution,   \* Hz
    HORZ_DIVS_MAX,
    Wanted,            \* divisions for which labels find room
    Button,            \* the buttons of the mouse
    MaxFreq            \* bound: how far the mouse takes m_CenterFreq from 0

Line == {"LEFT", "CENTER", "RIGHT"}
Overlay == Line \cup {"YAXIS", "XAXIS", "NOCAP"}
Zone == Overlay \cup {"below", "outside"}
Thread == {"window", "worker"}

ASSUME PointAssumption ==
    Width \in Nat \ {0} /\ \A p \in Point : p \in [x : Int, zone : Zone]
ASSUME ButtonAssumption == Button \subseteq {"left", "mid", "right"}
ASSUME RateAssumption ==
    /\ DefaultRate \in Nat \ {0} /\ Clock \subseteq Nat /\ \A c \in Clock : c > 1
    /\ FFTSize \in Nat \ {0} /\ FFTSize % 2 = 0
ASSUME ZoomAssumption ==
    /\ MinRange \in Nat \ {0} /\ MaxFactor \in Nat \ {0}
    /\ \A s \in ZoomStep : s \in [num : Nat \ {0}, den : Nat \ {0}]
    /\ ClickResolution \in Nat \ {0}
ASSUME GridAssumption ==
    HORZ_DIVS_MAX \in Nat \ {0} /\ Wanted \subseteq 1 .. HORZ_DIVS_MAX /\ MaxFreq \in Nat

VARIABLES
    m_SampleFreq, m_Span, m_FftCenter, m_CenterFreq,   \* the view
    grid,              \* [m_StartFreqAdj, m_FreqPerDiv, m_HorDivs]
    m_Running, m_DrawOverlay,
    lost,              \* history: the worker changed the view after the last drawing
    stale,             \* history: see WriteCenter
    todo,              \* what each thread has still to do
    m_CursorCaptured, m_Xzero,
    pointer, buttons,  \* the mouse
    twice              \* history: a button was released while another was held

view == <<m_SampleFreq, m_Span, m_FftCenter, m_CenterFreq>>
overlay == <<grid, m_Running, m_DrawOverlay, lost, stale>>
mouse == <<m_CursorCaptured, m_Xzero, pointer, buttons, twice>>
vars == <<view, overlay, todo, mouse>>

-----------------------------------------------------------------------------
(* Arithmetic: division and remainder of C truncate *)

Quot(a, b) == IF a >= 0 THEN a \div b ELSE -((-a) \div b)
Rem(a, b) == a - b * Quot(a, b)
Bound(lo, v, hi) == IF v < lo THEN lo ELSE IF v > hi THEN hi ELSE v

StartFreq == m_CenterFreq + m_FftCenter - m_Span \div 2
freqFromX(x) == StartFreq + Quot(m_Span * x, Width)

roundFreq(f) ==
    LET half == ClickResolution \div 2
        rest == Rem(f + half, ClickResolution)
    IN IF f >= 0 THEN f - rest + half ELSE f - rest - half

\* setFftCenterFreq: the view and the data overlap.
\* (Mutant: by nothing.)
LimitTouch(rate, span) == (rate + span) \div 2
Limit(rate, span) == (rate + span) \div 2 - 1

-----------------------------------------------------------------------------
(* calcDivSize *)

\* multiplier, which each round through the table of three raises tenfold.
Multiplier(n) ==
    LET m[i \in 0 .. n] == IF i = 0 THEN 1 ELSE m[i - 1] * 10 IN m[n]

StepTable(n) == <<1, 2, 5>>[(n % 3) + 1] * Multiplier(n \div 3)

\* The first step that makes few enough divisions.  A span that asks for no
\* loop at all leaves the start of the grid before.
\* (Mutant: the start is not moved into the view.)
FirstLineBelow(low, step) == Quot(low, step) * step
FirstLine(low, step) ==
    LET adj == Quot(low, step) * step IN IF adj < low THEN adj + step ELSE adj

calcDivSize(low, span, wanted) ==
    IF span <= wanted
    THEN [adj |-> IF grid.adj < low THEN grid.adj + 1 ELSE grid.adj, step |-> 1, divs |-> span]
    ELSE LET fits(n) == span \div StepTable(n) <= wanted
             n == CHOOSE k \in 0 .. span : fits(k) /\ \A j \in 0 .. k - 1 : ~fits(j)
         IN [adj |-> FirstLine(low, StepTable(n)), step |-> StepTable(n),
             divs |-> span \div StepTable(n)]

-----------------------------------------------------------------------------
(* getScreenIntegerFFTData *)

BinOf(f) == Quot(f * FFTSize, m_SampleFreq) + FFTSize \div 2

\* Bins from m_BinMin to m_BinMax lie in the view, from minbin to before
\* maxbin there is data.
Bins ==
    LET first == BinOf(m_FftCenter - m_Span \div 2)
        m_BinMin == IF first > FFTSize THEN FFTSize - 1 ELSE first
        last == BinOf(m_FftCenter + m_Span \div 2)
        m_BinMax == IF last <= m_BinMin THEN m_BinMin + 1 ELSE last
    IN [m_BinMin |-> m_BinMin, m_BinMax |-> m_BinMax,
        minbin |-> IF first < 0 THEN 0 ELSE first,
        maxbin |-> IF m_BinMax < FFTSize THEN m_BinMax ELSE FFTSize]

largeFft == Bins.m_BinMax - Bins.m_BinMin > Width
ColumnOf(i) == Quot((i - Bins.m_BinMin) * Width, Bins.m_BinMax - Bins.m_BinMin)

-----------------------------------------------------------------------------
(* Steps *)

\* arg is what the step before has read for this one.
Do(op, val) == [op |-> op, val |-> val, arg |-> 0]
Carry(op, val, arg) == [op |-> op, val |-> val, arg |-> arg]

setSampleRate(r) == <<Do("rate", r), Do("grid", 0)>>
setFftCenterFreq(f) == <<Do("clamp", f)>>
setSpanFreq(s) == <<Do("span", s), Do("again", 0), Do("grid", 0)>>
resetHorizontalZoom == setFftCenterFreq(0) \o <<Do("full", 0), Do("again", 0), Do("grid", 0)>>

Idle(t) == todo[t] = <<>>
At(t, ops) == ~Idle(t) /\ Head(todo[t]).op \in ops
Val(t) == Head(todo[t]).val
Arg(t) == Head(todo[t]).arg
Done(t) == todo' = [todo EXCEPT ![t] = Tail(@)]
Then(t, s) == todo' = [todo EXCEPT ![t] = s \o Tail(@)]

WriteRate(t) ==
    /\ At(t, {"rate"}) /\ Done(t)
    /\ m_SampleFreq' = Val(t)
    /\ UNCHANGED <<m_Span, m_FftCenter, m_CenterFreq, overlay, mouse>>

WriteSpan(t) ==
    /\ At(t, {"span"}) /\ Done(t)
    /\ m_Span' = Val(t)
    /\ UNCHANGED <<m_SampleFreq, m_FftCenter, m_CenterFreq, overlay, mouse>>

\* The argument of a setter is read: setSpanFreq clamps m_FftCenter again, and
\* resetHorizontalZoom sets the span to m_SampleFreq.
ReadArgument(t) ==
    /\ At(t, {"again", "full"})
    /\ Then(t, IF At(t, {"again"}) THEN <<Do("clamp", m_FftCenter)>>
                                   ELSE <<Do("span", m_SampleFreq)>>)
    /\ UNCHANGED <<view, overlay, mouse>>

\* setFftCenterFreq: what the limit is made of is read, then the centre is
\* written.
ReadRate(t) ==
    /\ At(t, {"clamp"}) /\ Then(t, <<Carry("limit", Val(t), m_SampleFreq)>>)
    /\ UNCHANGED <<view, overlay, mouse>>

ReadSpan(t) ==
    /\ At(t, {"limit"}) /\ Then(t, <<Carry("center", Val(t), Limit(Arg(t), m_Span))>>)
    /\ UNCHANGED <<view, overlay, mouse>>

\* stale says that the rate or the span has changed since, and the present
\* limit asks for another centre.  After the worker's last call nothing is
\* drawn.
WriteCenter(t) ==
    LET limit == Limit(m_SampleFreq, m_Span) IN
    /\ At(t, {"center"}) /\ Done(t)
    /\ m_FftCenter' = Bound(-Arg(t), Val(t), Arg(t))
    /\ stale' = (m_FftCenter' # Bound(-limit, Val(t), limit))
    /\ lost' = (lost \/ (t = "worker" /\ Len(todo[t]) = 1))
    /\ UNCHANGED <<m_SampleFreq, m_Span, m_CenterFreq, grid, m_Running, m_DrawOverlay, mouse>>

\* setCenterFreq
Retune(t) ==
    /\ At(t, {"retune"})
    /\ IF Val(t) = m_CenterFreq THEN Done(t) ELSE Then(t, <<Do("update", 0)>>)
    /\ m_CenterFreq' = Val(t)
    /\ UNCHANGED <<m_SampleFreq, m_Span, m_FftCenter, overlay, mouse>>

\* updateOverlay.  draw() clears the flag after it has drawn: one set by the
\* worker meanwhile goes unnoticed.
UpdateOverlay(t) ==
    /\ At(t, {"update"})
    /\ IF m_Running THEN m_DrawOverlay' = TRUE /\ Done(t)
                    ELSE UNCHANGED m_DrawOverlay /\ Then(t, <<Do("grid", 0)>>)
    /\ lost' = (lost \/ (t = "worker" /\ At("window", {"clear"})))
    /\ UNCHANGED <<view, grid, m_Running, stale, mouse>>

\* drawOverlay
DrawOverlay(t) ==
    /\ At(t, {"grid"}) /\ Done(t)
    /\ \E wanted \in Wanted : grid' = calcDivSize(StartFreq, m_Span, wanted)
    /\ lost' = FALSE
    /\ UNCHANGED <<view, m_Running, m_DrawOverlay, stale, mouse>>

ClearFlag ==
    /\ At("window", {"clear"}) /\ Done("window")
    /\ m_DrawOverlay' = FALSE
    /\ UNCHANGED <<view, grid, m_Running, lost, stale, mouse>>

Step(t) ==
    \/ WriteRate(t) \/ WriteSpan(t) \/ ReadArgument(t)
    \/ ReadRate(t) \/ ReadSpan(t) \/ WriteCenter(t)
    \/ Retune(t) \/ UpdateOverlay(t) \/ DrawOverlay(t)

-----------------------------------------------------------------------------
(* A SIP call is confirmed, and new data is drawn *)

\* setFftRange asks for up to 20 dB, which is refused.
Confirmed(clock) ==
    /\ Idle("worker")
    /\ todo' = [todo EXCEPT !["worker"] =
          setSampleRate(clock \div 2) \o setSpanFreq(clock \div 2)
          \o <<Do("retune", clock \div 4)>> \o setFftCenterFreq(0)]
    /\ UNCHANGED <<view, overlay, mouse>>

\* draw(); what it shows of the data is Bins in the state it runs in.
Draw ==
    /\ Idle("window")
    /\ m_Running' = TRUE
    /\ todo' = [todo EXCEPT !["window"] =
          IF m_DrawOverlay THEN <<Do("grid", 0), Do("clear", 0)>> ELSE <<>>]
    /\ UNCHANGED <<view, grid, m_DrawOverlay, lost, stale, mouse>>

-----------------------------------------------------------------------------
(* The mouse.  A handler runs in the window's thread. *)

Handle(steps) == Idle("window") /\ todo' = [todo EXCEPT !["window"] = steps]

\* Without a button the zone is captured, with one the capture stays.
\* (Mutant: it follows the mouse in any case.)
CapturedAnyhow(p) == IF p.zone \in Overlay THEN p.zone ELSE "NOCAP"
Captured(p) ==
    IF buttons # {} THEN m_CursorCaptured
    ELSE IF p.zone \in Overlay THEN p.zone ELSE "NOCAP"

\* What is still captured when the event has been handled.
Kept(p, captured) ==
    IF \/ p.zone = "outside"
       \/ captured \in {"LEFT", "RIGHT"} /\ buttons = {"mid"}
       \/ captured = "CENTER" /\ buttons # {} /\ "left" \notin buttons
    THEN "NOCAP" ELSE captured

Drags(captured) == captured = "XAXIS" /\ buttons \cap {"left", "mid"} # {}
Pan(p) == Quot((m_Xzero - p.x) * m_Span, Width)

MouseMove(p) ==
    LET captured == Captured(p) IN
    /\ p # pointer /\ (p.zone = "outside" => buttons # {})
    /\ pointer' = p
    /\ m_CursorCaptured' = Kept(p, captured)
    /\ IF Drags(captured)
       THEN /\ m_Xzero' = p.x
            /\ IF "mid" \in buttons
               THEN /\ m_CenterFreq' = m_CenterFreq + Pan(p)
                    /\ m_CenterFreq' \in -MaxFreq .. MaxFreq
                    /\ Handle(<<Do("update", 0)>>)
               ELSE /\ Handle(setFftCenterFreq(m_FftCenter + Pan(p)) \o <<Do("update", 0)>>)
                    /\ UNCHANGED m_CenterFreq
       ELSE Handle(<<>>) /\ UNCHANGED <<m_Xzero, m_CenterFreq>>
    /\ UNCHANGED <<m_SampleFreq, m_Span, m_FftCenter, overlay, buttons, twice>>

\* Where nothing is captured: a line of the filter, tune (left), set the
\* centre (middle) or reset the zoom (right).
PressFree(b) ==
    \/ /\ pointer.zone \in Line \cup {"below"}
       /\ m_CursorCaptured' \in (IF pointer.zone = "below" THEN Line ELSE {pointer.zone})
       /\ UNCHANGED m_CenterFreq /\ Handle(<<>>)
    \/ /\ pointer.zone \notin Line
       /\ m_CursorCaptured' = IF buttons = {} /\ b = "left" THEN "CENTER" ELSE "NOCAP"
       /\ IF buttons = {} /\ b = "mid"
          THEN /\ m_CenterFreq' = roundFreq(freqFromX(pointer.x))
               /\ m_CenterFreq' \in -MaxFreq .. MaxFreq
          ELSE UNCHANGED m_CenterFreq
       /\ Handle(IF buttons # {} THEN <<>>
                 ELSE IF b = "right" THEN resetHorizontalZoom ELSE <<Do("grid", 0)>>)

MousePress(b) ==
    /\ b \notin buttons /\ pointer.zone # "outside"
    /\ buttons' = buttons \cup {b}
    /\ IF m_CursorCaptured = "NOCAP" THEN PressFree(b)
       ELSE /\ Handle(IF m_CursorCaptured = "XAXIS" /\ buttons' = {"right"}
                      THEN resetHorizontalZoom ELSE <<>>)
            /\ UNCHANGED <<m_CursorCaptured, m_CenterFreq>>
    /\ m_Xzero' = IF m_CursorCaptured = "XAXIS" THEN pointer.x ELSE m_Xzero
    /\ twice' = (twice /\ m_CursorCaptured # "XAXIS")
    /\ UNCHANGED <<m_SampleFreq, m_Span, m_FftCenter, overlay, pointer>>

MouseRelease(b) ==
    /\ b \in buttons
    /\ buttons' = buttons \ {b}
    /\ m_CursorCaptured' = IF pointer.zone \in Overlay THEN m_CursorCaptured ELSE "NOCAP"
    /\ m_Xzero' = IF pointer.zone \in Overlay /\ m_CursorCaptured = "XAXIS" THEN -1 ELSE m_Xzero
    /\ twice' = (buttons' # {})
    /\ Handle(<<>>)
    /\ UNCHANGED <<view, overlay, pointer>>

\* zoomStepX keeps the frequency under the pointer where it is.
zoomStepX(step, x) ==
    LET range == Bound(MinRange, Quot(m_Span * step.num, step.den), m_SampleFreq * MaxFactor)
        fc == freqFromX(x) + Quot(range * (Width - 2 * x), 2 * Width)
    IN setFftCenterFreq(fc - m_CenterFreq) \o setSpanFreq(range)

Wheel(step) ==
    /\ m_CursorCaptured = "XAXIS"
    /\ Handle(zoomStepX(step, pointer.x) \o <<Do("update", 0)>>)
    /\ UNCHANGED <<view, overlay, mouse>>

-----------------------------------------------------------------------------
\* initSpectrumGraph has run, nothing was drawn of the data yet; the axis is
\* that of the data, 0 to DefaultRate.
Init ==
    /\ m_SampleFreq = DefaultRate /\ m_Span = DefaultRate
    /\ m_FftCenter = 0 /\ m_CenterFreq = DefaultRate \div 2
    /\ \E wanted \in Wanted :
          LET n == CHOOSE k \in 0 .. DefaultRate :
                      /\ DefaultRate \div StepTable(k) <= wanted
                      /\ \A j \in 0 .. k - 1 : DefaultRate \div StepTable(j) > wanted
          IN grid = [adj |-> 0, step |-> StepTable(n), divs |-> DefaultRate \div StepTable(n)]
    /\ m_Running = FALSE /\ m_DrawOverlay = TRUE
    /\ lost = FALSE /\ stale = FALSE
    /\ todo = [t \in Thread |-> <<>>]
    /\ m_CursorCaptured = "NOCAP" /\ m_Xzero = -1
    /\ pointer \in Point /\ pointer.zone # "outside" /\ buttons = {} /\ twice = FALSE

Mouse ==
    \/ \E p \in Point : MouseMove(p)
    \/ \E b \in Button : MousePress(b) \/ MouseRelease(b)
    \/ \E s \in ZoomStep : Wheel(s)

Next ==
    \/ \E t \in Thread : Step(t)
    \/ ClearFlag \/ Draw \/ Mouse
    \/ \E c \in Clock : Confirmed(c)

Spec == Init /\ [][Next]_vars

-----------------------------------------------------------------------------
(* Properties *)

Clamping == {"again", "clamp", "limit", "center"}
\* A clamp is under way or to come, other than the worker's last, of 0.
ClampDue(t) == \E i \in DOMAIN todo[t] : todo[t][i].op \in Clamping /\ i < Len(todo[t])

\* However the view was panned and zoomed, a draw() that meets no setter of
\* the worker finds data to show and neither reads the table of columns where
\* it was not filled nor writes outside the plot.  There are two exceptions.
\* While a call is being confirmed nobody clamps the view from the new rate
\* until setSpanFreq has.  And a clamp of one thread by a limit that the other
\* made out of date meanwhile leaves the view where it may miss the data; what
\* puts it right is the next clamp that is not disturbed, not the passing of
\* time.
BinsInRange ==
    Idle("window") /\ ~ClampDue("worker") /\ ~stale =>
        (largeFft =>
            /\ Bins.minbin < Bins.maxbin
            /\ ColumnOf(Bins.minbin) \in 0 .. Width - 1
            /\ ColumnOf(Bins.maxbin - 1) \in 0 .. Width - 1)

\* When nothing is under way or scheduled, the grid is that of the view: at
\* most HORZ_DIVS_MAX divisions, for which m_HDivText has room, that begin in
\* the view and end less than one off its end.  The exceptions are a change
\* by the worker that was not drawn and a view of no more than the divisions
\* wanted, for which calcDivSize leaves the start as it was.
GridFitsView ==
    (\A t \in Thread : Idle(t)) /\ ~m_DrawOverlay /\ ~lost =>
        /\ grid.divs <= HORZ_DIVS_MAX
        /\ m_Span > HORZ_DIVS_MAX =>
              /\ grid.adj \in StartFreq .. StartFreq + grid.step - 1
              /\ grid.adj + grid.divs * grid.step
                    \in StartFreq + m_Span - grid.step + 1 .. StartFreq + m_Span + grid.step

\* A move that pans does so by what the pointer moved, whatever was hovered,
\* pressed, captured and lost before.  (A second button that is released
\* breaks the drag: m_Xzero is reset and the view jumps.)
PanFollowsPointer ==
    [][(pointer' # pointer /\ todo'["window"] # <<>> /\ ~twice) => m_Xzero = pointer.x]_vars
=============================================================================
