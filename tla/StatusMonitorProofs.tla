------------------------- MODULE StatusMonitorProofs -------------------------
(* What StatusMonitor keeps in its fields, for any list of lines, range of  *)
(* the volume, set of frequencies and number of rounds between two polls.   *)
EXTENDS StatusMonitor, TLAPS

USE VolumeAssumption, FreqAssumption, RoundAssumption

\* The shared volume leaves its range only between a step and its clamp, by
\* that one step: setSlotVolume is not called again before it has returned.
StepOK ==
    IF window.at = "clamp"
    THEN SLOT_VOLUME + (IF window.up THEN -1 ELSE 1) \in Volume
    ELSE SLOT_VOLUME \in Volume

\* What a click has read, it read after its clamp, and nobody else moves the
\* volume.
CopyOK == window.vol \in Volume

MonitorInv == TypeOK /\ StepOK /\ CopyOK

-----------------------------------------------------------------------------
(* The helpers *)

LEMMA LineType ==
    /\ Len(Lines) \in Nat \ {0}
    /\ \A i \in 1 .. Len(Lines) : Lines[i] \in Line
  BY LineAssumption DEF Line

\* Whatever a thread looked up, its adjustment leaves a level in each port.
LEMMA AdjustType ==
    ASSUME TypeOK, NEW t, t.i \in 1 .. Len(Lines), t.vol \in Level, Adjust(t)
    PROVE  /\ port' \in [Line -> Level \cup {NoPort}]
           /\ \A k \in Line : port'[k] \in {port[k], t.vol}
  <1>1. Lines[t.i] \in Line
    BY LineType
  <1>2. CASE UNCHANGED port
    BY <1>2 DEF TypeOK
  <1>3. ASSUME NEW l \in Line, port' = [port EXCEPT ![l] = t.vol]
        PROVE  /\ port' \in [Line -> Level \cup {NoPort}]
               /\ \A k \in Line : port'[k] \in {port[k], t.vol}
    BY <1>1, <1>3 DEF TypeOK
  <1> QED
    BY <1>1, <1>2, <1>3 DEF Adjust

LEMMA NormalType == Normal \in Volume /\ Normal \in Level
  BY DEF Level, MIN_SLOT_VOLUME, Volume

\* A thread that reads the volume or drops it keeps its other fields.
LEMMA ReadType ==
    ASSUME TypeOK
    PROVE  /\ \A next \in {"show", "adjust"} :
                 /\ Read(monitor, next) \in MonitorAt /\ Read(window, next) \in WindowAt
                 /\ Read(monitor, next).vol = SLOT_VOLUME
                 /\ Read(window, next).vol = SLOT_VOLUME /\ Read(window, next).at = next
           /\ Load(monitor) \in MonitorAt /\ Load(window) \in WindowAt
           /\ Load(monitor).vol = Normal /\ Load(monitor).at = "load"
           /\ Load(window).vol = Normal /\ Load(window).at = "load"
  BY NormalType DEF TypeOK, Read, Load, MonitorAt, WindowAt

\* Each thread goes on to a line that there is, with no volume read.
LEMMA NextType ==
    ASSUME TypeOK
    PROVE  /\ \A m \in {AfterLine(monitor.i), SkipLine(monitor.i), Round(1)} :
                 m \in MonitorAt /\ m.vol = Normal /\ m.at \in {"test", "on", "poll"}
           /\ \A w \in {NextLine(window.i), Idle} :
                 w \in WindowAt /\ w.vol = Normal /\ w.at \in {"test", "idle"}
  <1>1. /\ monitor.i \in 1 .. Len(Lines) /\ window.i \in 1 .. Len(Lines)
        /\ window.up \in BOOLEAN
        /\ 1 \in 1 .. Len(Lines) /\ Len(Lines) \in Nat
    BY LineType DEF TypeOK, MonitorAt, WindowAt
  <1>2. ASSUME NEW i \in 1 .. Len(Lines)
        PROVE  Round(i) \in MonitorAt /\ Round(i).vol = Normal /\ Round(i).at = "test"
    BY NormalType DEF Round, MonitorAt
  <1>3. \A i \in 1 .. Len(Lines) : i < Len(Lines) => i + 1 \in 1 .. Len(Lines)
    BY <1>1
  <1>4. \/ SkipLine(monitor.i) = Round(monitor.i + 1) /\ monitor.i < Len(Lines)
        \/ SkipLine(monitor.i) = [Round(monitor.i) EXCEPT !.at = "poll"]
    BY DEF SkipLine
  <1>5. \/ AfterLine(monitor.i) = [Round(monitor.i) EXCEPT !.at = "on"]
        \/ AfterLine(monitor.i) = Round(monitor.i + 1) /\ monitor.i < Len(Lines)
        \/ AfterLine(monitor.i) = [Round(monitor.i) EXCEPT !.at = "poll"]
    BY DEF AfterLine
  <1>6. Idle \in WindowAt /\ Idle.vol = Normal /\ Idle.at = "idle"
    BY <1>1, NormalType DEF Idle, WindowAt
  <1>7. ASSUME window.i < Len(Lines)
        PROVE  LET w == [Idle EXCEPT !.at = "test", !.i = window.i + 1, !.up = window.up] IN
               w \in WindowAt /\ w.vol = Normal /\ w.at = "test"
    BY <1>1, <1>3, <1>7, NormalType DEF Idle, WindowAt
  <1> DEFINE MonitorGoesOn(m) == m \in MonitorAt /\ m.vol = Normal /\ m.at \in {"test", "on", "poll"}
             WindowGoesOn(w) == w \in WindowAt /\ w.vol = Normal /\ w.at \in {"test", "idle"}
  <1>8. \A i \in 1 .. Len(Lines) : MonitorGoesOn(Round(i))
    BY <1>2
  <1>9. ASSUME NEW a \in {"on", "poll"} PROVE MonitorGoesOn([Round(monitor.i) EXCEPT !.at = a])
    <2>1. PICK m : m = [Round(monitor.i) EXCEPT !.at = a]
      OBVIOUS
    <2>2. m \in MonitorAt /\ m.vol = Normal /\ m.at = a
      BY <1>1, <2>1, NormalType DEF Round, MonitorAt
    <2> QED
      BY <2>1, <2>2
  <1>10. monitor.i < Len(Lines) => MonitorGoesOn(Round(monitor.i + 1))
    BY <1>1, <1>3, <1>8
  <1>11. WindowGoesOn(Idle)
    BY <1>6
  <1>12. WindowGoesOn(NextLine(window.i))
    BY <1>7, <1>11 DEF NextLine
  <1>13. MonitorGoesOn(Round(1))
    BY <1>1, <1>8
  <1> HIDE DEF MonitorGoesOn, WindowGoesOn
  <1>14. MonitorGoesOn(SkipLine(monitor.i)) /\ MonitorGoesOn(AfterLine(monitor.i))
    BY <1>4, <1>5, <1>9, <1>10
  <1> QED
    BY <1>11, <1>12, <1>13, <1>14 DEF MonitorGoesOn, WindowGoesOn

-----------------------------------------------------------------------------
LEMMA InitMonitor == Init => MonitorInv
  <1> SUFFICES ASSUME Init PROVE MonitorInv
    OBVIOUS
  <1>1. 1 \in 1 .. Len(Lines)
    BY LineType
  <1>2. Normal \in Level /\ Normal \in Volume
    BY NormalType
  <1>3. /\ monitor \in MonitorAt /\ window \in WindowAt
        /\ window.at = "idle" /\ window.vol = Normal
    BY <1>1, <1>2 DEF Init, Idle, Round, MonitorAt, WindowAt
  <1>4. port \in [Line -> Level \cup {NoPort}]
    BY DEF Init
  <1>5. tracked \subseteq Line /\ word \in BOOLEAN /\ m_PttPressed \in BOOLEAN
    BY DEF Init
  <1>6. freq \in Freq /\ lcd_Freq \in Freq \cup {0} /\ count \in 0 .. Rounds + 1
    BY DEF Init
  <1>7. SLOT_VOLUME \in Level /\ lcd_Volume \in Level
    BY <1>2 DEF Init
  <1>8. TypeOK
    BY <1>3, <1>4, <1>5, <1>6, <1>7 DEF TypeOK
  <1> QED
    BY <1>2, <1>3, <1>8 DEF Init, MonitorInv, StepOK, CopyOK

\* The monitor's steps: it writes the display, the ports and the label.
LEMMA StepMonitor == MonitorInv /\ Monitor => MonitorInv'
  <1> SUFFICES ASSUME TypeOK, StepOK, CopyOK, Monitor PROVE TypeOK' /\ StepOK' /\ CopyOK'
    BY DEF MonitorInv
  <1> USE DEF line, radio
  <1>1. UNCHANGED <<SLOT_VOLUME, window, tracked, word, freq>>
    BY DEF Monitor, TestLine, ReadVolume, ShowVolume, ApplyVolume, ShowOn, ShowOff, Poll
  <1>2. StepOK' /\ CopyOK'
    BY <1>1 DEF StepOK, CopyOK
  <1>3. monitor \in MonitorAt /\ monitor.i \in 1 .. Len(Lines) /\ monitor.vol \in Level
    BY DEF TypeOK, MonitorAt
  <1>4. CASE TestLine
    <2>1. monitor' \in MonitorAt
      BY <1>3, <1>4, NextType DEF TestLine, MonitorAt, HasPort
    <2> QED
      BY <1>2, <1>4, <2>1 DEF TestLine, TypeOK
  <1>5. CASE ShowVolume
    <2>1. monitor' \in MonitorAt
      BY <1>5, ReadType, NextType DEF ShowVolume
    <2> QED
      BY <1>2, <1>3, <1>5, <2>1 DEF ShowVolume, TypeOK
  <1>10. CASE ReadVolume
    <2>1. monitor' \in MonitorAt
      BY <1>10, ReadType DEF ReadVolume
    <2> QED
      BY <1>2, <1>10, <2>1 DEF ReadVolume, TypeOK
  <1>6. CASE ApplyVolume
    <2>1. monitor' \in MonitorAt
      BY <1>6, NextType DEF ApplyVolume
    <2>2. port' \in [Line -> Level \cup {NoPort}]
      BY <1>3, <1>6, AdjustType DEF ApplyVolume, Reapply
    <2> QED
      BY <1>2, <1>6, <2>1, <2>2 DEF ApplyVolume, TypeOK
  <1>7. CASE ShowOn
    <2>1. monitor' \in MonitorAt
      BY <1>3, <1>7, NextType DEF ShowOn, MonitorAt
    <2> QED
      BY <1>2, <1>7, <2>1 DEF ShowOn, TypeOK
  <1>8. CASE ShowOff
    <2>1. monitor' \in MonitorAt
      BY <1>8, NextType DEF ShowOff
    <2> QED
      BY <1>2, <1>8, <2>1 DEF ShowOff, TypeOK
  <1>9. CASE Poll
    <2>1. monitor' \in MonitorAt
      BY <1>9, NextType DEF Poll
    <2>2. count' \in 0 .. Rounds + 1
      BY <1>9 DEF Poll, CountAfter, TypeOK
    <2> QED
      BY <1>2, <1>9, <2>1, <2>2 DEF Poll, TypeOK
  <1> QED
    BY <1>4, <1>5, <1>6, <1>7, <1>8, <1>9, <1>10 DEF Monitor

\* The steps of a click: the volume leaves its range and comes back.
LEMMA StepClicked == MonitorInv /\ Clicked => MonitorInv'
  <1> SUFFICES ASSUME TypeOK, StepOK, CopyOK, Clicked PROVE TypeOK' /\ StepOK' /\ CopyOK'
    BY DEF MonitorInv
  <1> USE DEF line, radio
  <1>1. /\ window \in WindowAt /\ window.i \in 1 .. Len(Lines) /\ window.up \in BOOLEAN
        /\ window.vol \in Level
    BY DEF TypeOK, WindowAt
  <1>2. CASE ClickTest
    <2>1. /\ window' \in WindowAt /\ window.at # "clamp" /\ window'.at # "clamp"
          /\ window'.vol \in {window.vol, Normal}
      BY <1>1, <1>2, NextType DEF ClickTest, WindowAt, HasPort
    <2> QED
      BY <1>2, <2>1, NormalType DEF ClickTest, TypeOK, StepOK, CopyOK
  <1>3. CASE ClickStep
    <2>1. /\ window' \in WindowAt /\ window.at # "clamp"
          /\ window'.at = "clamp" /\ window'.up = window.up /\ window'.vol = window.vol
      BY <1>1, <1>3 DEF ClickStep, WindowAt
    <2>2. SLOT_VOLUME \in Volume
      BY <2>1 DEF StepOK
    <2>3. SLOT_VOLUME' = SLOT_VOLUME + (IF window.up THEN 1 ELSE -1)
      BY <1>3 DEF ClickStep
    <2>4. SLOT_VOLUME' \in Level
      BY <1>1, <2>2, <2>3 DEF Level, MIN_SLOT_VOLUME, Volume
    <2>5. SLOT_VOLUME' + (IF window.up THEN -1 ELSE 1) \in Volume
      BY <1>1, <2>2, <2>3 DEF MIN_SLOT_VOLUME, Volume
    <2> QED
      BY <1>3, <2>1, <2>4, <2>5 DEF ClickStep, TypeOK, StepOK, CopyOK
  <1>4. CASE ClickClamp
    <2>1. /\ window' \in WindowAt /\ window.at = "clamp"
          /\ window'.at = "format" /\ window'.vol = window.vol
          /\ SLOT_VOLUME' = Clamped(window.up)
      BY <1>1, <1>4 DEF ClickClamp, WindowAt
    <2>2. SLOT_VOLUME \in Int
      BY DEF TypeOK, Level, MIN_SLOT_VOLUME, Volume
    <2>3. Clamped(window.up) \in Volume
      <3>1. CASE window.up
        BY <2>1, <2>2, <3>1 DEF StepOK, Clamped, MIN_SLOT_VOLUME, Volume
      <3>2. CASE ~window.up
        BY <2>1, <2>2, <3>2 DEF StepOK, Clamped, MIN_SLOT_VOLUME, Volume
      <3> QED
        BY <3>1, <3>2
    <2>4. SLOT_VOLUME' \in Level
      BY <2>1, <2>3 DEF Level, MIN_SLOT_VOLUME, Volume
    <2> QED
      BY <1>4, <2>1, <2>3, <2>4 DEF ClickClamp, TypeOK, StepOK, CopyOK
  <1>7. CASE ClickRead
    <2>1. /\ window' \in WindowAt /\ window.at # "clamp" /\ window'.at # "clamp"
          /\ window'.vol = SLOT_VOLUME
      BY <1>7, ReadType DEF ClickRead
    <2> QED
      BY <1>7, <2>1 DEF ClickRead, TypeOK, StepOK, CopyOK
  <1>5. CASE ClickShow
    <2>1. /\ window' \in WindowAt /\ window.at # "clamp" /\ window'.at # "clamp"
          /\ window'.vol = Normal
      BY <1>5, ReadType, NextType DEF ClickShow
    <2> QED
      BY <1>1, <1>5, <2>1, NormalType DEF ClickShow, TypeOK, StepOK, CopyOK
  <1>6. CASE ClickAdjust
    <2>1. /\ window' \in WindowAt /\ window.at # "clamp" /\ window'.at # "clamp"
          /\ window'.vol = Normal
      BY <1>6, NextType DEF ClickAdjust
    <2>2. port' \in [Line -> Level \cup {NoPort}]
      BY <1>1, <1>6, AdjustType DEF ClickAdjust
    <2> QED
      BY <1>6, <2>1, <2>2, NormalType DEF ClickAdjust, TypeOK, StepOK, CopyOK
  <1> QED
    BY <1>2, <1>3, <1>4, <1>5, <1>6, <1>7 DEF Clicked

\* What the user and the calls do.
LEMMA StepOthers == MonitorInv /\ (User \/ Peers) => MonitorInv'
  <1> SUFFICES ASSUME TypeOK, StepOK, CopyOK, User \/ Peers PROVE TypeOK' /\ StepOK' /\ CopyOK'
    BY DEF MonitorInv
  <1> USE DEF line, radio
  <1>1. ASSUME NEW up \in BOOLEAN, Click(up) PROVE TypeOK' /\ StepOK' /\ CopyOK'
    <2>1. /\ window' = [at |-> "test", i |-> 1, conf |-> FALSE, vol |-> Normal, up |-> up]
          /\ window.at = "idle"
      BY <1>1 DEF Click, Idle
    <2>2. 1 \in 1 .. Len(Lines)
      BY LineType
    <2>3. /\ window' \in WindowAt /\ window.at # "clamp" /\ window'.at # "clamp"
          /\ window'.vol = Normal
      BY <2>1, <2>2, NormalType DEF WindowAt
    <2> QED
      BY <1>1, <2>3, NormalType DEF Click, TypeOK, StepOK, CopyOK
  <1>2. ASSUME NEW f \in Freq, SetFreq(f) PROVE TypeOK' /\ StepOK' /\ CopyOK'
    BY <1>2 DEF SetFreq, TypeOK, StepOK, CopyOK
  <1>3. CASE Report
    BY <1>3 DEF Report, TypeOK, StepOK, CopyOK
  <1>4. ASSUME NEW l \in Line, CallBegins(l) PROVE TypeOK' /\ StepOK' /\ CopyOK'
    BY <1>4 DEF CallBegins, TypeOK, StepOK, CopyOK
  <1>5. ASSUME NEW l \in Line, CallMedia(l) PROVE TypeOK' /\ StepOK' /\ CopyOK'
      BY <1>5, NormalType DEF CallMedia, TypeOK, StepOK, CopyOK
  <1>6. ASSUME NEW l \in Line, CallEnds(l) PROVE TypeOK' /\ StepOK' /\ CopyOK'
    BY <1>6 DEF CallEnds, TypeOK, StepOK, CopyOK
  <1>7. ASSUME NEW l \in Line, PortFreed(l) PROVE TypeOK' /\ StepOK' /\ CopyOK'
    BY <1>7 DEF PortFreed, TypeOK, StepOK, CopyOK
  <1> QED
    BY <1>1, <1>2, <1>3, <1>4, <1>5, <1>6, <1>7 DEF User, Peers

LEMMA StepMonitorInv == MonitorInv /\ [Next]_vars => MonitorInv'
  <1>1. MonitorInv /\ UNCHANGED vars => MonitorInv'
    BY DEF MonitorInv, TypeOK, StepOK, CopyOK, vars, line, radio
  <1> QED
    BY <1>1, StepMonitor, StepClicked, StepOthers DEF Next

THEOREM Inductive == Spec => []MonitorInv
  BY InitMonitor, StepMonitorInv, PTL DEF Spec

\* Every field keeps its type; in particular no display and no port ever gets
\* a volume more than one step outside the range, whoever reads it when.
THEOREM TypeCorrect == Spec => []TypeOK
  <1>1. MonitorInv => TypeOK
    BY DEF MonitorInv
  <1> QED
    BY Inductive, <1>1, PTL

-----------------------------------------------------------------------------
(* Who carries an overrun on *)

ReadInRange == monitor'.vol \notin Volume => monitor.vol = monitor'.vol \/ window.at = "clamp"

\* A display or a port changes by what the thread that changes it has read.
LEMMA Carried ==
    ASSUME MonitorInv, Next
    PROVE  /\ ReadInRange
           /\ \/ lcd_Volume' = lcd_Volume
              \/ lcd_Volume' \in Volume
              \/ lcd_Volume' = monitor.vol /\ monitor' # monitor
           /\ \A k \in Line :
                 \/ port'[k] = port[k]
                 \/ port'[k] \in Volume \cup {NoPort}
                 \/ port'[k] = monitor.vol /\ monitor' # monitor
  <1>1. TypeOK /\ StepOK /\ window.vol \in Volume
    BY DEF MonitorInv, CopyOK
  <1>2. /\ monitor \in MonitorAt /\ monitor.i \in 1 .. Len(Lines) /\ monitor.vol \in Level
        /\ window.i \in 1 .. Len(Lines) /\ window.vol \in Level
    BY <1>1 DEF TypeOK, MonitorAt, WindowAt
  <1>3. window.at # "clamp" => SLOT_VOLUME \in Volume
    BY <1>1 DEF StepOK
  <1> USE DEF line, radio
  <1>4. CASE TestLine
    <2>1. monitor'.vol \in {monitor.vol, Normal}
      BY <1>1, <1>2, <1>4, NextType DEF TestLine, MonitorAt
    <2> QED
      BY <1>4, <2>1, NormalType DEF TestLine, ReadInRange
  <1>5. CASE ReadVolume
    <2>1. monitor'.vol = SLOT_VOLUME
      BY <1>1, <1>5, ReadType DEF ReadVolume
    <2> QED
      BY <1>3, <1>5, <2>1 DEF ReadVolume, ReadInRange
  <1>6. CASE ShowVolume
    <2>1. monitor'.vol = Normal /\ monitor'.at # "show" /\ monitor.at = "show"
      BY <1>1, <1>6, ReadType, NextType DEF ShowVolume
    <2> QED
      BY <1>6, <2>1, NormalType DEF ShowVolume, ReadInRange
  <1>7. CASE ApplyVolume
    <2>1. monitor'.vol = Normal /\ monitor'.at # "adjust" /\ monitor.at = "adjust"
      BY <1>1, <1>7, NextType DEF ApplyVolume
    <2>2. \A k \in Line : port'[k] \in {port[k], monitor.vol}
      BY <1>1, <1>2, <1>7, AdjustType DEF ApplyVolume, Reapply
    <2> QED
      BY <1>7, <2>1, <2>2, NormalType DEF ApplyVolume, ReadInRange
  <1>8. CASE ShowOn \/ ShowOff \/ Poll
    <2>1. monitor'.vol \in {monitor.vol, Normal}
      BY <1>1, <1>2, <1>8, NextType DEF ShowOn, ShowOff, Poll, MonitorAt
    <2> QED
      BY <1>8, <2>1, NormalType DEF ShowOn, ShowOff, Poll, ReadInRange
  <1>9. CASE Clicked
    <2>1. monitor' = monitor /\ lcd_Volume' \in {lcd_Volume, window.vol}
      BY <1>9 DEF Clicked, ClickTest, ClickStep, ClickClamp, ClickRead, ClickShow, ClickAdjust
    <2>2. CASE ClickAdjust
      <3>1. \A k \in Line : port'[k] \in {port[k], window.vol}
        BY <1>1, <1>2, <2>2, AdjustType DEF ClickAdjust
      <3> QED
        BY <1>1, <2>1, <3>1 DEF ReadInRange
    <2>3. CASE ~ClickAdjust
      <3>1. UNCHANGED port
        BY <1>9, <2>3 DEF Clicked, ClickTest, ClickStep, ClickClamp, ClickRead, ClickShow
      <3> QED
        BY <1>1, <2>1, <3>1 DEF ReadInRange
    <2> QED
      BY <2>2, <2>3
  <1>10. CASE User \/ Peers
    <2>1. UNCHANGED <<monitor, lcd_Volume>>
      BY <1>10 DEF User, Peers, Click, SetFreq, Report, CallBegins, CallMedia, CallEnds, PortFreed
    <2>2. \A k \in Line : port'[k] \in {port[k], Normal, NoPort}
      BY <1>1, <1>10
         DEF User, Peers, Click, SetFreq, Report, CallBegins, CallMedia, CallEnds, PortFreed, TypeOK
    <2> QED
      BY <2>1, <2>2, NormalType DEF ReadInRange
  <1> QED
    BY <1>4, <1>5, <1>6, <1>7, <1>8, <1>9, <1>10 DEF Next, Monitor

\* Only the monitor carries a volume beyond its range any further, and only
\* one that it read between the step and the clamp of a click.
THEOREM OverrunSafe == Spec => OverrunByMonitorOnly
  <1> DEFINE Exceeds ==
        \/ lcd_Volume' \notin Volume /\ lcd_Volume' # lcd_Volume
        \/ \E l \in Line : port'[l] \notin Volume \cup {NoPort} /\ port'[l] # port[l]
  <1> DEFINE Overrun ==
        /\ SLOT_VOLUME' \notin Volume => window'.at = "clamp"
        /\ ReadInRange
        /\ Exceeds => monitor.vol \notin Volume /\ monitor' # monitor
  <1>1. ASSUME MonitorInv, Next, MonitorInv' PROVE Overrun
    <2>1. SLOT_VOLUME' \notin Volume => window'.at = "clamp"
      BY <1>1 DEF MonitorInv, StepOK
    <2>2. ASSUME lcd_Volume' \notin Volume, lcd_Volume' # lcd_Volume
          PROVE  monitor.vol \notin Volume /\ monitor' # monitor
      BY <1>1, <2>2, Carried
    <2>3. ASSUME NEW l \in Line, port'[l] \notin Volume \cup {NoPort}, port'[l] # port[l]
          PROVE  monitor.vol \notin Volume /\ monitor' # monitor
      BY <1>1, <2>3, Carried
    <2> QED
      BY <1>1, <2>1, <2>2, <2>3, Carried
  <1>2. MonitorInv /\ [Next]_vars /\ MonitorInv' => [Overrun]_vars
    BY <1>1
  <1>3. [][Overrun]_vars => OverrunByMonitorOnly
    BY PTL DEF OverrunByMonitorOnly, ReadInRange
  <1> HIDE DEF Overrun
  <1> QED
    BY Inductive, <1>2, <1>3, PTL DEF Spec
=============================================================================
