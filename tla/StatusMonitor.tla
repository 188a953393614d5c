---------------------------- MODULE StatusMonitor ----------------------------
(***************************************************************************)
(* What the window shows of calls and radios and how it is kept fresh:     *)
(*   monitor   checkEventsThread: volume of every line's call, the         *)
(*             push-to-talk label, the radios' frequency every so often    *)
(*   window    the volume and frequency buttons                            *)
(*   worker    calls that begin, get media and end                         *)
(*   receiver  the status word of the transmitter                          *)
(* The monitor holds io_mutex, which no other thread takes.  A call port   *)
(* is known by its line; a volume is counted in steps of 0.1.              *)
(***************************************************************************)
EXTENDS Integers, Sequences

CONSTANTS
    Lines,         \* the lines in the order the code looks at them
    MAX_SLOT_VOLUME, Normal,   \* 2.0 and 1.0, in steps
    Freq,          \* the frequencies a radio may have
    Rounds         \* rounds between two polls: the 10 of count > 10

ASSUME LineAssumption == Lines \in Seq({"phone", "rx", "tx"}) /\ Lines # <<>>
ASSUME VolumeAssumption ==
    MAX_SLOT_VOLUME \in Nat /\ Normal \in 0 .. MAX_SLOT_VOLUME
ASSUME FreqAssumption == Freq \subseteq Nat \ {0} /\ Freq # {}
ASSUME RoundAssumption == Rounds \in Nat

MIN_SLOT_VOLUME == 0
NoPort == -2       \* a call without media: conf_slot is invalid
Line == {Lines[i] : i \in DOMAIN Lines}

VARIABLES
    tracked,       \* lines whose call id is valid
    port,          \* the receive level of a line's conference port
    SLOT_VOLUME,
    lcd_Volume,    \* lcdNumber_Volume
    word,          \* push-to-talk in the transmitter's status word
    m_PttPressed,  \* and lbl_ptt_status, which always changes with it
    freq,          \* the radio's frequency
    lcd_Freq,      \* the frequency shown, 0 if the radio did not answer
    count,
    monitor, window   \* where the threads are

line == <<tracked, port>>
radio == <<word, freq>>
vars == <<line, SLOT_VOLUME, lcd_Volume, m_PttPressed, radio, lcd_Freq, count, monitor, window>>

\* A volume between an addition and its clamp is one step outside.
Level == MIN_SLOT_VOLUME - 1 .. MAX_SLOT_VOLUME + 1

\* A thread is at a step for the line of index i; conf says that the call had
\* a port when it was looked up, vol is the volume as the thread has read it
\* (Normal while it needs none).
MonitorAt == [at : {"test", "format", "show", "load", "adjust", "on", "off", "poll"},
              i : 1 .. Len(Lines), conf : BOOLEAN, vol : Level]
WindowAt == [at : {"idle", "test", "step", "clamp", "format", "show", "load", "adjust"},
             i : 1 .. Len(Lines), conf : BOOLEAN, vol : Level, up : BOOLEAN]
Round(i) == [at |-> "test", i |-> i, conf |-> FALSE, vol |-> Normal]
Idle == [at |-> "idle", i |-> 1, conf |-> FALSE, vol |-> Normal, up |-> FALSE]

TypeOK ==
    /\ tracked \subseteq Line
    /\ port \in [Line -> Level \cup {NoPort}]
    /\ SLOT_VOLUME \in Level /\ lcd_Volume \in Level
    /\ word \in BOOLEAN /\ m_PttPressed \in BOOLEAN
    /\ freq \in Freq /\ lcd_Freq \in Freq \cup {0}
    /\ count \in 0 .. Rounds + 1
    /\ monitor \in MonitorAt /\ window \in WindowAt

Init ==
    /\ tracked = {}
    /\ port = [l \in Line |-> NoPort]
    /\ SLOT_VOLUME = Normal /\ lcd_Volume = Normal
    /\ word = FALSE /\ m_PttPressed = FALSE
    /\ freq \in Freq /\ lcd_Freq \in {0, freq}
    /\ count = 0
    /\ monitor = Round(1)
    /\ window = Idle

-----------------------------------------------------------------------------
(* setSlotVolume, for the thread whose record is t *)

HasPort(i) == port[Lines[i]] # NoPort

\* SLOT_VOLUME is read twice, for the text to display and for the argument of
\* pjsua_conf_adjust_rx_level; either is used in a later step.
Read(t, next) == [t EXCEPT !.at = next, !.vol = SLOT_VOLUME]
Load(t) == [t EXCEPT !.at = "load", !.vol = Normal]

\* The level goes to the port that was looked up.  If that is gone by now its
\* number may be that of another call's port, or of none.
Adjust(t) ==
    LET l == Lines[t.i] IN
    IF port[l] # NoPort THEN port' = [port EXCEPT ![l] = t.vol]
    ELSE \/ UNCHANGED port
         \/ \E k \in Line : port[k] # NoPort /\ port' = [port EXCEPT ![k] = t.vol]

-----------------------------------------------------------------------------
(* checkEventsThread *)

\* After line i: the next line, the label after the transmitter's, the poll
\* after the last.
AfterLine(i) ==
    IF Lines[i] = "tx" THEN [Round(i) EXCEPT !.at = "on"]
    ELSE IF i < Len(Lines) THEN Round(i + 1) ELSE [Round(i) EXCEPT !.at = "poll"]
SkipLine(i) == IF i < Len(Lines) THEN Round(i + 1) ELSE [Round(i) EXCEPT !.at = "poll"]

\* The id is tested and the call looked up.
TestLine ==
    /\ monitor.at = "test"
    /\ monitor' = IF Lines[monitor.i] \in tracked
                  THEN [monitor EXCEPT !.at = "format", !.conf = HasPort(monitor.i)]
                  ELSE SkipLine(monitor.i)
    /\ UNCHANGED <<line, SLOT_VOLUME, lcd_Volume, m_PttPressed, radio, lcd_Freq, count, window>>

\* QString::number, and the argument of the call.
ReadVolume ==
    /\ \/ monitor.at = "format" /\ monitor' = Read(monitor, "show")
       \/ monitor.at = "load" /\ monitor' = Read(monitor, "adjust")
    /\ UNCHANGED <<line, SLOT_VOLUME, lcd_Volume, m_PttPressed, radio, lcd_Freq, count, window>>

ShowVolume ==
    /\ monitor.at = "show"
    /\ lcd_Volume' = monitor.vol
    /\ monitor' = IF monitor.conf THEN Load(monitor) ELSE AfterLine(monitor.i)
    /\ UNCHANGED <<line, SLOT_VOLUME, m_PttPressed, radio, lcd_Freq, count, window>>

\* (Mutant: only a click sets the level.)
ReapplyNothing == UNCHANGED port
Reapply == Adjust(monitor)
ApplyVolume ==
    /\ monitor.at = "adjust"
    /\ Reapply
    /\ monitor' = AfterLine(monitor.i)
    /\ UNCHANGED <<tracked, SLOT_VOLUME, lcd_Volume, m_PttPressed, radio, lcd_Freq, count, window>>

\* get_IPRadioPttStatus is called anew by each of the two tests; without a
\* call it returns 0.
PttOn == word /\ "tx" \in tracked

ShowOn ==
    /\ monitor.at = "on"
    /\ IF PttOn /\ ~m_PttPressed
       THEN m_PttPressed' = TRUE /\ monitor' = SkipLine(monitor.i)
       ELSE UNCHANGED m_PttPressed /\ monitor' = [monitor EXCEPT !.at = "off"]
    /\ UNCHANGED <<line, SLOT_VOLUME, lcd_Volume, radio, lcd_Freq, count, window>>

\* (Mutant: the label is never taken back.)
OffNever == FALSE
Off == ~PttOn /\ m_PttPressed
ShowOff ==
    /\ monitor.at = "off"
    /\ m_PttPressed' = (m_PttPressed /\ ~Off)
    /\ monitor' = SkipLine(monitor.i)
    /\ UNCHANGED <<line, SLOT_VOLUME, lcd_Volume, radio, lcd_Freq, count, window>>

\* getsnmp_int opens a session, asks, closes it; no answer in time counts as
\* 0.  (Mutant: count is reset in every round.)
CountAfterAlways == 0
CountAfter == IF count > Rounds THEN 1 ELSE count + 1
Poll ==
    /\ monitor.at = "poll"
    /\ IF count > Rounds THEN lcd_Freq' \in {0, freq} ELSE UNCHANGED lcd_Freq
    /\ count' = CountAfter
    /\ monitor' = Round(1)
    /\ UNCHANGED <<line, SLOT_VOLUME, lcd_Volume, m_PttPressed, radio, window>>

-----------------------------------------------------------------------------
(* The buttons *)

\* Volume up or down: setSlotVolume for each line that has a call, and each
\* time the shared volume moves one step.
Click(up) ==
    /\ window.at = "idle"
    /\ window' = [Idle EXCEPT !.at = "test", !.up = up]
    /\ UNCHANGED <<line, SLOT_VOLUME, lcd_Volume, m_PttPressed, radio, lcd_Freq, count, monitor>>

NextLine(i) ==
    IF i < Len(Lines) THEN [Idle EXCEPT !.at = "test", !.i = i + 1, !.up = window.up] ELSE Idle

ClickTest ==
    /\ window.at = "test"
    /\ window' = IF Lines[window.i] \in tracked
                 THEN [window EXCEPT !.at = "step", !.conf = HasPort(window.i)]
                 ELSE NextLine(window.i)
    /\ UNCHANGED <<line, SLOT_VOLUME, lcd_Volume, m_PttPressed, radio, lcd_Freq, count, monitor>>

ClickStep ==
    /\ window.at = "step"
    /\ SLOT_VOLUME' = SLOT_VOLUME + (IF window.up THEN 1 ELSE -1)
    /\ window' = [window EXCEPT !.at = "clamp"]
    /\ UNCHANGED <<line, lcd_Volume, m_PttPressed, radio, lcd_Freq, count, monitor>>

\* (Mutant: no upper bound.)
ClampedBelow(up) == IF ~up /\ SLOT_VOLUME <= MIN_SLOT_VOLUME THEN MIN_SLOT_VOLUME ELSE SLOT_VOLUME
Clamped(up) ==
    IF up /\ SLOT_VOLUME >= MAX_SLOT_VOLUME THEN MAX_SLOT_VOLUME
    ELSE IF ~up /\ SLOT_VOLUME <= MIN_SLOT_VOLUME THEN MIN_SLOT_VOLUME
    ELSE SLOT_VOLUME
ClickClamp ==
    /\ window.at = "clamp"
    /\ SLOT_VOLUME' = Clamped(window.up)
    /\ window' = [window EXCEPT !.at = "format"]
    /\ UNCHANGED <<line, lcd_Volume, m_PttPressed, radio, lcd_Freq, count, monitor>>

ClickRead ==
    /\ \/ window.at = "format" /\ window' = Read(window, "show")
       \/ window.at = "load" /\ window' = Read(window, "adjust")
    /\ UNCHANGED <<line, SLOT_VOLUME, lcd_Volume, m_PttPressed, radio, lcd_Freq, count, monitor>>

ClickShow ==
    /\ window.at = "show"
    /\ lcd_Volume' = window.vol
    /\ window' = IF window.conf THEN Load(window) ELSE NextLine(window.i)
    /\ UNCHANGED <<line, SLOT_VOLUME, m_PttPressed, radio, lcd_Freq, count, monitor>>

ClickAdjust ==
    /\ window.at = "adjust"
    /\ Adjust(window)
    /\ window' = NextLine(window.i)
    /\ UNCHANGED <<tracked, SLOT_VOLUME, lcd_Volume, m_PttPressed, radio, lcd_Freq, count, monitor>>

\* setsnmp_int sends one datagram and closes the session: it may be lost.
SetFreq(f) ==
    /\ window.at = "idle"
    /\ freq' \in {freq, f}
    /\ UNCHANGED <<line, SLOT_VOLUME, lcd_Volume, m_PttPressed, word, lcd_Freq, count, monitor, window>>

-----------------------------------------------------------------------------
(* The calls and the transmitter *)

CallBegins(l) ==
    /\ l \notin tracked /\ port[l] = NoPort
    /\ tracked' = tracked \cup {l}
    /\ word' = (word /\ l # "tx")
    /\ UNCHANGED <<port, SLOT_VOLUME, lcd_Volume, m_PttPressed, freq, lcd_Freq, count, monitor, window>>

\* Media starts, or starts again after a re-INVITE, with a new port at the
\* level of the bridge; on_call_audio_state connects it to the sound device.
CallMedia(l) ==
    /\ l \in tracked
    /\ port' = [port EXCEPT ![l] = Normal]
    /\ UNCHANGED <<tracked, SLOT_VOLUME, lcd_Volume, m_PttPressed, radio, lcd_Freq, count, monitor, window>>

CallEnds(l) ==
    /\ l \in tracked
    /\ tracked' = tracked \ {l}
    /\ UNCHANGED <<port, SLOT_VOLUME, lcd_Volume, m_PttPressed, radio, lcd_Freq, count, monitor, window>>

PortFreed(l) ==
    /\ l \notin tracked /\ port[l] # NoPort
    /\ port' = [port EXCEPT ![l] = NoPort]
    /\ UNCHANGED <<tracked, SLOT_VOLUME, lcd_Volume, m_PttPressed, radio, lcd_Freq, count, monitor, window>>

Report ==
    /\ "tx" \in tracked
    /\ word' = ~word
    /\ UNCHANGED <<line, SLOT_VOLUME, lcd_Volume, m_PttPressed, freq, lcd_Freq, count, monitor, window>>

-----------------------------------------------------------------------------
Monitor == TestLine \/ ReadVolume \/ ShowVolume \/ ApplyVolume \/ ShowOn \/ ShowOff \/ Poll
Clicked == ClickTest \/ ClickStep \/ ClickClamp \/ ClickRead \/ ClickShow \/ ClickAdjust
User == (\E up \in BOOLEAN : Click(up)) \/ \E f \in Freq : SetFreq(f)
Peers == Report \/ \E l \in Line : CallBegins(l) \/ CallMedia(l) \/ CallEnds(l) \/ PortFreed(l)

Next == Monitor \/ Clicked \/ User \/ Peers

Spec == Init /\ [][Next]_vars

\* The monitor is a loop that sleeps half a second; a slot of the window that
\* has begun goes on.
FairSpec == Spec /\ WF_vars(Monitor) /\ WF_vars(Clicked)

-----------------------------------------------------------------------------
(* Properties *)

Volume == MIN_SLOT_VOLUME .. MAX_SLOT_VOLUME

\* A click steps over an end of the range before it is clamped.  Only the
\* monitor can carry that further: what a click itself displays or gives to a
\* port is in range, whatever the monitor does meanwhile, and a display or a
\* port that leaves the range does so by a copy that the monitor read between
\* the step and the clamp of a click, which may have returned since.
OverrunByMonitorOnly ==
    [][/\ SLOT_VOLUME' \notin Volume => window'.at = "clamp"
       /\ monitor'.vol \notin Volume => monitor.vol = monitor'.vol \/ window.at = "clamp"
       /\ (\/ lcd_Volume' \notin Volume /\ lcd_Volume' # lcd_Volume
           \/ \E l \in Line : port'[l] \notin Volume \cup {NoPort} /\ port'[l] # port[l])
             => monitor.vol \notin Volume /\ monitor' # monitor]_vars

\* While a line's call stays up, a display out of range is put right again,
\* however much is clicked.  Once nobody clicks, the display settles on the
\* volume, and the line gets that level again however often its stream is set
\* up anew, although a port may go between its look-up and its use, and the
\* monitor may still carry a volume that a click has replaced.
VolumeSettles ==
    \A l \in Line :
        /\ <>[](l \in tracked) => []<>(lcd_Volume \in Volume)
        /\ \A v \in Volume :
              <>[](window.at = "idle" /\ SLOT_VOLUME = v /\ l \in tracked /\ port[l] # NoPort) =>
                  <>[](lcd_Volume = v) /\ []<>(port[l] = v)

\* While the transmitter's call stays up, the label settles on what its
\* adapter holds, although the monitor asks twice in each round and the word
\* may change in between.  (When the call ends, the label keeps what it said.)
LabelSettles ==
    \A on \in BOOLEAN : <>[]("tx" \in tracked /\ word = on) => <>[](m_PttPressed = on)

\* Once the radio keeps a frequency, the window shows it or that the radio
\* does not answer, never an earlier one, although nobody waits for the
\* answer to a change.
FrequencySettles == \A f \in Freq : <>[](freq = f) => <>[](lcd_Freq \in {0, f})
=============================================================================
