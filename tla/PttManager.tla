------------------------------ MODULE PttManager ------------------------------
(***************************************************************************)
(* The push-to-talk thread of PttManager.cpp: the loop of runThread, the   *)
(* two device handlers, the short-press timer, loss and re-opening of the  *)
(* HID device, and the fan-out of PttAdapter.cpp to a listener that        *)
(* registers after the thread has started.                                 *)
(*                                                                         *)
(* Time is kept as the code compares it: "age" is the time since           *)
(* m_PttpressedTime ("zero": none, or less) and "gap" is m_PttReleasedTime *)
(* - m_PttpressedTime, each against m_PttDelay.                            *)
(***************************************************************************)
EXTENDS Naturals

VARIABLES
    phase,          \* where in the loop the thread is
    pttState,       \* local of runThread
    pttHandlerFn,   \* local of runThread: tiproPttHandler or othersPttHandler
    m_PttStatusMp,  \* what the listeners were told
    m_PttStatus,    \* what the device said last
    m_shortPress,
    stateDev4,      \* static locals of othersPttHandler: handset, headset held
    stateDev1,
    age,            \* now - m_PttpressedTime
    gap,            \* m_PttReleasedTime - m_PttpressedTime
    ahead,          \* m_PttReleasedTime is later than now, when the clock was set back
    stepped,        \* history: the clock was set since the last press
    fd,             \* what m_FD is: -1, the device, a device gone, a closed number
    plugged,        \* findPttDev would find the device
    listening,      \* addPttListener was called
    told            \* the last pttPressed/pttReleased the listener saw

time == <<age, gap, ahead, stepped>>
device == <<fd, plugged>>
handler == <<pttHandlerFn, stateDev4, stateDev1>>
deviceVars == <<phase, pttState, m_PttStatusMp, m_PttStatus, m_shortPress, handler, time, device,
          listening, told>>

\* "sleep" is inside starTimer, which runs its own io_service to the end:
\* m_isTimerRunning is true exactly there.
Phase == {"start", "head", "read", "sleep", "find", "open", "nap", "returned"}

DeviceTypeOK ==
    /\ phase \in Phase
    /\ pttState \in {"PRESSED", "RELEASED"}
    /\ m_PttStatusMp \in BOOLEAN /\ m_PttStatus \in BOOLEAN /\ m_shortPress \in BOOLEAN
    /\ pttHandlerFn \in {"none", "tipro", "others"}
    /\ stateDev4 \in BOOLEAN /\ stateDev1 \in BOOLEAN
    /\ age \in {"never", "zero", "short", "long"}
    /\ gap \in {"none", "short", "long"}
    /\ ahead \in {"never", "no", "perhaps"} /\ stepped \in BOOLEAN
    /\ fd \in {"none", "open", "gone", "stale"}
    /\ plugged \in BOOLEAN /\ listening \in BOOLEAN
    /\ told \in {"nothing", "pressed", "released"}

DeviceInit ==
    /\ phase = "start"
    /\ pttState = "RELEASED"
    /\ m_PttStatusMp = FALSE /\ m_PttStatus = FALSE /\ m_shortPress = FALSE
    /\ pttHandlerFn = "none" /\ stateDev4 = FALSE /\ stateDev1 = FALSE
    /\ age = "never" /\ gap = "none" /\ ahead = "never" /\ stepped = FALSE
    /\ fd = "none" /\ plugged = TRUE
    /\ listening = FALSE /\ told = "nothing"

-----------------------------------------------------------------------------
(* Environment *)

Tick ==
    /\ age \in {"zero", "short"}
    /\ age' = IF age = "zero" THEN "short" ELSE "long"
    /\ UNCHANGED <<phase, pttState, m_PttStatusMp, m_PttStatus, m_shortPress, handler, gap, ahead,
                   stepped, device, listening, told>>

\* The stamps are read off the local wall clock, which somebody may set: the
\* press is then any time ago, or not yet, and so is the release.
ClockStep ==
    /\ age # "never" \/ ahead # "never"
    /\ age' \in IF age = "never" THEN {age} ELSE {"zero", "short", "long"}
    /\ ahead' \in IF ahead = "never" THEN {ahead} ELSE {"no", "perhaps"}
    /\ stepped' = TRUE
    /\ UNCHANGED <<phase, pttState, m_PttStatusMp, m_PttStatus, m_shortPress, handler, gap, device,
                   listening, told>>

Unplug ==
    /\ plugged /\ plugged' = FALSE
    /\ fd' = IF fd = "open" THEN "gone" ELSE fd
    /\ UNCHANGED <<phase, pttState, m_PttStatusMp, m_PttStatus, m_shortPress, handler, time,
                   listening, told>>

Replug ==
    /\ ~plugged /\ plugged' = TRUE
    /\ UNCHANGED <<phase, pttState, m_PttStatusMp, m_PttStatus, m_shortPress, handler, time, fd,
                   listening, told>>

\* initializePttManager: the constructor started the thread, then the window
\* registers; an event reported in between has no listener.
AddPttListener ==
    /\ ~listening /\ listening' = TRUE
    /\ UNCHANGED <<phase, pttState, m_PttStatusMp, m_PttStatus, m_shortPress, handler, time, device,
                   told>>

-----------------------------------------------------------------------------
(* The loop *)

\* Tell the listeners and remember it.
Report(pressed) ==
    /\ told' = IF ~listening THEN told ELSE IF pressed THEN "pressed" ELSE "released"
    /\ m_PttStatusMp' = pressed
    /\ pttState' = IF pressed THEN "PRESSED" ELSE "RELEASED"

ReportNothing == UNCHANGED <<told, m_PttStatusMp, pttState>>

\* The device is opened once before the loop and its vendor picks the handler
\* for good; when it cannot be opened the thread ends.
Start ==
    /\ phase = "start"
    /\ \/ /\ plugged
          /\ phase' = "head" /\ fd' = "open" /\ pttHandlerFn' \in {"tipro", "others"}
       \/ /\ ~plugged
          /\ phase' = "returned" /\ fd' = "none" /\ UNCHANGED pttHandlerFn
    /\ UNCHANGED <<pttState, m_PttStatusMp, m_PttStatus, m_shortPress, stateDev4, stateDev1, time,
                   plugged, listening, told>>

\* Top of the loop: after a short press, report what the device ended with.
\* (Mutants: the branch that reports a press is missing; nothing is reported.)
AfterShortPressSilent == ReportNothing
AfterShortPressReleasesOnly ==
    IF m_shortPress /\ m_PttStatusMp /\ ~m_PttStatus THEN Report(FALSE) ELSE ReportNothing
AfterShortPress ==
    IF m_shortPress /\ m_PttStatusMp # m_PttStatus THEN Report(m_PttStatus) ELSE ReportNothing

Head ==
    /\ phase = "head"
    /\ phase' = "read"
    /\ m_shortPress' = FALSE
    /\ AfterShortPress
    /\ UNCHANGED <<m_PttStatus, handler, time, device, listening>>

\* m_PttpressedTime = now, m_PttReleasedTime = now.  A release without any
\* press before it subtracts 0: the difference does not fit an unsigned int
\* and the conversion may give anything.  A press may find the release before
\* to be later than itself.
NoStamp == UNCHANGED time
StampPress ==
    /\ age' = "zero" /\ stepped' = FALSE /\ UNCHANGED ahead
    /\ gap' \in IF ahead = "perhaps" THEN {"none", "short", "long"} ELSE {"none"}
StampRelease ==
    /\ ahead' = "no" /\ UNCHANGED <<age, stepped>>
    /\ gap' \in CASE age = "zero" -> {"none"}
                  [] age = "never" -> {"short", "long"}
                  [] OTHER -> {age}
StampBoth == age' = "zero" /\ gap' = "none" /\ ahead' = "no" /\ stepped' = FALSE

\* What follows a recognised event s ("PRESSED", "RELEASED", "HOOK"), with
\* the times already stamped: a press shorter than m_PttDelay is slept out
\* and nothing else is done with the event, else the switch.
\* (Mutant: every release is reported at once.)
ActAtOnce(s) ==
    /\ phase' = "head" /\ UNCHANGED m_shortPress
    /\ IF s # "HOOK" /\ s # pttState THEN Report(s = "PRESSED") ELSE ReportNothing
Act(s) ==
    IF gap' = "short"
    THEN phase' = "sleep" /\ m_shortPress' = TRUE /\ ReportNothing
    ELSE ActAtOnce(s)

Ignore == phase' = "head" /\ UNCHANGED <<m_PttStatus, m_shortPress, handler, time>> /\ ReportNothing

Readable == phase = "read" /\ fd = "open"

\* tiproPttHandler: one key per report.
TiproPress ==
    /\ Readable /\ pttHandlerFn = "tipro"
    /\ StampPress /\ m_PttStatus' = TRUE
    /\ Act("PRESSED")
    /\ UNCHANGED <<handler, device, listening>>

TiproRelease ==
    /\ Readable /\ pttHandlerFn = "tipro"
    /\ StampRelease /\ m_PttStatus' = FALSE
    /\ Act("RELEASED")
    /\ UNCHANGED <<handler, device, listening>>

TiproHook ==
    /\ Readable /\ pttHandlerFn = "tipro"
    /\ UNCHANGED <<m_PttStatus, time>>
    /\ Act("HOOK")
    /\ UNCHANGED <<handler, device, listening>>

\* A report neither handler knows, or a short read.
Unknown ==
    /\ Readable
    /\ Ignore
    /\ UNCHANGED <<device, listening>>

\* othersPttHandler tests *state before runThread has given it a value, so a
\* time may or may not be stamped.
UsbPress ==
    /\ Readable /\ pttHandlerFn = "others"
    /\ StampPress \/ NoStamp
    /\ m_PttStatus' = TRUE
    /\ Act("PRESSED")
    /\ UNCHANGED <<handler, device, listening>>

UsbRelease ==
    /\ Readable /\ pttHandlerFn = "others"
    /\ StampRelease \/ NoStamp
    /\ m_PttStatus' = FALSE
    /\ Act("RELEASED")
    /\ UNCHANGED <<handler, device, listening>>

\* A joystick report carries the handset (b4) and the headset (b1) key.  Each
\* key that changed sets the same status.  The headset is looked at last and
\* finds in *state what the handset left there: after a handset press it
\* stamps its release, after a handset release its press.
Joystick(b4, b1) ==
    LET changed4 == b4 # stateDev4
        changed1 == b1 # stateDev1
        last == IF changed1 THEN b1 ELSE b4
    IN
    /\ Readable /\ pttHandlerFn = "others"
    /\ changed4 \/ changed1
    /\ stateDev4' = b4 /\ stateDev1' = b1
    /\ CASE changed4 /\ changed1 /\ b1 /\ ~b4 -> StampPress \/ StampBoth
         [] changed4 /\ changed1 /\ ~b1 /\ b4 -> StampRelease \/ StampBoth
         [] OTHER -> NoStamp \/ (IF last THEN StampPress ELSE StampRelease)
    /\ m_PttStatus' = last
    /\ Act(IF last THEN "PRESSED" ELSE "RELEASED")
    /\ UNCHANGED <<pttHandlerFn, device, listening>>

\* starTimer returns m_PttDelay after the press, sooner if the release it was
\* told of is the one before.
TimerExpires ==
    /\ phase = "sleep"
    /\ phase' = "head"
    /\ IF age \in {"zero", "short"}
       THEN age' \in IF ahead = "perhaps" THEN {"short", "long"} ELSE {"long"}
       ELSE UNCHANGED age
    /\ UNCHANGED <<pttState, m_PttStatusMp, m_PttStatus, m_shortPress, handler, gap, ahead,
                   stepped, device, listening, told>>

\* read fails: close whatever number m_FD holds.
ReadError ==
    /\ phase = "read" /\ fd # "open"
    /\ phase' = "find"
    /\ fd' = IF fd = "none" THEN "none" ELSE "stale"
    /\ UNCHANGED <<pttState, m_PttStatusMp, m_PttStatus, m_shortPress, handler, time, plugged,
                   listening, told>>

\* findPttDev of tryToReOpenDevice; when it finds nothing m_FD keeps its value.
Find ==
    /\ phase = "find"
    /\ phase' = IF plugged THEN "open" ELSE "nap"
    /\ UNCHANGED <<pttState, m_PttStatusMp, m_PttStatus, m_shortPress, handler, time, device,
                   listening, told>>

\* openDevice of tryToReOpenDevice.  (Mutant: the new descriptor is lost.)
ReOpenForgets == fd' = fd /\ phase' = "head"
ReOpen ==
    IF plugged THEN fd' = "open" /\ phase' = "head" ELSE fd' = "none" /\ phase' = "nap"

Open ==
    /\ phase = "open"
    /\ ReOpen
    /\ UNCHANGED <<pttState, m_PttStatusMp, m_PttStatus, m_shortPress, handler, time, plugged,
                   listening, told>>

\* sleep(5), then round again.
Nap ==
    /\ phase = "nap"
    /\ phase' = "head"
    /\ UNCHANGED <<pttState, m_PttStatusMp, m_PttStatus, m_shortPress, handler, time, device,
                   listening, told>>

-----------------------------------------------------------------------------
Event ==
    \/ TiproPress \/ TiproRelease \/ TiproHook \/ Unknown
    \/ UsbPress \/ UsbRelease
    \/ \E b4, b1 \in BOOLEAN : Joystick(b4, b1)

\* Everything the thread does without waiting for the device.
Loop == Start \/ Head \/ TimerExpires \/ ReadError \/ Find \/ Open \/ Nap

DeviceNext == Tick \/ ClockStep \/ Unplug \/ Replug \/ AddPttListener \/ Event \/ Loop

DeviceSpec == DeviceInit /\ [][DeviceNext]_deviceVars
DeviceFairSpec == DeviceSpec /\ WF_deviceVars(Loop)

-----------------------------------------------------------------------------
(* Properties *)

Key == INSTANCE PttKey
           WITH key <- m_PttStatus, reported <- m_PttStatusMp, waiting <- (phase = "read")

\* The thread keeps the promise of PttKey: no press and no release is lost,
\* repeated or reported out of turn in the short-press handling, in the switch
\* on a state that was never initialised, in the two-key joystick report, by a
\* clock that is set, or when the device comes and goes.
ImplementsKey == Key!Spec

\* With a Tipro handset the transmitter is never unkeyed while the last press
\* is younger than m_PttDelay (a press and release within the same
\* millisecond excepted, and a clock set in between): short presses are
\* stretched.
ShortPressIsStretched ==
    [][pttHandlerFn = "tipro" /\ told = "pressed" /\ told' = "released" =>
         age # "short" \/ stepped]_deviceVars

\* A key that was let go does not stay reported as pressed.
ReleaseIsReported == told = "pressed" /\ ~m_PttStatus ~> told = "released" \/ m_PttStatus

\* A device that comes back for good is opened and stays open, however often
\* it was lost before, unless it was missing when the thread started.
DeviceComesBack == <>[]plugged => <>[](fd = "open" \/ phase = "returned")
=============================================================================
