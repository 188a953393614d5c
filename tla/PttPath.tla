------------------------------- MODULE PttPath -------------------------------
(***************************************************************************)
(* Push to talk from the key to the air: CallControl and PttManager put    *)
(* together.  pttPressed and pttReleased run on the device thread, which   *)
(* goes on only when they have returned, while the window and pjsua's      *)
(* worker have their turn as always.                                       *)
(***************************************************************************)
EXTENDS CallControl, PttManager

VARIABLES
    pressedOn,   \* history: the transmitter tracked at the press told last
    clicked      \* history: the check box was clicked since the last report

history == <<pressedOn, clicked>>
pathVars == <<vars, deviceVars, history>>

PathInit == Init /\ DeviceInit /\ pressedOn = NoCall /\ clicked = FALSE

-----------------------------------------------------------------------------
\* A step of call control; the device thread enters no handler by itself.
\* The constructor of the window registers it before there is a click.
PhoneStep ==
    /\ Next
    /\ pc["ptt"] = "idle" => pc'["ptt"] = "idle"
    /\ ~listening => pc["ui"] = "idle" /\ pc'["ui"] = "idle"
    /\ pressedOn' = IF pressedOn # NoCall /\ st'[pressedOn] = "null" THEN NoCall ELSE pressedOn
    /\ clicked' = (clicked \/ (pc["ui"] = "idle" /\ pc'["ui"] = "find"))
    /\ UNCHANGED deviceVars

\* A report calls pttPressed or pttReleased.
TellWindow(word) == Ptt("ptt", word = "pressed")

\* A step of the device thread.
DeviceStep ==
    /\ pc["ptt"] = "idle"
    /\ Event \/ Loop
    /\ IF told' = told
       THEN UNCHANGED <<vars, history>>
       ELSE /\ TellWindow(told')
            /\ pressedOn' = IF told' = "pressed" THEN current["tx"] ELSE NoCall
            /\ clicked' = FALSE

\* What happens around the thread.
WorldStep ==
    /\ Tick \/ ClockStep \/ Unplug \/ Replug \/ AddPttListener
    /\ UNCHANGED <<vars, history>>

PathNext == PhoneStep \/ DeviceStep \/ WorldStep

PathSpec == PathInit /\ [][PathNext]_pathVars

-----------------------------------------------------------------------------
(* Properties *)

OnAir(c) == \E a \in Adapter : owner[a] = c /\ pttstatus[a]

\* While the thread waits for the device, no handler runs and the check box
\* was left alone since the last report, the air follows the key: with the key
\* up the transmitter the Tx button stands for is not keyed, whatever calls
\* came and went since the press; with the key down the transmitter that was
\* tracked at the press is keyed for as long as its call has a slot.
AirFollowsKey ==
    ~Preemptive /\ ~LateFailure /\ WellRouted =>
        (phase = "read" /\ ~clicked /\ (\A t \in Thread : pc[t] = "idle") =>
            /\ ~m_PttStatus /\ current["tx"] # NoCall => ~OnAir(current["tx"])
            /\ m_PttStatus /\ pressedOn # NoCall => OnAir(pressedOn))
=============================================================================
