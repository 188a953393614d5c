-------------------------------- MODULE PttKey --------------------------------
(***************************************************************************)
(* What the push-to-talk thread promises its listener.  Presses and        *)
(* releases are reported in turn, each of them once; while the thread      *)
(* handles what the device said it may be behind or hold a report back,    *)
(* but it waits for the device again only when its last report is what the *)
(* device said last.                                                       *)
(* The delay, the two kinds of device, losing and finding one: none shows. *)
(***************************************************************************)
VARIABLES
    key,         \* the device said last that the key is down
    reported,    \* the last report was a press
    waiting,     \* the thread waits for the device
    listening,   \* there is a listener
    told         \* the last report it heard

keyVars == <<key, reported, waiting, listening, told>>

Init ==
    /\ key = FALSE /\ reported = FALSE /\ waiting = FALSE
    /\ listening = FALSE /\ told = "nothing"

Word(down) == IF down THEN "pressed" ELSE "released"

\* Report down, unless that was the last report.
Say(down) ==
    /\ reported' = down
    /\ told' = IF listening /\ down # reported THEN Word(down) ELSE told

\* A listener that comes late hears of the changes from then on.
Listen ==
    /\ ~listening /\ listening' = TRUE
    /\ UNCHANGED <<key, reported, waiting, told>>

\* The device speaks or is lost.
Hear ==
    /\ waiting /\ waiting' = FALSE
    /\ key' \in BOOLEAN
    /\ \E down \in {reported, key'} : Say(down)
    /\ UNCHANGED listening

\* The thread goes on and, once its reports have caught up, waits again.
Work ==
    /\ ~waiting /\ waiting' \in BOOLEAN
    /\ \E down \in {reported, key} : Say(down) /\ (waiting' => down = key)
    /\ UNCHANGED <<key, listening>>

Next == Listen \/ Hear \/ Work

Spec == Init /\ [][Next]_keyVars
=============================================================================
