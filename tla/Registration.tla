----------------------------- MODULE Registration -----------------------------
(***************************************************************************)
(* The life of the program around its calls: StartSip and the constructor, *)
(* the Register button with pjsua's account table, and app_exit.           *)
(*   window   the constructor, then one slot at a time of Qt's event loop  *)
(*   worker   pjsua's thread: answers to REGISTER, the states of the call  *)
(* pjsua takes its lock for each of its functions and holds it while it    *)
(* calls on_reg_state, so one pjsua call is one step.  What on_reg_state   *)
(* emits reaches the window later, through Qt's event queue.               *)
(***************************************************************************)
EXTENDS Integers, Sequences

CONSTANTS
    MaxAcc,        \* PJSUA_MAX_ACC, the size of pjsua's account table
    MaxSignals     \* bound: signals waiting for the window

ASSUME AccAssumption == MaxAcc \in Nat /\ MaxAcc > 1
ASSUME SignalAssumption == MaxSignals \in Nat

Slot == 0 .. MaxAcc - 1
PJSUA_INVALID_ID == -1

VARIABLES
    window,        \* what the window's thread is doing
    account,       \* pjsua's table
    reg,           \* pjsua's registration client of each account
    default_acc,   \* pjsua's default account
    acc_id, m_Register,
    button,        \* the text of pushButton_register
    signals,       \* stateRegChanged, emitted and not yet delivered
    calls,         \* the call with a radio and that with a phone, current_call
    m_AutoCall,
    tcpOpened,     \* a TCP client connected at some time
    hasty          \* Register pressed with a user account there already, or
                   \* Unregister with a stateRegChanged(true) on its way

pj == <<account, reg, default_acc>>
ui == <<button, hasty>>
other == <<m_AutoCall, tcpOpened>>
vars == <<window, pj, acc_id, m_Register, ui, signals, calls, other>>

Line == {"radio", "phone"}

Exiting == {"udp", "tcp", "hangup", "default", "default_del", "user", "user_del",
            "destroy", "drain"}
Ended == {"exit", "error", "abort"}

\* pjsua runs from pjsua_start until pjsua_destroy is done.
Running == window \notin {"new"} \cup Ended

TypeOK ==
    /\ window \in {"new", "tone", "links", "run", "unregister", "failing"} \cup Exiting \cup Ended
    /\ account \in [Slot -> {"free", "default", "user"}]
    /\ reg \in [Slot -> {"none", "pending", "ok", "leaving", "failed"}]
    /\ default_acc \in Slot
    /\ acc_id \in Slot \cup {PJSUA_INVALID_ID}
    /\ m_Register \in BOOLEAN
    /\ button \in {"Register", "Unregister"}
    /\ signals \in Seq(BOOLEAN)
    /\ calls \in [Line -> {"none", "up", "ending"}]
    /\ m_AutoCall \in BOOLEAN /\ tcpOpened \in BOOLEAN
    /\ hasty \in BOOLEAN

Init ==
    /\ window = "new"
    /\ account = [a \in Slot |-> "free"]
    /\ reg = [a \in Slot |-> "none"]
    /\ default_acc = 0
    /\ acc_id = PJSUA_INVALID_ID
    /\ m_Register = FALSE
    /\ button = "Register"
    /\ signals = <<>>
    /\ calls = [l \in Line |-> "none"]
    /\ m_AutoCall = FALSE /\ tcpOpened = FALSE
    /\ hasty = FALSE

-----------------------------------------------------------------------------
(* pjsua, as the program uses it *)

pjsua_acc_is_valid(a) == a # PJSUA_INVALID_ID /\ account[a] # "free"

FreeSlots == {a \in Slot : account[a] = "free"}
FirstFree == CHOOSE a \in FreeSlots : \A b \in FreeSlots : a <= b

\* An account with a registrar begins to register at once.
pjsua_acc_add(kind) ==
    /\ account' = [account EXCEPT ![FirstFree] = kind]
    /\ reg' = [reg EXCEPT ![FirstFree] = IF kind = "user" THEN "pending" ELSE "none"]
    /\ default_acc' = FirstFree

\* Refused without a registration client or with a request under way.
CanUnregister(a) == reg[a] = "ok"

\* Deleting the default account makes account 0 the default.
pjsua_acc_del(a) ==
    /\ account' = [account EXCEPT ![a] = "free"]
    /\ reg' = [reg EXCEPT ![a] = "none"]
    /\ default_acc' = IF default_acc = a THEN 0 ELSE default_acc

HangUp(lines) ==
    calls' = [l \in Line |-> IF l \in lines /\ calls[l] = "up" THEN "ending" ELSE calls[l]]
pjsua_call_hangup_all == HangUp(Line)

-----------------------------------------------------------------------------
(* The constructor *)

\* StartSip up to pjsua_start.  Each step may fail, and error_exit ends the
\* program.
StartSip ==
    /\ window = "new"
    /\ \/ /\ pjsua_acc_add("default")
          /\ acc_id' = FirstFree
          /\ window' = "tone"
       \/ /\ window' = "error"
          /\ UNCHANGED <<pj, acc_id>>
    /\ UNCHANGED <<m_Register, ui, signals, calls, other>>

\* init_ringTone, and the constructors of the UDP and the TCP link: each may
\* throw, nobody catches, and pjsua is not shut down.
InitNext == [tone |-> "links", links |-> "run"]
Construct ==
    /\ window \in DOMAIN InitNext
    /\ window' \in {InitNext[window], "abort"}
    /\ UNCHANGED <<pj, acc_id, m_Register, ui, signals, calls, other>>

-----------------------------------------------------------------------------
(* The Register button *)

UserAccounts == {a \in Slot : account[a] = "user"}

\* acc_add writes the id before the request goes out.
RegisterUser ==
    /\ window = "run" /\ button = "Register"
    /\ FreeSlots # {}
    /\ pjsua_acc_add("user")
    /\ acc_id' = FirstFree
    /\ hasty' = (hasty \/ UserAccounts # {})
    /\ UNCHANGED <<window, m_Register, button, signals, calls, other>>

\* A full table: error_exit hangs up, unregisters and destroys pjsua.
RegisterUserFails ==
    /\ window = "run" /\ button = "Register"
    /\ FreeSlots = {}
    /\ pjsua_call_hangup_all
    /\ reg' = IF pjsua_acc_is_valid(acc_id) /\ CanUnregister(acc_id)
              THEN [reg EXCEPT ![acc_id] = "leaving"] ELSE reg
    /\ window' = "failing"
    /\ UNCHANGED <<account, default_acc, acc_id, m_Register, ui, signals, other>>

\* removeUser and removeDefault, which are the same code, up to the answer of
\* set_registration.  (Mutant: the answer is not looked at.)
GoesOnAlways(a) == TRUE
GoesOn(a) == CanUnregister(a)
RemoveBegins(del, next) ==
    IF pjsua_acc_is_valid(acc_id)
    THEN /\ HangUp({"phone"})
         /\ reg' = IF CanUnregister(acc_id) THEN [reg EXCEPT ![acc_id] = "leaving"] ELSE reg
         /\ window' = IF GoesOn(acc_id) THEN del ELSE next
    ELSE window' = next /\ UNCHANGED <<reg, calls>>

\* acc_del succeeds.
RemoveEnds ==
    /\ pjsua_acc_del(acc_id)
    /\ acc_id' = PJSUA_INVALID_ID

UnRegisterUser ==
    /\ window = "run" /\ button = "Unregister"
    /\ RemoveBegins("unregister", "run")
    /\ UNCHANGED <<account, default_acc, acc_id, m_Register, ui, signals, other>>

\* UpdateDefault finds the id invalid and does nothing.
UnRegistered ==
    /\ window = "unregister"
    /\ RemoveEnds
    /\ button' = "Register"
    /\ hasty' = (hasty \/ \E i \in DOMAIN signals : signals[i])
    /\ window' = "run"
    /\ UNCHANGED <<m_Register, signals, calls, other>>

\* onRegStateChanged
OnRegStateChanged ==
    /\ window = "run" /\ signals # <<>>
    /\ button' = IF Head(signals) THEN "Unregister" ELSE "Register"
    /\ signals' = Tail(signals)
    /\ UNCHANGED <<window, pj, acc_id, m_Register, hasty, calls, other>>

ToggleAuto ==
    /\ window = "run"
    /\ m_AutoCall' = ~m_AutoCall
    /\ UNCHANGED <<window, pj, acc_id, m_Register, ui, signals, calls, tcpOpened>>

-----------------------------------------------------------------------------
(* The worker *)

\* on_reg_state of account a: expires is positive after a success and
\* negative once the registration client is gone.  (Mutant: a failure is not
\* told to the window.)
EmittedOnlyOn(v) == IF v THEN Append(signals, TRUE) ELSE signals
Emitted(v) == Append(signals, v)
OnRegState(a, v) ==
    /\ m_Register' = v
    /\ signals' = Emitted(v)
    /\ UNCHANGED <<account, default_acc, acc_id, ui, calls, other, window>>

RegAccepted(a) ==
    /\ Running /\ Len(signals) < MaxSignals
    /\ reg[a] = "pending"
    /\ reg' = [reg EXCEPT ![a] = "ok"]
    /\ OnRegState(a, TRUE)

\* Rejected, timed out, or gone because it was unregistered.
RegLost(a) ==
    /\ Running /\ Len(signals) < MaxSignals
    /\ reg[a] \in {"pending", "leaving"}
    /\ reg' = [reg EXCEPT ![a] = IF @ = "leaving" THEN "none" ELSE "failed"]
    /\ OnRegState(a, FALSE)

\* pjsua refreshes a registration and, after some kinds of failure, tries
\* again by itself.
RegRefresh(a) ==
    /\ Running
    /\ reg[a] \in {"ok", "failed"}
    /\ reg' = [reg EXCEPT ![a] = "pending"]
    /\ UNCHANGED <<window, account, default_acc, acc_id, m_Register, ui, signals, calls, other>>

\* A call is made or comes in; pjsua takes none once it is being destroyed.
CallUp(l) ==
    /\ Running /\ window \notin {"drain", "failing"}
    /\ calls[l] = "none"
    /\ calls' = [calls EXCEPT ![l] = "up"]
    /\ UNCHANGED <<window, pj, acc_id, m_Register, ui, signals, other>>

\* DISCONNECTED: with auto-call a radio is dialled again at once.
Disconnected(l) ==
    /\ Running
    /\ calls[l] # "none"
    /\ calls' = [calls EXCEPT ![l] = IF m_AutoCall /\ l = "radio" THEN "up" ELSE "none"]
    /\ UNCHANGED <<window, pj, acc_id, m_Register, ui, signals, other>>

TcpClient ==
    /\ window = "run"
    /\ tcpOpened' = TRUE
    /\ UNCHANGED <<window, pj, acc_id, m_Register, ui, signals, calls, m_AutoCall>>

-----------------------------------------------------------------------------
(* app_exit *)

Exit ==
    /\ window = "run"
    /\ window' = "udp"
    /\ UNCHANGED <<pj, acc_id, m_Register, ui, signals, calls, other>>

\* Uinit of the UDP link and of the TCP link, whose cancel() throws when the
\* socket was never opened; nothing catches on the way out of main.
UinitUdp ==
    /\ window = "udp"
    /\ window' = "tcp"
    /\ UNCHANGED <<pj, acc_id, m_Register, ui, signals, calls, other>>

UinitTcp ==
    /\ window = "tcp"
    /\ window' = IF tcpOpened THEN "hangup" ELSE "abort"
    /\ UNCHANGED <<pj, acc_id, m_Register, ui, signals, calls, other>>

ExitHangup ==
    /\ window = "hangup"
    /\ pjsua_call_hangup_all
    /\ window' = "default"
    /\ UNCHANGED <<pj, acc_id, m_Register, ui, signals, other>>

\* removeDefault, then removeUser: the second finds nothing left unless the
\* first was refused.  (Mutant: pjsua is not destroyed at the end.)
AfterRemoveQuits == "exit"
AfterRemove == "destroy"
ExitRemove ==
    /\ \/ window = "default" /\ RemoveBegins("default_del", "user")
       \/ window = "user" /\ RemoveBegins("user_del", AfterRemove)
    /\ UNCHANGED <<account, default_acc, acc_id, m_Register, ui, signals, other>>

ExitDelete ==
    /\ window \in {"default_del", "user_del"}
    /\ RemoveEnds
    /\ window' = IF window = "default_del" THEN "user" ELSE AfterRemove
    /\ UNCHANGED <<m_Register, ui, signals, calls, other>>

\* pjsua_destroy hangs up and unregisters all there is, then handles events
\* for a while.
Destroy ==
    /\ window = "destroy"
    /\ pjsua_call_hangup_all
    /\ reg' = [a \in Slot |-> IF CanUnregister(a) THEN "leaving" ELSE reg[a]]
    /\ window' = "drain"
    /\ UNCHANGED <<account, default_acc, acc_id, m_Register, ui, signals, other>>

Quit ==
    /\ window \in {"drain", "failing"}
    /\ window' = IF window = "drain" THEN "exit" ELSE "error"
    /\ UNCHANGED <<pj, acc_id, m_Register, ui, signals, calls, other>>

-----------------------------------------------------------------------------
Window ==
    \/ StartSip \/ Construct \/ OnRegStateChanged \/ UnRegistered
    \/ UinitUdp \/ UinitTcp \/ ExitHangup \/ ExitRemove \/ ExitDelete \/ Destroy \/ Quit

User == RegisterUser \/ RegisterUserFails \/ UnRegisterUser \/ ToggleAuto \/ Exit

Worker ==
    \/ \E a \in Slot : RegAccepted(a) \/ RegLost(a) \/ RegRefresh(a)
    \/ \E l \in Line : CallUp(l) \/ Disconnected(l)
    \/ TcpClient

Next == Window \/ User \/ Worker

Spec == Init /\ [][Next]_vars

-----------------------------------------------------------------------------
(* Properties *)

\* Calls are made from pjsua_acc_get_default(): whatever was registered,
\* refused, removed or overwritten, that account exists from pjsua_start to
\* the end.  It rests on the very fact that the phone's own account has no
\* registration client, so that removing it is always refused.
DefaultIsLive == Running => account[default_acc] # "free"

\* As long as no second account was added beside the first and no success
\* was on its way when Unregister was pressed, a button that reads
\* "Unregister" has an account to remove: one that registers or is
\* registered, or whose failure the window is about to hear.  (After either,
\* the button may read so for good with nothing behind it.)
UnregisterHasAccount ==
    button = "Unregister" /\ ~hasty /\ window \in {"run", "unregister"} =>
        /\ acc_id \in UserAccounts
        /\ reg[acc_id] \in {"pending", "ok", "leaving"} \/ \E i \in DOMAIN signals : ~signals[i]

\* No call is up that nobody hung up, but one that auto-call dialled again.
NoneLeftUp == \A l \in Line : calls[l] = "up" => m_AutoCall /\ l = "radio"

\* When exit() is reached every call was hung up, whichever call came or
\* ended while the program was shutting down.
ExitHangsUp == window = "exit" => NoneLeftUp

\* Functions.cpp:728 "clean application exit": once the exit button was
\* pressed, the program ends with no call that nobody hung up.
ExitIsClean == [][(window \in Exiting /\ window' \in Ended) => NoneLeftUp]_vars
=============================================================================
