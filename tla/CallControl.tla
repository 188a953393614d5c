----------------------------- MODULE CallControl -----------------------------
(***************************************************************************)
(* Call control of SoftPhone.cpp: the Rx, Tx and phone buttons, the pjsua  *)
(* callbacks, the call ids the window keeps, the map from call id to media *)
(* adapter and the push-to-talk path that uses both.                       *)
(*                                                                         *)
(* Three threads run this code: the Qt main thread ("ui"), pjsua's worker  *)
(* ("worker", all callbacks) and the thread of PttManager ("ptt").  They   *)
(* share the fields below with no lock.  A handler is split where another  *)
(* thread can see or change what it has read.                              *)
(***************************************************************************)
EXTENDS Naturals, FiniteSets

CONSTANTS
    Call,          \* pjsua call slots; a slot's index is the call id
    Adapter,       \* addresses of tp_adapter objects; reused after destroy
    NoCall,        \* PJSUA_INVALID_ID
    NoAdapter,     \* "not in transport_map"
    RxUri,         \* classes of URI the Rx field may hold
    TxUri,         \* classes of URI the Tx field may hold
    PhoneUri,      \* classes of URI the phone field may hold
    PeerUri,       \* classes of remote URI incoming calls may have
    Recording,     \* m_EnableRecording, read once from the configuration
    LateFailure,   \* TRUE: make_call may fail after the media transport exists
    Preemptive,    \* TRUE: handlers of different threads may overlap
    Buttons,       \* bound: the buttons the user presses
    PttThread      \* bound: the threads that push to talk, of "ui" and "ptt"

\* What updateButtons and callStateChanged make of a remote URI: it contains
\* "sip:rx", else "sip:tx", else it is a telephone.
Line == {"rx", "tx", "phone"}
Thread == {"ui", "worker", "ptt"}

ASSUME SlotAssumption == NoCall \notin Call
ASSUME AdapterAssumption == NoAdapter \notin Adapter
ASSUME UriAssumption ==
    RxUri \subseteq Line /\ TxUri \subseteq Line /\ PhoneUri \subseteq Line /\ PeerUri \subseteq Line
ASSUME BoundAssumption == Buttons \subseteq Line /\ PttThread \subseteq {"ui", "ptt"}
ASSUME FlagAssumption == Recording \in BOOLEAN /\ LateFailure \in BOOLEAN /\ Preemptive \in BOOLEAN

VARIABLES
    \* SoftPhone members
    current,       \* current["rx"], ["tx"], ["phone"]: current_call_rx, _tx, current_call
    button,        \* text of pushButton_Rx, pushButton_Tx, pushButton_call
    enableEd137,   \* the next media adapter is an ED-137 one
    transport_map, \* call id -> adapter
    m_AutoCall,    \* checkBox_Auto
    pttBox,        \* checkBox_pttset
    ringing,       \* in_ring_slot_ is connected to the sound card
    recording,     \* the call whose CONFIRMED opened the WAV file
    \* pjsua and the adapters
    st,            \* invite state of a slot
    remote,        \* class of the slot's remote URI
    uac,           \* the slot's call is outgoing
    hungup,        \* calls for which pjsua_call_hangup was accepted
    owner,         \* the call an adapter object serves, NoCall when freed
    radiostatus,   \* tp_adapter::radiostatus
    pttstatus,     \* tp_adapter::pttstatus
    \* the threads
    pc,            \* where in its handler a thread is
    line,          \* the button or field the running dial is for
    id,            \* the call id the handler holds in a local
    val,           \* the ptt value the handler was called with
    adp,           \* the adapter pointer setRadioPttbyCallID found
    closing        \* the call whose DISCONNECTED callback the worker runs

app == <<current, button, enableEd137, transport_map, m_AutoCall, pttBox, ringing, recording>>
sip == <<st, remote, uac, hungup>>
media == <<owner, radiostatus, pttstatus>>
local == <<pc, line, id, val, adp, closing>>
vars == <<app, sip, media, local>>

State == {"null", "calling", "incoming", "early", "answered", "confirmed", "disconnected"}
Pc == {"idle", "make", "return", "offer", "text", "tail", "free", "find", "set"}

TypeOK ==
    /\ current \in [Line -> Call \cup {NoCall}]
    /\ button \in [Line -> {"Call", "End", "Answer"}]
    /\ enableEd137 \in BOOLEAN
    /\ transport_map \in [Call -> Adapter \cup {NoAdapter}]
    /\ m_AutoCall \in BOOLEAN
    /\ pttBox \in BOOLEAN
    /\ ringing \in BOOLEAN
    /\ recording \in Call \cup {NoCall}
    /\ st \in [Call -> State]
    /\ remote \in [Call -> Line]
    /\ uac \in [Call -> BOOLEAN]
    /\ hungup \in SUBSET Call
    /\ owner \in [Adapter -> Call \cup {NoCall}]
    /\ radiostatus \in [Adapter -> BOOLEAN]
    /\ pttstatus \in [Adapter -> BOOLEAN]
    /\ pc \in [Thread -> Pc]
    /\ line \in [Thread -> Line]
    /\ id \in [Thread -> Call \cup {NoCall}]
    /\ val \in [Thread -> BOOLEAN]
    /\ adp \in [Thread -> Adapter \cup {NoAdapter}]
    /\ closing \in Call \cup {NoCall}

Init ==
    /\ current = [b \in Line |-> NoCall]
    /\ button = [b \in Line |-> "Call"]
    /\ enableEd137 = FALSE
    /\ transport_map = [c \in Call |-> NoAdapter]
    /\ m_AutoCall = FALSE
    /\ pttBox = FALSE
    /\ ringing = FALSE
    /\ recording = NoCall
    /\ st = [c \in Call |-> "null"]
    /\ remote = [c \in Call |-> "phone"]
    /\ uac = [c \in Call |-> FALSE]
    /\ hungup = {}
    /\ owner = [a \in Adapter |-> NoCall]
    /\ radiostatus = [a \in Adapter |-> FALSE]
    /\ pttstatus = [a \in Adapter |-> FALSE]
    /\ pc = [t \in Thread |-> "idle"]
    /\ line = [t \in Thread |-> "phone"]
    /\ id = [t \in Thread |-> NoCall]
    /\ val = [t \in Thread |-> FALSE]
    /\ adp = [t \in Thread |-> NoAdapter]
    /\ closing = NoCall

-----------------------------------------------------------------------------
(* Scheduling and shared helpers *)

\* Thread t may take its next step: another handler is in progress only when
\* the threads preempt each other.
Runs(t) == Preemptive \/ \A u \in Thread \ {t} : pc[u] = "idle"

\* Thread t starts a handler.
Enters(t) == Runs(t) /\ pc[t] = "idle"

\* Thread t leaves its handler; its locals die.
Leave(t) ==
    /\ pc' = [pc EXCEPT ![t] = "idle"]
    /\ line' = [line EXCEPT ![t] = "phone"]
    /\ id' = [id EXCEPT ![t] = NoCall]
    /\ val' = [val EXCEPT ![t] = FALSE]
    /\ adp' = [adp EXCEPT ![t] = NoAdapter]

\* The URI a dial for button b can go to.  The call field accepts any URI.
Uri(b) == CASE b = "rx" -> RxUri [] b = "tx" -> TxUri [] OTHER -> PhoneUri

\* on_create_media_transport for slot c: a new adapter a takes the kind
\* enableEd137 asks for, the flag is consumed, and the map gets the adapter
\* unless it has an entry for that id (std::map::insert keeps the old one).
MapInsert(c, a) ==
    transport_map' = [transport_map EXCEPT ![c] = IF @ = NoAdapter THEN a ELSE @]

CreateTransport(c, a) ==
    /\ owner[a] = NoCall
    /\ owner' = [owner EXCEPT ![a] = c]
    /\ radiostatus' = [radiostatus EXCEPT ![a] = enableEd137]
    /\ pttstatus' = [pttstatus EXCEPT ![a] = FALSE]
    /\ MapInsert(c, a)
    /\ enableEd137' = FALSE

\* playRing and stopRing connect and disconnect the tone.  (Mutant: the tone
\* is only rewound.)
PlayRing == ringing' = TRUE
StopRingRewindsOnly == ringing' = ringing
StopRing == ringing' = FALSE

\* setText on one of the three buttons; updateButtons picks it by the URI.
UpdateButtons(b, text) == button' = [button EXCEPT ![b] = text]

\* What DISCONNECTED of call c resets for its line b: text and id, whichever
\* call they stood for.  (Mutants: the id is forgotten; both are reset only if
\* the ending call is the tracked one.)
LineEndsKeepsId(b, c) == UpdateButtons(b, "Call") /\ UNCHANGED current
LineEndsIfTracked(b, c) ==
    /\ UpdateButtons(b, IF current[b] = c THEN "Call" ELSE button[b])
    /\ current' = [current EXCEPT ![b] = IF @ = c THEN NoCall ELSE @]
LineEnds(b, c) ==
    /\ UpdateButtons(b, "Call")
    /\ current' = [current EXCEPT ![b] = NoCall]

\* enableEd137 as the three dialling functions set it.  (Mutant: makeCall and
\* makeSipCall leave it alone.)
ChooseKindRadioOnly(b) == enableEd137' = (enableEd137 \/ b # "phone")
ChooseKind(b) == enableEd137' = (b # "phone")

\* The end of the DISCONNECTED case: forget the adapter, close the WAV file
\* that is open, of whichever call.  (Mutants: one of the two is missing.)
CleanUpKeepsEntry(c) == UNCHANGED transport_map /\ recording' = NoCall
CleanUpKeepsFile(c) ==
    transport_map' = [transport_map EXCEPT ![c] = NoAdapter] /\ UNCHANGED recording
CleanUp(c) ==
    /\ transport_map' = [transport_map EXCEPT ![c] = NoAdapter]
    /\ recording' = NoCall

\* transport_destroy of the adapter of slot c.  (Mutant: the pool leaks.)
DestroyLeaks(c) == UNCHANGED media
Destroy(c) ==
    /\ owner' = [a \in Adapter |-> IF owner[a] = c THEN NoCall ELSE owner[a]]
    /\ radiostatus' = [a \in Adapter |-> owner[a] # c /\ radiostatus[a]]
    /\ pttstatus' = [a \in Adapter |-> owner[a] # c /\ pttstatus[a]]

\* The call id push-to-talk acts on.  (Mutant: the wrong member.)
PttTargetPhone == current["phone"]
PttTarget == current["tx"]

\* setAdapterPtt through pointer p; a write to a freed adapter changes no
\* adapter.  (Mutant: the value is not passed on.)
SetAdapterPttTrue(p, v) ==
    pttstatus' = [a \in Adapter |-> pttstatus[a] \/ (a = p /\ owner[a] # NoCall)]
SetAdapterPtt(p, v) ==
    pttstatus' = [a \in Adapter |-> IF a = p /\ owner[a] # NoCall THEN v ELSE pttstatus[a]]

-----------------------------------------------------------------------------
(* Dialling: on_pushButton_Rx/Tx/call_clicked on "ui", the auto-call branch *)
(* of callStateChanged on "worker"                                          *)

\* The button says "Call": makeCall_Radio, makeSipCall or makeCall begins and
\* chooses the kind of the next adapter.
Dial(b) ==
    /\ Enters("ui")
    /\ button[b] = "Call"
    /\ ChooseKind(b)
    /\ pc' = [pc EXCEPT !["ui"] = "make"]
    /\ line' = [line EXCEPT !["ui"] = b]
    /\ UNCHANGED <<current, button, transport_map, m_AutoCall, pttBox, ringing, recording,
                   sip, media, id, val, adp, closing>>

\* makeSipCall returns -1 for a URL checkSipUrl rejects, before it touches
\* anything else.
DialBadUrl ==
    /\ Enters("ui")
    /\ button["phone"] = "Call"
    /\ pc' = [pc EXCEPT !["ui"] = "return"]
    /\ UNCHANGED <<app, sip, media, line, id, val, adp, closing>>

\* pjsua_call_make_call succeeds with slot c.
MakeCall(t, c, a, uri) ==
    /\ Runs(t) /\ pc[t] = "make"
    /\ st[c] = "null"
    /\ uri \in Uri(line[t])
    /\ CreateTransport(c, a)
    /\ st' = [st EXCEPT ![c] = "calling"]
    /\ remote' = [remote EXCEPT ![c] = uri]
    /\ uac' = [uac EXCEPT ![c] = TRUE]
    /\ pc' = [pc EXCEPT ![t] = "return"]
    /\ id' = [id EXCEPT ![t] = c]
    /\ UNCHANGED <<current, button, m_AutoCall, pttBox, ringing, recording, hungup,
                   line, val, adp, closing>>

\* What the dialling functions do when make_call fails: makeCall and
\* makeSipCall stop the ring and reset the button, makeCall_Radio just
\* returns.  (Mutant: the failure ends the whole callback.)
MakeFailedAbandons(t) ==
    /\ Leave(t)
    /\ UNCHANGED <<current, button, ringing, m_AutoCall, pttBox, recording, sip, media, closing>>
MakeFailed(t) ==
    /\ ringing' = (ringing /\ line[t] # "phone")
    /\ button' = [button EXCEPT !["phone"] = IF line[t] = "phone" THEN "Call" ELSE @]
    /\ pc' = [pc EXCEPT ![t] = "return"]
    /\ UNCHANGED <<current, m_AutoCall, pttBox, recording, sip, media, line, id, val, adp, closing>>

\* make_call fails before it creates media: enableEd137 keeps its value.
MakeFailsEarly(t) ==
    /\ Runs(t) /\ pc[t] = "make"
    /\ MakeFailed(t)
    /\ UNCHANGED <<enableEd137, transport_map>>

\* make_call fails after on_create_media_transport: pjsua destroys adapter a
\* and no DISCONNECTED callback follows, so the map keeps the address.
MakeFailsLate(t, c, a) ==
    /\ LateFailure
    /\ Runs(t) /\ pc[t] = "make"
    /\ st[c] = "null" /\ owner[a] = NoCall
    /\ MapInsert(c, a)
    /\ enableEd137' = FALSE
    /\ MakeFailed(t)

\* The statement after the call: the button handlers store the id and, for
\* Rx and Tx, reset text and ring when it is invalid.
DialReturns ==
    /\ Runs("ui") /\ pc["ui"] = "return"
    /\ current' = [current EXCEPT ![line["ui"]] = id["ui"]]
    /\ IF id["ui"] = NoCall /\ line["ui"] # "phone"
       THEN UpdateButtons(line["ui"], "Call") /\ StopRing
       ELSE UNCHANGED <<button, ringing>>
    /\ Leave("ui")
    /\ UNCHANGED <<enableEd137, transport_map, m_AutoCall, pttBox, recording, sip, media, closing>>

\* The same statement in the auto-call branch; the callback goes on.
RedialReturns ==
    /\ Runs("worker") /\ pc["worker"] = "return"
    /\ current' = [current EXCEPT ![line["worker"]] = id["worker"]]
    /\ pc' = [pc EXCEPT !["worker"] = "tail"]
    /\ id' = [id EXCEPT !["worker"] = NoCall]
    /\ line' = [line EXCEPT !["worker"] = "phone"]
    /\ UNCHANGED <<button, enableEd137, transport_map, m_AutoCall, pttBox, ringing, recording,
                   sip, media, val, adp, closing>>

-----------------------------------------------------------------------------
(* The other clicks *)

\* "Answer": pjsua_call_answer(200) on current_call.  pjsua refuses it when
\* the slot holds no unanswered incoming call; the result is not looked at.
Answer ==
    LET c == current["phone"] IN
    /\ Enters("ui")
    /\ button["phone"] = "Answer"
    /\ c # NoCall
    /\ st' = IF st[c] \in {"incoming", "early"} /\ ~uac[c]
             THEN [st EXCEPT ![c] = "answered"] ELSE st
    /\ pc' = [pc EXCEPT !["ui"] = "text"]
    /\ UNCHANGED <<app, remote, uac, hungup, media, line, id, val, adp, closing>>

AnswerText ==
    /\ Runs("ui") /\ pc["ui"] = "text"
    /\ UpdateButtons("phone", "End")
    /\ Leave("ui")
    /\ UNCHANGED <<current, enableEd137, transport_map, m_AutoCall, pttBox, ringing, recording,
                   sip, media, closing>>

\* Any other text: hang up the call the button tracks.  pjsua refuses the
\* call when the slot is free or already disconnected.
HangUp(b) ==
    LET c == current[b] IN
    /\ Enters("ui")
    /\ button[b] = "End"
    /\ ringing' = (ringing /\ b = "phone")
    /\ hungup' = IF c # NoCall /\ st[c] \notin {"null", "disconnected"}
                 THEN hungup \cup {c} ELSE hungup
    /\ UNCHANGED <<current, button, enableEd137, transport_map, m_AutoCall, pttBox, recording,
                   st, remote, uac, media, local>>

ToggleAuto ==
    /\ Enters("ui")
    /\ m_AutoCall' = ~m_AutoCall
    /\ UNCHANGED <<current, button, enableEd137, transport_map, pttBox, ringing, recording,
                   sip, media, local>>

-----------------------------------------------------------------------------
(* Push to talk: pttPressed/pttReleased on "ptt", checkBox_pttset on "ui"   *)

\* The argument current_call_tx is read.
Ptt(t, v) ==
    /\ Enters(t)
    /\ id' = [id EXCEPT ![t] = PttTarget]
    /\ val' = [val EXCEPT ![t] = v]
    /\ pc' = [pc EXCEPT ![t] = "find"]
    /\ pttBox' = IF t = "ui" THEN v ELSE pttBox
    /\ UNCHANGED <<current, button, enableEd137, transport_map, m_AutoCall, ringing, recording,
                   sip, media, line, adp, closing>>

\* setRadioPttbyCallID looks the id up.
PttFind(t) ==
    /\ Runs(t) /\ pc[t] = "find"
    /\ adp' = [adp EXCEPT ![t] = IF id[t] = NoCall THEN NoAdapter ELSE transport_map[id[t]]]
    /\ pc' = [pc EXCEPT ![t] = "set"]
    /\ UNCHANGED <<app, sip, media, line, id, val, closing>>

\* The pointer is used, if there is one; pttPressed and pttReleased then set
\* the check box.
PttSet(t) ==
    /\ Runs(t) /\ pc[t] = "set"
    /\ SetAdapterPtt(adp[t], val[t])
    /\ pttBox' = IF t = "ptt" THEN val[t] ELSE pttBox
    /\ Leave(t)
    /\ UNCHANGED <<current, button, enableEd137, transport_map, m_AutoCall, ringing, recording,
                   sip, owner, radiostatus, closing>>

-----------------------------------------------------------------------------
(* pjsua callbacks, all on the worker *)

\* A call comes in: pjsua takes a slot and creates its media transport.
Arrive(c, a, uri) ==
    /\ Enters("worker")
    /\ st[c] = "null"
    /\ uri \in PeerUri
    /\ CreateTransport(c, a)
    /\ st' = [st EXCEPT ![c] = "incoming"]
    /\ remote' = [remote EXCEPT ![c] = uri]
    /\ uac' = [uac EXCEPT ![c] = FALSE]
    /\ pc' = [pc EXCEPT !["worker"] = "offer"]
    /\ id' = [id EXCEPT !["worker"] = c]
    /\ UNCHANGED <<current, button, m_AutoCall, pttBox, ringing, recording, hungup,
                   line, val, adp, closing>>

\* on_incoming_call: whatever current_call was, it is now this call.
OnIncomingCall ==
    /\ Runs("worker") /\ pc["worker"] = "offer"
    /\ current' = [current EXCEPT !["phone"] = id["worker"]]
    /\ UpdateButtons("phone", "Answer")
    /\ Leave("worker")
    /\ UNCHANGED <<enableEd137, transport_map, m_AutoCall, pttBox, ringing, recording,
                   sip, media, closing>>

\* callStateChanged, INCOMING: the phone rings.
StateIncoming(c) ==
    /\ Enters("worker")
    /\ st[c] = "incoming"
    /\ st' = [st EXCEPT ![c] = "early"]
    /\ PlayRing
    /\ UNCHANGED <<current, button, enableEd137, transport_map, m_AutoCall, pttBox, recording,
                   remote, uac, hungup, media, local>>

\* callStateChanged, EARLY of an outgoing call: ring back on a 180 without
\* SDP when no media runs, else nothing.
StateEarly(c) ==
    /\ Enters("worker")
    /\ uac[c] /\ st[c] \in {"calling", "early"}
    /\ st' = [st EXCEPT ![c] = "early"]
    /\ PlayRing \/ UNCHANGED ringing
    /\ UNCHANGED <<current, button, enableEd137, transport_map, m_AutoCall, pttBox, recording,
                   remote, uac, hungup, media, local>>

\* callStateChanged, CONFIRMED.
StateConfirmed(c) ==
    /\ Enters("worker")
    /\ IF uac[c] THEN st[c] \in {"calling", "early"} ELSE st[c] = "answered"
    /\ st' = [st EXCEPT ![c] = "confirmed"]
    /\ StopRing
    /\ UpdateButtons(remote[c], "End")
    /\ recording' = IF Recording THEN c ELSE recording
    /\ UNCHANGED <<current, enableEd137, transport_map, m_AutoCall, pttBox,
                   remote, uac, hungup, media, local>>

\* callStateChanged, DISCONNECTED, up to the make_call of the auto-call.
StateDisconnected(c) ==
    LET b == remote[c]
        redial == b # "phone" /\ m_AutoCall
    IN
    /\ Enters("worker")
    /\ st[c] \notin {"null", "disconnected"}
    /\ st' = [st EXCEPT ![c] = "disconnected"]
    /\ StopRing
    /\ LineEnds(b, c)
    /\ enableEd137' = (enableEd137 \/ redial)
    /\ pc' = [pc EXCEPT !["worker"] = IF redial THEN "make" ELSE "tail"]
    /\ line' = [line EXCEPT !["worker"] = IF redial THEN b ELSE @]
    /\ closing' = c
    /\ UNCHANGED <<transport_map, m_AutoCall, pttBox, recording, remote, uac, hungup, media,
                   id, val, adp>>

\* The rest of the DISCONNECTED case.
DisconnectedTail ==
    /\ Runs("worker") /\ pc["worker"] = "tail"
    /\ CleanUp(closing)
    /\ pc' = [pc EXCEPT !["worker"] = "free"]
    /\ UNCHANGED <<current, button, enableEd137, m_AutoCall, pttBox, ringing,
                   sip, media, line, id, val, adp, closing>>

\* pjsua, after the callback: media is torn down and the slot is free again.
FreeSlot ==
    /\ Runs("worker") /\ pc["worker"] = "free"
    /\ Destroy(closing)
    /\ st' = [st EXCEPT ![closing] = "null"]
    /\ remote' = [remote EXCEPT ![closing] = "phone"]
    /\ uac' = [uac EXCEPT ![closing] = FALSE]
    /\ hungup' = hungup \ {closing}
    /\ closing' = NoCall
    /\ Leave("worker")
    /\ UNCHANGED app

-----------------------------------------------------------------------------
UserStep ==
    \/ \E b \in Buttons : Dial(b) \/ HangUp(b)
    \/ "phone" \in Buttons /\ (DialBadUrl \/ Answer)
    \/ ToggleAuto
    \/ \E t \in PttThread, v \in BOOLEAN : Ptt(t, v)

PeerStep ==
    \/ \E c \in Call, a \in Adapter, uri \in Line : Arrive(c, a, uri)
    \/ \E c \in Call : StateIncoming(c) \/ StateEarly(c) \/ StateConfirmed(c)
                       \/ StateDisconnected(c)

\* A handler that has begun goes on.
Continue(t) ==
    \/ \E c \in Call, a \in Adapter, uri \in Line : MakeCall(t, c, a, uri)
    \/ MakeFailsEarly(t)
    \/ \E c \in Call, a \in Adapter : MakeFailsLate(t, c, a)
    \/ PttFind(t) \/ PttSet(t)
    \/ t = "ui" /\ (DialReturns \/ AnswerText)
    \/ t = "worker" /\ (RedialReturns \/ OnIncomingCall \/ DisconnectedTail \/ FreeSlot)

Next == UserStep \/ PeerStep \/ \E t \in Thread : Continue(t)

Spec == Init /\ [][Next]_vars

\* The operating system runs a thread that has work; pjsua's SIP timers end
\* a call that was hung up.
Fairness ==
    /\ \A t \in Thread : WF_vars(pc[t] # "idle" /\ Continue(t))
    /\ \A c \in Call : SF_vars(c \in hungup /\ StateDisconnected(c))

FairSpec == Spec /\ Fairness

-----------------------------------------------------------------------------
(* What holds however the threads interleave *)

\* The ring tone is connected only while some call is still being offered or
\* dialled: every path on which a ringing call is confirmed or disconnected
\* goes through stopRing.
RingHasCause ==
    ringing => \E c \in Call : st[c] \in {"incoming", "early", "answered"}

\* A radio button that reads "End" stands for a radio call that is up: the
\* text set on CONFIRMED is taken back by the DISCONNECTED of that call, even
\* when the button's own call id was overwritten in between.
EndMeansConfirmed ==
    \A b \in {"rx", "tx"} : button[b] = "End" =>
        \E c \in Call : st[c] = "confirmed" /\ remote[c] = b

\* The WAV file is open only while the call that opened it is up, or while
\* its own DISCONNECTED callback is still on its way to close it.
RecordingCallIsUp ==
    recording # NoCall =>
        \/ st[recording] = "confirmed"
        \/ closing = recording /\ pc["worker"] \in {"make", "return", "tail"}

\* transport_map and the adapters agree: an entry is the live adapter of that
\* very call, and a live adapter is in the map except between the end of the
\* DISCONNECTED callback and pjsua's tear-down.  (A make_call that fails after
\* it created media breaks this: nothing removes its entry.)
MapFollowsMedia ==
    LateFailure \/
    /\ \A c \in Call : transport_map[c] # NoAdapter => owner[transport_map[c]] = c
    /\ \A a \in Adapter : owner[a] # NoCall =>
          \/ transport_map[owner[a]] = a
          \/ owner[a] = closing /\ pc["worker"] = "free"

\* With no call left and every handler done, the last callbacks have put the
\* shared state back: silent, not recording, radio buttons ready to dial, no
\* adapter alive and none left in the map.
IdleIsClean ==
    (\A c \in Call : st[c] = "null") /\ (\A t \in Thread : pc[t] = "idle") =>
        /\ ~ringing /\ recording = NoCall
        /\ button["rx"] = "Call" /\ button["tx"] = "Call"
        /\ \A a \in Adapter : owner[a] = NoCall
        /\ LateFailure \/ \A c \in Call : transport_map[c] = NoAdapter

-----------------------------------------------------------------------------
(* What holds when handlers of different threads do not overlap *)

\* Each field holds a URI of its own line and no radio calls this phone.
WellRouted ==
    RxUri = {"rx"} /\ TxUri = {"tx"} /\ PhoneUri \subseteq {"phone"} /\ PeerUri \subseteq {"phone"}

\* A call id kept by a button is the id of a live call of that button's line,
\* so End, volume and push-to-talk never act on a dead or reused slot.
TrackedCallIsLive ==
    ~Preemptive /\ WellRouted =>
        \A b \in Line : current[b] # NoCall =>
            st[current[b]] \notin {"null", "disconnected"} /\ remote[current[b]] = b

\* A call dialled by a radio button has an ED-137 adapter and a dialled phone
\* call has a plain one, whatever failed before it: the single shared flag
\* enableEd137 is set again by each dial.
DialledKind ==
    ~Preemptive /\ WellRouted =>
        \A a \in Adapter : owner[a] # NoCall /\ uac[owner[a]] =>
            radiostatus[a] = (remote[owner[a]] # "phone")

\* When the push-to-talk box is clear, the transmitter the Tx button tracks is
\* not keyed, after any number of redials, presses and releases.
BoxClearMeansUnkeyed ==
    ~Preemptive /\ ~LateFailure /\ WellRouted =>
        (~pttBox /\ (\A t \in Thread : pc[t] = "idle") /\ current["tx"] # NoCall =>
            ~pttstatus[transport_map[current["tx"]]])

\* A push-to-talk event changes the key of the tracked transmitter call and
\* of no other call.
PttKeysOnlyTx ==
    [][~Preemptive /\ ~LateFailure /\ WellRouted =>
         \A a \in Adapter : pttstatus'[a] # pttstatus[a] /\ owner'[a] # NoCall =>
             owner[a] = current["tx"]]_vars

-----------------------------------------------------------------------------
(* Liveness, under FairSpec *)

\* A call that was hung up ends and gives its slot back: the DISCONNECTED
\* callback, the redial it may start and the tear-down all complete.
HangUpFreesSlot == \A c \in Call : c \in hungup ~> st[c] = "null"
=============================================================================
