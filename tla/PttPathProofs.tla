----------------------------- MODULE PttPathProofs -----------------------------
(* Proofs about CallControl, PttManager and PttPath, which puts the two     *)
(* together: first each of them by itself, then from the key to the air.    *)
EXTENDS PttPath, TLAPS

(***************************************************************************)
(* Call control, for any number of slots and adapters.  The later parts of *)
(* IInv are about handlers that do not overlap.                            *)
(***************************************************************************)
USE SlotAssumption, AdapterAssumption, UriAssumption, BoundAssumption, FlagAssumption

\* The type invariant holds initially and each action keeps it.
LEMMA InitType == Init => TypeOK
  <1> SUFFICES ASSUME Init PROVE TypeOK
    OBVIOUS
  <1>1. /\ current \in [Line -> Call \cup {NoCall}]
        /\ button \in [Line -> {"Call", "End", "Answer"}]
        /\ transport_map \in [Call -> Adapter \cup {NoAdapter}]
        /\ owner \in [Adapter -> Call \cup {NoCall}]
        /\ id \in [Thread -> Call \cup {NoCall}]
        /\ adp \in [Thread -> Adapter \cup {NoAdapter}]
    BY DEF Init
  <1>2. /\ st \in [Call -> State]
        /\ remote \in [Call -> Line]
        /\ pc \in [Thread -> Pc]
        /\ line \in [Thread -> Line]
    BY DEF Init, State, Line, Pc
  <1>3. /\ uac \in [Call -> BOOLEAN]
        /\ radiostatus \in [Adapter -> BOOLEAN]
        /\ pttstatus \in [Adapter -> BOOLEAN]
        /\ val \in [Thread -> BOOLEAN]
    BY DEF Init
  <1>4. /\ enableEd137 \in BOOLEAN /\ m_AutoCall \in BOOLEAN
        /\ pttBox \in BOOLEAN /\ ringing \in BOOLEAN
        /\ recording \in Call \cup {NoCall} /\ closing \in Call \cup {NoCall}
        /\ hungup \in SUBSET Call
    BY DEF Init
  <1> QED
    BY <1>1, <1>2, <1>3, <1>4 DEF TypeOK

\* Each action keeps the types.
LEMMA StepType == TypeOK /\ [Next]_vars => TypeOK'
  <1> SUFFICES ASSUME TypeOK, [Next]_vars PROVE TypeOK'
    OBVIOUS
  <1> USE DEF TypeOK, State, Pc, Line, Thread, app, sip, media, local
  <1>1. ASSUME NEW b \in Buttons, Dial(b)
        PROVE  TypeOK'
    BY <1>1 DEF Dial,  ChooseKind
  <1>2. ASSUME NEW b \in Buttons, HangUp(b)
        PROVE  TypeOK'
    BY <1>2 DEF HangUp
  <1>3. CASE DialBadUrl
    BY <1>3 DEF DialBadUrl
  <1>4. CASE Answer
    BY <1>4 DEF Answer
  <1>5. CASE ToggleAuto
    BY <1>5 DEF ToggleAuto
  <1>6. ASSUME NEW t \in PttThread, NEW v \in BOOLEAN, Ptt(t, v)
        PROVE  TypeOK'
    BY <1>6 DEF Ptt, PttTarget
  <1>7. ASSUME NEW c \in Call, NEW a \in Adapter, NEW uri \in Line, Arrive(c, a, uri)
        PROVE  TypeOK'
    BY <1>7 DEF Arrive, Enters, CreateTransport, MapInsert
  <1>8. ASSUME NEW c \in Call, StateIncoming(c)
        PROVE  TypeOK'
    BY <1>8 DEF StateIncoming, PlayRing
  <1>9. ASSUME NEW c \in Call, StateEarly(c)
        PROVE  TypeOK'
    BY <1>9 DEF StateEarly, PlayRing
  <1>10. ASSUME NEW c \in Call, StateConfirmed(c)
        PROVE  TypeOK'
    BY <1>10 DEF StateConfirmed, StopRing, UpdateButtons
  <1>11. ASSUME NEW c \in Call, StateDisconnected(c)
        PROVE  TypeOK'
    BY <1>11 DEF StateDisconnected, Enters, StopRing, LineEnds, UpdateButtons
  <1>12. ASSUME NEW t \in Thread, NEW c \in Call, NEW a \in Adapter, NEW uri \in Line,
                MakeCall(t, c, a, uri)
        PROVE  TypeOK'
    BY <1>12 DEF MakeCall, CreateTransport, MapInsert
  <1>13. ASSUME NEW t \in Thread, MakeFailsEarly(t)
        PROVE  TypeOK'
    BY <1>13 DEF MakeFailsEarly, MakeFailed
  <1>14. ASSUME NEW t \in Thread, NEW c \in Call, NEW a \in Adapter, MakeFailsLate(t, c, a)
        PROVE  TypeOK'
    BY <1>14 DEF MakeFailsLate, MakeFailed, MapInsert
  <1>15. ASSUME NEW t \in Thread, PttFind(t)
        PROVE  TypeOK'
    BY <1>15 DEF PttFind
  <1>16. ASSUME NEW t \in Thread, PttSet(t)
        PROVE  TypeOK'
    BY <1>16 DEF PttSet, SetAdapterPtt, Leave
  <1>17. CASE DialReturns
    <2>1. current' \in [Line -> Call \cup {NoCall}] /\ ringing' \in BOOLEAN
      BY <1>17 DEF DialReturns, UpdateButtons, StopRing
    <2>2. button' \in [Line -> {"Call", "End", "Answer"}]
      BY <1>17 DEF DialReturns, UpdateButtons
    <2> QED
      BY <1>17, <2>1, <2>2 DEF DialReturns, Leave
  <1>18. CASE AnswerText
    BY <1>18 DEF AnswerText, UpdateButtons, Leave
  <1>19. CASE RedialReturns
    BY <1>19 DEF RedialReturns
  <1>20. CASE OnIncomingCall
    BY <1>20 DEF OnIncomingCall, UpdateButtons, Leave
  <1>21. CASE DisconnectedTail
    BY <1>21 DEF DisconnectedTail, CleanUp
  <1>22. CASE FreeSlot
    BY <1>22 DEF FreeSlot, Destroy, Leave
  <1>23. CASE UNCHANGED vars
    BY <1>23 DEF vars
  <1> HIDE DEF TypeOK, State, Pc, Line, Thread, app, sip, media, local
  <1> QED
    BY <1>1, <1>2, <1>3, <1>4, <1>5, <1>6, <1>7, <1>8, <1>9, <1>10, <1>11, <1>12, <1>13,
       <1>14, <1>15, <1>16, <1>17, <1>18, <1>19, <1>20, <1>21, <1>22, <1>23
       DEF Next, UserStep, PeerStep, Continue


-----------------------------------------------------------------------------
(* The strengthening.  Each part is an invariant of its own; their          *)
(* conjunction IInv is inductive.                                           *)

\* The worker is past the start of a DISCONNECTED callback exactly while
\* closing names the call, and pjsua holds that slot until FreeSlot.
WorkerOK ==
    /\ closing # NoCall <=> pc["worker"] \in {"make", "return", "tail", "free"}
    /\ closing # NoCall => st[closing] = "disconnected"

\* A live adapter serves a slot in use, and once the callback is over the
\* map has forgotten the closing call.
OwnerOK ==
    /\ \A a \in Adapter : owner[a] # NoCall => st[owner[a]] # "null"
    /\ pc["worker"] = "free" => LateFailure \/ transport_map[closing] = NoAdapter

\* Only the phone button ever reads "Answer"; a live call has an adapter in
\* the map; a freed adapter is not keyed.
MediaOK ==
    /\ button["rx"] # "Answer" /\ button["tx"] # "Answer"
    /\ \A c \in Call : st[c] \notin {"null", "disconnected"} => transport_map[c] # NoAdapter
    /\ \A a \in Adapter : owner[a] = NoCall => ~pttstatus[a]

\* The remaining parts are about handlers that do not overlap.
Serial == ~Preemptive /\ WellRouted

LiveOn(c, b) == st[c] \notin {"null", "disconnected"} /\ remote[c] = b

\* The locals of a handler: a dial under way has chosen the kind of its next
\* adapter, and an id held over a return or an offer is a live call's.
HandlersOK ==
    \A t \in Thread :
        /\ pc[t] \in {"idle", "make", "text", "tail", "free"} => id[t] = NoCall
        /\ pc[t] = "make" => enableEd137 = (line[t] # "phone")
        /\ pc[t] = "return" /\ id[t] # NoCall => LiveOn(id[t], line[t])
        /\ pc[t] = "offer" => id[t] # NoCall /\ LiveOn(id[t], "phone")

AdapterOf(c) == IF c = NoCall THEN NoAdapter ELSE transport_map[c]
Keyed(a) == a # NoAdapter /\ pttstatus[a]
Keying(t) == pc[t] \in {"find", "set"}

\* What push-to-talk has read is still so: the id is the tracked transmitter's,
\* the pointer its adapter's, and the window has set its box already.
KeysOK ==
    \A t \in Thread : Keying(t) =>
        /\ t # "worker" /\ id[t] = current["tx"]
        /\ pc[t] = "set" => adp[t] = AdapterOf(id[t])
        /\ t = "ui" => pttBox = val[t]

\* BoxClearMeansUnkeyed also while handlers other than push-to-talk run, and
\* a call just dialled is not keyed.
ClearOK ==
    /\ \A t \in Thread : pc[t] = "return" => ~Keyed(AdapterOf(id[t]))
    /\ ~pttBox /\ (\A t \in Thread : ~Keying(t)) => ~Keyed(AdapterOf(current["tx"]))

IInv == TypeOK /\ WorkerOK /\ RingHasCause /\ EndMeansConfirmed /\ RecordingCallIsUp
        /\ OwnerOK /\ MapFollowsMedia /\ MediaOK
        /\ TrackedCallIsLive /\ DialledKind
        /\ (Serial => HandlersOK /\ KeysOK)
        /\ (Serial /\ ~LateFailure => ClearOK)

\* No other thread moves closing or its slot.
LEMMA StepWorker == TypeOK /\ WorkerOK /\ [Next]_vars => WorkerOK'
  <1> SUFFICES ASSUME TypeOK, WorkerOK, [Next]_vars PROVE WorkerOK'
    OBVIOUS
  <1> USE DEF TypeOK, State, Pc, Line, Thread, WorkerOK, app, sip, media, local
  <1>1. ASSUME NEW b \in Buttons, Dial(b)
        PROVE  WorkerOK'
    BY <1>1 DEF Dial, ChooseKind
  <1>2. ASSUME NEW b \in Buttons, HangUp(b)
        PROVE  WorkerOK'
    BY <1>2 DEF HangUp
  <1>3. CASE DialBadUrl
    BY <1>3 DEF DialBadUrl
  <1>4. CASE Answer
    BY <1>4 DEF Answer
  <1>5. CASE ToggleAuto
    BY <1>5 DEF ToggleAuto
  <1>6. ASSUME NEW t \in PttThread, NEW v \in BOOLEAN, Ptt(t, v)
        PROVE  WorkerOK'
    BY <1>6 DEF Ptt, PttTarget
  <1>7. ASSUME NEW c \in Call, NEW a \in Adapter, NEW uri \in Line, Arrive(c, a, uri)
        PROVE  WorkerOK'
    BY <1>7 DEF Arrive, Enters, CreateTransport, MapInsert
  <1>8. ASSUME NEW c \in Call, StateIncoming(c)
        PROVE  WorkerOK'
    BY <1>8 DEF StateIncoming, PlayRing
  <1>9. ASSUME NEW c \in Call, StateEarly(c)
        PROVE  WorkerOK'
    BY <1>9 DEF StateEarly, PlayRing
  <1>10. ASSUME NEW c \in Call, StateConfirmed(c)
        PROVE  WorkerOK'
    BY <1>10 DEF StateConfirmed, StopRing, UpdateButtons
  <1>11. ASSUME NEW c \in Call, StateDisconnected(c)
        PROVE  WorkerOK'
    BY <1>11 DEF StateDisconnected, Enters, StopRing, LineEnds, UpdateButtons
  <1>12. ASSUME NEW t \in Thread, NEW c \in Call, NEW a \in Adapter, NEW uri \in Line,
                MakeCall(t, c, a, uri)
        PROVE  WorkerOK'
    BY <1>12 DEF MakeCall, CreateTransport, MapInsert
  <1>13. ASSUME NEW t \in Thread, MakeFailsEarly(t)
        PROVE  WorkerOK'
    BY <1>13 DEF MakeFailsEarly, MakeFailed
  <1>14. ASSUME NEW t \in Thread, NEW c \in Call, NEW a \in Adapter, MakeFailsLate(t, c, a)
        PROVE  WorkerOK'
    BY <1>14 DEF MakeFailsLate, MakeFailed, MapInsert
  <1>15. ASSUME NEW t \in Thread, PttFind(t)
        PROVE  WorkerOK'
    BY <1>15 DEF PttFind
  <1>16. ASSUME NEW t \in Thread, PttSet(t)
        PROVE  WorkerOK'
    BY <1>16 DEF PttSet, SetAdapterPtt, Leave
  <1>17. CASE DialReturns
    BY <1>17 DEF DialReturns, UpdateButtons, StopRing, Leave
  <1>18. CASE AnswerText
    BY <1>18 DEF AnswerText, UpdateButtons, Leave
  <1>19. CASE RedialReturns
    BY <1>19 DEF RedialReturns
  <1>20. CASE OnIncomingCall
    BY <1>20 DEF OnIncomingCall, UpdateButtons, Leave
  <1>21. CASE DisconnectedTail
    BY <1>21 DEF DisconnectedTail, CleanUp
  <1>22. CASE FreeSlot
    BY <1>22 DEF FreeSlot, Destroy, Leave
  <1>23. CASE UNCHANGED vars
    BY <1>23 DEF vars
  <1> HIDE DEF TypeOK, State, Pc, Line, Thread, WorkerOK, app, sip, media, local
  <1> QED
    BY <1>1, <1>2, <1>3, <1>4, <1>5, <1>6, <1>7, <1>8, <1>9, <1>10, <1>11, <1>12, <1>13,
       <1>14, <1>15, <1>16, <1>17, <1>18, <1>19, <1>20, <1>21, <1>22, <1>23
       DEF Next, UserStep, PeerStep, Continue

\* A ringing call leaves its state only through stopRing.
LEMMA StepRing == TypeOK /\ WorkerOK /\ RingHasCause /\ [Next]_vars => RingHasCause'
  <1> SUFFICES ASSUME TypeOK, WorkerOK, RingHasCause, [Next]_vars PROVE RingHasCause'
    OBVIOUS
  <1> USE DEF TypeOK, State, Pc, Line, Thread, WorkerOK, RingHasCause, app, sip, media, local
  <1>1. ASSUME NEW b \in Buttons, Dial(b)
        PROVE  RingHasCause'
    BY <1>1 DEF Dial, ChooseKind
  <1>2. ASSUME NEW b \in Buttons, HangUp(b)
        PROVE  RingHasCause'
    BY <1>2 DEF HangUp
  <1>3. CASE DialBadUrl
    BY <1>3 DEF DialBadUrl
  <1>4. CASE Answer
    BY <1>4 DEF Answer
  <1>5. CASE ToggleAuto
    BY <1>5 DEF ToggleAuto
  <1>6. ASSUME NEW t \in PttThread, NEW v \in BOOLEAN, Ptt(t, v)
        PROVE  RingHasCause'
    BY <1>6 DEF Ptt, PttTarget
  <1>7. ASSUME NEW c \in Call, NEW a \in Adapter, NEW uri \in Line, Arrive(c, a, uri)
        PROVE  RingHasCause'
    BY <1>7 DEF Arrive, Enters, CreateTransport, MapInsert
  <1>8. ASSUME NEW c \in Call, StateIncoming(c)
        PROVE  RingHasCause'
    BY <1>8 DEF StateIncoming, PlayRing
  <1>9. ASSUME NEW c \in Call, StateEarly(c)
        PROVE  RingHasCause'
    BY <1>9 DEF StateEarly, PlayRing
  <1>10. ASSUME NEW c \in Call, StateConfirmed(c)
        PROVE  RingHasCause'
    BY <1>10 DEF StateConfirmed, StopRing, UpdateButtons
  <1>11. ASSUME NEW c \in Call, StateDisconnected(c)
        PROVE  RingHasCause'
    BY <1>11 DEF StateDisconnected, Enters, StopRing, LineEnds, UpdateButtons
  <1>12. ASSUME NEW t \in Thread, NEW c \in Call, NEW a \in Adapter, NEW uri \in Line,
                MakeCall(t, c, a, uri)
        PROVE  RingHasCause'
    BY <1>12 DEF MakeCall, CreateTransport, MapInsert
  <1>13. ASSUME NEW t \in Thread, MakeFailsEarly(t)
        PROVE  RingHasCause'
    BY <1>13 DEF MakeFailsEarly, MakeFailed
  <1>14. ASSUME NEW t \in Thread, NEW c \in Call, NEW a \in Adapter, MakeFailsLate(t, c, a)
        PROVE  RingHasCause'
    BY <1>14 DEF MakeFailsLate, MakeFailed, MapInsert
  <1>15. ASSUME NEW t \in Thread, PttFind(t)
        PROVE  RingHasCause'
    BY <1>15 DEF PttFind
  <1>16. ASSUME NEW t \in Thread, PttSet(t)
        PROVE  RingHasCause'
    BY <1>16 DEF PttSet, SetAdapterPtt, Leave
  <1>17. CASE DialReturns
    BY <1>17 DEF DialReturns, UpdateButtons, StopRing, Leave
  <1>18. CASE AnswerText
    BY <1>18 DEF AnswerText, UpdateButtons, Leave
  <1>19. CASE RedialReturns
    BY <1>19 DEF RedialReturns
  <1>20. CASE OnIncomingCall
    BY <1>20 DEF OnIncomingCall, UpdateButtons, Leave
  <1>21. CASE DisconnectedTail
    BY <1>21 DEF DisconnectedTail, CleanUp
  <1>22. CASE FreeSlot
    BY <1>22 DEF FreeSlot, Destroy, Leave
  <1>23. CASE UNCHANGED vars
    BY <1>23 DEF vars
  <1> HIDE DEF TypeOK, State, Pc, Line, Thread, WorkerOK, RingHasCause, app, sip, media, local
  <1> QED
    BY <1>1, <1>2, <1>3, <1>4, <1>5, <1>6, <1>7, <1>8, <1>9, <1>10, <1>11, <1>12, <1>13,
       <1>14, <1>15, <1>16, <1>17, <1>18, <1>19, <1>20, <1>21, <1>22, <1>23
       DEF Next, UserStep, PeerStep, Continue

\* The confirmed call behind "End" resets the text when it goes.
LEMMA StepEnd == TypeOK /\ WorkerOK /\ EndMeansConfirmed /\ [Next]_vars => EndMeansConfirmed'
  <1> SUFFICES ASSUME TypeOK, WorkerOK, EndMeansConfirmed, [Next]_vars PROVE EndMeansConfirmed'
    OBVIOUS
  <1> USE DEF TypeOK, State, Pc, Line, Thread, WorkerOK, EndMeansConfirmed, app, sip, media, local
  <1>1. ASSUME NEW b \in Buttons, Dial(b)
        PROVE  EndMeansConfirmed'
    BY <1>1 DEF Dial, ChooseKind
  <1>2. ASSUME NEW b \in Buttons, HangUp(b)
        PROVE  EndMeansConfirmed'
    BY <1>2 DEF HangUp
  <1>3. CASE DialBadUrl
    BY <1>3 DEF DialBadUrl
  <1>4. CASE Answer
    BY <1>4 DEF Answer
  <1>5. CASE ToggleAuto
    BY <1>5 DEF ToggleAuto
  <1>6. ASSUME NEW t \in PttThread, NEW v \in BOOLEAN, Ptt(t, v)
        PROVE  EndMeansConfirmed'
    BY <1>6 DEF Ptt, PttTarget
  <1>7. ASSUME NEW c \in Call, NEW a \in Adapter, NEW uri \in Line, Arrive(c, a, uri)
        PROVE  EndMeansConfirmed'
    BY <1>7 DEF Arrive, Enters, CreateTransport, MapInsert
  <1>8. ASSUME NEW c \in Call, StateIncoming(c)
        PROVE  EndMeansConfirmed'
    BY <1>8 DEF StateIncoming, PlayRing
  <1>9. ASSUME NEW c \in Call, StateEarly(c)
        PROVE  EndMeansConfirmed'
    BY <1>9 DEF StateEarly, PlayRing
  <1>10. ASSUME NEW c \in Call, StateConfirmed(c)
        PROVE  EndMeansConfirmed'
    BY <1>10 DEF StateConfirmed, StopRing, UpdateButtons
  <1>11. ASSUME NEW c \in Call, StateDisconnected(c)
        PROVE  EndMeansConfirmed'
    BY <1>11 DEF StateDisconnected, Enters, StopRing, LineEnds, UpdateButtons
  <1>12. ASSUME NEW t \in Thread, NEW c \in Call, NEW a \in Adapter, NEW uri \in Line,
                MakeCall(t, c, a, uri)
        PROVE  EndMeansConfirmed'
    BY <1>12 DEF MakeCall, CreateTransport, MapInsert
  <1>13. ASSUME NEW t \in Thread, MakeFailsEarly(t)
        PROVE  EndMeansConfirmed'
    BY <1>13 DEF MakeFailsEarly, MakeFailed
  <1>14. ASSUME NEW t \in Thread, NEW c \in Call, NEW a \in Adapter, MakeFailsLate(t, c, a)
        PROVE  EndMeansConfirmed'
    BY <1>14 DEF MakeFailsLate, MakeFailed, MapInsert
  <1>15. ASSUME NEW t \in Thread, PttFind(t)
        PROVE  EndMeansConfirmed'
    BY <1>15 DEF PttFind
  <1>16. ASSUME NEW t \in Thread, PttSet(t)
        PROVE  EndMeansConfirmed'
    BY <1>16 DEF PttSet, SetAdapterPtt, Leave
  <1>17. CASE DialReturns
    BY <1>17 DEF DialReturns, UpdateButtons, StopRing, Leave
  <1>18. CASE AnswerText
    BY <1>18 DEF AnswerText, UpdateButtons, Leave
  <1>19. CASE RedialReturns
    BY <1>19 DEF RedialReturns
  <1>20. CASE OnIncomingCall
    BY <1>20 DEF OnIncomingCall, UpdateButtons, Leave
  <1>21. CASE DisconnectedTail
    BY <1>21 DEF DisconnectedTail, CleanUp
  <1>22. CASE FreeSlot
    BY <1>22 DEF FreeSlot, Destroy, Leave
  <1>23. CASE UNCHANGED vars
    BY <1>23 DEF vars
  <1> HIDE DEF TypeOK, State, Pc, Line, Thread, WorkerOK, EndMeansConfirmed, app, sip, media, local
  <1> QED
    BY <1>1, <1>2, <1>3, <1>4, <1>5, <1>6, <1>7, <1>8, <1>9, <1>10, <1>11, <1>12, <1>13,
       <1>14, <1>15, <1>16, <1>17, <1>18, <1>19, <1>20, <1>21, <1>22, <1>23
       DEF Next, UserStep, PeerStep, Continue

\* The recorded call stays up until its own callback closes the file.
LEMMA StepRecording == TypeOK /\ WorkerOK /\ RecordingCallIsUp /\ [Next]_vars => RecordingCallIsUp'
  <1> SUFFICES ASSUME TypeOK, WorkerOK, RecordingCallIsUp, [Next]_vars PROVE RecordingCallIsUp'
    OBVIOUS
  <1> USE DEF TypeOK, State, Pc, Line, Thread, WorkerOK, RecordingCallIsUp, app, sip, media, local
  <1>1. ASSUME NEW b \in Buttons, Dial(b)
        PROVE  RecordingCallIsUp'
    BY <1>1 DEF Dial, ChooseKind
  <1>2. ASSUME NEW b \in Buttons, HangUp(b)
        PROVE  RecordingCallIsUp'
    BY <1>2 DEF HangUp
  <1>3. CASE DialBadUrl
    BY <1>3 DEF DialBadUrl
  <1>4. CASE Answer
    BY <1>4 DEF Answer
  <1>5. CASE ToggleAuto
    BY <1>5 DEF ToggleAuto
  <1>6. ASSUME NEW t \in PttThread, NEW v \in BOOLEAN, Ptt(t, v)
        PROVE  RecordingCallIsUp'
    BY <1>6 DEF Ptt, PttTarget
  <1>7. ASSUME NEW c \in Call, NEW a \in Adapter, NEW uri \in Line, Arrive(c, a, uri)
        PROVE  RecordingCallIsUp'
    BY <1>7 DEF Arrive, Enters, CreateTransport, MapInsert
  <1>8. ASSUME NEW c \in Call, StateIncoming(c)
        PROVE  RecordingCallIsUp'
    BY <1>8 DEF StateIncoming, PlayRing
  <1>9. ASSUME NEW c \in Call, StateEarly(c)
        PROVE  RecordingCallIsUp'
    BY <1>9 DEF StateEarly, PlayRing
  <1>10. ASSUME NEW c \in Call, StateConfirmed(c)
        PROVE  RecordingCallIsUp'
    BY <1>10 DEF StateConfirmed, StopRing, UpdateButtons
  <1>11. ASSUME NEW c \in Call, StateDisconnected(c)
        PROVE  RecordingCallIsUp'
    BY <1>11 DEF StateDisconnected, Enters, StopRing, LineEnds, UpdateButtons
  <1>12. ASSUME NEW t \in Thread, NEW c \in Call, NEW a \in Adapter, NEW uri \in Line,
                MakeCall(t, c, a, uri)
        PROVE  RecordingCallIsUp'
    BY <1>12 DEF MakeCall, CreateTransport, MapInsert
  <1>13. ASSUME NEW t \in Thread, MakeFailsEarly(t)
        PROVE  RecordingCallIsUp'
    BY <1>13 DEF MakeFailsEarly, MakeFailed
  <1>14. ASSUME NEW t \in Thread, NEW c \in Call, NEW a \in Adapter, MakeFailsLate(t, c, a)
        PROVE  RecordingCallIsUp'
    BY <1>14 DEF MakeFailsLate, MakeFailed, MapInsert
  <1>15. ASSUME NEW t \in Thread, PttFind(t)
        PROVE  RecordingCallIsUp'
    BY <1>15 DEF PttFind
  <1>16. ASSUME NEW t \in Thread, PttSet(t)
        PROVE  RecordingCallIsUp'
    BY <1>16 DEF PttSet, SetAdapterPtt, Leave
  <1>17. CASE DialReturns
    BY <1>17 DEF DialReturns, UpdateButtons, StopRing, Leave
  <1>18. CASE AnswerText
    BY <1>18 DEF AnswerText, UpdateButtons, Leave
  <1>19. CASE RedialReturns
    BY <1>19 DEF RedialReturns
  <1>20. CASE OnIncomingCall
    BY <1>20 DEF OnIncomingCall, UpdateButtons, Leave
  <1>21. CASE DisconnectedTail
    BY <1>21 DEF DisconnectedTail, CleanUp
  <1>22. CASE FreeSlot
    BY <1>22 DEF FreeSlot, Destroy, Leave
  <1>23. CASE UNCHANGED vars
    BY <1>23 DEF vars
  <1> HIDE DEF TypeOK, State, Pc, Line, Thread, WorkerOK, RecordingCallIsUp, app, sip, media, local
  <1> QED
    BY <1>1, <1>2, <1>3, <1>4, <1>5, <1>6, <1>7, <1>8, <1>9, <1>10, <1>11, <1>12, <1>13,
       <1>14, <1>15, <1>16, <1>17, <1>18, <1>19, <1>20, <1>21, <1>22, <1>23
       DEF Next, UserStep, PeerStep, Continue

\* Adapters are created with a slot and destroyed with it.
LEMMA StepOwner == TypeOK /\ WorkerOK /\ OwnerOK /\ [Next]_vars => OwnerOK'
  <1> SUFFICES ASSUME TypeOK, WorkerOK, OwnerOK, [Next]_vars PROVE OwnerOK'
    OBVIOUS
  <1> USE DEF TypeOK, State, Pc, Line, Thread, WorkerOK, OwnerOK, app, sip, media, local
  <1>1. ASSUME NEW b \in Buttons, Dial(b)
        PROVE  OwnerOK'
    BY <1>1 DEF Dial, ChooseKind
  <1>2. ASSUME NEW b \in Buttons, HangUp(b)
        PROVE  OwnerOK'
    BY <1>2 DEF HangUp
  <1>3. CASE DialBadUrl
    BY <1>3 DEF DialBadUrl
  <1>4. CASE Answer
    BY <1>4 DEF Answer
  <1>5. CASE ToggleAuto
    BY <1>5 DEF ToggleAuto
  <1>6. ASSUME NEW t \in PttThread, NEW v \in BOOLEAN, Ptt(t, v)
        PROVE  OwnerOK'
    BY <1>6 DEF Ptt, PttTarget
  <1>7. ASSUME NEW c \in Call, NEW a \in Adapter, NEW uri \in Line, Arrive(c, a, uri)
        PROVE  OwnerOK'
    BY <1>7 DEF Arrive, Enters, CreateTransport, MapInsert
  <1>8. ASSUME NEW c \in Call, StateIncoming(c)
        PROVE  OwnerOK'
    BY <1>8 DEF StateIncoming, PlayRing
  <1>9. ASSUME NEW c \in Call, StateEarly(c)
        PROVE  OwnerOK'
    BY <1>9 DEF StateEarly, PlayRing
  <1>10. ASSUME NEW c \in Call, StateConfirmed(c)
        PROVE  OwnerOK'
    BY <1>10 DEF StateConfirmed, StopRing, UpdateButtons
  <1>11. ASSUME NEW c \in Call, StateDisconnected(c)
        PROVE  OwnerOK'
    BY <1>11 DEF StateDisconnected, Enters, StopRing, LineEnds, UpdateButtons
  <1>12. ASSUME NEW t \in Thread, NEW c \in Call, NEW a \in Adapter, NEW uri \in Line,
                MakeCall(t, c, a, uri)
        PROVE  OwnerOK'
    BY <1>12 DEF MakeCall, CreateTransport, MapInsert
  <1>13. ASSUME NEW t \in Thread, MakeFailsEarly(t)
        PROVE  OwnerOK'
    BY <1>13 DEF MakeFailsEarly, MakeFailed
  <1>14. ASSUME NEW t \in Thread, NEW c \in Call, NEW a \in Adapter, MakeFailsLate(t, c, a)
        PROVE  OwnerOK'
    BY <1>14 DEF MakeFailsLate, MakeFailed, MapInsert
  <1>15. ASSUME NEW t \in Thread, PttFind(t)
        PROVE  OwnerOK'
    BY <1>15 DEF PttFind
  <1>16. ASSUME NEW t \in Thread, PttSet(t)
        PROVE  OwnerOK'
    BY <1>16 DEF PttSet, SetAdapterPtt, Leave
  <1>17. CASE DialReturns
    BY <1>17 DEF DialReturns, UpdateButtons, StopRing, Leave
  <1>18. CASE AnswerText
    BY <1>18 DEF AnswerText, UpdateButtons, Leave
  <1>19. CASE RedialReturns
    BY <1>19 DEF RedialReturns
  <1>20. CASE OnIncomingCall
    BY <1>20 DEF OnIncomingCall, UpdateButtons, Leave
  <1>21. CASE DisconnectedTail
    BY <1>21 DEF DisconnectedTail, CleanUp
  <1>22. CASE FreeSlot
    BY <1>22 DEF FreeSlot, Destroy, Leave
  <1>23. CASE UNCHANGED vars
    BY <1>23 DEF vars
  <1> HIDE DEF TypeOK, State, Pc, Line, Thread, WorkerOK, OwnerOK, app, sip, media, local
  <1> QED
    BY <1>1, <1>2, <1>3, <1>4, <1>5, <1>6, <1>7, <1>8, <1>9, <1>10, <1>11, <1>12, <1>13,
       <1>14, <1>15, <1>16, <1>17, <1>18, <1>19, <1>20, <1>21, <1>22, <1>23
       DEF Next, UserStep, PeerStep, Continue

\* Insert and erase keep step with create and destroy.
LEMMA StepMap == TypeOK /\ WorkerOK /\ OwnerOK /\ MapFollowsMedia /\ [Next]_vars => MapFollowsMedia'
  <1> SUFFICES ASSUME TypeOK, WorkerOK, OwnerOK, MapFollowsMedia, [Next]_vars PROVE MapFollowsMedia'
    OBVIOUS
  <1> USE DEF TypeOK, State, Pc, Line, Thread, WorkerOK, OwnerOK, MapFollowsMedia, app, sip, media, local
  <1>1. ASSUME NEW b \in Buttons, Dial(b)
        PROVE  MapFollowsMedia'
    BY <1>1 DEF Dial, ChooseKind
  <1>2. ASSUME NEW b \in Buttons, HangUp(b)
        PROVE  MapFollowsMedia'
    BY <1>2 DEF HangUp
  <1>3. CASE DialBadUrl
    BY <1>3 DEF DialBadUrl
  <1>4. CASE Answer
    BY <1>4 DEF Answer
  <1>5. CASE ToggleAuto
    BY <1>5 DEF ToggleAuto
  <1>6. ASSUME NEW t \in PttThread, NEW v \in BOOLEAN, Ptt(t, v)
        PROVE  MapFollowsMedia'
    BY <1>6 DEF Ptt, PttTarget
  <1>7. ASSUME NEW c \in Call, NEW a \in Adapter, NEW uri \in Line, Arrive(c, a, uri)
        PROVE  MapFollowsMedia'
    BY <1>7 DEF Arrive, Enters, CreateTransport, MapInsert
  <1>8. ASSUME NEW c \in Call, StateIncoming(c)
        PROVE  MapFollowsMedia'
    BY <1>8 DEF StateIncoming, PlayRing
  <1>9. ASSUME NEW c \in Call, StateEarly(c)
        PROVE  MapFollowsMedia'
    BY <1>9 DEF StateEarly, PlayRing
  <1>10. ASSUME NEW c \in Call, StateConfirmed(c)
        PROVE  MapFollowsMedia'
    BY <1>10 DEF StateConfirmed, StopRing, UpdateButtons
  <1>11. ASSUME NEW c \in Call, StateDisconnected(c)
        PROVE  MapFollowsMedia'
    BY <1>11 DEF StateDisconnected, Enters, StopRing, LineEnds, UpdateButtons
  <1>12. ASSUME NEW t \in Thread, NEW c \in Call, NEW a \in Adapter, NEW uri \in Line,
                MakeCall(t, c, a, uri)
        PROVE  MapFollowsMedia'
    BY <1>12 DEF MakeCall, CreateTransport, MapInsert
  <1>13. ASSUME NEW t \in Thread, MakeFailsEarly(t)
        PROVE  MapFollowsMedia'
    BY <1>13 DEF MakeFailsEarly, MakeFailed
  <1>14. ASSUME NEW t \in Thread, NEW c \in Call, NEW a \in Adapter, MakeFailsLate(t, c, a)
        PROVE  MapFollowsMedia'
    BY <1>14 DEF MakeFailsLate, MakeFailed, MapInsert
  <1>15. ASSUME NEW t \in Thread, PttFind(t)
        PROVE  MapFollowsMedia'
    BY <1>15 DEF PttFind
  <1>16. ASSUME NEW t \in Thread, PttSet(t)
        PROVE  MapFollowsMedia'
    BY <1>16 DEF PttSet, SetAdapterPtt, Leave
  <1>17. CASE DialReturns
    BY <1>17 DEF DialReturns, UpdateButtons, StopRing, Leave
  <1>18. CASE AnswerText
    BY <1>18 DEF AnswerText, UpdateButtons, Leave
  <1>19. CASE RedialReturns
    BY <1>19 DEF RedialReturns
  <1>20. CASE OnIncomingCall
    BY <1>20 DEF OnIncomingCall, UpdateButtons, Leave
  <1>21. CASE DisconnectedTail
    BY <1>21 DEF DisconnectedTail, CleanUp
  <1>22. CASE FreeSlot
    BY <1>22 DEF FreeSlot, Destroy, Leave
  <1>23. CASE UNCHANGED vars
    BY <1>23 DEF vars
  <1> HIDE DEF TypeOK, State, Pc, Line, Thread, WorkerOK, OwnerOK, MapFollowsMedia, app, sip, media, local
  <1> QED
    BY <1>1, <1>2, <1>3, <1>4, <1>5, <1>6, <1>7, <1>8, <1>9, <1>10, <1>11, <1>12, <1>13,
       <1>14, <1>15, <1>16, <1>17, <1>18, <1>19, <1>20, <1>21, <1>22, <1>23
       DEF Next, UserStep, PeerStep, Continue


\* setText is given "Answer" for the phone button only; entry, adapter and key
\* start and end with the slot.
LEMMA StepMedia == TypeOK /\ WorkerOK /\ MediaOK /\ [Next]_vars => MediaOK'
  <1> SUFFICES ASSUME TypeOK, WorkerOK, MediaOK, [Next]_vars PROVE MediaOK'
    OBVIOUS
  <1> USE DEF TypeOK, State, Pc, Line, Thread, WorkerOK, MediaOK, app, sip, media, local
  <1>1. ASSUME NEW b \in Buttons, Dial(b)
        PROVE  MediaOK'
    BY <1>1 DEF Dial, ChooseKind
  <1>2. ASSUME NEW b \in Buttons, HangUp(b)
        PROVE  MediaOK'
    BY <1>2 DEF HangUp
  <1>3. CASE DialBadUrl
    BY <1>3 DEF DialBadUrl
  <1>4. CASE Answer
    BY <1>4 DEF Answer
  <1>5. CASE ToggleAuto
    BY <1>5 DEF ToggleAuto
  <1>6. ASSUME NEW t \in PttThread, NEW v \in BOOLEAN, Ptt(t, v)
        PROVE  MediaOK'
    BY <1>6 DEF Ptt, PttTarget
  <1>7. ASSUME NEW c \in Call, NEW a \in Adapter, NEW uri \in Line, Arrive(c, a, uri)
        PROVE  MediaOK'
    BY <1>7 DEF Arrive, CreateTransport, MapInsert
  <1>8. ASSUME NEW c \in Call, StateIncoming(c)
        PROVE  MediaOK'
    BY <1>8 DEF StateIncoming, PlayRing
  <1>9. ASSUME NEW c \in Call, StateEarly(c)
        PROVE  MediaOK'
    BY <1>9 DEF StateEarly, PlayRing
  <1>10. ASSUME NEW c \in Call, StateConfirmed(c)
        PROVE  MediaOK'
    BY <1>10 DEF StateConfirmed, StopRing, UpdateButtons
  <1>11. ASSUME NEW c \in Call, StateDisconnected(c)
        PROVE  MediaOK'
    BY <1>11 DEF StateDisconnected, StopRing, LineEnds, UpdateButtons
  <1>12. ASSUME NEW t \in Thread, NEW c \in Call, NEW a \in Adapter, NEW uri \in Line,
                MakeCall(t, c, a, uri)
        PROVE  MediaOK'
    BY <1>12 DEF MakeCall, CreateTransport, MapInsert
  <1>13. ASSUME NEW t \in Thread, MakeFailsEarly(t)
        PROVE  MediaOK'
    BY <1>13 DEF MakeFailsEarly, MakeFailed
  <1>14. ASSUME NEW t \in Thread, NEW c \in Call, NEW a \in Adapter, MakeFailsLate(t, c, a)
        PROVE  MediaOK'
    BY <1>14 DEF MakeFailsLate, MakeFailed, MapInsert
  <1>15. ASSUME NEW t \in Thread, PttFind(t)
        PROVE  MediaOK'
    BY <1>15 DEF PttFind
  <1>16. ASSUME NEW t \in Thread, PttSet(t)
        PROVE  MediaOK'
    BY <1>16 DEF PttSet, SetAdapterPtt, Leave
  <1>17. CASE DialReturns
    BY <1>17 DEF DialReturns, UpdateButtons, StopRing, Leave
  <1>18. CASE AnswerText
    BY <1>18 DEF AnswerText, UpdateButtons, Leave
  <1>19. CASE RedialReturns
    BY <1>19 DEF RedialReturns
  <1>20. CASE OnIncomingCall
    BY <1>20 DEF OnIncomingCall, UpdateButtons, Leave
  <1>21. CASE DisconnectedTail
    BY <1>21 DEF DisconnectedTail, CleanUp
  <1>22. CASE FreeSlot
    BY <1>22 DEF FreeSlot, Destroy, Leave
  <1>23. CASE UNCHANGED vars
    BY <1>23 DEF vars
  <1> HIDE DEF TypeOK, State, Pc, Line, Thread, WorkerOK, MediaOK, app, sip, media, local
  <1> QED
    BY <1>1, <1>2, <1>3, <1>4, <1>5, <1>6, <1>7, <1>8, <1>9, <1>10, <1>11, <1>12, <1>13,
       <1>14, <1>15, <1>16, <1>17, <1>18, <1>19, <1>20, <1>21, <1>22, <1>23
       DEF Next, UserStep, PeerStep, Continue

\* A slot dies only in a callback, which no other handler overlaps, and the
\* callback resets the one id that can name it.
LEMMA StepHandlers == Serial /\ TypeOK /\ WorkerOK /\ HandlersOK /\ TrackedCallIsLive /\ [Next]_vars => (HandlersOK /\ TrackedCallIsLive)'
  <1> SUFFICES ASSUME Serial, TypeOK, WorkerOK, HandlersOK, TrackedCallIsLive, [Next]_vars PROVE (HandlersOK /\ TrackedCallIsLive)'
    OBVIOUS
  <1> USE DEF TypeOK, State, Pc, Line, Thread, WorkerOK, HandlersOK, LiveOn, TrackedCallIsLive, Serial, WellRouted, Uri, app, sip, media, local
  <1>1. ASSUME NEW b \in Buttons, Dial(b)
        PROVE  (HandlersOK /\ TrackedCallIsLive)'
    BY <1>1 DEF Dial, ChooseKind, Enters, Runs
  <1>2. ASSUME NEW b \in Buttons, HangUp(b)
        PROVE  (HandlersOK /\ TrackedCallIsLive)'
    BY <1>2 DEF HangUp, Enters, Runs
  <1>3. CASE DialBadUrl
    BY <1>3 DEF DialBadUrl, Enters, Runs
  <1>4. CASE Answer
    BY <1>4 DEF Answer, Enters, Runs
  <1>5. CASE ToggleAuto
    BY <1>5 DEF ToggleAuto, Enters, Runs
  <1>6. ASSUME NEW t \in PttThread, NEW v \in BOOLEAN, Ptt(t, v)
        PROVE  (HandlersOK /\ TrackedCallIsLive)'
    BY <1>6 DEF Ptt, PttTarget, Enters, Runs
  <1>7. ASSUME NEW c \in Call, NEW a \in Adapter, NEW uri \in Line, Arrive(c, a, uri)
        PROVE  (HandlersOK /\ TrackedCallIsLive)'
    BY <1>7 DEF Arrive, CreateTransport, MapInsert, Enters, Runs
  <1>8. ASSUME NEW c \in Call, StateIncoming(c)
        PROVE  (HandlersOK /\ TrackedCallIsLive)'
    BY <1>8 DEF StateIncoming, PlayRing, Enters, Runs
  <1>9. ASSUME NEW c \in Call, StateEarly(c)
        PROVE  (HandlersOK /\ TrackedCallIsLive)'
    BY <1>9 DEF StateEarly, PlayRing, Enters, Runs
  <1>10. ASSUME NEW c \in Call, StateConfirmed(c)
        PROVE  (HandlersOK /\ TrackedCallIsLive)'
    BY <1>10 DEF StateConfirmed, StopRing, UpdateButtons, Enters, Runs
  <1>11. ASSUME NEW c \in Call, StateDisconnected(c)
        PROVE  (HandlersOK /\ TrackedCallIsLive)'
    BY <1>11 DEF StateDisconnected, StopRing, LineEnds, UpdateButtons, Enters, Runs
  <1>12. ASSUME NEW t \in Thread, NEW c \in Call, NEW a \in Adapter, NEW uri \in Line,
                MakeCall(t, c, a, uri)
        PROVE  (HandlersOK /\ TrackedCallIsLive)'
    BY <1>12 DEF MakeCall, CreateTransport, MapInsert, Enters, Runs
  <1>13. ASSUME NEW t \in Thread, MakeFailsEarly(t)
        PROVE  (HandlersOK /\ TrackedCallIsLive)'
    BY <1>13 DEF MakeFailsEarly, MakeFailed, Enters, Runs
  <1>14. ASSUME NEW t \in Thread, NEW c \in Call, NEW a \in Adapter, MakeFailsLate(t, c, a)
        PROVE  (HandlersOK /\ TrackedCallIsLive)'
    BY <1>14 DEF MakeFailsLate, MakeFailed, MapInsert, Enters, Runs
  <1>15. ASSUME NEW t \in Thread, PttFind(t)
        PROVE  (HandlersOK /\ TrackedCallIsLive)'
    BY <1>15 DEF PttFind, Enters, Runs
  <1>16. ASSUME NEW t \in Thread, PttSet(t)
        PROVE  (HandlersOK /\ TrackedCallIsLive)'
    BY <1>16 DEF PttSet, SetAdapterPtt, Leave, Enters, Runs
  <1>17. CASE DialReturns
    BY <1>17 DEF DialReturns, UpdateButtons, StopRing, Leave, Enters, Runs
  <1>18. CASE AnswerText
    BY <1>18 DEF AnswerText, UpdateButtons, Leave, Enters, Runs
  <1>19. CASE RedialReturns
    BY <1>19 DEF RedialReturns, Enters, Runs
  <1>20. CASE OnIncomingCall
    BY <1>20 DEF OnIncomingCall, UpdateButtons, Leave, Enters, Runs
  <1>21. CASE DisconnectedTail
    BY <1>21 DEF DisconnectedTail, CleanUp, Enters, Runs
  <1>22. CASE FreeSlot
    BY <1>22 DEF FreeSlot, Destroy, Leave, Enters, Runs
  <1>23. CASE UNCHANGED vars
    BY <1>23 DEF vars
  <1> HIDE DEF TypeOK, State, Pc, Line, Thread, WorkerOK, HandlersOK, LiveOn, TrackedCallIsLive, Serial, WellRouted, Uri, app, sip, media, local
  <1> QED
    BY <1>1, <1>2, <1>3, <1>4, <1>5, <1>6, <1>7, <1>8, <1>9, <1>10, <1>11, <1>12, <1>13,
       <1>14, <1>15, <1>16, <1>17, <1>18, <1>19, <1>20, <1>21, <1>22, <1>23
       DEF Next, UserStep, PeerStep, Continue

\* The flag a dial has set is the flag its own adapter reads.
LEMMA StepKind == Serial /\ TypeOK /\ WorkerOK /\ OwnerOK /\ HandlersOK /\ DialledKind /\ [Next]_vars => DialledKind'
  <1> SUFFICES ASSUME Serial, TypeOK, WorkerOK, OwnerOK, HandlersOK, DialledKind, [Next]_vars PROVE DialledKind'
    OBVIOUS
  <1> USE DEF TypeOK, State, Pc, Line, Thread, WorkerOK, OwnerOK, HandlersOK, LiveOn, Serial, WellRouted, Uri, DialledKind, app, sip, media, local
  <1>1. ASSUME NEW b \in Buttons, Dial(b)
        PROVE  DialledKind'
    BY <1>1 DEF Dial, ChooseKind, Enters, Runs
  <1>2. ASSUME NEW b \in Buttons, HangUp(b)
        PROVE  DialledKind'
    BY <1>2 DEF HangUp, Enters, Runs
  <1>3. CASE DialBadUrl
    BY <1>3 DEF DialBadUrl, Enters, Runs
  <1>4. CASE Answer
    BY <1>4 DEF Answer, Enters, Runs
  <1>5. CASE ToggleAuto
    BY <1>5 DEF ToggleAuto, Enters, Runs
  <1>6. ASSUME NEW t \in PttThread, NEW v \in BOOLEAN, Ptt(t, v)
        PROVE  DialledKind'
    BY <1>6 DEF Ptt, PttTarget, Enters, Runs
  <1>7. ASSUME NEW c \in Call, NEW a \in Adapter, NEW uri \in Line, Arrive(c, a, uri)
        PROVE  DialledKind'
    BY <1>7 DEF Arrive, CreateTransport, MapInsert, Enters, Runs
  <1>8. ASSUME NEW c \in Call, StateIncoming(c)
        PROVE  DialledKind'
    BY <1>8 DEF StateIncoming, PlayRing, Enters, Runs
  <1>9. ASSUME NEW c \in Call, StateEarly(c)
        PROVE  DialledKind'
    BY <1>9 DEF StateEarly, PlayRing, Enters, Runs
  <1>10. ASSUME NEW c \in Call, StateConfirmed(c)
        PROVE  DialledKind'
    BY <1>10 DEF StateConfirmed, StopRing, UpdateButtons, Enters, Runs
  <1>11. ASSUME NEW c \in Call, StateDisconnected(c)
        PROVE  DialledKind'
    BY <1>11 DEF StateDisconnected, StopRing, LineEnds, UpdateButtons, Enters, Runs
  <1>12. ASSUME NEW t \in Thread, NEW c \in Call, NEW a \in Adapter, NEW uri \in Line,
                MakeCall(t, c, a, uri)
        PROVE  DialledKind'
    BY <1>12 DEF MakeCall, CreateTransport, MapInsert, Enters, Runs
  <1>13. ASSUME NEW t \in Thread, MakeFailsEarly(t)
        PROVE  DialledKind'
    BY <1>13 DEF MakeFailsEarly, MakeFailed, Enters, Runs
  <1>14. ASSUME NEW t \in Thread, NEW c \in Call, NEW a \in Adapter, MakeFailsLate(t, c, a)
        PROVE  DialledKind'
    BY <1>14 DEF MakeFailsLate, MakeFailed, MapInsert, Enters, Runs
  <1>15. ASSUME NEW t \in Thread, PttFind(t)
        PROVE  DialledKind'
    BY <1>15 DEF PttFind, Enters, Runs
  <1>16. ASSUME NEW t \in Thread, PttSet(t)
        PROVE  DialledKind'
    BY <1>16 DEF PttSet, SetAdapterPtt, Leave, Enters, Runs
  <1>17. CASE DialReturns
    BY <1>17 DEF DialReturns, UpdateButtons, StopRing, Leave, Enters, Runs
  <1>18. CASE AnswerText
    BY <1>18 DEF AnswerText, UpdateButtons, Leave, Enters, Runs
  <1>19. CASE RedialReturns
    BY <1>19 DEF RedialReturns, Enters, Runs
  <1>20. CASE OnIncomingCall
    BY <1>20 DEF OnIncomingCall, UpdateButtons, Leave, Enters, Runs
  <1>21. CASE DisconnectedTail
    BY <1>21 DEF DisconnectedTail, CleanUp, Enters, Runs
  <1>22. CASE FreeSlot
    BY <1>22 DEF FreeSlot, Destroy, Leave, Enters, Runs
  <1>23. CASE UNCHANGED vars
    BY <1>23 DEF vars
  <1> HIDE DEF TypeOK, State, Pc, Line, Thread, WorkerOK, OwnerOK, HandlersOK, LiveOn, Serial, WellRouted, Uri, DialledKind, app, sip, media, local
  <1> QED
    BY <1>1, <1>2, <1>3, <1>4, <1>5, <1>6, <1>7, <1>8, <1>9, <1>10, <1>11, <1>12, <1>13,
       <1>14, <1>15, <1>16, <1>17, <1>18, <1>19, <1>20, <1>21, <1>22, <1>23
       DEF Next, UserStep, PeerStep, Continue

\* No callback runs between the reads of push-to-talk and their use.
LEMMA StepKeys == Serial /\ TypeOK /\ WorkerOK /\ HandlersOK /\ TrackedCallIsLive /\ KeysOK /\ [Next]_vars => KeysOK'
  <1> SUFFICES ASSUME Serial, TypeOK, WorkerOK, HandlersOK, TrackedCallIsLive, KeysOK, [Next]_vars PROVE KeysOK'
    OBVIOUS
  <1> USE DEF TypeOK, State, Pc, Line, Thread, WorkerOK, HandlersOK, LiveOn, TrackedCallIsLive, AdapterOf, Keying, Serial, WellRouted, KeysOK, app, sip, media, local
  <1>1. ASSUME NEW b \in Buttons, Dial(b)
        PROVE  KeysOK'
    BY <1>1 DEF Dial, ChooseKind, Enters, Runs
  <1>2. ASSUME NEW b \in Buttons, HangUp(b)
        PROVE  KeysOK'
    BY <1>2 DEF HangUp, Enters, Runs
  <1>3. CASE DialBadUrl
    BY <1>3 DEF DialBadUrl, Enters, Runs
  <1>4. CASE Answer
    BY <1>4 DEF Answer, Enters, Runs
  <1>5. CASE ToggleAuto
    BY <1>5 DEF ToggleAuto, Enters, Runs
  <1>6. ASSUME NEW t \in PttThread, NEW v \in BOOLEAN, Ptt(t, v)
        PROVE  KeysOK'
    BY <1>6 DEF Ptt, PttTarget, Enters, Runs
  <1>7. ASSUME NEW c \in Call, NEW a \in Adapter, NEW uri \in Line, Arrive(c, a, uri)
        PROVE  KeysOK'
    BY <1>7 DEF Arrive, CreateTransport, MapInsert, Enters, Runs
  <1>8. ASSUME NEW c \in Call, StateIncoming(c)
        PROVE  KeysOK'
    BY <1>8 DEF StateIncoming, PlayRing, Enters, Runs
  <1>9. ASSUME NEW c \in Call, StateEarly(c)
        PROVE  KeysOK'
    BY <1>9 DEF StateEarly, PlayRing, Enters, Runs
  <1>10. ASSUME NEW c \in Call, StateConfirmed(c)
        PROVE  KeysOK'
    BY <1>10 DEF StateConfirmed, StopRing, UpdateButtons, Enters, Runs
  <1>11. ASSUME NEW c \in Call, StateDisconnected(c)
        PROVE  KeysOK'
    BY <1>11 DEF StateDisconnected, StopRing, LineEnds, UpdateButtons, Enters, Runs
  <1>12. ASSUME NEW t \in Thread, NEW c \in Call, NEW a \in Adapter, NEW uri \in Line,
                MakeCall(t, c, a, uri)
        PROVE  KeysOK'
    BY <1>12 DEF MakeCall, CreateTransport, MapInsert, Enters, Runs
  <1>13. ASSUME NEW t \in Thread, MakeFailsEarly(t)
        PROVE  KeysOK'
    BY <1>13 DEF MakeFailsEarly, MakeFailed, Enters, Runs
  <1>14. ASSUME NEW t \in Thread, NEW c \in Call, NEW a \in Adapter, MakeFailsLate(t, c, a)
        PROVE  KeysOK'
    BY <1>14 DEF MakeFailsLate, MakeFailed, MapInsert, Enters, Runs
  <1>15. ASSUME NEW t \in Thread, PttFind(t)
        PROVE  KeysOK'
    BY <1>15 DEF PttFind, Enters, Runs
  <1>16. ASSUME NEW t \in Thread, PttSet(t)
        PROVE  KeysOK'
    <2>1. \A u \in Thread : pc'[u] = "idle"
      BY <1>16 DEF PttSet, Leave, Runs
    <2> QED
      BY <2>1
  <1>17. CASE DialReturns
    BY <1>17 DEF DialReturns, UpdateButtons, StopRing, Leave, Enters, Runs
  <1>18. CASE AnswerText
    BY <1>18 DEF AnswerText, UpdateButtons, Leave, Enters, Runs
  <1>19. CASE RedialReturns
    BY <1>19 DEF RedialReturns, Enters, Runs
  <1>20. CASE OnIncomingCall
    BY <1>20 DEF OnIncomingCall, UpdateButtons, Leave, Enters, Runs
  <1>21. CASE DisconnectedTail
    BY <1>21 DEF DisconnectedTail, CleanUp, Enters, Runs
  <1>22. CASE FreeSlot
    BY <1>22 DEF FreeSlot, Destroy, Leave, Enters, Runs
  <1>23. CASE UNCHANGED vars
    BY <1>23 DEF vars
  <1> HIDE DEF TypeOK, State, Pc, Line, Thread, WorkerOK, HandlersOK, LiveOn, TrackedCallIsLive, AdapterOf, Keying, Serial, WellRouted, KeysOK, app, sip, media, local
  <1> QED
    BY <1>1, <1>2, <1>3, <1>4, <1>5, <1>6, <1>7, <1>8, <1>9, <1>10, <1>11, <1>12, <1>13,
       <1>14, <1>15, <1>16, <1>17, <1>18, <1>19, <1>20, <1>21, <1>22, <1>23
       DEF Next, UserStep, PeerStep, Continue

\* A new adapter starts unkeyed, and box and key are set by the same handler.
LEMMA StepClear == Serial /\ ~LateFailure /\ TypeOK /\ WorkerOK /\ OwnerOK /\ MapFollowsMedia /\ MediaOK /\ HandlersOK /\ TrackedCallIsLive /\ KeysOK /\ ClearOK /\ [Next]_vars => ClearOK'
  <1> SUFFICES ASSUME Serial, ~LateFailure, TypeOK, WorkerOK, OwnerOK, MapFollowsMedia, MediaOK, HandlersOK, TrackedCallIsLive, KeysOK, ClearOK, [Next]_vars PROVE ClearOK'
    OBVIOUS
  <1> USE DEF TypeOK, State, Pc, Line, Thread, WorkerOK, OwnerOK, MapFollowsMedia, MediaOK, HandlersOK, LiveOn, TrackedCallIsLive, AdapterOf, Keying, Serial, WellRouted, KeysOK, ClearOK, Keyed, app, sip, media, local
  <1>1. ASSUME NEW b \in Buttons, Dial(b)
        PROVE  ClearOK'
    BY <1>1 DEF Dial, ChooseKind, Enters, Runs
  <1>2. ASSUME NEW b \in Buttons, HangUp(b)
        PROVE  ClearOK'
    BY <1>2 DEF HangUp, Enters, Runs
  <1>3. CASE DialBadUrl
    BY <1>3 DEF DialBadUrl, Enters, Runs
  <1>4. CASE Answer
    BY <1>4 DEF Answer, Enters, Runs
  <1>5. CASE ToggleAuto
    BY <1>5 DEF ToggleAuto, Enters, Runs
  <1>6. ASSUME NEW t \in PttThread, NEW v \in BOOLEAN, Ptt(t, v)
        PROVE  ClearOK'
    BY <1>6 DEF Ptt, PttTarget, Enters, Runs
  <1>7. ASSUME NEW c \in Call, NEW a \in Adapter, NEW uri \in Line, Arrive(c, a, uri)
        PROVE  ClearOK'
    BY <1>7 DEF Arrive, CreateTransport, MapInsert, Enters, Runs
  <1>8. ASSUME NEW c \in Call, StateIncoming(c)
        PROVE  ClearOK'
    BY <1>8 DEF StateIncoming, PlayRing, Enters, Runs
  <1>9. ASSUME NEW c \in Call, StateEarly(c)
        PROVE  ClearOK'
    BY <1>9 DEF StateEarly, PlayRing, Enters, Runs
  <1>10. ASSUME NEW c \in Call, StateConfirmed(c)
        PROVE  ClearOK'
    BY <1>10 DEF StateConfirmed, StopRing, UpdateButtons, Enters, Runs
  <1>11. ASSUME NEW c \in Call, StateDisconnected(c)
        PROVE  ClearOK'
    BY <1>11 DEF StateDisconnected, StopRing, LineEnds, UpdateButtons, Enters, Runs
  <1>12. ASSUME NEW t \in Thread, NEW c \in Call, NEW a \in Adapter, NEW uri \in Line,
                MakeCall(t, c, a, uri)
        PROVE  ClearOK'
    BY <1>12 DEF MakeCall, CreateTransport, MapInsert, Enters, Runs
  <1>13. ASSUME NEW t \in Thread, MakeFailsEarly(t)
        PROVE  ClearOK'
    BY <1>13 DEF MakeFailsEarly, MakeFailed, Enters, Runs
  <1>14. ASSUME NEW t \in Thread, NEW c \in Call, NEW a \in Adapter, MakeFailsLate(t, c, a)
        PROVE  ClearOK'
    BY <1>14 DEF MakeFailsLate, MakeFailed, MapInsert, Enters, Runs
  <1>15. ASSUME NEW t \in Thread, PttFind(t)
        PROVE  ClearOK'
    BY <1>15 DEF PttFind, Enters, Runs
  <1>16. ASSUME NEW t \in Thread, PttSet(t)
        PROVE  ClearOK'
    BY <1>16 DEF PttSet, SetAdapterPtt, Leave, Enters, Runs
  <1>17. CASE DialReturns
    BY <1>17 DEF DialReturns, UpdateButtons, StopRing, Leave, Enters, Runs
  <1>18. CASE AnswerText
    BY <1>18 DEF AnswerText, UpdateButtons, Leave, Enters, Runs
  <1>19. CASE RedialReturns
    BY <1>19 DEF RedialReturns, Enters, Runs
  <1>20. CASE OnIncomingCall
    BY <1>20 DEF OnIncomingCall, UpdateButtons, Leave, Enters, Runs
  <1>21. CASE DisconnectedTail
    BY <1>21 DEF DisconnectedTail, CleanUp, Enters, Runs
  <1>22. CASE FreeSlot
    BY <1>22 DEF FreeSlot, Destroy, Leave, Enters, Runs
  <1>23. CASE UNCHANGED vars
    BY <1>23 DEF vars
  <1> HIDE DEF TypeOK, State, Pc, Line, Thread, WorkerOK, OwnerOK, MapFollowsMedia, MediaOK, HandlersOK, LiveOn, TrackedCallIsLive, AdapterOf, Keying, Serial, WellRouted, KeysOK, ClearOK, Keyed, app, sip, media, local
  <1> QED
    BY <1>1, <1>2, <1>3, <1>4, <1>5, <1>6, <1>7, <1>8, <1>9, <1>10, <1>11, <1>12, <1>13,
       <1>14, <1>15, <1>16, <1>17, <1>18, <1>19, <1>20, <1>21, <1>22, <1>23
       DEF Next, UserStep, PeerStep, Continue

\* A key changes by push-to-talk, through the pointer it has just found, or
\* because the adapter is freed; a new adapter's key was off before.
LEMMA StepKeyed ==
    Serial /\ ~LateFailure /\ TypeOK /\ MapFollowsMedia /\ MediaOK /\ KeysOK /\ [Next]_vars =>
        \A a \in Adapter : pttstatus'[a] # pttstatus[a] /\ owner'[a] # NoCall =>
            owner[a] = current["tx"]
  <1> SUFFICES ASSUME Serial, ~LateFailure, TypeOK, MapFollowsMedia, MediaOK, KeysOK, [Next]_vars,
                      NEW a \in Adapter, pttstatus'[a] # pttstatus[a], owner'[a] # NoCall
               PROVE  owner[a] = current["tx"]
    OBVIOUS
  <1>1. UNCHANGED pttstatus \/ (\E c \in Call, b \in Adapter : CreateTransport(c, b))
           \/ (\E t \in Thread : PttSet(t)) \/ FreeSlot
    BY DEF Next, UserStep, PeerStep, Continue, Dial, HangUp, DialBadUrl, Answer, ToggleAuto, Ptt,
           Arrive, StateIncoming, StateEarly, StateConfirmed, StateDisconnected, MakeCall,
           MakeFailsEarly, MakeFailed, MakeFailsLate, PttFind, DialReturns, AnswerText,
           RedialReturns, OnIncomingCall, DisconnectedTail, vars, media, local, app, sip
  <1>2. ASSUME NEW c \in Call, NEW b \in Adapter, CreateTransport(c, b)
        PROVE  owner[a] = current["tx"]
    BY <1>2 DEF CreateTransport, MediaOK, TypeOK
  <1>3. ASSUME NEW t \in Thread, PttSet(t)
        PROVE  owner[a] = current["tx"]
    <2>1. a = adp[t] /\ owner[a] # NoCall /\ pc[t] = "set"
      BY <1>3 DEF PttSet, SetAdapterPtt, TypeOK
    <2>2. id[t] = current["tx"] /\ adp[t] = AdapterOf(id[t])
      BY <2>1 DEF KeysOK, Keying
    <2> QED
      BY <2>1, <2>2 DEF AdapterOf, MapFollowsMedia, TypeOK, Line
  <1>4. CASE FreeSlot
    BY <1>4 DEF FreeSlot, Destroy, TypeOK
  <1> QED
    BY <1>1, <1>2, <1>3, <1>4

-----------------------------------------------------------------------------
LEMMA InitIInv == Init => IInv
  <1> SUFFICES ASSUME Init PROVE IInv
    OBVIOUS
  <1>1. TypeOK
    BY InitType
  <1>2. WorkerOK /\ RecordingCallIsUp /\ RingHasCause
    BY DEF Init, WorkerOK, RecordingCallIsUp, RingHasCause, Thread
  <1>3. EndMeansConfirmed
    BY DEF Init, EndMeansConfirmed, Line
  <1>4. OwnerOK /\ MapFollowsMedia
    BY DEF Init, OwnerOK, MapFollowsMedia, Thread
  <1>5. MediaOK /\ TrackedCallIsLive /\ DialledKind
    BY DEF Init, MediaOK, TrackedCallIsLive, DialledKind, Line
  <1>6. HandlersOK /\ KeysOK
    BY DEF Init, HandlersOK, KeysOK, Keying, Thread
  <1>7. ClearOK
    BY DEF Init, ClearOK, Keyed, AdapterOf, Thread, Line
  <1> QED
    BY <1>1, <1>2, <1>3, <1>4, <1>5, <1>6, <1>7 DEF IInv

LEMMA StepIInv == IInv /\ [Next]_vars => IInv'
  <1> SUFFICES ASSUME IInv, [Next]_vars PROVE IInv'
    OBVIOUS
  <1>1. TypeOK' /\ WorkerOK' /\ RingHasCause' /\ EndMeansConfirmed' /\ RecordingCallIsUp'
        /\ OwnerOK' /\ MapFollowsMedia' /\ MediaOK'
    BY StepType, StepWorker, StepRing, StepEnd, StepRecording, StepOwner, StepMap, StepMedia DEF IInv
  <1>2. TrackedCallIsLive' /\ DialledKind'
    <2>1. CASE Serial
      BY <2>1, StepHandlers, StepKind DEF IInv
    <2>2. CASE ~Serial
      BY <2>2 DEF Serial, TrackedCallIsLive, DialledKind, WellRouted
    <2> QED
      BY <2>1, <2>2
  <1>3. Serial => HandlersOK' /\ KeysOK'
    BY StepHandlers, StepKeys DEF IInv
  <1>4. Serial /\ ~LateFailure => ClearOK'
    BY StepClear DEF IInv
  <1> QED
    BY <1>1, <1>2, <1>3, <1>4 DEF IInv, Serial, WellRouted

\* IInv is an inductive invariant of the call control.
THEOREM Inductive == Spec => []IInv
  BY InitIInv, StepIInv, PTL DEF Spec

\* Every reachable state is well typed: in particular each id a button keeps
\* is PJSUA_INVALID_ID or a slot.
THEOREM TypeCorrect == Spec => []TypeOK
  <1>1. IInv => TypeOK
    BY DEF IInv
  <1> QED
    BY Inductive, <1>1, PTL

\* No interleaving of clicks and callbacks leaves the tone on with no call to
\* ring for.
THEOREM RingSafe == Spec => []RingHasCause
  <1>1. IInv => RingHasCause
    BY DEF IInv
  <1> QED
    BY Inductive, <1>1, PTL

\* "Rx End" and "Tx End" are shown only with a radio call of that line up.
THEOREM EndSafe == Spec => []EndMeansConfirmed
  <1>1. IInv => EndMeansConfirmed
    BY DEF IInv
  <1> QED
    BY Inductive, <1>1, PTL

\* The recorder never outlives the call it was started for.
THEOREM RecordingSafe == Spec => []RecordingCallIsUp
  <1>1. IInv => RecordingCallIsUp
    BY DEF IInv
  <1> QED
    BY Inductive, <1>1, PTL

\* As long as make_call fails only before it creates media, the id-to-adapter
\* map never names a freed adapter or another call's.
THEOREM MapSafe == Spec => []MapFollowsMedia
  <1>1. IInv => MapFollowsMedia
    BY DEF IInv
  <1> QED
    BY Inductive, <1>1, PTL

\* Whatever interleaving led there, a phone at rest has no tone, no open WAV
\* file, no adapter and two radio buttons that dial.
THEOREM IdleSafe == Spec => []IdleIsClean
  <1>1. IInv => IdleIsClean
    <2> SUFFICES ASSUME IInv, \A c \in Call : st[c] = "null", \A t \in Thread : pc[t] = "idle"
                 PROVE  /\ ~ringing /\ recording = NoCall
                        /\ button["rx"] = "Call" /\ button["tx"] = "Call"
                        /\ \A a \in Adapter : owner[a] = NoCall
                        /\ LateFailure \/ \A c \in Call : transport_map[c] = NoAdapter
      BY DEF IdleIsClean
    <2>1. closing = NoCall
      BY DEF IInv, WorkerOK, Thread
    <2>2. ~ringing /\ recording = NoCall
      BY <2>1 DEF IInv, TypeOK, RingHasCause, RecordingCallIsUp
    <2>3. button["rx"] = "Call" /\ button["tx"] = "Call"
      BY DEF IInv, TypeOK, EndMeansConfirmed, MediaOK, Line
    <2>4. \A a \in Adapter : owner[a] = NoCall
      BY DEF IInv, TypeOK, OwnerOK
    <2>5. LateFailure \/ \A c \in Call : transport_map[c] = NoAdapter
      BY <2>4 DEF IInv, TypeOK, MapFollowsMedia
    <2> QED
      BY <2>2, <2>3, <2>4, <2>5
  <1> QED
    BY Inductive, <1>1, PTL

\* With handlers that do not overlap, End, volume and push-to-talk act on a
\* live call of the button's own line.
THEOREM TrackedSafe == Spec => []TrackedCallIsLive
  <1>1. IInv => TrackedCallIsLive
    BY DEF IInv
  <1> QED
    BY Inductive, <1>1, PTL

\* No dial, however it fails, leaves enableEd137 wrong for the next one.
THEOREM KindSafe == Spec => []DialledKind
  <1>1. IInv => DialledKind
    BY DEF IInv
  <1> QED
    BY Inductive, <1>1, PTL

\* A clear push-to-talk box means the transmitter is off the air.
THEOREM BoxSafe == Spec => []BoxClearMeansUnkeyed
  <1>1. IInv => BoxClearMeansUnkeyed
    <2> SUFFICES ASSUME IInv, Serial, ~LateFailure, ~pttBox, \A t \in Thread : pc[t] = "idle",
                        current["tx"] # NoCall
                 PROVE  ~pttstatus[transport_map[current["tx"]]]
      BY DEF BoxClearMeansUnkeyed, Serial
    <2>1. current["tx"] \in Call /\ transport_map[current["tx"]] # NoAdapter
      BY DEF IInv, TypeOK, Line, TrackedCallIsLive, Serial, MediaOK
    <2> QED
      BY <2>1 DEF IInv, ClearOK, Keying, Keyed, AdapterOf
  <1> QED
    BY Inductive, <1>1, PTL

\* Push-to-talk never keys any other call's adapter.
THEOREM KeySafe == Spec => PttKeysOnlyTx
  <1>1. IInv /\ [Next]_vars =>
           (~Preemptive /\ ~LateFailure /\ WellRouted =>
              \A a \in Adapter : pttstatus'[a] # pttstatus[a] /\ owner'[a] # NoCall =>
                  owner[a] = current["tx"])
    BY StepKeyed DEF IInv, Serial
  <1> QED
    BY Inductive, <1>1, PTL DEF Spec, PttKeysOnlyTx

(***************************************************************************)
(* The device thread, for either handler and any sequence of reports,      *)
(* losses and re-openings of the device and settings of the clock.         *)
(***************************************************************************)
\* What the loop maintains between its steps: the three records of the last
\* report agree; they agree with the device too, unless a short press is
\* being slept out, and when that ends with the Tipro's key released the press
\* is m_PttDelay old by any clock that was left alone.
LoopInv ==
    /\ pttState = "PRESSED" <=> m_PttStatusMp
    /\ told # "nothing" => listening /\ (told = "pressed" <=> m_PttStatusMp)
    /\ m_shortPress \/ m_PttStatusMp = m_PttStatus
    /\ m_shortPress => phase \in {"sleep", "head"}
    /\ phase = "start" => pttHandlerFn = "none"
    /\ pttHandlerFn # "others" /\ ~m_PttStatus =>
          /\ stepped \/ ahead # "perhaps"
          /\ m_shortPress /\ phase = "head" => stepped \/ age \in {"never", "long"}

DeviceInv == DeviceTypeOK /\ LoopInv

LEMMA DeviceInitInv == DeviceInit => DeviceInv
  BY DEF DeviceInit, DeviceInv, DeviceTypeOK, LoopInv, Phase

-----------------------------------------------------------------------------
(* Stamping                                                                 *)

\* Any stamp leaves the two times well typed.
LEMMA StampType ==
    ASSUME DeviceTypeOK, StampPress \/ StampRelease \/ StampBoth \/ NoStamp
    PROVE  /\ age' \in {"never", "zero", "short", "long"} /\ gap' \in {"none", "short", "long"}
           /\ ahead' \in {"never", "no", "perhaps"} /\ stepped' \in BOOLEAN
  BY DEF DeviceTypeOK, StampPress, StampRelease, StampBoth, NoStamp, time

\* Acting on an event keeps the records together, whatever was stamped.
LEMMA ActKeeps ==
    ASSUME DeviceTypeOK, LoopInv, phase = "read",
           NEW s \in {"PRESSED", "RELEASED", "HOOK"}, Act(s),
           UNCHANGED listening, s = "HOOK" => UNCHANGED m_PttStatus,
           s # "HOOK" => m_PttStatus' = (s = "PRESSED"), UNCHANGED pttHandlerFn,
           pttHandlerFn # "others" /\ ~m_PttStatus' => stepped' \/ ahead' # "perhaps"
    PROVE  /\ LoopInv'
           /\ phase' \in Phase /\ pttState' \in {"PRESSED", "RELEASED"}
           /\ m_PttStatusMp' \in BOOLEAN /\ m_shortPress' \in BOOLEAN
           /\ told' \in {"nothing", "pressed", "released"}
  <1> USE DEF DeviceTypeOK, LoopInv, Phase, Report, ReportNothing
  <1>1. CASE gap' = "short"
    BY <1>1 DEF Act
  <1>2. CASE gap' # "short"
    <2>1. ActAtOnce(s)
      BY <1>2 DEF Act
    <2>2. CASE s = "HOOK"
      BY <2>1, <2>2 DEF ActAtOnce
    <2>3. CASE s = pttState
      BY <2>1, <2>3 DEF ActAtOnce
    <2>4. CASE s = "PRESSED" /\ s # pttState
      <3>1. Report(TRUE) /\ m_PttStatus' = TRUE /\ phase' = "head" /\ UNCHANGED m_shortPress
        BY <2>1, <2>4 DEF ActAtOnce
      <3>2. LoopInv'
        <4>1. m_PttStatusMp' = TRUE /\ pttState' = "PRESSED" /\ ~m_shortPress'
          BY <3>1
        <4>2. told' = "nothing" \/ told' = "pressed"
          BY <3>1
        <4> QED
          BY <3>1, <4>1, <4>2
      <3> QED
        BY <3>1, <3>2
    <2>5. CASE s = "RELEASED" /\ s # pttState
      <3>1. Report(FALSE) /\ m_PttStatus' = FALSE /\ phase' = "head" /\ UNCHANGED m_shortPress
        BY <2>1, <2>5 DEF ActAtOnce
      <3>2. LoopInv'
        <4>1. m_PttStatusMp' = FALSE /\ pttState' = "RELEASED" /\ ~m_shortPress'
          BY <3>1
        <4>2. told' = "nothing" \/ told' = "released"
          BY <3>1
        <4> QED
          BY <3>1, <4>1, <4>2
      <3> QED
        BY <3>1, <3>2
    <2> QED
      BY <2>2, <2>3, <2>4, <2>5
  <1> QED
    BY <1>1, <1>2

-----------------------------------------------------------------------------
LEMMA DeviceStepInv == DeviceInv /\ [DeviceNext]_deviceVars => DeviceInv'
  <1> SUFFICES ASSUME DeviceTypeOK, LoopInv, [DeviceNext]_deviceVars PROVE DeviceTypeOK' /\ LoopInv'
    BY DEF DeviceInv
  <1> USE DEF device, handler
  <1>1. CASE Tick \/ ClockStep
    <2>1. CASE Tick
      BY <2>1 DEF Tick, DeviceTypeOK, LoopInv
    <2>2. CASE ClockStep
      <3>1. /\ UNCHANGED <<phase, pttState, m_PttStatusMp, m_PttStatus, m_shortPress, handler, gap,
                          device, listening, told>>
            /\ stepped' = TRUE /\ age' \in {"never", "zero", "short", "long"}
            /\ ahead' \in {"never", "no", "perhaps"}
        BY <2>2 DEF ClockStep, DeviceTypeOK
      <3> QED
        BY <3>1 DEF DeviceTypeOK, LoopInv
    <2> QED
      BY <1>1, <2>1, <2>2
  <1>2. CASE Unplug \/ Replug \/ AddPttListener
    <2>1. CASE Unplug
      <3>1. DeviceTypeOK'
        <4>1. UNCHANGED <<phase, pttState, m_PttStatusMp, m_PttStatus, m_shortPress, handler, time,
                          listening, told>>
          BY <2>1 DEF Unplug
        <4>2. plugged' \in BOOLEAN /\ fd' \in {"none", "open", "gone", "stale"}
          BY <2>1 DEF Unplug, DeviceTypeOK
        <4> QED
          BY <4>1, <4>2 DEF DeviceTypeOK, time
      <3>2. LoopInv'
        BY <2>1 DEF Unplug, LoopInv, time
      <3> QED
        BY <3>1, <3>2
    <2>2. CASE Replug
      BY <2>2 DEF Replug, DeviceTypeOK, LoopInv, time
    <2>3. CASE AddPttListener
      BY <2>3 DEF AddPttListener, DeviceTypeOK, LoopInv, time
    <2> QED
      BY <1>2, <2>1, <2>2, <2>3
  <1>3. CASE TiproPress
    BY <1>3, StampType, ActKeeps DEF TiproPress, Readable, DeviceTypeOK
  <1>4. CASE TiproRelease
    BY <1>4, StampType, ActKeeps DEF TiproRelease, StampRelease, Readable, DeviceTypeOK
  <1>5. CASE TiproHook
    BY <1>5, StampType, ActKeeps DEF TiproHook, Readable, DeviceTypeOK, LoopInv, NoStamp, time
  <1>6. CASE Unknown
    BY <1>6 DEF Unknown, Ignore, Readable, ReportNothing, DeviceTypeOK, LoopInv, Phase, time
  <1>7. CASE UsbPress
    BY <1>7, StampType, ActKeeps DEF UsbPress, Readable, DeviceTypeOK
  <1>8. CASE UsbRelease
    BY <1>8, StampType, ActKeeps DEF UsbRelease, Readable, DeviceTypeOK
  <1>9. ASSUME NEW b4 \in BOOLEAN, NEW b1 \in BOOLEAN, Joystick(b4, b1)
        PROVE  DeviceTypeOK' /\ LoopInv'
    <2>1. StampPress \/ StampRelease \/ StampBoth \/ NoStamp
      BY <1>9 DEF Joystick
    <2>2. PICK last \in BOOLEAN : m_PttStatus' = last /\ Act(IF last THEN "PRESSED" ELSE "RELEASED")
      BY <1>9 DEF Joystick, DeviceTypeOK
    <2>3. LoopInv'
      BY <1>9, <2>2, ActKeeps DEF Joystick, Readable
    <2> QED
      BY <1>9, <2>1, <2>2, <2>3, StampType, ActKeeps DEF Joystick, Readable, DeviceTypeOK
  <1>10. CASE Start
    BY <1>10 DEF Start, DeviceTypeOK, LoopInv, Phase, time
  <1>11. CASE Head
    <2>1. CASE m_shortPress /\ m_PttStatusMp # m_PttStatus
      <3>1. Report(m_PttStatus)
        BY <1>11, <2>1 DEF Head, AfterShortPress
      <3>2. DeviceTypeOK'
        <4>1. UNCHANGED <<m_PttStatus, handler, time, device, listening>>
          BY <1>11 DEF Head
        <4>2. /\ phase' \in Phase /\ m_shortPress' \in BOOLEAN /\ m_PttStatusMp' \in BOOLEAN
              /\ pttState' \in {"PRESSED", "RELEASED"}
              /\ told' \in {"nothing", "pressed", "released"}
          BY <1>11, <3>1 DEF Head, Report, DeviceTypeOK, Phase
        <4> QED
          BY <4>1, <4>2 DEF DeviceTypeOK, time
      <3>3. LoopInv'
        <4>1. /\ m_PttStatus' = m_PttStatus /\ m_PttStatusMp' = m_PttStatus /\ ~m_shortPress'
              /\ pttState' = "PRESSED" <=> m_PttStatus
              /\ (told' = told /\ ~listening) \/ (told' = "pressed" <=> m_PttStatus)
              /\ UNCHANGED listening
          BY <1>11, <3>1 DEF Head, Report, DeviceTypeOK
        <4>2. told' # "nothing" => listening' /\ (told' = "pressed" <=> m_PttStatus)
          <5>1. CASE listening
            BY <4>1, <5>1
          <5>2. CASE ~listening
            BY <4>1, <5>2, <1>11, <3>1 DEF LoopInv, Head, Report
          <5> QED
            BY <5>1, <5>2
        <4>3. pttState' = "PRESSED" <=> m_PttStatusMp'
          BY <4>1
        <4>4. UNCHANGED <<pttHandlerFn, stepped, ahead>> /\ phase' = "read"
          BY <1>11 DEF Head, time
        <4> QED
          BY <4>1, <4>2, <4>3, <4>4 DEF LoopInv
      <3> QED
        BY <3>2, <3>3
    <2>2. CASE ~(m_shortPress /\ m_PttStatusMp # m_PttStatus)
      <3>1. ReportNothing
        BY <1>11, <2>2 DEF Head, AfterShortPress
      <3>2. DeviceTypeOK'
        <4>1. UNCHANGED <<m_PttStatus, handler, time, device, listening>>
          BY <1>11 DEF Head
        <4>2. /\ phase' \in Phase /\ m_shortPress' \in BOOLEAN /\ m_PttStatusMp' \in BOOLEAN
              /\ pttState' \in {"PRESSED", "RELEASED"}
              /\ told' \in {"nothing", "pressed", "released"}
          BY <1>11, <3>1 DEF Head, ReportNothing, DeviceTypeOK, Phase
        <4> QED
          BY <4>1, <4>2 DEF DeviceTypeOK, time
      <3>3. LoopInv'
        BY <1>11, <2>2, <3>1 DEF Head, ReportNothing, DeviceTypeOK, LoopInv, time
      <3> QED
        BY <3>2, <3>3
    <2> QED
      BY <2>1, <2>2
  <1>12. CASE TimerExpires
    BY <1>12 DEF TimerExpires, DeviceTypeOK, LoopInv, Phase
  <1>13. CASE ReadError
    BY <1>13 DEF ReadError, DeviceTypeOK, LoopInv, Phase, time
  <1>14. CASE Find \/ Open \/ Nap
    BY <1>14 DEF Find, Open, ReOpen, Nap, DeviceTypeOK, LoopInv, Phase, time
  <1>15. CASE UNCHANGED deviceVars
    BY <1>15 DEF deviceVars, DeviceTypeOK, LoopInv, time
  <1> QED
    BY <1>1, <1>2, <1>3, <1>4, <1>5, <1>6, <1>7, <1>8, <1>9, <1>10, <1>11, <1>12, <1>13, <1>14,
       <1>15 DEF DeviceNext, Event, Loop

THEOREM DeviceInductive == DeviceSpec => []DeviceInv
  BY DeviceInitInv, DeviceStepInv, PTL DEF DeviceSpec

\* Every variable keeps its type, the uninitialised state included.
THEOREM DeviceTypeCorrect == DeviceSpec => []DeviceTypeOK
  <1>1. DeviceInv => DeviceTypeOK
    BY DEF DeviceInv
  <1> QED
    BY DeviceInductive, <1>1, PTL

\* Acting on an event is one step of the promise.
LEMMA ActHears ==
    ASSUME DeviceTypeOK, LoopInv, phase = "read", m_PttStatus' \in BOOLEAN,
           NEW s \in {"PRESSED", "RELEASED", "HOOK"}, Act(s),
           UNCHANGED listening, s # "HOOK" => m_PttStatus' = (s = "PRESSED")
    PROVE  Key!Hear
  <1> USE DEF Key!Say, Key!Word
  <1>1. phase' # "read"
    BY DEF Act, ActAtOnce
  <1>2. CASE ReportNothing
    BY <1>1, <1>2 DEF Key!Hear, ReportNothing
  <1>3. CASE s # "HOOK" /\ s # pttState /\ Report(s = "PRESSED")
    <2>1. m_PttStatusMp' = m_PttStatus' /\ m_PttStatus' = (s = "PRESSED")
      BY <1>3 DEF Report
    <2>2. m_PttStatus' # m_PttStatusMp
      <3>1. CASE s = "PRESSED"
        BY <1>3, <2>1, <3>1 DEF LoopInv
      <3>2. CASE s = "RELEASED"
        BY <1>3, <2>1, <3>2 DEF LoopInv, DeviceTypeOK
      <3> QED
        BY <1>3, <3>1, <3>2
    <2>3. told' = IF listening THEN Key!Word(m_PttStatus') ELSE told
      BY <1>3, <2>1 DEF Report
    <2> QED
      BY <1>1, <2>1, <2>2, <2>3 DEF Key!Hear
  <1> QED
    BY <1>2, <1>3 DEF Act, ActAtOnce

LEMMA DeviceRefines == DeviceInv /\ [DeviceNext]_deviceVars => [Key!Next]_(Key!keyVars)
  <1> SUFFICES ASSUME DeviceTypeOK, LoopInv, [DeviceNext]_deviceVars
               PROVE  Key!Next \/ UNCHANGED Key!keyVars
    BY DEF DeviceInv
  <1>1. CASE Tick \/ ClockStep \/ Unplug \/ Replug \/ UNCHANGED deviceVars
    BY <1>1 DEF Tick, ClockStep, Unplug, Replug, deviceVars, Key!keyVars
  <1>2. CASE AddPttListener
    BY <1>2 DEF AddPttListener, Key!Next, Key!Listen
  <1>3. CASE TiproPress \/ TiproRelease \/ TiproHook
    <2>1. /\ phase = "read" /\ UNCHANGED listening
          /\ \/ m_PttStatus' = TRUE /\ Act("PRESSED")
             \/ m_PttStatus' = FALSE /\ Act("RELEASED")
             \/ UNCHANGED m_PttStatus /\ Act("HOOK")
      BY <1>3 DEF TiproPress, TiproRelease, TiproHook, Readable
    <2> QED
      BY <2>1, ActHears DEF Key!Next, DeviceTypeOK
  <1>4. CASE Unknown
    BY <1>4 DEF Unknown, Ignore, Readable, ReportNothing, DeviceTypeOK, Key!Next, Key!Hear, Key!Say
  <1>5. CASE UsbPress \/ UsbRelease
    <2>1. /\ phase = "read" /\ UNCHANGED listening
          /\ \/ m_PttStatus' = TRUE /\ Act("PRESSED")
             \/ m_PttStatus' = FALSE /\ Act("RELEASED")
      BY <1>5 DEF UsbPress, UsbRelease, Readable
    <2> QED
      BY <2>1, ActHears DEF Key!Next
  <1>6. ASSUME NEW b4 \in BOOLEAN, NEW b1 \in BOOLEAN, Joystick(b4, b1)
        PROVE  Key!Next
    <2>1. PICK last \in BOOLEAN : m_PttStatus' = last /\ Act(IF last THEN "PRESSED" ELSE "RELEASED")
      BY <1>6 DEF Joystick, DeviceTypeOK
    <2> QED
      BY <1>6, <2>1, ActHears DEF Joystick, Readable, Key!Next
  <1>7. CASE Start \/ TimerExpires \/ Find \/ Open \/ Nap
    BY <1>7 DEF Start, TimerExpires, Find, Open, ReOpen, Nap, Key!keyVars, device
  <1>8. CASE ReadError
    BY <1>8 DEF ReadError, DeviceTypeOK, Key!Next, Key!Hear, Key!Say
  <1>9. CASE Head
    <2>1. phase = "head" /\ phase' = "read" /\ UNCHANGED <<m_PttStatus, listening>>
      BY <1>9 DEF Head
    <2>2. CASE m_shortPress /\ m_PttStatusMp # m_PttStatus
      <3>1. Report(m_PttStatus)
        BY <1>9, <2>2 DEF Head, AfterShortPress
      <3>2. Key!Say(m_PttStatus)
        BY <2>2, <3>1 DEF Report, Key!Say, Key!Word
      <3> QED
        BY <2>1, <3>2 DEF Key!Next, Key!Work
    <2>3. CASE ~(m_shortPress /\ m_PttStatusMp # m_PttStatus)
      <3>1. ReportNothing /\ m_PttStatusMp = m_PttStatus
        BY <1>9, <2>3 DEF Head, AfterShortPress, LoopInv
      <3>2. Key!Say(m_PttStatus)
        BY <3>1 DEF ReportNothing, Key!Say
      <3> QED
        BY <2>1, <3>2 DEF Key!Next, Key!Work
    <2> QED
      BY <2>2, <2>3
  <1> QED
    BY <1>1, <1>2, <1>3, <1>4, <1>5, <1>6, <1>7, <1>8, <1>9 DEF DeviceNext, Event, Loop

\* The device thread keeps the promise of PttKey to its listener.
THEOREM KeyRefined == DeviceSpec => ImplementsKey
  <1>1. DeviceInit => Key!Init
    BY DEF DeviceInit, Key!Init
  <1> QED
    BY DeviceInductive, <1>1, DeviceRefines, PTL DEF DeviceSpec, ImplementsKey, Key!Spec

\* What the promise is worth: at every read the last report is what the device
\* said last, and a listener that heard any report heard that one.
THEOREM KeyCaughtUp ==
    Key!Spec => [](/\ phase = "read" => m_PttStatusMp = m_PttStatus
                   /\ told # "nothing" => told = Key!Word(m_PttStatusMp))
  <1> DEFINE Caught == /\ m_PttStatusMp \in BOOLEAN /\ m_PttStatus \in BOOLEAN
                       /\ phase = "read" => m_PttStatusMp = m_PttStatus
                       /\ told # "nothing" => listening /\ told = Key!Word(m_PttStatusMp)
  <1>1. Key!Init => Caught
    BY DEF Key!Init
  <1>2. Caught /\ [Key!Next]_(Key!keyVars) => Caught'
    <2> SUFFICES ASSUME Caught, [Key!Next]_(Key!keyVars) PROVE Caught'
      OBVIOUS
    <2>1. CASE Key!Listen
      BY <2>1 DEF Key!Listen, Key!Word
    <2>2. CASE Key!Hear
      BY <2>2 DEF Key!Hear, Key!Say, Key!Word
    <2>3. CASE Key!Work
      BY <2>3 DEF Key!Work, Key!Say, Key!Word
    <2>4. CASE UNCHANGED Key!keyVars
      BY <2>4 DEF Key!keyVars, Key!Word
    <2> QED
      BY <2>1, <2>2, <2>3, <2>4 DEF Key!Next
  <1> QED
    BY <1>1, <1>2, PTL DEF Key!Spec

\* No release of a Tipro key is reported before the press is m_PttDelay old.
THEOREM Stretched == DeviceSpec => ShortPressIsStretched
  <1>1. DeviceInv /\ [DeviceNext]_deviceVars =>
          [pttHandlerFn = "tipro" /\ told = "pressed" /\ told' = "released" =>
             age # "short" \/ stepped]_deviceVars
    <2> SUFFICES ASSUME DeviceInv, DeviceNext, pttHandlerFn = "tipro", told = "pressed",
                        told' = "released"
                 PROVE  age # "short" \/ stepped
      OBVIOUS
    <2>1. CASE TiproPress
      BY <2>1 DEF TiproPress, Act, ActAtOnce, Report, ReportNothing, StampPress
    <2>2. CASE TiproRelease
      BY <2>2 DEF TiproRelease, Act, ActAtOnce, Report, ReportNothing, StampRelease, DeviceInv, DeviceTypeOK
    <2>3. CASE TiproHook
      BY <2>3 DEF TiproHook, Act, ActAtOnce, ReportNothing
    <2>4. CASE Head
      BY <2>4 DEF Head, AfterShortPress, ReportNothing, DeviceInv, LoopInv
    <2>5. CASE Unknown
      BY <2>5 DEF Unknown, Ignore, ReportNothing
    <2>6. CASE UsbPress \/ UsbRelease \/ \E b4, b1 \in BOOLEAN : Joystick(b4, b1)
      BY <2>6 DEF UsbPress, UsbRelease, Joystick
    <2>7. CASE Tick \/ ClockStep \/ Unplug \/ Replug \/ AddPttListener
      BY <2>7 DEF Tick, ClockStep, Unplug, Replug, AddPttListener
    <2>8. CASE Start \/ TimerExpires \/ ReadError \/ Find \/ Open \/ Nap
      BY <2>8 DEF Start, TimerExpires, ReadError, Find, Open, Nap
    <2> QED
      BY <2>1, <2>2, <2>3, <2>4, <2>5, <2>6, <2>7, <2>8 DEF DeviceNext, Event, Loop
  <1> QED
    BY DeviceInductive, <1>1, PTL DEF DeviceSpec, ShortPressIsStretched

(***************************************************************************)
(* From the key to the air.                                                *)
(***************************************************************************)

\* The call the device thread makes is as far as pc["ptt"] says; its argument
\* and, once it has returned, the check box are what was told, unless the box
\* was clicked meanwhile.
LinkOK ==
    /\ pc["ptt"] \in {"idle", "find", "set"}
    /\ Keying("ptt") => (val["ptt"] <=> told = "pressed")
    /\ ~clicked => ~Keying("ui")
    /\ ~clicked /\ ~Keying("ptt") => (pttBox <=> told = "pressed")

\* The transmitter of the press told last: its call has a slot, pttPressed acts
\* on it and leaves it keyed.
PressOK ==
    /\ pressedOn # NoCall => pressedOn \in Call /\ st[pressedOn] # "null" /\ told = "pressed"
    /\ Keying("ptt") /\ told = "pressed" => pressedOn = id["ptt"]
    /\ pressedOn # NoCall /\ ~clicked /\ ~Keying("ptt") => OnAir(pressedOn)

\* A step of call control with no part in push-to-talk: it keys and unkeys
\* nothing that keeps its slot.
OtherStep ==
    /\ pc["ptt"] = "idle" /\ pc'["ptt"] = "idle"
    /\ Keying("ui")' <=> Keying("ui")
    /\ pttBox' = pttBox
    /\ \A c \in Call : OnAir(c) => st'[c] = "null" \/ OnAir(c)'

\* A slot keeps its adapter when a free one is taken.
LEMMA CreateKeepsAir ==
    ASSUME TypeOK, NEW c \in Call, NEW a \in Adapter, CreateTransport(c, a),
           NEW d \in Call, OnAir(d)
    PROVE  OnAir(d)'
  <1>1. PICK x \in Adapter : owner[x] = d /\ pttstatus[x]
    BY DEF OnAir
  <1>2. x # a
    BY <1>1, SlotAssumption DEF CreateTransport
  <1>3. owner'[x] = d /\ pttstatus'[x]
    BY <1>1, <1>2 DEF CreateTransport, TypeOK
  <1> QED
    BY <1>3 DEF OnAir

\* Push-to-talk aside, every action of call control is an OtherStep.
LEMMA StepKinds ==
    ASSUME TypeOK, ~Preemptive, pc["ptt"] \in {"idle", "find", "set"}, Next
    PROVE  \/ \E t \in PttThread, v \in BOOLEAN : Ptt(t, v)
           \/ \E t \in Thread : PttFind(t) \/ PttSet(t)
           \/ OtherStep
  <1> USE DEF TypeOK, Thread, Runs, Enters, Keying
  <1>1. ASSUME NEW c \in Call, UNCHANGED media, OnAir(c) PROVE OnAir(c)'
    BY <1>1 DEF OnAir, media
  <1>2. ASSUME UNCHANGED <<pttBox, pc>>, UNCHANGED media, pc["ptt"] = "idle" PROVE OtherStep
    BY <1>1, <1>2 DEF OtherStep
  <1>3. ASSUME NEW b \in Buttons, Dial(b) PROVE OtherStep
    BY <1>1, <1>3 DEF OtherStep, Dial
  <1>4. ASSUME NEW b \in Buttons, HangUp(b) PROVE OtherStep
    BY <1>2, <1>4 DEF HangUp, local
  <1>5. CASE DialBadUrl
    BY <1>1, <1>5 DEF OtherStep, DialBadUrl, app
  <1>6. CASE Answer
    BY <1>1, <1>6 DEF OtherStep, Answer, app
  <1>7. CASE ToggleAuto
    BY <1>2, <1>7 DEF ToggleAuto, local
  <1>8. ASSUME NEW c \in Call, NEW a \in Adapter, NEW uri \in Line, Arrive(c, a, uri)
        PROVE  OtherStep
    <2>1. CreateTransport(c, a)
      BY <1>8 DEF Arrive
    <2>2. \A d \in Call : OnAir(d) => OnAir(d)'
      BY <2>1, CreateKeepsAir
    <2> QED
      BY <1>8, <2>2 DEF OtherStep, Arrive
  <1>9. ASSUME NEW c \in Call, StateIncoming(c) \/ StateEarly(c) \/ StateConfirmed(c) PROVE OtherStep
    BY <1>2, <1>9 DEF StateIncoming, StateEarly, StateConfirmed, local
  <1>10. ASSUME NEW c \in Call, StateDisconnected(c) PROVE OtherStep
    BY <1>1, <1>10 DEF OtherStep, StateDisconnected
  <1>11. ASSUME NEW t \in Thread, NEW c \in Call, NEW a \in Adapter, NEW uri \in Line,
                MakeCall(t, c, a, uri)
         PROVE  OtherStep
    <2>1. CreateTransport(c, a)
      BY <1>11 DEF MakeCall
    <2>2. \A d \in Call : OnAir(d) => OnAir(d)'
      BY <2>1, CreateKeepsAir
    <2> QED
      BY <1>11, <2>2 DEF OtherStep, MakeCall
  <1>12. ASSUME NEW t \in Thread, MakeFailsEarly(t) PROVE OtherStep
    BY <1>1, <1>12 DEF OtherStep, MakeFailsEarly, MakeFailed
  <1>13. ASSUME NEW t \in Thread, NEW c \in Call, NEW a \in Adapter, MakeFailsLate(t, c, a)
         PROVE  OtherStep
    BY <1>1, <1>13 DEF OtherStep, MakeFailsLate, MakeFailed
  <1>14. CASE DialReturns
    BY <1>1, <1>14 DEF OtherStep, DialReturns, Leave
  <1>15. CASE AnswerText
    BY <1>1, <1>15 DEF OtherStep, AnswerText, Leave
  <1>16. CASE RedialReturns
    BY <1>1, <1>16 DEF OtherStep, RedialReturns
  <1>17. CASE OnIncomingCall
    BY <1>1, <1>17 DEF OtherStep, OnIncomingCall, Leave
  <1>18. CASE DisconnectedTail
    BY <1>1, <1>18 DEF OtherStep, DisconnectedTail
  <1>19. CASE FreeSlot
    <2>1. ASSUME NEW c \in Call, OnAir(c), c # closing PROVE OnAir(c)'
      <3>1. PICK x \in Adapter : owner[x] = c /\ pttstatus[x]
        BY <2>1 DEF OnAir
      <3>2. owner'[x] = c /\ pttstatus'[x]
        BY <1>19, <2>1, <3>1 DEF FreeSlot, Destroy
      <3> QED
        BY <3>2 DEF OnAir
    <2>2. ASSUME NEW c \in Call, c = closing PROVE st'[c] = "null"
      BY <1>19, <2>2 DEF FreeSlot
    <2> QED
      BY <1>19, <2>1, <2>2 DEF OtherStep, FreeSlot, Leave, app
  <1> QED
    BY <1>3, <1>4, <1>5, <1>6, <1>7, <1>8, <1>9, <1>10, <1>11, <1>12, <1>13, <1>14, <1>15, <1>16,
       <1>17, <1>18, <1>19
       DEF Next, UserStep, PeerStep, Continue

-----------------------------------------------------------------------------
(* Each of the two components does nothing of its own in the composition.   *)

LEMMA PathImpliesBoth ==
    ASSUME "ptt" \in PttThread, [PathNext]_pathVars
    PROVE  [Next]_vars /\ [DeviceNext]_deviceVars
  <1>1. CASE PhoneStep
    BY <1>1 DEF PhoneStep
  <1>2. CASE DeviceStep
    <2>1. DeviceNext
      BY <1>2 DEF DeviceStep, DeviceNext
    <2>2. CASE told' = told
      BY <1>2, <2>1, <2>2 DEF DeviceStep
    <2>3. CASE told' # told
      <3>1. Ptt("ptt", told' = "pressed")
        BY <1>2, <2>3 DEF DeviceStep, TellWindow
      <3>2. \E v \in BOOLEAN : Ptt("ptt", v)
        BY <3>1
      <3> QED
        BY <2>1, <3>2 DEF Next, UserStep
    <2> QED
      BY <2>2, <2>3
  <1>3. CASE WorldStep
    BY <1>3 DEF WorldStep, DeviceNext
  <1>4. CASE UNCHANGED pathVars
    BY <1>4 DEF pathVars
  <1> QED
    BY <1>1, <1>2, <1>3, <1>4 DEF PathNext

\* What was shown of call control and of the device thread, each with any
\* partner, holds when the one is the other's partner.
THEOREM PathIsBoth == ASSUME "ptt" \in PttThread PROVE PathSpec => Spec /\ DeviceSpec
  <1>1. PathInit => Init /\ DeviceInit
    BY DEF PathInit
  <1> QED
    BY <1>1, PathImpliesBoth, PTL DEF PathSpec, Spec, DeviceSpec

-----------------------------------------------------------------------------
LEMMA StepLink ==
    ASSUME Serial, TypeOK, KeysOK, LinkOK, [PathNext]_pathVars
    PROVE  LinkOK'
  <1> USE DEF TypeOK, Thread, Keying, Line
  <1>1. CASE PhoneStep
    <2>1. Next /\ (pc["ptt"] = "idle" => pc'["ptt"] = "idle") /\ told' = told
      BY <1>1 DEF PhoneStep, deviceVars
    <2>2. clicked' = (clicked \/ (pc["ui"] = "idle" /\ pc'["ui"] = "find"))
      BY <1>1 DEF PhoneStep
    <2>3. ASSUME NEW t \in PttThread, NEW v \in BOOLEAN, Ptt(t, v) PROVE LinkOK'
      <3>1. t = "ui" /\ pc["ui"] = "idle" /\ pc["ptt"] = "idle"
        BY <2>1, <2>3, BoundAssumption DEF Ptt, Enters, Runs, Serial
      <3>2. pc'["ui"] = "find" /\ pc'["ptt"] = "idle"
        BY <2>3, <3>1 DEF Ptt
      <3> QED
        BY <2>2, <3>1, <3>2 DEF LinkOK
    <2>4. ASSUME NEW t \in Thread, PttFind(t) PROVE LinkOK'
      <3>1. t \in {"ui", "ptt"} /\ pc[t] = "find" /\ pc'[t] = "set"
        BY <2>4 DEF PttFind, KeysOK
      <3>2. /\ \A u \in Thread \ {t} : pc'[u] = pc[u]
            /\ UNCHANGED <<pttBox, val>>
        BY <2>4 DEF PttFind, app
      <3> QED
        BY <2>1, <2>2, <3>1, <3>2 DEF LinkOK
    <2>5. ASSUME NEW t \in Thread, PttSet(t) PROVE LinkOK'
      <3>1. t \in {"ui", "ptt"} /\ pc[t] = "set" /\ pc'[t] = "idle"
        BY <2>5 DEF PttSet, Leave, KeysOK
      <3>2. \A u \in Thread \ {t} : pc[u] = "idle" /\ pc'[u] = "idle"
        BY <2>5 DEF PttSet, Leave, Runs, Serial
      <3>3. CASE t = "ui"
        BY <2>2, <3>1, <3>2, <3>3 DEF LinkOK
      <3>4. CASE t = "ptt"
        <4>1. pttBox' = val["ptt"]
          BY <2>5, <3>4 DEF PttSet
        <4> QED
          BY <2>1, <2>2, <3>1, <3>2, <3>4, <4>1 DEF LinkOK
      <3> QED
        BY <3>1, <3>3, <3>4
    <2>6. CASE OtherStep
      BY <2>1, <2>2, <2>6 DEF OtherStep, LinkOK
    <2> QED
      BY <2>1, <2>3, <2>4, <2>5, <2>6, StepKinds DEF LinkOK, Serial
  <1>2. CASE DeviceStep
    <2>1. CASE told' = told
      BY <1>2, <2>1 DEF DeviceStep, vars, app, local, history, LinkOK
    <2>2. CASE told' # told
      <3>1. Ptt("ptt", told' = "pressed") /\ clicked' = FALSE
        BY <1>2, <2>2 DEF DeviceStep, TellWindow
      <3>2. /\ pc["ui"] = "idle" /\ pc'["ui"] = "idle" /\ pc'["ptt"] = "find"
            /\ val'["ptt"] = (told' = "pressed")
        BY <3>1 DEF Ptt, Enters, Runs, Serial
      <3> QED
        BY <3>1, <3>2 DEF LinkOK
    <2> QED
      BY <2>1, <2>2
  <1>3. CASE WorldStep
    BY <1>3 DEF WorldStep, Tick, ClockStep, Unplug, Replug, AddPttListener, vars, app, local,
                history, LinkOK
  <1>4. CASE UNCHANGED pathVars
    BY <1>4 DEF pathVars, vars, app, local, deviceVars, history, LinkOK
  <1> QED
    BY <1>1, <1>2, <1>3, <1>4 DEF PathNext

\* pttPressed puts the transmitter it was called for on the air.
LEMMA PressKeys ==
    ASSUME Serial, ~LateFailure, TypeOK, TrackedCallIsLive, MediaOK, MapFollowsMedia, KeysOK,
           LinkOK, PressOK, PttSet("ptt"), pressedOn # NoCall, pressedOn' = pressedOn
    PROVE  OnAir(pressedOn)'
  <1> DEFINE a == transport_map[pressedOn]
  <1>1. pc["ptt"] = "set" /\ Keying("ptt") /\ told = "pressed" /\ pressedOn \in Call
    BY DEF PttSet, PressOK, Keying
  <1>2. pressedOn = id["ptt"] /\ id["ptt"] = current["tx"] /\ val["ptt"]
    BY <1>1 DEF PressOK, LinkOK, KeysOK, Thread
  <1>3. st[pressedOn] \notin {"null", "disconnected"}
    BY <1>2 DEF TrackedCallIsLive, Serial, Line
  <1>4. a \in Adapter /\ owner[a] = pressedOn
    BY <1>1, <1>3 DEF MediaOK, MapFollowsMedia, TypeOK
  <1>5. adp["ptt"] = a
    BY <1>1, <1>2 DEF KeysOK, Thread, AdapterOf
  <1>6. pttstatus'[a] /\ owner' = owner
    BY <1>2, <1>4, <1>5 DEF PttSet, SetAdapterPtt
  <1> QED
    BY <1>4, <1>6 DEF OnAir

LEMMA StepPress ==
    ASSUME Serial, ~LateFailure, TypeOK, TrackedCallIsLive, MediaOK, MapFollowsMedia, KeysOK,
           LinkOK, PressOK, [PathNext]_pathVars
    PROVE  PressOK'
  <1> USE DEF TypeOK, Thread, Keying, Line
  <1>1. CASE PhoneStep
    <2>1. /\ Next /\ (pc["ptt"] = "idle" => pc'["ptt"] = "idle") /\ told' = told
          /\ clicked' = (clicked \/ (pc["ui"] = "idle" /\ pc'["ui"] = "find"))
          /\ pressedOn' = IF pressedOn # NoCall /\ st'[pressedOn] = "null" THEN NoCall ELSE pressedOn
      BY <1>1 DEF PhoneStep, deviceVars
    <2>2. pressedOn' # NoCall =>
              /\ pressedOn' = pressedOn /\ pressedOn' \in Call
              /\ st'[pressedOn'] # "null" /\ told' = "pressed"
      BY <2>1 DEF PressOK
    <2>3. ASSUME NEW t \in PttThread, NEW v \in BOOLEAN, Ptt(t, v) PROVE PressOK'
      <3>1. t = "ui" /\ pc["ui"] = "idle" /\ pc["ptt"] = "idle"
        BY <2>1, <2>3, BoundAssumption DEF Ptt, Enters, Runs, Serial
      <3>2. clicked' = TRUE /\ pc'["ptt"] = "idle"
        BY <2>1, <2>3, <3>1 DEF Ptt
      <3> QED
        BY <2>2, <3>2 DEF PressOK
    <2>4. ASSUME NEW t \in Thread, PttFind(t) PROVE PressOK'
      <3>1. /\ UNCHANGED <<st, owner, pttstatus, id>>
            /\ pc["ptt"] = pc'["ptt"] \/ (pc["ptt"] = "find" /\ pc'["ptt"] = "set")
        BY <2>4 DEF PttFind, sip, media
      <3>2. clicked' <=> clicked
        BY <2>1, <2>4 DEF PttFind
      <3>3. pressedOn' = pressedOn
        BY <2>1, <3>1 DEF PressOK
      <3> QED
        BY <2>1, <2>2, <3>1, <3>2, <3>3 DEF PressOK, OnAir
    <2>5. ASSUME NEW t \in Thread, PttSet(t) PROVE PressOK'
      <3>1. /\ t \in {"ui", "ptt"} /\ pc[t] = "set" /\ pc'[t] = "idle" /\ UNCHANGED st
            /\ \A u \in Thread \ {t} : pc[u] = "idle" /\ pc'[u] = "idle"
        BY <2>5 DEF PttSet, Leave, KeysOK, Runs, Serial, sip
      <3>2. pressedOn' = pressedOn
        BY <2>1, <3>1 DEF PressOK
      <3>3. CASE t = "ui"
        <4>1. clicked'
          BY <2>1, <3>1, <3>3 DEF LinkOK
        <4> QED
          BY <2>2, <3>1, <3>3, <4>1 DEF PressOK
      <3>4. CASE t = "ptt"
        <4>1. pressedOn # NoCall => OnAir(pressedOn)'
          BY <2>5, <3>2, <3>4, PressKeys
        <4> QED
          BY <2>2, <3>1, <3>2, <3>4, <4>1 DEF PressOK
      <3> QED
        BY <3>1, <3>3, <3>4
    <2>6. CASE OtherStep
      <3>1. ASSUME pressedOn' # NoCall, ~clicked PROVE OnAir(pressedOn)'
        <4>1. pressedOn' = pressedOn /\ pressedOn \in Call /\ st'[pressedOn] # "null"
          BY <2>2, <3>1
        <4>2. OnAir(pressedOn)
          BY <2>6, <3>1, <4>1 DEF OtherStep, PressOK
        <4>3. \A c \in Call : OnAir(c) => st'[c] = "null" \/ OnAir(c)'
          BY <2>6 DEF OtherStep
        <4>4. \E a \in Adapter : owner'[a] = pressedOn /\ pttstatus'[a]
          BY <4>1, <4>2, <4>3 DEF OnAir
        <4> QED
          BY <4>1, <4>4 DEF OnAir
      <3> QED
        BY <2>1, <2>2, <2>6, <3>1 DEF OtherStep, PressOK
    <2> QED
      BY <2>1, <2>3, <2>4, <2>5, <2>6, StepKinds DEF LinkOK, Serial
  <1>2. CASE DeviceStep
    <2>1. CASE told' = told
      BY <1>2, <2>1 DEF DeviceStep, vars, sip, media, local, history, PressOK, OnAir
    <2>2. CASE told' # told
      <3>1. /\ Ptt("ptt", told' = "pressed")
            /\ pressedOn' = IF told' = "pressed" THEN current["tx"] ELSE NoCall
        BY <1>2, <2>2 DEF DeviceStep, TellWindow
      <3>2. pc'["ptt"] = "find" /\ id'["ptt"] = current["tx"] /\ st' = st
        BY <3>1 DEF Ptt, PttTarget, sip
      <3>3. current["tx"] # NoCall => current["tx"] \in Call /\ st[current["tx"]] # "null"
        BY DEF TrackedCallIsLive, Serial
      <3> QED
        BY <3>1, <3>2, <3>3 DEF PressOK
    <2> QED
      BY <2>1, <2>2
  <1>3. CASE WorldStep
    BY <1>3 DEF WorldStep, Tick, ClockStep, Unplug, Replug, AddPttListener, vars, sip, media, local,
                history, PressOK, OnAir
  <1>4. CASE UNCHANGED pathVars
    BY <1>4 DEF pathVars, vars, sip, media, local, deviceVars, history, PressOK, OnAir
  <1> QED
    BY <1>1, <1>2, <1>3, <1>4 DEF PathNext

PathInv == Serial /\ ~LateFailure => LinkOK /\ PressOK

THEOREM PathInductive ==
    ASSUME "ptt" \in PttThread PROVE PathSpec => [](IInv /\ DeviceInv /\ PathInv)
  <1>1. PathInit => PathInv
    BY SlotAssumption DEF PathInit, Init, DeviceInit, PathInv, LinkOK, PressOK, Keying, Thread
  <1>2. IInv /\ PathInv /\ [PathNext]_pathVars => PathInv'
    BY StepLink, StepPress DEF PathInv, IInv, Serial, WellRouted
  <1> QED
    BY PathIsBoth, Inductive, DeviceInductive, <1>1, <1>2, PTL DEF PathSpec

\* With the device waiting and no handler running, the radio is on the air
\* exactly when the user's key is down, as far as the call of the press lasts:
\* for any number of calls and adapters, either kind of device and any sequence
\* of presses, calls, redials, losses of the device and settings of the clock.
THEOREM AirFollows == ASSUME "ptt" \in PttThread PROVE PathSpec => []AirFollowsKey
  <1>1. IInv /\ DeviceInv /\ PathInv => AirFollowsKey
    <2> SUFFICES ASSUME IInv, LoopInv, LinkOK, PressOK, Serial, ~LateFailure, phase = "read",
                        ~clicked, \A t \in Thread : pc[t] = "idle"
                 PROVE  /\ ~m_PttStatus /\ current["tx"] # NoCall => ~OnAir(current["tx"])
                        /\ m_PttStatus /\ pressedOn # NoCall => OnAir(pressedOn)
      BY DEF AirFollowsKey, PathInv, DeviceInv, Serial
    <2>1. \A t \in Thread : ~Keying(t)
      BY DEF Keying
    <2>2. ASSUME ~m_PttStatus, current["tx"] # NoCall, OnAir(current["tx"]) PROVE FALSE
      <3>1. told # "pressed"
        BY <2>2 DEF LoopInv
      <3>2. ~pttBox
        BY <2>1, <3>1 DEF LinkOK, Thread
      <3>3. PICK a \in Adapter : owner[a] = current["tx"] /\ pttstatus[a]
        BY <2>2 DEF OnAir
      <3>4. transport_map[current["tx"]] = a
        BY <2>2, <3>3 DEF IInv, MapFollowsMedia, Thread
      <3>5. ~Keyed(AdapterOf(current["tx"]))
        BY <2>1, <3>2 DEF IInv, ClearOK
      <3> QED
        BY <2>2, <3>3, <3>4, <3>5 DEF Keyed, AdapterOf
    <2>3. ASSUME pressedOn # NoCall PROVE OnAir(pressedOn)
      BY <2>1, <2>3 DEF PressOK, Thread
    <2> QED
      BY <2>2, <2>3
  <1> QED
    BY PathInductive, <1>1, PTL
=============================================================================
