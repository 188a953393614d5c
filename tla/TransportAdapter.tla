--------------------------- MODULE TransportAdapter ---------------------------
(***************************************************************************)
(* TransportAdapter.cpp between a radio call's stream and its UDP          *)
(* transport, with the threads that use an adapter while the call is up:   *)
(*   sender    the sound device's clock, transport_send_rtp                *)
(*   receiver  the media worker, transport_rtp_cb                          *)
(*   setter    setAdapterPtt, from the window or the push-to-talk thread   *)
(*   session   pjsua starting and stopping the stream, attach and detach   *)
(* There is no lock; every step below is one access to shared memory or    *)
(* several that no other thread can tell apart.                            *)
(***************************************************************************)
EXTENDS Ed137

CONSTANTS
    Adapter,       \* the adapters of radio calls
    Tx,            \* the adapter of current_call_tx
    Field,         \* bound: what radios put into the fields of their words
    Audio          \* what four bytes of audio are when read as a word

ASSUME AdapterAssumption == Tx \in Adapter
ASSUME FieldAssumption ==
    Field \subseteq [ptt : SUBSET (0 .. 2), squ : SUBSET {0}, id : SUBSET (0 .. 5),
                    bss : SUBSET (0 .. 4)]
ASSUME WordAssumption == Audio \in Word

VARIABLES
    stream,        \* stream_user_data, stream_rtp_cb, stream_rtcp_cb are set
    slave,         \* adapters attached to their UDP transport
    pttstatus, pttpriority, ed137_value,   \* fields of tp_adapter
    packet,        \* the header at each packet buffer
    rtphdr,        \* the static pointer of the file
    sender, receiver, setter, session,   \* where each thread is
    quiet,         \* no key change since the packet being built was begun
    reported       \* what stood where the word belongs in each peer's last packet

keys == <<pttstatus, pttpriority>>
threads == <<sender, receiver, setter, session>>
vars == <<stream, slave, keys, ed137_value, packet, rtphdr, threads, quiet, reported>>

\* Each adapter has its pkt_buff and receives into a buffer of its transport.
Buffer == {"out", "in"} \X Adapter
Header == [x : BOOLEAN, ed137 : Word]

\* A thread is idle, or at a step of its function for one adapter; key is the
\* pttstatus the sender has tested, or the value the setter was called with.
At(steps) == [at : steps, tp : Adapter, key : BOOLEAN]
Idle == [at |-> "idle", tp |-> Tx, key |-> FALSE]

PttOn(v) == get_IPRadioPttStatus(v) # {}

\* The word a radio sends for its fields f, in network order.
Report(f) == RadioWord(f.ptt, f.squ, f.id, f.bss)

\* The program always passes priority 1 and never sets an id.
Priority == {0}
NoId == {}

TypeOK ==
    /\ stream \in SUBSET Adapter /\ slave \in SUBSET Adapter
    /\ pttstatus \in [Adapter -> BOOLEAN]
    /\ pttpriority \in [Adapter -> {{}, Priority}]
    /\ ed137_value \in [Adapter -> Word]
    /\ packet \in [Buffer -> Header]
    /\ rtphdr \in Buffer
    /\ sender \in At({"idle", "mark", "test", "store", "send"})
    /\ receiver \in At({"idle", "decode", "deliver"})
    /\ setter \in At({"idle", "priority"})
    /\ session \in At({"idle", "attach", "clear"})
    /\ quiet \in BOOLEAN
    /\ reported \in [Adapter -> Word]

Init ==
    /\ stream = {} /\ slave = {}
    /\ pttstatus = [a \in Adapter |-> FALSE]
    /\ pttpriority = [a \in Adapter |-> {}]
    /\ ed137_value = [a \in Adapter |-> {}]
    /\ packet = [b \in Buffer |-> [x |-> FALSE, ed137 |-> {}]]
    /\ rtphdr = <<"in", Tx>>
    /\ sender = Idle /\ receiver = Idle /\ setter = Idle /\ session = Idle
    /\ quiet = TRUE
    /\ reported = [a \in Adapter |-> {}]

-----------------------------------------------------------------------------
(* transport_send_rtp *)

\* The packet whose header the sender and the receiver fill in or read.  Both
\* go through rtphdr; the optimised build of the Makefile keeps the address
\* each thread has just stored there.  (Mutants: the shared pointer is read
\* again at each use.)
SenderPacketShared == rtphdr
SenderPacket == <<"out", sender.tp>>
ReceiverPacketShared == rtphdr
ReceiverPacket == <<"in", receiver.tp>>

\* The bridge hands adapter a an audio packet; its header and the first bytes
\* of its payload are copied to pkt_buff.
SendRtp(a) ==
    /\ sender.at = "idle"
    /\ a \in stream /\ a \in slave /\ session.at = "idle"
    /\ packet' = [packet EXCEPT ![<<"out", a>>] = [x |-> FALSE, ed137 |-> Audio]]
    /\ rtphdr' = <<"out", a>>
    /\ sender' = [at |-> "mark", tp |-> a, key |-> FALSE]
    /\ quiet' = (setter.at = "idle" \/ setter.tp # a)
    /\ UNCHANGED <<stream, slave, keys, ed137_value, receiver, setter, session, reported>>

Mark ==
    /\ sender.at = "mark"
    /\ packet' = [packet EXCEPT ![SenderPacket].x = TRUE]
    /\ sender' = [sender EXCEPT !.at = "test"]
    /\ UNCHANGED <<stream, slave, keys, ed137_value, rtphdr, receiver, setter, session,
                   quiet, reported>>

\* if(adapter->pttstatus)
TestKey ==
    /\ sender.at = "test"
    /\ sender' = [sender EXCEPT !.at = "store", !.key = pttstatus[sender.tp]]
    /\ UNCHANGED <<stream, slave, keys, ed137_value, packet, rtphdr, receiver, setter,
                   session, quiet, reported>>

\* The word goes into the packet.  (Mutant: once set, the priority is sent
\* whether or not the key is down.)
WordToSendIgnoresKey == Ed137Word(NoId, TRUE, pttpriority[sender.tp])
WordToSend == Ed137Word(NoId, sender.key, pttpriority[sender.tp])

Store ==
    /\ sender.at = "store"
    /\ packet' = [packet EXCEPT ![SenderPacket].ed137 = WordToSend]
    /\ sender' = [sender EXCEPT !.at = "send"]
    /\ UNCHANGED <<stream, slave, keys, ed137_value, rtphdr, receiver, setter, session,
                   quiet, reported>>

\* pkt_buff goes to the slave transport.
Send ==
    /\ sender.at = "send"
    /\ sender' = Idle
    /\ UNCHANGED <<stream, slave, keys, ed137_value, packet, rtphdr, receiver, setter,
                   session, quiet, reported>>

-----------------------------------------------------------------------------
(* transport_rtp_cb *)

\* The slave transport calls back with a packet of header h for adapter a.
RtpCb(a, h) ==
    /\ receiver.at = "idle"
    /\ a \in slave
    /\ packet' = [packet EXCEPT ![<<"in", a>>] = h]
    /\ rtphdr' = <<"in", a>>
    /\ receiver' = [at |-> "decode", tp |-> a, key |-> FALSE]
    /\ reported' = [reported EXCEPT ![a] = h.ed137]
    /\ UNCHANGED <<stream, slave, keys, ed137_value, sender, setter, session, quiet>>

\* A radio's packet, and one of a peer that is no radio.
RadioRtp(a) == \E f \in Field : RtpCb(a, [x |-> TRUE, ed137 |-> Report(f)])
PlainRtp(a) == RtpCb(a, [x |-> FALSE, ed137 |-> Audio])

\* adapter->ed137_value = rtphdr->ed137
Decode ==
    /\ receiver.at = "decode"
    /\ ed137_value' = [ed137_value EXCEPT ![receiver.tp] = packet[ReceiverPacket].ed137]
    /\ receiver' = [receiver EXCEPT !.at = "deliver"]
    /\ UNCHANGED <<stream, slave, keys, packet, rtphdr, sender, setter, session, quiet,
                   reported>>

\* setIncomingRTP, then the stream's callback.
Deliver ==
    /\ receiver.at = "deliver"
    /\ receiver' = Idle
    /\ UNCHANGED <<stream, slave, keys, ed137_value, packet, rtphdr, sender, setter,
                   session, quiet, reported>>

-----------------------------------------------------------------------------
(* setAdapterPtt writes two fields *)

SetAdapterPtt(a, v) ==
    /\ setter.at = "idle"
    /\ pttstatus' = [pttstatus EXCEPT ![a] = v]
    /\ setter' = [at |-> "priority", tp |-> a, key |-> v]
    /\ quiet' = (quiet /\ sender.tp # a)
    /\ UNCHANGED <<stream, slave, pttpriority, ed137_value, packet, rtphdr, sender,
                   receiver, session, reported>>

SetPriority ==
    /\ setter.at = "priority"
    /\ pttpriority' = [pttpriority EXCEPT ![setter.tp] = Priority]
    /\ setter' = Idle
    /\ UNCHANGED <<stream, slave, pttstatus, ed137_value, packet, rtphdr, sender, receiver,
                   session, quiet, reported>>

-----------------------------------------------------------------------------
(* transport_attach and transport_detach *)

Attach(a) ==
    /\ session.at = "idle"
    /\ a \notin stream
    /\ stream' = stream \cup {a}
    /\ session' = [at |-> "attach", tp |-> a, key |-> FALSE]
    /\ UNCHANGED <<slave, keys, ed137_value, packet, rtphdr, sender, receiver, setter,
                   quiet, reported>>

\* The slave accepts, or refuses and the fields are cleared again.
AttachSlave ==
    /\ session.at = "attach"
    /\ \/ slave' = slave \cup {session.tp} /\ UNCHANGED stream
       \/ stream' = stream \ {session.tp} /\ UNCHANGED slave
    /\ session' = Idle
    /\ UNCHANGED <<keys, ed137_value, packet, rtphdr, sender, receiver, setter, quiet,
                   reported>>

\* The slave is detached first.  pjmedia waits there for a callback that is
\* running, and pjsua has taken the stream off the bridge before.  (Mutant:
\* the fields are cleared first, before the slave waits.)
ReleaseClearsFirst(a) == stream' = stream \ {a} /\ UNCHANGED slave
Release(a) ==
    /\ receiver.at # "idle" => receiver.tp # a
    /\ slave' = slave \ {a} /\ UNCHANGED stream

Detach(a) ==
    /\ session.at = "idle"
    /\ a \in stream
    /\ sender.at # "idle" => sender.tp # a
    /\ Release(a)
    /\ session' = [at |-> "clear", tp |-> a, key |-> FALSE]
    /\ UNCHANGED <<keys, ed137_value, packet, rtphdr, sender, receiver, setter, quiet,
                   reported>>

ClearStream ==
    /\ session.at = "clear"
    /\ stream' = stream \ {session.tp}
    /\ session' = Idle
    /\ UNCHANGED <<slave, keys, ed137_value, packet, rtphdr, sender, receiver, setter,
                   quiet, reported>>

-----------------------------------------------------------------------------
Sender == (\E a \in Adapter : SendRtp(a)) \/ Mark \/ TestKey \/ Store \/ Send
Receiver == (\E a \in Adapter : RadioRtp(a) \/ PlainRtp(a)) \/ Decode \/ Deliver
Setter == (\E a \in Adapter, v \in BOOLEAN : SetAdapterPtt(a, v)) \/ SetPriority
Session == (\E a \in Adapter : Attach(a) \/ Detach(a)) \/ AttachSlave \/ ClearStream

Next == Sender \/ Receiver \/ Setter \/ Session

Spec == Init /\ [][Next]_vars

-----------------------------------------------------------------------------
(* Properties *)

\* pj_assert(adapter->stream_rtp_cb != NULL) holds at the top of
\* transport_rtp_cb and still when the stream's callback is called at its
\* end, whatever attach, a failed attach and detach do meanwhile.
CallbackIsSet == receiver.at # "idle" => receiver.tp \in stream

\* What leaves for a radio carries the header extension and no audio where
\* the word belongs, although another packet's header is decoded through the
\* same static pointer meanwhile: the word has no bit outside the
\* push-to-talk type.
PacketCarriesHeader ==
    sender.at = "send" =>
        LET h == packet[<<"out", sender.tp>>] IN
        h.x /\ ntohl(h.ed137) \subseteq PttMask

\* If nobody pressed or released while a packet was built, it tells the radio
\* the state of the key, although status and priority are written and read
\* one after the other.
PacketCarriesKey ==
    sender.at = "send" /\ quiet =>
        (PttOn(packet[<<"out", sender.tp>>].ed137) <=> pttstatus[sender.tp])

\* Between two callbacks the adapter holds what stood where the word belongs
\* in the last packet of its own peer: never the phone's own outgoing word,
\* never the other radio's.  (Nothing asks whether the packet has a header
\* extension; without one what stands there is audio.)
ValueIsReported ==
    \A a \in Adapter :
        \/ ed137_value[a] = reported[a]
        \/ receiver.at = "decode" /\ receiver.tp = a

\* Whoever asks after a radio's packet was decoded, with any of the getters,
\* is told the radio's own fields: no bit was lost or came from a neighbour
\* on the way through network order, whatever other threads do.
RadioIsRead ==
    receiver.at = "deliver" =>
        \A f \in Field : reported[receiver.tp] = Report(f) =>
            LET v == ed137_value[receiver.tp] IN
            /\ get_IPRadioPttStatus(v) = f.ptt
            /\ get_IPRadioSquelch(v) = f.squ
            /\ get_IPRadioPttId(v) = f.id
            /\ get_IPRadioBss(v) = f.bss
            /\ get_IPRadioStatus(v) <=> f.ptt \cup f.squ \cup f.id \cup f.bss # {}
=============================================================================
