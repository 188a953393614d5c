------------------------------- MODULE RtpTap -------------------------------
(***************************************************************************)
(* What happens to the audio that arrives: SoftPhone::setIncomingRTP taps  *)
(* each packet for the spectrum, the UDP copy and the WAV file.  Three     *)
(* threads meet here.  The media worker taps, the window sends text over   *)
(* the same UDP link and dials, and pjsua's worker starts and stops the    *)
(* recording when calls are confirmed and disconnected.  Recording is       *)
(* enabled in the settings (m_EnableRecording).                            *)
(*                                                                         *)
(* Samples are numbered as they are tapped.  A position in the WAV file is *)
(* 0 in the header, or the number of a sample in the data.                 *)
(***************************************************************************)
EXTENDS Naturals, Sequences, SequencesExt

CONSTANTS
    DEFAULT_FFT_SIZE,   \* samples of one spectrum
    PacketSize,         \* possible numbers of samples in a packet
    Text,               \* what the window sends
    MaxSamples          \* bound: samples tapped

ASSUME SizeAssumption ==
    /\ Text \in Seq({0})
    /\ DEFAULT_FFT_SIZE \in Nat \ {0}
    /\ PacketSize \subseteq Nat \ {0}
    /\ MaxSamples \in Nat

VARIABLES
    isSipCall, udpActive, m_SendPackets,         \* switches of the window
    pc,                                          \* where each thread is
    packet,                                      \* the packet being tapped
    tapped,                                      \* how many samples were tapped
    signalInput, block,                          \* spectrum: being filled, last one run
    m_sizeOfData, m_writeBuffer, datagram,       \* UDP link
    m_isRunning, out, wav,                       \* recorder: flag, FILE, file
    mixed, torn                                  \* history, see the properties

switches == <<isSipCall, udpActive, m_SendPackets>>
spectrum == <<tapped, signalInput, block>>
udp == <<m_sizeOfData, m_writeBuffer, datagram, mixed>>
recorder == <<m_isRunning, out, wav, torn>>
vars == <<switches, pc, packet, spectrum, udp, recorder>>

Thread == {"media", "window", "worker"}

Goto(t, l) == pc' = [pc EXCEPT ![t] = l]

Init ==
    /\ isSipCall = FALSE /\ udpActive = TRUE /\ m_SendPackets = FALSE
    /\ pc = [t \in Thread |-> "idle"]
    /\ packet = <<>>
    /\ tapped = 0
    /\ signalInput = <<>> /\ block = <<>>
    /\ m_sizeOfData = 0 /\ m_writeBuffer = <<>>
    /\ datagram = [asked |-> <<>>, buffer |-> <<>>, size |-> 0, alone |-> TRUE]
    /\ m_isRunning = FALSE
    /\ out = [state |-> "none", pos |-> 0]
    /\ wav = [data |-> <<>>, total |-> 0, length |-> 0, told |-> 0, spoilt |-> FALSE]
    /\ mixed = FALSE /\ torn = FALSE

-----------------------------------------------------------------------------
(* Switches *)

DialSip ==      \* makeSipCall, even when the URL is then found invalid
    /\ pc["window"] = "idle"
    /\ isSipCall' = TRUE
    /\ UNCHANGED <<udpActive, m_SendPackets, pc, packet, spectrum, udp, recorder>>

DialAsterisk == \* makeCall; dialling a radio leaves isSipCall alone
    /\ pc["window"] = "idle"
    /\ isSipCall' = FALSE
    /\ UNCHANGED <<udpActive, m_SendPackets, pc, packet, spectrum, udp, recorder>>

\* Unchecking either box checks it again, so only checking counts.
CheckUdp(b) ==
    /\ pc["window"] = "idle"
    /\ udpActive' = b
    /\ UNCHANGED <<isSipCall, m_SendPackets, pc, packet, spectrum, udp, recorder>>

ShowPackets(b) ==
    /\ pc["window"] = "idle"
    /\ m_SendPackets' = b
    /\ UNCHANGED <<isSipCall, udpActive, pc, packet, spectrum, udp, recorder>>

-----------------------------------------------------------------------------
(* The tap *)

\* One sample: while the buffer has room it is kept; when it is full the
\* spectrum is run and this sample is in neither.
\* (Mutant: the count is not reset.)
FeedNoReset(acc, s) ==
    IF Len(acc.in) < DEFAULT_FFT_SIZE
    THEN [acc EXCEPT !.in = Append(@, s)]
    ELSE [acc EXCEPT !.block = acc.in, !.in = SubSeq(@, 2, Len(@))]
Feed(acc, s) ==
    IF Len(acc.in) < DEFAULT_FFT_SIZE
    THEN [acc EXCEPT !.in = Append(@, s)]
    ELSE [in |-> <<>>, block |-> acc.in]

Samples(n) == [i \in 1..n |-> tapped + i]

\* The loop over the samples of a packet.
Fed(n) ==
    LET acc[i \in 0 .. n] ==
            IF i = 0 THEN [in |-> signalInput, block |-> block]
                     ELSE Feed(acc[i - 1], tapped + i)
    IN acc[n]

Tap(n) ==
    /\ pc["media"] = "idle" /\ ~isSipCall
    /\ tapped + n <= MaxSamples
    /\ packet' = Samples(n)
    /\ tapped' = tapped + n
    /\ signalInput' = Fed(n).in /\ block' = Fed(n).block
    /\ Goto("media", IF udpActive /\ m_SendPackets THEN "size" ELSE "record")
    /\ UNCHANGED <<switches, udp, recorder>>

-----------------------------------------------------------------------------
(* UDPCommunicator::write, which the window and the media worker may both be in *)

Argument(t) == IF t = "media" THEN packet ELSE Text
InWrite(t) == pc[t] \in {"size", "buffer", "send"}

ClickSend ==
    /\ pc["window"] = "idle" /\ udpActive
    /\ Goto("window", "size")
    /\ UNCHANGED <<switches, packet, spectrum, udp, recorder>>

\* (Mutant: a size of 0, which stands for the length of the text, is kept.)
SizeAsGiven(t) == IF t = "media" THEN Len(packet) ELSE 0
SizeOf(t) == Len(Argument(t))

SetSize(t) ==
    /\ pc[t] = "size"
    /\ m_sizeOfData' = SizeOf(t)
    /\ mixed' = \E u \in Thread \ {t} : InWrite(u)
    /\ Goto(t, "buffer")
    /\ UNCHANGED <<switches, packet, spectrum, m_writeBuffer, datagram, recorder>>

SetBuffer(t) ==
    /\ pc[t] = "buffer"
    /\ m_writeBuffer' = Argument(t)
    /\ Goto(t, "send")
    /\ UNCHANGED <<switches, packet, spectrum, m_sizeOfData, datagram, mixed, recorder>>

\* async_send_to hands the socket whatever the two members say by then.
SendTo(t) ==
    /\ pc[t] = "send"
    /\ datagram' = [asked |-> Argument(t), buffer |-> m_writeBuffer,
                    size |-> m_sizeOfData, alone |-> ~mixed]
    /\ Goto(t, IF t = "media" THEN "record" ELSE "idle")
    /\ UNCHANGED <<switches, packet, spectrum, m_sizeOfData, m_writeBuffer, mixed, recorder>>

-----------------------------------------------------------------------------
(* WavWriter *)

\* recordRtp and writeRTPWav: m_isRunning is read once per packet.
\* (Mutant: it is not read at all.)
RecordsAlways == TRUE
Records == m_isRunning

Record ==
    /\ pc["media"] = "record"
    /\ Goto("media", IF Records THEN "writing" ELSE "idle")
    /\ torn' = (torn \/ (Records /\ pc["worker"] # "idle"))
    /\ UNCHANGED <<switches, packet, spectrum, udp, m_isRunning, out, wav>>

\* One sample of wav_write goes where the FILE stands; a FILE that is closed
\* is freed memory.
Write(s) ==
    IF out.pos > 0
    THEN /\ wav' = [wav EXCEPT !.data = IF out.pos <= Len(@) THEN [@ EXCEPT ![out.pos] = s]
                                        ELSE Append(@, s)]
         /\ out' = [out EXCEPT !.pos = @ + 1]
    ELSE wav' = [wav EXCEPT !.spoilt = TRUE] /\ UNCHANGED out

WriteSample ==
    /\ pc["media"] = "writing"
    /\ IF out.state = "closed"
       THEN Goto("media", "crashed") /\ UNCHANGED <<packet, out, wav>>
       ELSE /\ Write(Head(packet))
            /\ packet' = Tail(packet)
            /\ Goto("media", IF Tail(packet) = <<>> THEN "idle" ELSE "writing")
    /\ UNCHANGED <<switches, spectrum, udp, m_isRunning, torn>>

AtWorker(from, to) ==
    /\ pc["worker"] = from
    /\ Goto("worker", to)
    /\ UNCHANGED <<switches, packet, spectrum, udp>>

\* start(), on CONFIRMED: another file takes the place of the one there was.
StartOpen ==
    /\ AtWorker("idle", "header")
    /\ out' = [state |-> "open", pos |-> 0]
    /\ wav' = [data |-> <<>>, total |-> 0, length |-> 0, told |-> 0, spoilt |-> FALSE]
    /\ torn' = (pc["media"] \in {"writing", "crashed"})
    /\ UNCHANGED m_isRunning

StartHeader ==
    /\ AtWorker("header", "run")
    /\ out' = [out EXCEPT !.pos = 1]
    /\ UNCHANGED <<m_isRunning, wav, torn>>

StartRun ==
    /\ AtWorker("run", "idle")
    /\ m_isRunning' = TRUE
    /\ UNCHANGED <<out, wav, torn>>

\* stop(), on DISCONNECTED if m_isRunning: tell the size, go back to the
\* header, patch both sizes, close, and only then clear the flag.
\* (Mutant: the size is told after going back.)
TellLate == 0
Tell == IF out.pos > 0 THEN out.pos - 1 ELSE 0

StopTell ==
    /\ m_isRunning
    /\ AtWorker("idle", "seek")
    /\ wav' = [wav EXCEPT !.told = Tell]
    /\ torn' = (torn \/ pc["media"] = "writing")
    /\ UNCHANGED <<m_isRunning, out>>

StopSeek ==
    /\ AtWorker("seek", "total")
    /\ out' = [out EXCEPT !.pos = 0]
    /\ UNCHANGED <<m_isRunning, wav, torn>>

StopTotal ==
    /\ AtWorker("total", "length")
    /\ wav' = [wav EXCEPT !.total = wav.told]
    /\ UNCHANGED <<m_isRunning, out, torn>>

StopLength ==
    /\ AtWorker("length", "close")
    /\ wav' = [wav EXCEPT !.length = wav.told]
    /\ out' = [out EXCEPT !.pos = 1]
    /\ UNCHANGED <<m_isRunning, torn>>

StopClose ==
    /\ AtWorker("close", "end")
    /\ out' = [out EXCEPT !.state = "closed"]
    /\ UNCHANGED <<m_isRunning, wav, torn>>

StopEnd ==
    /\ AtWorker("end", "idle")
    /\ m_isRunning' = FALSE
    /\ UNCHANGED <<out, wav, torn>>

-----------------------------------------------------------------------------
Switch == DialSip \/ DialAsterisk \/ \E b \in BOOLEAN : CheckUdp(b) \/ ShowPackets(b)
UdpWrite == ClickSend \/ \E t \in {"media", "window"} : SetSize(t) \/ SetBuffer(t) \/ SendTo(t)
Media == (\E n \in PacketSize : Tap(n)) \/ Record \/ WriteSample
Start == StartOpen \/ StartHeader \/ StartRun
Stop == StopTell \/ StopSeek \/ StopTotal \/ StopLength \/ StopClose \/ StopEnd

Next == Switch \/ UdpWrite \/ Media \/ Start \/ Stop

Spec == Init /\ [][Next]_vars

-----------------------------------------------------------------------------
(* Properties *)

Consecutive(s) == \A i \in DOMAIN s : s[i] = s[1] + i - 1

\* Each spectrum is of consecutive samples, and between two of them one sample
\* is lost, however the samples come in packets and whatever else runs.
SpectrumLosesOne ==
    /\ Consecutive(block)
    /\ Consecutive(signalInput)
    /\ signalInput # <<>> /\ block # <<>> => signalInput[1] = Last(block) + 2
    /\ signalInput # <<>> => Last(signalInput) = tapped

\* A datagram is what its sender asked for, all of it, unless the other thread
\* was inside write() at the same time.
DatagramIsWhole ==
    datagram.alone => datagram.buffer = datagram.asked /\ datagram.size = Len(datagram.asked)

\* When start() and stop() did not run while a packet was being written, the
\* closed file has an undamaged header that tells the size of its data.
HeaderTellsData ==
    out.state = "closed" /\ ~torn =>
        ~wav.spoilt /\ wav.total = Len(wav.data) /\ wav.length = Len(wav.data)

\* In that case, too, the file holds every sample since its first one and
\* nothing is written to a closed FILE.
RecordingIsGapless ==
    ~torn => Consecutive(wav.data) /\ pc["media"] # "crashed"
=============================================================================
