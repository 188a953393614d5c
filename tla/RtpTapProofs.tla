---------------------------- MODULE RtpTapProofs ----------------------------
(***************************************************************************)
(* For every size of a spectrum and of packets, every text and any number  *)
(* of samples: spectra are of consecutive samples, and datagrams and       *)
(* recordings are whole unless two threads met.                            *)
(*                                                                         *)
(* SpectrumInv is inductive without the types of the other variables; the  *)
(* loop over a packet is a recursive function, so that it exists and what  *)
(* it keeps are shown by the least number for which they would fail.       *)
(***************************************************************************)
EXTENDS RtpTap, SequenceTheorems, WellFoundedInduction, TLAPS

MediaPc == {"idle", "size", "buffer", "send", "record", "writing", "crashed"}
WindowPc == {"idle", "size", "buffer", "send"}
WorkerPc == {"idle", "header", "run", "seek", "total", "length", "close", "end"}

Pc == MediaPc \cup WorkerPc

\* The threads, what the media worker holds, and the recorder keep their types.
Types ==
    /\ pc \in [Thread -> Pc]
    /\ packet \in Seq(Nat) /\ tapped \in Nat
    /\ mixed \in BOOLEAN /\ torn \in BOOLEAN /\ m_isRunning \in BOOLEAN
    /\ out \in [state : {"none", "open", "closed"}, pos : Nat]
    /\ wav \in [data : Seq(Nat), total : Nat, length : Nat, told : Nat, spoilt : BOOLEAN]

-----------------------------------------------------------------------------
(* UDP *)

\* Of two threads inside write() the flag knows; a thread alone finds in the
\* members what it has put there.
Alone(t) ==
    /\ pc[t] \in {"buffer", "send"} => m_sizeOfData = Len(Argument(t))
    /\ pc[t] = "send" => m_writeBuffer = Argument(t)
Sending ==
    ~mixed =>
        /\ ~(pc["media"] \in {"buffer", "send"} /\ pc["window"] \in {"buffer", "send"})
        /\ Alone("media") /\ Alone("window")
UdpInv == Sending /\ DatagramIsWhole

-----------------------------------------------------------------------------
(* Recorder *)

\* Unless torn, a packet is written to an open file at its end while the
\* other worker rests, and each step of start() and stop() finds what the
\* one before it has left.
Patched ==
    LET w == pc["worker"]
        size == Len(wav.data)
    IN
    /\ w \in {"header", "run", "seek", "total", "length", "close"} => out.state = "open"
    /\ w \in {"header", "run"} => wav.data = <<>>
    /\ w = "run" => out.pos = 1
    /\ w \in {"seek", "total", "length", "close"} => wav.told = size
    /\ w \in {"length", "close"} => wav.total = size
    /\ w = "close" => wav.length = size
    /\ out.state = "closed" => wav.total = size /\ wav.length = size
    /\ w = "idle" /\ m_isRunning => out.state = "open" /\ out.pos = size + 1
    /\ w = "end" \/ (w = "idle" /\ ~m_isRunning) => out.state # "open"

FileInv ==
    ~torn => /\ ~wav.spoilt
             /\ Patched
             /\ pc["media"] = "writing" => pc["worker"] = "idle" /\ m_isRunning
             /\ pc["media"] # "crashed"

-----------------------------------------------------------------------------
(* Samples *)

Busy == pc["media"] \in MediaPc \ {"idle", "crashed"}
Left == IF Busy THEN Len(packet) ELSE 0

\* The packet is the end of what was tapped, and the data of a running
\* recording reaches up to what is left of it.
PacketInv == Busy => /\ packet # <<>> /\ Len(packet) <= tapped
                     /\ \A i \in DOMAIN packet : packet[i] = tapped - Len(packet) + i
DataInv ==
    ~torn => /\ Consecutive(wav.data)
             /\ pc["worker"] = "idle" /\ m_isRunning /\ wav.data # <<>> =>
                    wav.data[1] + Len(wav.data) = tapped - Left + 1

RecorderInv == FileInv /\ PacketInv /\ DataInv

IInv == Types /\ UdpInv /\ RecorderInv

-----------------------------------------------------------------------------
(* The spectrum *)

\* What SpectrumLosesOne says of one state of the loop over a packet, after
\* sample t; an empty buffer that follows a spectrum has just lost t.
Filled(in, blk, t) ==
    /\ in \in Seq(Nat) /\ blk \in Seq(Nat)
    /\ Consecutive(blk) /\ Consecutive(in)
    /\ blk # <<>> => IF in = <<>> THEN t = Last(blk) + 1 ELSE in[1] = Last(blk) + 2
    /\ in # <<>> => Last(in) = t

FilledAcc(acc, t) ==
    acc \in [in : Seq(Nat), block : Seq(Nat)] /\ Filled(acc.in, acc.block, t)

SpectrumInv == tapped \in Nat /\ Filled(signalInput, block, tapped)

\* A run of consecutive samples grows by the next one.
LEMMA ConsecutiveGrows ==
    ASSUME NEW s \in Seq(Nat), Consecutive(s), NEW e \in Nat, s # <<>> => e = s[1] + Len(s)
    PROVE  /\ Append(s, e) \in Seq(Nat) /\ Consecutive(Append(s, e))
           /\ Append(s, e) # <<>> /\ Last(Append(s, e)) = e
           /\ Append(s, e)[1] = IF s = <<>> THEN e ELSE s[1]
  <1>1. PICK new : new = Append(s, e)
    OBVIOUS
  <1>2. /\ new \in Seq(Nat) /\ new # <<>> /\ Len(new) = Len(s) + 1
        /\ \A i \in 1 .. Len(s) : new[i] = s[i]
        /\ new[Len(s) + 1] = e
    BY <1>1, AppendProperties
  <1>3. Len(s) \in Nat /\ DOMAIN s = 1 .. Len(s) /\ DOMAIN new = 1 .. Len(s) + 1
        /\ \A i \in 1 .. Len(s) : s[i] \in Nat
    BY <1>2, LenProperties, ElementOfSeq
  <1>4. Last(new) = e
    BY <1>2 DEF Last
  <1>5. CASE s = <<>>
    <2>1. Len(s) = 0
      BY <1>5
    <2>2. new[1] = e
      BY <1>2, <2>1
    <2>3. Consecutive(new)
      BY <1>3, <2>1, <2>2 DEF Consecutive
    <2> QED
      BY <1>1, <1>2, <1>4, <1>5, <2>2, <2>3
  <1>6. CASE s # <<>>
    <2>1. Len(s) >= 1
      BY <1>6, <1>3, EmptySeq
    <2>2. new[1] = s[1] /\ s[1] \in Nat
      BY <1>2, <1>3, <2>1
    <2>3. \A i \in 1 .. Len(s) : s[i] = s[1] + i - 1
      BY <1>3 DEF Consecutive
    <2>4. ASSUME NEW i \in 1 .. Len(s) + 1 PROVE new[i] = new[1] + i - 1
      <3>1. CASE i \in 1 .. Len(s)
        BY <3>1, <1>2, <2>2, <2>3
      <3>2. CASE i = Len(s) + 1
        BY <3>2, <1>2, <1>3, <1>6, <2>2
      <3> QED
        BY <1>3, <3>1, <3>2
    <2>5. Consecutive(new)
      BY <1>3, <2>4 DEF Consecutive
    <2> QED
      BY <1>1, <1>2, <1>4, <1>6, <2>2, <2>5
  <1> QED
    BY <1>5, <1>6

LEMMA LastOfRun ==
    ASSUME NEW s \in Seq(Nat), Consecutive(s), s # <<>>
    PROVE  Last(s) \in Nat /\ s[1] \in Nat /\ Last(s) + 1 = s[1] + Len(s)
  <1>1. Len(s) \in Nat \ {0} /\ DOMAIN s = 1 .. Len(s)
    BY LenProperties, EmptySeq
  <1>2. s[Len(s)] \in Nat /\ s[1] \in Nat
    BY <1>1, ElementOfSeq
  <1>3. s[Len(s)] = s[1] + Len(s) - 1
    BY <1>1 DEF Consecutive
  <1> QED
    BY <1>1, <1>2, <1>3 DEF Last

\* One more sample while the buffer has room.
LEMMA AppendFills ==
    ASSUME NEW in \in Seq(Nat), NEW blk \in Seq(Nat), NEW t \in Nat, Filled(in, blk, t)
    PROVE  Filled(Append(in, t + 1), blk, t + 1)
  <1>1. Consecutive(in) /\ Consecutive(blk)
    BY DEF Filled
  <1>2. in # <<>> => t + 1 = in[1] + Len(in)
    BY <1>1, LastOfRun DEF Filled
  <1>3. PICK new : new = Append(in, t + 1)
    OBVIOUS
  <1>4. /\ new \in Seq(Nat) /\ Consecutive(new) /\ new # <<>> /\ Last(new) = t + 1
        /\ new[1] = IF in = <<>> THEN t + 1 ELSE in[1]
    BY <1>1, <1>2, <1>3, ConsecutiveGrows
  <1>5. blk # <<>> => new[1] = Last(blk) + 2
    <2> SUFFICES ASSUME blk # <<>> PROVE new[1] = Last(blk) + 2
      OBVIOUS
    <2>1. Last(blk) \in Nat
      BY <1>1, LastOfRun
    <2>2. CASE in = <<>>
      BY <1>4, <2>1, <2>2 DEF Filled
    <2>3. CASE in # <<>>
      BY <1>4, <2>1, <2>3 DEF Filled
    <2> QED
      BY <2>2, <2>3
  <1> QED
    BY <1>1, <1>3, <1>4, <1>5 DEF Filled

LEMMA FeedFills ==
    ASSUME NEW acc, NEW t \in Nat, FilledAcc(acc, t)
    PROVE  FilledAcc(Feed(acc, t + 1), t + 1)
  <1>1. PICK in \in Seq(Nat), blk \in Seq(Nat) : acc = [in |-> in, block |-> blk]
    BY DEF FilledAcc
  <1>2. Filled(in, blk, t)
    BY <1>1 DEF FilledAcc
  <1>3. \A i, b : Filled(i, b, t + 1) => FilledAcc([in |-> i, block |-> b], t + 1)
    BY DEF Filled, FilledAcc
  <1>4. CASE Len(in) < DEFAULT_FFT_SIZE
    <2>1. Feed(acc, t + 1) = [in |-> Append(in, t + 1), block |-> blk]
      BY <1>1, <1>4 DEF Feed
    <2> QED
      BY <1>2, <1>3, <2>1, AppendFills
  <1>5. CASE ~(Len(in) < DEFAULT_FFT_SIZE)
    <2>1. Feed(acc, t + 1) = [in |-> <<>>, block |-> in]
      BY <1>1, <1>5 DEF Feed
    <2>2. in # <<>>
      BY <1>5, SizeAssumption
    <2>3. Filled(<<>>, in, t + 1)
      BY <1>2, <2>2 DEF Filled, Consecutive
    <2> QED
      BY <1>3, <2>1, <2>3
  <1> QED
    BY <1>4, <1>5

LEMMA LeastNat ==
    ASSUME NEW T, T \subseteq Nat, T # {}
    PROVE  \E m \in T : \A k \in T : m <= k
  <1>0. \E m \in T : \A k \in T : ~(<<k, m>> \in OpToRel(<, Nat))
    BY NatLessThanWellFounded, WFMin
  <1>1. PICK m \in T : \A k \in T : ~(<<k, m>> \in OpToRel(<, Nat))
    BY <1>0
  <1>2. \A k \in T : m <= k
    <2> TAKE k \in T
    <2>1. m \in Nat /\ k \in Nat
      OBVIOUS
    <2>2. <<k, m>> \in OpToRel(<, Nat) <=> k < m
      BY <2>1 DEF OpToRel
    <2>3. ~(k < m)
      BY <1>1, <2>2
    <2> QED
      BY <2>1, <2>3
  <1> QED
    BY <1>2

\* The states of the loop exist for a packet of any length.
Chain(f, m) ==
    f = [i \in 0 .. m |-> IF i = 0 THEN [in |-> signalInput, block |-> block]
                                   ELSE Feed(f[i - 1], tapped + i)]

LEMMA ChainExists == \A m \in Nat : \E f : Chain(f, m)
  <1> DEFINE Bad == {m \in Nat : ~ \E f : Chain(f, m)}
             first == [in |-> signalInput, block |-> block]
  <1> SUFFICES ASSUME Bad # {} PROVE FALSE
    OBVIOUS
  <1>1. PICK m \in Bad : \A k \in Bad : m <= k
    BY LeastNat
  <1>2. m # 0
    <2>1. Chain([i \in 0 .. 0 |-> first], 0)
      BY DEF Chain
    <2> QED
      BY <2>1
  <1>3. m - 1 \in Nat /\ m - 1 \notin Bad
    BY <1>1, <1>2
  <1>4. PICK f : Chain(f, m - 1)
    BY <1>3
  <1> DEFINE g == [i \in 0 .. m |-> IF i = m THEN Feed(f[m - 1], tapped + m) ELSE f[i]]
  <1>5. \A i \in 0 .. m - 1 : f[i] = IF i = 0 THEN first ELSE Feed(f[i - 1], tapped + i)
    BY <1>4 DEF Chain
  <1>6. ASSUME NEW i \in 0 .. m
        PROVE  g[i] = IF i = 0 THEN first ELSE Feed(g[i - 1], tapped + i)
    <2>1. CASE i = m
      <3>1. g[i - 1] = f[m - 1] /\ i # 0
        BY <2>1, <1>2, <1>3
      <3> QED
        BY <2>1, <3>1
    <2>2. CASE i # m
      <3>1. i \in 0 .. m - 1 /\ g[i] = f[i]
        BY <2>2, <1>3
      <3>2. i # 0 => g[i - 1] = f[i - 1]
        BY <2>2, <1>3
      <3> QED
        BY <3>1, <3>2, <1>5
    <2> QED
      BY <2>1, <2>2
  <1>7. Chain(g, m)
    <2>1. g = [i \in 0 .. m |-> g[i]]
      OBVIOUS
    <2> HIDE DEF g
    <2> QED
      BY <2>1, <1>6 DEF Chain
  <1> QED
    BY <1>1, <1>7

\* The loop of a packet keeps Filled from sample to sample.
LEMMA FedFills ==
    ASSUME NEW n \in Nat, SpectrumInv
    PROVE  FilledAcc(Fed(n), tapped + n)
  <1>1. PICK f : Chain(f, n) /\ Fed(n) = f[n]
    BY ChainExists DEF Chain, Fed
  <1>2. f[0] = [in |-> signalInput, block |-> block]
        /\ \A i \in 1 .. n : f[i] = Feed(f[i - 1], tapped + i)
    BY <1>1 DEF Chain
  <1>3. \A i \in 0 .. n : FilledAcc(f[i], tapped + i)
    <2> DEFINE Bad == {i \in 0 .. n : ~FilledAcc(f[i], tapped + i)}
    <2> SUFFICES ASSUME Bad # {} PROVE FALSE
      OBVIOUS
    <2>0. Bad \subseteq Nat
      OBVIOUS
    <2>1. PICK m \in Bad : \A k \in Bad : m <= k
      BY <2>0, LeastNat
    <2>2. m # 0
      BY <1>2 DEF SpectrumInv, Filled, FilledAcc
    <2>3. FilledAcc(f[m - 1], tapped + (m - 1))
      BY <2>1, <2>2
    <2>4. FilledAcc(Feed(f[m - 1], (tapped + (m - 1)) + 1), (tapped + (m - 1)) + 1)
      BY <2>1, <2>2, <2>3, FeedFills DEF SpectrumInv
    <2>5. (tapped + (m - 1)) + 1 = tapped + m
      BY <2>1 DEF SpectrumInv
    <2> QED
      BY <1>2, <2>1, <2>2, <2>4, <2>5
  <1> QED
    BY <1>1, <1>3

LEMMA SpectrumStep == SpectrumInv /\ [Next]_vars => SpectrumInv'
  <1> SUFFICES ASSUME SpectrumInv, [Next]_vars PROVE SpectrumInv'
    OBVIOUS
  <1>1. CASE UNCHANGED spectrum
    BY <1>1 DEF SpectrumInv, Filled, spectrum
  <1>2. ASSUME NEW n \in PacketSize, Tap(n) PROVE SpectrumInv'
    <2>1. n \in Nat /\ tapped + n \in Nat
      BY SizeAssumption DEF SpectrumInv
    <2>2. FilledAcc(Fed(n), tapped + n)
      BY <2>1, FedFills
    <2>3. tapped' = tapped + n /\ signalInput' = Fed(n).in /\ block' = Fed(n).block
      BY <1>2 DEF Tap
    <2>4. PICK acc : acc = Fed(n)
      OBVIOUS
    <2> QED
      BY <2>1, <2>2, <2>3, <2>4 DEF FilledAcc, SpectrumInv, Filled
  <1>3. Switch \/ UdpWrite \/ Record \/ WriteSample \/ Start \/ Stop => UNCHANGED spectrum
    BY DEF Switch, DialSip, DialAsterisk, CheckUdp, ShowPackets, UdpWrite, ClickSend, SetSize,
           SetBuffer, SendTo, Record, WriteSample, Start, StartOpen, StartHeader, StartRun,
           Stop, StopTell, StopSeek, StopTotal, StopLength, StopClose, StopEnd, AtWorker
  <1>4. UNCHANGED vars => UNCHANGED spectrum
    BY DEF vars
  <1> QED
    BY <1>1, <1>2, <1>3, <1>4 DEF Next, Media


-----------------------------------------------------------------------------
LEMMA InitIInv == Init => IInv
  <1> SUFFICES ASSUME Init PROVE IInv
    OBVIOUS
  <1> USE DEF Init
  <1>1. Types
    <2>1. pc \in [Thread -> Pc]
      BY DEF Thread, Pc, MediaPc
    <2>2. out \in [state : {"none", "open", "closed"}, pos : Nat]
      OBVIOUS
    <2>3. wav \in [data : Seq(Nat), total : Nat, length : Nat, told : Nat, spoilt : BOOLEAN]
      OBVIOUS
    <2> QED
      BY <2>1, <2>2, <2>3 DEF Types
  <1>2. UdpInv
    BY DEF UdpInv, Sending, Alone, DatagramIsWhole, Thread
  <1>3. FileInv
    BY DEF FileInv, Patched, Thread
  <1>4. PacketInv /\ DataInv
    BY DEF PacketInv, DataInv, Busy, Consecutive, Thread
  <1> QED
    BY <1>1, <1>2, <1>3, <1>4 DEF IInv, RecorderInv

\* A thread that goes on moves no other.
LEMMA GotoMoves ==
    ASSUME Types, NEW t \in Thread, NEW l \in Pc, Goto(t, l)
    PROVE  /\ pc' \in [Thread -> Pc]
           /\ pc'[t] = l
           /\ \A u \in Thread \ {t} : pc'[u] = pc[u]
  BY DEF Types, Goto

(* Steps of the window that only flip a switch                               *)
LEMMA SwitchKeeps == IInv /\ Switch => IInv'
  <1> SUFFICES ASSUME IInv, Switch PROVE IInv'
    OBVIOUS
  <1>1. UNCHANGED <<pc, packet, spectrum, udp, recorder>>
    BY DEF Switch, DialSip, DialAsterisk, CheckUdp, ShowPackets
  <1> USE <1>1 DEF IInv, RecorderInv, spectrum, udp, recorder
  <1>2. Types'
    BY DEF Types
  <1>3. UdpInv'
    BY DEF UdpInv, Sending, Alone, Argument, DatagramIsWhole
  <1>4. FileInv'
    BY DEF FileInv, Patched
  <1>5. PacketInv' /\ DataInv'
    BY DEF PacketInv, DataInv, Busy, Left, Consecutive
  <1> QED
    BY <1>2, <1>3, <1>4, <1>5

(* Steps of UDP                                                              *)
LEMMA UdpType ==
    ASSUME Types, UdpWrite
    PROVE  Types'
  <1>1. UNCHANGED <<packet, tapped, torn, m_isRunning, out, wav>>
    BY DEF UdpWrite, ClickSend, SetSize, SetBuffer, SendTo, spectrum, recorder
  <1>2. pc' \in [Thread -> Pc]
    <2>1. PICK t \in Thread, l \in {"size", "buffer", "send", "record", "idle"} : Goto(t, l)
      BY DEF UdpWrite, ClickSend, SetSize, SetBuffer, SendTo, Thread
    <2> QED
      BY <2>1, GotoMoves DEF Pc, MediaPc
  <1>3. mixed' \in BOOLEAN
    <2>1. ASSUME NEW t \in Thread, SetSize(t) PROVE mixed' \in BOOLEAN
      BY <2>1 DEF SetSize
    <2>2. UNCHANGED mixed \/ \E t \in Thread : SetSize(t)
      BY DEF UdpWrite, ClickSend, SetBuffer, SendTo, udp, Thread
    <2> QED
      BY <2>1, <2>2 DEF Types
  <1> QED
    BY <1>1, <1>2, <1>3 DEF Types

LEMMA UdpKeepsUdp ==
    ASSUME Types, UdpInv, UdpWrite
    PROVE  UdpInv'
  <1> USE DEF Types, UdpInv, Sending, Alone, Argument, InWrite, Goto, Thread, recorder, spectrum
  <1>1. CASE ClickSend
    BY <1>1 DEF ClickSend, udp, DatagramIsWhole
  <1>2. ASSUME NEW t \in {"media", "window"}, SetSize(t) PROVE UdpInv'
    BY <1>2 DEF SetSize, SizeOf, DatagramIsWhole
  <1>3. ASSUME NEW t \in {"media", "window"}, SetBuffer(t) PROVE UdpInv'
    BY <1>3 DEF SetBuffer, DatagramIsWhole
  <1>4. ASSUME NEW t \in {"media", "window"}, SendTo(t) PROVE UdpInv'
    BY <1>4 DEF SendTo, DatagramIsWhole
  <1> QED
    BY <1>1, <1>2, <1>3, <1>4 DEF UdpWrite

LEMMA UdpKeepsRecorder ==
    ASSUME Types, RecorderInv, UdpWrite
    PROVE  RecorderInv'
  <1>1. /\ UNCHANGED <<packet, spectrum, recorder>>
        /\ pc'["worker"] = pc["worker"]
        /\ \/ pc'["media"] = pc["media"]
           \/ pc["media"] \in {"size", "buffer", "send"}
              /\ pc'["media"] \in {"buffer", "send", "record"}
    BY DEF UdpWrite, ClickSend, SetSize, SetBuffer, SendTo, Goto, Types, Thread
  <1> USE <1>1 DEF RecorderInv, spectrum, recorder
  <1>2. FileInv'
    BY DEF FileInv, Patched
  <1>3. Busy' = Busy
    BY DEF Busy, MediaPc
  <1>4. PacketInv' /\ DataInv'
    BY <1>3 DEF PacketInv, DataInv, Left, Consecutive
  <1> QED
    BY <1>2, <1>4

-----------------------------------------------------------------------------
(* Steps of the media worker                                                 *)

\* Neither a step of the media worker outside write() nor one of the other
\* worker disturbs the link.
LEMMA OthersKeepUdp ==
    ASSUME Types, UdpInv, UNCHANGED udp,
           pc'["window"] = pc["window"],
           (pc'["media"] = pc["media"] /\ UNCHANGED packet)
             \/ pc'["media"] \notin {"buffer", "send"}
    PROVE  UdpInv'
  BY DEF UdpInv, Sending, Alone, Argument, DatagramIsWhole, udp

LEMMA TapKeeps ==
    ASSUME IInv, NEW n \in PacketSize, Tap(n)
    PROVE  IInv'
  <1> DEFINE l == IF udpActive /\ m_SendPackets THEN "size" ELSE "record"
  <1>1. n \in Nat \ {0} /\ tapped \in Nat /\ pc["media"] = "idle"
    BY SizeAssumption DEF Tap, IInv, Types
  <1>2. Goto("media", l) /\ l \in {"size", "record"}
    BY DEF Tap
  <1>3. pc' \in [Thread -> Pc] /\ pc'["media"] = l
        /\ pc'["window"] = pc["window"] /\ pc'["worker"] = pc["worker"]
    BY <1>2, GotoMoves DEF IInv, Thread, Pc, MediaPc
  <1>4. /\ packet' = [i \in 1..n |-> tapped + i] /\ tapped' = tapped + n
        /\ UNCHANGED <<udp, mixed, torn, m_isRunning, out, wav>>
    BY DEF Tap, Samples, udp, recorder
  <1>5. packet' \in Seq(Nat) /\ Len(packet') = n
    BY <1>1, <1>4
  <1>6. Types'
    BY <1>1, <1>3, <1>4, <1>5 DEF IInv, Types
  <1>7. UdpInv'
    BY <1>2, <1>3, <1>4, OthersKeepUdp DEF IInv
  <1>8. FileInv'
    BY <1>2, <1>3, <1>4 DEF IInv, RecorderInv, FileInv, Patched
  <1>9. PacketInv'
    BY <1>1, <1>4, <1>5 DEF PacketInv
  <1>10. DataInv'
    <2>1. Left = 0 /\ Left' = n
      BY <1>1, <1>2, <1>3, <1>5 DEF Left, Busy, MediaPc
    <2> QED
      BY <2>1, <1>1, <1>3, <1>4 DEF IInv, RecorderInv, DataInv, Consecutive
  <1> QED
    BY <1>6, <1>7, <1>8, <1>9, <1>10 DEF IInv, RecorderInv

LEMMA RecordKeeps ==
    ASSUME IInv, Record
    PROVE  IInv'
  <1> DEFINE l == IF m_isRunning THEN "writing" ELSE "idle"
  <1>1. Goto("media", l) /\ l \in {"writing", "idle"} /\ pc["media"] = "record"
    BY DEF Record, Records
  <1>2. pc' \in [Thread -> Pc] /\ pc'["media"] = l
        /\ pc'["window"] = pc["window"] /\ pc'["worker"] = pc["worker"]
    BY <1>1, GotoMoves DEF IInv, Thread, Pc, MediaPc
  <1>3. /\ UNCHANGED <<packet, tapped, udp, mixed, m_isRunning, out, wav>>
        /\ torn' = (torn \/ (m_isRunning /\ pc["worker"] # "idle"))
    BY DEF Record, Records, udp, spectrum
  <1>4. Types'
    BY <1>2, <1>3 DEF IInv, Types
  <1>5. UdpInv'
    BY <1>1, <1>2, <1>3, OthersKeepUdp DEF IInv
  <1>6. FileInv'
    BY <1>1, <1>2, <1>3 DEF IInv, RecorderInv, FileInv, Patched
  <1>7. PacketInv'
    BY <1>1, <1>2, <1>3 DEF IInv, RecorderInv, PacketInv, Busy, MediaPc
  <1>8. DataInv'
    <2>1. m_isRunning => Left' = Left
      BY <1>1, <1>2, <1>3 DEF Left, Busy, MediaPc
    <2> QED
      BY <2>1, <1>2, <1>3 DEF IInv, RecorderInv, DataInv, Consecutive
  <1> QED
    BY <1>4, <1>5, <1>6, <1>7, <1>8 DEF IInv, RecorderInv

\* A sample written keeps the types, wherever the FILE stands.
LEMMA WriteType ==
    ASSUME Types, NEW s \in Nat, Write(s)
    PROVE  /\ out' \in [state : {"none", "open", "closed"}, pos : Nat]
           /\ wav' \in [data : Seq(Nat), total : Nat, length : Nat, told : Nat, spoilt : BOOLEAN]
  <1>1. wav.data \in Seq(Nat) /\ out.pos \in Nat
    BY DEF Types
  <1>2. CASE out.pos > 0
    <2> DEFINE d == IF out.pos <= Len(wav.data) THEN [wav.data EXCEPT ![out.pos] = s]
                    ELSE Append(wav.data, s)
    <2>1. d \in Seq(Nat)
      <3>1. CASE out.pos <= Len(wav.data)
        BY <1>1, <1>2, <3>1
      <3>2. CASE ~(out.pos <= Len(wav.data))
        BY <1>1, <3>2
      <3> QED
        BY <3>1, <3>2
    <2>2. wav' = [wav EXCEPT !.data = d] /\ out' = [out EXCEPT !.pos = @ + 1]
      BY <1>2 DEF Write
    <2> HIDE DEF d
    <2>3. out' \in [state : {"none", "open", "closed"}, pos : Nat]
      <3>1. out \in [state : {"none", "open", "closed"}, pos : Nat]
        BY DEF Types
      <3>2. out' = [out EXCEPT !.pos = @ + 1]
        BY <2>2
      <3> QED
        BY <3>1, <3>2
    <2>4. wav' \in [data : Seq(Nat), total : Nat, length : Nat, told : Nat, spoilt : BOOLEAN]
      <3>1. wav \in [data : Seq(Nat), total : Nat, length : Nat, told : Nat, spoilt : BOOLEAN]
        BY DEF Types
      <3> QED
        BY <2>1, <2>2, <3>1
    <2> QED
      BY <2>3, <2>4
  <1>3. CASE ~(out.pos > 0)
    BY <1>3 DEF Write, Types
  <1> QED
    BY <1>2, <1>3

LEMMA WriteSampleKeeps ==
    ASSUME IInv, WriteSample
    PROVE  IInv'
  <1>1. /\ pc["media"] = "writing"
        /\ packet \in Seq(Nat) /\ packet # <<>> /\ tapped \in Nat
        /\ Len(packet) <= tapped
        /\ \A i \in DOMAIN packet : packet[i] = tapped - Len(packet) + i
    BY DEF WriteSample, IInv, Types, RecorderInv, PacketInv, Busy, MediaPc
  <1>2. UNCHANGED <<tapped, udp, mixed, m_isRunning, torn>>
    BY DEF WriteSample, spectrum, udp
  <1>3. PICK l \in {"crashed", "idle", "writing"} :
           /\ Goto("media", l)
           /\ l = "crashed" <=> out.state = "closed"
           /\ l # "crashed" => /\ Write(Head(packet)) /\ packet' = Tail(packet)
                               /\ l = "idle" <=> Tail(packet) = <<>>
           /\ l = "crashed" => UNCHANGED <<packet, out, wav>>
    BY DEF WriteSample
  <1>4. pc' \in [Thread -> Pc] /\ pc'["media"] = l
        /\ pc'["window"] = pc["window"] /\ pc'["worker"] = pc["worker"]
    BY <1>3, GotoMoves DEF IInv, Thread, Pc, MediaPc
  <1>5. Types'
    <2>1. CASE l = "crashed"
      BY <1>2, <1>3, <1>4, <2>1 DEF IInv, Types
    <2>2. CASE l # "crashed"
      <3>1. Head(packet) \in Nat /\ packet' \in Seq(Nat)
        <4>1. packet' = Tail(packet)
          BY <1>3, <2>2
        <4>2. packet \in Seq(Nat) /\ packet # <<>>
          BY <1>1
        <4> QED
          BY <4>1, <4>2
      <3>2. Write(Head(packet))
        BY <1>3, <2>2
      <3> QED
        BY <1>2, <1>4, <3>1, <3>2, WriteType DEF IInv, Types
    <2> QED
      BY <2>1, <2>2
  <1>6. UdpInv'
    BY <1>2, <1>3, <1>4, OthersKeepUdp DEF IInv
  <1>7. PacketInv'
    <2>1. CASE l = "writing"
      <3>1. packet' = Tail(packet) /\ packet' # <<>>
        BY <1>3, <2>1
      <3>2. Len(packet') = Len(packet) - 1
            /\ \A i \in DOMAIN packet' : i + 1 \in DOMAIN packet /\ packet'[i] = packet[i + 1]
        BY <1>1, <3>1
      <3>3. \A i \in DOMAIN packet' : packet'[i] = tapped - Len(packet') + i
        BY <1>1, <3>1, <3>2
      <3> QED
        BY <1>1, <1>2, <3>1, <3>2, <3>3 DEF PacketInv
    <2>2. CASE l # "writing"
      BY <1>3, <1>4, <2>2 DEF PacketInv, Busy, MediaPc
    <2> QED
      BY <2>1, <2>2
  <1>8. ASSUME ~torn
        PROVE  /\ pc["worker"] = "idle" /\ m_isRunning /\ l # "crashed"
               /\ out.pos = Len(wav.data) + 1
               /\ wav' = [wav EXCEPT !.data = Append(@, Head(packet))]
               /\ out' = [out EXCEPT !.pos = @ + 1]
    <2>1. /\ pc["worker"] = "idle" /\ m_isRunning
          /\ out.state = "open" /\ out.pos = Len(wav.data) + 1
      BY <1>1, <1>8 DEF IInv, RecorderInv, FileInv, Patched
    <2>2. Len(wav.data) \in Nat /\ ~(out.pos <= Len(wav.data)) /\ out.pos > 0
      BY <2>1 DEF IInv, Types
    <2>3. Write(Head(packet)) /\ l # "crashed"
      BY <1>3, <2>1
    <2> QED
      BY <2>1, <2>2, <2>3 DEF Write
  <1>9. FileInv'
    <2> SUFFICES ASSUME ~torn PROVE FileInv'
      BY <1>2 DEF FileInv
    <2> DEFINE d == wav.data
               h == Head(packet)
    <2>1. d \in Seq(Nat) /\ h \in Nat /\ out.state = "open" /\ ~wav.spoilt
      <3>1. packet \in Seq(Nat) /\ packet # <<>>
        BY <1>1
      <3> QED
        BY <3>1, <1>8 DEF IInv, Types, RecorderInv, FileInv, Patched
    <2>2. wav'.data = Append(d, h) /\ wav'.spoilt = wav.spoilt
          /\ out'.pos = out.pos + 1 /\ out'.state = out.state
      BY <1>8 DEF IInv, Types
    <2>3. Len(Append(d, h)) = Len(d) + 1
      BY <2>1
    <2>4. out'.state = "open" /\ out'.pos = Len(wav'.data) + 1 /\ ~wav'.spoilt
      BY <1>8, <2>1, <2>2, <2>3
    <2> QED
      BY <1>2, <1>4, <1>8, <2>4 DEF FileInv, Patched
  <1>10. DataInv'
    <2> SUFFICES ASSUME ~torn PROVE DataInv'
      BY <1>2 DEF DataInv
    <2> DEFINE d == wav.data
               h == Head(packet)
    <2>1. d \in Seq(Nat) /\ h = tapped - Len(packet) + 1 /\ h \in Nat
      BY <1>1 DEF IInv, Types
    <2>2. wav'.data = Append(d, h)
      BY <1>8 DEF IInv, Types
    <2>3. Consecutive(d) /\ (d # <<>> => d[1] + Len(d) = h)
      <3>1. Left = Len(packet)
        BY <1>1 DEF Left, Busy, MediaPc
      <3> QED
        BY <1>1, <1>8, <2>1, <3>1 DEF IInv, RecorderInv, DataInv
    <2>4. Consecutive(wav'.data) /\ wav'.data[1] + Len(wav'.data) = h + 1
      <3>1. Len(d) \in Nat /\ Len(Append(d, h)) = Len(d) + 1 /\ (d = <<>> => Len(d) = 0)
        BY <2>1
      <3>2. d # <<>> => h = d[1] + Len(d) /\ d[1] \in Nat
        BY <2>1, <2>3, <3>1, EmptySeq, ElementOfSeq
      <3>3. Consecutive(Append(d, h)) /\ Append(d, h)[1] = IF d = <<>> THEN h ELSE d[1]
        BY <2>1, <2>3, <3>2, ConsecutiveGrows
      <3>4. PICK new : new = Append(d, h)
        OBVIOUS
      <3>5. new[1] + Len(new) = h + 1
        <4>1. CASE d = <<>>
          BY <2>1, <3>1, <3>3, <3>4, <4>1
        <4>2. CASE d # <<>>
          BY <3>1, <3>2, <3>3, <3>4, <4>2
        <4> QED
          BY <4>1, <4>2
      <3> QED
        BY <2>2, <3>3, <3>4, <3>5
    <2>5. Left' = Len(packet) - 1
      <3>1. packet' = Tail(packet) /\ Len(Tail(packet)) = Len(packet) - 1 /\ Len(<<>>) = 0
        BY <1>1, <1>3, <1>8
      <3>2. Left' = IF l = "idle" THEN 0 ELSE Len(packet')
        BY <1>3, <1>4, <1>8 DEF Left, Busy, MediaPc
      <3>3. l = "idle" => Tail(packet) = <<>>
        BY <1>3, <1>8
      <3> QED
        BY <3>1, <3>2, <3>3
    <2> QED
      BY <1>1, <1>2, <2>1, <2>4, <2>5 DEF DataInv, Consecutive
  <1> QED
    BY <1>5, <1>6, <1>7, <1>9, <1>10 DEF IInv, RecorderInv

-----------------------------------------------------------------------------
(* Steps of pjsua's worker                                                   *)

\* What a step of the worker leaves as it is.
WorkerStep(from, to) ==
    /\ pc["worker"] = from /\ pc'["worker"] = to
    /\ pc' \in [Thread -> Pc]
    /\ pc'["media"] = pc["media"]
    /\ UNCHANGED <<packet, tapped, mixed>>
    /\ UdpInv' /\ PacketInv' /\ Left' = Left

LEMMA WorkerMoves ==
    ASSUME IInv, NEW from \in Pc, NEW to \in Pc, AtWorker(from, to)
    PROVE  WorkerStep(from, to)
  <1>1. pc["worker"] = from /\ UNCHANGED <<packet, tapped, mixed, udp>>
    BY DEF AtWorker, spectrum, udp
  <1>2. /\ pc' \in [Thread -> Pc] /\ pc'["worker"] = to
        /\ pc'["media"] = pc["media"] /\ pc'["window"] = pc["window"]
    BY GotoMoves DEF AtWorker, IInv, Thread
  <1>3. UdpInv'
    BY <1>1, <1>2, OthersKeepUdp DEF IInv
  <1>4. PacketInv' /\ Left' = Left
    BY <1>1, <1>2 DEF IInv, RecorderInv, PacketInv, Left, Busy
  <1> QED
    BY <1>1, <1>2, <1>3, <1>4 DEF WorkerStep

\* A step that neither writes a sample nor lets the media worker go on keeps
\* the samples in order.
LEMMA DataKeeps ==
    ASSUME IInv, wav'.data = wav.data, Left' = Left, UNCHANGED tapped,
           ~torn' => ~torn,
           ~torn' /\ pc'["worker"] = "idle" /\ m_isRunning' =>
               wav.data = <<>> \/ (pc["worker"] = "idle" /\ m_isRunning)
    PROVE  DataInv'
  BY DEF IInv, RecorderInv, DataInv, Consecutive

LEMMA StartKeeps ==
    ASSUME IInv, Start
    PROVE  IInv'
  <1> USE DEF IInv, RecorderInv, Pc, WorkerPc
  <1>1. CASE StartOpen
    <2>1. AtWorker("idle", "header")
      BY <1>1 DEF StartOpen
    <2>2. /\ out' = [state |-> "open", pos |-> 0]
          /\ wav' = [data |-> <<>>, total |-> 0, length |-> 0, told |-> 0, spoilt |-> FALSE]
          /\ torn' = (pc["media"] \in {"writing", "crashed"})
          /\ UNCHANGED m_isRunning
      BY <1>1 DEF StartOpen
    <2>3. WorkerStep("idle", "header")
      BY <2>1, WorkerMoves DEF WorkerStep
    <2>4. out' \in [state : {"none", "open", "closed"}, pos : Nat]
      BY <2>2
    <2>5. wav' \in [data : Seq(Nat), total : Nat, length : Nat, told : Nat, spoilt : BOOLEAN]
      BY <2>2
    <2>6. Types'
      BY <2>2, <2>3, <2>4, <2>5 DEF Types, WorkerStep
    <2>7. FileInv'
      BY <2>2, <2>3 DEF FileInv, Patched, WorkerStep
    <2>8. DataInv'
      BY <2>2, <2>3 DEF DataInv, Consecutive, WorkerStep
    <2> QED
      BY <2>3, <2>6, <2>7, <2>8 DEF WorkerStep
  <1>2. CASE StartHeader
    <2>1. AtWorker("header", "run")
      BY <1>2 DEF StartHeader
    <2>2. /\ UNCHANGED <<m_isRunning, torn>>
          /\ out' = [out EXCEPT !.pos = 1]
          /\ UNCHANGED wav
      BY <1>2 DEF StartHeader
    <2>3. WorkerStep("header", "run")
      BY <2>1, WorkerMoves DEF WorkerStep
    <2>4. /\ out'.state = out.state /\ out'.pos = 1
          /\ wav'.data = wav.data /\ wav'.total = wav.total /\ wav'.length = wav.length
          /\ wav'.told = wav.told /\ wav'.spoilt = wav.spoilt
      BY <2>2 DEF Types
    <2>5. Types'
      BY <2>2, <2>3 DEF Types, WorkerStep
    <2>6. FileInv'
      BY <2>2, <2>3, <2>4 DEF FileInv, Patched, WorkerStep
    <2>7. DataInv'
      BY <2>2, <2>3, <2>4, DataKeeps DEF FileInv, Patched, WorkerStep
    <2> QED
      BY <2>3, <2>5, <2>6, <2>7 DEF WorkerStep
  <1>3. CASE StartRun
    <2>1. AtWorker("run", "idle")
      BY <1>3 DEF StartRun
    <2>2. /\ m_isRunning' = TRUE /\ UNCHANGED torn
          /\ UNCHANGED out
          /\ UNCHANGED wav
      BY <1>3 DEF StartRun
    <2>3. WorkerStep("run", "idle")
      BY <2>1, WorkerMoves DEF WorkerStep
    <2>4. /\ out'.state = out.state /\ out'.pos = out.pos
          /\ wav'.data = wav.data /\ wav'.total = wav.total /\ wav'.length = wav.length
          /\ wav'.told = wav.told /\ wav'.spoilt = wav.spoilt
      BY <2>2 DEF Types
    <2>5. Types'
      BY <2>2, <2>3 DEF Types, WorkerStep
    <2>6. FileInv'
      BY <2>2, <2>3, <2>4 DEF FileInv, Patched, WorkerStep
    <2>7. DataInv'
      BY <2>2, <2>3, <2>4, DataKeeps DEF FileInv, Patched, WorkerStep
    <2> QED
      BY <2>3, <2>5, <2>6, <2>7 DEF WorkerStep
  <1> QED
    BY <1>1, <1>2, <1>3 DEF Start

LEMMA StopKeeps ==
    ASSUME IInv, Stop
    PROVE  IInv'
  <1> USE DEF IInv, RecorderInv, Pc, WorkerPc
  <1>1. CASE StopTell
    <2>1. AtWorker("idle", "seek")
      BY <1>1 DEF StopTell
    <2>2. /\ m_isRunning /\ UNCHANGED m_isRunning
          /\ torn' = (torn \/ pc["media"] = "writing")
          /\ UNCHANGED out
          /\ wav' = [wav EXCEPT !.told = Tell]
      BY <1>1 DEF StopTell
    <2>3. WorkerStep("idle", "seek")
      BY <2>1, WorkerMoves DEF WorkerStep
    <2>4. Tell \in Nat /\ (~torn => Tell = Len(wav.data))
      <3>1. out.pos \in Nat /\ Len(wav.data) \in Nat
        BY DEF Types
      <3>2. ~torn => out.pos = Len(wav.data) + 1
        BY <2>2, <2>3 DEF FileInv, Patched, WorkerStep
      <3> QED
        BY <3>1, <3>2 DEF Tell
    <2>5. /\ out'.state = out.state /\ out'.pos = out.pos
          /\ wav'.data = wav.data /\ wav'.total = wav.total /\ wav'.length = wav.length
          /\ wav'.told = Tell /\ wav'.spoilt = wav.spoilt
      BY <2>2 DEF Types
    <2>6. Types'
      BY <2>2, <2>3, <2>4 DEF Types, WorkerStep
    <2>7. FileInv'
      BY <2>2, <2>3, <2>4, <2>5 DEF FileInv, Patched, WorkerStep
    <2>8. DataInv'
      BY <2>2, <2>3, <2>4, <2>5, DataKeeps DEF FileInv, Patched, WorkerStep
    <2> QED
      BY <2>3, <2>6, <2>7, <2>8 DEF WorkerStep
  <1>2. CASE StopSeek
    <2>1. AtWorker("seek", "total")
      BY <1>2 DEF StopSeek
    <2>2. /\ UNCHANGED <<m_isRunning, torn>>
          /\ out' = [out EXCEPT !.pos = 0]
          /\ UNCHANGED wav
      BY <1>2 DEF StopSeek
    <2>3. WorkerStep("seek", "total")
      BY <2>1, WorkerMoves DEF WorkerStep
    <2>4. /\ out'.state = out.state /\ out'.pos = 0
          /\ wav'.data = wav.data /\ wav'.total = wav.total /\ wav'.length = wav.length
          /\ wav'.told = wav.told /\ wav'.spoilt = wav.spoilt
      BY <2>2 DEF Types
    <2>5. Types'
      BY <2>2, <2>3 DEF Types, WorkerStep
    <2>6. FileInv'
      BY <2>2, <2>3, <2>4 DEF FileInv, Patched, WorkerStep
    <2>7. DataInv'
      BY <2>2, <2>3, <2>4, DataKeeps DEF FileInv, Patched, WorkerStep
    <2> QED
      BY <2>3, <2>5, <2>6, <2>7 DEF WorkerStep
  <1>3. CASE StopTotal
    <2>1. AtWorker("total", "length")
      BY <1>3 DEF StopTotal
    <2>2. /\ UNCHANGED <<m_isRunning, torn>>
          /\ UNCHANGED out
          /\ wav' = [wav EXCEPT !.total = wav.told]
      BY <1>3 DEF StopTotal
    <2>3. WorkerStep("total", "length")
      BY <2>1, WorkerMoves DEF WorkerStep
    <2>4. /\ out'.state = out.state /\ out'.pos = out.pos
          /\ wav'.data = wav.data /\ wav'.total = wav.told /\ wav'.length = wav.length
          /\ wav'.told = wav.told /\ wav'.spoilt = wav.spoilt
      BY <2>2 DEF Types
    <2>5. Types'
      BY <2>2, <2>3 DEF Types, WorkerStep
    <2>6. FileInv'
      BY <2>2, <2>3, <2>4 DEF FileInv, Patched, WorkerStep
    <2>7. DataInv'
      BY <2>2, <2>3, <2>4, DataKeeps DEF FileInv, Patched, WorkerStep
    <2> QED
      BY <2>3, <2>5, <2>6, <2>7 DEF WorkerStep
  <1>4. CASE StopLength
    <2>1. AtWorker("length", "close")
      BY <1>4 DEF StopLength
    <2>2. /\ UNCHANGED <<m_isRunning, torn>>
          /\ out' = [out EXCEPT !.pos = 1]
          /\ wav' = [wav EXCEPT !.length = wav.told]
      BY <1>4 DEF StopLength
    <2>3. WorkerStep("length", "close")
      BY <2>1, WorkerMoves DEF WorkerStep
    <2>4. /\ out'.state = out.state /\ out'.pos = 1
          /\ wav'.data = wav.data /\ wav'.total = wav.total /\ wav'.length = wav.told
          /\ wav'.told = wav.told /\ wav'.spoilt = wav.spoilt
      BY <2>2 DEF Types
    <2>5. Types'
      BY <2>2, <2>3 DEF Types, WorkerStep
    <2>6. FileInv'
      BY <2>2, <2>3, <2>4 DEF FileInv, Patched, WorkerStep
    <2>7. DataInv'
      BY <2>2, <2>3, <2>4, DataKeeps DEF FileInv, Patched, WorkerStep
    <2> QED
      BY <2>3, <2>5, <2>6, <2>7 DEF WorkerStep
  <1>5. CASE StopClose
    <2>1. AtWorker("close", "end")
      BY <1>5 DEF StopClose
    <2>2. /\ UNCHANGED <<m_isRunning, torn>>
          /\ out' = [out EXCEPT !.state = "closed"]
          /\ UNCHANGED wav
      BY <1>5 DEF StopClose
    <2>3. WorkerStep("close", "end")
      BY <2>1, WorkerMoves DEF WorkerStep
    <2>4. /\ out'.state = "closed" /\ out'.pos = out.pos
          /\ wav'.data = wav.data /\ wav'.total = wav.total /\ wav'.length = wav.length
          /\ wav'.told = wav.told /\ wav'.spoilt = wav.spoilt
      BY <2>2 DEF Types
    <2>5. Types'
      BY <2>2, <2>3 DEF Types, WorkerStep
    <2>6. FileInv'
      BY <2>2, <2>3, <2>4 DEF FileInv, Patched, WorkerStep
    <2>7. DataInv'
      BY <2>2, <2>3, <2>4, DataKeeps DEF FileInv, Patched, WorkerStep
    <2> QED
      BY <2>3, <2>5, <2>6, <2>7 DEF WorkerStep
  <1>6. CASE StopEnd
    <2>1. AtWorker("end", "idle")
      BY <1>6 DEF StopEnd
    <2>2. /\ m_isRunning' = FALSE /\ UNCHANGED torn
          /\ UNCHANGED out
          /\ UNCHANGED wav
      BY <1>6 DEF StopEnd
    <2>3. WorkerStep("end", "idle")
      BY <2>1, WorkerMoves DEF WorkerStep
    <2>4. /\ out'.state = out.state /\ out'.pos = out.pos
          /\ wav'.data = wav.data /\ wav'.total = wav.total /\ wav'.length = wav.length
          /\ wav'.told = wav.told /\ wav'.spoilt = wav.spoilt
      BY <2>2 DEF Types
    <2>5. Types'
      BY <2>2, <2>3 DEF Types, WorkerStep
    <2>6. FileInv'
      BY <2>2, <2>3, <2>4 DEF FileInv, Patched, WorkerStep
    <2>7. DataInv'
      BY <2>2, <2>3, <2>4, DataKeeps DEF FileInv, Patched, WorkerStep
    <2> QED
      BY <2>3, <2>5, <2>6, <2>7 DEF WorkerStep
  <1> QED
    BY <1>1, <1>2, <1>3, <1>4, <1>5, <1>6 DEF Stop

-----------------------------------------------------------------------------
LEMMA NextKeeps == IInv /\ [Next]_vars => IInv'
  <1> SUFFICES ASSUME IInv, [Next]_vars PROVE IInv'
    OBVIOUS
  <1>1. CASE Switch
    BY <1>1, SwitchKeeps
  <1>2. CASE UdpWrite
    BY <1>2, UdpType, UdpKeepsUdp, UdpKeepsRecorder DEF IInv
  <1>3. CASE Media
    BY <1>3, TapKeeps, RecordKeeps, WriteSampleKeeps DEF Media
  <1>4. CASE Start
    BY <1>4, StartKeeps
  <1>5. CASE Stop
    BY <1>5, StopKeeps
  <1>6. CASE UNCHANGED vars
    <2> USE <1>6 DEF vars, udp, recorder, spectrum, IInv, RecorderInv
    <2>1. Types'
      BY DEF Types
    <2>2. UdpInv'
      BY DEF UdpInv, Sending, Alone, Argument, DatagramIsWhole
    <2>3. FileInv'
      BY DEF FileInv, Patched
    <2>4. PacketInv' /\ DataInv'
      BY DEF PacketInv, DataInv, Busy, Left, Consecutive
    <2> QED
      BY <2>1, <2>2, <2>3, <2>4
  <1> QED
    BY <1>1, <1>2, <1>3, <1>4, <1>5, <1>6 DEF Next

LEMMA Inductive == Spec => []IInv
  BY InitIInv, NextKeeps, PTL DEF Spec

\* Threads, packet and recorder keep their types.
THEOREM TypeCorrect == Spec => []Types
  <1>1. IInv => Types
    BY DEF IInv
  <1> QED
    BY Inductive, <1>1, PTL

\* A datagram is all of what its sender asked for unless both threads were
\* inside UDPCommunicator::write, for every text and packet.
THEOREM DatagramSafe == Spec => []DatagramIsWhole
  <1>1. IInv => DatagramIsWhole
    BY DEF IInv, UdpInv
  <1> QED
    BY <1>1, Inductive, PTL

\* The header that WavWriter::stop patches tells the size of the data unless
\* start() or stop() ran into a packet, for any number of recordings.
THEOREM HeaderSafe == Spec => []HeaderTellsData
  <1>1. IInv => HeaderTellsData
    BY DEF IInv, RecorderInv, FileInv, Patched, HeaderTellsData
  <1> QED
    BY <1>1, Inductive, PTL

\* In that case the recording has every sample since its first one, and no
\* sample goes to a FILE that is closed.
THEOREM RecordingSafe == Spec => []RecordingIsGapless
  <1>1. IInv => RecordingIsGapless
    BY DEF IInv, RecorderInv, FileInv, DataInv, RecordingIsGapless
  <1> QED
    BY <1>1, Inductive, PTL

\* For any size of spectrum and packets, each spectrum is of consecutive
\* samples and the loop over a packet loses exactly the sample that finds the
\* buffer full.
THEOREM SpectrumSafe == Spec => []SpectrumLosesOne
  <1>1. Init => SpectrumInv
    BY DEF Init, SpectrumInv, Filled, Consecutive
  <1>2. SpectrumInv => SpectrumLosesOne
    BY DEF SpectrumInv, Filled, SpectrumLosesOne
  <1> QED
    BY <1>1, <1>2, SpectrumStep, PTL DEF Spec
=============================================================================
