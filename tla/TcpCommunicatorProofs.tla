------------------------ MODULE TcpCommunicatorProofs ------------------------
(***************************************************************************)
(* For any number of lines either way: one async_write at a time, what is  *)
(* printed is in order, and the outbox implements the lossy FIFO.          *)
(***************************************************************************)
EXTENDS TcpCommunicator, SequenceTheorems, TLAPS

\* A line whose read is complete, and that write() has not blanked, is newer
\* than all that was printed.
ReadInv ==
    reading = "complete" /\ m_readBuffer # 0 =>
        m_readBuffer <= received /\ \A i \in DOMAIN shown : shown[i] < m_readBuffer

IInv == TypeOK /\ OneWriteAtATime /\ ReadInv /\ ShownInOrder

-----------------------------------------------------------------------------
(* Sequences *)

LEMMA Appended ==
    ASSUME NEW S, NEW s \in Seq(S), NEW e \in S
    PROVE  /\ Append(s, e) \in Seq(S)
           /\ Len(Append(s, e)) = Len(s) + 1
           /\ DOMAIN Append(s, e) = 1 .. Len(s) + 1
           /\ \A i \in 1 .. Len(s) : Append(s, e)[i] = s[i]
           /\ Append(s, e)[Len(s) + 1] = e
  BY AppendProperties, LenProperties

LEMMA Behead ==
    ASSUME NEW S, NEW s \in Seq(S), s # <<>>
    PROVE  /\ Len(s) \in Nat \ {0} /\ DOMAIN s = 1 .. Len(s)
           /\ s[1] \in S /\ Head(s) = s[1]
           /\ Tail(s) \in Seq(S)
           /\ Len(Tail(s)) = Len(s) - 1
           /\ DOMAIN Tail(s) = 1 .. Len(s) - 1
           /\ \A i \in 1 .. Len(s) - 1 : Tail(s)[i] = s[i + 1]
  BY EmptySeq, LenProperties, HeadTailProperties

LEMMA EmptyDomain ==
    ASSUME NEW S, NEW s \in Seq(S)
    PROVE  /\ Len(s) \in Nat /\ DOMAIN s = 1 .. Len(s)
           /\ \A i \in DOMAIN s : s[i] \in S
           /\ s = <<>> <=> Len(s) = 0
  BY EmptySeq, LenProperties

\* The only write that is outstanding, once it is complete.
LEMMA RemoveOnly ==
    ASSUME NEW S, NEW s \in Seq(S), Len(s) <= 1, NEW i \in DOMAIN s
    PROVE  i = 1 /\ RemoveAt(s, i) = <<>>
  <1>1. Len(s) = 1 /\ i = 1
    <2>1. Len(s) \in Nat /\ DOMAIN s = 1 .. Len(s)
      BY EmptyDomain
    <2> QED
      BY <2>1
  <1>2. SubSeq(s, 1, 0) = <<>> /\ SubSeq(s, 2, 1) = <<>>
    BY SubSeqEmpty
  <1>3. <<>> \o <<>> = <<>>
    BY ConcatEmptySeq, EmptySeq
  <1> QED
    BY <1>1, <1>2, <1>3 DEF RemoveAt

\* A handler of the strand is either of the two kinds.
LEMMA Kinds ==
    ASSUME NEW h \in Handler
    PROVE  /\ h.op = "writeImpl" => h.line \in Line
           /\ h.op = "handleWrite" => h.ok \in BOOLEAN
           /\ h.op \in {"writeImpl", "handleWrite"}
  BY DEF Handler

-----------------------------------------------------------------------------
(* Types *)

LEMMA TypesInit == Init => TypeOK
  <1>1. \A S : <<>> \in Seq(S)
    BY EmptySeq
  <1>2. 0 \in 0 .. MaxSend /\ 0 \in 0 .. MaxRecv
    BY BoundAssumption
  <1> SUFFICES ASSUME Init PROVE TypeOK
    OBVIOUS
  <1>3. /\ _outbox \in Seq(Line) /\ strand \in Seq(Handler) /\ writing \in Seq(Line)
        /\ wire \in Seq(Line) /\ shown \in Seq(1 .. MaxRecv)
    BY <1>1 DEF Init
  <1> QED
    BY <1>2, <1>3 DEF Init, TypeOK

\* Posting to the strand, and the strand as write() returns.
LEMMA WritePosts ==
    ASSUME TypeOK, Write
    PROVE  /\ strand' = Append(strand, [op |-> "writeImpl", line |-> sends + 1])
           /\ strand' \in Seq(Handler)
           /\ DOMAIN strand' = 1 .. Len(strand) + 1
           /\ \A i \in DOMAIN strand : strand'[i] = strand[i]
           /\ strand'[Len(strand) + 1].op = "writeImpl"
           /\ sends' \in 0 .. MaxSend
  <1> DEFINE h == [op |-> "writeImpl", line |-> sends + 1]
  <1>1. sends + 1 \in Line /\ sends' \in 0 .. MaxSend
    BY BoundAssumption DEF TypeOK, Write, Line
  <1>2. strand' = Append(strand, h) /\ h \in Handler /\ h.op = "writeImpl"
    BY <1>1 DEF Write, Handler
  <1>3. strand \in Seq(Handler) /\ DOMAIN strand = 1 .. Len(strand)
    BY EmptyDomain DEF TypeOK
  <1> HIDE DEF h
  <1>4. /\ Append(strand, h) \in Seq(Handler)
        /\ DOMAIN Append(strand, h) = 1 .. Len(strand) + 1
        /\ \A i \in 1 .. Len(strand) : Append(strand, h)[i] = strand[i]
        /\ Append(strand, h)[Len(strand) + 1] = h
    BY <1>2, <1>3, Appended
  <1> QED
    BY <1>1, <1>2, <1>3, <1>4 DEF h

LEMMA CompletePosts ==
    ASSUME TypeOK, NEW i \in DOMAIN writing, NEW ok \in BOOLEAN, Complete(i, ok)
    PROVE  /\ strand' = Append(strand, [op |-> "handleWrite", ok |-> ok])
           /\ strand' \in Seq(Handler)
           /\ DOMAIN strand' = 1 .. Len(strand) + 1
           /\ \A j \in DOMAIN strand : strand'[j] = strand[j]
           /\ strand'[Len(strand) + 1].op = "handleWrite"
  <1> DEFINE h == [op |-> "handleWrite", ok |-> ok]
  <1>1. strand' = Append(strand, h) /\ h \in Handler /\ h.op = "handleWrite"
    BY DEF Complete, Handler
  <1>2. strand \in Seq(Handler) /\ DOMAIN strand = 1 .. Len(strand)
    BY EmptyDomain DEF TypeOK
  <1> HIDE DEF h
  <1>3. /\ Append(strand, h) \in Seq(Handler)
        /\ DOMAIN Append(strand, h) = 1 .. Len(strand) + 1
        /\ \A j \in 1 .. Len(strand) : Append(strand, h)[j] = strand[j]
        /\ Append(strand, h)[Len(strand) + 1] = h
    BY <1>1, <1>2, Appended
  <1> QED
    BY <1>1, <1>2, <1>3 DEF h

LEMMA OpsKept ==
    ASSUME TypeOK, WriteReturns
    PROVE  /\ strand' \in Seq(Handler)
           /\ DOMAIN strand' = DOMAIN strand
           /\ \A i \in DOMAIN strand : strand'[i].op = strand[i].op
  <1>1. CASE UNCHANGED strand
    BY <1>1 DEF TypeOK
  <1>2. CASE strand' = [i \in DOMAIN strand |-> Pointee(strand[i])]
    <2>1. \A h \in Handler : Pointee(h) \in Handler /\ Pointee(h).op = h.op
      <3>1. Garbage \in Line
        BY BoundAssumption DEF Garbage, Line
      <3> QED
        BY <3>1 DEF Pointee, Handler
    <2>2. Len(strand) \in Nat /\ DOMAIN strand = 1 .. Len(strand)
          /\ \A i \in DOMAIN strand : strand[i] \in Handler
      BY EmptyDomain DEF TypeOK
    <2>3. strand' \in [1 .. Len(strand) -> Handler]
      BY <1>2, <2>1, <2>2
    <2>4. strand' \in Seq(Handler)
      BY <2>2, <2>3, SeqDef
    <2> QED
      BY <1>2, <2>1, <2>2, <2>4
  <1> QED
    BY <1>1, <1>2 DEF WriteReturns

\* The line a handler of the strand brings, and the line in front.
LEMMA HeadOfStrand ==
    ASSUME TypeOK, strand # <<>>
    PROVE  /\ Head(strand) = strand[1] /\ strand[1] \in Handler
           /\ Tail(strand) \in Seq(Handler)
           /\ DOMAIN strand = 1 .. Len(strand) /\ Len(strand) \in Nat \ {0}
           /\ DOMAIN Tail(strand) = 1 .. Len(strand) - 1
           /\ \A i \in 1 .. Len(strand) - 1 : Tail(strand)[i] = strand[i + 1]
  BY Behead DEF TypeOK

\* Queue and NextLine keep the outbox and the writes sequences of lines.
LEMMA Queued ==
    ASSUME TypeOK, NEW l \in Line, Queue(l)
    PROVE  /\ _outbox' = Append(_outbox, l) /\ _outbox' \in Seq(Line)
           /\ Len(_outbox') = Len(_outbox) + 1
           /\ \A i \in 1 .. Len(_outbox) : _outbox'[i] = _outbox[i]
           /\ _outbox'[1] \in Line
           /\ IF _outbox = <<>> THEN writing' = Append(writing, _outbox'[1])
                                ELSE writing' = writing
  <1>1. /\ _outbox' = Append(_outbox, l) /\ _outbox' \in Seq(Line)
        /\ Len(_outbox') = Len(_outbox) + 1
        /\ \A i \in 1 .. Len(_outbox) : _outbox'[i] = _outbox[i]
    BY Appended DEF Queue, TypeOK
  <1>2. Len(_outbox) \in Nat /\ (_outbox = <<>> <=> Len(_outbox) = 0)
    BY EmptyDomain DEF TypeOK
  <1>3. _outbox'[1] \in Line
    BY <1>1, <1>2, ElementOfSeq
  <1>4. Len(_outbox') > 1 <=> _outbox # <<>>
    BY <1>1, <1>2
  <1> QED
    BY <1>1, <1>3, <1>4 DEF Queue, StartWrite

LEMMA Advanced ==
    ASSUME TypeOK, NEW ok \in BOOLEAN, NextLine(ok), _outbox # <<>>
    PROVE  /\ _outbox' = Tail(_outbox) /\ _outbox' \in Seq(Line)
           /\ IF ok /\ _outbox' # <<>> THEN writing' = Append(writing, _outbox'[1])
                                       ELSE writing' = writing
           /\ _outbox' # <<>> => _outbox'[1] \in Line
  <1>1. _outbox' = Tail(_outbox) /\ _outbox' \in Seq(Line)
    BY Behead DEF NextLine, TypeOK
  <1>2. _outbox' # <<>> => _outbox'[1] \in Line
    BY <1>1, Behead
  <1> QED
    BY <1>1, <1>2 DEF NextLine, StartWrite

-----------------------------------------------------------------------------
(* One write at a time *)

LEMMA StepTypes ==
    ASSUME TypeOK, OneWriteAtATime, [Next]_vars
    PROVE  TypeOK'
  <1> USE BoundAssumption DEF TypeOK, send, recv
  <1>1. CASE Accept
    BY <1>1 DEF Accept
  <1>2. CASE HandleRead
    <2>1. shown' \in Seq(1 .. MaxRecv)
      <3>1. m_readBuffer # 0 => m_readBuffer \in 1 .. MaxRecv
        OBVIOUS
      <3> QED
        BY <1>2, <3>1, Appended DEF HandleRead, Printed
    <2>2. /\ m_readBuffer' = 0 /\ reading' = "started"
          /\ UNCHANGED <<socket, send, received, sends, inWrite, running>>
      BY <1>2 DEF HandleRead, ReadAgain
    <2> QED
      BY <2>1, <2>2
  <1>3. CASE ReadFails
    BY <1>3 DEF ReadFails
  <1>4. CASE WriteImpl
    <2>1. Head(strand).line \in Line /\ strand' \in Seq(Handler)
      BY <1>4, HeadOfStrand, Kinds DEF WriteImpl
    <2>2. _outbox' \in Seq(Line) /\ writing' \in Seq(Line)
      <3>1. Queue(Head(strand).line)
        BY <1>4 DEF WriteImpl
      <3>2. /\ _outbox' \in Seq(Line) /\ _outbox'[1] \in Line
            /\ writing' = writing \/ writing' = Append(writing, _outbox'[1])
        BY <2>1, <3>1, Queued
      <3>3. \A e \in Line : Append(writing, e) \in Seq(Line)
        BY Appended
      <3> QED
        BY <3>2, <3>3
    <2>3. UNCHANGED <<socket, wire, recv, sends, inWrite, running>>
      BY <1>4 DEF WriteImpl
    <2> QED
      BY <2>1, <2>2, <2>3
  <1>5. CASE HandleWrite
    <2>1. Head(strand).ok \in BOOLEAN /\ strand' \in Seq(Handler) /\ _outbox # <<>>
      BY <1>5, HeadOfStrand, Kinds DEF HandleWrite, OneWriteAtATime
    <2>2. _outbox' \in Seq(Line) /\ writing' \in Seq(Line)
      <3>1. NextLine(Head(strand).ok)
        BY <1>5 DEF HandleWrite
      <3>2. /\ _outbox' \in Seq(Line)
            /\ writing' = writing
               \/ (_outbox'[1] \in Line /\ writing' = Append(writing, _outbox'[1]))
        BY <2>1, <3>1, Advanced
      <3>3. \A e \in Line : Append(writing, e) \in Seq(Line)
        BY Appended
      <3> QED
        BY <3>2, <3>3
    <2>3. UNCHANGED <<socket, wire, recv, sends, inWrite, running>>
      BY <1>5 DEF HandleWrite
    <2> QED
      BY <2>1, <2>2, <2>3
  <1>6. ASSUME NEW i \in DOMAIN writing, NEW ok \in BOOLEAN, Complete(i, ok)
        PROVE  TypeOK'
    <2>1. strand' \in Seq(Handler)
      BY <1>6, CompletePosts
    <2>2. writing' = <<>> /\ writing[i] \in Line
      BY <1>6, RemoveOnly, EmptyDomain DEF Complete, OneWriteAtATime
    <2>3. wire' \in Seq(Line)
      BY <1>6, <2>2, Appended DEF Complete
    <2>4. writing' \in Seq(Line)
      BY <2>2, EmptySeq
    <2>5. UNCHANGED <<socket, _outbox, recv, sends, inWrite, running>>
      BY <1>6 DEF Complete
    <2> QED
      BY <2>1, <2>3, <2>4, <2>5
  <1>7. CASE PeerLeaves
    BY <1>7 DEF PeerLeaves
  <1>8. CASE Receive
    BY <1>8 DEF Receive
  <1>9. CASE Write
    <2>1. strand' \in Seq(Handler) /\ sends' \in 0 .. MaxSend
      BY <1>9, WritePosts
    <2>2. /\ m_readBuffer' = 0 /\ inWrite' = TRUE
          /\ UNCHANGED <<socket, _outbox, writing, wire, reading, received, shown, running>>
      BY <1>9 DEF Write
    <2> QED
      BY <2>1, <2>2
  <1>10. CASE WriteReturns
    BY <1>10, OpsKept DEF WriteReturns
  <1>11. CASE Uinit
    BY <1>11 DEF Uinit
  <1>12. CASE UNCHANGED vars
    BY <1>12 DEF vars
  <1> QED
    BY <1>1, <1>2, <1>3, <1>4, <1>5, <1>6, <1>7, <1>8, <1>9, <1>10, <1>11, <1>12
    DEF Next, Io

\* What a step of the strand does to the handlers that are due.
LEMMA DueAfterTail ==
    ASSUME TypeOK, strand # <<>>, strand' = Tail(strand),
           \A i, j \in DOMAIN strand :
               strand[i].op = "handleWrite" /\ strand[j].op = "handleWrite" => i = j
    PROVE  /\ strand[1].op = "handleWrite" => ~Due'
           /\ strand[1].op # "handleWrite" => (Due' <=> Due)
           /\ \A i, j \in DOMAIN strand' :
                  strand'[i].op = "handleWrite" /\ strand'[j].op = "handleWrite" => i = j
  <1>1. /\ DOMAIN strand = 1 .. Len(strand) /\ Len(strand) \in Nat \ {0}
        /\ DOMAIN strand' = 1 .. Len(strand) - 1
        /\ \A i \in 1 .. Len(strand) - 1 : strand'[i] = strand[i + 1]
    BY HeadOfStrand
  <1>2. \A i \in DOMAIN strand' : i + 1 \in DOMAIN strand /\ strand'[i] = strand[i + 1]
    BY <1>1
  <1>3. \A i \in DOMAIN strand : i # 1 => i - 1 \in DOMAIN strand' /\ strand'[i - 1] = strand[i]
    <2> TAKE i \in DOMAIN strand
    <2> HAVE i # 1
    <2>1. i - 1 \in 1 .. Len(strand) - 1 /\ (i - 1) + 1 = i
      BY <1>1
    <2> QED
      BY <1>1, <2>1
  <1>4. strand[1].op = "handleWrite" => ~Due'
    <2> SUFFICES ASSUME strand[1].op = "handleWrite",
                        NEW i \in DOMAIN strand', strand'[i].op = "handleWrite"
                 PROVE  FALSE
      BY DEF Due
    <2>1. i + 1 = 1
      BY <1>1, <1>2
    <2> QED
      BY <1>1, <2>1
  <1>5. strand[1].op # "handleWrite" => (Due' <=> Due)
    <2>1. Due' => Due
      BY <1>2 DEF Due
    <2>2. strand[1].op # "handleWrite" /\ Due => Due'
      BY <1>3 DEF Due
    <2> QED
      BY <2>1, <2>2
  <1>6. ASSUME NEW i \in DOMAIN strand', NEW j \in DOMAIN strand',
               strand'[i].op = "handleWrite", strand'[j].op = "handleWrite"
        PROVE  i = j
    <2>1. i + 1 = j + 1
      BY <1>2, <1>6
    <2> QED
      BY <1>1, <2>1
  <1> QED
    BY <1>4, <1>5, <1>6

\* OneWriteAtATime, without its set.
OneWrite ==
    /\ Len(writing) <= 1
    /\ writing # <<>> => _outbox # <<>> /\ writing[1] = _outbox[1] /\ ~Due
    /\ \A i, j \in DOMAIN strand :
          strand[i].op = "handleWrite" /\ strand[j].op = "handleWrite" => i = j
    /\ Due => _outbox # <<>>

LEMMA OneWriteIs == OneWriteAtATime <=> OneWrite
  BY DEF OneWriteAtATime, OneWrite, Due

\* A write that is started where none was is the only one.
LEMMA WriteStarts ==
    ASSUME NEW S, NEW s \in Seq(S), s = <<>>, NEW e \in S
    PROVE  /\ Len(Append(s, e)) = 1 /\ Append(s, e)[1] = e
           /\ Append(s, e) \in Seq(S)
  <1>1. Len(s) = 0
    BY EmptySeq
  <1> QED
    BY <1>1, Appended

LEMMA StepOneWrite ==
    ASSUME TypeOK, OneWriteAtATime, [Next]_vars
    PROVE  OneWriteAtATime'
  <1> SUFFICES OneWrite'
    BY OneWriteIs, PTL
  <1>0. OneWrite
    BY OneWriteIs
  <1>1. CASE WriteImpl
    <2>1. /\ strand # <<>> /\ strand' = Tail(strand) /\ strand[1].op = "writeImpl"
          /\ strand[1].line \in Line /\ Queue(strand[1].line)
      BY <1>1, HeadOfStrand, Kinds DEF WriteImpl
    <2>2. /\ Due' <=> Due
          /\ \A i, j \in DOMAIN strand' :
                strand'[i].op = "handleWrite" /\ strand'[j].op = "handleWrite" => i = j
      BY <1>0, <2>1, DueAfterTail DEF OneWrite
    <2>3. /\ _outbox' # <<>> /\ _outbox'[1] \in Line
          /\ _outbox # <<>> => _outbox'[1] = _outbox[1] /\ writing' = writing
          /\ _outbox = <<>> => writing' = Append(writing, _outbox'[1])
      <3>1. /\ _outbox' \in Seq(Line) /\ Len(_outbox') = Len(_outbox) + 1
            /\ \A i \in 1 .. Len(_outbox) : _outbox'[i] = _outbox[i]
            /\ _outbox'[1] \in Line
            /\ _outbox # <<>> => writing' = writing
            /\ _outbox = <<>> => writing' = Append(writing, _outbox'[1])
        BY <2>1, Queued
      <3>2. Len(_outbox) \in Nat /\ (_outbox = <<>> <=> Len(_outbox) = 0)
        BY EmptyDomain DEF TypeOK
      <3>3. _outbox' # <<>>
        BY <3>1, <3>2, EmptyDomain
      <3> QED
        BY <3>1, <3>2, <3>3
    <2>4. _outbox = <<>> => Len(writing') = 1 /\ writing'[1] = _outbox'[1]
      <3>1. _outbox = <<>> => writing = <<>>
        BY <1>0 DEF OneWrite
      <3> QED
        BY <2>3, <3>1, WriteStarts DEF TypeOK
    <2> QED
      BY <1>0, <2>2, <2>3, <2>4 DEF OneWrite
  <1>2. CASE HandleWrite
    <2>1. /\ strand # <<>> /\ strand' = Tail(strand) /\ strand[1].op = "handleWrite"
          /\ strand[1].ok \in BOOLEAN /\ NextLine(strand[1].ok)
          /\ 1 \in DOMAIN strand
      BY <1>2, HeadOfStrand, Kinds DEF HandleWrite
    <2>2. Due /\ _outbox # <<>> /\ writing = <<>>
      BY <1>0, <2>1 DEF OneWrite, Due
    <2>3. /\ ~Due'
          /\ \A i, j \in DOMAIN strand' :
                strand'[i].op = "handleWrite" /\ strand'[j].op = "handleWrite" => i = j
      BY <1>0, <2>1, DueAfterTail DEF OneWrite
    <2>4. \/ writing' = writing
          \/ _outbox' # <<>> /\ _outbox'[1] \in Line /\ writing' = Append(writing, _outbox'[1])
      BY <2>1, <2>2, Advanced
    <2>5. CASE writing' = writing
      BY <1>0, <2>2, <2>3, <2>5 DEF OneWrite
    <2>6. CASE writing' # writing
      <3>1. Len(writing') = 1 /\ writing'[1] = _outbox'[1]
        BY <2>2, <2>4, <2>6, WriteStarts DEF TypeOK
      <3> QED
        BY <2>3, <2>4, <2>6, <3>1 DEF OneWrite
    <2> QED
      BY <2>5, <2>6
  <1>3. ASSUME NEW i \in DOMAIN writing, NEW ok \in BOOLEAN, Complete(i, ok)
        PROVE  OneWrite'
    <2>1. writing' = <<>> /\ _outbox' = _outbox
      BY <1>0, <1>3, RemoveOnly DEF Complete, OneWrite, TypeOK
    <2>2. _outbox # <<>> /\ ~Due
      BY <1>0, <1>3, EmptyDomain DEF OneWrite, TypeOK
    <2>3. /\ DOMAIN strand' = 1 .. Len(strand) + 1 /\ DOMAIN strand = 1 .. Len(strand)
          /\ Len(strand) \in Nat
          /\ \A j \in DOMAIN strand : strand'[j] = strand[j]
      BY <1>3, CompletePosts, EmptyDomain DEF TypeOK
    <2>4. \A j \in DOMAIN strand' : strand'[j].op = "handleWrite" => j = Len(strand) + 1
      BY <2>2, <2>3 DEF Due
    <2>5. Len(<<>>) = 0
      OBVIOUS
    <2> QED
      BY <2>1, <2>2, <2>4, <2>5 DEF OneWrite
  <1>4. CASE Write
    <2>1. /\ DOMAIN strand' = 1 .. Len(strand) + 1 /\ DOMAIN strand = 1 .. Len(strand)
          /\ Len(strand) \in Nat
          /\ \A j \in DOMAIN strand : strand'[j] = strand[j]
          /\ strand'[Len(strand) + 1].op # "handleWrite"
      BY <1>4, WritePosts, EmptyDomain DEF TypeOK
    <2>2. \A j \in DOMAIN strand' : strand'[j].op = "handleWrite" => j \in DOMAIN strand
      BY <2>1
    <2>3. Due' <=> Due
      BY <2>1, <2>2 DEF Due
    <2>4. UNCHANGED <<_outbox, writing>>
      BY <1>4 DEF Write
    <2> QED
      BY <1>0, <2>1, <2>2, <2>3, <2>4 DEF OneWrite
  <1>5. CASE WriteReturns
    <2>1. DOMAIN strand' = DOMAIN strand /\ \A i \in DOMAIN strand : strand'[i].op = strand[i].op
      BY <1>5, OpsKept
    <2>2. Due' <=> Due
      BY <2>1 DEF Due
    <2>3. UNCHANGED <<_outbox, writing>>
      BY <1>5 DEF WriteReturns
    <2> QED
      BY <1>0, <2>1, <2>2, <2>3 DEF OneWrite
  <1>6. CASE UNCHANGED send
    BY <1>0, <1>6 DEF OneWrite, Due, send
  <1>7. Accept \/ HandleRead \/ ReadFails \/ PeerLeaves \/ Receive \/ Uinit \/ UNCHANGED vars
          => UNCHANGED send
    BY DEF Accept, HandleRead, ReadFails, PeerLeaves, Receive, Uinit, vars, send
  <1> QED
    BY <1>1, <1>2, <1>3, <1>4, <1>5, <1>6, <1>7 DEF Next, Io

-----------------------------------------------------------------------------
(* Printing *)

Increasing == \A i, j \in DOMAIN shown : i < j => shown[i] < shown[j]
Received == \A i \in DOMAIN shown : shown[i] <= received

LEMMA StepRead ==
    ASSUME TypeOK, ReadInv, ShownInOrder, [Next]_vars
    PROVE  ReadInv' /\ ShownInOrder'
  <1>1. /\ Increasing /\ Received /\ received \in Nat /\ m_readBuffer \in Nat
        /\ \A i \in DOMAIN shown : shown[i] \in Nat
    BY EmptyDomain, BoundAssumption DEF TypeOK, ShownInOrder, Increasing, Received
  <1>2. CASE HandleRead
    <2>1. reading' = "started" /\ received' = received
      BY <1>2 DEF HandleRead, ReadAgain
    <2>2. CASE m_readBuffer = 0
      BY <1>1, <1>2, <2>1, <2>2
      DEF HandleRead, Printed, ReadInv, ShownInOrder, Increasing, Received
    <2>3. CASE m_readBuffer # 0
      <3>1. m_readBuffer \in 1 .. MaxRecv /\ shown' = Append(shown, m_readBuffer)
        BY <1>2, <2>3 DEF HandleRead, Printed, TypeOK
      <3>2. /\ DOMAIN shown' = 1 .. Len(shown) + 1 /\ DOMAIN shown = 1 .. Len(shown)
            /\ Len(shown) \in Nat
            /\ \A i \in 1 .. Len(shown) : shown'[i] = shown[i]
            /\ shown'[Len(shown) + 1] = m_readBuffer
        BY <3>1, Appended, EmptyDomain DEF TypeOK
      <3>3. m_readBuffer <= received /\ \A i \in DOMAIN shown : shown[i] < m_readBuffer
        BY <1>2, <2>3 DEF HandleRead, ReadInv
      <3>4. \A i \in DOMAIN shown' : shown'[i] <= received'
        BY <1>1, <2>1, <3>2, <3>3 DEF Received
      <3>5. \A i, j \in DOMAIN shown' : i < j => shown'[i] < shown'[j]
        BY <1>1, <3>2, <3>3 DEF Increasing
      <3> QED
        BY <2>1, <3>4, <3>5 DEF ReadInv, ShownInOrder
    <2> QED
      BY <2>2, <2>3
  <1>3. CASE Receive
    BY <1>1, <1>3 DEF Receive, ReadInv, ShownInOrder, Increasing, Received
  <1>4. CASE Accept
    BY <1>1, <1>4 DEF Accept, ReadInv, ShownInOrder, Increasing, Received
  <1>5. CASE ReadFails
    BY <1>1, <1>5 DEF ReadFails, ReadInv, ShownInOrder, Increasing, Received
  <1>6. CASE Write
    BY <1>1, <1>6 DEF Write, ReadInv, ShownInOrder, Increasing, Received
  <1>7. CASE UNCHANGED recv
    BY <1>7 DEF recv, ReadInv, ShownInOrder
  <1>8. ASSUME NEW i \in DOMAIN writing, NEW ok \in BOOLEAN, Complete(i, ok)
        PROVE  UNCHANGED recv
    BY <1>8 DEF Complete
  <1>9. PeerLeaves \/ WriteReturns \/ Uinit \/ WriteImpl \/ HandleWrite \/ UNCHANGED vars
          => UNCHANGED recv
    BY DEF PeerLeaves, WriteReturns, Uinit, WriteImpl, HandleWrite, vars, recv
  <1> QED
    BY <1>2, <1>3, <1>4, <1>5, <1>6, <1>7, <1>8, <1>9 DEF Next, Io

-----------------------------------------------------------------------------
(* The refinement *)

\* Every step queues a line, delivers or loses the one in front, or changes
\* neither the outbox as the network sees it nor the wire.
LEMMA StepImplements ==
    ASSUME TypeOK, OneWriteAtATime, [Next]_vars
    PROVE  [Fifo!Next]_<<Pending, wire>>
  <1>0. OneWrite
    BY OneWriteIs
  <1>1. CASE WriteImpl
    <2>1. /\ strand # <<>> /\ strand' = Tail(strand) /\ strand[1].op = "writeImpl"
          /\ strand[1].line \in Line /\ Queue(strand[1].line)
      BY <1>1, HeadOfStrand, Kinds DEF WriteImpl
    <2>2. Due' <=> Due
      BY <1>0, <2>1, DueAfterTail DEF OneWrite
    <2>3. _outbox' = Append(_outbox, strand[1].line)
      BY <2>1, Queued
    <2>4. Due => Tail(_outbox') = Append(Tail(_outbox), strand[1].line)
      BY <1>0, <2>1, <2>3, HeadTailAppend DEF OneWrite, TypeOK
    <2>5. Pending' = Append(Pending, strand[1].line)
      BY <2>2, <2>3, <2>4 DEF Pending
    <2>6. UNCHANGED wire
      BY <1>1 DEF WriteImpl
    <2> QED
      BY <2>1, <2>5, <2>6 DEF Fifo!Next, Fifo!Queue
  <1>2. CASE HandleWrite
    <2>1. /\ strand # <<>> /\ strand' = Tail(strand) /\ strand[1].op = "handleWrite"
          /\ strand[1].ok \in BOOLEAN /\ NextLine(strand[1].ok) /\ 1 \in DOMAIN strand
      BY <1>2, HeadOfStrand, Kinds DEF HandleWrite
    <2>2. Due /\ ~Due'
      BY <1>0, <2>1, DueAfterTail DEF OneWrite, Due
    <2>3. _outbox' = Tail(_outbox)
      BY <2>1 DEF NextLine
    <2>4. UNCHANGED wire
      BY <1>2 DEF HandleWrite
    <2> QED
      BY <2>2, <2>3, <2>4 DEF Pending
  <1>3. ASSUME NEW i \in DOMAIN writing, NEW ok \in BOOLEAN, Complete(i, ok)
        PROVE  [Fifo!Next]_<<Pending, wire>>
    <2>1. _outbox' = _outbox /\ i = 1
      BY <1>0, <1>3, RemoveOnly DEF Complete, OneWrite, TypeOK
    <2>2. _outbox # <<>> /\ ~Due /\ writing[1] = _outbox[1]
      BY <1>0, <1>3, EmptyDomain DEF OneWrite, TypeOK
    <2>3. Due'
      <3>1. Len(strand) + 1 \in DOMAIN strand'
        <4>1. Len(strand) \in Nat
          BY EmptyDomain DEF TypeOK
        <4>2. DOMAIN strand' = 1 .. Len(strand) + 1
          BY <1>3, CompletePosts
        <4> QED
          BY <4>1, <4>2
      <3> QED
        BY <1>3, <3>1, CompletePosts DEF Due
    <2>4. Pending # <<>> /\ Pending' = Tail(Pending) /\ Head(Pending) = writing[1]
      BY <2>1, <2>2, <2>3, Behead DEF Pending, TypeOK
    <2>5. wire' = Append(wire, writing[1]) \/ wire' = wire
      BY <1>3, <2>1 DEF Complete
    <2> QED
      BY <2>4, <2>5 DEF Fifo!Next, Fifo!Deliver, Fifo!Lose
  <1>4. CASE Write
    <2>1. /\ DOMAIN strand' = 1 .. Len(strand) + 1 /\ DOMAIN strand = 1 .. Len(strand)
          /\ Len(strand) \in Nat
          /\ \A j \in DOMAIN strand : strand'[j] = strand[j]
          /\ strand'[Len(strand) + 1].op # "handleWrite"
      BY <1>4, WritePosts, EmptyDomain DEF TypeOK
    <2>2. Due' <=> Due
      BY <2>1 DEF Due
    <2> QED
      BY <1>4, <2>2 DEF Write, Pending
  <1>5. CASE WriteReturns
    <2>1. Due' <=> Due
      BY <1>5, OpsKept DEF Due
    <2> QED
      BY <1>5, <2>1 DEF WriteReturns, Pending
  <1>6. CASE UNCHANGED send
    BY <1>6 DEF Pending, Due, send
  <1>7. Accept \/ HandleRead \/ ReadFails \/ PeerLeaves \/ Receive \/ Uinit \/ UNCHANGED vars
          => UNCHANGED send
    BY DEF Accept, HandleRead, ReadFails, PeerLeaves, Receive, Uinit, vars, send
  <1> QED
    BY <1>1, <1>2, <1>3, <1>4, <1>5, <1>6, <1>7 DEF Next, Io

-----------------------------------------------------------------------------
(* Theorems *)

LEMMA Inductive == Spec => []IInv
  <1>1. Init => IInv
    <2> SUFFICES ASSUME Init PROVE IInv
      OBVIOUS
    <2>1. OneWrite
      BY DEF Init, OneWrite, Due
    <2>2. ReadInv /\ ShownInOrder
      BY DEF Init, ReadInv, ShownInOrder
    <2> QED
      BY <2>1, <2>2, TypesInit, OneWriteIs DEF IInv
  <1>2. IInv /\ [Next]_vars => IInv'
    BY StepTypes, StepOneWrite, StepRead DEF IInv
  <1> QED
    BY <1>1, <1>2, PTL DEF Spec

\* The outbox, the strand's handlers and what was sent and printed are
\* sequences of lines.
THEOREM TypeCorrect == Spec => []TypeOK
  BY Inductive, PTL DEF IInv

\* writeImpl and handleWrite never have two async_writes outstanding on the
\* socket, whatever fails and whenever write() returns.
THEOREM OneWriteSafe == Spec => []OneWriteAtATime
  BY Inductive, PTL DEF IInv

\* handleRead prints what was received, in order and once.
THEOREM ShownSafe == Spec => []ShownInOrder
  BY Inductive, PTL DEF IInv

\* The outbox, seen from the network, is a FIFO that may lose its front.
THEOREM FifoRefined == Spec => ImplementsFifo
  <1>1. Init => Fifo!Init
    BY DEF Init, Fifo!Init, Pending, Due
  <1>2. IInv /\ [Next]_vars => [Fifo!Next]_<<Pending, wire>>
    BY StepImplements DEF IInv
  <1> QED
    BY <1>1, <1>2, Inductive, PTL DEF Spec, ImplementsFifo, Fifo!Spec
=============================================================================
