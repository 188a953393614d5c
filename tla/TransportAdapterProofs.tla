------------------------ MODULE TransportAdapterProofs ------------------------
(***************************************************************************)
(* The word of Ed137 and the safety properties of TransportAdapter, for    *)
(* any set of adapters, any fields radios may report and any audio.        *)
(***************************************************************************)
EXTENDS TransportAdapter, TLAPS

-----------------------------------------------------------------------------
(* The word of Ed137 read back, for every input *)

\* Swapping the bytes of a word twice gives the word back: what htonl did at
\* the sender ntohl undoes at the receiver.
LEMMA SwapIsInvolution ==
    ASSUME NEW b \in Bit
    PROVE  Swapped(b) \in Bit /\ Swapped(Swapped(b)) = b
  BY SMTT(60) DEF Bit, Swapped

LEMMA NetworkOrder ==
    ASSUME NEW w \in Word
    PROVE  ntohl(htonl(w)) = w
<1>1. \A b \in Bit : b \in ntohl(htonl(w)) <=> b \in w
  BY SwapIsInvolution DEF ntohl, htonl
<1> QED
  BY <1>1 DEF ntohl, htonl, Word

\* A word that carries f in the bits lo to hi gives f to the getter that
\* masks and shifts those bits.
LEMMA FieldReads ==
    ASSUME NEW w, NEW lo \in Bit, NEW hi \in Bit,
           NEW f \in SUBSET (0 .. hi - lo),
           \A b \in lo .. hi : b \in w <=> b - lo \in f
    PROVE  Shr(w \cap (lo .. hi), lo) = f
<1>1. ASSUME NEW b \in Shr(w \cap (lo .. hi), lo)  PROVE b \in f
  <2> DEFINE c == b + lo
  <2>1. c \in w /\ c \in lo .. hi /\ c - lo = b
    BY <1>1 DEF Shr, Bit
  <2> HIDE DEF c
  <2>2. c - lo \in f
    BY <2>1
  <2> QED
    BY <2>1, <2>2
<1>2. ASSUME NEW b \in f  PROVE b \in Shr(w \cap (lo .. hi), lo)
  <2> DEFINE c == b + lo
  <2>1. b \in Bit /\ c \in lo .. hi /\ c - lo = b
    BY <1>2 DEF Bit
  <2> HIDE DEF c
  <2>2. c \in w
    BY <1>2, <2>1
  <2> QED
    BY <2>1, <2>2 DEF Shr, c
<1> QED
  BY <1>1, <1>2

\* FieldReads for the four getters.
LEMMA GetterReads ==
    ASSUME NEW w, NEW f
    PROVE  /\ f \subseteq 0 .. 2 /\ (\A b \in 29 .. 31 : b \in w <=> b - 29 \in f)
                => Shr(w \cap PttMask, 29) = f
           /\ f \subseteq {0} /\ (\A b \in 28 .. 28 : b \in w <=> b - 28 \in f)
                => Shr(w \cap SquelchMask, 28) = f
           /\ f \subseteq 0 .. 5 /\ (\A b \in 22 .. 27 : b \in w <=> b - 22 \in f)
                => Shr(w \cap PttIdMask, 22) = f
           /\ f \subseteq 0 .. 4 /\ (\A b \in 3 .. 7 : b \in w <=> b - 3 \in f)
                => Shr(w \cap BssMask, 3) = f
<1>1. ASSUME f \subseteq 0 .. 2, \A b \in 29 .. 31 : b \in w <=> b - 29 \in f
      PROVE  Shr(w \cap PttMask, 29) = f
  <2>1. 29 \in Bit /\ 31 \in Bit /\ f \in SUBSET (0 .. 31 - 29)
    BY <1>1 DEF Bit
  <2> QED
    BY <1>1, <2>1, FieldReads DEF PttMask
<1>2. ASSUME f \subseteq {0}, \A b \in 28 .. 28 : b \in w <=> b - 28 \in f
      PROVE  Shr(w \cap SquelchMask, 28) = f
  <2>1. 28 \in Bit /\ f \in SUBSET (0 .. 28 - 28) /\ SquelchMask = 28 .. 28
    BY <1>2 DEF Bit, SquelchMask
  <2> QED
    BY <1>2, <2>1, FieldReads
<1>3. ASSUME f \subseteq 0 .. 5, \A b \in 22 .. 27 : b \in w <=> b - 22 \in f
      PROVE  Shr(w \cap PttIdMask, 22) = f
  <2> DEFINE lo == 22
             hi == 27
  <2>1. lo \in Bit /\ hi \in Bit
    BY DEF Bit
  <2>2. f \in SUBSET (0 .. hi - lo)
    BY <1>3
  <2>3. \A b \in lo .. hi : b \in w <=> b - lo \in f
    BY <1>3
  <2> HIDE DEF lo, hi
  <2>4. Shr(w \cap (lo .. hi), lo) = f
    BY <2>1, <2>2, <2>3, FieldReads
  <2> QED
    BY <2>4 DEF PttIdMask, lo, hi
<1>4. ASSUME f \subseteq 0 .. 4, \A b \in 3 .. 7 : b \in w <=> b - 3 \in f
      PROVE  Shr(w \cap BssMask, 3) = f
  <2>1. 3 \in Bit /\ 7 \in Bit /\ f \in SUBSET (0 .. 7 - 3)
    BY <1>4 DEF Bit
  <2> QED
    BY <1>4, <2>1, FieldReads DEF BssMask
<1> QED
  BY <1>1, <1>2, <1>3, <1>4

\* What the sender shifts into place is where the shift says.
LEMMA ShiftedBit ==
    ASSUME NEW w, NEW n \in Bit, NEW b \in Bit
    PROVE  b \in Shl(w, n) <=> b - n \in w
  BY DEF Shl

\* The sender's word, bit by bit.
LEMMA SentBit ==
    ASSUME NEW pttid \in Byte, NEW status \in BOOLEAN, NEW priority \in Byte
    PROVE  LET w == ntohl(Ed137Word(pttid, status, priority)) IN
           /\ \A b \in 29 .. 31 : b \in w <=> status /\ b - 29 \in priority
           /\ \A b \in 22 .. 27 : b \in w <=> b - 22 \in pttid
           /\ \A b \in 28 .. 28 : b \notin w
           /\ \A b \in 3 .. 7 : b \notin w
<1> DEFINE id == WithId(pttid)
           ptt == WithPtt(id, priority)
           w == IF status THEN ptt ELSE id
<1>1. id \in Word /\ \A b \in Bit : b \in id <=> b \in 22 .. 27 /\ b - 22 \in pttid
  BY ShiftedBit DEF WithId, Word, Bit, PttIdMask
<1>2. ptt \in Word
  BY <1>1 DEF WithPtt, Word, Bit, PttMask
<1>3. \A b \in 0 .. 28 : b \in ptt <=> b \in id
  BY DEF WithPtt, PttMask
<1>4. \A b \in 29 .. 31 : b \in ptt <=> b - 29 \in priority
  BY ShiftedBit DEF WithPtt, PttMask, Bit
<1>5. ntohl(Ed137Word(pttid, status, priority)) = w
  BY <1>1, <1>2, NetworkOrder DEF Ed137Word
<1>6. \A b \in 29 .. 31 : b \in w <=> status /\ b - 29 \in priority
  BY <1>1, <1>4 DEF Bit
<1>7. \A b \in 0 .. 28 : b \in w <=> b \in 22 .. 27 /\ b - 22 \in pttid
  BY <1>1, <1>3 DEF Bit
<1> HIDE DEF w
<1> QED
  BY <1>5, <1>6, <1>7

\* Push-to-talk reads back, for every id and priority an adapter can hold:
\* the other phone sees the key exactly when setAdapterPtt has set it.
THEOREM PttAlwaysReadsBack ==
    ASSUME NEW pttid \in Byte, NEW status \in BOOLEAN, NEW priority \in Byte
    PROVE  PttReadsBack(pttid, status, priority)
<1> DEFINE w == ntohl(Ed137Word(pttid, status, priority))
           f == IF status THEN priority \cap (0 .. 2) ELSE {}
<1>1. \A b \in 29 .. 31 : b \in w <=> b - 29 \in f
  BY SentBit
<1>2. f \subseteq 0 .. 2
  OBVIOUS
<1> HIDE DEF w, f
<1>3. Shr(w \cap PttMask, 29) = f
  BY <1>1, <1>2, GetterReads
<1> QED
  BY <1>3 DEF PttReadsBack, get_IPRadioPttStatus, w, f

\* The id reads back too, with the key up or down, and the squelch and signal
\* quality of a phone's word are zero.
THEOREM OthersAlwaysReadBack ==
    ASSUME NEW pttid \in Byte, NEW status \in BOOLEAN, NEW priority \in Byte
    PROVE  OthersReadBack(pttid, status, priority)
<1> DEFINE w == ntohl(Ed137Word(pttid, status, priority))
           f == pttid \cap (0 .. 5)
           none == {}
<1>1. f \subseteq 0 .. 5 /\ \A b \in 22 .. 27 : b \in w <=> b - 22 \in f
  BY SentBit
<1>2. none \subseteq {0} /\ \A b \in 28 .. 28 : b \in w <=> b - 28 \in none
  BY SentBit
<1>3. none \subseteq 0 .. 4 /\ \A b \in 3 .. 7 : b \in w <=> b - 3 \in none
  BY SentBit
<1> HIDE DEF w, f, none
<1>4. Shr(w \cap PttIdMask, 22) = f
  BY <1>1, GetterReads
<1>5. Shr(w \cap SquelchMask, 28) = none
  BY <1>2, GetterReads
<1>6. Shr(w \cap BssMask, 3) = none
  BY <1>3, GetterReads
<1> QED
  BY <1>4, <1>5, <1>6
     DEF OthersReadBack, get_IPRadioPttId, get_IPRadioSquelch, get_IPRadioBss, w, f, none

\* The getters separate the fields of any word a radio can send.
THEOREM RadioAlwaysReads ==
    ASSUME NEW ptt \in SUBSET (0 .. 2), NEW squ \in SUBSET {0},
           NEW id \in SUBSET (0 .. 5), NEW bss \in SUBSET (0 .. 4)
    PROVE  FieldsAreApart(ptt, squ, id, bss)
<1> DEFINE w == Shl(ptt, 29) \cup Shl(squ, 28) \cup Shl(id, 22) \cup Shl(bss, 3)
<1>1. w \in Word
  BY DEF Shl, Word
<1>2. ntohl(RadioWord(ptt, squ, id, bss)) = w
  BY <1>1, NetworkOrder DEF RadioWord
<1>3. \A b \in Bit : b \in w <=> b - 29 \in ptt \/ b - 28 \in squ \/ b - 22 \in id \/ b - 3 \in bss
  BY DEF Shl
<1> HIDE DEF w
<1>4. Shr(w \cap PttMask, 29) = ptt
  <2>1. \A b \in 29 .. 31 : b \in w <=> b - 29 \in ptt
    BY <1>3 DEF Bit
  <2> QED
    BY <2>1, GetterReads
<1>5. Shr(w \cap SquelchMask, 28) = squ
  <2>1. \A b \in 28 .. 28 : b \in w <=> b - 28 \in squ
    BY <1>3 DEF Bit
  <2> QED
    BY <2>1, GetterReads
<1>6. Shr(w \cap PttIdMask, 22) = id
  <2>1. \A b \in 22 .. 27 : b \in w <=> b - 22 \in id
    BY <1>3 DEF Bit
  <2> QED
    BY <2>1, GetterReads
<1>7. Shr(w \cap BssMask, 3) = bss
  <2>1. \A b \in 3 .. 7 : b \in w <=> b - 3 \in bss
    BY <1>3 DEF Bit
  <2> QED
    BY <2>1, GetterReads
<1>8. w # {} <=> ptt \cup squ \cup id \cup bss # {}
  <2>1. CASE w = {}
    BY <2>1, <1>4, <1>5, <1>6, <1>7 DEF Shr
  <2>2. CASE w # {}
    BY <2>2, <1>1, <1>3 DEF Word
  <2> QED
    BY <2>1, <2>2
<1> QED
  BY <1>2, <1>4, <1>5, <1>6, <1>7, <1>8
     DEF FieldsAreApart, get_IPRadioPttStatus, get_IPRadioSquelch, get_IPRadioPttId,
         get_IPRadioBss, get_IPRadioStatus

-----------------------------------------------------------------------------
(* The word a packet is given *)

LEMMA WordTyped ==
    ASSUME NEW pttstatus_, NEW pttpriority_
    PROVE  Ed137Word(NoId, pttstatus_, pttpriority_) \in Word
  BY DEF Ed137Word, htonl, Word

\* Without an id the word has only the push-to-talk bits.
LEMMA OnlyPttBits ==
    ASSUME NEW on \in BOOLEAN, NEW p \in {{}, Priority}
    PROVE  ntohl(Ed137Word(NoId, on, p)) \subseteq PttMask
<1> DEFINE w == IF on THEN WithPtt(WithId(NoId), p) ELSE WithId(NoId)
<1>1. WithId(NoId) = {}
  BY DEF WithId, NoId, Shl
<1>2. w \subseteq PttMask
  BY <1>1 DEF WithPtt
<1>3. w \in Word
  BY <1>2 DEF PttMask, Word, Bit
<1> QED
  BY <1>2, <1>3, NetworkOrder DEF Ed137Word

\* It shows the key when the priority is the program's.
LEMMA WordShowsKey ==
    /\ PttOn(Ed137Word(NoId, TRUE, Priority))
    /\ \A p \in {{}, Priority} : ~PttOn(Ed137Word(NoId, FALSE, p))
<1>1. NoId \in Byte /\ Priority \in Byte /\ {} \in Byte
  BY DEF NoId, Priority, Byte
<1>2. PttReadsBack(NoId, TRUE, Priority) /\ PttReadsBack(NoId, FALSE, Priority)
  BY <1>1, PttAlwaysReadsBack
<1>3. PttReadsBack(NoId, FALSE, {})
  BY <1>1, PttAlwaysReadsBack
<1>4. Priority \cap (0 .. 2) # {}
  BY DEF Priority
<1> QED
  BY <1>2, <1>3, <1>4 DEF PttReadsBack, PttOn

-----------------------------------------------------------------------------
(* The inductive invariant *)

\* The callback runs only between the slave's attach and the end of its
\* detach, and that lies between the setting and the clearing of the fields.
SessionOrder ==
    /\ slave \subseteq stream
    /\ receiver.at # "idle" => receiver.tp \in slave
    /\ session.at # "idle" => session.tp \in stream /\ session.tp \notin slave

\* How far the header in pkt_buff is.
HeaderBuilt ==
    LET h == packet[<<"out", sender.tp>>] IN
    /\ sender.at \in {"test", "store", "send"} => h.x
    /\ sender.at = "send" =>
         \E p \in {{}, Priority} :
            /\ h.ed137 = Ed137Word(NoId, sender.key, p)
            /\ quiet /\ sender.key => p = Priority

\* A key that is down has its priority, unless the setter is at it.
KeyHasPriority ==
    \A a \in Adapter : pttstatus[a] =>
        pttpriority[a] = Priority \/ (setter.at = "priority" /\ setter.tp = a)

\* What quiet means to the packet being built.
QuietKey ==
    sender.at # "idle" /\ quiet =>
        /\ ~(setter.at = "priority" /\ setter.tp = sender.tp)
        /\ sender.at \in {"store", "send"} => sender.key = pttstatus[sender.tp]

\* A packet that is being decoded is the peer's last, untouched.
ArrivedIntact ==
    receiver.at = "decode" =>
        packet[<<"in", receiver.tp>>].ed137 = reported[receiver.tp]

IInv ==
    /\ TypeOK /\ SessionOrder /\ HeaderBuilt /\ KeyHasPriority /\ QuietKey
    /\ ArrivedIntact /\ ValueIsReported

\* Sender and receiver never share a buffer.
LEMMA BuffersApart ==
    ASSUME NEW a \in Adapter, NEW b \in Adapter
    PROVE  <<"out", a>> \in Buffer /\ <<"in", b>> \in Buffer /\ <<"out", a>> # <<"in", b>>
  BY DEF Buffer

LEMMA SendRtpKeeps ==
    ASSUME NEW a \in Adapter, IInv, SendRtp(a)
    PROVE  IInv'
<1> USE DEF IInv, SendRtp, keys, threads
<1>1. TypeOK'
  BY AdapterAssumption, WordAssumption, WordTyped DEF TypeOK, At, Idle, Header, Buffer, Priority
<1>2. HeaderBuilt'
  BY BuffersApart DEF TypeOK, At, Idle, Header, HeaderBuilt
<1>3. QuietKey'
  BY BuffersApart DEF TypeOK, At, Idle, Header, QuietKey
<1>4. ArrivedIntact'
  BY BuffersApart DEF TypeOK, At, Idle, Header, ArrivedIntact
<1>5. SessionOrder' /\ KeyHasPriority' /\ ValueIsReported'
  BY DEF SessionOrder, KeyHasPriority, ValueIsReported
<1> QED
  BY <1>1, <1>2, <1>3, <1>4, <1>5

LEMMA MarkKeeps ==
    ASSUME IInv, Mark
    PROVE  IInv'
<1> USE DEF IInv, Mark, SenderPacket, keys, threads
<1>1. TypeOK'
  BY AdapterAssumption, WordAssumption, WordTyped DEF TypeOK, At, Idle, Header, Buffer, Priority
<1>2. HeaderBuilt'
  BY BuffersApart DEF TypeOK, At, Idle, Header, HeaderBuilt
<1>3. QuietKey'
  BY BuffersApart DEF TypeOK, At, Idle, Header, QuietKey
<1>4. ArrivedIntact'
  BY BuffersApart DEF TypeOK, At, Idle, Header, ArrivedIntact
<1>5. SessionOrder' /\ KeyHasPriority' /\ ValueIsReported'
  BY DEF SessionOrder, KeyHasPriority, ValueIsReported
<1> QED
  BY <1>1, <1>2, <1>3, <1>4, <1>5

LEMMA TestKeyKeeps ==
    ASSUME IInv, TestKey
    PROVE  IInv'
<1> USE DEF IInv, TestKey, keys, threads
<1>1. TypeOK'
  BY AdapterAssumption, WordAssumption, WordTyped DEF TypeOK, At, Idle, Header, Buffer, Priority
<1>2. HeaderBuilt'
  BY DEF TypeOK, At, Idle, Header, HeaderBuilt
<1>3. QuietKey'
  BY DEF TypeOK, At, Idle, Header, QuietKey
<1>4. SessionOrder' /\ KeyHasPriority' /\ ArrivedIntact' /\ ValueIsReported'
  BY DEF SessionOrder, KeyHasPriority, ArrivedIntact, ValueIsReported
<1> QED
  BY <1>1, <1>2, <1>3, <1>4

LEMMA StoreKeeps ==
    ASSUME IInv, Store
    PROVE  IInv'
<1> USE DEF IInv, Store, SenderPacket, WordToSend, keys, threads
<1>1. TypeOK'
  BY AdapterAssumption, WordAssumption, WordTyped DEF TypeOK, At, Idle, Header, Buffer, Priority
<1>2. HeaderBuilt'
  BY BuffersApart, WordTyped DEF TypeOK, At, Idle, Header, HeaderBuilt, KeyHasPriority, QuietKey
<1>3. QuietKey'
  BY BuffersApart DEF TypeOK, At, Idle, Header, QuietKey
<1>4. ArrivedIntact'
  BY BuffersApart DEF TypeOK, At, Idle, Header, ArrivedIntact
<1>5. SessionOrder' /\ KeyHasPriority' /\ ValueIsReported'
  BY DEF SessionOrder, KeyHasPriority, ValueIsReported
<1> QED
  BY <1>1, <1>2, <1>3, <1>4, <1>5

LEMMA SendKeeps ==
    ASSUME IInv, Send
    PROVE  IInv'
<1> USE DEF IInv, Send, keys, threads
<1>1. TypeOK'
  BY AdapterAssumption, WordAssumption, WordTyped DEF TypeOK, At, Idle, Header, Buffer, Priority
<1>2. HeaderBuilt'
  BY DEF TypeOK, At, Idle, Header, HeaderBuilt
<1>3. QuietKey'
  BY DEF TypeOK, At, Idle, Header, QuietKey
<1>4. SessionOrder' /\ KeyHasPriority' /\ ArrivedIntact' /\ ValueIsReported'
  BY DEF SessionOrder, KeyHasPriority, ArrivedIntact, ValueIsReported
<1> QED
  BY <1>1, <1>2, <1>3, <1>4

LEMMA RtpCbKeeps ==
    ASSUME NEW a \in Adapter, NEW h \in Header, IInv, RtpCb(a, h)
    PROVE  IInv'
<1> USE DEF IInv, RtpCb, keys, threads
<1>1. TypeOK'
  BY AdapterAssumption DEF TypeOK, At, Idle, Header, Buffer, Priority
<1>2. SessionOrder'
  BY BuffersApart DEF TypeOK, At, Idle, Header, SessionOrder
<1>3. HeaderBuilt'
  BY BuffersApart DEF TypeOK, At, Idle, Header, HeaderBuilt
<1>4. ArrivedIntact'
  <2>1. <<"in", a>> \in DOMAIN packet /\ a \in DOMAIN reported
    BY BuffersApart DEF TypeOK
  <2>2. packet'[<<"in", a>>].ed137 = h.ed137 /\ reported'[a] = h.ed137
    BY <2>1
  <2>3. receiver'.tp = a
    OBVIOUS
  <2> QED
    BY <2>2, <2>3 DEF ArrivedIntact
<1>5. ValueIsReported'
  BY BuffersApart DEF TypeOK, At, Idle, Header, ValueIsReported
<1>6. KeyHasPriority' /\ QuietKey'
  BY DEF KeyHasPriority, QuietKey
<1> QED
  BY <1>1, <1>2, <1>3, <1>4, <1>5, <1>6

\* The header of either kind of packet has a word in the word's place.
LEMMA ArrivalKeeps ==
    ASSUME NEW a \in Adapter, IInv, RadioRtp(a) \/ PlainRtp(a)
    PROVE  IInv'
<1>1. CASE RadioRtp(a)
  <2>1. PICK f \in Field : RtpCb(a, [x |-> TRUE, ed137 |-> Report(f)])
    BY <1>1 DEF RadioRtp
  <2>2. [x |-> TRUE, ed137 |-> Report(f)] \in Header
    BY DEF Header, Report, RadioWord, htonl, Word
  <2> QED
    BY <2>1, <2>2, RtpCbKeeps
<1>2. CASE PlainRtp(a)
  <2>1. [x |-> FALSE, ed137 |-> Audio] \in Header
    BY WordAssumption DEF Header
  <2> QED
    BY <1>2, <2>1, RtpCbKeeps DEF PlainRtp
<1> QED
  BY <1>1, <1>2

LEMMA DecodeKeeps ==
    ASSUME IInv, Decode
    PROVE  IInv'
<1> USE DEF IInv, Decode, ReceiverPacket, keys, threads
<1>1. TypeOK'
  BY AdapterAssumption, WordAssumption, WordTyped DEF TypeOK, At, Idle, Header, Buffer, Priority
<1>2. SessionOrder'
  BY DEF TypeOK, At, Idle, Header, SessionOrder
<1>3. ArrivedIntact'
  BY DEF TypeOK, At, Idle, Header, ArrivedIntact
<1>4. ValueIsReported'
  BY DEF TypeOK, At, Idle, Header, ValueIsReported, ArrivedIntact
<1>5. HeaderBuilt' /\ KeyHasPriority' /\ QuietKey'
  BY DEF HeaderBuilt, KeyHasPriority, QuietKey
<1> QED
  BY <1>1, <1>2, <1>3, <1>4, <1>5

LEMMA DeliverKeeps ==
    ASSUME IInv, Deliver
    PROVE  IInv'
<1> USE DEF IInv, Deliver, keys, threads
<1>1. TypeOK'
  BY AdapterAssumption, WordAssumption, WordTyped DEF TypeOK, At, Idle, Header, Buffer, Priority
<1>2. SessionOrder'
  BY DEF TypeOK, At, Idle, Header, SessionOrder
<1>3. ArrivedIntact'
  BY DEF TypeOK, At, Idle, Header, ArrivedIntact
<1>4. ValueIsReported'
  BY DEF TypeOK, At, Idle, Header, ValueIsReported
<1>5. HeaderBuilt' /\ KeyHasPriority' /\ QuietKey'
  BY DEF HeaderBuilt, KeyHasPriority, QuietKey
<1> QED
  BY <1>1, <1>2, <1>3, <1>4, <1>5

LEMMA SetAdapterPttKeeps ==
    ASSUME NEW a \in Adapter, NEW v \in BOOLEAN, IInv, SetAdapterPtt(a, v)
    PROVE  IInv'
<1> USE DEF IInv, SetAdapterPtt, keys, threads
<1>1. TypeOK'
  <2>1. pttstatus' \in [Adapter -> BOOLEAN] /\ setter' \in At({"idle", "priority"})
    BY DEF TypeOK, At
  <2>2. quiet' \in BOOLEAN
    OBVIOUS
  <2> QED
    BY <2>1, <2>2 DEF TypeOK
<1>2. HeaderBuilt'
  BY DEF TypeOK, At, Idle, Header, HeaderBuilt
<1>3. KeyHasPriority'
  BY DEF TypeOK, At, Idle, Header, KeyHasPriority
<1>4. QuietKey'
  BY DEF TypeOK, At, Idle, Header, QuietKey
<1>5. SessionOrder' /\ ArrivedIntact' /\ ValueIsReported'
  BY DEF SessionOrder, ArrivedIntact, ValueIsReported
<1> QED
  BY <1>1, <1>2, <1>3, <1>4, <1>5

LEMMA SetPriorityKeeps ==
    ASSUME IInv, SetPriority
    PROVE  IInv'
<1> USE DEF IInv, SetPriority, keys, threads
<1>1. TypeOK'
  BY AdapterAssumption, WordAssumption, WordTyped DEF TypeOK, At, Idle, Header, Buffer, Priority
<1>2. KeyHasPriority'
  BY DEF TypeOK, At, Idle, Header, KeyHasPriority
<1>3. QuietKey'
  BY DEF TypeOK, At, Idle, Header, QuietKey
<1>4. SessionOrder' /\ HeaderBuilt' /\ ArrivedIntact' /\ ValueIsReported'
  BY DEF SessionOrder, HeaderBuilt, ArrivedIntact, ValueIsReported
<1> QED
  BY <1>1, <1>2, <1>3, <1>4

LEMMA AttachKeeps ==
    ASSUME NEW a \in Adapter, IInv, Attach(a)
    PROVE  IInv'
<1> USE DEF IInv, Attach, keys, threads
<1>1. TypeOK'
  BY AdapterAssumption, WordAssumption, WordTyped DEF TypeOK, At, Idle, Header, Buffer, Priority
<1>2. SessionOrder'
  BY DEF TypeOK, At, Idle, Header, SessionOrder
<1>3. HeaderBuilt' /\ KeyHasPriority' /\ QuietKey' /\ ArrivedIntact' /\ ValueIsReported'
  BY DEF HeaderBuilt, KeyHasPriority, QuietKey, ArrivedIntact, ValueIsReported
<1> QED
  BY <1>1, <1>2, <1>3

LEMMA DetachKeeps ==
    ASSUME NEW a \in Adapter, IInv, Detach(a)
    PROVE  IInv'
<1> USE DEF IInv, Detach, Release, keys, threads
<1>1. TypeOK'
  BY AdapterAssumption, WordAssumption, WordTyped DEF TypeOK, At, Idle, Header, Buffer, Priority
<1>2. SessionOrder'
  BY DEF TypeOK, At, Idle, Header, SessionOrder
<1>3. HeaderBuilt' /\ KeyHasPriority' /\ QuietKey' /\ ArrivedIntact' /\ ValueIsReported'
  BY DEF HeaderBuilt, KeyHasPriority, QuietKey, ArrivedIntact, ValueIsReported
<1> QED
  BY <1>1, <1>2, <1>3

LEMMA AttachSlaveKeeps ==
    ASSUME IInv, AttachSlave
    PROVE  IInv'
<1> USE DEF IInv, AttachSlave, keys, threads
<1>1. TypeOK'
  BY AdapterAssumption, WordAssumption, WordTyped DEF TypeOK, At, Idle, Header, Buffer, Priority
<1>2. SessionOrder'
  BY DEF TypeOK, At, Idle, Header, SessionOrder
<1>3. HeaderBuilt' /\ KeyHasPriority' /\ QuietKey' /\ ArrivedIntact' /\ ValueIsReported'
  BY DEF HeaderBuilt, KeyHasPriority, QuietKey, ArrivedIntact, ValueIsReported
<1> QED
  BY <1>1, <1>2, <1>3

LEMMA ClearStreamKeeps ==
    ASSUME IInv, ClearStream
    PROVE  IInv'
<1> USE DEF IInv, ClearStream, keys, threads
<1>1. TypeOK'
  BY AdapterAssumption, WordAssumption, WordTyped DEF TypeOK, At, Idle, Header, Buffer, Priority
<1>2. SessionOrder'
  BY DEF TypeOK, At, Idle, Header, SessionOrder
<1>3. HeaderBuilt' /\ KeyHasPriority' /\ QuietKey' /\ ArrivedIntact' /\ ValueIsReported'
  BY DEF HeaderBuilt, KeyHasPriority, QuietKey, ArrivedIntact, ValueIsReported
<1> QED
  BY <1>1, <1>2, <1>3

-----------------------------------------------------------------------------
LEMMA InitEstablishes == Init => IInv
<1> SUFFICES ASSUME Init PROVE IInv
  OBVIOUS
<1> USE DEF Init, Idle
<1>1. TypeOK
  BY AdapterAssumption DEF TypeOK, At, Header, Buffer, Word
<1>2. SessionOrder /\ HeaderBuilt /\ KeyHasPriority /\ QuietKey
  BY DEF SessionOrder, HeaderBuilt, KeyHasPriority, QuietKey
<1>3. ArrivedIntact /\ ValueIsReported
  BY DEF ArrivedIntact, ValueIsReported
<1> QED
  BY <1>1, <1>2, <1>3 DEF IInv

LEMMA StepKeeps == IInv /\ [Next]_vars => IInv'
<1> SUFFICES ASSUME IInv, [Next]_vars PROVE IInv'
  OBVIOUS
<1>1. CASE Sender
  BY <1>1, SendRtpKeeps, MarkKeeps, TestKeyKeeps, StoreKeeps, SendKeeps DEF Sender
<1>2. CASE Receiver
  BY <1>2, ArrivalKeeps, DecodeKeeps, DeliverKeeps DEF Receiver
<1>3. CASE Setter
  BY <1>3, SetAdapterPttKeeps, SetPriorityKeeps DEF Setter
<1>4. CASE Session
  BY <1>4, AttachKeeps, DetachKeeps, AttachSlaveKeeps, ClearStreamKeeps DEF Session
<1>5. CASE UNCHANGED vars
  BY <1>5 DEF IInv, TypeOK, SessionOrder, HeaderBuilt, KeyHasPriority, QuietKey,
              ArrivedIntact, ValueIsReported, vars, keys, threads
<1> QED
  BY <1>1, <1>2, <1>3, <1>4, <1>5 DEF Next

\* The strengthened invariant holds throughout.
THEOREM AdapterInductive == Spec => []IInv
<1> QED
  BY InitEstablishes, StepKeeps, PTL DEF Spec

\* Every variable of the adapters keeps its type.
THEOREM TypeCorrect == Spec => []TypeOK
<1>1. IInv => TypeOK
  BY DEF IInv
<1> QED
  BY AdapterInductive, <1>1, PTL

\* transport_rtp_cb never runs without the stream's callback.
THEOREM CallbackSafe == Spec => []CallbackIsSet
<1>1. IInv => CallbackIsSet
  BY DEF IInv, SessionOrder, CallbackIsSet
<1> QED
  BY AdapterInductive, <1>1, PTL

\* Every packet to a radio carries the header extension.
THEOREM HeaderSafe == Spec => []PacketCarriesHeader
<1>1. IInv => PacketCarriesHeader
  <2> SUFFICES ASSUME IInv, sender.at = "send" PROVE PacketCarriesHeader
    BY DEF PacketCarriesHeader
  <2>1. sender.key \in BOOLEAN
    BY DEF IInv, TypeOK, At
  <2>2. PICK p \in {{}, Priority} :
           packet[<<"out", sender.tp>>].ed137 = Ed137Word(NoId, sender.key, p)
    BY DEF IInv, HeaderBuilt
  <2>3. ntohl(packet[<<"out", sender.tp>>].ed137) \subseteq PttMask
    BY <2>1, <2>2, OnlyPttBits
  <2> QED
    BY <2>3 DEF IInv, HeaderBuilt, PacketCarriesHeader
<1> QED
  BY AdapterInductive, <1>1, PTL

\* A packet built while the key did not change shows the key.
THEOREM KeySafe == Spec => []PacketCarriesKey
<1>1. IInv => PacketCarriesKey
  <2> SUFFICES ASSUME IInv, sender.at = "send", quiet PROVE PacketCarriesKey
    BY DEF PacketCarriesKey
  <2>1. sender.key \in BOOLEAN /\ sender.key = pttstatus[sender.tp]
    BY DEF IInv, TypeOK, At, QuietKey
  <2>2. PICK p \in {{}, Priority} :
           /\ packet[<<"out", sender.tp>>].ed137 = Ed137Word(NoId, sender.key, p)
           /\ sender.key => p = Priority
    BY DEF IInv, HeaderBuilt
  <2>3. CASE sender.key = TRUE
    BY <2>1, <2>2, <2>3, WordShowsKey DEF PacketCarriesKey
  <2>4. CASE sender.key = FALSE
    BY <2>1, <2>2, <2>4, WordShowsKey DEF PacketCarriesKey
  <2> QED
    BY <2>1, <2>3, <2>4
<1> QED
  BY AdapterInductive, <1>1, PTL

\* An adapter's stored word is the last its own radio sent.
THEOREM ValueSafe == Spec => []ValueIsReported
<1>1. IInv => ValueIsReported
  BY DEF IInv
<1> QED
  BY AdapterInductive, <1>1, PTL

\* Between decoding and delivery the getters tell what the radio said.
THEOREM ReadSafe == Spec => []RadioIsRead
<1>1. IInv => RadioIsRead
  <2> SUFFICES ASSUME IInv, receiver.at = "deliver",
                      NEW f \in Field, reported[receiver.tp] = Report(f)
               PROVE  LET v == ed137_value[receiver.tp] IN
                      /\ get_IPRadioPttStatus(v) = f.ptt
                      /\ get_IPRadioSquelch(v) = f.squ
                      /\ get_IPRadioPttId(v) = f.id
                      /\ get_IPRadioBss(v) = f.bss
                      /\ get_IPRadioStatus(v) <=> f.ptt \cup f.squ \cup f.id \cup f.bss # {}
    BY DEF RadioIsRead
  <2>1. ed137_value[receiver.tp] = Report(f)
    BY DEF IInv, TypeOK, At, ValueIsReported
  <2>2. FieldsAreApart(f.ptt, f.squ, f.id, f.bss)
    BY FieldAssumption, RadioAlwaysReads
  <2> QED
    BY <2>1, <2>2 DEF FieldsAreApart, Report
<1> QED
  BY AdapterInductive, <1>1, PTL
=============================================================================
