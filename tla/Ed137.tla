-------------------------------- MODULE Ed137 --------------------------------
(***************************************************************************)
(* The 32-bit ED-137 word that rides in the RTP header extension of a      *)
(* radio call: how transport_send_rtp builds it from the push-to-talk      *)
(* fields and how the get_IPRadio... functions take it apart.              *)
(*                                                                         *)
(* A machine word is the set of its bits that are 1: & is intersection,    *)
(* | is union, a shift moves the bits and drops those that leave the word. *)
(***************************************************************************)
EXTENDS Integers

Bit == 0 .. 31
Word == SUBSET Bit          \* pj_uint32_t
Byte == SUBSET (0 .. 7)     \* pj_uint8_t

Shl(w, n) == {b \in Bit : b - n \in w}
Shr(w, n) == {b \in Bit : b + n \in w}

\* The place of bit b after htonl or ntohl on a little-endian host: the bytes
\* change places, the bits of a byte do not.
Swapped(b) == 8 * (3 - (b \div 8)) + (b % 8)
htonl(w) == {b \in Bit : Swapped(b) \in w}
ntohl(w) == htonl(w)

\* The masks written out in the code as hexadecimal constants.
PttMask == 29 .. 31         \* 0xe0000000
SquelchMask == {28}         \* 0x10000000
PttIdMask == 22 .. 27       \* 0x0fc00000
BssMask == 3 .. 7           \* 0x000000f8

\* transport_send_rtp: the word for a packet, in network order.
WithId(pttid) == ({} \cup PttIdMask) \cap Shl(pttid, 22)
WithPtt(w, pttpriority) == (w \cup PttMask) \cap (Shl(pttpriority, 29) \cup (0 .. 28))
Ed137Word(pttid, pttstatus, pttpriority) ==
    htonl(IF pttstatus THEN WithPtt(WithId(pttid), pttpriority) ELSE WithId(pttid))

\* The getters, on the value an adapter keeps (network order).
get_IPRadioPttStatus(v) == Shr(ntohl(v) \cap PttMask, 29)
get_IPRadioSquelch(v) == Shr(ntohl(v) \cap SquelchMask, 28)
get_IPRadioPttId(v) == Shr(ntohl(v) \cap PttIdMask, 22)
get_IPRadioBssNoShift(v) == ntohl(v) \cap BssMask   \* (mutant)
get_IPRadioBss(v) == Shr(ntohl(v) \cap BssMask, 3)
get_IPRadioStatus(v) == ntohl(v) # {}

-----------------------------------------------------------------------------
(* What a phone reads from the word another phone wrote *)

\* Push-to-talk that is on reads back as the low three bits of the priority,
\* push-to-talk that is off as zero, whatever the id is.
PttReadsBack(pttid, pttstatus, pttpriority) ==
    get_IPRadioPttStatus(Ed137Word(pttid, pttstatus, pttpriority)) =
        IF pttstatus THEN pttpriority \cap (0 .. 2) ELSE {}

\* The id reads back as its low six bits whether or not the key is down, and
\* neither field leaks into the squelch or the signal quality.
OthersReadBack(pttid, pttstatus, pttpriority) ==
    LET v == Ed137Word(pttid, pttstatus, pttpriority) IN
    /\ get_IPRadioPttId(v) = pttid \cap (0 .. 5)
    /\ get_IPRadioSquelch(v) = {}
    /\ get_IPRadioBss(v) = {}

\* The word as a radio puts it together, field by field, in network order.
RadioWord(ptt, squ, id, bss) ==
    htonl(Shl(ptt, 29) \cup Shl(squ, 28) \cup Shl(id, 22) \cup Shl(bss, 3))

\* Each getter finds its own field in a word a radio put together and nothing
\* of the others.
FieldsAreApart(ptt, squ, id, bss) ==
    LET v == RadioWord(ptt, squ, id, bss) IN
    /\ get_IPRadioPttStatus(v) = ptt
    /\ get_IPRadioSquelch(v) = squ
    /\ get_IPRadioPttId(v) = id
    /\ get_IPRadioBss(v) = bss
    /\ get_IPRadioStatus(v) <=> ptt \cup squ \cup id \cup bss # {}
=============================================================================
