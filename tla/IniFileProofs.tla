--------------------------- MODULE IniFileProofs ---------------------------
(***************************************************************************)
(* Proofs about IniFile.  The first part is about the text of one line:    *)
(* what Trim, Before and FromComponent find in a part of it, and so what   *)
(* the parser makes of a line of each kind of the grammar (LineMeans).     *)
(* The second is about the lists: an entry is stored once (Kept).  The     *)
(* third relates the lists to the headers and entries of a well formed     *)
(* file (Right), and the settings to the lists (Assigned).                 *)
(***************************************************************************)
EXTENDS IniFile, SequenceTheorems, NaturalsInduction, WellFoundedInduction, TLAPS

-----------------------------------------------------------------------------
(* The text of a line *)

LEMMA Tokens ==
    /\ Space \notin CommentMark /\ Space \notin {"=", "[", "]"}
    /\ "=" \notin CommentMark /\ "[" \notin CommentMark
  BY Zenon DEF Space, CommentMark

\* Min and Max of the community modules, where they exist.
LEMMA MinIs ==
    ASSUME NEW T, T \subseteq Nat, NEW i \in T, \A j \in T : i <= j
    PROVE  Min(T) = i
  <1>1. \E x \in T : \A y \in T : x <= y
    OBVIOUS
  <1>2. Min(T) \in T /\ \A y \in T : Min(T) <= y
    BY <1>1 DEF Min
  <1>3. Min(T) \in Nat /\ i \in Nat /\ Min(T) <= i /\ i <= Min(T)
    BY <1>2
  <1> QED
    BY <1>3

LEMMA MaxIs ==
    ASSUME NEW T, T \subseteq Nat, NEW i \in T, \A j \in T : j <= i
    PROVE  Max(T) = i
  <1>1. \E x \in T : \A y \in T : x >= y
    OBVIOUS
  <1>2. Max(T) \in T /\ \A y \in T : Max(T) >= y
    BY <1>1 DEF Max
  <1>3. Max(T) \in Nat /\ i \in Nat /\ Max(T) <= i /\ i <= Max(T)
    BY <1>2
  <1> QED
    BY <1>3

LEMMA FirstSolid ==
    ASSUME NEW s \in Seq(STRING), NEW i \in 1 .. Len(s), s[i] # Space, Blanks(s, 1, i - 1)
    PROVE  SelectInSeq(s, LAMBDA t : t # Space) = i
  <1> DEFINE I == {j \in 1 .. Len(s) : s[j] # Space}
  <1>1. I \subseteq Nat /\ i \in I /\ \A j \in I : i <= j
    <2>1. \A j \in 1 .. i - 1 : s[j] = Space
      BY DEF Blanks
    <2>2. ASSUME NEW j \in I PROVE i <= j
      <3>1. j \in 1 .. Len(s) /\ j \notin 1 .. i - 1
        BY <2>1
      <3> QED
        BY <3>1
    <2> QED
      BY <2>2
  <1>2. Min(I) = i /\ I # {}
    BY <1>1, MinIs
  <1> HIDE DEF I
  <1>3. SelectInSeq(s, LAMBDA t : t # Space) = IF I # {} THEN Min(I) ELSE 0
    BY DEF SelectInSeq, I
  <1> QED
    BY <1>2, <1>3

LEMMA LastSolid ==
    ASSUME NEW s \in Seq(STRING), NEW i \in 1 .. Len(s), s[i] # Space, Blanks(s, i + 1, Len(s))
    PROVE  SelectLastInSeq(s, LAMBDA t : t # Space) = i
  <1> DEFINE I == {j \in 1 .. Len(s) : s[j] # Space}
  <1>1. I \subseteq Nat /\ i \in I /\ \A j \in I : j <= i
    <2>1. \A j \in i + 1 .. Len(s) : s[j] = Space
      BY DEF Blanks
    <2>2. ASSUME NEW j \in I PROVE j <= i
      <3>1. j \in 1 .. Len(s) /\ j \notin i + 1 .. Len(s)
        BY <2>1
      <3> QED
        BY <3>1
    <2> QED
      BY <2>2
  <1>2. Max(I) = i /\ I # {}
    BY <1>1, MaxIs
  <1> HIDE DEF I
  <1>3. SelectLastInSeq(s, LAMBDA t : t # Space) = IF I # {} THEN Max(I) ELSE 0
    BY DEF SelectLastInSeq, I
  <1> QED
    BY <1>2, <1>3

LEMMA NoSolid ==
    ASSUME NEW s \in Seq(STRING), Blanks(s, 1, Len(s))
    PROVE  SelectInSeq(s, LAMBDA t : t # Space) = 0
  <1> DEFINE I == {j \in 1 .. Len(s) : s[j] # Space}
  <1>1. I = {}
    BY DEF Blanks
  <1> HIDE DEF I
  <1>2. SelectInSeq(s, LAMBDA t : t # Space) = IF I # {} THEN Min(I) ELSE 0
    BY DEF SelectInSeq, I
  <1> QED
    BY <1>1, <1>2

\* A part of s, and a part of that.
LEMMA Part ==
    ASSUME NEW s \in Seq(STRING), NEW a \in Nat \ {0}, NEW b \in Nat, a <= b + 1, b <= Len(s)
    PROVE  /\ SubSeq(s, a, b) \in Seq(STRING)
           /\ Len(SubSeq(s, a, b)) = b - a + 1
           /\ \A i \in 1 .. b - a + 1 : SubSeq(s, a, b)[i] = s[a + i - 1]
  <1>1. \A i \in a .. b : s[i] \in STRING
    BY ElementOfSeq
  <1>2. /\ SubSeq(s, a, b) \in Seq(STRING)
        /\ Len(SubSeq(s, a, b)) = IF a <= b THEN b - a + 1 ELSE 0
        /\ \A i \in 1 .. b - a + 1 : SubSeq(s, a, b)[i] = s[a + i - 1]
    BY <1>1, SubSeqProperties
  <1> QED
    BY <1>2

LEMMA PartOfPart ==
    ASSUME NEW s \in Seq(STRING), NEW a \in Nat \ {0}, NEW b \in Nat, a <= b + 1, b <= Len(s),
           NEW p \in Nat \ {0}, NEW q \in Nat, p <= q + 1, q <= b - a + 1
    PROVE  SubSeq(SubSeq(s, a, b), p, q) = SubSeq(s, a + p - 1, a + q - 1)
  <1>1. CASE p <= q
    <2>1. /\ a \in 1 .. Len(s) /\ b \in 1 .. Len(s)
          /\ p \in 1 .. b - a + 1 /\ q \in 1 .. b - a + 1
      BY <1>1
    <2> QED
      BY <2>1, SubSeqOfSubSeq
  <1>2. CASE p = q + 1
    <2>1. SubSeq(SubSeq(s, a, b), p, q) = <<>>
      BY <1>2, SubSeqEmpty
    <2>2. SubSeq(s, a + p - 1, a + q - 1) = <<>>
      BY <1>2, SubSeqEmpty
    <2> QED
      BY <2>1, <2>2
  <1> QED
    BY <1>1, <1>2

LEMMA LeastNat ==
    ASSUME NEW S, S \subseteq Nat, S # {}
    PROVE  \E n \in S : \A m \in S : n <= m
  <1>1. IsWellFoundedOn(OpToRel(<, Nat), Nat)
    BY NatLessThanWellFounded
  <1>2. PICK n \in S : \A m \in S : <<m, n>> \notin OpToRel(<, Nat)
    BY <1>1, WFMin, Zenon
  <1>3. \A m \in S : ~(m < n)
    BY <1>2 DEF OpToRel
  <1> QED
    BY <1>3

\* The last token from a to b that is no blank.
LEMMA LastIn ==
    ASSUME NEW s, NEW a \in Nat, NEW b \in Nat, a <= b, s[a] # Space
    PROVE  \E r \in a .. b : s[r] # Space /\ Blanks(s, r + 1, b)
  <1> DEFINE D == {d \in 0 .. b - a : s[b - d] # Space}
  <1>1. D \subseteq Nat /\ b - a \in D
    <2>1. b - a \in 0 .. b - a /\ b - (b - a) = a
      OBVIOUS
    <2> QED
      BY <2>1
  <1>2. PICK d \in D : \A m \in D : d <= m
    BY <1>1, LeastNat
  <1>3. PICK r \in a .. b : r = b - d
    BY <1>2
  <1>4. Blanks(s, r + 1, b)
    <2> SUFFICES ASSUME NEW j \in r + 1 .. b, s[j] # Space PROVE FALSE
      BY DEF Blanks
    <2>1. PICK m : m = b - j
      OBVIOUS
    <2>2. m \in 0 .. b - a /\ b - m = j /\ ~(d <= m)
      BY <1>3, <2>1
    <2>3. m \in D
      BY <2>2
    <2> QED
      BY <1>2, <2>2, <2>3
  <1>5. s[r] # Space
    BY <1>2, <1>3
  <1> QED
    BY <1>4, <1>5

LEMMA LastOf ==
    ASSUME NEW s \in Seq(STRING), NEW a \in 1 .. Len(s), s[a] # Space
    PROVE  \E b \in 1 .. Len(s) : a <= b /\ s[b] # Space /\ Blanks(s, b + 1, Len(s))
  <1>1. Len(s) \in Nat /\ a \in Nat /\ a <= Len(s)
    BY LenProperties
  <1>2. PICK r \in a .. Len(s) : s[r] # Space /\ Blanks(s, r + 1, Len(s))
    BY <1>1, LastIn
  <1> QED
    BY <1>1, <1>2

LEMMA TrimIs ==
    ASSUME NEW s \in Seq(STRING), NEW p \in 1 .. Len(s), NEW q \in 1 .. Len(s),
           s[p] # Space, s[q] # Space, Blanks(s, 1, p - 1), Blanks(s, q + 1, Len(s))
    PROVE  Trim(s) = SubSeq(s, p, q)
  <1>1. SelectInSeq(s, LAMBDA t : t # Space) = p
    BY FirstSolid
  <1>2. SelectLastInSeq(s, LAMBDA t : t # Space) = q
    BY LastSolid
  <1>3. p # 0
    OBVIOUS
  <1> QED
    BY <1>1, <1>2, <1>3 DEF Trim

LEMMA TrimBlank ==
    ASSUME NEW s \in Seq(STRING), Blanks(s, 1, Len(s))
    PROVE  Trim(s) = <<>>
  BY NoSolid DEF Trim

LEMMA TrimPart ==
    ASSUME NEW s \in Seq(STRING), NEW a \in 1 .. Len(s), NEW b \in 1 .. Len(s),
           NEW p \in a .. b, NEW q \in a .. b,
           s[p] # Space, s[q] # Space, Blanks(s, a, p - 1), Blanks(s, q + 1, b)
    PROVE  Trim(SubSeq(s, a, b)) = SubSeq(s, p, q)
  <1>0. PICK x : x = SubSeq(s, a, b)
    OBVIOUS
  <1>a. a \in Nat \ {0} /\ b \in Nat /\ a <= b + 1 /\ b <= Len(s)
    BY LenProperties
  <1>1. x \in Seq(STRING) /\ Len(x) = b - a + 1 /\ \A i \in 1 .. b - a + 1 : x[i] = s[a + i - 1]
    BY <1>0, <1>a, Part
  <1>2. PICK u \in 1 .. Len(x), v \in 1 .. Len(x) : u = p - a + 1 /\ v = q - a + 1
    BY <1>1
  <1>3. x[u] # Space /\ x[v] # Space
    <2>1. x[u] = s[a + u - 1] /\ x[v] = s[a + v - 1]
      BY <1>1, <1>2
    <2>2. a + u - 1 = p /\ a + v - 1 = q
      BY <1>2
    <2> QED
      BY <2>1, <2>2
  <1>4. Blanks(x, 1, u - 1)
    <2> SUFFICES ASSUME NEW i \in 1 .. u - 1 PROVE x[i] = Space
      BY DEF Blanks
    <2>1. x[i] = s[a + i - 1] /\ a + i - 1 \in a .. p - 1
      BY <1>1, <1>2
    <2> QED
      BY <2>1 DEF Blanks
  <1>5. Blanks(x, v + 1, Len(x))
    <2> SUFFICES ASSUME NEW i \in v + 1 .. Len(x) PROVE x[i] = Space
      BY DEF Blanks
    <2>1. x[i] = s[a + i - 1] /\ a + i - 1 \in q + 1 .. b
      BY <1>1, <1>2
    <2> QED
      BY <2>1 DEF Blanks
  <1>6. Trim(x) = SubSeq(x, u, v)
    BY <1>1, <1>3, <1>4, <1>5, TrimIs
  <1>7. CASE u <= v + 1
    <2>1. SubSeq(x, u, v) = SubSeq(s, a + u - 1, a + v - 1)
      BY <1>0, <1>1, <1>2, <1>7, <1>a, PartOfPart
    <2>2. a + u - 1 = p /\ a + v - 1 = q
      BY <1>2
    <2> QED
      BY <1>0, <1>6, <2>1, <2>2
  <1>8. CASE ~(u <= v + 1)
    <2>1. SubSeq(x, u, v) = <<>>
      BY <1>8, SubSeqEmpty
    <2>2. SubSeq(s, p, q) = <<>>
      BY <1>8, <1>2, SubSeqEmpty
    <2> QED
      BY <1>0, <1>6, <2>1, <2>2
  <1> QED
    BY <1>7, <1>8

LEMMA TrimBlankPart ==
    ASSUME NEW s \in Seq(STRING), NEW a \in Nat \ {0}, NEW b \in Nat, a <= b + 1, b <= Len(s),
           Blanks(s, a, b)
    PROVE  Trim(SubSeq(s, a, b)) = <<>>
  <1>0. PICK x : x = SubSeq(s, a, b)
    OBVIOUS
  <1>1. x \in Seq(STRING) /\ Len(x) = b - a + 1 /\ \A i \in 1 .. b - a + 1 : x[i] = s[a + i - 1]
    BY <1>0, Part
  <1>2. Blanks(x, 1, Len(x))
    <2> SUFFICES ASSUME NEW i \in 1 .. Len(x) PROVE x[i] = Space
      BY DEF Blanks
    <2>1. x[i] = s[a + i - 1] /\ a + i - 1 \in a .. b
      BY <1>1
    <2> QED
      BY <2>1 DEF Blanks
  <1> QED
    BY <1>0, <1>1, <1>2, TrimBlank

\* Trim finds what stands between blanks.
LEMMA TrimStands ==
    ASSUME NEW s \in Seq(STRING), NEW n \in Seq(STRING), Trimmed(n),
           NEW a \in Nat, NEW b \in Nat, a < b, b <= Len(s) + 1, Stands(n, s, a, b)
    PROVE  Trim(SubSeq(s, a + 1, b - 1)) = n
  <1>l. Len(n) \in Nat /\ Len(s) \in Nat
    BY LenProperties
  <1>1. PICK i \in a + 1 .. b - Len(n) :
           /\ SubSeq(s, i, i + Len(n) - 1) = n
           /\ Blanks(s, a + 1, i - 1) /\ Blanks(s, i + Len(n), b - 1)
    BY DEF Stands
  <1>2. CASE n = <<>>
    <2>1. Len(n) = 0
      BY <1>2
    <2>2. Blanks(s, a + 1, b - 1)
      <3> SUFFICES ASSUME NEW j \in a + 1 .. b - 1 PROVE s[j] = Space
        BY DEF Blanks
      <3>1. j \in a + 1 .. i - 1 \/ j \in i + Len(n) .. b - 1
        BY <2>1
      <3> QED
        BY <3>1, <1>1 DEF Blanks
    <2>3. a + 1 \in Nat \ {0} /\ b - 1 \in Nat /\ a + 1 <= (b - 1) + 1 /\ b - 1 <= Len(s)
      BY <1>l
    <2> QED
      BY <1>2, <2>2, <2>3, TrimBlankPart
  <1>3. CASE n # <<>>
    <2>1. Len(n) >= 1
      BY <1>3, <1>l, EmptySeq
    <2>2. PICK q : q = i + Len(n) - 1
      OBVIOUS
    <2>3. /\ a + 1 \in 1 .. Len(s) /\ b - 1 \in 1 .. Len(s)
          /\ i \in a + 1 .. b - 1 /\ q \in a + 1 .. b - 1 /\ i <= q /\ i \in Nat \ {0} /\ q \in Nat
          /\ q <= Len(s) /\ i <= q + 1
      BY <2>1, <2>2, <1>l
    <2>4. n[1] # Space /\ n[Len(n)] # Space
      BY <1>3 DEF Trimmed
    <2>5. \A j \in 1 .. q - i + 1 : n[j] = s[i + j - 1]
      <3>1. SubSeq(s, i, q) = n
        BY <1>1, <2>2
      <3>2. \A j \in 1 .. q - i + 1 : SubSeq(s, i, q)[j] = s[i + j - 1]
        BY <2>3, Part
      <3> QED
        BY <3>1, <3>2
    <2>6. n[1] = s[i] /\ n[Len(n)] = s[q]
      <3>1. 1 \in 1 .. q - i + 1 /\ Len(n) \in 1 .. q - i + 1 /\ i + 1 - 1 = i /\ i + Len(n) - 1 = q
        BY <2>1, <2>2, <1>l
      <3> QED
        BY <3>1, <2>5
    <2>7. Blanks(s, q + 1, b - 1)
      <3>1. q + 1 = i + Len(n)
        BY <2>2, <1>l
      <3> QED
        BY <3>1, <1>1
    <2>8. Trim(SubSeq(s, a + 1, b - 1)) = SubSeq(s, i, q)
      BY <2>3, <2>4, <2>6, <2>7, <1>1, TrimPart
    <2> QED
      BY <2>8, <1>1, <2>2
  <1> QED
    BY <1>2, <1>3

LEMMA BeforeMark ==
    ASSUME NEW s \in Seq(STRING), NEW marks, NEW i \in 1 .. Len(s), s[i] \in marks,
           \A j \in 1 .. i - 1 : s[j] \notin marks
    PROVE  Before(s, marks) = SubSeq(s, 1, i - 1)
  <1> DEFINE I == {j \in 1 .. Len(s) : s[j] \in marks}
  <1>1. I \subseteq Nat /\ i \in I /\ \A j \in I : i <= j
    <2>1. ASSUME NEW j \in I PROVE i <= j
      <3>1. j \in 1 .. Len(s) /\ j \notin 1 .. i - 1
        OBVIOUS
      <3> QED
        BY <3>1
    <2> QED
      BY <2>1
  <1>i. i # 0
    OBVIOUS
  <1> HIDE DEF I
  <1>2. Min(I) = i /\ I # {} /\ i # 0
    BY <1>1, <1>i, MinIs
  <1>3. SelectInSeq(s, LAMBDA t : t \in marks) = IF I # {} THEN Min(I) ELSE 0
    BY DEF SelectInSeq, I
  <1> QED
    BY <1>2, <1>3 DEF Before

LEMMA BeforeNone ==
    ASSUME NEW s \in Seq(STRING), NEW marks, \A j \in 1 .. Len(s) : s[j] \notin marks
    PROVE  Before(s, marks) = s
  <1> DEFINE I == {j \in 1 .. Len(s) : s[j] \in marks}
  <1>1. I = {}
    OBVIOUS
  <1> HIDE DEF I
  <1>2. SelectInSeq(s, LAMBDA t : t \in marks) = IF I # {} THEN Min(I) ELSE 0
    BY DEF SelectInSeq, I
  <1> QED
    BY <1>1, <1>2 DEF Before

\* No mark from a to h.
Free(s, marks, a, h) == \A j \in a .. h : s[j] \notin marks

\* In the part of s from a to b the first mark, if any, comes after h.
LEMMA BeforePart ==
    ASSUME NEW s \in Seq(STRING), NEW marks, NEW a \in Nat, a >= 1, NEW b \in Nat, b <= Len(s),
           NEW h \in Nat, a <= h + 1, h <= b,
           Free(s, marks, a, h),
           h < b => s[h + 1] \in marks
    PROVE  Before(SubSeq(s, a, b), marks) = SubSeq(s, a, h)
  <1>0. PICK x : x = SubSeq(s, a, b)
    OBVIOUS
  <1>a. a <= b + 1 /\ a \in Nat \ {0}
    OBVIOUS
  <1>1. x \in Seq(STRING) /\ Len(x) = b - a + 1 /\ \A j \in 1 .. b - a + 1 : x[j] = s[a + j - 1]
    BY <1>0, <1>a, Part
  <1>2. CASE h < b
    <2>1. PICK u \in 1 .. Len(x) : u = h - a + 2
      BY <1>1, <1>2
    <2>2. x[u] = s[a + u - 1] /\ a + u - 1 = h + 1
      BY <1>1, <2>1
    <2>3. ASSUME NEW j \in 1 .. u - 1 PROVE x[j] \notin marks
      <3>1. j \in 1 .. b - a + 1 /\ a + j - 1 \in a .. h
        BY <1>2, <2>1
      <3>2. x[j] = s[a + j - 1]
        BY <1>1, <3>1
      <3> QED
        BY <3>1, <3>2 DEF Free
    <2>4. Before(x, marks) = SubSeq(x, 1, u - 1)
      BY <1>1, <1>2, <2>2, <2>3, BeforeMark
    <2>5. PICK f \in Nat \ {0}, q \in Nat : f = 1 /\ q = u - 1
      BY <1>1, <2>1
    <2>6. f <= q + 1 /\ q <= b - a + 1
      BY <1>1, <2>1, <2>5
    <2>7. SubSeq(SubSeq(s, a, b), f, q) = SubSeq(s, a + f - 1, a + q - 1)
      BY <1>a, <2>6, PartOfPart
    <2>8. a + f - 1 = a /\ a + q - 1 = h
      BY <2>1, <2>5
    <2> QED
      BY <1>0, <2>4, <2>5, <2>7, <2>8
  <1>3. CASE h = b
    <2>1. ASSUME NEW j \in 1 .. Len(x) PROVE x[j] \notin marks
      <3>1. x[j] = s[a + j - 1] /\ a + j - 1 \in a .. h
        BY <1>1, <1>3
      <3> QED
        BY <3>1 DEF Free
    <2>2. Before(x, marks) = x
      BY <1>1, <2>1, BeforeNone
    <2> QED
      BY <1>0, <1>3, <2>2
  <1> QED
    BY <1>2, <1>3

LEMMA BeforeDelimiter ==
    ASSUME NEW s \in Seq(STRING), NEW a \in Nat, a >= 1, NEW b \in Nat, b <= Len(s),
           NEW h \in Nat, a <= h + 1, h <= b, Free(s, {"="}, a, h), h < b => s[h + 1] = "="
    PROVE  Before(SubSeq(s, a, b), {"="}) = SubSeq(s, a, h)
  <1>1. PICK marks : marks = {"="}
    OBVIOUS
  <1>2. Free(s, marks, a, h)
    BY <1>1
  <1>3. h < b => s[h + 1] \in marks
    BY <1>1
  <1>4. Before(SubSeq(s, a, b), marks) = SubSeq(s, a, h)
    BY <1>2, <1>3, BeforePart, Zenon
  <1> QED
    BY <1>1, <1>4

\* A text that does not begin with a delimiter is a component from its start.
LEMMA FromSelf ==
    ASSUME NEW s \in Seq(STRING), s # <<>>, s[1] # "="
    PROVE  FromComponent(s) = s
  <1> DEFINE I == {j \in 1 .. Len(s) : s[j] # "="}
  <1>1. I \subseteq Nat /\ 1 \in I /\ \A j \in I : 1 <= j
    BY EmptySeq
  <1>2. Min(I) = 1 /\ I # {}
    BY <1>1, MinIs
  <1> HIDE DEF I
  <1>3. SelectInSeq(s, LAMBDA t : t # "=") = IF I # {} THEN Min(I) ELSE 0
    BY DEF SelectInSeq, I
  <1>4. SubSeq(s, 1, Len(s)) = s
    BY SubSeqFull
  <1> QED
    BY <1>2, <1>3, <1>4 DEF FromComponent

LEMMA FromSecond ==
    ASSUME NEW s \in Seq(STRING), Len(s) >= 2, s[1] = "=", s[2] # "="
    PROVE  FromComponent(s) = SubSeq(s, 2, Len(s))
  <1> DEFINE I == {j \in 1 .. Len(s) : s[j] # "="}
  <1>1. I \subseteq Nat /\ 2 \in I /\ \A j \in I : 2 <= j
    BY EmptySeq
  <1>2. Min(I) = 2 /\ I # {}
    BY <1>1, MinIs
  <1> HIDE DEF I
  <1>3. SelectInSeq(s, LAMBDA t : t # "=") = IF I # {} THEN Min(I) ELSE 0
    BY DEF SelectInSeq, I
  <1> QED
    BY <1>2, <1>3 DEF FromComponent

LEMMA FromNone ==
    ASSUME NEW s \in Seq(STRING), Len(s) <= 1, s # <<>> => s[1] = "="
    PROVE  FromComponent(s) = <<>>
  <1> DEFINE I == {j \in 1 .. Len(s) : s[j] # "="}
  <1>1. I = {}
    BY EmptySeq
  <1> HIDE DEF I
  <1>2. SelectInSeq(s, LAMBDA t : t # "=") = IF I # {} THEN Min(I) ELSE 0
    BY DEF SelectInSeq, I
  <1> QED
    BY <1>1, <1>2 DEF FromComponent

LEMMA SkippedLine ==
    ASSUME NEW s \in Seq(STRING),
           \/ Blanks(s, 1, Len(s))
           \/ \E a \in DOMAIN s : Blanks(s, 1, a - 1) /\ s[a] \in CommentMark
    PROVE  IsSkipped(Trim(s))
  <1>1. CASE Blanks(s, 1, Len(s))
    BY <1>1, TrimBlank DEF IsSkipped
  <1>2. ASSUME NEW a \in DOMAIN s, Blanks(s, 1, a - 1), s[a] \in CommentMark
        PROVE  IsSkipped(Trim(s))
    <2>1. a \in 1 .. Len(s) /\ s[a] # Space
      BY <1>2, Tokens, LenProperties
    <2>2. PICK b \in 1 .. Len(s) : a <= b /\ s[b] # Space /\ Blanks(s, b + 1, Len(s))
      BY <2>1, LastOf
    <2>3. Trim(s) = SubSeq(s, a, b)
      BY <1>2, <2>1, <2>2, TrimIs
    <2>4. SubSeq(s, a, b)[1] = s[a]
      <3>1. /\ a \in Nat \ {0} /\ b \in Nat /\ a <= b + 1 /\ b <= Len(s)
            /\ 1 \in 1 .. b - a + 1 /\ a + 1 - 1 = a
        BY <2>1, <2>2, LenProperties
      <3>2. \A i \in 1 .. b - a + 1 : SubSeq(s, a, b)[i] = s[a + i - 1]
        BY <3>1, Part
      <3> QED
        BY <3>1, <3>2
    <2> QED
      BY <1>2, <2>3, <2>4 DEF IsSkipped
  <1> QED
    BY <1>1, <1>2

\* Without its first and its last token.
LEMMA WithoutEnds ==
    ASSUME NEW s \in Seq(STRING), NEW a \in Nat \ {0}, NEW b \in Nat, a < b, b <= Len(s)
    PROVE  SubSeq(SubSeq(s, a, b), 2, b - a) = SubSeq(s, a + 1, b - 1)
  <1>1. PICK f \in Nat \ {0}, q \in Nat : f = 2 /\ q = b - a
    OBVIOUS
  <1>2. a <= b + 1 /\ f <= q + 1 /\ q <= b - a + 1
    BY <1>1
  <1>3. SubSeq(SubSeq(s, a, b), f, q) = SubSeq(s, a + f - 1, a + q - 1)
    BY <1>2, PartOfPart
  <1>4. a + f - 1 = a + 1 /\ a + q - 1 = b - 1
    BY <1>1
  <1> QED
    BY <1>1, <1>3, <1>4

LEMMA HeaderLine ==
    ASSUME NEW s \in Seq(STRING), NEW n \in Seq(STRING), Trimmed(n), IsHeaderLine(s, n)
    PROVE  /\ ~IsSkipped(Trim(s))
           /\ IsSection(Trim(s))
           /\ SectionOf(Trim(s)) = n
  <1>1. PICK a \in DOMAIN s, b \in DOMAIN s :
           /\ Blanks(s, 1, a - 1) /\ s[a] = "[" /\ s[b] = "]" /\ Blanks(s, b + 1, Len(s))
           /\ a < b /\ Stands(n, s, a, b)
    BY DEF IsHeaderLine
  <1>2. a \in 1 .. Len(s) /\ b \in 1 .. Len(s) /\ Len(s) \in Nat
    BY LenProperties
  <1>3. s[a] # Space /\ s[b] # Space /\ s[a] \notin CommentMark
    BY <1>1, Tokens
  <1>4. Trim(s) = SubSeq(s, a, b)
    BY <1>1, <1>2, <1>3, TrimIs
  <1>5. PICK x : x = SubSeq(s, a, b)
    OBVIOUS
  <1>6. /\ a \in Nat \ {0} /\ b \in Nat /\ a <= b + 1 /\ b <= Len(s)
        /\ 1 \in 1 .. b - a + 1 /\ a + 1 - 1 = a
    BY <1>1, <1>2
  <1>7. x \in Seq(STRING) /\ Len(x) = b - a + 1 /\ \A i \in 1 .. b - a + 1 : x[i] = s[a + i - 1]
    BY <1>5, <1>6, Part
  <1>8. x # <<>> /\ x[1] = s[a]
    BY <1>6, <1>7, EmptySeq
  <1>9. SubSeq(x, 2, Len(x) - 1) = SubSeq(s, a + 1, b - 1)
    <2>1. SubSeq(SubSeq(s, a, b), 2, b - a) = SubSeq(s, a + 1, b - 1)
      BY <1>1, <1>6, WithoutEnds
    <2>2. Len(x) - 1 = b - a
      BY <1>2, <1>7
    <2> QED
      BY <1>5, <2>1, <2>2
  <1>10. Trim(SubSeq(s, a + 1, b - 1)) = n
    <2>1. a \in Nat /\ b \in Nat /\ a < b /\ b <= Len(s) + 1
      BY <1>1, <1>2
    <2> QED
      BY <1>1, <2>1, TrimStands
  <1> QED
    BY <1>1, <1>3, <1>4, <1>5, <1>8, <1>9, <1>10 DEF IsSkipped, IsSection, SectionOf

LEMMA TrimSelf ==
    ASSUME NEW s \in Seq(STRING), Trimmed(s)
    PROVE  Trim(s) = s
  <1>l. Len(s) \in Nat
    BY LenProperties
  <1>1. CASE s = <<>>
    <2>1. Blanks(s, 1, Len(s))
      BY <1>1, EmptySeq DEF Blanks
    <2> QED
      BY <1>1, <2>1, TrimBlank
  <1>2. CASE s # <<>>
    <2>1. 1 \in 1 .. Len(s) /\ Len(s) \in 1 .. Len(s) /\ s[1] # Space /\ s[Len(s)] # Space
      BY <1>2, <1>l, EmptySeq DEF Trimmed
    <2>2. Blanks(s, 1, 1 - 1) /\ Blanks(s, Len(s) + 1, Len(s))
      BY <1>l DEF Blanks
    <2>3. Trim(s) = SubSeq(s, 1, Len(s))
      BY <2>1, <2>2, TrimIs
    <2> QED
      BY <2>3, SubSeqFull
  <1> QED
    BY <1>1, <1>2

\* Where a name or a value that is not empty stands: from p to q.
StandsFrom(n, s, a, b, p, q) ==
    /\ p <= q /\ SubSeq(s, p, q) = n
    /\ s[p] # Space /\ s[q] # Space /\ s[p] = n[1]
    /\ Blanks(s, a + 1, p - 1) /\ Blanks(s, q + 1, b - 1)
    /\ \A j \in p .. q : \E i \in DOMAIN n : s[j] = n[i]

LEMMA StandsAt ==
    ASSUME NEW s \in Seq(STRING), NEW n \in Seq(STRING), n # <<>>, Trimmed(n),
           NEW a \in Nat, NEW b \in Nat, b <= Len(s) + 1, Stands(n, s, a, b)
    PROVE  \E p \in a + 1 .. b - 1, q \in a + 1 .. b - 1 : StandsFrom(n, s, a, b, p, q)
  <1>l. Len(n) \in Nat /\ Len(s) \in Nat /\ Len(n) >= 1 /\ DOMAIN n = 1 .. Len(n)
    BY LenProperties, EmptySeq
  <1>1. PICK p \in a + 1 .. b - Len(n) :
           /\ SubSeq(s, p, p + Len(n) - 1) = n
           /\ Blanks(s, a + 1, p - 1) /\ Blanks(s, p + Len(n), b - 1)
    BY DEF Stands
  <1>2. PICK q \in Nat : q = p + Len(n) - 1
    BY <1>l
  <1>3. p \in a + 1 .. b - 1 /\ q \in a + 1 .. b - 1 /\ p <= q
    BY <1>2, <1>l
  <1>4. SubSeq(s, p, q) = n
    BY <1>1, <1>2
  <1>5. \A j \in 1 .. q - p + 1 : n[j] = s[p + j - 1]
    <2>1. p \in Nat \ {0} /\ p <= q + 1 /\ q <= Len(s)
      BY <1>3, <1>l
    <2>2. \A j \in 1 .. q - p + 1 : SubSeq(s, p, q)[j] = s[p + j - 1]
      BY <2>1, Part
    <2> QED
      BY <1>4, <2>2
  <1>6. n[1] = s[p] /\ n[Len(n)] = s[q]
    <2>1. 1 \in 1 .. q - p + 1 /\ Len(n) \in 1 .. q - p + 1 /\ p + 1 - 1 = p /\ p + Len(n) - 1 = q
      BY <1>2, <1>l
    <2> QED
      BY <2>1, <1>5
  <1>7. s[p] # Space /\ s[q] # Space
    BY <1>6 DEF Trimmed
  <1>8. Blanks(s, q + 1, b - 1)
    <2>1. q + 1 = p + Len(n)
      BY <1>2, <1>l
    <2> QED
      BY <2>1, <1>1
  <1>9. ASSUME NEW j \in p .. q PROVE \E i \in DOMAIN n : s[j] = n[i]
    <2>1. PICK i \in 1 .. q - p + 1 : i = j - p + 1
      BY <1>3
    <2>2. p + i - 1 = j /\ i \in DOMAIN n
      BY <2>1, <1>2, <1>l
    <2> QED
      BY <2>2, <1>5
  <1>10. StandsFrom(n, s, a, b, p, q)
    BY <1>1, <1>3, <1>4, <1>6, <1>7, <1>8, <1>9 DEF StandsFrom
  <1> QED
    BY <1>3, <1>10

\* An empty value stands between blanks only.
LEMMA StandsEmpty ==
    ASSUME NEW s, NEW a \in Nat, NEW b \in Nat, Stands(<<>>, s, a, b)
    PROVE  Blanks(s, a + 1, b - 1)
  <1>1. PICK n : n = <<>>
    OBVIOUS
  <1>2. Len(n) = 0
    BY <1>1, EmptySeq
  <1>3. PICK i \in a + 1 .. b - Len(n) : Blanks(s, a + 1, i - 1) /\ Blanks(s, i + Len(n), b - 1)
    BY <1>1 DEF Stands
  <1> SUFFICES ASSUME NEW j \in a + 1 .. b - 1 PROVE s[j] = Space
    BY DEF Blanks
  <1>4. j \in a + 1 .. i - 1 \/ j \in i + Len(n) .. b - 1
    BY <1>2
  <1> QED
    BY <1>3, <1>4 DEF Blanks

LEMMA StandsBare ==
    ASSUME NEW s \in Seq(STRING), NEW n \in Seq(STRING), Bare(n),
           NEW a \in Nat, NEW b \in Nat, b <= Len(s) + 1, Stands(n, s, a, b),
           NEW j \in a + 1 .. b - 1
    PROVE  s[j] \notin CommentMark /\ s[j] # "="
  <1>t. Space \notin CommentMark /\ Space # "="
    BY Tokens
  <1>1. CASE n = <<>>
    <2>1. s[j] = Space
      BY <1>1, StandsEmpty DEF Blanks
    <2> QED
      BY <1>t, <2>1
  <1>2. CASE n # <<>>
    <2>t. Trimmed(n)
      BY Zenon DEF Bare
    <2>0. PICK p \in a + 1 .. b - 1, q \in a + 1 .. b - 1 : StandsFrom(n, s, a, b, p, q)
      BY <1>2, <2>t, StandsAt
    <2>1. /\ Blanks(s, a + 1, p - 1) /\ Blanks(s, q + 1, b - 1)
          /\ \A x \in p .. q : \E i \in DOMAIN n : s[x] = n[i]
      BY <2>0 DEF StandsFrom
    <2>2. j \in a + 1 .. p - 1 \/ j \in p .. q \/ j \in q + 1 .. b - 1
      OBVIOUS
    <2>3. CASE j \in p .. q
      <3>1. PICK i \in DOMAIN n : s[j] = n[i]
        BY <2>1, <2>3
      <3>2. n[i] \notin CommentMark \cup {"="}
        BY Zenon DEF Bare
      <3>3. n[i] \notin CommentMark /\ n[i] # "="
        BY <3>2, Zenon
      <3> QED
        BY <3>1, <3>3
    <2>4. CASE j \notin p .. q
      <3>1. s[j] = Space
        BY <2>1, <2>2, <2>4 DEF Blanks
      <3> QED
        BY <1>t, <3>1
    <2> QED
      BY <2>3, <2>4
  <1> QED
    BY <1>1, <1>2

\* The value without its comment: the first delimiter after it, if any, is in the comment.
LEMMA CommentedValue ==
    ASSUME NEW s \in Seq(STRING), NEW v \in Seq(STRING), Bare(v),
           NEW e \in 1 .. Len(s), NEW c \in 1 .. Len(s), e < c, Stands(v, s, e, c), s[c] \in CommentMark,
           NEW d \in 1 .. Len(s) + 1, c < d
    PROVE  Trim(RemoveComment(Trim(SubSeq(s, e + 1, d - 1)))) = v
  <1>l. Len(s) \in Nat /\ Trimmed(v)
    BY LenProperties DEF Bare
  <1>t. s[c] # Space
    BY Tokens
  <1>1. \E p \in e + 1 .. c : s[p] # Space /\ Blanks(s, e + 1, p - 1) /\ Stands(v, s, p - 1, c)
    <2>1. CASE v = <<>>
      <3>1. Blanks(s, e + 1, c - 1)
        BY <2>1, StandsEmpty
      <3>2. Stands(v, s, c - 1, c)
        <4>1. Len(v) = 0
          BY <2>1, EmptySeq
        <4>2. c \in c - 1 + 1 .. c - Len(v) /\ c + Len(v) - 1 = c - 1
          BY <4>1
        <4>3. SubSeq(s, c, c + Len(v) - 1) = v
          BY <2>1, <4>2, SubSeqEmpty
        <4>4. Blanks(s, c - 1 + 1, c - 1) /\ Blanks(s, c + Len(v), c - 1)
          BY <4>1 DEF Blanks
        <4> QED
          BY <4>2, <4>3, <4>4 DEF Stands
      <3> QED
        BY <1>t, <3>1, <3>2
    <2>2. CASE v # <<>>
      <3>1. PICK p \in e + 1 .. c - 1, q \in e + 1 .. c - 1 : StandsFrom(v, s, e, c, p, q)
        BY <2>2, <1>l, StandsAt
      <3>2. s[p] # Space /\ Blanks(s, e + 1, p - 1) /\ SubSeq(s, p, q) = v /\ Blanks(s, q + 1, c - 1)
        BY <3>1 DEF StandsFrom
      <3>3. Stands(v, s, p - 1, c)
        <4>1. p <= q /\ p \in Nat \ {0} /\ q \in Nat /\ p <= q + 1 /\ q <= Len(s)
          BY <3>1 DEF StandsFrom
        <4>2. Len(v) = q - p + 1
          BY <3>2, <4>1, Part
        <4>3. /\ p \in p - 1 + 1 .. c - Len(v) /\ p + Len(v) - 1 = q
              /\ p + Len(v) = q + 1 /\ p - 1 + 1 = p
          BY <4>1, <4>2
        <4>4. Blanks(s, p - 1 + 1, p - 1)
          BY <4>3 DEF Blanks
        <4> QED
          BY <3>2, <4>3, <4>4 DEF Stands
      <3> QED
        BY <3>2, <3>3
    <2> QED
      BY <2>1, <2>2
  <1>2. PICK p \in e + 1 .. c : s[p] # Space /\ Blanks(s, e + 1, p - 1) /\ Stands(v, s, p - 1, c)
    BY <1>1
  <1>3. PICK r \in c .. d - 1 : s[r] # Space /\ Blanks(s, r + 1, d - 1)
    <2>1. c \in Nat /\ d - 1 \in Nat /\ c <= d - 1
      BY <1>l
    <2> QED
      BY <2>1, <1>t, LastIn
  <1>4. Trim(SubSeq(s, e + 1, d - 1)) = SubSeq(s, p, r)
    <2>1. /\ e + 1 \in 1 .. Len(s) /\ d - 1 \in 1 .. Len(s)
          /\ p \in e + 1 .. d - 1 /\ r \in e + 1 .. d - 1
      BY <1>l
    <2> QED
      BY <2>1, <1>2, <1>3, TrimPart
  <1>5. RemoveComment(SubSeq(s, p, r)) = SubSeq(s, p, c - 1)
    <2>1. /\ p \in Nat /\ p >= 1 /\ r \in Nat /\ p <= r + 1 /\ r <= Len(s) /\ c \in p .. r + 1
      BY <1>l
    <2>2. ASSUME NEW j \in p .. c - 1 PROVE s[j] \notin CommentMark
      <3>1. e \in Nat /\ c \in Nat /\ c <= Len(s) + 1 /\ j \in e + 1 .. c - 1
        BY <1>l
      <3> QED
        BY <3>1, StandsBare
    <2>3. PICK h \in Nat : h = c - 1
      BY <1>l
    <2>4. p <= h + 1 /\ h <= r /\ h + 1 = c
      BY <2>1, <2>3
    <2>c. Free(s, CommentMark, p, h)
      BY <2>2, <2>3 DEF Free
    <2>5. Before(SubSeq(s, p, r), CommentMark) = SubSeq(s, p, h)
      <3>1. h < r => s[h + 1] \in CommentMark
        BY <2>4
      <3> QED
        BY <2>1, <2>c, <2>4, <3>1, BeforePart, Zenon
    <2> QED
      BY <2>3, <2>5 DEF RemoveComment
  <1>6. Trim(SubSeq(s, p, c - 1)) = v
    <2>1. p - 1 \in Nat /\ c \in Nat /\ p - 1 < c /\ c <= Len(s) + 1 /\ p - 1 + 1 = p
      BY <1>l
    <2>2. Trim(SubSeq(s, p - 1 + 1, c - 1)) = v
      BY <2>1, <1>l, <1>2, TrimStands
    <2> QED
      BY <2>1, <2>2
  <1> QED
    BY <1>4, <1>5, <1>6

LEMMA PlainValue ==
    ASSUME NEW v \in Seq(STRING), Bare(v)
    PROVE  Trim(RemoveComment(v)) = v
  <1>1. Trimmed(v)
    BY Zenon DEF Bare
  <1>2. ASSUME NEW j \in 1 .. Len(v) PROVE v[j] \notin CommentMark
    <2>1. j \in DOMAIN v
      BY LenProperties
    <2> QED
      BY <2>1 DEF Bare
  <1>3. Before(v, CommentMark) = v
    BY <1>2, BeforeNone
  <1> QED
    BY <1>1, <1>3, TrimSelf DEF RemoveComment

LEMMA NothingAfter ==
    Before(FromComponent(<<>>), {"="}) = <<>> /\ Trim(<<>>) = <<>> /\ RemoveComment(<<>>) = <<>>
  <1>1. PICK n \in Seq(STRING) : n = <<>>
    BY EmptySeq
  <1>2. Len(n) = 0
    BY <1>1, EmptySeq
  <1>3. FromComponent(n) = <<>>
    <2>1. Len(n) <= 1 /\ (n # <<>> => n[1] = "=")
      BY <1>1, <1>2
    <2> QED
      BY <2>1, FromNone
  <1>4. \A marks : Before(n, marks) = n
    <2> TAKE marks
    <2>1. \A j \in 1 .. Len(n) : n[j] \notin marks
      BY <1>2
    <2> QED
      BY <2>1, BeforeNone
  <1>5. Blanks(n, 1, Len(n))
    BY <1>2 DEF Blanks
  <1>6. Trim(n) = <<>>
    BY <1>5, TrimBlank
  <1> QED
    BY <1>1, <1>3, <1>4, <1>6 DEF RemoveComment

\* From the delimiter to the last token that is no blank.
LEMMA AfterKey ==
    ASSUME NEW s \in Seq(STRING), NEW v \in Seq(STRING), Bare(v),
           NEW e \in 1 .. Len(s), NEW c \in 1 .. Len(s) + 1, s[e] = "=", e < c, Stands(v, s, e, c),
           c <= Len(s) => s[c] \in CommentMark,
           NEW l \in 1 .. Len(s), e <= l, s[l] # Space, Blanks(s, l + 1, Len(s))
    PROVE  Trim(RemoveComment(Trim(FirstComponent(FromComponent(SubSeq(s, e, l)))))) = v
  <1>l. Len(s) \in Nat /\ Trimmed(v) /\ DOMAIN s = 1 .. Len(s)
    BY LenProperties DEF Bare
  <1>t. /\ c <= Len(s) => s[c] # Space /\ s[c] # "="
        /\ \A j \in e + 1 .. c - 1 : s[j] \notin CommentMark /\ s[j] # "="
    <2>1. c <= Len(s) => s[c] # Space /\ s[c] # "="
      BY Tokens
    <2>2. e \in Nat /\ c \in Nat /\ c <= Len(s) + 1
      BY <1>l
    <2>3. ASSUME NEW j \in e + 1 .. c - 1 PROVE s[j] \notin CommentMark /\ s[j] # "="
      BY <2>2, StandsBare
    <2> QED
      BY <2>1, <2>3
  <1>w. PICK x : x = SubSeq(s, e, l)
    OBVIOUS
  <1>x. x \in Seq(STRING) /\ Len(x) = l - e + 1 /\ \A j \in 1 .. l - e + 1 : x[j] = s[e + j - 1]
    <2>1. e \in Nat \ {0} /\ l \in Nat /\ e <= l + 1 /\ l <= Len(s)
      BY <1>l
    <2> QED
      BY <1>w, <2>1, Part
  <1>y. x[1] = "="
    <2>1. 1 \in 1 .. l - e + 1 /\ e + 1 - 1 = e
      BY <1>l
    <2> QED
      BY <2>1, <1>x
  <1>c. c <= Len(s) => c <= l
    <2> SUFFICES ASSUME c <= Len(s), ~(c <= l) PROVE FALSE
      OBVIOUS
    <2>1. c \in l + 1 .. Len(s)
      BY <1>l
    <2> QED
      BY <2>1, <1>t DEF Blanks
  <1>1. CASE e = l
    <2>1. FromComponent(x) = <<>>
      <3>1. Len(x) <= 1
        BY <1>1, <1>x
      <3> QED
        BY <3>1, <1>x, <1>y, FromNone
    <2>2. v = <<>>
      <3> SUFFICES ASSUME v # <<>> PROVE FALSE
        OBVIOUS
      <3>1. e \in Nat /\ c \in Nat /\ c <= Len(s) + 1
        BY <1>l
      <3>2. PICK p \in e + 1 .. c - 1, q \in e + 1 .. c - 1 : StandsFrom(v, s, e, c, p, q)
        BY <1>l, <3>1, StandsAt
      <3>3. q \in l + 1 .. Len(s) /\ s[q] # Space
        BY <1>1, <3>1, <3>2 DEF StandsFrom
      <3> QED
        BY <3>3 DEF Blanks
    <2> QED
      BY <1>w, <2>1, <2>2, NothingAfter DEF FirstComponent
  <1>2. CASE e < l
    <2>1. PICK z : z = SubSeq(s, e + 1, l)
      OBVIOUS
    <2>2. z \in Seq(STRING) /\ Len(z) = l - e /\ \A j \in 1 .. l - e : z[j] = s[e + j]
      <3>1. PICK f \in Nat \ {0} : f = e + 1
        BY <1>l
      <3>2. l \in Nat /\ f <= l + 1 /\ l <= Len(s)
        BY <1>2, <3>1, <1>l
      <3>3. /\ SubSeq(s, f, l) \in Seq(STRING)
            /\ Len(SubSeq(s, f, l)) = l - f + 1
            /\ \A j \in 1 .. l - f + 1 : SubSeq(s, f, l)[j] = s[f + j - 1]
        BY <3>2, Part
      <3>4. l - f + 1 = l - e /\ \A j \in 1 .. l - e : f + j - 1 = e + j
        BY <3>1
      <3> QED
        BY <2>1, <3>1, <3>3, <3>4
    <2>3. s[e + 1] # "="
      <3>1. e + 1 \in e + 1 .. c - 1 \/ (e + 1 = c /\ c <= Len(s))
        BY <1>2, <1>l
      <3> QED
        BY <3>1, <1>t
    <2>4. z[1] # "=" /\ z # <<>>
      <3>1. 1 \in 1 .. l - e /\ Len(z) # 0
        BY <1>2, <2>2
      <3> QED
        BY <3>1, <2>2, <2>3, EmptySeq
    <2>5. FromComponent(x) = z
      <3>1. Len(x) >= 2 /\ x[2] = s[e + 1]
        <4>1. 2 \in 1 .. l - e + 1 /\ e + 2 - 1 = e + 1
          BY <1>2, <1>l
        <4> QED
          BY <4>1, <1>2, <1>x
      <3>2. FromComponent(x) = SubSeq(x, 2, Len(x))
        BY <3>1, <1>x, <1>y, <2>3, FromSecond
      <3>3. SubSeq(x, 2, l - e + 1) = SubSeq(s, e + 1, l)
        <4>1. PICK f \in Nat \ {0}, q \in Nat : f = 2 /\ q = l - e + 1
          BY <1>2
        <4>2. e \in Nat \ {0} /\ l \in Nat /\ e <= l + 1 /\ l <= Len(s) /\ f <= q + 1 /\ q <= l - e + 1
          BY <1>2, <1>l, <4>1
        <4>3. SubSeq(SubSeq(s, e, l), f, q) = SubSeq(s, e + f - 1, e + q - 1)
          BY <4>2, PartOfPart
        <4>4. e + f - 1 = e + 1 /\ e + q - 1 = l
          BY <4>1
        <4> QED
          BY <1>w, <4>1, <4>3, <4>4
      <3> QED
        BY <2>1, <3>2, <3>3, <1>x
    <2>6. PICK d \in e + 1 .. l + 1 :
             /\ d <= l => s[d] = "="
             /\ \A j \in e + 1 .. d - 1 : s[j] # "="
      <3> DEFINE D == {j \in e + 1 .. l + 1 : j <= l => s[j] = "="}
      <3>1. D \subseteq Nat /\ l + 1 \in D
        BY <1>2, <1>l
      <3>2. PICK d \in D : \A m \in D : d <= m
        BY <3>1, LeastNat
      <3>3. ASSUME NEW j \in e + 1 .. d - 1, s[j] = "=" PROVE FALSE
        <4>1. j \in D /\ ~(d <= j)
          BY <3>2, <3>3
        <4> QED
          BY <3>2, <4>1
      <3> QED
        BY <3>2, <3>3
    <2>7. FirstComponent(z) = SubSeq(s, e + 1, d - 1)
      <3>1. FromComponent(z) = z
        BY <2>2, <2>4, FromSelf
      <3>2. PICK f \in Nat \ {0} : f = e + 1
        BY <1>l
      <3>3. PICK h \in Nat : h = d - 1
        BY <1>l
      <3>4. l \in Nat /\ l <= Len(s) /\ f <= h + 1 /\ h <= l /\ h + 1 = d
        BY <1>2, <3>2, <3>3, <1>l, <2>6
      <3>5. Free(s, {"="}, f, h)
        BY <3>2, <3>3, <2>6 DEF Free
      <3>6. h < l => s[h + 1] = "="
        BY <3>4, <2>6
      <3>7. Before(SubSeq(s, f, l), {"="}) = SubSeq(s, f, h)
        BY <3>4, <3>5, <3>6, BeforeDelimiter
      <3> QED
        BY <2>1, <3>1, <3>2, <3>3, <3>7 DEF FirstComponent
    <2>8. CASE c <= Len(s)
      <3>1. c < d
        <4> SUFFICES ASSUME ~(c < d) PROVE FALSE
          OBVIOUS
        <4>1. d <= l /\ (d \in e + 1 .. c - 1 \/ d = c)
          BY <1>c, <2>8, <1>l
        <4> QED
          BY <4>1, <1>t, <2>6, <2>8
      <3>2. c \in 1 .. Len(s) /\ s[c] \in CommentMark /\ d \in 1 .. Len(s) + 1
        BY <2>8, <1>l
      <3>3. Trim(RemoveComment(Trim(SubSeq(s, e + 1, d - 1)))) = v
        BY <3>1, <3>2, CommentedValue
      <3> QED
        BY <1>w, <2>5, <2>7, <3>3
    <2>9. CASE c = Len(s) + 1
      <3>1. d = l + 1
        <4> SUFFICES ASSUME d <= l PROVE FALSE
          BY <1>l
        <4>1. d \in e + 1 .. c - 1
          BY <2>9, <1>l
        <4> QED
          BY <4>1, <1>t, <2>6
      <3>2. e \in Nat /\ c \in Nat /\ c <= Len(s) + 1 /\ l \in e + 1 .. c - 1
        BY <1>2, <1>l, <2>9
      <3>3. v # <<>>
        <4> SUFFICES ASSUME v = <<>> PROVE FALSE
          OBVIOUS
        <4>1. Blanks(s, e + 1, c - 1)
          BY <3>2, StandsEmpty
        <4> QED
          BY <4>1, <3>2 DEF Blanks
      <3>4. PICK p \in e + 1 .. c - 1, q \in e + 1 .. c - 1 : StandsFrom(v, s, e, c, p, q)
        BY <3>2, <3>3, <1>l, StandsAt
      <3>5. /\ p <= q /\ SubSeq(s, p, q) = v /\ s[p] # Space /\ s[q] # Space
            /\ Blanks(s, e + 1, p - 1) /\ Blanks(s, q + 1, c - 1)
        BY <3>4 DEF StandsFrom
      <3>6. q = l
        <4>1. ASSUME q < l PROVE FALSE
          <5>1. l \in q + 1 .. c - 1
            BY <4>1, <3>2
          <5> QED
            BY <5>1, <3>5 DEF Blanks
        <4>2. ASSUME l < q PROVE FALSE
          <5>1. q \in l + 1 .. Len(s)
            BY <4>2, <2>9, <3>2
          <5> QED
            BY <5>1, <3>5 DEF Blanks
        <4> QED
          BY <4>1, <4>2, <3>2
      <3>7. Trim(SubSeq(s, e + 1, l)) = SubSeq(s, p, q)
        <4>1. /\ e + 1 \in 1 .. Len(s) /\ p \in e + 1 .. l /\ q \in e + 1 .. l
          BY <1>2, <1>l, <3>5, <3>6
        <4>2. Blanks(s, q + 1, l)
          BY <3>6, <4>1 DEF Blanks
        <4> QED
          BY <4>1, <4>2, <3>5, TrimPart
      <3>8. d - 1 = l
        BY <3>1, <3>2
      <3>9. Trim(FirstComponent(z)) = v
        BY <2>7, <3>5, <3>7, <3>8
      <3> QED
        BY <1>w, <2>5, <3>9, PlainValue
    <2> QED
      BY <2>8, <2>9, <1>l
  <1> QED
    BY <1>1, <1>2, <1>l

LEMMA EntryLine ==
    ASSUME NEW s \in Seq(STRING), NEW k \in Seq(STRING), NEW v \in Seq(STRING), IsEntryLine(s, k, v),
           Bare(k), k # <<>>, k[1] # "[", Bare(v)
    PROVE  /\ ~IsSkipped(Trim(s)) /\ ~IsSection(Trim(s))
           /\ KeyOf(Trim(s)) = k /\ ValueOf(Trim(s)) = v
  <1>1. PICK e \in DOMAIN s, c \in 1 .. Len(s) + 1 :
           /\ s[e] = "=" /\ Stands(k, s, 0, e)
           /\ e < c /\ Stands(v, s, e, c) /\ (c <= Len(s) => s[c] \in CommentMark)
    BY DEF IsEntryLine
  <1>l. /\ Len(s) \in Nat /\ e \in 1 .. Len(s) /\ s[e] # Space /\ Trimmed(k)
        /\ 1 \in DOMAIN k
    <2>1. 1 \in DOMAIN k
      BY LenProperties, EmptySeq
    <2>2. Trimmed(k)
      BY Zenon DEF Bare
    <2> QED
      BY <1>1, <2>1, <2>2, Tokens, LenProperties
  <1>2. PICK f \in 1 .. e - 1, q \in 1 .. e - 1 : StandsFrom(k, s, 0, e, f, q)
    <2>1. PICK a \in Nat : a = 0
      OBVIOUS
    <2>2. e \in Nat /\ e <= Len(s) + 1
      BY <1>l
    <2>3. \E f \in a + 1 .. e - 1, q \in a + 1 .. e - 1 : StandsFrom(k, s, a, e, f, q)
      BY <1>1, <1>l, <2>1, <2>2, StandsAt
    <2> QED
      BY <2>1, <2>3
  <1>3. /\ f <= q /\ SubSeq(s, f, q) = k /\ s[f] # Space /\ s[q] # Space /\ s[f] = k[1]
        /\ Blanks(s, 1, f - 1) /\ Blanks(s, q + 1, e - 1)
    BY <1>2 DEF StandsFrom
  <1>4. k[1] \notin CommentMark /\ k[1] # "="
    BY <1>l, Zenon DEF Bare
  <1>5. PICK l \in 1 .. Len(s) : e <= l /\ s[l] # Space /\ Blanks(s, l + 1, Len(s))
    BY <1>l, LastOf
  <1>6. Trim(s) = SubSeq(s, f, l)
    <2>1. f \in 1 .. Len(s)
      BY <1>l
    <2> QED
      BY <2>1, <1>3, <1>5, TrimIs
  <1>7. PICK x : x = SubSeq(s, f, l)
    OBVIOUS
  <1>n. f \in Nat \ {0} /\ l \in Nat /\ f <= l + 1 /\ l <= Len(s) /\ f < e /\ e <= l /\ e \in Nat /\ q \in Nat
    BY <1>l, <1>5
  <1>8. x \in Seq(STRING) /\ Len(x) = l - f + 1 /\ \A j \in 1 .. l - f + 1 : x[j] = s[f + j - 1]
    <2>1. f \in Nat \ {0} /\ l \in Nat /\ f <= l + 1 /\ l <= Len(s)
      BY <1>n
    <2> QED
      BY <1>7, <2>1, Part
  <1>9. x # <<>> /\ x[1] = k[1]
    <2>1. 1 \in 1 .. l - f + 1 /\ f + 1 - 1 = f /\ Len(x) # 0
      BY <1>n, <1>8
    <2> QED
      BY <2>1, <1>3, <1>8, EmptySeq
  <1>10. ~IsSkipped(x) /\ ~IsSection(x)
    BY <1>4, <1>9 DEF IsSkipped, IsSection
  <1>11. FromComponent(x) = x
    BY <1>4, <1>8, <1>9, FromSelf
  <1>12. FirstComponent(x) = SubSeq(s, f, e - 1)
    <2>1. ASSUME NEW j \in f .. e - 1 PROVE s[j] \notin {"="}
      <3>1. PICK a \in Nat : a = 0
        OBVIOUS
      <3>2. e <= Len(s) + 1 /\ j \in a + 1 .. e - 1 /\ Stands(k, s, a, e)
        BY <1>1, <1>n, <3>1, <1>l
      <3>3. s[j] # "="
        BY <3>2, <1>n, StandsBare
      <3> QED
        BY <3>3
    <2>2. PICK h \in Nat : h = e - 1
      BY <1>n
    <2>3. f <= h + 1 /\ h <= l /\ h + 1 = e
      BY <1>n, <2>2
    <2>4. Free(s, {"="}, f, h)
      BY <2>1, <2>2 DEF Free
    <2>5. h < l => s[h + 1] = "="
      BY <1>1, <2>3
    <2>6. Before(SubSeq(s, f, l), {"="}) = SubSeq(s, f, h)
      BY <1>n, <2>3, <2>4, <2>5, BeforeDelimiter
    <2> QED
      BY <1>7, <1>11, <2>2, <2>6 DEF FirstComponent
  <1>13. Trim(SubSeq(s, f, e - 1)) = k
    <2>1. /\ f \in 1 .. Len(s) /\ e - 1 \in 1 .. Len(s) /\ q \in f .. e - 1 /\ f \in f .. e - 1
      BY <1>3, <1>n, <1>l
    <2>2. Blanks(s, f, f - 1)
      BY <1>n DEF Blanks
    <2> QED
      BY <2>1, <2>2, <1>3, TrimPart
  <1>14. AfterComponent(x) = FromComponent(SubSeq(s, e, l))
    <2>1. Len(SubSeq(s, f, e - 1)) = e - f
      <3>1. PICK g \in Nat : g = e - 1
        BY <1>n
      <3>2. f <= g + 1 /\ g <= Len(s)
        BY <1>n, <3>1
      <3>3. Len(SubSeq(s, f, g)) = g - f + 1
        BY <1>n, <3>2, Part
      <3> QED
        BY <3>1, <3>3, <1>n
    <2>2. PICK a \in Nat \ {0}, b \in Nat : a = e - f + 1 /\ b = l - f + 1
      BY <1>n
    <2>3. a <= b + 1 /\ b <= l - f + 1 /\ f + a - 1 = e /\ f + b - 1 = l
      BY <1>n, <2>2
    <2>4. SubSeq(SubSeq(s, f, l), a, b) = SubSeq(s, f + a - 1, f + b - 1)
      BY <1>n, <2>3, PartOfPart
    <2>5. SubSeq(x, Len(FirstComponent(x)) + 1, Len(x)) = SubSeq(s, e, l)
      BY <1>7, <1>8, <1>12, <2>1, <2>2, <2>3, <2>4
    <2> QED
      BY <1>11, <2>5 DEF AfterComponent
  <1>15. KeyOf(x) = k
    BY <1>12, <1>13 DEF KeyOf
  <1>16. ValueOf(x) = v
    <2>1. Trim(RemoveComment(Trim(FirstComponent(FromComponent(SubSeq(s, e, l)))))) = v
      BY <1>1, <1>l, <1>5, AfterKey
    <2> QED
      BY <1>14, <2>1 DEF ValueOf
  <1> QED
    BY <1>6, <1>7, <1>10, <1>15, <1>16

\* What the parser makes of a line whose meaning is written down.
LEMMA LineMeans ==
    ASSUME NEW w \in Line
    PROVE  /\ w.kind \in {"blank", "comment", "header", "entry", "odd"}
           /\ w.kind \in {"blank", "comment"} => IsSkipped(Trim(w.text))
           /\ w.kind = "header" =>
                 /\ ~IsSkipped(Trim(w.text)) /\ IsSection(Trim(w.text))
                 /\ SectionOf(Trim(w.text)) = w.name
           /\ w.kind = "entry" =>
                 /\ ~IsSkipped(Trim(w.text)) /\ ~IsSection(Trim(w.text))
                 /\ KeyOf(Trim(w.text)) = w.name /\ w.name # <<>>
                 /\ ValueOf(Trim(w.text)) = w.value
  <1>1. /\ w.text \in Seq(STRING) /\ w.name \in Seq(STRING) /\ w.value \in Seq(STRING) /\ LineOf(w)
    BY LineAssumption
  <1>2. CASE w.kind = "blank" /\ Blanks(w.text, 1, Len(w.text))
    BY <1>1, <1>2, SkippedLine
  <1>3. CASE w.kind = "comment" /\ \E a \in DOMAIN w.text :
            Blanks(w.text, 1, a - 1) /\ w.text[a] \in CommentMark
    BY <1>1, <1>3, SkippedLine
  <1>4. CASE w.kind = "header" /\ Trimmed(w.name) /\ IsHeaderLine(w.text, w.name)
    BY <1>1, <1>4, HeaderLine
  <1>5. CASE /\ w.kind = "entry" /\ IsEntryLine(w.text, w.name, w.value)
             /\ Bare(w.name) /\ w.name # <<>> /\ w.name[1] # "[" /\ Bare(w.value)
    <2>1. /\ ~IsSkipped(Trim(w.text)) /\ ~IsSection(Trim(w.text))
          /\ KeyOf(Trim(w.text)) = w.name /\ ValueOf(Trim(w.text)) = w.value
      BY <1>1, <1>5, EntryLine
    <2> QED
      BY <1>5, <2>1
  <1>6. CASE w.kind = "odd"
    BY <1>6
  <1> QED
    BY <1>1, <1>2, <1>3, <1>4, <1>5, <1>6 DEF LineOf

-----------------------------------------------------------------------------
(* Every line is stored once *)

Entries == {Entry(Trim(w.text), n) : w \in Line, n \in Nat}

TypeOK ==
    /\ file \in Seq(Line)
    /\ entryList \in Seq(Entries)
    /\ m_SectionEntiesMap \in [DOMAIN m_SectionEntiesMap -> Seq(Entries)]

\* FromFile for a file f.
From(f, list) ==
    \A i \in DOMAIN list :
        /\ list[i].line \in DOMAIN f
        /\ list[i] = Entry(Trim(f[list[i].line].text), list[i].line)
        /\ \A j \in DOMAIN list : i < j => list[i].line < list[j].line

\* While the file is read, the current list shares no line with the stored ones.
Kept ==
    /\ From(file, entryList)
    /\ \A s \in DOMAIN m_SectionEntiesMap :
        /\ From(file, m_SectionEntiesMap[s])
        /\ phase \in {"closed", "reading"} => ~Shares(m_SectionEntiesMap[s], entryList)
        /\ \A t \in DOMAIN m_SectionEntiesMap \ {s} :
              ~Shares(m_SectionEntiesMap[s], m_SectionEntiesMap[t])

LEMMA Appended ==
    ASSUME NEW S, NEW f \in Seq(S), NEW w \in S
    PROVE  /\ Append(f, w) \in Seq(S) /\ Len(f) \in Nat /\ Len(Append(f, w)) = Len(f) + 1
           /\ DOMAIN f = 1 .. Len(f) /\ DOMAIN Append(f, w) = 1 .. Len(f) + 1
           /\ \A i \in DOMAIN f : Append(f, w)[i] = f[i]
           /\ Append(f, w)[Len(f) + 1] = w
  BY AppendProperties, LenProperties

LEMMA EntryFields ==
    ASSUME NEW x, NEW n
    PROVE  Entry(x, n).key = KeyOf(x) /\ Entry(x, n).value = ValueOf(x) /\ Entry(x, n).line = n
  BY DEF Entry

LEMMA FromGrows ==
    ASSUME NEW f \in Seq(Line), NEW w \in Line, NEW list, From(f, list)
    PROVE  From(Append(f, w), list)
  <1>1. /\ Len(f) \in Nat /\ DOMAIN f = 1 .. Len(f) /\ DOMAIN Append(f, w) = 1 .. Len(f) + 1
        /\ \A i \in DOMAIN f : Append(f, w)[i] = f[i]
    BY Appended
  <1> SUFFICES ASSUME NEW i \in DOMAIN list
               PROVE  /\ list[i].line \in DOMAIN Append(f, w)
                      /\ list[i] = Entry(Trim(Append(f, w)[list[i].line].text), list[i].line)
                      /\ \A j \in DOMAIN list : i < j => list[i].line < list[j].line
    BY DEF From
  <1>2. /\ list[i].line \in DOMAIN f
        /\ list[i] = Entry(Trim(f[list[i].line].text), list[i].line)
        /\ \A j \in DOMAIN list : i < j => list[i].line < list[j].line
    BY DEF From
  <1> QED
    BY <1>1, <1>2

LEMMA FromAppend ==
    ASSUME NEW f \in Seq(Line), NEW w \in Line, NEW list \in Seq(Entries), From(f, list)
    PROVE  From(Append(f, w), Append(list, Entry(Trim(w.text), Len(f) + 1)))
  <1>1. PICK e \in Entries : e = Entry(Trim(w.text), Len(f) + 1)
    <2>1. Len(f) + 1 \in Nat
      BY LenProperties
    <2> QED
      BY <2>1 DEF Entries
  <1>2. e.line = Len(f) + 1
    BY <1>1, EntryFields
  <1>3. PICK g, l : g = Append(f, w) /\ l = Append(list, e)
    OBVIOUS
  <1>4. /\ Len(f) \in Nat /\ DOMAIN f = 1 .. Len(f) /\ DOMAIN g = 1 .. Len(f) + 1
        /\ g[Len(f) + 1] = w
    BY <1>3, Appended
  <1>5. /\ Len(list) \in Nat /\ DOMAIN list = 1 .. Len(list) /\ DOMAIN l = 1 .. Len(list) + 1
        /\ \A i \in DOMAIN list : l[i] = list[i]
        /\ l[Len(list) + 1] = e
    BY <1>3, Appended
  <1>6. From(g, list)
    BY <1>3, FromGrows
  <1> SUFFICES ASSUME NEW i \in DOMAIN l
               PROVE  /\ l[i].line \in DOMAIN g
                      /\ l[i] = Entry(Trim(g[l[i].line].text), l[i].line)
                      /\ \A j \in DOMAIN l : i < j => l[i].line < l[j].line
    BY <1>1, <1>3 DEF From
  <1>7. CASE i = Len(list) + 1
    <2>1. l[i].line = Len(f) + 1 /\ g[l[i].line] = w /\ l[i] = e
      BY <1>2, <1>4, <1>5, <1>7
    <2>2. \A j \in DOMAIN l : ~(i < j)
      BY <1>5, <1>7
    <2>3. l[i].line \in DOMAIN g
      BY <1>4, <2>1
    <2> QED
      BY <1>1, <2>1, <2>2, <2>3
  <1>8. CASE i \in DOMAIN list
    <2>1. /\ l[i] = list[i]
          /\ list[i].line \in DOMAIN f
          /\ list[i] = Entry(Trim(g[list[i].line].text), list[i].line)
          /\ \A j \in DOMAIN list : i < j => list[i].line < list[j].line
      <3>1. list[i].line \in DOMAIN f
        BY <1>8 DEF From
      <3> QED
        BY <1>5, <1>6, <1>8, <3>1 DEF From
    <2>2. ASSUME NEW j \in DOMAIN l, i < j PROVE l[i].line < l[j].line
      <3>1. CASE j \in DOMAIN list
        BY <2>1, <2>2, <3>1, <1>5
      <3>2. CASE j = Len(list) + 1
        BY <2>1, <3>2, <1>2, <1>4, <1>5
      <3> QED
        BY <3>1, <3>2, <1>5
    <2>3. l[i].line \in DOMAIN g
      BY <2>1, <1>4
    <2> QED
      BY <2>1, <2>2, <2>3
  <1> QED
    BY <1>5, <1>7, <1>8

\* A line just read is on no list yet.
LEMMA FreshLine ==
    ASSUME NEW f \in Seq(Line), NEW p, From(f, p), NEW list \in Seq(Entries), ~Shares(p, list),
           NEW e \in Entries, e.line = Len(f) + 1
    PROVE  ~Shares(p, Append(list, e))
  <1> SUFFICES ASSUME NEW i \in DOMAIN p, NEW j \in DOMAIN Append(list, e),
                      p[i].line = Append(list, e)[j].line
               PROVE  FALSE
    BY DEF Shares
  <1>1. /\ Len(list) \in Nat /\ DOMAIN list = 1 .. Len(list)
        /\ DOMAIN Append(list, e) = 1 .. Len(list) + 1
        /\ \A x \in DOMAIN list : Append(list, e)[x] = list[x]
        /\ Append(list, e)[Len(list) + 1] = e
    BY Appended
  <1>2. p[i].line \in 1 .. Len(f) /\ Len(f) \in Nat
    BY LenProperties DEF From
  <1>3. CASE j \in DOMAIN list
    BY <1>1, <1>3 DEF Shares
  <1>4. CASE j = Len(list) + 1
    BY <1>1, <1>2, <1>4
  <1> QED
    BY <1>1, <1>3, <1>4

LEMMA StoreType ==
    ASSUME TypeOK, NEW s, m_SectionEntiesMap' = Stored(s)
    PROVE  /\ DOMAIN m_SectionEntiesMap' = DOMAIN m_SectionEntiesMap \cup {s}
           /\ m_SectionEntiesMap' \in [DOMAIN m_SectionEntiesMap' -> Seq(Entries)]
           /\ m_SectionEntiesMap'[s] = entryList
           /\ \A t \in DOMAIN m_SectionEntiesMap \ {s} : m_SectionEntiesMap'[t] = m_SectionEntiesMap[t]
  BY DEF TypeOK, Stored

LEMMA Disjoint ==
    ASSUME NEW p, NEW q, ~Shares(p, q)
    PROVE  ~Shares(q, p)
  BY DEF Shares

\* What is kept survives that the current list is stored, when a line is read too.
LEMMA StoreKept ==
    ASSUME TypeOK, Kept, phase = "reading", NEW s, m_SectionEntiesMap' = Stored(s),
           NEW f, \A l : From(file, l) => From(f, l)
    PROVE  \A t \in DOMAIN m_SectionEntiesMap' :
             /\ From(f, m_SectionEntiesMap'[t])
             /\ \A u \in DOMAIN m_SectionEntiesMap' \ {t} :
                   ~Shares(m_SectionEntiesMap'[t], m_SectionEntiesMap'[u])
  <1>1. /\ DOMAIN m_SectionEntiesMap' = DOMAIN m_SectionEntiesMap \cup {s}
        /\ m_SectionEntiesMap'[s] = entryList
        /\ \A t \in DOMAIN m_SectionEntiesMap \ {s} : m_SectionEntiesMap'[t] = m_SectionEntiesMap[t]
    BY StoreType
  <1>2. /\ From(file, entryList)
        /\ \A t \in DOMAIN m_SectionEntiesMap :
            /\ From(file, m_SectionEntiesMap[t])
            /\ ~Shares(m_SectionEntiesMap[t], entryList)
            /\ ~Shares(entryList, m_SectionEntiesMap[t])
            /\ \A u \in DOMAIN m_SectionEntiesMap \ {t} :
                  ~Shares(m_SectionEntiesMap[t], m_SectionEntiesMap[u])
    BY Disjoint DEF Kept
  <1> SUFFICES ASSUME NEW t \in DOMAIN m_SectionEntiesMap'
               PROVE  /\ From(f, m_SectionEntiesMap'[t])
                      /\ \A u \in DOMAIN m_SectionEntiesMap' \ {t} :
                            ~Shares(m_SectionEntiesMap'[t], m_SectionEntiesMap'[u])
    OBVIOUS
  <1>3. CASE t = s
    <2>1. From(f, m_SectionEntiesMap'[t])
      BY <1>1, <1>2, <1>3
    <2>2. ASSUME NEW u \in DOMAIN m_SectionEntiesMap' \ {t}
          PROVE  ~Shares(m_SectionEntiesMap'[t], m_SectionEntiesMap'[u])
      BY <1>1, <1>2, <1>3
    <2> QED
      BY <2>1, <2>2
  <1>4. CASE t # s
    <2>1. From(f, m_SectionEntiesMap'[t])
      BY <1>1, <1>2, <1>4
    <2>2. ASSUME NEW u \in DOMAIN m_SectionEntiesMap' \ {t}
          PROVE  ~Shares(m_SectionEntiesMap'[t], m_SectionEntiesMap'[u])
      <3>1. CASE u = s
        BY <1>1, <1>2, <1>4, <3>1
      <3>2. CASE u # s
        BY <1>1, <1>2, <1>4, <3>2
      <3> QED
        BY <3>1, <3>2
    <2> QED
      BY <2>1, <2>2
  <1> QED
    BY <1>3, <1>4

LEMMA NothingListed ==
    ASSUME NEW f
    PROVE  From(f, <<>>) /\ <<>> \in Seq(Entries) /\ \A p : ~Shares(p, <<>>)
  <1>1. PICK l \in Seq(Entries) : l = <<>>
    BY EmptySeq
  <1>2. DOMAIN l = {}
    BY <1>1, LenProperties, EmptySeq
  <1> QED
    BY <1>1, <1>2 DEF From, Shares

LEMMA EntryReads ==
    ASSUME NEW w \in Line, TypeOK
    PROVE  Entry(Trim(w.text), Len(file) + 1) \in Entries
  <1>1. Len(file) + 1 \in Nat
    BY LenProperties DEF TypeOK
  <1> QED
    BY <1>1 DEF Entries

LEMMA InitKept ==
    Init => TypeOK /\ Kept
  <1> SUFFICES ASSUME Init PROVE TypeOK /\ Kept
    OBVIOUS
  <1>1. file \in Seq(Line) /\ entryList \in Seq(Entries)
    BY EmptySeq DEF Init
  <1>2. m_SectionEntiesMap = [s \in {} |-> <<>>]
    BY DEF Init
  <1>3. DOMAIN m_SectionEntiesMap = {}
    BY <1>2
  <1>4. m_SectionEntiesMap \in [DOMAIN m_SectionEntiesMap -> Seq(Entries)]
    BY <1>2, <1>3
  <1>5. From(file, entryList)
    BY NothingListed DEF Init
  <1> QED
    BY <1>1, <1>3, <1>4, <1>5 DEF TypeOK, Kept

LEMMA NextKept ==
    TypeOK /\ Kept /\ [Next]_vars => TypeOK' /\ Kept'
  <1> SUFFICES ASSUME TypeOK, Kept, [Next]_vars PROVE TypeOK' /\ Kept'
    OBVIOUS
  <1>1. CASE Open
    BY <1>1 DEF Open, TypeOK, Kept, parser
  <1>2. ASSUME NEW w \in Line, ReadSkipped(w) PROVE TypeOK' /\ Kept'
    <2>1. /\ file' = Append(file, w) /\ phase = "reading" /\ phase' = phase
          /\ entryList' = entryList /\ m_SectionEntiesMap' = m_SectionEntiesMap
      BY <1>2 DEF ReadSkipped, Reads, parser
    <2>2. file' \in Seq(Line)
      BY <2>1, Appended DEF TypeOK
    <2>3. \A l : From(file, l) => From(file', l)
      BY <2>1, FromGrows DEF TypeOK
    <2> QED
      BY <2>1, <2>2, <2>3 DEF TypeOK, Kept
  <1>3. ASSUME NEW w \in Line, ReadSection(w) PROVE TypeOK' /\ Kept'
    <2>1. file' = Append(file, w) /\ phase = "reading" /\ phase' = phase /\ CloseSection
      BY <1>3 DEF ReadSection, Reads
    <2>2. file' \in Seq(Line)
      BY <2>1, Appended DEF TypeOK
    <2>3. \A l : From(file, l) => From(file', l)
      BY <2>1, FromGrows DEF TypeOK
    <2>4. CASE validSection /\ validEntries
      <3>1. m_SectionEntiesMap' = Stored(section) /\ entryList' = <<>>
        BY <2>1, <2>4 DEF CloseSection
      <3>2. TypeOK'
        BY <2>2, <3>1, StoreType, NothingListed DEF TypeOK
      <3>3. \A t \in DOMAIN m_SectionEntiesMap' :
             /\ From(file', m_SectionEntiesMap'[t])
             /\ \A u \in DOMAIN m_SectionEntiesMap' \ {t} :
                   ~Shares(m_SectionEntiesMap'[t], m_SectionEntiesMap'[u])
        BY <2>1, <2>3, <3>1, StoreKept
      <3>4. From(file', entryList') /\ \A p : ~Shares(p, entryList')
        BY <3>1, NothingListed
      <3> QED
        BY <3>2, <3>3, <3>4 DEF Kept
    <2>5. CASE ~(validSection /\ validEntries)
      <3>1. entryList' = entryList /\ m_SectionEntiesMap' = m_SectionEntiesMap
        BY <2>1, <2>5 DEF CloseSection
      <3> QED
        BY <2>1, <2>2, <2>3, <3>1 DEF TypeOK, Kept
    <2> QED
      BY <2>4, <2>5
  <1>4. ASSUME NEW w \in Line, ReadEntry(w) PROVE TypeOK' /\ Kept'
    <2>0. PICK e \in Entries : e = Entry(Trim(w.text), Len(file) + 1)
      BY EntryReads
    <2>1. /\ file' = Append(file, w) /\ phase = "reading"
          /\ entryList' = entryList \/ entryList' = Append(entryList, e)
          /\ m_SectionEntiesMap' = m_SectionEntiesMap
      BY <1>4, <2>0 DEF ReadEntry, Reads
    <2>2. file' \in Seq(Line)
      BY <2>1, Appended DEF TypeOK
    <2>3. \A l : From(file, l) => From(file', l)
      BY <2>1, FromGrows DEF TypeOK
    <2>4. CASE entryList' = entryList
      BY <2>1, <2>2, <2>3, <2>4 DEF TypeOK, Kept
    <2>5. CASE entryList' = Append(entryList, e)
      <3>1. entryList' \in Seq(Entries)
        BY <2>5, Appended DEF TypeOK
      <3>2. From(file', entryList')
        BY <2>0, <2>1, <2>5, FromAppend DEF TypeOK, Kept
      <3>3. e.line = Len(file) + 1
        BY <2>0, EntryFields
      <3>4. ASSUME NEW s \in DOMAIN m_SectionEntiesMap
            PROVE  ~Shares(m_SectionEntiesMap[s], entryList')
        BY <2>1, <2>5, <3>3, FreshLine DEF TypeOK, Kept
      <3> QED
        BY <2>1, <2>2, <2>3, <3>1, <3>2, <3>4 DEF TypeOK, Kept
    <2> QED
      BY <2>1, <2>4, <2>5
  <1>5. CASE EndOfFile
    <2>1. /\ phase = "reading" /\ phase' = "loaded" /\ m_SectionEntiesMap' = StoreLast
          /\ file' = file /\ entryList' = entryList
      BY <1>5 DEF EndOfFile, parser
    <2>2. ASSUME NEW s, m_SectionEntiesMap' = Stored(s) PROVE TypeOK' /\ Kept'
      <3>1. \A t \in DOMAIN m_SectionEntiesMap' :
             /\ From(file, m_SectionEntiesMap'[t])
             /\ \A u \in DOMAIN m_SectionEntiesMap' \ {t} :
                   ~Shares(m_SectionEntiesMap'[t], m_SectionEntiesMap'[u])
        BY <2>1, <2>2, StoreKept
      <3>2. TypeOK'
        BY <2>1, <2>2, StoreType DEF TypeOK
      <3>3. phase' \notin {"closed", "reading"}
        BY <2>1
      <3> QED
        BY <2>1, <3>1, <3>2, <3>3 DEF Kept
    <2>3. CASE m_SectionEntiesMap' = m_SectionEntiesMap
      BY <2>1, <2>3 DEF TypeOK, Kept
    <2> QED
      BY <2>1, <2>2, <2>3 DEF StoreLast
  <1>6. CASE Configurate
    <2>1. /\ phase = "loaded" /\ phase' \notin {"closed", "reading"} /\ file' = file
          /\ entryList' = entryList /\ m_SectionEntiesMap' = m_SectionEntiesMap
      BY <1>6 DEF Configurate, parser
    <2> QED
      BY <2>1 DEF TypeOK, Kept
  <1>7. CASE UNCHANGED vars
    BY <1>7 DEF vars, parser, TypeOK, Kept
  <1> QED
    BY <1>1, <1>2, <1>3, <1>4, <1>5, <1>6, <1>7 DEF Next

LEMMA AlwaysKept == Spec => [](TypeOK /\ Kept)
  BY InitKept, NextKept, PTL DEF Spec

\* The lines read, the current list and the stored ones keep their types.
THEOREM TypeCorrect == Spec => []TypeOK
  BY AlwaysKept, PTL

\* StoredOnce: for files of any length and any lines, odd ones too, each list
\* in the map is made of lines of the file in their order, and no line is in two.
THEOREM ListsSafe == Spec => []StoredOnce
  <1>1. Kept => StoredOnce
    BY DEF Kept, StoredOnce, From, FromFile
  <1> QED
    BY <1>1, AlwaysKept, PTL

-----------------------------------------------------------------------------
(* What a well formed file says is what is stored: WellFormed and Says for a
   file f *)

HeadersOf(f) == {i \in DOMAIN f : f[i].kind = "header"}

Under(f, i, s) ==
    /\ f[i].kind = "entry"
    /\ \E h \in HeadersOf(f) : /\ h < i /\ f[h].name = s
                               /\ \A g \in HeadersOf(f) : g <= h \/ g > i

LastHeader(f, s) ==
    \E h \in HeadersOf(f) : f[h].name = s /\ \A g \in HeadersOf(f) : g <= h

Formed(f) ==
    /\ \A i \in DOMAIN f : f[i].kind # "odd"
    /\ \A i \in DOMAIN f : f[i].kind = "entry" => \E h \in HeadersOf(f) : h < i
    /\ \A g, h \in HeadersOf(f) : f[g].name = f[h].name => g = h

\* The list has the entries of section s, and no other.
Holds(f, list, s) ==
    \A i \in DOMAIN f : Under(f, i, s) <=> \E j \in DOMAIN list : list[j].line = i

\* While the file is read the current list is that of the last header.  The
\* list is empty unless a line after that header is an entry: this is why no
\* entry is carried into the next section.
Reading ==
    /\ validSection => LastHeader(file, section) /\ section \notin DOMAIN m_SectionEntiesMap
    /\ ~validSection => HeadersOf(file) = {} /\ ~validEntries
    /\ ~validEntries => entryList = <<>>
    /\ \A s \in DOMAIN m_SectionEntiesMap : \E h \in HeadersOf(file) : file[h].name = s
    /\ \A s \in DOMAIN m_SectionEntiesMap : Holds(file, m_SectionEntiesMap[s], s)
    /\ validSection => Holds(file, entryList, section)
    /\ \A s : s \in DOMAIN m_SectionEntiesMap \/ (validSection /\ s = section) \/ Holds(file, <<>>, s)

\* After the end of the file every section is in the map.
Done ==
    /\ \A s \in DOMAIN m_SectionEntiesMap : Holds(file, m_SectionEntiesMap[s], s)
    /\ \A s : s \in DOMAIN m_SectionEntiesMap \/ Holds(file, <<>>, s)

Right ==
    Formed(file) => /\ phase \in {"closed", "reading"} => Reading
                    /\ phase \in {"loaded", "configured"} => Done

-----------------------------------------------------------------------------
LEMMA HeadersGrow ==
    ASSUME NEW f \in Seq(Line), NEW w \in Line
    PROVE  /\ w.kind = "header" => HeadersOf(Append(f, w)) = HeadersOf(f) \cup {Len(f) + 1}
           /\ w.kind # "header" => HeadersOf(Append(f, w)) = HeadersOf(f)
           /\ HeadersOf(f) \subseteq 1 .. Len(f)
           /\ \A h \in HeadersOf(f) : Append(f, w)[h] = f[h]
  <1>1. PICK g : g = Append(f, w)
    OBVIOUS
  <1>2. /\ Len(f) \in Nat /\ DOMAIN f = 1 .. Len(f) /\ DOMAIN g = 1 .. Len(f) + 1
        /\ \A i \in DOMAIN f : g[i] = f[i]
        /\ g[Len(f) + 1] = w
    BY <1>1, Appended
  <1>3. HeadersOf(f) \subseteq 1 .. Len(f) /\ \A h \in HeadersOf(f) : g[h] = f[h]
    BY <1>2 DEF HeadersOf
  <1>4. ASSUME NEW i PROVE i \in DOMAIN g <=> i \in DOMAIN f \/ i = Len(f) + 1
    BY <1>2
  <1>5. ASSUME NEW i PROVE i \in HeadersOf(g) <=> i \in HeadersOf(f) \/ (i = Len(f) + 1 /\ w.kind = "header")
    <2>1. i \in HeadersOf(g) <=> i \in DOMAIN g /\ g[i].kind = "header"
      BY DEF HeadersOf
    <2>2. i \in HeadersOf(f) <=> i \in DOMAIN f /\ f[i].kind = "header"
      BY DEF HeadersOf
    <2>3. Len(f) + 1 \notin DOMAIN f
      BY <1>2
    <2> QED
      BY <1>2, <1>4, <2>1, <2>2, <2>3
  <1> QED
    BY <1>1, <1>3, <1>5

LEMMA UnderOld ==
    ASSUME NEW f \in Seq(Line), NEW w \in Line, NEW i \in DOMAIN f, NEW s
    PROVE  Under(Append(f, w), i, s) <=> Under(f, i, s)
  <1>1. PICK g : g = Append(f, w)
    OBVIOUS
  <1>2. /\ Len(f) \in Nat /\ i \in 1 .. Len(f) /\ g[i] = f[i]
    BY <1>1, Appended
  <1>3. /\ HeadersOf(g) = HeadersOf(f) \/ HeadersOf(g) = HeadersOf(f) \cup {Len(f) + 1}
        /\ HeadersOf(f) \subseteq 1 .. Len(f)
        /\ \A h \in HeadersOf(f) : g[h] = f[h]
    BY <1>1, HeadersGrow
  <1>4. ASSUME Under(g, i, s) PROVE Under(f, i, s)
    <2>1. PICK h \in HeadersOf(g) : /\ h < i /\ g[h].name = s
                                    /\ \A x \in HeadersOf(g) : x <= h \/ x > i
      BY <1>4 DEF Under
    <2>2. h \in HeadersOf(f)
      BY <1>2, <1>3, <2>1
    <2>3. f[h].name = s /\ \A x \in HeadersOf(f) : x <= h \/ x > i
      BY <1>3, <2>1, <2>2
    <2> QED
      BY <1>2, <1>4, <2>1, <2>2, <2>3 DEF Under
  <1>5. ASSUME Under(f, i, s) PROVE Under(g, i, s)
    <2>1. PICK h \in HeadersOf(f) : /\ h < i /\ f[h].name = s
                                    /\ \A x \in HeadersOf(f) : x <= h \/ x > i
      BY <1>5 DEF Under
    <2>2. h \in HeadersOf(g) /\ g[h].name = s /\ \A x \in HeadersOf(g) : x <= h \/ x > i
      BY <1>2, <1>3, <2>1
    <2> QED
      BY <1>2, <1>5, <2>1, <2>2 DEF Under
  <1> QED
    BY <1>1, <1>4, <1>5

LEMMA UnderNew ==
    ASSUME NEW f \in Seq(Line), NEW w \in Line, NEW s
    PROVE  Under(Append(f, w), Len(f) + 1, s) <=> w.kind = "entry" /\ LastHeader(f, s)
  <1>1. PICK g : g = Append(f, w)
    OBVIOUS
  <1>2. /\ Len(f) \in Nat /\ g[Len(f) + 1] = w
    BY <1>1, Appended
  <1>3. /\ w.kind # "header" => HeadersOf(g) = HeadersOf(f)
        /\ HeadersOf(f) \subseteq 1 .. Len(f)
        /\ \A h \in HeadersOf(f) : g[h] = f[h]
    BY <1>1, HeadersGrow
  <1>4. ASSUME Under(g, Len(f) + 1, s) PROVE w.kind = "entry" /\ LastHeader(f, s)
    <2>1. w.kind = "entry"
      BY <1>2, <1>4 DEF Under
    <2>2. HeadersOf(g) = HeadersOf(f)
      BY <1>3, <2>1
    <2>3. PICK h \in HeadersOf(f) : /\ g[h].name = s
                                    /\ \A x \in HeadersOf(f) : x <= h \/ x > Len(f) + 1
      BY <1>4, <2>2 DEF Under
    <2>4. f[h].name = s /\ \A x \in HeadersOf(f) : x <= h
      BY <1>2, <1>3, <2>3
    <2> QED
      BY <2>1, <2>4 DEF LastHeader
  <1>5. ASSUME w.kind = "entry", LastHeader(f, s) PROVE Under(g, Len(f) + 1, s)
    <2>1. PICK h \in HeadersOf(f) : f[h].name = s /\ \A x \in HeadersOf(f) : x <= h
      BY <1>5 DEF LastHeader
    <2>2. HeadersOf(g) = HeadersOf(f)
      BY <1>3, <1>5
    <2>3. /\ h \in HeadersOf(g) /\ h < Len(f) + 1 /\ g[h].name = s
          /\ \A x \in HeadersOf(g) : x <= h \/ x > Len(f) + 1
      BY <1>2, <1>3, <2>1, <2>2
    <2> QED
      BY <1>2, <1>5, <2>3 DEF Under
  <1> QED
    BY <1>1, <1>4, <1>5

LEMMA HoldsGrows ==
    ASSUME NEW f \in Seq(Line), NEW w \in Line, NEW s, NEW list, From(f, list), Holds(f, list, s),
           w.kind # "entry" \/ ~LastHeader(f, s)
    PROVE  Holds(Append(f, w), list, s)
  <1>1. /\ Len(f) \in Nat /\ DOMAIN f = 1 .. Len(f) /\ DOMAIN Append(f, w) = 1 .. Len(f) + 1
    BY Appended
  <1> SUFFICES ASSUME NEW i \in DOMAIN Append(f, w)
               PROVE  Under(Append(f, w), i, s) <=> \E j \in DOMAIN list : list[j].line = i
    BY DEF Holds
  <1>2. CASE i \in DOMAIN f
    BY <1>2, UnderOld DEF Holds
  <1>3. CASE i = Len(f) + 1
    <2>1. ~Under(Append(f, w), i, s)
      BY <1>3, UnderNew
    <2>2. \A j \in DOMAIN list : list[j].line \in 1 .. Len(f)
      BY <1>1 DEF From
    <2> QED
      BY <1>1, <1>3, <2>1, <2>2
  <1> QED
    BY <1>1, <1>2, <1>3

LEMMA HoldsAppend ==
    ASSUME NEW f \in Seq(Line), NEW w \in Line, NEW s, NEW list \in Seq(Entries),
           From(f, list), Holds(f, list, s), w.kind = "entry", LastHeader(f, s),
           NEW e \in Entries, e.line = Len(f) + 1
    PROVE  Holds(Append(f, w), Append(list, e), s)
  <1>1. /\ Len(f) \in Nat /\ DOMAIN f = 1 .. Len(f) /\ DOMAIN Append(f, w) = 1 .. Len(f) + 1
    BY Appended
  <1>2. PICK l : l = Append(list, e)
    OBVIOUS
  <1>3. /\ Len(list) \in Nat /\ DOMAIN list = 1 .. Len(list) /\ DOMAIN l = 1 .. Len(list) + 1
        /\ \A i \in DOMAIN list : l[i] = list[i]
        /\ l[Len(list) + 1] = e
    BY <1>2, Appended
  <1> SUFFICES ASSUME NEW i \in DOMAIN Append(f, w)
               PROVE  Under(Append(f, w), i, s) <=> \E j \in DOMAIN l : l[j].line = i
    BY <1>2 DEF Holds
  <1>4. CASE i \in DOMAIN f
    <2>1. (\E j \in DOMAIN l : l[j].line = i) <=> (\E j \in DOMAIN list : list[j].line = i)
      <3>1. ASSUME NEW j \in DOMAIN l, l[j].line = i PROVE \E x \in DOMAIN list : list[x].line = i
        <4>1. j # Len(list) + 1
          BY <1>1, <1>3, <1>4, <3>1
        <4>2. j \in DOMAIN list
          BY <1>3, <4>1
        <4> QED
          BY <1>3, <3>1, <4>2
      <3>2. ASSUME NEW j \in DOMAIN list, list[j].line = i PROVE \E x \in DOMAIN l : l[x].line = i
        <4>1. j \in DOMAIN l /\ l[j] = list[j]
          BY <1>3
        <4> QED
          BY <3>2, <4>1
      <3> QED
        BY <3>1, <3>2
    <2> QED
      BY <1>4, <2>1, UnderOld DEF Holds
  <1>5. CASE i = Len(f) + 1
    <2>1. Under(Append(f, w), i, s)
      BY <1>5, UnderNew
    <2>2. Len(list) + 1 \in DOMAIN l /\ l[Len(list) + 1].line = i
      BY <1>3, <1>5
    <2> QED
      BY <2>1, <2>2
  <1> QED
    BY <1>1, <1>4, <1>5

LEMMA OneLast ==
    ASSUME NEW f \in Seq(Line), NEW s, NEW t, LastHeader(f, s), LastHeader(f, t)
    PROVE  s = t
  <1>1. PICK h \in HeadersOf(f) : f[h].name = s /\ \A x \in HeadersOf(f) : x <= h
    BY DEF LastHeader
  <1>2. PICK g \in HeadersOf(f) : f[g].name = t /\ \A x \in HeadersOf(f) : x <= g
    BY DEF LastHeader
  <1>3. g \in Nat /\ h \in Nat /\ g <= h /\ h <= g
    <2>1. HeadersOf(f) \subseteq Nat
      BY LenProperties DEF HeadersOf
    <2> QED
      BY <1>1, <1>2, <2>1
  <1> QED
    BY <1>1, <1>2, <1>3

LEMMA LastGrows ==
    ASSUME NEW f \in Seq(Line), NEW w \in Line
    PROVE  /\ w.kind # "header" => \A s : LastHeader(f, s) => LastHeader(Append(f, w), s)
           /\ w.kind = "header" => LastHeader(Append(f, w), w.name)
  <1>1. PICK g : g = Append(f, w)
    OBVIOUS
  <1>2. /\ Len(f) \in Nat /\ g[Len(f) + 1] = w
    BY <1>1, Appended
  <1>3. /\ w.kind # "header" => HeadersOf(g) = HeadersOf(f)
        /\ w.kind = "header" => HeadersOf(g) = HeadersOf(f) \cup {Len(f) + 1}
        /\ HeadersOf(f) \subseteq 1 .. Len(f)
        /\ \A h \in HeadersOf(f) : g[h] = f[h]
    BY <1>1, HeadersGrow
  <1>4. ASSUME w.kind # "header", NEW s, LastHeader(f, s) PROVE LastHeader(g, s)
    BY <1>3, <1>4 DEF LastHeader
  <1>5. ASSUME w.kind = "header" PROVE LastHeader(g, w.name)
    <2>1. Len(f) + 1 \in HeadersOf(g) /\ \A x \in HeadersOf(g) : x <= Len(f) + 1
      BY <1>2, <1>3, <1>5
    <2> QED
      BY <1>2, <2>1 DEF LastHeader
  <1> QED
    BY <1>1, <1>4, <1>5

LEMMA FormedBefore ==
    ASSUME NEW f \in Seq(Line), NEW w \in Line, Formed(Append(f, w))
    PROVE  /\ Formed(f) /\ w.kind # "odd"
           /\ w.kind = "entry" => HeadersOf(f) # {}
           /\ w.kind = "header" => \A h \in HeadersOf(f) : f[h].name # w.name
  <1>1. PICK g : g = Append(f, w)
    OBVIOUS
  <1>2. /\ Len(f) \in Nat /\ DOMAIN f = 1 .. Len(f) /\ DOMAIN g = 1 .. Len(f) + 1
        /\ \A i \in DOMAIN f : g[i] = f[i]
        /\ g[Len(f) + 1] = w
    BY <1>1, Appended
  <1>3. /\ w.kind # "header" => HeadersOf(g) = HeadersOf(f)
        /\ w.kind = "header" => HeadersOf(g) = HeadersOf(f) \cup {Len(f) + 1}
        /\ HeadersOf(f) \subseteq 1 .. Len(f)
        /\ \A h \in HeadersOf(f) : g[h] = f[h]
    BY <1>1, HeadersGrow
  <1>4. /\ \A i \in DOMAIN g : g[i].kind # "odd"
        /\ \A i \in DOMAIN g : g[i].kind = "entry" => \E h \in HeadersOf(g) : h < i
        /\ \A x, y \in HeadersOf(g) : g[x].name = g[y].name => x = y
    BY <1>1 DEF Formed
  <1>5. Len(f) + 1 \in DOMAIN g /\ DOMAIN f \subseteq DOMAIN g /\ HeadersOf(f) \subseteq HeadersOf(g)
    BY <1>2, <1>3
  <1>6. Formed(f)
    <2>1. \A i \in DOMAIN f : f[i].kind # "odd"
      BY <1>2, <1>4, <1>5
    <2>2. ASSUME NEW i \in DOMAIN f, f[i].kind = "entry" PROVE \E h \in HeadersOf(f) : h < i
      <3>1. PICK h \in HeadersOf(g) : h < i
        BY <1>2, <1>4, <1>5, <2>2
      <3>2. h # Len(f) + 1
        BY <1>2, <3>1
      <3> QED
        BY <1>3, <3>1, <3>2
    <2>3. \A x, y \in HeadersOf(f) : f[x].name = f[y].name => x = y
      BY <1>3, <1>4, <1>5
    <2> QED
      BY <2>1, <2>2, <2>3 DEF Formed
  <1>7. w.kind # "odd"
    BY <1>2, <1>4, <1>5
  <1>8. ASSUME w.kind = "entry" PROVE HeadersOf(f) # {}
    <2>1. HeadersOf(g) # {}
      BY <1>2, <1>4, <1>5, <1>8
    <2> QED
      BY <1>3, <1>8, <2>1
  <1>9. ASSUME w.kind = "header", NEW h \in HeadersOf(f), f[h].name = w.name PROVE FALSE
    <2>1. Len(f) + 1 \in HeadersOf(g) /\ h \in HeadersOf(g) /\ h \in 1 .. Len(f)
      BY <1>3, <1>9
    <2>2. g[h].name = g[Len(f) + 1].name
      BY <1>2, <1>3, <1>9
    <2>3. h = Len(f) + 1
      BY <1>4, <2>1, <2>2
    <2> QED
      BY <1>2, <2>1, <2>3
  <1> QED
    BY <1>6, <1>7, <1>8, <1>9

LEMMA InitRight ==
    Init => Right
  <1> SUFFICES ASSUME Init PROVE Reading
    BY DEF Init, Right
  <1>1. file = <<>> /\ ~validSection /\ ~validEntries /\ entryList = <<>>
    BY DEF Init
  <1>2. DOMAIN m_SectionEntiesMap = {}
    BY DEF Init
  <1>3. DOMAIN file = {}
    <2>1. file \in Seq(Line) /\ Len(file) = 0
      BY <1>1, EmptySeq
    <2> QED
      BY <2>1, LenProperties
  <1>4. HeadersOf(file) = {} /\ \A s : Holds(file, <<>>, s)
    BY <1>3 DEF HeadersOf, Holds
  <1> QED
    BY <1>1, <1>2, <1>4 DEF Reading

\* A line that is neither entry nor header: it belongs to no section.
LEMMA SkipRight ==
    ASSUME NEW w \in Line, TypeOK, Kept, Right, ReadSkipped(w), Formed(file')
    PROVE  Reading'
  <1>1. /\ file' = Append(file, w) /\ phase = "reading" /\ IsSkipped(Trim(w.text))
        /\ section' = section /\ validSection' = validSection /\ validEntries' = validEntries
        /\ entryList' = entryList /\ m_SectionEntiesMap' = m_SectionEntiesMap
    BY DEF ReadSkipped, Reads, parser
  <1>2. Formed(file) /\ w.kind # "odd" /\ file \in Seq(Line)
    BY <1>1, FormedBefore DEF TypeOK
  <1>3. w.kind # "entry" /\ w.kind # "header"
    BY <1>1, LineMeans
  <1>4. Reading
    BY <1>1, <1>2 DEF Right
  <1>5. HeadersOf(file') = HeadersOf(file) /\ \A h \in HeadersOf(file) : file'[h] = file[h]
    BY <1>1, <1>2, <1>3, HeadersGrow
  <1>6. \A s, list : From(file, list) /\ Holds(file, list, s) => Holds(file', list, s)
    BY <1>1, <1>2, <1>3, HoldsGrows
  <1>7. From(file, <<>>) /\ From(file, entryList)
        /\ \A s \in DOMAIN m_SectionEntiesMap : From(file, m_SectionEntiesMap[s])
    BY NothingListed DEF Kept
  <1>8. validSection => LastHeader(file', section)
    BY <1>1, <1>2, <1>3, <1>4, LastGrows DEF Reading
  <1> QED
    BY <1>1, <1>4, <1>5, <1>6, <1>7, <1>8 DEF Reading

LEMMA HeaderRight ==
    ASSUME NEW w \in Line, TypeOK, Kept, Right, ReadSection(w), Formed(file')
    PROVE  Reading'
  <1>1. /\ file' = Append(file, w) /\ phase = "reading"
        /\ ~IsSkipped(Trim(w.text)) /\ IsSection(Trim(w.text)) /\ CloseSection
        /\ section' = SectionOf(Trim(w.text)) /\ validSection' = TRUE /\ validEntries' = FALSE
    BY DEF ReadSection, Reads
  <1>2. Formed(file) /\ w.kind # "odd" /\ file \in Seq(Line)
    BY <1>1, FormedBefore DEF TypeOK
  <1>3. w.kind = "header" /\ section' = w.name
    BY <1>1, <1>2, LineMeans
  <1>4. Reading
    BY <1>1, <1>2 DEF Right
  <1>5. /\ HeadersOf(file) \subseteq HeadersOf(file') /\ \A h \in HeadersOf(file) : file'[h] = file[h]
        /\ \A h \in HeadersOf(file) : file[h].name # w.name
    BY <1>1, <1>2, <1>3, HeadersGrow, FormedBefore
  <1>6. \A s, list : From(file, list) /\ Holds(file, list, s) => Holds(file', list, s)
    <2>1. w.kind # "entry"
      BY <1>3
    <2> QED
      BY <1>1, <1>2, <2>1, HoldsGrows
  <1>7. From(file, <<>>) /\ From(file, entryList)
        /\ \A s \in DOMAIN m_SectionEntiesMap : From(file, m_SectionEntiesMap[s])
    BY NothingListed DEF Kept
  <1>8. LastHeader(file', section')
    BY <1>1, <1>2, <1>3, LastGrows
  <1>9. Holds(file', <<>>, w.name)
    <2>1. Holds(file, <<>>, w.name)
      <3>1. \A i : ~Under(file, i, w.name)
        BY <1>5 DEF Under
      <3>2. DOMAIN <<>> = {}
        OBVIOUS
      <3> QED
        BY <3>1, <3>2 DEF Holds
    <2> QED
      BY <1>6, <1>7, <2>1
  <1>10. CASE validSection /\ validEntries
    <2>1. m_SectionEntiesMap' = Stored(section) /\ entryList' = <<>>
      BY <1>1, <1>10 DEF CloseSection
    <2>2. /\ DOMAIN m_SectionEntiesMap' = DOMAIN m_SectionEntiesMap \cup {section}
          /\ m_SectionEntiesMap'[section] = entryList
          /\ \A t \in DOMAIN m_SectionEntiesMap \ {section} : m_SectionEntiesMap'[t] = m_SectionEntiesMap[t]
      BY <2>1, StoreType
    <2>3. /\ LastHeader(file, section) /\ section \notin DOMAIN m_SectionEntiesMap
          /\ Holds(file, entryList, section)
      BY <1>4, <1>10 DEF Reading
    <2>4. ASSUME NEW s \in DOMAIN m_SectionEntiesMap'
          PROVE  /\ \E h \in HeadersOf(file) : file[h].name = s
                 /\ From(file, m_SectionEntiesMap'[s]) /\ Holds(file, m_SectionEntiesMap'[s], s)
      <3>1. CASE s = section
        BY <1>7, <2>2, <2>3, <3>1 DEF LastHeader
      <3>2. CASE s # section
        BY <1>4, <1>7, <2>2, <3>2 DEF Reading
      <3> QED
        BY <3>1, <3>2
    <2>5. w.name \notin DOMAIN m_SectionEntiesMap'
      BY <1>5, <2>4
    <2>6. ASSUME NEW s \in DOMAIN m_SectionEntiesMap'
          PROVE  /\ \E h \in HeadersOf(file') : file'[h].name = s
                 /\ Holds(file', m_SectionEntiesMap'[s], s)
      BY <1>5, <1>6, <2>4
    <2>7. ASSUME NEW s PROVE s \in DOMAIN m_SectionEntiesMap' \/ Holds(file', <<>>, s)
      BY <1>4, <1>6, <1>7, <2>2 DEF Reading
    <2> QED
      BY <1>1, <1>3, <1>8, <1>9, <2>1, <2>5, <2>6, <2>7 DEF Reading
  <1>11. CASE ~(validSection /\ validEntries)
    <2>1. m_SectionEntiesMap' = m_SectionEntiesMap /\ entryList' = entryList
      BY <1>1, <1>11 DEF CloseSection
    <2>2. entryList = <<>>
      BY <1>4, <1>11 DEF Reading
    <2>3. ASSUME NEW s \in DOMAIN m_SectionEntiesMap
          PROVE  /\ \E h \in HeadersOf(file') : file'[h].name = s
                 /\ Holds(file', m_SectionEntiesMap[s], s) /\ s # w.name
      BY <1>4, <1>5, <1>6, <1>7 DEF Reading
    <2>4. ASSUME NEW s PROVE s \in DOMAIN m_SectionEntiesMap \/ Holds(file', <<>>, s)
      <3>1. s \in DOMAIN m_SectionEntiesMap \/ Holds(file, <<>>, s)
        BY <1>4, <2>2 DEF Reading
      <3> QED
        BY <1>6, <1>7, <3>1
    <2> QED
      BY <1>1, <1>3, <1>8, <1>9, <2>1, <2>2, <2>3, <2>4 DEF Reading
  <1> QED
    BY <1>10, <1>11

LEMMA EntryRight ==
    ASSUME NEW w \in Line, TypeOK, Kept, Right, ReadEntry(w), Formed(file')
    PROVE  Reading'
  <1>1. /\ file' = Append(file, w) /\ phase = "reading"
        /\ ~IsSkipped(Trim(w.text)) /\ ~IsSection(Trim(w.text))
        /\ entryList' = IF KeyOf(Trim(w.text)) = <<>> THEN entryList
                        ELSE Append(entryList, Entry(Trim(w.text), Len(file) + 1))
        /\ section' = section /\ validSection' = validSection /\ validEntries' = TRUE
        /\ m_SectionEntiesMap' = m_SectionEntiesMap
    BY DEF ReadEntry, Reads
  <1>2. Formed(file) /\ w.kind # "odd" /\ file \in Seq(Line) /\ entryList \in Seq(Entries)
    BY <1>1, FormedBefore DEF TypeOK
  <1>3. w.kind = "entry" /\ KeyOf(Trim(w.text)) # <<>>
    BY <1>1, <1>2, LineMeans
  <1>4. Reading /\ HeadersOf(file) # {}
    BY <1>1, <1>2, <1>3, FormedBefore DEF Right
  <1>5. /\ HeadersOf(file') = HeadersOf(file) /\ \A h \in HeadersOf(file) : file'[h] = file[h]
    BY <1>1, <1>2, <1>3, HeadersGrow
  <1>6. /\ validSection /\ LastHeader(file, section) /\ section \notin DOMAIN m_SectionEntiesMap
        /\ Holds(file, entryList, section)
    BY <1>4 DEF Reading
  <1>7. \A s, list : From(file, list) /\ Holds(file, list, s) /\ s # section => Holds(file', list, s)
    <2>1. \A s : s # section => ~LastHeader(file, s)
      BY <1>2, <1>6, OneLast
    <2> QED
      BY <1>1, <1>2, <2>1, HoldsGrows
  <1>8. From(file, <<>>) /\ From(file, entryList)
        /\ \A s \in DOMAIN m_SectionEntiesMap : From(file, m_SectionEntiesMap[s])
    BY NothingListed DEF Kept
  <1>9. LastHeader(file', section)
    BY <1>1, <1>2, <1>3, <1>6, LastGrows
  <1>10. Holds(file', entryList', section)
    <2>1. PICK e \in Entries : e = Entry(Trim(w.text), Len(file) + 1)
      BY EntryReads
    <2>2. e.line = Len(file) + 1 /\ entryList' = Append(entryList, e)
      BY <1>1, <1>3, <2>1, EntryFields
    <2> QED
      BY <1>1, <1>2, <1>3, <1>6, <1>8, <2>2, HoldsAppend
  <1>11. ASSUME NEW s \in DOMAIN m_SectionEntiesMap
         PROVE  /\ \E h \in HeadersOf(file') : file'[h].name = s
                /\ Holds(file', m_SectionEntiesMap[s], s)
    <2>1. s # section /\ Holds(file, m_SectionEntiesMap[s], s) /\ \E h \in HeadersOf(file) : file[h].name = s
      BY <1>4, <1>6 DEF Reading
    <2> QED
      BY <1>5, <1>7, <1>8, <2>1
  <1>12. ASSUME NEW s PROVE s \in DOMAIN m_SectionEntiesMap \/ s = section \/ Holds(file', <<>>, s)
    BY <1>4, <1>7, <1>8 DEF Reading
  <1> QED
    BY <1>1, <1>6, <1>9, <1>10, <1>11, <1>12 DEF Reading

LEMMA EndRight ==
    ASSUME TypeOK, Right, EndOfFile, Formed(file)
    PROVE  Done'
  <1>1. phase = "reading" /\ file' = file /\ m_SectionEntiesMap' = StoreLast
    BY DEF EndOfFile
  <1>2. Reading
    BY <1>1 DEF Right
  <1>3. CASE validSection /\ validEntries
    <2>1. m_SectionEntiesMap' = Stored(section)
      BY <1>1, <1>3 DEF StoreLast
    <2>2. /\ DOMAIN m_SectionEntiesMap' = DOMAIN m_SectionEntiesMap \cup {section}
          /\ m_SectionEntiesMap'[section] = entryList
          /\ \A t \in DOMAIN m_SectionEntiesMap \ {section} : m_SectionEntiesMap'[t] = m_SectionEntiesMap[t]
      BY <2>1, StoreType
    <2>3. ASSUME NEW s \in DOMAIN m_SectionEntiesMap' PROVE Holds(file, m_SectionEntiesMap'[s], s)
      <3>1. CASE s = section
        BY <1>2, <1>3, <2>2, <3>1 DEF Reading
      <3>2. CASE s # section
        BY <1>2, <2>2, <3>2 DEF Reading
      <3> QED
        BY <3>1, <3>2
    <2>4. ASSUME NEW s PROVE s \in DOMAIN m_SectionEntiesMap' \/ Holds(file, <<>>, s)
      BY <1>2, <2>2 DEF Reading
    <2> QED
      BY <1>1, <2>3, <2>4 DEF Done
  <1>4. CASE ~(validSection /\ validEntries)
    <2>1. ~validEntries /\ entryList = <<>>
      BY <1>2, <1>4 DEF Reading
    <2>2. m_SectionEntiesMap' = m_SectionEntiesMap
      BY <1>1, <2>1 DEF StoreLast
    <2>3. ASSUME NEW s PROVE s \in DOMAIN m_SectionEntiesMap \/ Holds(file, <<>>, s)
      BY <1>2, <2>1 DEF Reading
    <2>4. \A s \in DOMAIN m_SectionEntiesMap : Holds(file, m_SectionEntiesMap[s], s)
      BY <1>2 DEF Reading
    <2> QED
      BY <1>1, <2>2, <2>3, <2>4 DEF Done
  <1> QED
    BY <1>3, <1>4

LEMMA NextRight ==
    TypeOK /\ Kept /\ Right /\ [Next]_vars => Right'
  <1> SUFFICES ASSUME TypeOK, Kept, Right, [Next]_vars PROVE Right'
    OBVIOUS
  <1>1. CASE Open
    BY <1>1 DEF Open, parser, Right, Reading, Done
  <1>2. ASSUME NEW w \in Line, ReadSkipped(w) PROVE Right'
    <2>1. phase' = "reading"
      BY <1>2 DEF ReadSkipped, Reads
    <2> QED
      BY <1>2, <2>1, SkipRight DEF Right
  <1>3. ASSUME NEW w \in Line, ReadSection(w) PROVE Right'
    <2>1. phase' = "reading"
      BY <1>3 DEF ReadSection, Reads
    <2> QED
      BY <1>3, <2>1, HeaderRight DEF Right
  <1>4. ASSUME NEW w \in Line, ReadEntry(w) PROVE Right'
    <2>1. phase' \in {"reading", "crashed"}
      BY <1>4 DEF ReadEntry, Reads
    <2> QED
      BY <1>4, <2>1, EntryRight DEF Right
  <1>5. CASE EndOfFile
    <2>1. phase' = "loaded" /\ file' = file
      BY <1>5 DEF EndOfFile
    <2> QED
      BY <1>5, <2>1, EndRight DEF Right
  <1>6. CASE Configurate
    <2>1. /\ phase = "loaded" /\ phase' \in {"loaded", "configured"}
          /\ file' = file /\ m_SectionEntiesMap' = m_SectionEntiesMap
      BY <1>6 DEF Configurate
    <2> QED
      BY <2>1 DEF Right, Done
  <1>7. CASE UNCHANGED vars
    BY <1>7 DEF vars, parser, Right, Reading, Done
  <1> QED
    BY <1>1, <1>2, <1>3, <1>4, <1>5, <1>6, <1>7 DEF Next

LEMMA AlwaysRight == Spec => [](TypeOK /\ Kept /\ Right)
  BY InitKept, InitRight, NextKept, NextRight, PTL DEF Spec

LEMMA FormedIs == WellFormed <=> Formed(file)
  BY DEF WellFormed, Formed, Headers, HeadersOf

-----------------------------------------------------------------------------
\* The first entry with key k, if any.
First(list, k) == SelectInSeq(list, LAMBDA e : e.key = k)

LEMMA FirstWith ==
    ASSUME NEW list \in Seq(Entries), NEW k, NEW m, m = First(list, k)
    PROVE  \/ m = 0 /\ \A j \in DOMAIN list : list[j].key # k
           \/ m \in DOMAIN list /\ list[m].key = k /\ \A j \in DOMAIN list : list[j].key = k => m <= j
  <1> DEFINE I == {j \in 1 .. Len(list) : list[j].key = k}
  <1>1. I \subseteq Nat /\ DOMAIN list = 1 .. Len(list)
    BY LenProperties
  <1>2. \A j \in DOMAIN list : list[j].key = k => j \in I
    BY <1>1
  <1>3. \A j \in I : j \in DOMAIN list /\ list[j].key = k
    BY <1>1
  <1>4. I = {} => \A j \in DOMAIN list : list[j].key # k
    BY <1>2
  <1> HIDE DEF I
  <1>5. m = IF I # {} THEN Min(I) ELSE 0
    BY DEF First, SelectInSeq, I
  <1>6. CASE I = {}
    BY <1>4, <1>5, <1>6
  <1>7. CASE I # {}
    <2>1. PICK i \in I : \A j \in I : i <= j
      BY <1>1, <1>7, LeastNat
    <2>2. m = i
      BY <1>1, <1>5, <1>7, <2>1, MinIs
    <2> QED
      BY <1>2, <1>3, <2>1, <2>2
  <1> QED
    BY <1>6, <1>7

InsideOf(f, s, k) == {i \in DOMAIN f : Under(f, i, s) /\ f[i].name = k}

LEMMA SaysIs ==
    ASSUME NEW s, NEW k
    PROVE  Says(s, k) =
             IF InsideOf(file, s, k) = {} THEN <<>>
             ELSE <<file[CHOOSE i \in InsideOf(file, s, k) : \A j \in InsideOf(file, s, k) : i <= j].value>>
  <1> DEFINE inside == {i \in DOMAIN file :
            /\ file[i].kind = "entry" /\ file[i].name = k
            /\ \E h \in Headers : /\ h < i /\ file[h].name = s
                                  /\ \A g \in Headers : g <= h \/ g > i}
  <1>1. inside = InsideOf(file, s, k)
    BY DEF InsideOf, Under, Headers, HeadersOf
  <1>2. Says(s, k) = IF inside = {} THEN <<>>
                     ELSE <<file[CHOOSE i \in inside : \A j \in inside : i <= j].value>>
    BY DEF Says
  <1> HIDE DEF inside
  <1> QED
    BY <1>1, <1>2

\* A list that holds the entries of a section answers as the file does.
LEMMA ListAnswers ==
    ASSUME TypeOK, NEW list \in Seq(Entries), From(file, list), NEW s, Holds(file, list, s), NEW k
    PROVE  Found(list, First(list, k)) = Says(s, k)
  <1>1. file \in Seq(Line) /\ DOMAIN file \subseteq Nat /\ DOMAIN list \subseteq Nat
        /\ \A i \in DOMAIN file : file[i] \in Line
    <2>1. file \in Seq(Line)
      BY DEF TypeOK
    <2> QED
      BY <2>1, LenProperties, ElementOfSeq
  <1>2. ASSUME NEW j \in DOMAIN list
        PROVE  /\ list[j].line \in DOMAIN file /\ Under(file, list[j].line, s)
               /\ list[j].key = file[list[j].line].name
               /\ list[j].value = file[list[j].line].value
    <2>1. PICK i \in DOMAIN file : i = list[j].line /\ list[j] = Entry(Trim(file[i].text), i)
      BY DEF From
    <2>2. Under(file, i, s)
      BY <2>1 DEF Holds
    <2>3. file[i].kind = "entry" /\ file[i] \in Line
      BY <1>1, <2>2 DEF Under
    <2>4. KeyOf(Trim(file[i].text)) = file[i].name /\ ValueOf(Trim(file[i].text)) = file[i].value
      BY <2>3, LineMeans
    <2>5. list[j].key = file[i].name /\ list[j].value = file[i].value
      BY <2>1, <2>4, EntryFields
    <2> QED
      BY <2>1, <2>2, <2>5
  <1>3. ASSUME NEW i \in InsideOf(file, s, k) PROVE \E j \in DOMAIN list : list[j].line = i /\ list[j].key = k
    <2>1. i \in DOMAIN file /\ Under(file, i, s) /\ file[i].name = k
      BY DEF InsideOf
    <2>2. PICK j \in DOMAIN list : list[j].line = i
      BY <2>1 DEF Holds
    <2> QED
      BY <1>2, <2>1, <2>2
  <1>4. PICK m : m = First(list, k)
    OBVIOUS
  <1>5. \/ m = 0 /\ \A j \in DOMAIN list : list[j].key # k
        \/ m \in DOMAIN list /\ list[m].key = k /\ \A j \in DOMAIN list : list[j].key = k => m <= j
    BY <1>4, FirstWith
  <1>6. CASE \A j \in DOMAIN list : list[j].key # k
    <2>1. InsideOf(file, s, k) = {}
      BY <1>3, <1>6
    <2>2. m = 0
      BY <1>5, <1>6
    <2> QED
      BY <1>4, <2>1, <2>2, SaysIs DEF Found
  <1>7. CASE m \in DOMAIN list /\ list[m].key = k /\ \A j \in DOMAIN list : list[j].key = k => m <= j
    <2>1. PICK i : i = list[m].line
      OBVIOUS
    <2>2. i \in InsideOf(file, s, k)
      BY <1>2, <1>7, <2>1 DEF InsideOf
    <2>3. ASSUME NEW x \in InsideOf(file, s, k) PROVE i <= x
      <3>1. PICK j \in DOMAIN list : list[j].line = x /\ list[j].key = k
        BY <1>3
      <3>2. m <= j
        BY <1>7, <3>1
      <3>3. m < j => i < x
        BY <1>7, <2>1, <3>1 DEF From
      <3>4. i \in Nat /\ x \in Nat /\ m \in Nat /\ j \in Nat
        BY <1>1, <1>2, <1>7, <2>1, <3>1
      <3>5. m = j => i = x
        BY <2>1, <3>1
      <3> QED
        BY <3>2, <3>3, <3>4, <3>5
    <2>4. PICK c : c = CHOOSE y \in InsideOf(file, s, k) : \A j \in InsideOf(file, s, k) : y <= j
      OBVIOUS
    <2>5. c \in InsideOf(file, s, k) /\ \A j \in InsideOf(file, s, k) : c <= j
      BY <2>2, <2>3, <2>4
    <2>6. c = i
      <3>1. c \in Nat /\ i \in Nat /\ c <= i /\ i <= c
        BY <1>1, <2>2, <2>3, <2>5 DEF InsideOf
      <3> QED
        BY <3>1
    <2>7. Says(s, k) = <<file[i].value>>
      BY <2>2, <2>4, <2>6, SaysIs
    <2>8. m # 0
      BY <1>7, LenProperties
    <2>9. list[m].value = file[i].value
      BY <1>2, <1>7, <2>1
    <2> QED
      BY <1>4, <2>7, <2>8, <2>9 DEF Found
  <1> QED
    BY <1>5, <1>6, <1>7

LEMMA FileAnswers ==
    ASSUME TypeOK, Kept, Done, NEW s, NEW k
    PROVE  GetItem(s, k) = Says(s, k)
  <1>1. CASE s \in DOMAIN m_SectionEntiesMap
    <2>1. PICK list : list = m_SectionEntiesMap[s]
      OBVIOUS
    <2>2. list \in Seq(Entries) /\ From(file, list) /\ Holds(file, list, s)
      BY <1>1, <2>1 DEF TypeOK, Kept, Done
    <2>3. Found(list, First(list, k)) = Says(s, k)
      BY <2>2, ListAnswers
    <2> QED
      BY <1>1, <2>1, <2>3 DEF GetItem, First
  <1>2. CASE s \notin DOMAIN m_SectionEntiesMap
    <2>1. Holds(file, <<>>, s)
      BY <1>2 DEF Done
    <2>2. InsideOf(file, s, k) = {}
      <3>1. DOMAIN <<>> = {}
        OBVIOUS
      <3> QED
        BY <2>1, <3>1 DEF Holds, InsideOf
    <2> QED
      BY <1>2, <2>2, SaysIs DEF GetItem
  <1> QED
    BY <1>1, <1>2

\* ReadsBack: load finds in every well formed file the value of the first entry
\* with the key in the section, without blanks and comments, and nothing else.
THEOREM ReadBackSafe == Spec => []ReadsBack
  <1>1. TypeOK /\ Kept /\ Right => ReadsBack
    <2> SUFFICES ASSUME TypeOK, Kept, Right, phase = "loaded", WellFormed, NEW s \in Name, NEW k \in Name
                 PROVE  GetItem(s, k) = Says(s, k)
      BY DEF ReadsBack
    <2>1. Done
      BY FormedIs DEF Right
    <2> QED
      BY <2>1, FileAnswers
  <1> QED
    BY <1>1, AlwaysRight, PTL

-----------------------------------------------------------------------------
(* The settings *)

Values == {ValueOf(Trim(w.text)) : w \in Line}

\* GetItem in a given map.
LookUp(map, s, k) ==
    IF s \notin DOMAIN map THEN <<>> ELSE Found(map[s], First(map[s], k))

Item(i) == LookUp(m_SectionEntiesMap, Wanted[i][1], Wanted[i][2])

\* The settings are what the first look-ups found; the one that stopped
\* configurate found nothing.
Assigned ==
    /\ setting \in Seq(Values)
    /\ phase \in {"closed", "reading"} => setting = <<>>
    /\ phase \in {"loaded", "configured"} => \A i \in DOMAIN setting : <<setting[i]>> = Item(i)
    /\ phase = "configured" /\ Len(setting) < Len(Wanted) => Item(Len(setting) + 1) = <<>>

LEMMA ItemIs ==
    ASSUME NEW s, NEW k
    PROVE  GetItem(s, k) = LookUp(m_SectionEntiesMap, s, k)
  BY DEF GetItem, LookUp, First

LEMMA ItemType ==
    ASSUME TypeOK, NEW s, NEW k
    PROVE  \/ LookUp(m_SectionEntiesMap, s, k) = <<>>
           \/ \E v \in Values : LookUp(m_SectionEntiesMap, s, k) = <<v>>
  <1>1. CASE s \in DOMAIN m_SectionEntiesMap
    <2>1. PICK list : list = m_SectionEntiesMap[s]
      OBVIOUS
    <2>2. list \in Seq(Entries)
      BY <1>1, <2>1 DEF TypeOK
    <2>3. PICK m : m = First(list, k)
      OBVIOUS
    <2>4. m = 0 \/ m \in DOMAIN list
      BY <2>2, <2>3, FirstWith
    <2>5. LookUp(m_SectionEntiesMap, s, k) = Found(list, m)
      BY <1>1, <2>1, <2>3 DEF LookUp
    <2>6. CASE m = 0
      BY <2>5, <2>6 DEF Found
    <2>7. CASE m \in DOMAIN list
      <3>1. list[m] \in Entries /\ m # 0
        BY <2>2, <2>7, ElementOfSeq, LenProperties
      <3>2. list[m].value \in Values
        BY <3>1, EntryFields DEF Entries, Values
      <3> QED
        BY <2>5, <3>1, <3>2 DEF Found
    <2> QED
      BY <2>4, <2>6, <2>7
  <1>2. CASE s \notin DOMAIN m_SectionEntiesMap
    BY <1>2 DEF LookUp
  <1> QED
    BY <1>1, <1>2

LEMMA InitAssigned ==
    Init => Assigned
  <1> SUFFICES ASSUME Init PROVE Assigned
    OBVIOUS
  <1>1. setting = <<>> /\ phase = "closed"
    BY DEF Init
  <1>2. setting \in Seq(Values)
    BY <1>1, EmptySeq
  <1> QED
    BY <1>1, <1>2 DEF Assigned

LEMMA ConfigurateAssigned ==
    ASSUME TypeOK, Assigned, Configurate
    PROVE  Assigned'
  <1>1. PICK n \in Nat : n = Len(setting)
    BY LenProperties DEF Assigned
  <1>2. /\ phase = "loaded" /\ n < Len(Wanted) /\ m_SectionEntiesMap' = m_SectionEntiesMap
        /\ setting' = setting \o Item(n + 1)
        /\ phase' = IF Item(n + 1) = <<>> \/ Len(setting') = Len(Wanted) THEN "configured" ELSE phase
    BY <1>1, ItemIs DEF Configurate, Item
  <1>3. \A i : Item(i)' = Item(i)
    BY <1>2 DEF Item
  <1>4. /\ setting \in Seq(Values) /\ DOMAIN setting = 1 .. n
        /\ \A i \in DOMAIN setting : <<setting[i]>> = Item(i)
    BY <1>1, <1>2, LenProperties DEF Assigned
  <1>5. CASE Item(n + 1) = <<>>
    <2>1. setting' = setting
      BY <1>2, <1>4, <1>5, ConcatEmptySeq
    <2>2. phase' = "configured"
      BY <1>2, <1>5
    <2> QED
      BY <1>1, <1>3, <1>4, <1>5, <2>1, <2>2 DEF Assigned
  <1>6. ASSUME NEW v \in Values, Item(n + 1) = <<v>> PROVE Assigned'
    <2>1. setting' = Append(setting, v)
      <3>1. setting' = setting \o <<v>>
        BY <1>2, <1>6
      <3> QED
        BY <1>4, <3>1, AppendIsConcat
    <2>2. /\ setting' \in Seq(Values) /\ Len(setting') = n + 1 /\ DOMAIN setting' = 1 .. n + 1
          /\ \A i \in DOMAIN setting : setting'[i] = setting[i]
          /\ setting'[n + 1] = v
      BY <1>1, <1>4, <2>1, Appended
    <2>3. ASSUME NEW i \in DOMAIN setting' PROVE <<setting'[i]>> = Item(i)
      <3>1. CASE i \in DOMAIN setting
        BY <1>4, <2>2, <3>1
      <3>2. CASE i = n + 1
        BY <1>6, <2>2, <3>2
      <3> QED
        BY <1>4, <2>2, <3>1, <3>2
    <2>4. phase' = "configured" => Len(setting') = Len(Wanted)
      <3>1. <<v>> # <<>>
        OBVIOUS
      <3> QED
        BY <1>2, <1>6, <3>1
    <2>5. phase' \in {"loaded", "configured"}
      BY <1>2
    <2>6. Len(Wanted) \in Nat
      BY WantedAssumption, LenProperties
    <2> QED
      BY <1>3, <2>2, <2>3, <2>4, <2>5, <2>6 DEF Assigned
  <1> QED
    BY <1>5, <1>6, ItemType DEF Item

LEMMA NextAssigned ==
    TypeOK /\ Assigned /\ [Next]_vars => Assigned'
  <1> SUFFICES ASSUME TypeOK, Assigned, [Next]_vars PROVE Assigned'
    OBVIOUS
  <1>1. CASE Open
    BY <1>1 DEF Open, Assigned
  <1>2. ASSUME NEW w \in Line, ReadSkipped(w) \/ ReadSection(w) \/ ReadEntry(w) PROVE Assigned'
    <2>1. phase = "reading" /\ phase' \in {"reading", "crashed"} /\ setting' = setting
      BY <1>2 DEF ReadSkipped, ReadSection, ReadEntry, Reads
    <2> QED
      BY <2>1 DEF Assigned
  <1>3. CASE EndOfFile
    <2>1. phase = "reading" /\ phase' = "loaded" /\ setting' = setting
      BY <1>3 DEF EndOfFile
    <2>2. setting = <<>> /\ DOMAIN setting = {}
      BY <2>1, LenProperties, EmptySeq DEF Assigned
    <2> QED
      BY <2>1, <2>2 DEF Assigned
  <1>4. CASE Configurate
    BY <1>4, ConfigurateAssigned
  <1>5. CASE UNCHANGED vars
    BY <1>5 DEF vars, Assigned, Item
  <1> QED
    BY <1>1, <1>2, <1>3, <1>4, <1>5 DEF Next

\* SettingsFollowFile: configurate assigns what a well formed file says of the
\* wanted settings, up to the first one it does not give.
THEOREM SettingsSafe == Spec => []SettingsFollowFile
  <1>1. TypeOK /\ Kept /\ Right /\ Assigned => SettingsFollowFile
    <2> SUFFICES ASSUME TypeOK, Kept, Right, Assigned, phase = "configured", WellFormed
                 PROVE  /\ \A i \in DOMAIN setting : <<setting[i]>> = Says(Wanted[i][1], Wanted[i][2])
                        /\ Len(setting) < Len(Wanted) =>
                             Says(Wanted[Len(setting) + 1][1], Wanted[Len(setting) + 1][2]) = <<>>
      BY DEF SettingsFollowFile
    <2>1. Done
      BY FormedIs DEF Right
    <2>2. \A i : Item(i) = Says(Wanted[i][1], Wanted[i][2])
      BY <2>1, FileAnswers, ItemIs DEF Item
    <2> QED
      BY <2>2 DEF Assigned
  <1> QED
    BY <1>1, InitKept, InitRight, InitAssigned, NextKept, NextRight, NextAssigned, PTL DEF Spec

=============================================================================
