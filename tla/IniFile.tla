------------------------------- MODULE IniFile -------------------------------
(***************************************************************************)
(* The configuration: IniFileIterator.cpp reads settings.ini line by line  *)
(* into a map from section to entries, and SoftPhone::configurate looks    *)
(* its settings up in a fixed order.                                       *)
(*                                                                         *)
(* A line is a sequence of tokens: the marks the parser looks for, " " for *)
(* any white space, and words that hold none of these.                     *)
(***************************************************************************)
EXTENDS Naturals, Sequences, SequencesExt

CONSTANTS
    Line,       \* lines a person may write: their text and what they mean
    Wanted,     \* <<section, key>> of each setting, in configurate's order
    MaxLines    \* bound: lines in the file

Space == " "
CommentMark == {"#", ";"}

ASSUME BoundAssumption == MaxLines \in Nat
ASSUME WantedAssumption == Wanted \in Seq(Seq(STRING) \X Seq(STRING))

\* How settings.ini is written.  The tokens from a to b are blanks:
Blanks(s, a, b) == \A i \in a .. b : s[i] = Space

\* n stands in s between blanks, from after a to before b:
Stands(n, s, a, b) ==
    \E i \in a + 1 .. b - Len(n) :
        /\ SubSeq(s, i, i + Len(n) - 1) = n
        /\ Blanks(s, a + 1, i - 1) /\ Blanks(s, i + Len(n), b - 1)

\* What a name or a value is: no blanks around it, no mark in it.
Trimmed(n) == n # <<>> => n[1] # Space /\ n[Len(n)] # Space
Bare(n) == Trimmed(n) /\ \A i \in DOMAIN n : n[i] \notin CommentMark \cup {"="}

IsHeaderLine(s, n) ==
    \E a, b \in DOMAIN s :
        /\ Blanks(s, 1, a - 1) /\ s[a] = "[" /\ s[b] = "]" /\ Blanks(s, b + 1, Len(s))
        /\ a < b /\ Stands(n, s, a, b)

IsEntryLine(s, k, v) ==
    \E e \in DOMAIN s, c \in 1 .. Len(s) + 1 :
        /\ s[e] = "=" /\ Stands(k, s, 0, e)
        /\ e < c /\ Stands(v, s, e, c) /\ (c <= Len(s) => s[c] \in CommentMark)

\* "odd" lines are those whose meaning no one has written down.
LineOf(w) ==
    \/ w.kind = "blank" /\ Blanks(w.text, 1, Len(w.text))
    \/ w.kind = "comment" /\ \E a \in DOMAIN w.text :
            Blanks(w.text, 1, a - 1) /\ w.text[a] \in CommentMark
    \/ w.kind = "header" /\ Trimmed(w.name) /\ IsHeaderLine(w.text, w.name)
    \/ /\ w.kind = "entry" /\ IsEntryLine(w.text, w.name, w.value)
       /\ Bare(w.name) /\ w.name # <<>> /\ w.name[1] # "[" /\ Bare(w.value)
    \/ w.kind = "odd"
ASSUME LineAssumption ==
    \A w \in Line :
        LineOf(w) /\ w.text \in Seq(STRING) /\ w.name \in Seq(STRING) /\ w.value \in Seq(STRING)

VARIABLES
    phase,               \* where load and configurate are
    file,                \* the lines read so far
    section, validSection, validEntries, noSection, entryList,   \* locals of load
    m_SectionEntiesMap,  \* section -> its entries
    setting              \* the settings assigned so far

parser == <<section, validSection, validEntries, noSection, entryList>>
vars == <<phase, file, parser, m_SectionEntiesMap, setting>>

-----------------------------------------------------------------------------
(* Text *)

\* Trim drops white space at both ends.
Trim(s) ==
    LET first == SelectInSeq(s, LAMBDA t : t # Space)
    IN IF first = 0 THEN <<>> ELSE SubSeq(s, first, SelectLastInSeq(s, LAMBDA t : t # Space))

\* The part of s before the first token that is in marks.
Before(s, marks) ==
    LET i == SelectInSeq(s, LAMBDA t : t \in marks)
    IN IF i = 0 THEN s ELSE SubSeq(s, 1, i - 1)

RemoveComment(s) == Before(s, CommentMark)

\* splitString(s, '=') keeps no empty component: the first one starts at the
\* first token that is no delimiter and the next one likewise after it.
FromComponent(s) ==
    LET i == SelectInSeq(s, LAMBDA t : t # "=")
    IN IF i = 0 THEN <<>> ELSE SubSeq(s, i, Len(s))
FirstComponent(s) == Before(FromComponent(s), {"="})
AfterComponent(s) ==
    LET t == FromComponent(s)
    IN FromComponent(SubSeq(t, Len(FirstComponent(s)) + 1, Len(t)))

\* getKey and getValue.  (Mutant: the comment stays in the value.)
KeyOf(s) == Trim(FirstComponent(s))
ValueOfKeepsComment(s) == Trim(FirstComponent(AfterComponent(s)))
ValueOf(s) == Trim(RemoveComment(Trim(FirstComponent(AfterComponent(s)))))

\* getSection drops the first character and the last, whatever they are.
SectionOf(s) == Trim(SubSeq(s, 2, Len(s) - 1))

IsSkipped(s) == s # <<>> => s[1] \in CommentMark
IsSection(s) == s # <<>> /\ s[1] = "["

\* line is history: where it was read.
Entry(s, n) == [key |-> KeyOf(s), value |-> ValueOf(s), line |-> n]

-----------------------------------------------------------------------------
(* load *)

Init ==
    /\ phase = "closed"
    /\ file = <<>>
    /\ section = <<>>
    /\ validSection = FALSE /\ validEntries = FALSE /\ noSection = FALSE
    /\ entryList = <<>>
    /\ m_SectionEntiesMap = [s \in {} |-> <<>>]
    /\ setting = <<>>

\* m_SectionEntiesMap[s] = entryList
Stored(s) ==
    [t \in DOMAIN m_SectionEntiesMap \cup {s} |->
        IF t = s THEN entryList ELSE m_SectionEntiesMap[t]]

\* The file is opened, or m_Loaded stays false.
Open ==
    /\ phase = "closed"
    /\ phase' \in {"reading", "unreadable"}
    /\ UNCHANGED <<file, parser, m_SectionEntiesMap, setting>>

Reads(w) ==
    /\ phase = "reading"
    /\ Len(file) < MaxLines
    /\ file' = Append(file, w)
    /\ UNCHANGED setting

ReadSkipped(w) ==
    /\ Reads(w)
    /\ IsSkipped(Trim(w.text))
    /\ UNCHANGED <<phase, parser, m_SectionEntiesMap>>

\* A header stores the section before it, if that had entries; otherwise the
\* list is carried over.  (Mutant: the list is not cleared.)
CloseSectionKeepsList ==
    /\ m_SectionEntiesMap' =
         IF validSection /\ validEntries THEN Stored(section) ELSE m_SectionEntiesMap
    /\ UNCHANGED entryList
CloseSection ==
    IF validSection /\ validEntries
    THEN m_SectionEntiesMap' = Stored(section) /\ entryList' = <<>>
    ELSE UNCHANGED <<m_SectionEntiesMap, entryList>>

ReadSection(w) ==
    LET line == Trim(w.text) IN
    /\ Reads(w)
    /\ ~IsSkipped(line) /\ IsSection(line)
    /\ CloseSection
    /\ section' = SectionOf(line)
    /\ validSection' = TRUE
    /\ validEntries' = FALSE
    /\ UNCHANGED <<phase, noSection>>

\* Any other line is an entry, unless its key is empty.  A line of nothing
\* but delimiters has no component and components[0] is read from address 0.
ReadEntry(w) ==
    LET line == Trim(w.text) IN
    /\ Reads(w)
    /\ ~IsSkipped(line) /\ ~IsSection(line)
    /\ phase' = IF FirstComponent(line) = <<>> THEN "crashed" ELSE phase
    /\ validEntries' = TRUE
    /\ noSection' = (noSection \/ ~validSection)
    /\ entryList' = IF KeyOf(line) = <<>> THEN entryList ELSE Append(entryList, Entry(line, Len(file) + 1))
    /\ UNCHANGED <<section, validSection, m_SectionEntiesMap>>

\* The end of the file stores the last section, or what there is without any.
StoreLast ==
    CASE validEntries /\ validSection -> Stored(section)
      [] validEntries /\ ~validSection /\ noSection -> Stored(<<>>)
      [] OTHER -> m_SectionEntiesMap

EndOfFile ==
    /\ phase = "reading"
    /\ m_SectionEntiesMap' = StoreLast
    /\ phase' = "loaded"
    /\ UNCHANGED <<file, parser, setting>>

-----------------------------------------------------------------------------
(* Looking up *)

\* getItemByKey: the value of the first entry with that key, or nothing, which
\* stands for ItemNotFoundException.  (Mutant: the last entry with that key.)
Found(list, i) == IF i = 0 THEN <<>> ELSE <<list[i].value>>
GetItemLast(s, k) ==
    IF s \notin DOMAIN m_SectionEntiesMap THEN <<>>
    ELSE LET list == m_SectionEntiesMap[s]
         IN Found(list, SelectLastInSeq(list, LAMBDA e : e.key = k))
GetItem(s, k) ==
    IF s \notin DOMAIN m_SectionEntiesMap THEN <<>>
    ELSE LET list == m_SectionEntiesMap[s]
         IN Found(list, SelectInSeq(list, LAMBDA e : e.key = k))

\* configurate assigns one setting after the other; the first that is missing
\* throws and the rest keep what they had.
Configurate ==
    LET next == Wanted[Len(setting) + 1]
        item == GetItem(next[1], next[2])
    IN
    /\ phase = "loaded"
    /\ Len(setting) < Len(Wanted)
    /\ setting' = setting \o item
    /\ phase' = IF item = <<>> \/ Len(setting') = Len(Wanted) THEN "configured" ELSE phase
    /\ UNCHANGED <<file, parser, m_SectionEntiesMap>>

-----------------------------------------------------------------------------
Next ==
    \/ Open
    \/ \E w \in Line : ReadSkipped(w) \/ ReadSection(w) \/ ReadEntry(w)
    \/ EndOfFile
    \/ Configurate

Spec == Init /\ [][Next]_vars

-----------------------------------------------------------------------------
(* Properties *)

\* Whatever the file looks like, what is stored is what its lines say in the
\* order they say it, and no line is stored twice, not even one that is carried
\* into a later section.
FromFile(list) ==
    \A i \in DOMAIN list :
        /\ list[i].line \in DOMAIN file
        /\ list[i] = Entry(Trim(file[list[i].line].text), list[i].line)
        /\ \A j \in DOMAIN list : i < j => list[i].line < list[j].line
Shares(p, q) == \E i \in DOMAIN p, j \in DOMAIN q : p[i].line = q[j].line
StoredOnce ==
    \A s \in DOMAIN m_SectionEntiesMap :
        /\ FromFile(m_SectionEntiesMap[s])
        /\ \A t \in DOMAIN m_SectionEntiesMap \ {s} :
              ~Shares(m_SectionEntiesMap[s], m_SectionEntiesMap[t])

\* A file as settings.ini is written: a header comes first, no header comes
\* twice, and every line is one whose meaning is known.
Headers == {i \in DOMAIN file : file[i].kind = "header"}
WellFormed ==
    /\ \A i \in DOMAIN file : file[i].kind # "odd"
    /\ \A i \in DOMAIN file : file[i].kind = "entry" => \E h \in Headers : h < i
    /\ \A g, h \in Headers : file[g].name = file[h].name => g = h

\* What such a file says of key k in section s: the first entry with that key
\* between the header and the next one.
Says(s, k) ==
    LET inside == {i \in DOMAIN file :
            /\ file[i].kind = "entry" /\ file[i].name = k
            /\ \E h \in Headers : /\ h < i /\ file[h].name = s
                                  /\ \A g \in Headers : g <= h \/ g > i}
    IN IF inside = {} THEN <<>>
       ELSE <<file[CHOOSE i \in inside : \A j \in inside : i <= j].value>>

Name == {file[i].name : i \in DOMAIN file}

\* Every entry of such a file is found in its section, with its value free of
\* blanks and comments, and nothing else is found.
ReadsBack ==
    phase = "loaded" /\ WellFormed => \A s, k \in Name : GetItem(s, k) = Says(s, k)

\* From the text to the program: the settings are those the file gives, up to
\* the first one it does not give.
SettingsFollowFile ==
    phase = "configured" /\ WellFormed =>
        /\ \A i \in DOMAIN setting : <<setting[i]>> = Says(Wanted[i][1], Wanted[i][2])
        /\ Len(setting) < Len(Wanted) =>
              Says(Wanted[Len(setting) + 1][1], Wanted[Len(setting) + 1][2]) = <<>>
=============================================================================
