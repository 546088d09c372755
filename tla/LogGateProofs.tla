----------------------------- MODULE LogGateProofs -----------------------------
(***************************************************************************)
(* The gate's verdict is the right one, for every log and every allowlist  *)
(* of whatever length: reading the allowlist, grouping the lines and       *)
(* checking the records one at a time, it comes to what a definition over  *)
(* the whole log and the whole allowlist says.                             *)
(***************************************************************************)
EXTENDS LogGate, SequenceTheorems, TLAPS

Record == [level : STRING, logger : STRING, says : SUBSET STRING]

TypeInv ==
    /\ file \in Seq(FileLines)
    /\ log \in Seq(LogLines)
    /\ next \in Nat \ {0}
    /\ reason \in BOOLEAN
    /\ allowlist \in Seq(STRING)
    /\ records \in Seq(Record)
    /\ phase # "exited" => readable /\ exit = -1

-----------------------------------------------------------------------------
\* The allowlist.

\* The code's reading of a reason: an entry, or a run of entries, follows a comment
\* that says why.
Excused(j) ==
    \E c \in 1 .. j - 1 :
        /\ file[c].kind = "comment" /\ file[c].text # NoText
        /\ (c + 1) .. j \subseteq Entries

\* Lines c + 1 to n - 1 are entries under the reason that line c gives.
Because(n) ==
    \E c \in 1 .. n - 1 :
        /\ file[c].kind = "comment" /\ file[c].text # NoText
        /\ (c + 1) .. (n - 1) \subseteq Entries

\* The lines before line n are as they must be.
SoundUpTo(n) ==
    \A j \in DOMAIN file : j < n =>
        /\ file[j].kind # "bad_regex"
        /\ j \in Entries => Excused(j)

\* allowlist holds the entries before line n and nothing else.
Read(n) ==
    /\ \A i \in DOMAIN allowlist : \E j \in Entries : j < n /\ file[j].text = allowlist[i]
    /\ \A j \in Entries : j < n => \E i \in DOMAIN allowlist : file[j].text = allowlist[i]

-----------------------------------------------------------------------------
\* The records.

\* The lines before line n of the record that starts at line i.
Body(i, n) == {k \in i .. n - 1 : Starts \cap (i + 1) .. k = {}}

\* No later record starts before line n.
Open(i, n) == Starts \cap (i + 1) .. (n - 1) = {}

\* record is what the lines before line n make of the one that starts at line i.
Same(record, i, n) ==
    /\ record.level = log[i].level
    /\ record.logger = log[i].logger
    /\ record.says = UNION {log[k].says : k \in Body(i, n)}

\* The rows are the records that start before line n, and the last one is the one
\* still open.
GroupsOf(rows, n) ==
    /\ \A r \in DOMAIN rows : \E i \in Starts :
          i < n /\ (Open(i, n) <=> r = Len(rows)) /\ Same(rows[r], i, n)
    /\ \A i \in Starts : i < n => \E r \in DOMAIN rows :
          (Open(i, n) <=> r = Len(rows)) /\ Same(rows[r], i, n)

Grouped(n) == (records = <<>> <=> n = 1) /\ GroupsOf(records, n)

-----------------------------------------------------------------------------
\* The findings.

\* A rule of check_records finds something.
IsProblem(record) == GENERIC_IGNORES \notin record.says /\ rules(record) # {}

HiddenFrom(record) == \E i \in DOMAIN allowlist : allowlist[i] \in record.says

CheckedUpTo(n) ==
    /\ findings = {r \in DOMAIN records : r < n /\ IsProblem(records[r]) /\ ~ HiddenFrom(records[r])}
    /\ used = {i \in DOMAIN allowlist : \E r \in DOMAIN records :
                  r < n /\ IsProblem(records[r]) /\ allowlist[i] \in records[r].says}

-----------------------------------------------------------------------------
\* The verdict.

Unsound ==
    \/ \E j \in DOMAIN file : file[j].kind = "bad_regex"
    \/ \E j \in Entries : ~ Excused(j)

NoRecord == \A i \in DOMAIN log : log[i].level = "none"

Allowed == /\ \A i \in Problems : \E j \in Entries : Hides(j, i)
           /\ \A j \in Entries : \E i \in Problems : Hides(j, i)

Verdict == IF Unsound \/ NoRecord THEN 2 ELSE IF Allowed THEN 0 ELSE 1

VerdictInv == phase = "exited" => exit = IF readable THEN Verdict ELSE 2

-----------------------------------------------------------------------------
\* What holds at each step of the way.

OpeningInv ==
    phase = "open" => next = 1 /\ allowlist = <<>> /\ ~ reason
                      /\ records = <<>> /\ findings = {} /\ used = {}

ReadingInv ==
    phase = "allowlist" =>
        /\ next <= Len(file) + 1
        /\ SoundUpTo(next) /\ Read(next)
        /\ reason <=> Because(next)
        /\ records = <<>> /\ findings = {} /\ used = {}

ParsingInv ==
    phase = "parse" =>
        /\ next <= Len(log) + 1
        /\ SoundUpTo(Len(file) + 1) /\ Read(Len(file) + 1)
        /\ Grouped(next)
        /\ findings = {} /\ used = {}

CheckingInv ==
    phase = "check" =>
        /\ next <= Len(records) + 1
        /\ SoundUpTo(Len(file) + 1) /\ Read(Len(file) + 1)
        /\ Grouped(Len(log) + 1)
        /\ \E r \in DOMAIN records : records[r].level # "none"
        /\ CheckedUpTo(next)

GateInv == TypeInv /\ OpeningInv /\ ReadingInv /\ ParsingInv /\ CheckingInv /\ VerdictInv

-----------------------------------------------------------------------------
\* Lemmas about lines.

LEMMA Appended ==
    ASSUME NEW S, NEW s \in Seq(S), NEW e \in S, NEW t, t = Append(s, e)
    PROVE  /\ t \in Seq(S) /\ Len(t) = Len(s) + 1
           /\ DOMAIN t = DOMAIN s \cup {Len(s) + 1} /\ Len(s) + 1 \notin DOMAIN s
           /\ t[Len(s) + 1] = e
           /\ \A i \in DOMAIN s : t[i] = s[i]
<1>1. /\ t \in Seq(S) /\ Len(t) = Len(s) + 1 /\ t[Len(s) + 1] = e
      /\ \A i \in 1 .. Len(s) : t[i] = s[i]
  BY AppendProperties
<1>2. DOMAIN s = 1 .. Len(s) /\ Len(s) \in Nat /\ DOMAIN t = 1 .. Len(t)
  BY <1>1
<1>3. 1 .. (Len(s) + 1) = 1 .. Len(s) \cup {Len(s) + 1} /\ Len(s) + 1 \notin 1 .. Len(s)
  BY <1>2
<1> QED
  BY <1>1, <1>2, <1>3

LEMMA GateInit == Init => GateInv
<1> SUFFICES ASSUME Init PROVE GateInv
  OBVIOUS
<1>1. file \in Seq(FileLines) /\ log \in Seq(LogLines)
  BY DEF Init, BoundedSeq, SeqOf
<1>2. TypeInv
  <2>1. allowlist \in Seq(STRING) /\ records \in Seq(Record) /\ next \in Nat \ {0}
    BY DEF Init
  <2>2. reason \in BOOLEAN /\ exit = -1 /\ readable
    BY DEF Init
  <2> QED
    BY <1>1, <2>1, <2>2 DEF TypeInv
<1>3. OpeningInv /\ ReadingInv /\ ParsingInv /\ CheckingInv /\ VerdictInv
  BY DEF Init, OpeningInv, ReadingInv, ParsingInv, CheckingInv, VerdictInv
<1> QED
  BY <1>2, <1>3 DEF GateInv

\* A line that starts a record ends the one before it.
LEMMA BodyAtStart ==
    ASSUME TypeInv, NEW n \in Starts
    PROVE  /\ n \in Nat \ {0}
           /\ Body(n, n + 1) = {n} /\ Open(n, n + 1)
           /\ \A i \in Starts : i < n => Body(i, n + 1) = Body(i, n) /\ ~ Open(i, n + 1)
<1>1. Starts \subseteq Nat \ {0}
  BY DEF Starts, TypeInv
<1>2. ASSUME NEW i \in Starts, i < n
      PROVE  Body(i, n + 1) = Body(i, n) /\ ~ Open(i, n + 1)
  <2>1. n \in (i + 1) .. n
    BY <1>1, <1>2
  <2>2. n \in Starts \cap (i + 1) .. n /\ (n + 1) - 1 = n
    BY <1>1, <2>1
  <2>3. i .. n = i .. (n - 1) \cup {n}
    BY <1>1, <1>2
  <2> QED
    BY <2>2, <2>3 DEF Body, Open
<1>3. Body(n, n + 1) = {n} /\ Open(n, n + 1)
  <2>1. (n + 1) - 1 = n /\ n .. n = {n} /\ (n + 1) .. n = {}
    BY <1>1
  <2> QED
    BY <2>1 DEF Body, Open
<1> QED
  BY <1>1, <1>2, <1>3

\* Another line goes to the record that is open.
LEMMA BodyElsewhere ==
    ASSUME TypeInv, NEW n \in Nat \ {0}, n \notin Starts, NEW i \in Starts, i < n
    PROVE  /\ Open(i, n + 1) <=> Open(i, n)
           /\ Open(i, n) => Body(i, n + 1) = Body(i, n) \cup {n}
           /\ ~ Open(i, n) => Body(i, n + 1) = Body(i, n)
<1>1. i \in Nat \ {0}
  BY DEF Starts, TypeInv
<1>2. (n + 1) - 1 = n /\ i .. n = i .. (n - 1) \cup {n}
      /\ (i + 1) .. n = (i + 1) .. (n - 1) \cup {n} /\ n \notin i .. (n - 1)
  BY <1>1
<1>3. Starts \cap (i + 1) .. n = Starts \cap (i + 1) .. (n - 1)
  BY <1>2
<1> QED
  BY <1>2, <1>3 DEF Body, Open

LEMMA Position ==
    ASSUME TypeInv
    PROVE  /\ Len(file) \in Nat /\ DOMAIN file = 1 .. Len(file) /\ DOMAIN file \subseteq Nat
           /\ next \in Nat \ {0}
           /\ next <= Len(file) => next \in DOMAIN file
           /\ \A j \in DOMAIN file : file[j].text \in STRING
<1>1. /\ Len(file) \in Nat /\ DOMAIN file = 1 .. Len(file)
      /\ \A j \in DOMAIN file : file[j] \in FileLines
  BY DEF TypeInv
<1>2. \A line \in FileLines : line.text \in STRING
  BY LogGateAssumption
<1> QED
  BY <1>1, <1>2 DEF TypeInv

\* An entry carries the reason of the line before it on; another line ends it.
LEMMA Reasons ==
    ASSUME TypeInv, NEW n \in DOMAIN file
    PROVE  /\ n \in Entries => /\ Excused(n) <=> Because(n)
                               /\ Because(n + 1) <=> Because(n)
           /\ n \notin Entries =>
                 (Because(n + 1) <=> file[n].kind = "comment" /\ file[n].text # NoText)
<1>1. n \in Nat \ {0} /\ (n + 1) - 1 = n /\ 1 .. n = 1 .. (n - 1) \cup {n} /\ (n + 1) .. n = {}
  BY DEF TypeInv
<1>2. \A c \in 1 .. n - 1 : (c + 1) .. n = (c + 1) .. (n - 1) \cup {n}
  BY <1>1
<1>3. n \in Entries => file[n].kind # "comment"
  BY DEF Entries
<1>4. n \in Entries => (Excused(n) <=> Because(n))
  BY <1>2 DEF Excused, Because
<1>5. Because(n + 1) <=> \E c \in 1 .. n : /\ file[c].kind = "comment" /\ file[c].text # NoText
                                           /\ (c + 1) .. n \subseteq Entries
  BY <1>1 DEF Because
<1>6. Because(n + 1) <=> \/ file[n].kind = "comment" /\ file[n].text # NoText
                         \/ \E c \in 1 .. n - 1 : /\ file[c].kind = "comment" /\ file[c].text # NoText
                                                  /\ (c + 1) .. n \subseteq Entries
  BY <1>1, <1>5
<1> QED
  BY <1>2, <1>3, <1>4, <1>6 DEF Because

-----------------------------------------------------------------------------
\* Exits.

\* No step changes the files, and with them what is asked of the gate.
LEMMA SameFiles ==
    ASSUME UNCHANGED <<file, log>>
    PROVE  UNCHANGED <<Entries, Starts, Problems, Verdict>>
<1>1. UNCHANGED <<Entries, Starts>>
  BY DEF Entries, Starts
<1>2. \A i : Says(i)' = Says(i)
  BY <1>1 DEF Says, LinesOf
<1>3. UNCHANGED Problems
  BY <1>1, <1>2 DEF Problems
<1>4. Unsound' <=> Unsound
  BY <1>1 DEF Unsound, Excused
<1>5. (NoRecord' <=> NoRecord) /\ (Allowed' <=> Allowed)
  BY <1>1, <1>2, <1>3 DEF NoRecord, Allowed, Hides
<1> QED
  BY <1>1, <1>3, <1>4, <1>5 DEF Verdict

\* Exiting with the right code is all that is asked of an exit.
LEMMA ExitStep ==
    ASSUME GateInv, phase # "exited", NEW code, Exit(code), code = Verdict
    PROVE  GateInv'
<1>1. TypeInv'
  BY DEF GateInv, TypeInv, Exit, Done
<1>2. OpeningInv' /\ ReadingInv' /\ ParsingInv' /\ CheckingInv'
  BY DEF Exit, Done, OpeningInv, ReadingInv, ParsingInv, CheckingInv
<1>3. exit' = Verdict' /\ readable'
  BY SameFiles DEF Exit, Done, GateInv, TypeInv
<1>4. VerdictInv'
  BY <1>3 DEF VerdictInv
<1> QED
  BY <1>1, <1>2, <1>4 DEF GateInv

-----------------------------------------------------------------------------
\* Opening the files.

LEMMA CannotReadStep ==
    ASSUME GateInv, CannotRead
    PROVE  GateInv'
<1>1. /\ phase' = "exited" /\ exit' = 2 /\ readable' = FALSE
      /\ UNCHANGED <<file, log, next, reason, allowlist, records, findings, used>>
  BY DEF CannotRead, Done
<1>2. TypeInv'
  BY <1>1 DEF GateInv, TypeInv
<1>3. OpeningInv' /\ ReadingInv' /\ OpeningInv' /\ ParsingInv' /\ CheckingInv' /\ VerdictInv'
  BY <1>1 DEF OpeningInv, OpeningInv, ReadingInv, ParsingInv, CheckingInv, VerdictInv
<1> QED
  BY <1>2, <1>3 DEF GateInv

LEMMA FilesReadStep ==
    ASSUME GateInv, FilesRead
    PROVE  GateInv'
<1>1. /\ phase = "open" /\ phase' = "allowlist" /\ next' = 1
      /\ UNCHANGED <<file, log, readable, reason, allowlist, records, findings, used, exit>>
  BY DEF FilesRead, GoTo
<1>2. allowlist = <<>> /\ ~ reason /\ records = <<>> /\ findings = {} /\ used = {}
  BY <1>1 DEF GateInv, OpeningInv
<1>3. Len(file) \in Nat /\ DOMAIN file = 1 .. Len(file)
  BY Position DEF GateInv
<1>4. ReadingInv'
  <2>1. next' <= Len(file') + 1
    BY <1>1, <1>3
  <2>2. (\A j \in DOMAIN file : ~ (j < 1)) /\ Entries \subseteq DOMAIN file
    BY <1>3 DEF Entries
  <2>3. SoundUpTo(next)'
    BY <1>1, <2>2 DEF SoundUpTo
  <2>4. Read(next)'
    <3>1. Entries' = Entries /\ DOMAIN allowlist' = {}
      BY <1>1, <1>2, SameFiles
    <3> QED
      BY <1>1, <2>2, <3>1 DEF Read
  <2>5. ~ Because(next)'
    <3>1. 1 .. (next' - 1) = {}
      BY <1>1
    <3> QED
      BY <3>1 DEF Because
  <2> QED
    BY <1>1, <1>2, <2>1, <2>3, <2>4, <2>5 DEF ReadingInv
<1>5. TypeInv'
  BY <1>1 DEF GateInv, TypeInv
<1>6. OpeningInv' /\ OpeningInv' /\ ParsingInv' /\ CheckingInv' /\ VerdictInv'
  BY <1>1 DEF OpeningInv, OpeningInv, ParsingInv, CheckingInv, VerdictInv
<1> QED
  BY <1>4, <1>5, <1>6 DEF GateInv

-----------------------------------------------------------------------------
\* Reading the allowlist.

LEMMA ReadCommentStep ==
    ASSUME GateInv, ReadComment
    PROVE  GateInv'
<1>1. /\ phase = "allowlist" /\ next \in DOMAIN file /\ next \notin Entries
      /\ file[next].kind # "bad_regex"
      /\ next' = next + 1
      /\ UNCHANGED <<file, log, readable, phase, allowlist, records, findings, used, exit>>
  BY Position DEF ReadComment, GateInv, Entries
<1>2. /\ next \in Nat \ {0} /\ Len(file) \in Nat /\ DOMAIN file = 1 .. Len(file)
      /\ SoundUpTo(next) /\ Read(next)
  BY <1>1, Position DEF GateInv, ReadingInv
<1>3. SoundUpTo(next + 1) /\ Read(next + 1)
  <2>1. \A j \in DOMAIN file : j < next + 1 /\ j # next => j < next
    BY <1>2
  <2>2. Entries \subseteq DOMAIN file
    BY DEF Entries
  <2>3. SoundUpTo(next + 1)
    BY <1>1, <1>2, <2>1 DEF SoundUpTo
  <2>4. Read(next + 1)
    <3>1. \A j \in Entries : j < next + 1 <=> j < next
      BY <1>1, <1>2, <2>1, <2>2
    <3> QED
      BY <1>2, <3>1 DEF Read
  <2> QED
    BY <2>3, <2>4
<1>4. reason' = (file[next].kind = "comment" /\ file[next].text # NoText)
  BY DEF ReadComment
<1>5. reason' \in BOOLEAN /\ (reason' <=> Because(next + 1))
  <2>1. Because(next + 1) <=> file[next].kind = "comment" /\ file[next].text # NoText
    BY <1>1, Reasons DEF GateInv
  <2> QED
    BY <1>4, <2>1, Zenon
<1>6. ReadingInv'
  <2>1. SoundUpTo(next)' /\ Read(next)' /\ (Because(next)' <=> Because(next + 1))
    BY <1>1, <1>3, SameFiles DEF SoundUpTo, Read, Because, Excused
  <2>2. next' <= Len(file') + 1
    BY <1>1, <1>2
  <2>3. records' = <<>> /\ findings' = {} /\ used' = {}
    BY <1>1 DEF GateInv, ReadingInv
  <2> QED
    BY <1>5, <2>1, <2>2, <2>3 DEF ReadingInv
<1>7. TypeInv'
  <2>1. next' \in Nat \ {0}
    BY <1>1, <1>2
  <2> QED
    BY <1>1, <1>5, <2>1 DEF GateInv, TypeInv
<1>8. OpeningInv' /\ ParsingInv' /\ CheckingInv' /\ VerdictInv'
  BY <1>1 DEF OpeningInv, ParsingInv, CheckingInv, VerdictInv
<1> QED
  BY <1>6, <1>7, <1>8 DEF GateInv

LEMMA ReadEntryStep ==
    ASSUME GateInv, ReadEntry
    PROVE  GateInv'
<1>1. phase = "allowlist" /\ next \in Entries /\ next \in DOMAIN file
  BY Position DEF ReadEntry, GateInv, Entries
<1>2. next \in Nat \ {0} /\ Len(file) \in Nat /\ DOMAIN file = 1 .. Len(file)
  BY Position DEF GateInv
<1>3. /\ Excused(next) <=> Because(next)
      /\ Because(next + 1) <=> Because(next)
      /\ reason <=> Because(next)
  BY <1>1, Reasons DEF GateInv, ReadingInv
<1>4. CASE ~ reason /\ Exit(2)
  <2>1. Unsound
    BY <1>1, <1>3, <1>4 DEF Unsound
  <2> QED
    BY <1>1, <1>4, <2>1, ExitStep DEF Verdict
<1>5. ASSUME reason, allowlist' = Append(allowlist, file[next].text), next' = next + 1,
             UNCHANGED <<file, log, readable, phase, reason, records, findings, used, exit>>
      PROVE  GateInv'
  <2>1. file[next].text \in STRING /\ file[next].kind # "bad_regex"
    BY <1>1, Position DEF GateInv, Entries
  <2>2. /\ allowlist' \in Seq(STRING) /\ Len(allowlist') = Len(allowlist) + 1
        /\ DOMAIN allowlist' = DOMAIN allowlist \cup {Len(allowlist) + 1}
        /\ allowlist'[Len(allowlist) + 1] = file[next].text
        /\ \A i \in DOMAIN allowlist : allowlist'[i] = allowlist[i]
    <3>1. allowlist \in Seq(STRING) /\ allowlist' = Append(allowlist, file[next].text)
      BY <1>5 DEF GateInv, TypeInv
    <3> QED
      BY <2>1, <3>1, Appended
  <2>3. \A j \in DOMAIN file : j < next + 1 <=> j < next \/ j = next
    BY <1>2
  <2>4. Entries \subseteq DOMAIN file
    BY DEF Entries
  <2>5. SoundUpTo(next + 1)
    BY <1>1, <1>3, <1>5, <2>1, <2>3 DEF GateInv, ReadingInv, SoundUpTo
  <2>6. SoundUpTo(next)' /\ (Because(next)' <=> Because(next + 1))
    BY <1>5, <2>5, SameFiles DEF SoundUpTo, Because, Excused
  <2>7. Read(next)'
    <3>1. Read(next)
      BY <1>1 DEF GateInv, ReadingInv
    <3>2. ASSUME NEW i \in DOMAIN allowlist'
          PROVE  \E j \in Entries : j < next + 1 /\ file[j].text = allowlist'[i]
      <4>1. CASE i \in DOMAIN allowlist
        BY <2>2, <2>3, <2>4, <3>1, <4>1 DEF Read
      <4>2. CASE i = Len(allowlist) + 1
        BY <1>1, <2>2, <2>3, <4>2
      <4> QED
        BY <2>2, <4>1, <4>2
    <3>3. ASSUME NEW j \in Entries, j < next + 1
          PROVE  \E i \in DOMAIN allowlist' : file[j].text = allowlist'[i]
      <4>1. CASE j = next
        BY <2>2, <4>1
      <4>2. CASE j < next
        BY <2>2, <3>1, <4>2 DEF Read
      <4> QED
        BY <2>3, <2>4, <3>3, <4>1, <4>2
    <3>4. Entries' = Entries
      BY <1>5, SameFiles
    <3> QED
      BY <1>5, <3>2, <3>3, <3>4 DEF Read
  <2>8. ReadingInv'
    <3>1. next' <= Len(file') + 1
      BY <1>1, <1>2, <1>5
    <3>2. records' = <<>> /\ findings' = {} /\ used' = {}
      BY <1>1, <1>5 DEF GateInv, ReadingInv
    <3> QED
      BY <1>3, <1>5, <2>6, <2>7, <3>1, <3>2 DEF ReadingInv
  <2>9. TypeInv'
    BY <1>5, <2>2 DEF GateInv, TypeInv
  <2>10. OpeningInv' /\ ParsingInv' /\ CheckingInv' /\ VerdictInv'
    BY <1>1, <1>5 DEF OpeningInv, ParsingInv, CheckingInv, VerdictInv
  <2> QED
    BY <2>8, <2>9, <2>10 DEF GateInv
<1> QED
  BY <1>4, <1>5 DEF ReadEntry

LEMMA BadRegexStep ==
    ASSUME GateInv, BadRegex
    PROVE  GateInv'
<1>1. next \in DOMAIN file /\ file[next].kind = "bad_regex"
  BY Position DEF BadRegex, GateInv
<1>2. Unsound
  BY <1>1 DEF Unsound
<1> QED
  BY <1>2, ExitStep DEF BadRegex, Verdict

LEMMA AllowlistReadStep ==
    ASSUME GateInv, AllowlistRead
    PROVE  GateInv'
<1>1. /\ phase = "allowlist" /\ next > Len(file) /\ phase' = "parse" /\ next' = 1
      /\ UNCHANGED <<file, log, readable, reason, allowlist, records, findings, used, exit>>
  BY DEF AllowlistRead, GoTo
<1>2. next = Len(file) + 1
  BY <1>1, Position DEF GateInv, ReadingInv
<1>3. /\ SoundUpTo(Len(file) + 1) /\ Read(Len(file) + 1)
      /\ records = <<>> /\ findings = {} /\ used = {}
  BY <1>1, <1>2 DEF GateInv, ReadingInv
<1>4. \A i \in Starts : ~ (i < 1)
  BY DEF Starts, GateInv, TypeInv
<1>5. ParsingInv'
  <2>1. 1 <= Len(log) + 1
    BY DEF GateInv, TypeInv
  <2>2. SoundUpTo(Len(file) + 1)' /\ Read(Len(file) + 1)'
    BY <1>1, <1>3, SameFiles DEF SoundUpTo, Read, Excused
  <2>3. Grouped(next)'
    <3>1. records' = <<>> /\ next' = 1 /\ \A i \in Starts' : ~ (i < 1)
      BY <1>1, <1>3, <1>4, SameFiles
    <3> QED
      BY <3>1 DEF Grouped, GroupsOf
  <2> QED
    BY <1>1, <1>3, <2>1, <2>2, <2>3 DEF ParsingInv
<1>6. TypeInv'
  BY <1>1 DEF GateInv, TypeInv
<1>7. OpeningInv' /\ ReadingInv' /\ CheckingInv' /\ VerdictInv'
  BY <1>1 DEF OpeningInv, ReadingInv, CheckingInv, VerdictInv
<1> QED
  BY <1>5, <1>6, <1>7 DEF GateInv

-----------------------------------------------------------------------------
\* Grouping the lines.

\* Line n starts a record.
LEMMA StartGroups ==
    ASSUME TypeInv, NEW n \in Starts, GroupsOf(records, n),
           NEW rows, NEW size, size = Len(rows),
           DOMAIN rows = DOMAIN records \cup {size}, size \notin DOMAIN records,
           rows[size] = log[n], \A r \in DOMAIN records : rows[r] = records[r]
    PROVE  GroupsOf(rows, n + 1)
<1>1. /\ n \in Nat \ {0} /\ Starts \subseteq Nat
      /\ Body(n, n + 1) = {n} /\ Open(n, n + 1)
      /\ \A i \in Starts : i < n => Body(i, n + 1) = Body(i, n) /\ ~ Open(i, n + 1)
  BY BodyAtStart DEF Starts, TypeInv
<1>2. \A i \in Starts : i < n + 1 <=> i < n \/ i = n
  BY <1>1
<1>3. Same(rows[size], n, n + 1)
  BY <1>1 DEF Same
<1>4. \A r \in DOMAIN records : \A i \in Starts :
          i < n /\ Same(records[r], i, n) => Same(rows[r], i, n + 1)
  BY <1>1 DEF Same
<1>5. ASSUME NEW r \in DOMAIN rows
      PROVE  \E i \in Starts :
                 i < n + 1 /\ (Open(i, n + 1) <=> r = size) /\ Same(rows[r], i, n + 1)
  <2>1. CASE r = size
    BY <1>1, <1>2, <1>3, <2>1
  <2>2. CASE r # size
    <3>1. r \in DOMAIN records
      BY <2>2
    <3>2. PICK i \in Starts : i < n /\ Same(records[r], i, n)
      BY <3>1 DEF GroupsOf
    <3> QED
      BY <1>1, <1>2, <1>4, <2>2, <3>1, <3>2
  <2> QED
    BY <2>1, <2>2
<1>6. ASSUME NEW i \in Starts, i < n + 1
      PROVE  \E r \in DOMAIN rows :
                 (Open(i, n + 1) <=> r = size) /\ Same(rows[r], i, n + 1)
  <2>1. CASE i = n
    BY <1>1, <1>3, <2>1
  <2>2. CASE i < n
    <3>1. PICK r \in DOMAIN records : Same(records[r], i, n)
      BY <2>2 DEF GroupsOf
    <3> QED
      BY <1>1, <1>4, <2>2, <3>1
  <2> QED
    BY <1>2, <1>6, <2>1, <2>2
<1> QED
  BY <1>5, <1>6 DEF GroupsOf

\* Line n goes to the last record.
LEMMA ContinuationGroups ==
    ASSUME TypeInv, NEW n \in Nat \ {0}, n \notin Starts, GroupsOf(records, n),
           NEW size, size = Len(records), NEW rows, size = Len(rows), DOMAIN rows = DOMAIN records,
           \A r \in DOMAIN records : r # size => rows[r] = records[r],
           rows[size].level = records[size].level, rows[size].logger = records[size].logger,
           rows[size].says = records[size].says \cup log[n].says
    PROVE  GroupsOf(rows, n + 1)
<1>1. \A i \in Starts : i < n + 1 <=> i < n
  BY DEF Starts, TypeInv
<1>2. \A i \in Starts : i < n =>
          /\ Open(i, n + 1) <=> Open(i, n)
          /\ Open(i, n) => Body(i, n + 1) = Body(i, n) \cup {n}
          /\ ~ Open(i, n) => Body(i, n + 1) = Body(i, n)
  BY BodyElsewhere
<1>3. ASSUME NEW r \in DOMAIN records, NEW i \in Starts,
             i < n, Open(i, n) <=> r = size, Same(records[r], i, n)
      PROVE  (Open(i, n + 1) <=> r = size) /\ Same(rows[r], i, n + 1)
  <2>1. CASE r = size
    <3>1. Body(i, n + 1) = Body(i, n) \cup {n}
      BY <1>2, <1>3, <2>1
    <3>2. UNION {log[k].says : k \in Body(i, n + 1)}
            = (UNION {log[k].says : k \in Body(i, n)}) \cup log[n].says
      BY <3>1
    <3> QED
      BY <1>2, <1>3, <2>1, <3>2 DEF Same
  <2>2. CASE r # size
    BY <1>2, <1>3, <2>2 DEF Same
  <2> QED
    BY <2>1, <2>2
<1>4. \A r \in DOMAIN records : \E i \in Starts :
          i < n /\ (Open(i, n) <=> r = size) /\ Same(records[r], i, n)
  BY DEF GroupsOf
<1>5. \A i \in Starts : i < n => \E r \in DOMAIN records :
          (Open(i, n) <=> r = size) /\ Same(records[r], i, n)
  BY DEF GroupsOf
<1>6. /\ \A r \in DOMAIN rows : \E i \in Starts :
            i < n + 1 /\ (Open(i, n + 1) <=> r = size) /\ Same(rows[r], i, n + 1)
      /\ \A i \in Starts : i < n + 1 => \E r \in DOMAIN rows :
            (Open(i, n + 1) <=> r = size) /\ Same(rows[r], i, n + 1)
  BY <1>1, <1>3, <1>4, <1>5
<1> QED
  BY <1>6 DEF GroupsOf

LEMMA LogLine ==
    ASSUME TypeInv
    PROVE  /\ Len(log) \in Nat /\ DOMAIN log = 1 .. Len(log)
           /\ \A i \in DOMAIN log : log[i] \in Record
           /\ Starts \subseteq 1 .. Len(log)
<1>1. /\ Len(log) \in Nat /\ DOMAIN log = 1 .. Len(log)
      /\ \A i \in DOMAIN log : log[i] \in LogLines
  BY DEF TypeInv
<1>2. LogLines \subseteq Record
  BY LogGateAssumption DEF Record
<1> QED
  BY <1>1, <1>2 DEF Starts

LEMMA ParseLineStep ==
    ASSUME GateInv, ParseLine
    PROVE  GateInv'
<1>1. /\ phase = "parse" /\ next <= Len(log) /\ next' = next + 1
      /\ UNCHANGED <<file, log, readable, phase, reason, allowlist, findings, used, exit>>
  BY DEF ParseLine
<1>2. /\ TypeInv /\ (records = <<>> <=> next = 1) /\ GroupsOf(records, next)
      /\ findings = {} /\ used = {}
      /\ SoundUpTo(Len(file) + 1) /\ Read(Len(file) + 1)
  BY <1>1 DEF GateInv, ParsingInv, Grouped
<1>3. next \in Nat \ {0} /\ Len(log) \in Nat /\ next \in DOMAIN log /\ log[next] \in Record
  <2>1. next \in Nat \ {0} /\ Len(log) \in Nat /\ DOMAIN log = 1 .. Len(log)
    BY <1>2, LogLine DEF TypeInv
  <2>2. next \in DOMAIN log
    BY <1>1, <2>1
  <2> QED
    BY <1>2, <2>1, <2>2, LogLine
<1>4. next \in Starts <=> log[next].level # "none" \/ records = <<>>
  BY <1>2, <1>3 DEF Starts
<1>5. records' \in Seq(Record) /\ records' # <<>> /\ GroupsOf(records', next + 1)
  <2>1. CASE next \in Starts
    <3>1. records \in Seq(Record) /\ records' = Append(records, log[next])
      BY <1>2, <1>4, <2>1 DEF ParseLine, TypeInv
    <3>2. /\ records' \in Seq(Record) /\ Len(records') = Len(records) + 1
          /\ DOMAIN records' = DOMAIN records \cup {Len(records')}
          /\ Len(records') \notin DOMAIN records
          /\ records'[Len(records')] = log[next]
          /\ \A r \in DOMAIN records : records'[r] = records[r]
      BY <1>3, <3>1, Appended
    <3>3. records' # <<>>
      BY <3>2
    <3> QED
      BY <1>2, <2>1, <3>2, <3>3, StartGroups
  <2>2. CASE next \notin Starts
    <3> DEFINE size == Len(records)
    <3>1. /\ records \in Seq(Record) /\ records # <<>>
          /\ records' = [records EXCEPT ![size].says = @ \cup log[next].says]
      BY <1>2, <1>4, <2>2 DEF ParseLine, TypeInv
    <3>2. size \in DOMAIN records /\ records[size] \in Record
      BY <3>1
    <3> HIDE DEF size
    <3>3. /\ records'[size] = [records[size] EXCEPT !.says = @ \cup log[next].says]
          /\ DOMAIN records' = DOMAIN records
          /\ \A r \in DOMAIN records : r # size => records'[r] = records[r]
      BY <3>1, <3>2
    <3>4. /\ records'[size].level = records[size].level
          /\ records'[size].logger = records[size].logger
          /\ records'[size].says = records[size].says \cup log[next].says
          /\ records'[size] \in Record
      BY <1>3, <3>2, <3>3 DEF Record
    <3>5. records' \in Seq(Record) /\ Len(records') = size /\ records' # <<>>
      <4>1. DOMAIN records = 1 .. size /\ size \in Nat
        BY <3>1 DEF size
      <4>2. records' = [r \in 1 .. size |-> records'[r]]
        BY <3>1, <4>1
      <4>3. \A r \in 1 .. size : records'[r] \in Record
        BY <3>1, <3>3, <3>4, <4>1
      <4>4. records' \in Seq(Record) /\ Len(records') = size
        BY <3>3, <4>1, <4>2, <4>3
      <4> QED
        BY <3>2, <3>3, <4>4
    <3>6. size = Len(records)
      BY DEF size
    <3>7. GroupsOf(records', next + 1)
      BY <1>2, <1>3, <2>2, <3>3, <3>4, <3>5, <3>6, ContinuationGroups
    <3> QED
      BY <3>4, <3>5, <3>7
  <2> QED
    BY <2>1, <2>2
<1>6. ParsingInv'
  <2>1. next' <= Len(log') + 1
    BY <1>1, <1>3
  <2>2. SoundUpTo(Len(file) + 1)' /\ Read(Len(file) + 1)'
    BY <1>1, <1>2, SameFiles DEF SoundUpTo, Read, Excused
  <2>3. Grouped(next)'
    <3>1. records' # <<>> /\ next + 1 # 1
      BY <1>3, <1>5
    <3>2. next' = next + 1 /\ log' = log /\ Starts' = Starts
      BY <1>1, SameFiles
    <3>3. \A i : (Open(i, next)' <=> Open(i, next + 1)) /\ Body(i, next)' = Body(i, next + 1)
      BY <3>2 DEF Open, Body
    <3>4. \A i, r : Same(records[r], i, next)' <=> Same(records'[r], i, next + 1)
      BY <3>2, <3>3 DEF Same
    <3> QED
      BY <1>5, <3>1, <3>2, <3>3, <3>4 DEF Grouped, GroupsOf
  <2> QED
    BY <1>1, <1>2, <2>1, <2>2, <2>3 DEF ParsingInv
<1>7. TypeInv'
  <2>1. next' \in Nat \ {0}
    BY <1>1, <1>3
  <2> QED
    BY <1>1, <1>2, <1>5, <2>1 DEF TypeInv
<1>8. OpeningInv' /\ ReadingInv' /\ CheckingInv' /\ VerdictInv'
  BY <1>1 DEF OpeningInv, ReadingInv, CheckingInv, VerdictInv
<1> QED
  BY <1>6, <1>7, <1>8 DEF GateInv

\* The record of a whole log that starts at line i.
LEMMA Whole ==
    ASSUME TypeInv, Grouped(Len(log) + 1)
    PROVE  /\ \A r \in DOMAIN records : \E i \in Starts : Same(records[r], i, Len(log) + 1)
           /\ \A i \in Starts : \E r \in DOMAIN records : Same(records[r], i, Len(log) + 1)
<1>1. \A i \in Starts : i < Len(log) + 1
  BY LogLine
<1> QED
  BY <1>1 DEF Grouped, GroupsOf

\* No record without a level among the records, none in the log.
LEMMA Levels ==
    ASSUME TypeInv, Grouped(Len(log) + 1)
    PROVE  NoRecord <=> \A r \in DOMAIN records : records[r].level = "none"
<1>1. /\ \A r \in DOMAIN records : \E i \in Starts : records[r].level = log[i].level
      /\ \A i \in Starts : \E r \in DOMAIN records : records[r].level = log[i].level
  BY Whole DEF Same
<1>2. Starts \subseteq DOMAIN log /\ \A i \in DOMAIN log \ Starts : log[i].level = "none"
  BY DEF Starts
<1> QED
  BY <1>1, <1>2 DEF NoRecord

\* What keeps files and records keeps how they relate.
LEMMA SameGroups ==
    ASSUME UNCHANGED <<file, log, records>>
    PROVE  /\ Grouped(Len(log) + 1) => Grouped(Len(log) + 1)'
           /\ next' = next /\ Grouped(next) => Grouped(next)'
<1>1. log' = log /\ records' = records /\ Starts' = Starts
  BY SameFiles
<1> DEFINE n == Len(log) + 1
<1>2. n' = n
  BY <1>1
<1>3. \A i : (Open(i, n)' <=> Open(i, n)) /\ Body(i, n)' = Body(i, n)
  BY <1>1, <1>2 DEF Open, Body
<1>4. \A i, r : Same(records[r], i, n)' <=> Same(records[r], i, n)
  BY <1>1, <1>3 DEF Same
<1>5. ASSUME Grouped(n) PROVE Grouped(n)'
  <2>1. /\ (records = <<>> <=> n = 1)'
        /\ \A r \in DOMAIN records : \E i \in Starts :
              i < n /\ (Open(i, n) <=> r = Len(records)) /\ Same(records[r], i, n)
        /\ \A i \in Starts : i < n => \E r \in DOMAIN records :
              (Open(i, n) <=> r = Len(records)) /\ Same(records[r], i, n)
    BY <1>1, <1>2, <1>5 DEF Grouped, GroupsOf
  <2>2. \A r \in DOMAIN records' : \E i \in Starts' :
            i < n' /\ (Open(i, n)' <=> r = Len(records')) /\ Same(records[r], i, n)'
    BY <1>1, <1>2, <1>3, <1>4, <2>1
  <2>3. \A i \in Starts' : i < n' => \E r \in DOMAIN records' :
            (Open(i, n)' <=> r = Len(records')) /\ Same(records[r], i, n)'
    <3> SUFFICES ASSUME NEW i \in Starts, i < n
                 PROVE  \E r \in DOMAIN records :
                            (Open(i, n)' <=> r = Len(records)) /\ Same(records[r], i, n)'
      BY <1>1, <1>2, <1>3, <1>4
    <3>1. PICK r \in DOMAIN records :
              (Open(i, n) <=> r = Len(records)) /\ Same(records[r], i, n)
      BY <2>1
    <3> QED
      BY <1>1, <1>2, <1>3, <1>4, <3>1
  <2> QED
    BY <2>1, <2>2, <2>3 DEF Grouped, GroupsOf
<1>6. ASSUME next' = next, Grouped(next) PROVE Grouped(next)'
  <2>1. /\ \A i : (Open(i, next)' <=> Open(i, next)) /\ Body(i, next)' = Body(i, next)
        /\ \A i, r : Same(records[r], i, next)' <=> Same(records[r], i, next)
    <3>1. \A i : (Open(i, next)' <=> Open(i, next)) /\ Body(i, next)' = Body(i, next)
      BY <1>1, <1>6 DEF Open, Body
    <3> QED
      BY <1>1, <3>1 DEF Same
  <2>2. /\ (records = <<>> <=> next = 1)'
        /\ \A r \in DOMAIN records : \E i \in Starts :
              i < next /\ (Open(i, next) <=> r = Len(records)) /\ Same(records[r], i, next)
        /\ \A i \in Starts : i < next => \E r \in DOMAIN records :
              (Open(i, next) <=> r = Len(records)) /\ Same(records[r], i, next)
    BY <1>1, <1>6 DEF Grouped, GroupsOf
  <2>3. \A r \in DOMAIN records' : \E i \in Starts' :
            i < next' /\ (Open(i, next)' <=> r = Len(records')) /\ Same(records[r], i, next)'
    BY <1>1, <1>6, <2>1, <2>2
  <2>4. \A i \in Starts' : i < next' => \E r \in DOMAIN records' :
            (Open(i, next)' <=> r = Len(records')) /\ Same(records[r], i, next)'
    <3> SUFFICES ASSUME NEW i \in Starts, i < next
                 PROVE  \E r \in DOMAIN records :
                            (Open(i, next)' <=> r = Len(records)) /\ Same(records[r], i, next)'
      BY <1>1, <1>6, <2>1
    <3>1. PICK r \in DOMAIN records :
              (Open(i, next) <=> r = Len(records)) /\ Same(records[r], i, next)
      BY <2>2
    <3> QED
      BY <1>1, <1>6, <2>1, <3>1
  <2> QED
    BY <2>2, <2>3, <2>4 DEF Grouped, GroupsOf
<1> QED
  BY <1>5, <1>6

LEMMA ParsedStep ==
    ASSUME GateInv, Parsed
    PROVE  GateInv'
<1>1. phase = "parse" /\ next > Len(log)
  BY DEF Parsed
<1>2. /\ TypeInv /\ next = Len(log) + 1 /\ Grouped(Len(log) + 1) /\ findings = {} /\ used = {}
      /\ SoundUpTo(Len(file) + 1) /\ Read(Len(file) + 1)
  <2>1. /\ TypeInv /\ next <= Len(log) + 1 /\ Grouped(next) /\ findings = {} /\ used = {}
        /\ SoundUpTo(Len(file) + 1) /\ Read(Len(file) + 1)
    BY <1>1 DEF GateInv, ParsingInv
  <2>2. next = Len(log) + 1
    BY <1>1, <2>1, LogLine DEF TypeInv
  <2> QED
    BY <2>1, <2>2
<1>3. CASE (\A r \in DOMAIN records : records[r].level = "none") /\ Exit(2)
  <2>1. Verdict = 2
    BY <1>2, <1>3, Levels DEF Verdict
  <2> QED
    BY <1>1, <1>3, <2>1, ExitStep
<1>4. CASE (\E r \in DOMAIN records : records[r].level # "none") /\ GoTo("check")
  <2>1. /\ phase' = "check" /\ next' = 1
        /\ UNCHANGED <<file, log, readable, reason, allowlist, records, findings, used, exit>>
    BY <1>4 DEF GoTo
  <2>2. SoundUpTo(Len(file) + 1)' /\ Read(Len(file) + 1)'
    BY <1>2, <2>1, SameFiles DEF SoundUpTo, Read, Excused
  <2>3. Grouped(Len(log) + 1)'
    BY <1>2, <2>1, SameGroups
  <2>4. /\ Len(records) \in Nat /\ 1 <= Len(records) + 1
        /\ \A r \in DOMAIN records : ~ (r < 1)
    BY <1>2 DEF TypeInv
  <2>5. CheckedUpTo(next)'
    BY <1>2, <2>1, <2>4 DEF CheckedUpTo
  <2>6. CheckingInv'
    BY <1>4, <2>1, <2>2, <2>3, <2>4, <2>5 DEF CheckingInv
  <2>7. TypeInv'
    BY <1>1, <1>2, <2>1 DEF TypeInv
  <2>8. OpeningInv' /\ ReadingInv' /\ ParsingInv' /\ VerdictInv'
    BY <2>1 DEF OpeningInv, ReadingInv, ParsingInv, VerdictInv
  <2> QED
    BY <2>6, <2>7, <2>8 DEF GateInv
<1> QED
  BY <1>3, <1>4 DEF Parsed

-----------------------------------------------------------------------------
\* Checking the records.

LEMMA RuleFinds ==
    ASSUME NEW record
    PROVE  IsProblem(record) <=>
              /\ "generic" \notin record.says
              /\ \/ record.level \in BAD_LEVELS /\ record.logger = "ours"
                 \/ "domain" \in record.says /\ record.says \cap {"blocking", "bad"} # {}
<1>1. rules(record) # {} <=>
          \/ record.level \in BAD_LEVELS /\ record.logger = "ours"
          \/ BLOCKING_CALL \in record.says /\ names_domain(record)
          \/ BAD_PATTERNS \in record.says /\ names_domain(record)
  BY DEF rules
<1>2. record.says \cap {"blocking", "bad"} # {}
        <=> BLOCKING_CALL \in record.says \/ BAD_PATTERNS \in record.says
  BY DEF BLOCKING_CALL, BAD_PATTERNS
<1> QED
  BY <1>1, <1>2 DEF IsProblem, names_domain, GENERIC_IGNORES

\* The records are problems where the log has problems, and say what it says there.
LEMMA ProblemsFound ==
    ASSUME TypeInv, NEW record, NEW i \in Starts, Same(record, i, Len(log) + 1)
    PROVE  (IsProblem(record) <=> i \in Problems) /\ record.says = Says(i)
<1>1. Body(i, Len(log) + 1) = LinesOf(i)
  <2>1. (Len(log) + 1) - 1 = Len(log)
    BY LogLine
  <2> QED
    BY <2>1 DEF Body, LinesOf
<1>2. record.level = log[i].level /\ record.logger = log[i].logger /\ record.says = Says(i)
  BY <1>1 DEF Same, Says
<1> QED
  BY <1>2, RuleFinds DEF Problems

LEMMA CheckRecordStep ==
    ASSUME GateInv, CheckRecord
    PROVE  GateInv'
<1> DEFINE record == records[next]
           problem == GENERIC_IGNORES \notin record.says /\ rules(record) # {}
           hidden_by == {i \in DOMAIN allowlist : allowlist[i] \in record.says}
<1>1. /\ phase = "check" /\ next <= Len(records) /\ next' = next + 1
      /\ UNCHANGED <<file, log, readable, phase, reason, allowlist, records, exit>>
      /\ used' = IF problem THEN used \cup hidden_by ELSE used
      /\ findings' = IF problem /\ hidden_by = {} THEN findings \cup {next} ELSE findings
  BY DEF CheckRecord
<1>2. /\ TypeInv /\ Grouped(Len(log) + 1) /\ CheckedUpTo(next)
      /\ SoundUpTo(Len(file) + 1) /\ Read(Len(file) + 1)
      /\ \E r \in DOMAIN records : records[r].level # "none"
  BY <1>1 DEF GateInv, CheckingInv
<1>3. next \in Nat \ {0} /\ Len(records) \in Nat /\ DOMAIN records = 1 .. Len(records)
  BY <1>2 DEF TypeInv
<1>4. next \in DOMAIN records /\ \A r \in DOMAIN records : r < next + 1 <=> r < next \/ r = next
  BY <1>1, <1>3
<1>5. /\ problem <=> IsProblem(records[next])
      /\ hidden_by # {} <=> HiddenFrom(records[next])
  BY DEF IsProblem, HiddenFrom
<1>6. findings' = {r \in DOMAIN records :
                      r < next + 1 /\ IsProblem(records[r]) /\ ~ HiddenFrom(records[r])}
  <2>1. findings = {r \in DOMAIN records :
                       r < next /\ IsProblem(records[r]) /\ ~ HiddenFrom(records[r])}
    BY <1>2 DEF CheckedUpTo
  <2> HIDE DEF problem, hidden_by
  <2> QED
    BY <1>1, <1>4, <1>5, <2>1
<1>7. used' = {i \in DOMAIN allowlist : \E r \in DOMAIN records :
                  r < next + 1 /\ IsProblem(records[r]) /\ allowlist[i] \in records[r].says}
  <2>1. used = {i \in DOMAIN allowlist : \E r \in DOMAIN records :
                   r < next /\ IsProblem(records[r]) /\ allowlist[i] \in records[r].says}
    BY <1>2 DEF CheckedUpTo
  <2>2. \A i \in hidden_by : i \in DOMAIN allowlist /\ allowlist[i] \in records[next].says
    OBVIOUS
  <2>3. \A i \in DOMAIN allowlist : allowlist[i] \in records[next].says => i \in hidden_by
    OBVIOUS
  <2> HIDE DEF problem, hidden_by
  <2> QED
    BY <1>1, <1>4, <1>5, <2>1, <2>2, <2>3
<1> HIDE DEF record, problem, hidden_by
<1>8. CheckingInv'
  <2>1. next' <= Len(records') + 1
    BY <1>1, <1>3
  <2>2. SoundUpTo(Len(file) + 1)' /\ Read(Len(file) + 1)'
    BY <1>1, <1>2, SameFiles DEF SoundUpTo, Read, Excused
  <2>3. Grouped(Len(log) + 1)'
    BY <1>2, <1>1, SameGroups
  <2>4. CheckedUpTo(next)'
    <3>1. \A r : /\ IsProblem(records[r])' <=> IsProblem(records[r])
                 /\ HiddenFrom(records[r])' <=> HiddenFrom(records[r])
      BY <1>1 DEF HiddenFrom
    <3> QED
      BY <1>1, <1>6, <1>7, <3>1 DEF CheckedUpTo
  <2> QED
    BY <1>1, <1>2, <2>1, <2>2, <2>3, <2>4 DEF CheckingInv
<1>9. TypeInv'
  <2>1. next' \in Nat \ {0}
    BY <1>1, <1>3
  <2> QED
    BY <1>1, <1>2, <2>1 DEF TypeInv
<1>10. OpeningInv' /\ ReadingInv' /\ ParsingInv' /\ VerdictInv'
  BY <1>1 DEF OpeningInv, ReadingInv, ParsingInv, VerdictInv
<1> QED
  BY <1>8, <1>9, <1>10 DEF GateInv

LEMMA CheckedStep ==
    ASSUME GateInv, Checked
    PROVE  GateInv'
<1> DEFINE n == Len(log) + 1
<1>1. /\ phase = "check" /\ next > Len(records)
      /\ Exit(IF findings # {} \/ stale_entries # {} THEN 1 ELSE 0)
  BY DEF Checked
<1>2. /\ TypeInv /\ Grouped(n) /\ CheckedUpTo(next)
      /\ SoundUpTo(Len(file) + 1) /\ Read(Len(file) + 1)
      /\ \E r \in DOMAIN records : records[r].level # "none"
  BY <1>1 DEF GateInv, CheckingInv
<1>3. ~ Unsound
  <2>1. \A j \in DOMAIN file : j < Len(file) + 1
    BY <1>2, Position
  <2>2. Entries \subseteq DOMAIN file
    BY DEF Entries
  <2> QED
    BY <1>2, <2>1, <2>2 DEF SoundUpTo, Unsound
<1>4. ~ NoRecord
  BY <1>2, Levels
<1>5. \A r \in DOMAIN records : r < next
  BY <1>1, <1>2 DEF TypeInv
<1>6. /\ \A i \in DOMAIN allowlist : \E j \in Entries : file[j].text = allowlist[i]
      /\ \A j \in Entries : \E i \in DOMAIN allowlist : file[j].text = allowlist[i]
  <2>1. \A j \in Entries : j < Len(file) + 1
    BY <1>2, Position DEF Entries
  <2> QED
    BY <1>2, <2>1 DEF Read
<1>7. /\ \A r \in DOMAIN records : \E i \in Starts : Same(records[r], i, n)
      /\ \A i \in Starts : \E r \in DOMAIN records : Same(records[r], i, n)
  BY <1>2, Whole
<1> HIDE DEF n
<1>8. \A r \in DOMAIN records, i \in Starts : Same(records[r], i, n) =>
          (IsProblem(records[r]) <=> i \in Problems) /\ records[r].says = Says(i)
  BY <1>2, ProblemsFound DEF n
<1>9. Problems \subseteq Starts
  BY DEF Problems
<1>10. findings = {} <=> \A i \in Problems : \E j \in Entries : Hides(j, i)
  <2>1. findings = {r \in DOMAIN records : IsProblem(records[r]) /\ ~ HiddenFrom(records[r])}
    BY <1>2, <1>5 DEF CheckedUpTo
  <2>2. findings = {} <=> \A r \in DOMAIN records : IsProblem(records[r]) => HiddenFrom(records[r])
    BY <2>1
  <2>3. \A r \in DOMAIN records, i \in Starts : Same(records[r], i, n) =>
            (HiddenFrom(records[r]) <=> \E j \in Entries : Hides(j, i))
    BY <1>6, <1>8 DEF HiddenFrom, Hides
  <2> QED
    BY <1>7, <1>8, <1>9, <2>2, <2>3
<1>11. stale_entries = {} <=> \A j \in Entries : \E i \in Problems : Hides(j, i)
  <2>1. used = {a \in DOMAIN allowlist : \E r \in DOMAIN records :
                   IsProblem(records[r]) /\ allowlist[a] \in records[r].says}
    BY <1>2, <1>5 DEF CheckedUpTo
  <2>2. stale_entries = {} <=> \A a \in DOMAIN allowlist : \E r \in DOMAIN records :
                                  IsProblem(records[r]) /\ allowlist[a] \in records[r].says
    BY <2>1 DEF stale_entries
  <2>3. \A text : (\E r \in DOMAIN records : IsProblem(records[r]) /\ text \in records[r].says)
                     <=> \E i \in Problems : text \in Says(i)
    BY <1>7, <1>8, <1>9
  <2> QED
    BY <1>6, <2>2, <2>3 DEF Hides
<1>12. Verdict = IF findings # {} \/ stale_entries # {} THEN 1 ELSE 0
  BY <1>3, <1>4, <1>10, <1>11 DEF Verdict, Allowed
<1> QED
  BY <1>1, <1>12, ExitStep

-----------------------------------------------------------------------------
\* The theorem.

LEMMA GateStep == GateInv /\ [Next]_vars => GateInv'
<1> SUFFICES ASSUME GateInv, [Next]_vars PROVE GateInv'
  OBVIOUS
<1>1. CASE Next
  BY <1>1, CannotReadStep, FilesReadStep, ReadCommentStep, ReadEntryStep, BadRegexStep, AllowlistReadStep, ParseLineStep,
     ParsedStep, CheckRecordStep, CheckedStep DEF Next
<1>2. CASE UNCHANGED vars
  <2>1. UNCHANGED <<file, log, readable, phase, next, reason, allowlist, records, findings, used, exit>>
    BY <1>2 DEF vars
  <2>2. TypeInv'
    BY <2>1 DEF GateInv, TypeInv
  <2>3. /\ SoundUpTo(next) => SoundUpTo(next)'
        /\ Read(next) => Read(next)'
        /\ Because(next) <=> Because(next)'
        /\ SoundUpTo(Len(file) + 1) => SoundUpTo(Len(file) + 1)'
        /\ Read(Len(file) + 1) => Read(Len(file) + 1)'
    BY <2>1, SameFiles DEF SoundUpTo, Read, Because, Excused
  <2>4. /\ Grouped(Len(log) + 1) => Grouped(Len(log) + 1)'
        /\ Grouped(next) => Grouped(next)'
    BY <2>1, SameGroups
  <2>5. CheckedUpTo(next) => CheckedUpTo(next)'
    <3>1. \A r : /\ IsProblem(records[r])' <=> IsProblem(records[r])
                 /\ HiddenFrom(records[r])' <=> HiddenFrom(records[r])
      BY <2>1 DEF HiddenFrom
    <3> QED
      BY <2>1, <3>1 DEF CheckedUpTo
  <2>6. OpeningInv' /\ ReadingInv'
    BY <2>1, <2>3 DEF GateInv, OpeningInv, ReadingInv
  <2>7. ParsingInv' /\ CheckingInv'
    BY <2>1, <2>3, <2>4, <2>5 DEF GateInv, ParsingInv, CheckingInv
  <2>8. VerdictInv'
    BY <2>1, SameFiles DEF GateInv, VerdictInv
  <2> QED
    BY <2>2, <2>6, <2>7, <2>8 DEF GateInv
<1> QED
  BY <1>1, <1>2

\* Without an entry right after an entry, the code's reading of a reason is the one
\* its docstring gives.
LEMMA OwnReason ==
    ASSUME TypeInv, ~ SharedReason, NEW j \in Entries
    PROVE  Excused(j) <=> Justified(j)
<1>1. j \in Nat \ {0} /\ DOMAIN file = 1 .. Len(file) /\ Len(file) \in Nat
  BY Position DEF Entries
<1>2. ASSUME Excused(j) PROVE Justified(j)
  <2>1. PICK c \in 1 .. j - 1 : /\ file[c].kind = "comment" /\ file[c].text # NoText
                                /\ (c + 1) .. j \subseteq Entries
    BY <1>2 DEF Excused
  <2>2. c = j - 1
    <3>1. ASSUME c # j - 1 PROVE FALSE
      <4>1. j - 1 \in (c + 1) .. j
        BY <1>1, <2>1, <3>1
      <4> QED
        BY <2>1, <4>1 DEF SharedReason
    <3> QED
      BY <3>1
  <2> QED
    BY <1>1, <2>1, <2>2 DEF Justified
<1>3. ASSUME Justified(j) PROVE Excused(j)
  <2>1. j - 1 \in 1 .. j - 1 /\ ((j - 1) + 1) .. j = {j}
    BY <1>1, <1>3 DEF Justified
  <2>2. file[j - 1].kind = "comment" /\ file[j - 1].text # NoText
    BY <1>3 DEF Justified
  <2> QED
    BY <2>1, <2>2 DEF Excused
<1> QED
  BY <1>2, <1>3

LEMMA RightVerdict == GateInv => GateVerdict
<1> SUFFICES ASSUME GateInv, phase = "exited", ~ SharedReason
             PROVE  GateVerdict
  BY DEF GateVerdict
<1>1. exit = IF readable THEN Verdict ELSE 2
  BY DEF GateInv, VerdictInv
<1>2. \A j \in Entries : Excused(j) <=> Justified(j)
  BY OwnReason DEF GateInv
<1>3. Unsound <=> \/ \E j \in DOMAIN file : file[j].kind = "bad_regex"
                  \/ \E j \in Entries : ~ Justified(j)
  BY <1>2 DEF Unsound
<1> QED
  BY <1>1, <1>3 DEF GateVerdict, Verdict, NoRecord, Allowed

\* The gate lets a log through (main's exit code 0) exactly if both files can be
\* read, the allowlist is sound, the log has records, each problem is allowed and
\* each allowance needed; with a sound allowlist and a log worth checking, 1 is the
\* only other code.  It is about allowlists in which no entry comes right after
\* another: there the code asks for one reason where its docstring asks for two.
THEOREM GateIsRight == Spec => []GateVerdict
<1>1. Init => GateInv
  BY GateInit
<1>2. GateInv /\ [Next]_vars => GateInv'
  BY GateStep
<1>3. GateInv => GateVerdict
  BY RightVerdict
<1> QED
  BY <1>1, <1>2, <1>3, PTL DEF Spec
================================================================================
