-------------------------------- MODULE LogGate --------------------------------
(***************************************************************************)
(* scripts/check_ha_log.py: the gate the docker tests put a Home Assistant *)
(* log through.  It reads the allowlist, groups the log's lines into       *)
(* records, looks for problems with one integration in them, and takes out *)
(* those an entry of the allowlist hides.                                  *)
(*                                                                         *)
(* What a line says is the set of patterns of the script that match it; a  *)
(* record says what its lines say.  A regular expression of the allowlist  *)
(* stands for the one pattern it looks for.                                *)
(***************************************************************************)
EXTENDS Integers, Sequences, SequencesExt

CONSTANTS
    LogLines,       \* lines a log may have: [level, logger, says]
    FileLines,      \* lines an allowlist may have: [kind, text]
    MaxLog,         \* bound on the lines of the log
    MaxFile         \* bound on the lines of the allowlist

ASSUME LogGateAssumption ==
    /\ LogLines \subseteq [level : STRING, logger : STRING, says : SUBSET STRING]
    /\ FileLines \subseteq [kind : {"blank", "comment", "entry", "bad_regex"}, text : STRING]
    /\ {MaxLog, MaxFile} \subseteq Nat

VARIABLES
    file, log,      \* the lines of the allowlist and of the log
    readable,       \* neither read failed
    phase,          \* "open", "allowlist", "parse", "check" or "exited"
    next,           \* the line, or the record, to be looked at
    reason,         \* load_allowlist: a comment with a reason precedes
    allowlist,      \* the patterns of the entries
    records, findings,
    used,           \* the entries that hid a finding
    exit            \* the exit code; -1 before the end

vars == <<file, log, readable, phase, next, reason, allowlist, records, findings, used, exit>>

BAD_LEVELS == {"WARNING", "ERROR", "CRITICAL"}

\* The patterns of the script: one token for each group.
BAD_PATTERNS == "bad"
BLOCKING_CALL == "blocking"
GENERIC_IGNORES == "generic"

\* The text of a comment that gives no reason.
NoText == ""

Init ==
    /\ file \in BoundedSeq(FileLines, MaxFile)
    /\ log \in BoundedSeq(LogLines, MaxLog)
    /\ readable = TRUE
    /\ phase = "open"
    /\ next = 1
    /\ reason = FALSE
    /\ allowlist = <<>>
    /\ records = <<>>
    /\ findings = {}
    /\ used = {}
    /\ exit = -1

Done(code) ==
    /\ phase' = "exited"
    /\ exit' = code
    /\ UNCHANGED <<file, log, next, reason, allowlist, records, findings, used>>

Exit(code) == Done(code) /\ UNCHANGED readable

GoTo(step) ==
    /\ phase' = step
    /\ next' = 1
    /\ UNCHANGED <<file, log, readable, reason, allowlist, records, findings, used, exit>>

-----------------------------------------------------------------------------
\* main reads the log, then the allowlist if there is one: a missing allowlist is
\* an empty one.

CannotRead ==
    /\ phase = "open"
    /\ readable' = FALSE
    /\ Done(2)

FilesRead ==
    /\ phase = "open"
    /\ GoTo("allowlist")

-----------------------------------------------------------------------------
\* load_allowlist, a line at a time.

ReadComment ==
    /\ phase = "allowlist" /\ next <= Len(file)
    /\ file[next].kind \in {"blank", "comment"}
    /\ reason' = (file[next].kind = "comment" /\ file[next].text # NoText)
    /\ next' = next + 1
    /\ UNCHANGED <<file, log, readable, phase, allowlist, records, findings, used, exit>>

ReadEntry ==
    /\ phase = "allowlist" /\ next <= Len(file)
    /\ file[next].kind = "entry"
    /\ \/ /\ reason
          /\ allowlist' = Append(allowlist, file[next].text)
          /\ next' = next + 1
          /\ UNCHANGED <<file, log, readable, phase, reason, records, findings, used, exit>>
       \/ /\ ~ reason
          /\ Exit(2)

BadRegex ==
    /\ phase = "allowlist" /\ next <= Len(file)
    /\ file[next].kind = "bad_regex"
    /\ Exit(2)

AllowlistRead ==
    /\ phase = "allowlist" /\ next > Len(file)
    /\ GoTo("parse")

-----------------------------------------------------------------------------
\* parse_records, a line at a time.  A line that starts no record continues the
\* one before it; the first line starts one in any case.

ParseLine ==
    /\ phase = "parse" /\ next <= Len(log)
    /\ LET line == log[next]
           last == Len(records)
       IN  records' = IF line.level # "none" \/ records = <<>>
                      THEN Append(records, line)
                      ELSE [records EXCEPT ![last].says = @ \cup line.says]
    /\ next' = next + 1
    /\ UNCHANGED <<file, log, readable, phase, reason, allowlist, findings, used, exit>>

\* A log without records must not pass.
Parsed ==
    /\ phase = "parse" /\ next > Len(log)
    /\ \/ /\ \A i \in DOMAIN records : records[i].level = "none"
          /\ Exit(2)
       \/ /\ \E i \in DOMAIN records : records[i].level # "none"
          /\ GoTo("check")

-----------------------------------------------------------------------------
\* check_records, a record at a time.

names_domain(record) == "domain" \in record.says

rules(record) ==
    {rule \in {"our_logger", "blocking_call", "bad_pattern"} :
        \/ rule = "our_logger" /\ record.level \in BAD_LEVELS /\ record.logger = "ours"
        \/ rule = "blocking_call" /\ BLOCKING_CALL \in record.says /\ names_domain(record)
        \/ rule = "bad_pattern" /\ BAD_PATTERNS \in record.says /\ names_domain(record)}

\* Variant: an entry counts as used for any record it matches.
CheckRecordUsingAny ==
    /\ phase = "check" /\ next <= Len(records)
    /\ LET record == records[next]
           hidden_by == {i \in DOMAIN allowlist : allowlist[i] \in record.says}
       IN  /\ used' = used \cup hidden_by
           /\ findings' = IF GENERIC_IGNORES \notin record.says /\ rules(record) # {} /\ hidden_by = {}
                          THEN findings \cup {next} ELSE findings
    /\ next' = next + 1
    /\ UNCHANGED <<file, log, readable, phase, reason, allowlist, records, exit>>

CheckRecord ==
    /\ phase = "check" /\ next <= Len(records)
    /\ LET record == records[next]
           problem == GENERIC_IGNORES \notin record.says /\ rules(record) # {}
           hidden_by == {i \in DOMAIN allowlist : allowlist[i] \in record.says}
       IN  /\ used' = IF problem THEN used \cup hidden_by ELSE used
           /\ findings' = IF problem /\ hidden_by = {} THEN findings \cup {next} ELSE findings
    /\ next' = next + 1
    /\ UNCHANGED <<file, log, readable, phase, reason, allowlist, records, exit>>

\* Entries that hid no finding.
stale_entries == DOMAIN allowlist \ used

\* The exit code.
Checked ==
    /\ phase = "check" /\ next > Len(records)
    /\ Exit(IF findings # {} \/ stale_entries # {} THEN 1 ELSE 0)

Next ==
    \/ CannotRead
    \/ FilesRead
    \/ ReadComment
    \/ ReadEntry
    \/ BadRegex
    \/ AllowlistRead
    \/ ParseLine
    \/ Parsed
    \/ CheckRecord
    \/ Checked

Spec == Init /\ [][Next]_vars

-----------------------------------------------------------------------------
\* Properties.  Positions i are of the log, j of the allowlist.

\* The lines of the record that starts at line i.
Starts == {i \in DOMAIN log : i = 1 \/ log[i].level # "none"}

LinesOf(i) == {k \in i .. Len(log) : Starts \cap (i + 1) .. k = {}}

Says(i) == UNION {log[k].says : k \in LinesOf(i)}

\* What the script's docstring calls a finding.
Problems ==
    {i \in Starts :
        /\ "generic" \notin Says(i)
        /\ \/ log[i].level \in BAD_LEVELS /\ log[i].logger = "ours"
           \/ "domain" \in Says(i) /\ Says(i) \cap {"blocking", "bad"} # {}}

Entries == {j \in DOMAIN file : file[j].kind = "entry"}

\* A comment on the line before gives the reason.
Justified(j) == j > 1 /\ file[j - 1].kind = "comment" /\ file[j - 1].text # NoText

\* An entry right after an entry, under the reason of that one.
SharedReason == \E j \in Entries : j - 1 \in Entries

Hides(j, i) == file[j].text \in Says(i)

\* The gate passes a log if and only if log and allowlist can be read, the allowlist
\* is sound, there is a record, an entry hides each problem, and each entry hides
\* one (the exit codes in the script's docstring): no traceback line, blank line,
\* generic notice or entry for something else gets a problem past it or keeps a stale
\* entry alive.  Allowlists in which an entry comes right after another are
\* EveryEntryHasItsReason's.
GateVerdict ==
    phase = "exited" /\ ~ SharedReason =>
        exit = IF \/ ~ readable
                  \/ \E j \in DOMAIN file : file[j].kind = "bad_regex"
                  \/ \E j \in Entries : ~ Justified(j)
                  \/ \A i \in DOMAIN log : log[i].level = "none"
               THEN 2
               ELSE IF /\ \A i \in Problems : \E j \in Entries : Hides(j, i)
                       /\ \A j \in Entries : \E i \in Problems : Hides(j, i)
                    THEN 0 ELSE 1

\* "Each entry is a regular expression on its own line, and the line before it
\* must be a comment that gives the reason.  Entries without a reason are
\* rejected." (the script's docstring)
EveryEntryHasItsReason ==
    exit \in {0, 1} => \A j \in Entries : Justified(j)
=============================================================================
