------------------------------- MODULE MCLogGate -------------------------------
(***************************************************************************)
(* LogGate for TLC.                                                        *)
(***************************************************************************)
EXTENDS LogGate

LogLine(level, logger, says) == [level |-> level, logger |-> logger, says |-> says]

\* A record of ours that says something an entry may look for, the notice on
\* custom integrations, an asyncio error, a record of no interest; lines of a
\* traceback that name the domain, or a coroutine that was never awaited.
MCLogLines ==
    {LogLine("WARNING", "ours", {"domain", "a"}),
     LogLine("WARNING", "other", {"domain", "generic", "a"}),
     LogLine("ERROR", "other", {"bad"}),
     LogLine("INFO", "ours", {"domain", "b"}),
     LogLine("none", "none", {"domain"}),
     LogLine("none", "none", {"blocking", "b"})}

FileLine(kind, text) == [kind |-> kind, text |-> text]

MCFileLines ==
    {FileLine("blank", NoText), FileLine("comment", NoText), FileLine("comment", "why"),
     FileLine("entry", "a"), FileLine("entry", "b"), FileLine("bad_regex", "(")}
=============================================================================
