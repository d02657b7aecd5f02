------------------------------- MODULE MCSite -------------------------------
(* Site for TLC.                                                             *)
EXTENDS Site

line(is, key, value) == [is |-> is, key |-> key, value |-> value]

\* In a host section, "threadcnt=0" is a pair with a key of no meaning there.
SomeLines ==
    {line("heading", name, "") : name \in {"global", "host", "other"}} \cup
    {line("pair", "defaulthost", "a"), line("pair", "servername", "a"),
     line("pair", "docroot", "x"), line("pair", "docroot", "gone"),
     line("pair", "threadcnt", "0"), line("pair", "port", "junk"),
     line("text", "", "")}

Digits == [value \in {"0"} |-> 0]
=============================================================================
