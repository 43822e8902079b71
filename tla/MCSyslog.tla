------------------------------ MODULE MCSyslog ------------------------------
(***************************************************************************)
(* A plain value, one with line breaks only, the empty attribute; a record *)
(* with and one without attributes.                                        *)
(***************************************************************************)
EXTENDS Syslog

Plain == [key |-> "a", blank |-> FALSE, broken |-> FALSE]
Broken == [key |-> "b", blank |-> FALSE, broken |-> TRUE]
MCEmpty == [key |-> "", blank |-> FALSE, broken |-> FALSE]
MCAttrs == {Plain, Broken, MCEmpty}
MCRecords ==
    {[level |-> -4, broken |-> TRUE, attrs |-> <<>>],
     [level |-> 7, broken |-> FALSE, attrs |-> <<Plain, [Broken EXCEPT !.blank = TRUE]>>]}
=============================================================================
