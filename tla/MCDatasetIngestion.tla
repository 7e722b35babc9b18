------------------------- MODULE MCDatasetIngestion -------------------------
(***************************************************************************)
(* An instance of DatasetIngestion: a table, a series and an entry with a  *)
(* file that cannot be read or ends the run, a service, and a file.        *)
(***************************************************************************)
EXTENDS DatasetIngestion

CONSTANTS table, series, entry, broken, service, file, old, new, bad

EntryFiles(p) == <<file, service, broken>>
InOrder == <<table, series, entry>>
NoService(f) == f # service
BrokenFirst(f) == IF f = broken THEN 1 ELSE 2
BrokenOrOld(x) == IF x = broken THEN {Unreadable, Raises, Unparsable} ELSE {old}
OldNewOrBad(x) == IF x = broken THEN {old, bad} ELSE {old, new}
RespeltTerms(p) == {{"open", "respelt"}}
SomeTexts == {{}, {"other"}, {"open", "respelt"}, {"open", "restricted"}}
NoneOrNC(f) == IF f = file THEN {{}, {"open", "restricted"}} ELSE {{}}
=============================================================================
