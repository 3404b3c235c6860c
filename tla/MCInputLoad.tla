----------------------------- MODULE MCInputLoad -----------------------------
(***************************************************************************)
(* Instances of InputLoad for TLC: two cases, a Processor that is mapped   *)
(* once normalized and one that is not; mappings that are valid, empty,    *)
(* ambiguous once normalized, or not configured.  In the second group      *)
(* cases and Processors are numbers.                                       *)
(***************************************************************************)
EXTENDS InputLoad

MCCases == {"c1", "c2"}
MCNames == {"CHASE ", "Amex"}
MCKeyOf == [n \in MCNames \cup {"Chase"} |-> IF n = "Amex" THEN "amex" ELSE "chase"]
MCNoMapping == {<<"no", "mapping">>}
MCMapping == {<<"Chase", "13">>}
MCMappings == {MCNoMapping, {}, MCMapping, {<<"Chase", "13">>, <<"CHASE ", "14">>}}

MCNumberCases == {"11", "12"}
MCNumberNames == {"7", "8"}
MCNumberKeyOf == [n \in MCNumberNames |-> n]
MCNumberMapping == {{<<"7", "13">>}}
=============================================================================
