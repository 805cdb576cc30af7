-------------------------------- MODULE MCCdUi --------------------------------
(* Instances of CdUi for TLC: two catalogue names, tracks 1 and 2 (and the   *)
(* number after the last one), a search that matches both names and one that *)
(* matches the first.                                                        *)
EXTENDS CdUi

CONSTANTS c1, c2, some, u1, u2

MCTrackNos == 1 .. MaxTrack + 1
MCPatterns == {AnyText, some}
MCOccurs   == [s \in MCPatterns |-> IF s = AnyText THEN Catalogs ELSE {c1}]
================================================================================
