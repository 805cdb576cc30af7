------------------------------- MODULE MCCdPipe -------------------------------
(* Instances of CdPipe for TLC: two catalogue entries, a search that matches *)
(* both and one that is too long, two or three clients.                      *)
EXTENDS CdPipe

CONSTANTS c1, c2, t1, n1, x1, any, long, p1, p2, p3

MCPatterns == {any, long}
MCOccurs == [s \in {any, long} |-> IF s = any THEN Catalogs ELSE {}]

Add(c)  == [request |-> "s_add_cdc_entry", catalog |-> c, title |-> t1]
Del(c)  == [request |-> "s_del_cdc_entry", catalog |-> c]
Get(c)  == [request |-> "s_get_cdc_entry", catalog |-> c]
Find(s) == [request |-> "s_find_cdc_entry", pattern |-> s]

OpsAll    == {Add(c1), Add(c2), Del(c1), Get(c1), Find(any), Find(long)}
OpsSearch == {Add(c1), Add(c2), Find(any)}
OpsFew    == {Add(c1), Find(any)}
==============================================================================
