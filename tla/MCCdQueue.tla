------------------------------ MODULE MCCdQueue ------------------------------
(* Instances of CdQueue for TLC: two catalogue entries, a search that matches *)
(* both, two clients, queues of two messages.                                *)
EXTENDS CdQueue

CONSTANTS c1, c2, t1, n1, x1, any, p1, p2

MCPatterns == {any}
MCOccurs == [s \in {any} |-> Catalogs]

Add(c)  == [request |-> "s_add_cdc_entry", catalog |-> c, title |-> t1]
Find(s) == [request |-> "s_find_cdc_entry", pattern |-> s]

OpsSearch == {Add(c1), Add(c2), Find(any)}
OpsFew    == {Add(c1), Find(any)}
==============================================================================
