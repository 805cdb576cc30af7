----------------------------- MODULE MCCursesApp ------------------------------
(* An instance of CursesApp for TLC: two catalogue numbers, of which one is  *)
(* the beginning of the other.                                               *)
EXTENDS CursesApp

MCPrefixes == {<<"1", "1">>, <<"12", "12">>, <<"1", "12">>}
MCSearches == {{"a"}}
===============================================================================
