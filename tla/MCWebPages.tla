----------------------------- MODULE MCWebPages -------------------------------
(* An instance of WebPages for TLC: three processes in the listing.          *)
EXTENDS WebPages

MCListing == <<"self", "p1", "p2", "p3">>
===============================================================================
