-------------------------------- MODULE CdDbm --------------------------------
(***************************************************************************)
(* The CD catalogue database of the application (cd_dbm.c, with the        *)
(* dispatch of server.c): two ndbm files, one of catalogue entries keyed   *)
(* by the catalogue string, one of tracks keyed by catalogue and track     *)
(* number.  A string is a member of a small set.  What the code asks of    *)
(* one is kept: whether it is empty, whether it has CAT_CAT_LEN (30) or    *)
(* more characters, and in which catalogue strings it occurs.              *)
(***************************************************************************)
EXTENDS FiniteSets

CONSTANTS
  Catalogs,    \* the catalogue strings a request may name
  Titles,      \* the rest of a cdc_entry: title, type and artist
  TrackNos,    \* track numbers
  Texts,       \* track_txt of a cdt_entry
  Patterns,    \* search strings
  Occurs,      \* Occurs[s]: the catalogue strings in which strstr finds s
  TooLong,     \* the strings of CAT_CAT_LEN or more characters
  Empty,       \* the empty catalogue string
  Absent       \* the content of a key that is not in the file

ASSUME CdDbmAssumption ==
  /\ Occurs \in [Patterns -> SUBSET Catalogs]
  /\ Absent \notin Titles \cup Texts

Entries == Catalogs \X Titles
Data    == Titles \cup Texts \cup {Absent} \cup Entries

\* The two ndbm files.
Databases == [cdc : [Catalogs -> Titles \cup {Absent}],
              cdt : [Catalogs \X TrackNos -> Texts \cup {Absent}]]

EmptyDb == [cdc |-> [c \in Catalogs |-> Absent],
            cdt |-> [k \in Catalogs \X TrackNos |-> Absent]]

\* client_request_e with the part of message_db_t that each request uses.
Requests ==
       [request : {"s_get_cdc_entry", "s_del_cdc_entry"}, catalog : Catalogs]
  \cup [request : {"s_add_cdc_entry"}, catalog : Catalogs, title : Titles]
  \cup [request : {"s_get_cdt_entry", "s_del_cdt_entry"},
        catalog : Catalogs, track : TrackNos]
  \cup [request : {"s_add_cdt_entry"},
        catalog : Catalogs, track : TrackNos, text : Texts]
  \cup [request : {"s_find_cdc_entry"}, pattern : Patterns]

ResponseCodes == {"r_success", "r_failure", "r_find_no_more"}

\* A response message: its code and the entry it carries.
Messages == [response : ResponseCodes, data : Data]

\* What the caller of one of the access functions ends up with.
Results == [response : ResponseCodes, data : Data, found : SUBSET Data]

Outcome(db, code, x, found) ==
  [db |-> db, result |-> [response |-> code, data |-> x, found |-> found]]

Failed(db) == Outcome(db, "r_failure", Absent, {})
Done(db)   == Outcome(db, "r_success", Absent, {})

\* A fetch always succeeds: a key that is too long or missing gives an entry
\* whose catalog field is empty.
get_cdc_entry(db, c) ==
  {Outcome(db, "r_success", IF c \in TooLong THEN Absent ELSE db.cdc[c], {})}

get_cdt_entry(db, c, n) ==
  {Outcome(db, "r_success",
           IF c \in TooLong THEN Absent ELSE db.cdt[<<c, n>>], {})}

\* dbm_store may fail (the disk is full); it replaces what the key held.
add_cdc_entry(db, c, t) ==
  IF c \in TooLong THEN {Failed(db)}
  ELSE {Done([db EXCEPT !.cdc[c] = t]), Failed(db)}

add_cdt_entry(db, c, n, x) ==
  IF c \in TooLong THEN {Failed(db)}
  ELSE {Done([db EXCEPT !.cdt[<<c, n>>] = x]), Failed(db)}

\* dbm_delete fails when there is nothing to delete.
del_cdc_entry(db, c) ==
  IF c \in TooLong \/ db.cdc[c] = Absent THEN {Failed(db)}
  ELSE {Done([db EXCEPT !.cdc[c] = Absent])}

del_cdt_entry(db, c, n) ==
  IF c \in TooLong \/ db.cdt[<<c, n>>] = Absent THEN {Failed(db)}
  ELSE {Done([db EXCEPT !.cdt[<<c, n>>] = Absent])}

\* The catalogue entries a search string matches.
Matching(db, s) ==
  IF s \in TooLong THEN {}
  ELSE {c \in Occurs[s] : db.cdc[c] # Absent}

\* A search that runs to its end: every match, then r_find_no_more.
search_cdc_entry(db, s) ==
  {Outcome(db, "r_find_no_more", Absent,
           {<<c, db.cdc[c]>> : c \in Matching(db, s)})}

\* The switch of process_command, as the outcomes it may have.
Outcomes(db, r) ==
  CASE r.request = "s_get_cdc_entry"  -> get_cdc_entry(db, r.catalog)
    [] r.request = "s_get_cdt_entry"  -> get_cdt_entry(db, r.catalog, r.track)
    [] r.request = "s_add_cdc_entry"  -> add_cdc_entry(db, r.catalog, r.title)
    [] r.request = "s_add_cdt_entry"  ->
         add_cdt_entry(db, r.catalog, r.track, r.text)
    [] r.request = "s_del_cdc_entry"  -> del_cdc_entry(db, r.catalog)
    [] r.request = "s_del_cdt_entry"  -> del_cdt_entry(db, r.catalog, r.track)
    [] r.request = "s_find_cdc_entry" -> search_cdc_entry(db, r.pattern)

IsFind(r) == r.request = "s_find_cdc_entry"

\* Mutant of IsLast: every answer is taken to be one message.
IsLastAlways(r, m) == TRUE

\* The client reads on after a message that is a match of a search; any other
\* message is the last one of its answer.
IsLast(r, m) == ~IsFind(r) \/ m.response # "r_success"

==============================================================================
