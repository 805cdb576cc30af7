------------------------------ MODULE CdDbmProofs ------------------------------
(* Theorems about the database operations of CdDbm, for any catalogues,      *)
(* titles, tracks and patterns, and facts about pipes and queues that both   *)
(* transports need.                                                          *)
EXTENDS CdDbm, Sequences, SequenceTheorems, TLAPS

(***************************************************************************)
(* The database operations.                                                *)
(***************************************************************************)

\* The new database is a database.
LEMMA EmptyDbType == EmptyDb \in Databases
BY DEF EmptyDb, Databases

\* Every request keeps the database a database and has a well-formed result.
LEMMA OutcomesType ==
  ASSUME NEW d \in Databases, NEW r \in Requests, NEW o \in Outcomes(d, r)
  PROVE  o.db \in Databases /\ o.result \in Results
<1> USE DEF Databases, Results, ResponseCodes, Data, Outcome, Done, Failed
<1>1. CASE r.request = "s_get_cdc_entry"
  <2>1. r.catalog \in Catalogs
    BY <1>1 DEF Requests
  <2>2. Outcomes(d, r) = get_cdc_entry(d, r.catalog)
    BY <1>1 DEF Outcomes
  <2> QED BY <2>1, <2>2 DEF get_cdc_entry
<1>2. CASE r.request = "s_get_cdt_entry"
  <2>1. r.catalog \in Catalogs /\ r.track \in TrackNos
    BY <1>2 DEF Requests
  <2>2. Outcomes(d, r) = get_cdt_entry(d, r.catalog, r.track)
    BY <1>2 DEF Outcomes
  <2> QED BY <2>1, <2>2 DEF get_cdt_entry
<1>3. CASE r.request = "s_add_cdc_entry"
  <2>1. r.catalog \in Catalogs /\ r.title \in Titles
    BY <1>3 DEF Requests
  <2>2. Outcomes(d, r) = add_cdc_entry(d, r.catalog, r.title)
    BY <1>3 DEF Outcomes
  <2> QED BY <2>1, <2>2 DEF add_cdc_entry
<1>4. CASE r.request = "s_add_cdt_entry"
  <2>1. r.catalog \in Catalogs /\ r.track \in TrackNos /\ r.text \in Texts
    BY <1>4 DEF Requests
  <2>2. Outcomes(d, r) = add_cdt_entry(d, r.catalog, r.track, r.text)
    BY <1>4 DEF Outcomes
  <2> QED BY <2>1, <2>2 DEF add_cdt_entry
<1>5. CASE r.request = "s_del_cdc_entry"
  <2>1. r.catalog \in Catalogs
    BY <1>5 DEF Requests
  <2>2. Outcomes(d, r) = del_cdc_entry(d, r.catalog)
    BY <1>5 DEF Outcomes
  <2> QED BY <2>1, <2>2 DEF del_cdc_entry
<1>6. CASE r.request = "s_del_cdt_entry"
  <2>1. r.catalog \in Catalogs /\ r.track \in TrackNos
    BY <1>6 DEF Requests
  <2>2. Outcomes(d, r) = del_cdt_entry(d, r.catalog, r.track)
    BY <1>6 DEF Outcomes
  <2>3. o = Failed(d)
        \/ o = Done([d EXCEPT !.cdt[<<r.catalog, r.track>>] = Absent])
    BY <2>2 DEF del_cdt_entry
  <2>4. [d EXCEPT !.cdt[<<r.catalog, r.track>>] = Absent] \in Databases
    BY <2>1
  <2>5. \A x \in Databases : Failed(x).db \in Databases /\ Failed(x).result \in Results
    OBVIOUS
  <2>6. \A x \in Databases : Done(x).db \in Databases /\ Done(x).result \in Results
    OBVIOUS
  <2> QED BY <2>3, <2>4, <2>5, <2>6 DEF Failed, Done
<1>7. CASE r.request = "s_find_cdc_entry"
  <2>1. Outcomes(d, r) = search_cdc_entry(d, r.pattern)
    BY <1>7 DEF Outcomes
  <2>2. r.pattern \in Patterns
    BY <1>7 DEF Requests
  <2>3. \A c \in Matching(d, r.pattern) : c \in Catalogs /\ d.cdc[c] \in Titles
    BY <2>2, CdDbmAssumption DEF Matching
  <2> QED BY <2>1, <2>3 DEF search_cdc_entry, Entries
<1> QED BY <1>1, <1>2, <1>3, <1>4, <1>5, <1>6, <1>7 DEF Requests

\* An operation other than a search finds nothing, and its result is the code
\* and the entry that the answer carries.
LEMMA SingleAnswer ==
  ASSUME NEW d \in Databases, NEW r \in Requests, ~IsFind(r), NEW o \in Outcomes(d, r)
  PROVE  o.result = [response |-> o.result.response, data |-> o.result.data, found |-> {}]
<1>1. CASE r.request \in {"s_get_cdc_entry", "s_get_cdt_entry"}
  BY <1>1 DEF Outcomes, get_cdc_entry, get_cdt_entry, Outcome
<1>2. CASE r.request \in {"s_add_cdc_entry", "s_add_cdt_entry"}
  BY <1>2 DEF Outcomes, add_cdc_entry, add_cdt_entry, Outcome, Done, Failed
<1>3. CASE r.request = "s_del_cdc_entry"
  BY <1>3 DEF Outcomes, del_cdc_entry, Outcome, Done, Failed
<1>4. CASE r.request = "s_del_cdt_entry"
  BY <1>4 DEF Outcomes, del_cdt_entry, Outcome, Done, Failed
<1> QED BY <1>1, <1>2, <1>3, <1>4 DEF Requests, IsFind

\* A search changes nothing and has one outcome.
LEMMA SearchOutcome ==
  ASSUME NEW d \in Databases, NEW r \in Requests, IsFind(r), NEW o \in Outcomes(d, r)
  PROVE  /\ o.db = d
         /\ o.result = [response |-> "r_find_no_more", data |-> Absent,
                        found |-> {<<c, d.cdc[c]>> : c \in Matching(d, r.pattern)}]
BY DEF Outcomes, IsFind, search_cdc_entry, Outcome

(***************************************************************************)
(* Pipes and queues.                                                       *)
(***************************************************************************)

\* The first element and the rest of a pipe.
LEMMA TailFacts ==
  ASSUME NEW S, NEW s \in Seq(S), s # <<>>
  PROVE  /\ Len(s) \in Nat \ {0} /\ Head(s) = s[1] /\ Head(s) \in S
         /\ Tail(s) \in Seq(S) /\ Len(Tail(s)) = Len(s) - 1
         /\ \A i \in 1 .. Len(Tail(s)) :
              Tail(s)[i] = s[i + 1] /\ i + 1 \in 1 .. Len(s) /\ i + 1 # 1
OBVIOUS

\* A pipe after a write.
LEMMA AppendFacts ==
  ASSUME NEW S, NEW s \in Seq(S), NEW m \in S
  PROVE  /\ Len(s) \in Nat /\ Append(s, m) \in Seq(S)
         /\ Len(Append(s, m)) = Len(s) + 1
         /\ Append(s, m)[Len(s) + 1] = m
         /\ \A i \in 1 .. Len(s) : Append(s, m)[i] = s[i]
OBVIOUS

\* The data of the first n messages of a pipe, when these messages stay.
LEMMA SameData ==
  ASSUME NEW s, NEW t, NEW n \in Nat, \A j \in 1 .. n : t[j] = s[j]
  PROVE  {t[j].data : j \in 1 .. n} = {s[j].data : j \in 1 .. n}
OBVIOUS

\* A write adds its data.
LEMMA AppendData ==
  ASSUME NEW S, NEW s \in Seq(S), NEW m \in S
  PROVE  {Append(s, m)[j].data : j \in 1 .. Len(s) + 1}
           = {s[j].data : j \in 1 .. Len(s)} \cup {m.data}
BY AppendFacts

\* A read takes the data of the first message.
LEMMA TailData ==
  ASSUME NEW S, NEW s \in Seq(S), s # <<>>, NEW n \in 1 .. Len(s)
  PROVE  {Head(s).data} \cup {Tail(s)[j].data : j \in 1 .. n - 1}
           = {s[j].data : j \in 1 .. n}
<1> DEFINE L == {Head(s).data} \cup {Tail(s)[j].data : j \in 1 .. n - 1}
           R == {s[j].data : j \in 1 .. n}
<1>1. /\ Len(s) \in Nat \ {0} /\ Head(s) = s[1]
      /\ \A i \in 1 .. n - 1 : Tail(s)[i] = s[i + 1]
  BY TailFacts
<1>2. ASSUME NEW x \in L
      PROVE  x \in R
  BY <1>1
<1>3. ASSUME NEW j \in 1 .. n
      PROVE  s[j].data \in L
  <2>1. CASE j = 1
    BY <1>1, <2>1
  <2>2. CASE j # 1
    <3>1. j - 1 \in 1 .. n - 1 /\ s[j] = Tail(s)[j - 1]
      BY <1>1, <2>2
    <3> QED BY <3>1
  <2> QED BY <2>1, <2>2
<1> QED BY <1>2, <1>3

==============================================================================
