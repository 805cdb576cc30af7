------------------------------- MODULE SigSlot -------------------------------
(***************************************************************************)
(* signal-slot, sigslot.h: signals that keep a list of connections, and    *)
(* objects (has_slots) that keep the set of the signals connected to them, *)
(* used from several threads under the policy multi_threaded_local: every  *)
(* signal and every object has a mutex, which is not recursive.  A step    *)
(* ends where the next lock is taken.  The slots only print, as that of    *)
(* main.cpp does.  An object is destroyed when no thread is about to       *)
(* connect or disconnect it, a signal when no other thread uses it, and    *)
(* copies are made while nobody else is at work: the constructors that     *)
(* copy do not lock what they copy from.  A call into a freed object has   *)
(* no defined outcome; nothing is modelled after it.                       *)
(***************************************************************************)
EXTENDS Naturals, SequencesExt

CONSTANTS SigThreads, Signals, Receivers,
          Slots,            \* the member functions to connect to
          MaxConnections    \* bound: connections of one signal, all different

ASSUME SigSlotAssumption ==
  /\ Signals \cap Receivers = {} /\ "end" \notin Receivers
  /\ "none" \notin SigThreads \cup Signals \cup Receivers

VARIABLES
  m_connected_slots,  \* of each signal: a list of connections
  m_senders,          \* of each object: the signals it knows of
  life,               \* of each signal and object
  holder,             \* the thread that has its mutex, or "none"
  doing,              \* what each thread is inside of
  doubled             \* history: signals and objects told of the end of one of two connections

sigVars == <<m_connected_slots, m_senders, life, holder, doing, doubled>>

Connections0 == [dest : Receivers, slot : Slots]
End == [dest |-> "end", slot |-> "end"]
Idle == [op |-> "idle", sig |-> "none", recv |-> "none", dies |-> FALSE,
         it |-> End, itNext |-> End, rest |-> {}]

\* Some exist, some are gone, and some may be made by a copy.
SigInit ==
  /\ m_connected_slots = [s \in Signals |-> <<>>] /\ m_senders = [o \in Receivers |-> {}]
  /\ life \in [Signals \cup Receivers -> {"none", "live", "dead"}]
  /\ holder = [x \in Signals \cup Receivers |-> "none"]
  /\ doing = [t \in SigThreads |-> Idle] /\ doubled = {}

Free(x) == holder[x] = "none"
Enter(t, x, now) ==
  /\ doing[t] = Idle /\ life[x] = "live" /\ Free(x)
  /\ holder' = [holder EXCEPT ![x] = t] /\ doing' = [doing EXCEPT ![t] = now]
Finish(t, x) == holder' = [holder EXCEPT ![x] = "none"] /\ doing' = [doing EXCEPT ![t] = Idle]

Connected(s, o) == \E c \in ToSet(m_connected_slots[s]) : c.dest = o
First(s) == IF m_connected_slots[s] = <<>> THEN End ELSE Head(m_connected_slots[s])
PlaceOf(conns, c) == CHOOSE i \in DOMAIN conns : conns[i] = c
After(s, c) ==
  LET conns == m_connected_slots[s]
      i == PlaceOf(conns, c)
  IN  IF i = Len(conns) THEN End ELSE conns[i + 1]

\* The places of a list that are connections to o, and what a list has at some of its
\* places, in its order: the n-th of them is the one with n of them up to it.
PlacesTo(conns, o) == {i \in DOMAIN conns : conns[i].dest = o}
AtPlaces(conns, places) ==
  [n \in 1 .. Cardinality(places) |->
     conns[CHOOSE i \in places : Cardinality({k \in places : k <= i}) = n]]
Without(conns, o) == AtPlaces(conns, DOMAIN conns \ PlacesTo(conns, o))
IsFirst(i, places) == i \in places /\ \A k \in places : i <= k

-----------------------------------------------------------------------------
\* connect and disconnect change the list, and then tell the object.

connect(t, s, o, f) ==
  /\ Enter(t, s, [Idle EXCEPT !.op = "connect", !.sig = s, !.recv = o]) /\ life[o] = "live"
  /\ Len(m_connected_slots[s]) < MaxConnections
  /\ [dest |-> o, slot |-> f] \notin ToSet(m_connected_slots[s])
  /\ m_connected_slots' = [m_connected_slots EXCEPT ![s] = Append(@, [dest |-> o, slot |-> f])]
  /\ UNCHANGED <<m_senders, life, doubled>>

signal_connect(t) ==
  LET s == doing[t].sig  o == doing[t].recv IN
  /\ doing[t].op = "connect" /\ Free(o)
  /\ m_senders' = [m_senders EXCEPT ![o] = @ \cup {s}] /\ doubled' = doubled \ {<<s, o>>}
  /\ Finish(t, s) /\ UNCHANGED <<m_connected_slots, life>>

\* Only the first connection of the object is removed.
disconnect(t, s, o) ==
  LET places == PlacesTo(m_connected_slots[s], o) IN
  /\ life[o] = "live" /\ Enter(t, s, [Idle EXCEPT !.op = "disconnect", !.sig = s, !.recv = o])
  /\ \E i \in places :
       /\ IsFirst(i, places)
       /\ m_connected_slots' = [m_connected_slots EXCEPT ![s] = RemoveAt(@, i)]
       /\ doubled' = IF places # {i} THEN doubled \cup {<<s, o>>} ELSE doubled \ {<<s, o>>}
  /\ UNCHANGED <<m_senders, life>>

\* Mutant of signal_disconnect: disconnect does not tell the object.
signal_disconnectForgets(t) ==
  /\ doing[t].op = "disconnect" /\ Free(doing[t].recv)
  /\ Finish(t, doing[t].sig) /\ UNCHANGED <<m_connected_slots, m_senders, life, doubled>>

signal_disconnect(t) ==
  LET s == doing[t].sig  o == doing[t].recv IN
  /\ doing[t].op = "disconnect" /\ Free(o)
  /\ m_senders' = [m_senders EXCEPT ![o] = @ \ {s}]
  /\ Finish(t, s) /\ UNCHANGED <<m_connected_slots, life, doubled>>

-----------------------------------------------------------------------------
\* disconnect_all of a signal, and its destructor, which calls it (dies).

disconnect_all(t, s, dies) ==
  /\ dies => \A u \in SigThreads : doing[u].sig # s
  /\ Enter(t, s, [Idle EXCEPT !.op = "clear", !.sig = s, !.dies = dies, !.it = First(s)])
  /\ life' = IF dies THEN [life EXCEPT ![s] = "dying"] ELSE life
  /\ UNCHANGED <<m_connected_slots, m_senders, doubled>>

disconnect_all_one(t) ==
  LET s == doing[t].sig  c == doing[t].it  conns == m_connected_slots[s] IN
  /\ doing[t].op = "clear" /\ c # End /\ life[c.dest] # "dead" /\ Free(c.dest)
  /\ m_senders' = [m_senders EXCEPT ![c.dest] = @ \ {s}]
  /\ doing' = [doing EXCEPT ![t].it = After(s, c)]
  /\ doubled' = IF \E i \in PlacesTo(conns, c.dest) : i > PlaceOf(conns, c)
                THEN doubled \cup {<<s, c.dest>>} ELSE doubled
  /\ UNCHANGED <<m_connected_slots, life, holder>>

disconnect_all_ends(t) ==
  LET s == doing[t].sig IN
  /\ doing[t].op = "clear" /\ doing[t].it = End
  /\ m_connected_slots' = [m_connected_slots EXCEPT ![s] = <<>>]
  /\ doubled' = {p \in doubled : p[1] # s}
  /\ life' = IF doing[t].dies THEN [life EXCEPT ![s] = "dead"] ELSE life
  /\ Finish(t, s) /\ UNCHANGED m_senders

-----------------------------------------------------------------------------
\* The signal stays locked while the slots run; the next one is known before the call.

emit(t, s) ==
  /\ Enter(t, s, [Idle EXCEPT !.op = "emit", !.sig = s, !.it = First(s)])
  /\ UNCHANGED <<m_connected_slots, m_senders, life, doubled>>

emit_calls(t) ==
  LET c == doing[t].it IN
  /\ doing[t].op = "emit" /\ c # End /\ life[c.dest] # "dead"
  /\ doing' = [doing EXCEPT ![t].op = "slot", ![t].itNext = After(doing[t].sig, c)]
  /\ UNCHANGED <<m_connected_slots, m_senders, life, holder, doubled>>

slot_returns(t) ==
  /\ doing[t].op = "slot"
  /\ doing' = [doing EXCEPT ![t].op = "emit", ![t].it = doing[t].itNext]
  /\ UNCHANGED <<m_connected_slots, m_senders, life, holder, doubled>>

emit_ends(t) ==
  /\ doing[t].op = "emit" /\ doing[t].it = End
  /\ Finish(t, doing[t].sig) /\ UNCHANGED <<m_connected_slots, m_senders, life, doubled>>

-----------------------------------------------------------------------------
\* disconnect_all of an object, and its destructor: the object is locked before the signals.

leave_all(t, o, dies) ==
  /\ dies => \A u \in SigThreads : doing[u].recv # o
  /\ Enter(t, o, [Idle EXCEPT !.op = "leave", !.recv = o, !.dies = dies, !.rest = m_senders[o]])
  /\ life' = IF dies THEN [life EXCEPT ![o] = "dying"] ELSE life
  /\ UNCHANGED <<m_connected_slots, m_senders, doubled>>

\* Mutant of slot_disconnect: it does not lock the signal.
slot_disconnectUnlocked(t, s) ==
  /\ doing[t].op = "leave" /\ s \in doing[t].rest
  /\ m_connected_slots' = [m_connected_slots EXCEPT ![s] = Without(@, doing[t].recv)]
  /\ doing' = [doing EXCEPT ![t].rest = @ \ {s}]
  /\ UNCHANGED <<m_senders, life, holder, doubled>>

\* Mutant of slot_disconnect: like disconnect, it stops at the first connection.
slot_disconnectFirst(t, s) ==
  LET places == PlacesTo(m_connected_slots[s], doing[t].recv) IN
  /\ doing[t].op = "leave" /\ s \in doing[t].rest /\ Free(s)
  /\ \/ places = {} /\ UNCHANGED m_connected_slots
     \/ \E i \in places : /\ IsFirst(i, places)
                          /\ m_connected_slots' = [m_connected_slots EXCEPT ![s] = RemoveAt(@, i)]
  /\ doing' = [doing EXCEPT ![t].rest = @ \ {s}]
  /\ UNCHANGED <<m_senders, life, holder, doubled>>

slot_disconnect(t, s) ==
  /\ doing[t].op = "leave" /\ s \in doing[t].rest /\ Free(s)
  /\ m_connected_slots' = [m_connected_slots EXCEPT ![s] = Without(@, doing[t].recv)]
  /\ doing' = [doing EXCEPT ![t].rest = @ \ {s}]
  /\ UNCHANGED <<m_senders, life, holder, doubled>>

\* Mutant of leave_all_ends: the object stays locked.
leave_all_endsLocked(t) ==
  LET o == doing[t].recv IN
  /\ doing[t].op = "leave" /\ doing[t].rest = {} /\ m_senders' = [m_senders EXCEPT ![o] = {}]
  /\ life' = IF doing[t].dies THEN [life EXCEPT ![o] = "dead"] ELSE life
  /\ doing' = [doing EXCEPT ![t] = Idle] /\ UNCHANGED <<m_connected_slots, holder, doubled>>

leave_all_ends(t) ==
  LET o == doing[t].recv IN
  /\ doing[t].op = "leave" /\ doing[t].rest = {} /\ m_senders' = [m_senders EXCEPT ![o] = {}]
  /\ life' = IF doing[t].dies THEN [life EXCEPT ![o] = "dead"] ELSE life
  /\ Finish(t, o) /\ UNCHANGED <<m_connected_slots, doubled>>

-----------------------------------------------------------------------------
\* Constructors that copy.

Quiet(x, copy) ==
  /\ \A t \in SigThreads : doing[t] = Idle
  /\ life[x] = "live" /\ life[copy] = "none" /\ life' = [life EXCEPT ![copy] = "live"]

signal_copy(s, copy) ==
  /\ Quiet(s, copy) /\ \A c \in ToSet(m_connected_slots[s]) : life[c.dest] # "dead"
  /\ m_connected_slots' = [m_connected_slots EXCEPT ![copy] = m_connected_slots[s]]
  /\ m_senders' = [o \in Receivers |->
                     IF Connected(s, o) THEN m_senders[o] \cup {copy} ELSE m_senders[o]]
  /\ UNCHANGED <<holder, doing, doubled>>

slot_duplicate(conns, o, copy) ==
  LET old == AtPlaces(conns, PlacesTo(conns, o))
  IN  conns \o [i \in DOMAIN old |-> [dest |-> copy, slot |-> old[i].slot]]

has_slots_copy(o, copy) ==
  /\ Quiet(o, copy)
  /\ m_connected_slots' =
       [s \in Signals |-> IF s \in m_senders[o] THEN slot_duplicate(m_connected_slots[s], o, copy)
                          ELSE m_connected_slots[s]]
  /\ \A s \in Signals : Len(m_connected_slots'[s]) <= MaxConnections
  /\ m_senders' = [m_senders EXCEPT ![copy] = m_senders[o]]
  /\ UNCHANGED <<holder, doing, doubled>>

SigThreadStep(t) ==
  \/ \E s \in Signals, o \in Receivers : disconnect(t, s, o) \/ \E f \in Slots : connect(t, s, o, f)
  \/ signal_connect(t) \/ signal_disconnect(t)
  \/ \E s \in Signals : emit(t, s) \/ slot_disconnect(t, s)
  \/ \E dies \in BOOLEAN : \/ \E s \in Signals : disconnect_all(t, s, dies)
                           \/ \E o \in Receivers : leave_all(t, o, dies)
  \/ disconnect_all_one(t) \/ disconnect_all_ends(t) \/ leave_all_ends(t)
  \/ emit_calls(t) \/ slot_returns(t) \/ emit_ends(t)

SigNext ==
  \/ \E t \in SigThreads : SigThreadStep(t)
  \/ \E s, copy \in Signals : signal_copy(s, copy)
  \/ \E o, copy \in Receivers : has_slots_copy(o, copy)

SigSpec == SigInit /\ [][SigNext]_sigVars

-----------------------------------------------------------------------------

\* Emission goes on where it was: while the slots run, the connection that is called and the
\* next one stay in the list, whoever else disconnects or is destroyed (1106-1114).
EmissionKeepsItsPlace ==
  \A t \in SigThreads : doing[t].op \in {"emit", "slot", "clear"} =>
    {doing[t].it, doing[t].itNext} \subseteq ToSet(m_connected_slots[doing[t].sig]) \cup {End}

\* The connections a signal still uses: disconnect_all has freed those before the iterator.
InUse(s) ==
  LET clearing == {t \in SigThreads : doing[t].op = "clear" /\ doing[t].sig = s}
  IN  IF clearing = {} THEN ToSet(m_connected_slots[s]) ELSE {doing[t].it : t \in clearing} \ {End}

\* No signal uses a connection to an object that was destroyed (597-615), but for
\* those of an object that was told of the end when only one of several had ended: then the
\* object does not know of the signal any more (disconnect 503-505, disconnect_all 453).
NoConnectionToFreed ==
  \A s \in Signals : \A c \in InUse(s) : life[c.dest] = "dead" => <<s, c.dest>> \in doubled

\* The two sides agree where nobody is at work: an object knows of a signal if and only if
\* that has a connection to it, with the same exception.  So it knows of no destroyed signal.
SidesAgree ==
  \A s \in Signals, o \in Receivers : Free(s) /\ Free(o) /\ life[o] = "live" =>
    /\ s \in m_senders[o] => Connected(s, o)
    /\ Connected(s, o) => s \in m_senders[o] \/ <<s, o>> \in doubled

\* The object or signal whose mutex a thread is waiting for.
WaitsFor(t) ==
  LET d == doing[t] IN
  CASE d.op \in {"connect", "disconnect"} -> {d.recv}
    [] d.op = "clear" /\ d.it # End -> {d.it.dest} \ {"end"}
    [] d.op = "leave" -> d.rest
    [] OTHER -> {}

AtWork == {t \in SigThreads : doing[t] # Idle}
Stuck  == AtWork # {} /\ \A t \in AtWork : WaitsFor(t) # {} /\ \A x \in WaitsFor(t) : ~Free(x)

\* All wait for one another only where an object is being disconnected or destroyed: it alone
\* locks the object before the signals (602-615); the rest lock the signal first.
StuckOnlyByObject == Stuck => \E t \in AtWork : doing[t].op = "leave"

\* What holds for threads that use the library at the same time: the four above.  It is less
\* than the header says ("Objects using signals and slots can be safely created and destroyed
\* from any thread, even when connections exist", 57-59, and "essentially the same" of the
\* local policy, 65-66), which the cases that StuckOnlyByObject and doubled except contradict.
SigInv == EmissionKeepsItsPlace /\ NoConnectionToFreed /\ SidesAgree /\ StuckOnlyByObject
===============================================================================
