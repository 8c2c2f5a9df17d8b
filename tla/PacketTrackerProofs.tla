------------------------- MODULE PacketTrackerProofs -------------------------
(***************************************************************************)
(* One event per probe, conservation of events and correct credit, for any *)
(* number of packets, connections, keys, ICMP messages and listeners.      *)
(*                                                                         *)
(* None of the three is inductive alone: that a second ICMP error finds    *)
(* nothing rests on a probe being in the channel or in the index, never in *)
(* both, and once at most, which rests on its being reported once.         *)
(*                                                                         *)
(* The rounds drain the tracker for one connection: a message is credited  *)
(* once and drained once, so that a hop is reported once and truly.  The   *)
(* client's counts of starts and ends are those of rounds that were asked  *)
(* for and of rounds that are over.                                        *)
(***************************************************************************)
EXTENDS TraceRounds, FiniteSetTheorems, TLAPS

\* Channel entries are distinct reported probes that are not in the index yet.
ChannelOnce ==
  /\ \A i, j \in 1..Len(channel) : channel[i] = channel[j] => i = j
  /\ \A i \in 1..Len(channel) : channel[i] \in reported /\ ~Indexed(channel[i])

\* An entry is filed under its own key.
IndexKeyed == \A k \in Keys : index[k] # None => KeyOf[index[k]] = k /\ index[k] \in reported

\* Events come from received messages and reported probes.
MatchesReceived ==
  /\ \A e \in matches : e.packet \in reported /\ about[e.icmp] # None
  /\ \A m \in unmatched : about[m] # None

TrackerInv ==
  /\ TypeOK
  /\ ChannelOnce
  /\ IndexKeyed
  /\ MatchesReceived
  /\ OneEventPerProbe
  /\ EventsConserved
  /\ CreditedToQuotedProbe

\* The empty tracker of PacketTracker::new satisfies the invariant.
LEMMA TrackerInvInit == Init => TrackerInv
  BY TrackerAssumption DEF Init, TrackerInv, TypeOK, ChannelOnce, IndexKeyed, MatchesReceived,
     OneEventPerProbe, EventsConserved, CreditedToQuotedProbe, InHand, InChannel, Indexed

\* What the receive of the channel's head leaves behind.
LEMMA TailFacts ==
  ASSUME NEW S, NEW s \in Seq(S), s # <<>>
  PROVE  /\ Tail(s) \in Seq(S)
         /\ Head(s) = s[1]
         /\ Head(s) \in S
         /\ Len(Tail(s)) = Len(s) - 1
         /\ 1 \in 1..Len(s)
         /\ \A i \in 1..Len(Tail(s)) : i + 1 \in 1..Len(s) /\ Tail(s)[i] = s[i + 1]
  OBVIOUS

\* Every step of the tracker preserves the invariant.
LEMMA TrackerInvNext == TrackerInv /\ [Next]_vars => TrackerInv'
<1> SUFFICES ASSUME TrackerInv, [Next]_vars PROVE TrackerInv'
  OBVIOUS
<1> USE TrackerAssumption DEF TrackerInv
<1>1. ASSUME NEW p \in Packets, SendPacket(p) PROVE TrackerInv'
  BY <1>1 DEF SendPacket, TypeOK, ChannelOnce, IndexKeyed, MatchesReceived,
     OneEventPerProbe, EventsConserved, CreditedToQuotedProbe, InHand, InChannel, Indexed
<1>2. ASSUME NEW p \in Packets, TrackPacket(p) PROVE TrackerInv'
  <2>0. p \in Probes /\ p \notin reported
    BY <1>2 DEF TrackPacket
  <2>1. /\ channel' \in Seq(Probes)
        /\ Len(channel') = Len(channel) + 1
        /\ \A i \in 1..Len(channel) : channel'[i] = channel[i]
        /\ channel'[Len(channel) + 1] = p
        /\ Len(channel) \in Nat
    BY <1>2, <2>0 DEF TrackPacket, TypeOK
  <2>2. TypeOK'
    BY <1>2, <2>0, <2>1 DEF TrackPacket, TypeOK
  <2>3. ~Indexed(p)
    BY <2>0, TrackerAssumption DEF IndexKeyed, Indexed, TypeOK
  <2>4. ChannelOnce'
    BY <1>2, <2>0, <2>1, <2>3 DEF TrackPacket, ChannelOnce, Indexed
  <2>5. IndexKeyed' /\ MatchesReceived'
    BY <1>2 DEF TrackPacket, IndexKeyed, MatchesReceived
  <2>6. OneEventPerProbe'
    BY <1>2, <2>0, <2>1 DEF TrackPacket, OneEventPerProbe, MatchesReceived, InChannel, Indexed
  <2>7. EventsConserved' /\ CreditedToQuotedProbe'
    BY <1>2 DEF TrackPacket, EventsConserved, CreditedToQuotedProbe, InHand
  <2> QED BY <2>2, <2>4, <2>5, <2>6, <2>7
<1>3. CASE ReceiveTracking
  <2>0. /\ channel' \in Seq(Probes)
        /\ Head(channel) = channel[1]
        /\ Head(channel) \in Probes
        /\ 1 \in 1..Len(channel)
        /\ Len(channel') = Len(channel) - 1
        /\ \A i \in 1..Len(channel') : i + 1 \in 1..Len(channel) /\ channel'[i] = channel[i + 1]
    BY <1>3, TailFacts DEF ReceiveTracking, TypeOK
  <2> DEFINE h == Head(channel)
  <2>1. h \in Packets /\ KeyOf[h] \in Keys /\ h \in reported /\ h # None
    BY <2>0 DEF ChannelOnce
  <2>2. index' = [index EXCEPT ![KeyOf[h]] = h]
    BY <1>3 DEF ReceiveTracking
  <2> HIDE DEF h
  <2>3. TypeOK'
    BY <1>3, <2>0, <2>1, <2>2 DEF ReceiveTracking, TypeOK, h
  <2>4. \A i \in 1..Len(channel') : channel'[i] # h
    <3> SUFFICES ASSUME NEW i \in 1..Len(channel'), channel[i + 1] = channel[1]
                 PROVE  FALSE
      BY <2>0 DEF h
    <3>1. i + 1 = 1
      BY <2>0 DEF ChannelOnce
    <3> QED BY <3>1
  <2>5. \A i, j \in 1..Len(channel') : channel'[i] = channel'[j] => i = j
    BY <2>0 DEF ChannelOnce, TypeOK
  <2>6. \A p \in Probes : p # h /\ ~Indexed(p) => ~Indexed(p)'
    BY <2>1, <2>2 DEF Indexed, TypeOK
  <2>7. ChannelOnce'
    BY <1>3, <2>0, <2>3, <2>4, <2>5, <2>6 DEF ReceiveTracking, ChannelOnce, TypeOK
  <2>8. IndexKeyed'
    BY <1>3, <2>1, <2>2 DEF ReceiveTracking, IndexKeyed, TypeOK
  <2>9. MatchesReceived' /\ EventsConserved' /\ CreditedToQuotedProbe'
    BY <1>3 DEF ReceiveTracking, MatchesReceived, EventsConserved, CreditedToQuotedProbe, InHand
  <2>10. OneEventPerProbe'
    <3> SUFFICES ASSUME NEW e \in matches
                 PROVE  ~InChannel(e.packet)' /\ ~Indexed(e.packet)'
      BY <1>3 DEF ReceiveTracking, OneEventPerProbe
    <3>1. e.packet # h /\ e.packet \in Probes /\ ~InChannel(e.packet) /\ ~Indexed(e.packet)
      BY <2>0 DEF OneEventPerProbe, InChannel, h, MatchesReceived, TypeOK
    <3>2. ~InChannel(e.packet)'
      BY <2>0, <3>1 DEF InChannel
    <3> QED BY <2>6, <3>1, <3>2
  <2> QED BY <2>3, <2>7, <2>8, <2>9, <2>10
<1>4. ASSUME NEW p \in Probes, Expire(p) PROVE TrackerInv'
  BY <1>4 DEF Expire, TypeOK, ChannelOnce, IndexKeyed, MatchesReceived,
     OneEventPerProbe, EventsConserved, CreditedToQuotedProbe, InHand, InChannel, Indexed
<1>5. CASE CleanupExpired
  <2>1. \A p \in Packets : Indexed(p)' => Indexed(p)
    BY <1>5 DEF CleanupExpired, Indexed, TypeOK
  <2>2. TypeOK' /\ IndexKeyed'
    BY <1>5 DEF CleanupExpired, TypeOK, IndexKeyed
  <2>3. ChannelOnce'
    BY <1>5, <2>1 DEF CleanupExpired, ChannelOnce, TypeOK
  <2>4. OneEventPerProbe'
    BY <1>5, <2>1 DEF CleanupExpired, OneEventPerProbe, TypeOK, InChannel, Events
  <2>5. MatchesReceived' /\ EventsConserved' /\ CreditedToQuotedProbe'
    BY <1>5 DEF CleanupExpired, MatchesReceived, EventsConserved, CreditedToQuotedProbe, InHand
  <2> QED BY <2>2, <2>3, <2>4, <2>5
<1>6. ASSUME NEW l \in Listeners, NEW m \in Messages, NEW p \in Packets,
             NEW intact \in BOOLEAN, NEW type,
             MatchIcmpError(l, m, p, intact, type)
      PROVE  TrackerInv'
  <2> DEFINE hit == Lookup(p, intact)
             event == [icmp |-> m, packet |-> hit]
  <2>0. /\ held[l] = None /\ about[m] = None
        /\ about' = [about EXCEPT ![m] = p]
        /\ UNCHANGED <<sent, reported, channel, stale, queue, handed>>
    BY <1>6 DEF MatchIcmpError
  <2>1. CASE hit = None
    <3>1. /\ UNCHANGED <<index, held, matches>>
          /\ unmatched' \in {unmatched, unmatched \cup {m}}
      BY <1>6, <2>1 DEF MatchIcmpError
    <3>2. TypeOK'
      BY <2>0, <3>1 DEF TypeOK
    <3>3. ChannelOnce' /\ IndexKeyed' /\ OneEventPerProbe'
      BY <2>0, <3>1 DEF ChannelOnce, IndexKeyed, OneEventPerProbe, InChannel, Indexed
    <3>4. \A e \in matches : e.icmp \in Messages /\ e.icmp # m /\ about'[e.icmp] = about[e.icmp]
      BY <2>0 DEF MatchesReceived, TypeOK, Events
    <3>5. MatchesReceived'
      BY <2>0, <3>1, <3>4 DEF MatchesReceived, TypeOK
    <3>6. CreditedToQuotedProbe'
      BY <2>0, <3>1, <3>4 DEF CreditedToQuotedProbe
    <3>7. EventsConserved'
      BY <2>0, <3>1 DEF EventsConserved, InHand
    <3> QED BY <3>2, <3>3, <3>5, <3>6, <3>7
  <2>2. CASE hit # None
    <3>1. /\ index' = [index EXCEPT ![KeyOf[p]] = None]
          /\ held' = [held EXCEPT ![l] = event]
          /\ matches' = matches \cup {event}
          /\ unmatched' = unmatched
      BY <1>6, <2>2 DEF MatchIcmpError, Without
    <3>a. hit \in Probes
      BY <2>2 DEF Lookup, TypeOK
    <3>b. PICK h \in Probes : h = hit
      BY <3>a
    <3>2. /\ h = index[KeyOf[p]]
          /\ KeyOf[p] \in Keys
          /\ h \in reported
          /\ KeyOf[h] = KeyOf[p] /\ Indexed(h)
      BY <2>2, <3>b DEF Lookup, TypeOK, IndexKeyed, Indexed
    <3>c. PICK ev \in Events : ev = [icmp |-> m, packet |-> h]
      BY DEF Events
    <3>3. ev \in Events /\ ev # None /\ ev.icmp = m /\ ev.packet = h
      BY <3>c DEF Events
    <3>d. /\ held' = [held EXCEPT ![l] = ev]
          /\ matches' = matches \cup {ev}
      BY <3>1, <3>b, <3>c
    <3>4. \A e \in matches : /\ e \in Events /\ e.icmp # m /\ e # ev /\ e.packet # h
                             /\ about'[e.icmp] = about[e.icmp]
      BY <2>0, <3>2, <3>3 DEF MatchesReceived, TypeOK, Events, OneEventPerProbe
    <3>5. TypeOK'
      BY <2>0, <3>1, <3>d, <3>3 DEF TypeOK
    <3>6. \A q \in Packets : Indexed(q)' => Indexed(q) /\ q # h
      BY <3>1, <3>d, <3>2 DEF Indexed, TypeOK
    <3>7. ~Indexed(h)' /\ ~InChannel(h) /\ ~InChannel(h)'
      BY <2>0, <3>1, <3>d, <3>2, <3>6 DEF InChannel, ChannelOnce
    <3>8. ChannelOnce'
      BY <2>0, <3>6 DEF ChannelOnce, TypeOK
    <3>9. IndexKeyed'
      BY <2>0, <3>1, <3>d DEF IndexKeyed, TypeOK
    <3>10. MatchesReceived'
      BY <2>0, <3>1, <3>d, <3>2, <3>3, <3>4 DEF MatchesReceived, TypeOK, Events
    <3>11. OneEventPerProbe'
      BY <2>0, <3>1, <3>d, <3>3, <3>4, <3>6, <3>7 DEF OneEventPerProbe, InChannel, Events
    <3>12. CreditedToQuotedProbe'
      BY <2>0, <3>1, <3>d, <3>2, <3>3, <3>4 DEF CreditedToQuotedProbe, TypeOK, MatchesReceived
    <3>13. InHand' = InHand \cup {ev}
      BY <2>0, <3>1, <3>d, <3>3 DEF InHand, TypeOK
    <3>14. /\ ev \notin InHand /\ ev \notin queue
           /\ \A c \in Conns : ev \notin handed[c]
      BY <3>4 DEF EventsConserved
    <3>15. \A k, n \in Listeners : k # n /\ held'[k] # None => held'[k] # held'[n]
      BY <2>0, <3>1, <3>d, <3>3, <3>14 DEF EventsConserved, InHand, TypeOK
    <3>16. EventsConserved'
      BY <2>0, <3>1, <3>d, <3>13, <3>14, <3>15 DEF EventsConserved
    <3> QED BY <3>5, <3>8, <3>9, <3>10, <3>11, <3>12, <3>16
  <2> QED BY <2>1, <2>2
<1>7. ASSUME NEW l \in Listeners, PushEvent(l) PROVE TrackerInv'
  <2>1. TypeOK'
    BY <1>7 DEF PushEvent, TypeOK
  <2>2. /\ ChannelOnce' /\ IndexKeyed' /\ MatchesReceived'
        /\ OneEventPerProbe' /\ CreditedToQuotedProbe'
    BY <1>7 DEF PushEvent, ChannelOnce, IndexKeyed, MatchesReceived, OneEventPerProbe,
       CreditedToQuotedProbe, InChannel, Indexed
  <2>3. held[l] \in InHand /\ InHand' = InHand \ {held[l]}
    BY <1>7 DEF PushEvent, InHand, TypeOK, EventsConserved
  <2>4. \A k, n \in Listeners : k # n /\ held'[k] # None => held'[k] # held'[n]
    BY <1>7 DEF PushEvent, EventsConserved, TypeOK
  <2>5. EventsConserved'
    BY <1>7, <2>3, <2>4 DEF PushEvent, EventsConserved
  <2> QED BY <2>1, <2>2, <2>5
<1>8. ASSUME NEW c \in Conns, DrainEvents(c) PROVE TrackerInv'
  <2> DEFINE mine == {e \in queue : ConnOf[e.packet] = c}
  <2>0. /\ handed' = [handed EXCEPT ![c] = handed[c] \cup mine]
        /\ queue' = queue \ mine
        /\ UNCHANGED <<sent, reported, channel, index, stale, about, held, matches, unmatched>>
    BY <1>8 DEF DrainEvents
  <2>1. TypeOK'
    BY <2>0 DEF TypeOK
  <2>2. /\ ChannelOnce' /\ IndexKeyed' /\ MatchesReceived'
        /\ OneEventPerProbe' /\ CreditedToQuotedProbe'
    BY <2>0 DEF ChannelOnce, IndexKeyed, MatchesReceived, OneEventPerProbe,
       CreditedToQuotedProbe, InChannel, Indexed
  <2>4. mine \subseteq queue /\ \A e \in mine : ConnOf[e.packet] = c
    OBVIOUS
  <2> HIDE DEF mine
  <2>a. InHand' = InHand
    BY <2>0 DEF InHand
  <2>b. \A d \in Conns : handed'[d] = IF d = c THEN handed[d] \cup mine ELSE handed[d]
    BY <2>0 DEF TypeOK
  <2>5. UNION {handed'[d] : d \in Conns} = mine \cup UNION {handed[d] : d \in Conns}
    <3>1. \A d \in Conns : /\ handed'[d] \subseteq handed[d] \cup mine
                           /\ handed[d] \subseteq handed'[d]
      BY <2>b
    <3>2. mine \subseteq handed'[c]
      BY <2>b
    <3>3. \A x : x \in UNION {handed'[d] : d \in Conns} <=> \E d \in Conns : x \in handed'[d]
      BY Zenon
    <3>4. \A x : x \in UNION {handed[d] : d \in Conns} <=> \E d \in Conns : x \in handed[d]
      BY Zenon
    <3>5. \A x : (\E d \in Conns : x \in handed'[d]) <=> x \in mine \/ \E d \in Conns : x \in handed[d]
      BY <3>1, <3>2, Zenon
    <3> QED BY <3>3, <3>4, <3>5, Zenon
  <2>6. \A d \in Conns : /\ handed'[d] \cap (InHand' \cup queue') = {}
                         /\ \A e \in handed'[d] : ConnOf[e.packet] = d
    BY <2>0, <2>a, <2>b, <2>4 DEF EventsConserved
  <2>7. EventsConserved'
    BY <2>0, <2>a, <2>b, <2>4, <2>5, <2>6 DEF EventsConserved
  <2> QED BY <2>1, <2>2, <2>7
<1>9. CASE UNCHANGED vars
  BY <1>9 DEF vars, TypeOK, ChannelOnce, IndexKeyed, MatchesReceived,
     OneEventPerProbe, EventsConserved, CreditedToQuotedProbe, InHand, InChannel, Indexed
<1> QED
  BY <1>1, <1>2, <1>3, <1>4, <1>5, <1>6, <1>7, <1>8, <1>9 DEF Next

\* The inductive invariant holds of every reachable state.
THEOREM TrackerSafety == Spec => []TrackerInv
  BY TrackerInvInit, TrackerInvNext, PTL DEF Spec

\* match_icmp_error makes at most one event of a probe, however often its
\* error is repeated.
THEOREM OneEvent == Spec => []OneEventPerProbe
<1>1. TrackerInv => OneEventPerProbe
  BY DEF TrackerInv
<1> QED BY <1>1, TrackerSafety, PTL

\* No event is lost, doubled or misrouted between match_icmp_error and
\* drain_events_for_conn_id.
THEOREM Conserved == Spec => []EventsConserved
<1>1. TrackerInv => EventsConserved
  BY DEF TrackerInv
<1> QED BY <1>1, TrackerSafety, PTL

\* A lookup credits an ICMP message only to a probe with the quoted key.
THEOREM Credited == Spec => []CreditedToQuotedProbe
<1>1. TrackerInv => CreditedToQuotedProbe
  BY DEF TrackerInv
<1> QED BY <1>1, TrackerSafety, PTL

\* If no two packets share destination, length and checksum, every event names
\* the very packet the router quoted.
THEOREM ExactCredit ==
  ASSUME \A p, q \in Packets : KeyOf[p] = KeyOf[q] => p = q
  PROVE  Spec => [](\A e \in matches : e.packet = about[e.icmp])
<1>1. TrackerInv => \A e \in matches : e.packet = about[e.icmp]
  BY DEF TrackerInv, TypeOK, CreditedToQuotedProbe, MatchesReceived, Events
<1> QED BY <1>1, TrackerSafety, PTL

\* cleanup_expired and the receiver task never take a live entry that nobody
\* matched, except to file a probe with the same key.
THEOREM EntriesStay == Spec => LiveEntriesStay
<1> DEFINE Step == \A p \in Probes :
       Indexed(p) /\ ~(Indexed(p))' =>
         \/ p \in stale
         \/ \E e \in matches' : e.packet = p
         \/ index'[KeyOf[p]] # None
<1>1. TrackerInv /\ [Next]_vars => [Step]_vars
  <2> SUFFICES ASSUME TrackerInv, [Next]_vars, NEW p \in Probes, Indexed(p), ~(Indexed(p))'
               PROVE  \/ p \in stale
                      \/ \E e \in matches' : e.packet = p
                      \/ index'[KeyOf[p]] # None
    OBVIOUS
  <2> USE TrackerAssumption
  <2>1. CASE ReceiveTracking
    BY <2>1, TailFacts DEF ReceiveTracking, TrackerInv, TypeOK, Indexed
  <2>2. CASE CleanupExpired
    BY <2>2 DEF CleanupExpired, Indexed, TrackerInv, TypeOK
  <2>3. ASSUME NEW l \in Listeners, NEW m \in Messages, NEW q \in Packets,
               NEW intact \in BOOLEAN, NEW type,
               MatchIcmpError(l, m, q, intact, type)
        PROVE  \E e \in matches' : e.packet = p
    BY <2>3 DEF MatchIcmpError, Lookup, Without, Indexed, TrackerInv, TypeOK
  <2>4. index' # index
    BY DEF Indexed
  <2> QED
    BY <2>1, <2>2, <2>3, <2>4 DEF Next, vars, SendPacket, TrackPacket, Expire, PushEvent, DrainEvents
<1> QED BY <1>1, TrackerSafety, PTL DEF Spec, LiveEntriesStay
-----------------------------------------------------------------------------
(* The rounds on top of the tracker *)

\* A message is credited to one probe, and every hop message was made from an
\* event that was drained for this connection, once.
HopsInv ==
  /\ TrackerInv
  /\ \A e, f \in matches : e.icmp = f.icmp => e = f
  /\ \A h \in hops : \E e \in handed[Me] : h.icmp = e.icmp /\ h.hop = TtlOf(e.packet)
  /\ \A g, h \in hops : g.icmp = h.icmp => g = h

\* The tracker's own steps credit a new message only, and take nothing back
\* that was drained.
LEMMA TrackerKeepsHops ==
  ASSUME TrackerInv, [Next]_vars, \A e, f \in matches : e.icmp = f.icmp => e = f
  PROVE  /\ \A e, f \in matches' : e.icmp = f.icmp => e = f
         /\ handed[Me] \subseteq handed'[Me]
<1> USE TrackerAssumption, RoundsAssumption
<1>1. ASSUME NEW l \in Listeners, NEW m \in Messages, NEW p \in Packets,
             NEW intact \in BOOLEAN, NEW type, MatchIcmpError(l, m, p, intact, type)
      PROVE  /\ \A e, f \in matches' : e.icmp = f.icmp => e = f
             /\ handed' = handed
  <2>1. about[m] = None /\ handed' = handed
    BY <1>1 DEF MatchIcmpError
  <2>2. \A e \in matches : e.icmp # m
    BY <2>1 DEF TrackerInv, MatchesReceived
  <2>3. \/ matches' = matches
        \/ matches' = matches \cup {[icmp |-> m, packet |-> Lookup(p, intact)]}
    BY <1>1 DEF MatchIcmpError
  <2> QED BY <2>1, <2>2, <2>3
<1>2. ASSUME NEW c \in Conns, DrainEvents(c)
      PROVE  matches' = matches /\ handed[Me] \subseteq handed'[Me]
  BY <1>2 DEF DrainEvents, TrackerInv, TypeOK
<1> QED
  BY <1>1, <1>2 DEF Next, vars, SendPacket, TrackPacket, ReceiveTracking, Expire,
     CleanupExpired, PushEvent

\* A drain of a round is a drain of the tracker, or finds nothing.
LEMMA DrainIsTrackers ==
  ASSUME TrackerInv, NEW i \in Ids, Drain(i)
  PROVE  [Next]_vars
<1> DEFINE mine == {e \in queue : ConnOf[e.packet] = Me}
<1>1. CASE mine = {}
  BY <1>1, RoundsAssumption DEF Drain, vars, TrackerInv, TypeOK
<1>2. CASE mine # {}
  BY <1>2, RoundsAssumption DEF Drain, DrainEvents, Next
<1> QED BY <1>1, <1>2

\* A drain reports events that no round has reported before.
LEMMA DrainKeepsHops ==
  ASSUME HopsInv, NEW i \in Ids, Drain(i)
  PROVE  HopsInv'
<1> USE RoundsAssumption
<1> DEFINE mine == {e \in queue : ConnOf[e.packet] = Me}
<1>1. /\ TrackerInv'
      /\ \A e, f \in matches' : e.icmp = f.icmp => e = f
      /\ handed[Me] \subseteq handed'[Me]
  BY DrainIsTrackers, TrackerInvNext, TrackerKeepsHops DEF HopsInv
<1>2. mine \subseteq handed'[Me]
  BY DEF Drain, HopsInv, TrackerInv, TypeOK
<1>3. \A e \in mine, f \in handed[Me] : e.icmp # f.icmp
  BY DEF HopsInv, TrackerInv, EventsConserved
<1>4. \A e, f \in mine : e.icmp = f.icmp => e = f
  BY DEF HopsInv, TrackerInv, EventsConserved
<1>5. hops' = hops \/ hops' = hops \cup {Hop(i, e) : e \in mine}
  BY DEF Drain
<1>6. \A e : Hop(i, e).icmp = e.icmp /\ Hop(i, e).hop = TtlOf(e.packet)
  BY DEF Hop
<1> HIDE DEF mine
<1>7. \A h \in hops' : h \in hops \/ \E e \in mine : h = Hop(i, e)
  <2> SUFFICES ASSUME NEW h \in hops', h \notin hops PROVE \E e \in mine : h = Hop(i, e)
    OBVIOUS
  <2>1. h \in {Hop(i, e) : e \in mine}
    BY <1>5
  <2> QED BY <2>1, Zenon
<1>8. \A h \in hops' : \E e \in handed'[Me] : h.icmp = e.icmp /\ h.hop = TtlOf(e.packet)
  <2> SUFFICES ASSUME NEW h \in hops'
               PROVE  \E e \in handed'[Me] : h.icmp = e.icmp /\ h.hop = TtlOf(e.packet)
    OBVIOUS
  <2>1. CASE h \in hops
    <3>1. PICK e \in handed[Me] : h.icmp = e.icmp /\ h.hop = TtlOf(e.packet)
      BY <2>1 DEF HopsInv
    <3> QED BY <1>1, <3>1
  <2>2. ASSUME NEW e \in mine, h = Hop(i, e)
        PROVE  e \in handed'[Me] /\ h.icmp = e.icmp /\ h.hop = TtlOf(e.packet)
    BY <1>2, <1>6, <2>2
  <2> QED BY <1>7, <2>1, <2>2
<1>9. \A g, h \in hops' : g.icmp = h.icmp => g = h
  BY <1>3, <1>4, <1>6, <1>7 DEF HopsInv
<1> QED BY <1>1, <1>8, <1>9 DEF HopsInv, TtlOf

\* Every step of tracker and rounds preserves the invariant.
LEMMA HopsInvNext == HopsInv /\ [TracerouteNext]_<<vars, roundVars>> => HopsInv'
<1> SUFFICES ASSUME HopsInv, [TracerouteNext]_<<vars, roundVars>> PROVE HopsInv'
  OBVIOUS
<1>1. ASSUME [Next]_vars, UNCHANGED hops PROVE HopsInv'
  <2>1. TrackerInv'
    BY <1>1, TrackerInvNext DEF HopsInv
  <2>2. /\ \A e, f \in matches' : e.icmp = f.icmp => e = f
        /\ handed[Me] \subseteq handed'[Me]
    BY <1>1, TrackerKeepsHops DEF HopsInv
  <2> QED BY <1>1, <2>1, <2>2 DEF HopsInv, TtlOf
<1>2. ASSUME NEW i \in Ids, SleepOver(i) \/ LastDrains(i) PROVE HopsInv'
  BY <1>2, DrainKeepsHops DEF SleepOver, LastDrains
<1>3. ASSUME NEW i \in Ids, Begin(i) \/ PauseOver(i) \/ \E ok \in BOOLEAN : SendProbe(i, ok)
      PROVE  HopsInv'
  BY <1>1, <1>3 DEF Begin, PauseOver, SendProbe
<1>4. ASSUME NEW p \in Packets, Transmit(p) PROVE HopsInv'
  BY <1>1, <1>4 DEF Transmit, Next
<1>5. CASE \/ Ask
           \/ ConnectionLost
           \/ \E k \in Kinds : Completed(k)
           \/ \E p \in Packets : ProbeArrives(p) \/ EchoArrives(p)
  BY <1>1, <1>5 DEF Ask, ConnectionLost, Completed, ProbeArrives, EchoArrives
<1>6. CASE Next /\ UNCHANGED roundVars
  BY <1>1, <1>6 DEF roundVars
<1>7. CASE UNCHANGED <<vars, roundVars>>
  BY <1>1, <1>7 DEF roundVars
<1> QED
  BY <1>2, <1>3, <1>4, <1>5, <1>6, <1>7 DEF TracerouteNext, RoundStep

\* However many rounds overlap, and whichever takes an event, the hop beside a
\* router's answer is the TTL of the probe it quoted, and every answer is
\* reported once (drain_traceroute_events, drain_mtu_events).
THEOREM HopsAreTrue == TracerouteSpec => []HopsTrue
<1>1. Init /\ RoundsInit => HopsInv
  <2> SUFFICES ASSUME Init, RoundsInit PROVE HopsInv
    OBVIOUS
  <2> QED BY TrackerInvInit DEF Init, RoundsInit, HopsInv
<1>2. HopsInv => HopsTrue
  <2> SUFFICES ASSUME HopsInv, NEW h \in hops,
                      \A p \in Probes : KeyOf[p] = KeyOf[about[h.icmp]] => p = about[h.icmp]
               PROVE  h.hop = TtlOf(about[h.icmp])
    BY DEF HopsTrue, HopsInv
  <2>1. PICK e \in handed[Me] : h.icmp = e.icmp /\ h.hop = TtlOf(e.packet)
    BY DEF HopsInv
  <2>2. e \in matches
    BY RoundsAssumption DEF HopsInv, TrackerInv, EventsConserved
  <2>3. e.packet \in Probes /\ KeyOf[e.packet] = KeyOf[about[h.icmp]]
    BY <2>1, <2>2 DEF HopsInv, TrackerInv, TypeOK, MatchesReceived, CreditedToQuotedProbe
  <2> QED BY <2>1, <2>3
<1> QED BY <1>1, <1>2, HopsInvNext, PTL DEF TracerouteSpec

-----------------------------------------------------------------------------
(* The client's counts *)

\* The rounds of a kind that the client asked for, and those that are over.
Asked(k) == {i \in 1..asked : Plan[i] = k}
Over(k) == {i \in Ids : Plan[i] = k /\ at[i] = "done"}

\* Every end the client counts was sent, by a round that is over, and only a
\* round that was asked for is ever anywhere.
CountInv ==
  /\ asked \in 0..Len(Plan)
  /\ DOMAIN at = Ids /\ at = [i \in Ids |-> at[i]]
  /\ \A i \in Ids : at[i] # "none" => i <= asked
  /\ started \in [Kinds -> Nat] /\ ended \in [Kinds -> Nat] /\ done \in [Kinds -> Nat]
  /\ \A k \in Kinds : /\ started[k] = Cardinality(Asked(k))
                      /\ ended[k] <= Cardinality(Over(k))
                      /\ done[k] <= ended[k]

\* The rounds are finitely many, each of one kind.
LEMMA RoundsFinite ==
  /\ Len(Plan) \in Nat
  /\ \A i \in Ids : Plan[i] \in Kinds
  /\ \A k \in Kinds : IsFiniteSet(Over(k)) /\ Cardinality(Over(k)) \in Nat
  /\ asked \in 0..Len(Plan) =>
       \A k \in Kinds : IsFiniteSet(Asked(k)) /\ Cardinality(Asked(k)) \in Nat
<1>1. Plan \in Seq(Kinds) /\ Len(Plan) \in Nat
  BY RoundsAssumption
<1>2. \A i \in Ids : Plan[i] \in Kinds
  BY <1>1 DEF Ids
<1>3. IsFiniteSet(Ids)
  BY <1>1, FS_Interval DEF Ids
<1>4. \A k \in Kinds : IsFiniteSet(Over(k)) /\ Cardinality(Over(k)) \in Nat
  BY <1>3, FS_Subset, FS_CardinalityType DEF Over
<1>5. ASSUME asked \in 0..Len(Plan), NEW k \in Kinds
      PROVE  IsFiniteSet(Asked(k)) /\ Cardinality(Asked(k)) \in Nat
  <2>1. Asked(k) \subseteq Ids
    BY <1>1, <1>5 DEF Asked, Ids
  <2> QED BY <1>3, <2>1, FS_Subset, FS_CardinalityType
<1> QED BY <1>1, <1>2, <1>4, <1>5

\* A round that goes on without ending leaves the counts alone.
LEMMA RoundGoesOn ==
  ASSUME CountInv, NEW i \in Ids, NEW l, at[i] \notin {"none", "done"}, l \notin {"none", "done"},
         at' = [at EXCEPT ![i] = l],
         UNCHANGED <<asked, started, done, ended>>
  PROVE  CountInv'
<1>1. \A k \in Kinds : Asked(k)' = Asked(k)
  BY DEF Asked
<1>2. \A k \in Kinds : Over(k)' = Over(k)
  BY DEF Over, CountInv
<1>3. DOMAIN at' = Ids /\ at' = [j \in Ids |-> at'[j]]
  BY DEF CountInv
<1>4. \A j \in Ids : at'[j] # "none" => j <= asked'
  BY DEF CountInv
<1> QED BY <1>1, <1>2, <1>3, <1>4 DEF CountInv

\* A round that ends sends one completion message at most.
LEMMA RoundEnds ==
  ASSUME CountInv, NEW i \in Ids, at[i] \notin {"none", "done"}, Complete(i),
         UNCHANGED <<asked, started, done>>
  PROVE  CountInv'
<1>1. \A k \in Kinds : Asked(k)' = Asked(k)
  BY DEF Asked
<1>2. at' = [at EXCEPT ![i] = "done"]
  BY DEF Complete
<1>3. DOMAIN at' = Ids /\ at' = [j \in Ids |-> at'[j]]
  BY <1>2 DEF CountInv
<1>4. \A j \in Ids : at'[j] # "none" => j <= asked'
  BY <1>2 DEF CountInv
<1>5. ended' \in [Kinds -> Nat]
      /\ \A k \in Kinds : ended'[k] = ended[k] \/ (k = Plan[i] /\ ended'[k] = ended[k] + 1)
  BY RoundsFinite DEF Complete, CountInv
<1>6. ASSUME NEW k \in Kinds PROVE ended'[k] <= Cardinality(Over(k)') /\ done[k] <= ended'[k]
  <2>1. /\ ended[k] \in Nat /\ done[k] \in Nat /\ ended[k] <= Cardinality(Over(k))
        /\ done[k] <= ended[k] /\ Cardinality(Over(k)) \in Nat /\ IsFiniteSet(Over(k))
    BY RoundsFinite DEF CountInv
  <2>2. CASE k # Plan[i]
    <3>1. Over(k)' = Over(k)
      BY <1>2, <2>2 DEF Over, CountInv
    <3> QED BY <1>5, <2>1, <2>2, <3>1
  <2>3. CASE k = Plan[i]
    <3>1. Over(k)' = Over(k) \cup {i} /\ i \notin Over(k)
      BY <1>2, <2>3 DEF Over, CountInv
    <3>2. Cardinality(Over(k)') = Cardinality(Over(k)) + 1
      BY <2>1, <3>1, FS_AddElement
    <3> QED BY <1>5, <2>1, <3>2
  <2> QED BY <2>2, <2>3
<1> QED BY <1>1, <1>3, <1>4, <1>5, <1>6 DEF CountInv

\* A request is counted once, and its round is not over.
LEMMA AskCounts ==
  ASSUME CountInv, Ask
  PROVE  CountInv'
<1> DEFINE i == asked + 1
<1>1. asked \in 0..Len(Plan) /\ Len(Plan) \in Nat /\ asked < Len(Plan)
  BY RoundsFinite DEF CountInv, Ask
<1>2. i \in Ids /\ asked' = i /\ i \notin 1..asked /\ 1..i = (1..asked) \cup {i}
  BY <1>1 DEF Ids, Ask
<1>3. PICK l \in {"begin", "none"} : at' = [at EXCEPT ![i] = l]
  BY DEF Ask
<1>4. /\ started' = [started EXCEPT ![Plan[i]] = @ + 1]
      /\ UNCHANGED <<done, ended>>
  BY DEF Ask
<1>5. at[i] = "none"
  BY <1>1, <1>2 DEF CountInv
<1>6. Plan[i] \in Kinds
  BY <1>2, RoundsFinite
<1> HIDE DEF i
<1>7. \A k \in Kinds : Over(k)' = Over(k)
  BY <1>2, <1>3, <1>5 DEF Over, CountInv
<1>8. DOMAIN at' = Ids /\ at' = [j \in Ids |-> at'[j]]
  BY <1>3 DEF CountInv
<1>9. \A j \in Ids : at'[j] # "none" => j <= asked'
  <2> SUFFICES ASSUME NEW j \in Ids, at'[j] # "none" PROVE j <= asked'
    OBVIOUS
  <2>1. j \in Int /\ i \in Int /\ i = asked + 1
    BY <1>1, <1>2 DEF Ids, i
  <2>2. j = i \/ j <= asked
    BY <1>3 DEF CountInv
  <2> QED BY <1>1, <1>2, <2>1, <2>2
<1>10. started' \in [Kinds -> Nat]
  BY <1>4, <1>6 DEF CountInv
<1>11. ASSUME NEW k \in Kinds PROVE started'[k] = Cardinality(Asked(k)')
  <2>1. Asked(k)' = {j \in (1..asked) \cup {i} : Plan[j] = k}
    BY <1>2 DEF Asked
  <2>2. CASE k = Plan[i]
    <3>1. Asked(k)' = Asked(k) \cup {i} /\ i \notin Asked(k)
      BY <1>2, <2>1, <2>2 DEF Asked
    <3>2. Cardinality(Asked(k)') = Cardinality(Asked(k)) + 1
      BY <1>1, <3>1, RoundsFinite, FS_AddElement
    <3> QED BY <1>4, <2>2, <3>2 DEF CountInv
  <2>3. CASE k # Plan[i]
    <3>1. Asked(k)' = Asked(k)
      BY <2>1, <2>3 DEF Asked
    <3> QED BY <1>4, <2>3, <3>1 DEF CountInv
  <2> QED BY <2>2, <2>3
<1>12. asked' \in 0..Len(Plan)
  BY <1>1, <1>2 DEF i
<1> QED BY <1>4, <1>7, <1>8, <1>9, <1>10, <1>11, <1>12 DEF CountInv

\* Every step of client, rounds and tracker preserves the counts.
LEMMA CountInvNext == CountInv /\ [TracerouteNext]_<<vars, roundVars>> => CountInv'
<1> SUFFICES ASSUME CountInv, [TracerouteNext]_<<vars, roundVars>> PROVE CountInv'
  OBVIOUS
<1>1. ASSUME UNCHANGED <<asked, at, started, done, ended>> PROVE CountInv'
  BY <1>1 DEF CountInv, Asked, Over
<1>2. ASSUME NEW i \in Ids, RoundStep(i) PROVE CountInv'
  <2>1. UNCHANGED <<asked, started, done>>
    BY <1>2 DEF RoundStep, Begin, SendProbe, SleepOver, LastDrains, PauseOver, clientVars
  <2>2. at[i] \notin {"none", "done"}
    BY <1>2 DEF RoundStep, Begin, SendProbe, SleepOver, LastDrains, PauseOver
  <2>3. \/ Complete(i)
        \/ UNCHANGED ended /\ UNCHANGED at
        \/ UNCHANGED ended /\ \E l \in {"send", "drain", "returned", "sleep", "pause"} :
                                 at' = [at EXCEPT ![i] = l]
    BY <1>2 DEF RoundStep, Begin, SendProbe, SleepOver, LastDrains, PauseOver, NextTtl
  <2>4. CASE Complete(i)
    BY <2>1, <2>2, <2>4, RoundEnds
  <2>5. CASE UNCHANGED ended /\ UNCHANGED at
    BY <1>1, <2>1, <2>5
  <2>6. CASE UNCHANGED ended /\ \E l \in {"send", "drain", "returned", "sleep", "pause"} :
                                   at' = [at EXCEPT ![i] = l]
    <3>1. PICK l : l \notin {"none", "done"} /\ at' = [at EXCEPT ![i] = l]
      BY <2>6
    <3> QED BY <2>1, <2>2, <2>6, <3>1, RoundGoesOn
  <2> QED BY <2>3, <2>4, <2>5, <2>6
<1>3. ASSUME NEW k \in Kinds, Completed(k) PROVE CountInv'
  <2>1. /\ UNCHANGED <<asked, at, started, ended>> /\ done[k] < ended[k]
        /\ done' = [done EXCEPT ![k] = @ + 1]
    BY <1>3 DEF Completed
  <2>2. done' \in [Kinds -> Nat] /\ \A j \in Kinds : done'[j] <= ended[j]
    BY <2>1 DEF CountInv
  <2> QED BY <2>1, <2>2 DEF CountInv, Asked, Over
<1>4. CASE ConnectionLost \/ \E p \in Packets : ProbeArrives(p) \/ EchoArrives(p) \/ Transmit(p)
  <2>1. UNCHANGED <<asked, at, started, done, ended>>
    BY <1>4 DEF ConnectionLost, ProbeArrives, EchoArrives, Transmit, clientVars
  <2> QED BY <1>1, <2>1
<1>5. CASE UNCHANGED roundVars
  BY <1>1, <1>5 DEF roundVars
<1> QED BY <1>2, <1>3, <1>4, <1>5, AskCounts DEF TracerouteNext

\* However many rounds overlap and whatever is lost, the client never counts
\* more ends than starts: its unsigned subtraction does not wrap (lib.rs, the
\* stagger loops).
THEOREM CountsAreSound == TracerouteSpec => []CountsSound
<1>1. Init /\ RoundsInit => CountInv
  <2> SUFFICES ASSUME RoundsInit PROVE CountInv
    OBVIOUS
  <2>1. /\ asked = 0 /\ at = [i \in Ids |-> "none"]
        /\ \A k \in Kinds : started[k] = 0 /\ ended[k] = 0 /\ done[k] = 0
        /\ started \in [Kinds -> Nat] /\ ended \in [Kinds -> Nat] /\ done \in [Kinds -> Nat]
    BY DEF RoundsInit
  <2>2. \A k \in Kinds : Asked(k) = {} /\ Over(k) = {}
    BY <2>1 DEF Asked, Over
  <2>3. Len(Plan) \in Nat
    BY RoundsFinite
  <2>4. \A k \in Kinds : /\ started[k] = Cardinality(Asked(k))
                         /\ ended[k] <= Cardinality(Over(k))
                         /\ done[k] <= ended[k]
    <3>1. \A k \in Kinds : Cardinality(Asked(k)) = 0 /\ Cardinality(Over(k)) = 0
      BY <2>2, FS_EmptySet, Zenon
    <3> QED BY <2>1, <3>1
  <2>5. DOMAIN at = Ids /\ at = [i \in Ids |-> at[i]] /\ \A i \in Ids : at[i] = "none"
    BY <2>1
  <2>6. asked \in 0..Len(Plan)
    BY <2>1, <2>3
  <2> QED BY <2>1, <2>4, <2>5, <2>6 DEF CountInv
<1>2. CountInv => CountsSound
  <2> SUFFICES ASSUME CountInv, NEW k \in Kinds PROVE done[k] <= started[k]
    BY DEF CountsSound
  <2>1. Over(k) \subseteq Asked(k)
    <3>1. \A i \in Ids : i \in Int /\ 1 <= i
      BY RoundsFinite DEF Ids
    <3> QED BY <3>1 DEF Over, Asked, CountInv
  <2>2. IsFiniteSet(Asked(k)) /\ Cardinality(Asked(k)) \in Nat /\ Cardinality(Over(k)) \in Nat
    BY RoundsFinite DEF CountInv
  <2>3. Cardinality(Over(k)) <= Cardinality(Asked(k))
    BY <2>1, <2>2, FS_Subset
  <2>4. started[k] = Cardinality(Asked(k)) /\ ended[k] <= Cardinality(Over(k)) /\ done[k] <= ended[k]
        /\ ended[k] \in Nat /\ done[k] \in Nat
    BY DEF CountInv
  <2> QED BY <2>2, <2>3, <2>4
<1> QED BY <1>1, <1>2, CountInvNext, PTL DEF TracerouteSpec
=============================================================================
