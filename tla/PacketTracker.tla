---------------------------- MODULE PacketTracker ----------------------------
(***************************************************************************)
(* The correlation of ICMP errors with the UDP packets that caused them.   *)
(* The UDP layer reports each packet it sent with a TTL through an         *)
(* unbounded channel; a receiver task files it under (destination, length, *)
(* checksum); the two ICMP listeners look the quoted header up, turn a hit *)
(* into an event of the packet's connection and hand a miss to the ICMP    *)
(* error callback; the traceroute tasks drain the events of their          *)
(* connection; a task drops entries older than 5 s once a second.          *)
(*                                                                         *)
(* Every ICMP message is an element of Messages, so that a duplicated      *)
(* error is a second message that quotes the same packet.  Vec order in    *)
(* the event queue is not kept: no reader depends on it.                   *)
(***************************************************************************)
EXTENDS Naturals, Sequences, FiniteSets

CONSTANTS Packets,    \* UDP packets the server sends
          Probes,     \* those sent with a TTL, the only ones that are tracked
          Conns,      \* connection ids
          ConnOf,     \* the connection each packet is sent on
          Keys,       \* ChecksumKey values
          KeyOf,      \* the key of each packet; two packets may share one
          Messages,   \* ICMP messages the listeners receive
          FamilyOf,   \* the IP version of each packet
          None        \* no packet, no event

Listeners == {"v4", "v6"}  \* icmp_listener_task_v4 and icmp_listener_task_v6

ASSUME TrackerAssumption == /\ Probes \subseteq Packets
                            /\ ConnOf \in [Packets -> Conns]
                            /\ KeyOf \in [Packets -> Keys]
                            /\ FamilyOf \in [Packets -> Listeners]
                            /\ None \notin Packets
                            /\ None \notin [icmp : Messages, packet : Packets]

VARIABLES sent,      \* packets sendmsg has put on the wire
          reported,  \* probes handed to the tracking callback
          channel,   \* tracking_rx
          index,     \* checksum_index
          stale,     \* probes whose expires_at has passed
          about,     \* the packet each received ICMP message quotes
          held,      \* the event each listener has built and not yet queued
          queue,     \* event_queue
          handed,    \* history: the events drained for each connection
          matches,   \* history: every event ever built
          unmatched  \* history: messages given to the ICMP error callback

vars == <<sent, reported, channel, index, stale, about, held, queue, handed,
          matches, unmatched>>

Events == [icmp : Messages, packet : Packets]

InChannel(p) == \E i \in 1..Len(channel) : channel[i] = p
Indexed(p)   == index[KeyOf[p]] = p

TypeOK ==
  /\ sent \in SUBSET Packets
  /\ reported \in SUBSET Probes
  /\ channel \in Seq(Probes)
  /\ index \in [Keys -> Probes \cup {None}]
  /\ stale \in SUBSET Probes
  /\ about \in [Messages -> Packets \cup {None}]
  /\ held \in [Listeners -> Events \cup {None}]
  /\ queue \in SUBSET Events
  /\ handed \in [Conns -> SUBSET Events]
  /\ matches \in SUBSET Events
  /\ unmatched \in SUBSET Messages

Init ==
  /\ sent = {}
  /\ reported = {}
  /\ channel = <<>>
  /\ index = [k \in Keys |-> None]
  /\ stale = {}
  /\ about = [m \in Messages |-> None]
  /\ held = [l \in Listeners |-> None]
  /\ queue = {}
  /\ handed = [c \in Conns |-> {}]
  /\ matches = {}
  /\ unmatched = {}

-----------------------------------------------------------------------------
(* The UDP layer *)

\* sendmsg succeeds: from now on a router may answer.
SendPacket(p) ==
  /\ p \notin sent
  /\ sent' = sent \cup {p}
  /\ UNCHANGED <<reported, channel, index, stale, about, held, queue, handed,
                 matches, unmatched>>

\* Only then does the sending thread hand a probe to the tracking callback,
\* which puts it in the channel; a packet without TTL is never reported.
TrackPacket(p) ==
  /\ p \in (sent \cap Probes) \ reported
  /\ reported' = reported \cup {p}
  /\ channel' = Append(channel, p)
  /\ UNCHANGED <<sent, index, stale, about, held, queue, handed, matches, unmatched>>

-----------------------------------------------------------------------------
(* The tracker's own tasks *)

\* The receiver task files the next packet, over an entry with the same key.
ReceiveTracking ==
  /\ channel # <<>>
  /\ index' = [index EXCEPT ![KeyOf[Head(channel)]] = Head(channel)]
  /\ channel' = Tail(channel)
  /\ UNCHANGED <<sent, reported, stale, about, held, queue, handed, matches, unmatched>>

\* Five seconds have passed since the packet was reported.
Expire(p) ==
  /\ p \in reported \ stale
  /\ stale' = stale \cup {p}
  /\ UNCHANGED <<sent, reported, channel, index, about, held, queue, handed,
                 matches, unmatched>>

CleanupExpiredNone == UNCHANGED vars  \* mutant: the pass retains everything

CleanupExpiredFresh ==  \* mutant: drops the entries that have not expired
  /\ index' = [k \in Keys |-> IF index[k] \in stale THEN index[k] ELSE None]
  /\ UNCHANGED <<sent, reported, channel, stale, about, held, queue, handed, matches, unmatched>>

\* The once-a-second pass over the index.
CleanupExpired ==
  /\ index' = [k \in Keys |-> IF index[k] \in stale THEN None ELSE index[k]]
  /\ UNCHANGED <<sent, reported, channel, stale, about, held, queue, handed,
                 matches, unmatched>>

-----------------------------------------------------------------------------
(* The ICMP listeners *)

\* The ICMP and ICMPv6 types the parsers let through, and their classes.
Parsed == [v4 |-> {3, 11, 12}, v6 |-> {1, 2, 3}]

MessageClass(l, type) ==
  CASE type = [v4 |-> 3, v6 |-> 1][l]  -> "Error"
    [] type = [v4 |-> 11, v6 |-> 2][l] -> "TtlExpired"
    [] OTHER                           -> "Ignore"

LookupAny(p, intact) ==  \* mutant: by destination only, so any entry will do
  IF \E k \in Keys : index[k] # None
  THEN index[CHOOSE k \in Keys : index[k] # None] ELSE None

\* The entry under the quoted key.  A quote whose checksum is not intact (zero,
\* or rewritten on the way) finds nothing.
Lookup(p, intact) == IF intact THEN index[KeyOf[p]] ELSE None

WithoutKept(p) == index  \* mutant: get instead of remove

Without(p) == [index EXCEPT ![KeyOf[p]] = None]

\* A listener parses a message that quotes a packet on the wire and runs
\* match_icmp_error up to the release of the index: a hit leaves the index; a
\* miss of class Error goes to the callback.
MatchIcmpError(l, m, p, intact, type) ==
  LET hit == Lookup(p, intact)
      event == [icmp |-> m, packet |-> hit]
  IN /\ held[l] = None
     /\ about[m] = None
     /\ p \in sent
     /\ FamilyOf[p] = l
     /\ about' = [about EXCEPT ![m] = p]
     /\ \/ /\ hit # None
           /\ index' = Without(p)
           /\ held' = [held EXCEPT ![l] = event]
           /\ matches' = matches \cup {event}
           /\ UNCHANGED unmatched
        \/ /\ hit = None
           /\ unmatched' = IF MessageClass(l, type) = "Error"
                         THEN unmatched \cup {m} ELSE unmatched
           /\ UNCHANGED <<index, held, matches>>
     /\ UNCHANGED <<sent, reported, channel, stale, queue, handed>>

PushEventLast(l) ==  \* mutant: the queue is replaced, not extended
  /\ held[l] # None
  /\ queue' = {held[l]}
  /\ held' = [held EXCEPT ![l] = None]
  /\ UNCHANGED <<sent, reported, channel, index, stale, about, handed, matches, unmatched>>

\* The rest of match_icmp_error: the event goes to the queue.
PushEvent(l) ==
  /\ held[l] # None
  /\ queue' = queue \cup {held[l]}
  /\ held' = [held EXCEPT ![l] = None]
  /\ UNCHANGED <<sent, reported, channel, index, stale, about, handed,
                 matches, unmatched>>

-----------------------------------------------------------------------------
(* The traceroute tasks *)

\* drain_events_for_conn_id: the connection's events leave, the others stay.
DrainEvents(c) ==
  LET mine == {e \in queue : ConnOf[e.packet] = c}
  IN /\ mine # {}
     /\ handed' = [handed EXCEPT ![c] = @ \cup mine]
     /\ queue' = queue \ mine
     /\ UNCHANGED <<sent, reported, channel, index, stale, about, held,
                    matches, unmatched>>

Next ==
  \/ \E p \in Packets : SendPacket(p) \/ TrackPacket(p)
  \/ ReceiveTracking
  \/ \E p \in Probes : Expire(p)
  \/ CleanupExpired
  \/ \E l \in Listeners, m \in Messages, p \in Packets, intact \in BOOLEAN :
        \E type \in Parsed[l] : MatchIcmpError(l, m, p, intact, type)
  \/ \E l \in Listeners : PushEvent(l)
  \/ \E c \in Conns : DrainEvents(c)

Spec == Init /\ [][Next]_vars

-----------------------------------------------------------------------------
(* Properties *)

InHand == {held[l] : l \in Listeners} \ {None}

\* However often the network repeats an ICMP error, match_icmp_error turns a
\* probe into at most one event, and a probe with an event is tracked no more.
OneEventPerProbe ==
  \A e \in matches :
    /\ ~InChannel(e.packet) /\ ~Indexed(e.packet)
    /\ \A f \in matches : f.packet = e.packet => f = e

\* Between the release of the index and the drain no event is lost, doubled or
\* given to another connection: each one ever built is with exactly one
\* listener, or in the queue, or was drained by the connection that sent it.
EventsConserved ==
  /\ matches = InHand \cup queue \cup UNION {handed[c] : c \in Conns}
  /\ \A l, n \in Listeners : l # n /\ held[l] # None => held[l] # held[n]
  /\ InHand \cap queue = {}
  /\ \A c \in Conns :
       /\ handed[c] \cap (InHand \cup queue) = {}
       /\ \A e \in handed[c] : ConnOf[e.packet] = c

\* The hop an event reports is the router's answer to that very probe, unless
\* another packet has the same destination, length and checksum: a lookup
\* never credits a message to a probe with a different key.
CreditedToQuotedProbe ==
  \A e \in matches :
    /\ KeyOf[e.packet] = KeyOf[about[e.icmp]]
    /\ e.icmp \notin unmatched

\* A probe leaves the index only matched, expired, or displaced by a probe
\* with the same key: the cleanup pass never takes a live entry.
LiveEntriesStay ==
  [][\A p \in Probes :
       Indexed(p) /\ ~(Indexed(p))' =>
         \/ p \in stale
         \/ \E e \in matches' : e.packet = p
         \/ index'[KeyOf[p]] # None]_vars

\* The index does not grow for ever: whatever the network answers, again and
\* again every probe sent so far has left channel and index.
ProbesForgotten ==
  []<>(\A p \in sent \cap Probes : p \in reported /\ ~InChannel(p) /\ ~Indexed(p))
=============================================================================
