--------------------------- MODULE DiagnosticStores ---------------------------
(***************************************************************************)
(* The in-memory stores an analyst downloads from: the ring of captured    *)
(* packets with the registry that tags them, the DTLS keys per survey, and *)
(* the ring of log lines.  The capture thread, the control-channel tasks   *)
(* of the connections (StartSurveySession), the threads that log and the   *)
(* HTTP handlers meet at their locks; what one lock covers is one step.    *)
(*                                                                         *)
(* A frame is what the parsers of packet_capture.rs tell apart, a key and  *)
(* a log line are atoms.                                                   *)
(***************************************************************************)
EXTENDS Naturals, Sequences, FiniteSets, Functions

CONSTANTS MaxPackets,   \* CaptureConfig.max_packets
          MaxSessions,  \* DtlsKeylogConfig.max_sessions
          MaxEntries,   \* TracingBuffer.max_entries
          Frames,       \* frames the capture thread sees
          Conns,        \* connections that start a survey session
          Addresses,    \* socket addresses
          AddrOf,       \* the peer address of each connection
          Surveys,      \* survey session ids
          SurveyOf,     \* the survey each connection names
          EmptyId,      \* the empty survey session id
          Threads,      \* threads that log
          Lines,        \* log lines
          None,
          MaxCaptured,  \* bound: frames captured
          MaxLogged     \* bound: lines logged

FrameFields == [proto : {"udp", "icmp", "icmpv6", "tcp"}, whole : BOOLEAN,
                type : Nat, src : Addresses, dst : Addresses,
                quoted : Addresses \cup {None}]

ASSUME StoresAssumption ==
  /\ MaxPackets \in Nat \ {0}
  /\ MaxSessions \in Nat \ {0}
  /\ MaxEntries \in Nat \ {0}
  /\ MaxCaptured \in Nat
  /\ MaxLogged \in Nat
  /\ Frames \subseteq FrameFields
  /\ AddrOf \in [Conns -> Addresses]
  /\ SurveyOf \in [Conns -> Surveys]
  /\ EmptyId \in Surveys
  /\ None \notin Surveys
  /\ None \notin Addresses
  /\ None \notin [frame : Frames, survey : Surveys \cup {None}]
  /\ None \notin Lines

VARIABLES packets,             \* PacketRingBuffer.packets
          write_pos,           \* PacketRingBuffer.write_pos
          total_captured,      \* PacketRingBuffer.total_captured
          address_to_session,  \* SessionRegistry.address_to_session
          registered_ids,      \* SessionRegistry.registered_session_ids
          tagged,              \* the frame the capture thread has tagged and not stored
          handler,             \* where each connection's StartSurveySession is
          sessions,            \* KeylogStorage.sessions
          session_order,       \* KeylogStorage.session_order
          captured,            \* history: connections whose keys were stored since the last clear
          entries,             \* TracingBuffer.entries
          next_index,          \* TracingBuffer.next_index
          pending,             \* the line each thread has built and not stored
          logged               \* lines built so far

captureVars == <<packets, write_pos, total_captured, tagged>>
registryVars == <<address_to_session, registered_ids>>
keylogVars == <<sessions, session_order, captured>>
tracingVars == <<entries, next_index, pending, logged>>
vars == <<packets, write_pos, total_captured, tagged, address_to_session,
          registered_ids, handler, sessions, session_order, captured, entries,
          next_index, pending, logged>>

Packets == [frame : Frames, survey : Surveys \cup {None}]

TypeOK ==
  /\ packets \in Seq(Packets)
  /\ Len(packets) <= MaxPackets
  /\ write_pos \in 0..(MaxPackets - 1)
  /\ total_captured \in Nat
  /\ tagged \in Packets \cup {None}
  /\ address_to_session \in [Addresses -> Surveys \cup {None}]
  /\ registered_ids \in SUBSET Surveys
  /\ handler \in [Conns -> {"idle", "registered", "done"}]
  /\ sessions \in [Surveys -> SUBSET Conns]
  /\ session_order \in Seq(Surveys)
  /\ captured \in SUBSET Conns
  /\ entries \in Seq(Lines)
  /\ Len(entries) <= MaxEntries
  /\ next_index \in 0..(MaxEntries - 1)
  /\ pending \in [Threads -> Lines \cup {None}]
  /\ logged \in Nat

Init ==
  /\ packets = <<>>
  /\ write_pos = 0
  /\ total_captured = 0
  /\ tagged = None
  /\ address_to_session = [a \in Addresses |-> None]
  /\ registered_ids = {}
  /\ handler = [c \in Conns |-> "idle"]
  /\ sessions = [s \in Surveys |-> {}]
  /\ session_order = <<>>
  /\ captured = {}
  /\ entries = <<>>
  /\ next_index = 0
  /\ pending = [t \in Threads |-> None]
  /\ logged = 0

-----------------------------------------------------------------------------
(* Tagging: packet_capture.rs, SessionRegistry and the frame parsers *)

PortZero == None  \* an ICMP frame has port 0, which no peer is registered with

\* Source and destination, the two addresses the registry is asked for first.
\* Nothing comes out of a frame that is cut short or neither UDP nor ICMP.
ParseAddresses(f) ==
  IF ~f.whole \/ f.proto = "tcp" THEN <<>>
  ELSE IF f.proto = "udp" THEN <<f.src, f.dst>> ELSE <<PortZero, PortZero>>

IsIcmpError(f) == \/ f.proto = "icmp" /\ f.type \in {3, 11, 12}
                  \/ f.proto = "icmpv6" /\ f.type \in {1, 2, 3}

\* The destination in the quoted header, if a whole UDP header is quoted.
EmbeddedDestination(f) == f.quoted

Lookup(a) == IF a = None THEN None ELSE address_to_session[a]

LookupByEither(src, dst) == IF Lookup(src) # None THEN Lookup(src) ELSE Lookup(dst)

LookupByServerPort(f) == None  \* every caller registers server port 0

ExtractSessionId(f) ==
  LET addrs  == ParseAddresses(f)
      direct == LookupByEither(addrs[1], addrs[2])
  IN  IF addrs = <<>> THEN None
      ELSE IF direct # None THEN direct
      ELSE IF ~IsIcmpError(f) THEN None
      ELSE IF LookupByServerPort(f) # None THEN LookupByServerPort(f)
      ELSE Lookup(EmbeddedDestination(f))

-----------------------------------------------------------------------------
(* The ring of packets *)

PushPacketAtEnd(p) ==  \* mutant: a full ring overwrites its last slot
  /\ packets' = IF Len(packets) < MaxPackets THEN Append(packets, p)
                ELSE [packets EXCEPT ![MaxPackets] = p]
  /\ write_pos' = (write_pos + 1) % MaxPackets
  /\ total_captured' = total_captured + 1

PushPacket(p) ==
  /\ packets' = IF Len(packets) < MaxPackets THEN Append(packets, p)
                ELSE [packets EXCEPT ![write_pos + 1] = p]
  /\ write_pos' = (write_pos + 1) % MaxPackets
  /\ total_captured' = total_captured + 1

\* get_packets: a ring that is full starts at write_pos.
GetPackets ==
  IF Len(packets) < MaxPackets THEN packets
  ELSE SubSeq(packets, write_pos + 1, Len(packets)) \o SubSeq(packets, 1, write_pos)

\* The packets of one survey, at the positions they have in the whole capture.
GetPacketsForSession(s) == RestrictValues(GetPackets, LAMBDA p : p.survey = s)

\* The capture thread takes the next frame and tags it under the registry's
\* read lock; it has not got the ring's lock yet.
CaptureFrame(f) ==
  /\ tagged = None
  /\ total_captured < MaxCaptured
  /\ tagged' = [frame |-> f, survey |-> ExtractSessionId(f)]
  /\ UNCHANGED <<packets, write_pos, total_captured, registryVars, handler,
                 keylogVars, tracingVars>>

StorePacket ==
  /\ tagged # None
  /\ PushPacket(tagged)
  /\ tagged' = None
  /\ UNCHANGED <<registryVars, handler, keylogVars, tracingVars>>

\* POST clear: the ring is emptied, total_captured goes on.
ClearCapture ==
  /\ packets' = <<>>
  /\ write_pos' = 0
  /\ UNCHANGED <<total_captured, tagged, registryVars, handler, keylogVars, tracingVars>>

-----------------------------------------------------------------------------
(* StartSurveySession: registration with the capture, then the DTLS keys *)

\* The peer address is registered if it is known by now; if it is not the
\* handler goes on without ("deferred", and never made up for).
RegisterSession(c, known) ==
  /\ handler[c] = "idle"
  /\ handler' = [handler EXCEPT ![c] = "registered"]
  /\ IF known
     THEN /\ address_to_session' = [address_to_session EXCEPT ![AddrOf[c]] = SurveyOf[c]]
          /\ registered_ids' = registered_ids \cup {SurveyOf[c]}
     ELSE UNCHANGED registryVars
  /\ UNCHANGED <<captureVars, keylogVars, tracingVars>>

Held == {s \in Surveys : sessions[s] # {}}
Oldest(k) == {session_order[i] : i \in 1..k}

EvictEarly(k) ==  \* mutant: one session fewer is kept than the limit says
  Cardinality(Held \ Oldest(k)) + 1 < MaxSessions \/ k = Len(session_order)

\* The eviction loop stops once there is room, or nothing is left to evict.
RoomAfter(k) == Cardinality(Held \ Oldest(k)) < MaxSessions \/ k = Len(session_order)

\* How many of the oldest sessions it removes.
Evicted == CHOOSE k \in 0..Len(session_order) :
             RoomAfter(k) /\ \A j \in 0..(k - 1) : ~RoomAfter(j)

\* KeylogStorage::add_entry.  A session that has keys is not moved in the order.
AddEntry(s, c) ==
  IF s = EmptyId THEN UNCHANGED keylogVars
  ELSE /\ captured' = captured \cup {c}
       /\ IF s \in Held
          THEN /\ sessions' = [sessions EXCEPT ![s] = @ \cup {c}]
               /\ UNCHANGED session_order
          ELSE /\ session_order' =
                    Append(SubSeq(session_order, Evicted + 1, Len(session_order)), s)
               /\ sessions' = [x \in Surveys |->
                    IF x = s THEN {c} ELSE IF x \in Oldest(Evicted) THEN {} ELSE sessions[x]]

\* The keys are skipped when the DTLS transport has none yet.
CaptureKeys(c, available) ==
  /\ handler[c] = "registered"
  /\ handler' = [handler EXCEPT ![c] = "done"]
  /\ IF available THEN AddEntry(SurveyOf[c], c) ELSE UNCHANGED keylogVars
  /\ UNCHANGED <<captureVars, registryVars, tracingVars>>

ClearKeylog ==
  /\ sessions' = [s \in Surveys |-> {}]
  /\ session_order' = <<>>
  /\ captured' = {}
  /\ UNCHANGED <<captureVars, registryVars, handler, tracingVars>>

\* download_keylog_for_session: the keys of the survey, or one of the errors.
KeylogDownload(s) ==
  IF s = EmptyId THEN "bad request"
  ELSE IF sessions[s] = {} THEN "not found" ELSE "ok"

\* download_pcap_for_session: the packets tagged with the survey, none for an
\* empty id, which is a bad request.
PcapDownload(s) == IF s = EmptyId THEN <<>> ELSE GetPacketsForSession(s)

\* What the analyst's session list says is there to download.
HasKeylog(s) == sessions[s] # {}
HasPcap(s)   == s \in registered_ids

-----------------------------------------------------------------------------
(* The ring of log lines *)

\* on_event builds the line, time stamp included, before any lock is taken.
BuildLine(t, l) ==
  /\ pending[t] = None
  /\ logged < MaxLogged
  /\ pending' = [pending EXCEPT ![t] = l]
  /\ logged' = logged + 1
  /\ UNCHANGED <<captureVars, registryVars, handler, keylogVars, entries, next_index>>

AddLineEarly(t) ==  \* mutant: the index moves before the slot is written
  /\ pending[t] # None
  /\ next_index' = (next_index + 1) % MaxEntries
  /\ entries' = IF Len(entries) < MaxEntries THEN Append(entries, pending[t])
                ELSE [entries EXCEPT ![next_index' + 1] = pending[t]]
  /\ pending' = [pending EXCEPT ![t] = None]
  /\ UNCHANGED <<captureVars, registryVars, handler, keylogVars, logged>>

AddLine(t) ==
  /\ pending[t] # None
  /\ entries' = IF Len(entries) < MaxEntries THEN Append(entries, pending[t])
                ELSE [entries EXCEPT ![next_index + 1] = pending[t]]
  /\ next_index' = (next_index + 1) % MaxEntries
  /\ pending' = [pending EXCEPT ![t] = None]
  /\ UNCHANGED <<captureVars, registryVars, handler, keylogVars, logged>>

\* get_entries: from next_index to the end, then from the start.
GetEntries ==
  IF Len(entries) < MaxEntries THEN entries
  ELSE [i \in 1..Len(entries) |->
         IF i <= Len(entries) - next_index THEN entries[next_index + i]
         ELSE entries[i - (Len(entries) - next_index)]]

ClearTracing ==
  /\ entries' = <<>>
  /\ next_index' = 0
  /\ UNCHANGED <<captureVars, registryVars, handler, keylogVars, pending, logged>>

-----------------------------------------------------------------------------
CaptureNext == \/ \E f \in Frames : CaptureFrame(f)
               \/ StorePacket
               \/ ClearCapture
               \/ \E c \in Conns, known \in BOOLEAN : RegisterSession(c, known)
               \/ \E c \in Conns, available \in BOOLEAN : CaptureKeys(c, available)
               \/ ClearKeylog

TracingNext == \/ \E t \in Threads, l \in Lines : BuildLine(t, l)
               \/ \E t \in Threads : AddLine(t)
               \/ ClearTracing

Next == CaptureNext \/ TracingNext

Spec == Init /\ [][Next]_vars

-----------------------------------------------------------------------------
(* Properties *)

Bounded(l, e, max) == IF Len(l) < max THEN Append(l, e) ELSE Append(Tail(l), e)

\* The addresses of a frame that say which survey it belongs to.
RouteOf(f) ==
  IF f.whole /\ f.proto = "udp" THEN <<f.src, f.dst>>
  ELSE IF f.whole /\ IsIcmpError(f) /\ f.quoted # None THEN <<f.quoted>> ELSE <<>>

\* The capture as the analyst is meant to see it: a frame is recorded when the
\* thread tags it, although it reaches the ring in a later step.
LogView == IF tagged = None THEN GetPackets ELSE Bounded(GetPackets, tagged, MaxPackets)

SL == INSTANCE SurveyLog WITH Max <- MaxPackets, Route <- [f \in Frames |-> RouteOf(f)],
                              owner <- address_to_session, log <- LogView

\* The capture thread's two separately locked steps and the ring implement the
\* survey log: whatever registrations, clears and downloads come in between,
\* the ring holds the last max_packets frames in order of arrival, each tagged
\* with the survey that owned it at one instant (packet_capture.rs).
CaptureIsSurveyLog == SL!LogSpec

\* As long as no more surveys than max_sessions have stored keys since the last
\* clear, every key of every connection is offered and can be downloaded; the
\* order list and the map never disagree on which surveys are held
\* (dtls_keylog.rs).  And a survey with packets in the ring is offered as one,
\* however registrations, clears and the capture thread interleave
\* (analyst_api.rs, list_sessions).
DownloadsOffered ==
  /\ Oldest(Len(session_order)) = Held
  /\ Len(session_order) = Cardinality(Held)
  /\ Len(session_order) <= MaxSessions
  /\ Cardinality({SurveyOf[c] : c \in captured}) <= MaxSessions =>
       \A c \in captured : /\ c \in sessions[SurveyOf[c]]
                           /\ HasKeylog(SurveyOf[c])
                           /\ KeylogDownload(SurveyOf[c]) = "ok"
  /\ \A s \in Surveys : PcapDownload(s) # <<>> => HasPcap(s)

\* Whichever thread stores a line, and wherever the ring stands, an export
\* afterwards shows the lines of one before, less the oldest if it was full,
\* and the new line last; nothing else but a clear changes it (tracing_buffer.rs).
ExportsLatestLines ==
  [][\/ GetEntries' = GetEntries
     \/ GetEntries' = <<>> /\ pending' = pending
     \/ \E t \in Threads : /\ pending[t] # None /\ pending'[t] = None
                           /\ GetEntries' = Bounded(GetEntries, pending[t], MaxEntries)]_vars
=============================================================================
