------------------------ MODULE DiagnosticStoresProofs ------------------------
(***************************************************************************)
(* The packet capture implements SurveyLog for every ring size, every set  *)
(* of frames and every number of connections.  The argument: a ring that   *)
(* is not full has its write position at its end (RingInv), so a push      *)
(* appends to what get_packets returns and drops at most its head          *)
(* (PushShifts); the tag the code computes is the owner of the first owned *)
(* address on the frame's route (TagIsOwner); every step is then a step of *)
(* the log or leaves it alone.  The ring of log lines is unrolled by index *)
(* arithmetic instead, which comes to the same rotation (EntriesRotate),   *)
(* so the same lemmas show what an export returns.  What is offered can be *)
(* downloaded: the order list of the key log names the surveys it holds,   *)
(* each once, and a tag in the ring is that of a registered survey.        *)
(***************************************************************************)
EXTENDS DiagnosticStores, SequenceTheorems, FiniteSetTheorems, TLAPS

RingInv == Len(packets) < MaxPackets => write_pos = Len(packets)

CaptureType ==
  /\ packets \in Seq(Packets)
  /\ Len(packets) <= MaxPackets
  /\ write_pos \in 0..(MaxPackets - 1)
  /\ tagged \in Packets \cup {None}
  /\ address_to_session \in [Addresses -> Surveys \cup {None}]

CaptureInv == CaptureType /\ RingInv

-----------------------------------------------------------------------------
(* The ring *)

\* What get_packets returns for the slots q and the write position w.
Unrolled(q, w) == SubSeq(q, w + 1, Len(q)) \o SubSeq(q, 1, w)

\* Advancing an index modulo the ring's size is a step to the next slot, or
\* back to the first one (packet_capture.rs, add_packet).
LEMMA Advance ==
  ASSUME NEW n \in Nat \ {0}, NEW w \in 0..(n - 1)
  PROVE  (w + 1) % n = IF w + 1 = n THEN 0 ELSE w + 1
  OBVIOUS

\* Reading a full ring from the write position on is a rotation
\* (packet_capture.rs, get_packets).
LEMMA Rotation ==
  ASSUME NEW S, NEW q \in Seq(S), NEW w \in 0..Len(q)
  PROVE  /\ Unrolled(q, w) \in Seq(S)
         /\ Len(Unrolled(q, w)) = Len(q)
         /\ \A i \in 1..Len(q) :
              Unrolled(q, w)[i] = IF i <= Len(q) - w THEN q[w + i]
                                                     ELSE q[i - (Len(q) - w)]
<1> DEFINE late  == SubSeq(q, w + 1, Len(q))
           early == SubSeq(q, 1, w)
<1>1. /\ Len(q) \in Nat
      /\ \A i \in 1..Len(q) : q[i] \in S
  OBVIOUS
<1>2. /\ late \in Seq(S)
      /\ Len(late) = Len(q) - w
      /\ \A i \in 1..(Len(q) - w) : late[i] = q[w + i]
  <2>1. \A i \in (w + 1)..Len(q) : q[i] \in S
    BY <1>1
  <2> HIDE DEF late
  <2>2. /\ late \in Seq(S)
        /\ Len(late) = IF w + 1 <= Len(q) THEN Len(q) - (w + 1) + 1 ELSE 0
        /\ \A i \in 1..(Len(q) - (w + 1) + 1) : late[i] = q[(w + 1) + i - 1]
    BY <1>1, <2>1, SubSeqProperties DEF late
  <2> QED BY <1>1, <2>2
<1>3. /\ early \in Seq(S)
      /\ Len(early) = w
      /\ \A i \in 1..w : early[i] = q[i]
  <2>1. \A i \in 1..w : q[i] \in S
    BY <1>1
  <2> HIDE DEF early
  <2>2. /\ early \in Seq(S)
        /\ Len(early) = IF 1 <= w THEN w - 1 + 1 ELSE 0
        /\ \A i \in 1..(w - 1 + 1) : early[i] = q[1 + i - 1]
    BY <1>1, <2>1, SubSeqProperties DEF early
  <2> QED BY <1>1, <2>2
<1> HIDE DEF late, early
<1>4. /\ late \o early \in Seq(S)
      /\ Len(late \o early) = Len(late) + Len(early)
      /\ \A i \in 1..(Len(late) + Len(early)) :
           (late \o early)[i] = IF i <= Len(late) THEN late[i] ELSE early[i - Len(late)]
  BY <1>2, <1>3, ConcatProperties
<1>5. Unrolled(q, w) = late \o early
  BY DEF Unrolled, late, early
<1> QED BY <1>1, <1>2, <1>3, <1>4, <1>5

\* Overwriting the slot at the write position of a full ring and moving on
\* drops the head of what get_packets returns and appends the new packet.
LEMMA OverwriteShifts ==
  ASSUME NEW S, NEW q \in Seq(S), NEW w \in 0..(Len(q) - 1), NEW e \in S,
         NEW x \in 0..(Len(q) - 1), x = IF w + 1 = Len(q) THEN 0 ELSE w + 1
  PROVE  Unrolled([q EXCEPT ![w + 1] = e], x) = Append(Tail(Unrolled(q, w)), e)
<1> DEFINE r == [q EXCEPT ![w + 1] = e]
           u == Unrolled(q, w)
           v == Unrolled(r, x)
<1>1. Len(q) \in Nat \ {0}
  OBVIOUS
<1>2. /\ r \in Seq(S)
      /\ Len(r) = Len(q)
      /\ \A j \in 1..Len(q) : r[j] = IF j = w + 1 THEN e ELSE q[j]
  BY <1>1, ExceptSeq
<1>3. /\ u \in Seq(S)
      /\ Len(u) = Len(q)
      /\ \A i \in 1..Len(q) : u[i] = IF i <= Len(q) - w THEN q[w + i] ELSE q[i - (Len(q) - w)]
  BY <1>1, Rotation
<1> HIDE DEF r, u
<1>4. /\ v \in Seq(S)
      /\ Len(v) = Len(q)
      /\ \A i \in 1..Len(q) : v[i] = IF i <= Len(q) - x THEN r[x + i] ELSE r[i - (Len(q) - x)]
  <2>1. x \in 0..Len(r)
    BY <1>1, <1>2
  <2>2. /\ v \in Seq(S)
        /\ Len(v) = Len(r)
        /\ \A i \in 1..Len(r) : v[i] = IF i <= Len(r) - x THEN r[x + i] ELSE r[i - (Len(r) - x)]
    BY <1>2, <2>1, Rotation
  <2> QED BY <1>2, <2>2
<1> HIDE DEF v
<1>5. /\ Tail(u) \in Seq(S)
      /\ Len(Tail(u)) = Len(q) - 1
      /\ \A i \in 1..(Len(q) - 1) : Tail(u)[i] = u[i + 1]
  <2>1. u # <<>>
    BY <1>1, <1>3
  <2> QED BY <1>3, <2>1, HeadTailProperties
<1>6. /\ Append(Tail(u), e) \in Seq(S)
      /\ Len(Append(Tail(u), e)) = Len(q)
      /\ \A i \in 1..(Len(q) - 1) : Append(Tail(u), e)[i] = u[i + 1]
      /\ Append(Tail(u), e)[Len(q)] = e
  BY <1>1, <1>5, AppendProperties
<1>7. ASSUME NEW i \in 1..(Len(q) - 1)
      PROVE  v[i] = u[i + 1]
  <2>1. /\ v[i] = IF i <= Len(q) - x THEN r[x + i] ELSE r[i - (Len(q) - x)]
        /\ u[i + 1] = IF i + 1 <= Len(q) - w THEN q[w + (i + 1)]
                                             ELSE q[(i + 1) - (Len(q) - w)]
    <3>1. i \in 1..Len(q) /\ i + 1 \in 1..Len(q)
      BY <1>1
    <3>2. v[i] = IF i <= Len(q) - x THEN r[x + i] ELSE r[i - (Len(q) - x)]
      BY <1>4, <3>1
    <3>3. u[i + 1] = IF i + 1 <= Len(q) - w THEN q[w + (i + 1)]
                                            ELSE q[(i + 1) - (Len(q) - w)]
      BY <1>3, <3>1
    <3> QED BY <3>2, <3>3
  <2>2. CASE w + 1 = Len(q)
    <3>1. v[i] = r[i] /\ u[i + 1] = q[i]
      BY <1>1, <2>1, <2>2
    <3>2. i \in 1..Len(q) /\ i # w + 1
      BY <1>1, <2>2
    <3>3. r[i] = q[i]
      BY <1>2, <3>2
    <3> QED BY <3>1, <3>3
  <2>3. CASE w + 1 # Len(q) /\ i <= Len(q) - (w + 1)
    <3>1. v[i] = r[w + 1 + i] /\ u[i + 1] = q[w + 1 + i]
      BY <1>1, <2>1, <2>3
    <3> QED BY <1>1, <1>2, <2>3, <3>1
  <2>4. CASE w + 1 # Len(q) /\ ~(i <= Len(q) - (w + 1))
    <3>1. v[i] = r[i - (Len(q) - (w + 1))] /\ u[i + 1] = q[i - (Len(q) - (w + 1))]
      BY <1>1, <2>1, <2>4
    <3> QED BY <1>1, <1>2, <2>4, <3>1
  <2> QED BY <2>2, <2>3, <2>4
<1>8. v[Len(q)] = e
  BY <1>1, <1>2, <1>4
<1>9. \A i \in 1..Len(q) : v[i] = Append(Tail(u), e)[i]
  BY <1>1, <1>6, <1>7, <1>8
<1>10. v = Append(Tail(u), e)
  BY <1>4, <1>6, <1>9, SeqEqual
<1> QED BY <1>10 DEF v, u, r

\* Whether the ring is full or not, storing a packet appends it to what
\* get_packets returns and drops the oldest one only when there is no room.
LEMMA PushShifts ==
  ASSUME CaptureInv, NEW p \in Packets, PushPacket(p)
  PROVE  /\ GetPackets' = Bounded(GetPackets, p, MaxPackets)
         /\ packets' \in Seq(Packets)
         /\ Len(packets') <= MaxPackets
         /\ write_pos' \in 0..(MaxPackets - 1)
         /\ RingInv'
<1> USE DEF CaptureInv, CaptureType
<1>1. /\ MaxPackets \in Nat \ {0}
      /\ Len(packets) \in Nat
  BY StoresAssumption
<1>2. write_pos' = IF write_pos + 1 = MaxPackets THEN 0 ELSE write_pos + 1
  BY <1>1, Advance DEF PushPacket
<1>3. CASE Len(packets) < MaxPackets
  <2>1. packets' = Append(packets, p) /\ write_pos = Len(packets)
    BY <1>3 DEF PushPacket, RingInv
  <2>2. /\ packets' \in Seq(Packets)
        /\ Len(packets') = Len(packets) + 1
    BY <2>1, AppendProperties
  <2>3. /\ Len(packets') <= MaxPackets
        /\ write_pos' \in 0..(MaxPackets - 1)
        /\ RingInv'
    BY <1>1, <1>2, <1>3, <2>1, <2>2 DEF RingInv
  <2>4. GetPackets' = packets'
    <3>1. CASE Len(packets') < MaxPackets
      BY <3>1 DEF GetPackets
    <3>2. CASE Len(packets') = MaxPackets
      <4>1. write_pos' = 0
        BY <1>1, <1>2, <2>1, <2>2, <3>2
      <4>2. GetPackets' = SubSeq(packets', 1, Len(packets')) \o SubSeq(packets', 1, 0)
        BY <1>1, <3>2, <4>1 DEF GetPackets
      <4>3. SubSeq(packets', 1, Len(packets')) = packets'
        BY <2>2, SubSeqFull
      <4>4. SubSeq(packets', 1, 0) = <<>>
        BY SubSeqEmpty
      <4> QED BY <2>2, <4>2, <4>3, <4>4, ConcatEmptySeq
    <3> QED BY <1>1, <2>2, <2>3, <3>1, <3>2
  <2>5. GetPackets = packets
    BY <1>3 DEF GetPackets
  <2> QED BY <1>3, <2>1, <2>2, <2>3, <2>4, <2>5 DEF Bounded
<1>4. CASE ~(Len(packets) < MaxPackets)
  <2>1. /\ packets' = [packets EXCEPT ![write_pos + 1] = p]
        /\ Len(packets) = MaxPackets
    BY <1>1, <1>4 DEF PushPacket
  <2>2. /\ packets' \in Seq(Packets)
        /\ Len(packets') = MaxPackets
    <3>1. write_pos + 1 \in 1..Len(packets)
      BY <1>1, <2>1
    <3> QED BY <2>1, <3>1, ExceptSeq
  <2>3. write_pos' \in 0..(MaxPackets - 1)
    BY <1>1, <1>2
  <2>4. Unrolled(packets', write_pos') = Append(Tail(Unrolled(packets, write_pos)), p)
    <3>1. /\ write_pos \in 0..(Len(packets) - 1)
          /\ write_pos' \in 0..(Len(packets) - 1)
          /\ write_pos' = IF write_pos + 1 = Len(packets) THEN 0 ELSE write_pos + 1
      BY <1>1, <1>2, <2>1, <2>3
    <3> QED BY <2>1, <3>1, OverwriteShifts
  <2>5. /\ GetPackets = Unrolled(packets, write_pos)
        /\ GetPackets' = Unrolled(packets', write_pos')
    <3>1. GetPackets = Unrolled(packets, write_pos)
      BY <1>4 DEF GetPackets, Unrolled
    <3>2. ~(Len(packets') < MaxPackets)
      BY <1>1, <2>2
    <3>3. GetPackets' = Unrolled(packets', write_pos')
      BY <3>2 DEF GetPackets, Unrolled
    <3> QED BY <3>1, <3>3
  <2>6. ~(Len(GetPackets) < MaxPackets)
    <3>1. write_pos \in 0..Len(packets)
      BY <1>1, <2>1
    <3>2. Len(Unrolled(packets, write_pos)) = Len(packets)
      BY <3>1, Rotation
    <3> QED BY <1>1, <2>1, <2>5, <3>2
  <2> QED BY <1>1, <2>2, <2>3, <2>4, <2>5, <2>6 DEF Bounded, RingInv
<1> QED BY <1>3, <1>4

\* get_packets returns packets, no more than the ring has slots.
LEMMA GetPacketsType ==
  ASSUME CaptureInv
  PROVE  GetPackets \in Seq(Packets)
<1> USE DEF CaptureInv, CaptureType
<1>1. CASE Len(packets) < MaxPackets
  BY <1>1 DEF GetPackets
<1>2. CASE ~(Len(packets) < MaxPackets)
  <2>1. write_pos \in 0..Len(packets)
    BY <1>2, StoresAssumption
  <2>2. Unrolled(packets, write_pos) \in Seq(Packets)
    BY <2>1, Rotation
  <2> QED BY <1>2, <2>2 DEF GetPackets, Unrolled
<1> QED BY <1>1, <1>2

-----------------------------------------------------------------------------
(* The tag *)

\* extract_session_id_from_packet returns the survey of the first owned address
\* on the frame's route: source, destination, or what an ICMP error quotes.
LEMMA TagIsOwner ==
  ASSUME CaptureType, NEW f \in Frames
  PROVE  /\ ExtractSessionId(f) = SL!OwnerOf(f)
         /\ ExtractSessionId(f) \in Surveys \cup {None}
<1> DEFINE route == RouteOf(f)
           owned == {i \in 1..Len(route) : address_to_session[route[i]] # None}
<1>1. /\ f \in FrameFields
      /\ None \notin Addresses
  BY StoresAssumption
<1>2. SL!OwnerOf(f) = IF owned = {} THEN None
                      ELSE address_to_session[route[CHOOSE i \in owned : \A j \in owned : i <= j]]
  BY DEF SL!OwnerOf
<1>3. CASE f.whole /\ f.proto = "udp"
  <2>1. route = <<f.src, f.dst>>
    BY <1>3 DEF RouteOf
  <2>2. ExtractSessionId(f) = IF address_to_session[f.src] # None THEN address_to_session[f.src]
                              ELSE address_to_session[f.dst]
    BY <1>1, <1>3 DEF ExtractSessionId, ParseAddresses, LookupByEither, Lookup,
                      IsIcmpError, FrameFields, LookupByServerPort
  <2>3. CASE address_to_session[f.src] # None
    <3>1. 1 \in owned /\ \A j \in owned : 1 <= j
      BY <2>1, <2>3
    <3>2. \A i \in owned : (\A j \in owned : i <= j) => i = 1
      BY <3>1
    <3>3. (CHOOSE i \in owned : \A j \in owned : i <= j) = 1
      BY <3>1, <3>2
    <3>4. SL!OwnerOf(f) = address_to_session[route[1]]
      BY <1>2, <3>1, <3>3
    <3>5. route[1] = f.src
      BY <2>1
    <3>6. address_to_session[f.src] \in Surveys \cup {None}
      BY <1>1 DEF CaptureType, FrameFields
    <3> QED BY <2>2, <2>3, <3>4, <3>5, <3>6
  <2>4. CASE address_to_session[f.src] = None /\ address_to_session[f.dst] # None
    <3>1. owned = {2}
      BY <2>1, <2>4
    <3>2. (CHOOSE i \in owned : \A j \in owned : i <= j) = 2
      BY <3>1
    <3> QED BY <1>1, <1>2, <2>1, <2>2, <2>4, <3>1, <3>2 DEF CaptureType, FrameFields
  <2>5. CASE address_to_session[f.src] = None /\ address_to_session[f.dst] = None
    <3>1. owned = {}
      BY <2>1, <2>5
    <3> QED BY <1>2, <2>2, <2>5, <3>1
  <2> QED BY <2>3, <2>4, <2>5
<1>4. CASE f.whole /\ f.proto # "udp" /\ IsIcmpError(f) /\ f.quoted # None
  <2>1. route = <<f.quoted>>
    BY <1>4 DEF RouteOf
  <2>2. ExtractSessionId(f) = address_to_session[f.quoted]
    BY <1>1, <1>4 DEF ExtractSessionId, ParseAddresses, LookupByEither, Lookup, PortZero,
                      IsIcmpError, FrameFields, LookupByServerPort, EmbeddedDestination
  <2>3. CASE address_to_session[f.quoted] # None
    <3>1. owned = {1}
      BY <2>1, <2>3
    <3>2. (CHOOSE i \in owned : \A j \in owned : i <= j) = 1
      BY <3>1
    <3> QED BY <1>1, <1>2, <1>4, <2>1, <2>2, <2>3, <3>1, <3>2 DEF CaptureType, FrameFields
  <2>4. CASE address_to_session[f.quoted] = None
    <3>1. owned = {}
      BY <2>1, <2>4
    <3> QED BY <1>2, <2>2, <2>4, <3>1
  <2> QED BY <2>3, <2>4
<1>5. CASE ~(f.whole /\ f.proto = "udp") /\ ~(f.whole /\ IsIcmpError(f) /\ f.quoted # None)
  <2>1. route = <<>>
    BY <1>5 DEF RouteOf
  <2>2. owned = {}
    BY <2>1
  <2>3. ExtractSessionId(f) = None
    BY <1>1, <1>5 DEF ExtractSessionId, ParseAddresses, LookupByEither, Lookup, PortZero,
                      IsIcmpError, FrameFields, LookupByServerPort, EmbeddedDestination
  <2> QED BY <1>2, <2>2, <2>3
<1> QED BY <1>3, <1>4, <1>5

-----------------------------------------------------------------------------
(* The steps *)

\* The type of the capture's state and the position of the ring's write index
\* are preserved by every step.
THEOREM CaptureInvariant == Spec => []CaptureInv
<1>1. Init => CaptureInv
  BY StoresAssumption DEF Init, CaptureInv, CaptureType, RingInv
<1>2. CaptureInv /\ [Next]_vars => CaptureInv'
  <2> SUFFICES ASSUME CaptureInv, [Next]_vars PROVE CaptureInv'
    OBVIOUS
  <2>1. ASSUME NEW f \in Frames, CaptureFrame(f) PROVE CaptureInv'
    <3>1. ExtractSessionId(f) \in Surveys \cup {None}
      BY TagIsOwner DEF CaptureInv
    <3> QED BY <2>1, <3>1 DEF CaptureFrame, CaptureInv, CaptureType, RingInv, Packets, registryVars
  <2>2. CASE StorePacket
    <3>1. tagged \in Packets
      BY <2>2 DEF StorePacket, CaptureInv, CaptureType
    <3> QED BY <2>2, <3>1, PushShifts DEF StorePacket, CaptureInv, CaptureType, registryVars
  <2>3. CASE ClearCapture
    BY <2>3, StoresAssumption DEF ClearCapture, CaptureInv, CaptureType, RingInv, registryVars
  <2>4. ASSUME NEW c \in Conns, NEW known \in BOOLEAN, RegisterSession(c, known) PROVE CaptureInv'
    BY <2>4, StoresAssumption
    DEF RegisterSession, CaptureInv, CaptureType, RingInv, registryVars, captureVars
  <2>5. ASSUME UNCHANGED <<captureVars, registryVars>> PROVE CaptureInv'
    BY <2>5 DEF CaptureInv, CaptureType, RingInv, captureVars, registryVars
  <2>6. CASE \E c \in Conns, available \in BOOLEAN : CaptureKeys(c, available)
    BY <2>5, <2>6 DEF CaptureKeys
  <2>7. CASE ClearKeylog
    BY <2>5, <2>7 DEF ClearKeylog
  <2>8. CASE TracingNext
    BY <2>5, <2>8 DEF TracingNext, BuildLine, AddLine, ClearTracing
  <2>9. CASE UNCHANGED vars
    BY <2>5, <2>9 DEF vars, captureVars, registryVars
  <2> QED BY <2>1, <2>2, <2>3, <2>4, <2>6, <2>7, <2>8, <2>9 DEF Next, CaptureNext
<1> QED BY <1>1, <1>2, PTL DEF Spec

\* The packet capture, with its two locks and its ring, implements the log in
\* which a frame is tagged and recorded in one step (packet_capture.rs).
THEOREM CaptureRefinesLog == Spec => CaptureIsSurveyLog
<1>1. Init => SL!LogInit
  <2> SUFFICES ASSUME Init PROVE SL!LogInit
    OBVIOUS
  <2>1. LogView = <<>>
    BY StoresAssumption DEF Init, LogView, GetPackets
  <2> QED BY <2>1 DEF Init, SL!LogInit
<1>2. CaptureInv /\ [Next]_vars => [SL!LogNext]_(SL!logVars)
  <2> SUFFICES ASSUME CaptureInv, [Next]_vars PROVE SL!LogNext \/ UNCHANGED SL!logVars
    OBVIOUS
  <2>1. ASSUME NEW f \in Frames, CaptureFrame(f) PROVE SL!LogNext
    <3>1. /\ tagged' = [frame |-> f, survey |-> SL!OwnerOf(f)]
          /\ tagged' # None
      <4>1. /\ ExtractSessionId(f) = SL!OwnerOf(f)
            /\ ExtractSessionId(f) \in Surveys \cup {None}
        BY TagIsOwner DEF CaptureInv
      <4> QED BY <2>1, <4>1, StoresAssumption DEF CaptureFrame
    <3>2. GetPackets' = GetPackets
      BY <2>1 DEF CaptureFrame, GetPackets
    <3>3. LogView = GetPackets /\ LogView' = Bounded(GetPackets, tagged', MaxPackets)
      BY <2>1, <3>1, <3>2 DEF CaptureFrame, LogView, Bounded
    <3>4. SL!Record(f)
      BY <2>1, <3>1, <3>3 DEF CaptureFrame, SL!Record, SL!Bounded, Bounded, registryVars
    <3> QED BY <3>4 DEF SL!LogNext
  <2>2. CASE StorePacket
    <3>1. tagged \in Packets /\ tagged' = None
      BY <2>2 DEF StorePacket, CaptureInv, CaptureType
    <3>2. GetPackets' = Bounded(GetPackets, tagged, MaxPackets)
      BY <2>2, <3>1, PushShifts DEF StorePacket
    <3>3. LogView' = LogView
      BY <2>2, <3>1, <3>2 DEF StorePacket, LogView
    <3> QED BY <2>2, <3>3 DEF StorePacket, SL!logVars, registryVars
  <2>3. CASE ClearCapture
    <3>1. GetPackets' = <<>>
      BY <2>3, StoresAssumption DEF ClearCapture, GetPackets
    <3>2. address_to_session' = address_to_session /\ tagged' = tagged
      BY <2>3 DEF ClearCapture, registryVars
    <3>3. CASE tagged = None
      <4>1. LogView' = <<>>
        BY <3>1, <3>2, <3>3 DEF LogView
      <4> QED BY <3>2, <4>1 DEF SL!LogNext, SL!Clear
    <3>4. CASE tagged # None
      <4>1. LogView' = <<tagged>>
        BY <3>1, <3>2, <3>4, StoresAssumption DEF LogView, Bounded
      <4>2. tagged \in Packets /\ GetPackets \in Seq(Packets)
        BY <3>4, GetPacketsType DEF CaptureInv, CaptureType
      <4>3. LogView = Bounded(GetPackets, tagged, MaxPackets)
        BY <3>4 DEF LogView
      <4>4. LogView # <<>> /\ LogView[Len(LogView)] = tagged
        <5>1. CASE Len(GetPackets) < MaxPackets
          BY <4>2, <4>3, <5>1, AppendProperties DEF Bounded
        <5>2. CASE ~(Len(GetPackets) < MaxPackets)
          <6>1. GetPackets # <<>>
            BY <5>2, StoresAssumption
          <6>2. Tail(GetPackets) \in Seq(Packets)
            BY <4>2, <6>1, HeadTailProperties
          <6> QED BY <4>2, <4>3, <5>2, <6>2, AppendProperties DEF Bounded
        <5> QED BY <5>1, <5>2
      <4> QED BY <3>2, <4>1, <4>4 DEF SL!LogNext, SL!Clear
    <3> QED BY <3>3, <3>4
  <2>4. ASSUME NEW c \in Conns, NEW known \in BOOLEAN, RegisterSession(c, known)
        PROVE  SL!LogNext \/ UNCHANGED SL!logVars
    <3>1. LogView' = LogView
      BY <2>4 DEF RegisterSession, LogView, GetPackets, captureVars
    <3>2. CASE known
      <4>1. SL!Own(AddrOf[c], SurveyOf[c])
        BY <2>4, <3>1, <3>2 DEF RegisterSession, SL!Own
      <4>2. AddrOf[c] \in Addresses /\ SurveyOf[c] \in Surveys
        BY StoresAssumption
      <4> QED BY <4>1, <4>2 DEF SL!LogNext
    <3>3. CASE ~known
      BY <2>4, <3>1, <3>3 DEF RegisterSession, SL!logVars, registryVars
    <3> QED BY <3>2, <3>3
  <2>5. ASSUME UNCHANGED <<captureVars, registryVars>> PROVE UNCHANGED SL!logVars
    BY <2>5 DEF captureVars, registryVars, SL!logVars, LogView, GetPackets
  <2>6. CASE \E c \in Conns, available \in BOOLEAN : CaptureKeys(c, available)
    BY <2>5, <2>6 DEF CaptureKeys
  <2>7. CASE ClearKeylog
    BY <2>5, <2>7 DEF ClearKeylog
  <2>8. CASE TracingNext
    BY <2>5, <2>8 DEF TracingNext, BuildLine, AddLine, ClearTracing
  <2>9. CASE UNCHANGED vars
    BY <2>5, <2>9 DEF vars, captureVars, registryVars
  <2> QED BY <2>1, <2>2, <2>3, <2>4, <2>6, <2>7, <2>8, <2>9 DEF Next, CaptureNext
<1> QED BY <1>1, <1>2, CaptureInvariant, PTL DEF Spec, CaptureIsSurveyLog, SL!LogSpec
-----------------------------------------------------------------------------
(* The ring of log lines *)

LinesInv ==
  /\ entries \in Seq(Lines)
  /\ Len(entries) <= MaxEntries
  /\ next_index \in 0..(MaxEntries - 1)
  /\ Len(entries) < MaxEntries => next_index = Len(entries)
  /\ pending \in [Threads -> Lines \cup {None}]

\* The two loops of get_entries read the ring as get_packets does
\* (tracing_buffer.rs).
LEMMA EntriesRotate ==
  ASSUME NEW S, NEW q \in Seq(S), NEW w \in 0..Len(q)
  PROVE  [i \in 1..Len(q) |-> IF i <= Len(q) - w THEN q[w + i] ELSE q[i - (Len(q) - w)]]
           = Unrolled(q, w)
<1> DEFINE u == Unrolled(q, w)
<1>1. /\ u \in Seq(S)
      /\ Len(u) = Len(q)
      /\ \A i \in 1..Len(q) : u[i] = IF i <= Len(q) - w THEN q[w + i] ELSE q[i - (Len(q) - w)]
  BY Rotation
<1> HIDE DEF u
<1>2. u = [i \in 1..Len(u) |-> u[i]]
  BY <1>1
<1>3. u = [i \in 1..Len(q) |-> u[i]]
  BY <1>1, <1>2
<1> QED BY <1>1, <1>3 DEF u

\* Storing a line appends it to what an export returns, and drops the oldest
\* line only when there is no room (tracing_buffer.rs, add_entry).
LEMMA LineShifts ==
  ASSUME LinesInv, NEW t \in Threads, AddLine(t)
  PROVE  GetEntries' = Bounded(GetEntries, pending[t], MaxEntries) /\ LinesInv'
<1> USE DEF LinesInv
<1>1. /\ MaxEntries \in Nat \ {0}
      /\ Len(entries) \in Nat
      /\ pending[t] \in Lines
  BY StoresAssumption DEF AddLine
<1>2. next_index' = IF next_index + 1 = MaxEntries THEN 0 ELSE next_index + 1
  BY <1>1, Advance DEF AddLine
<1>3. pending' \in [Threads -> Lines \cup {None}]
  BY DEF AddLine
<1>4. next_index' \in 0..(MaxEntries - 1)
  BY <1>1, <1>2
<1>5. CASE Len(entries) < MaxEntries
  <2>1. entries' = Append(entries, pending[t]) /\ next_index = Len(entries)
    BY <1>5 DEF AddLine
  <2>2. entries' \in Seq(Lines) /\ Len(entries') = Len(entries) + 1
    BY <1>1, <2>1, AppendProperties
  <2>3. LinesInv'
    BY <1>1, <1>2, <1>3, <1>4, <1>5, <2>1, <2>2
  <2>4. GetEntries' = entries'
    <3>1. CASE Len(entries') < MaxEntries
      BY <3>1 DEF GetEntries
    <3>2. CASE Len(entries') = MaxEntries
      <4>1. next_index' = 0
        BY <1>1, <1>2, <2>1, <2>2, <3>2
      <4>2. GetEntries' = [i \in 1..Len(entries') |-> entries'[i]]
        BY <1>1, <2>2, <3>2, <4>1 DEF GetEntries
      <4> QED BY <2>2, <4>2
    <3> QED BY <1>1, <1>5, <2>2, <3>1, <3>2
  <2>5. GetEntries = entries
    BY <1>5 DEF GetEntries
  <2> QED BY <1>5, <2>1, <2>3, <2>4, <2>5 DEF Bounded
<1>6. CASE ~(Len(entries) < MaxEntries)
  <2>1. /\ entries' = [entries EXCEPT ![next_index + 1] = pending[t]]
        /\ Len(entries) = MaxEntries
    BY <1>1, <1>6 DEF AddLine
  <2>2. entries' \in Seq(Lines) /\ Len(entries') = MaxEntries
    <3>1. next_index + 1 \in 1..Len(entries)
      BY <1>1, <2>1
    <3> QED BY <1>1, <2>1, <3>1, ExceptSeq
  <2>3. LinesInv'
    BY <1>1, <1>3, <1>4, <2>2
  <2>4. Unrolled(entries', next_index') = Append(Tail(Unrolled(entries, next_index)), pending[t])
    <3>1. /\ entries \in Seq(Lines)
          /\ next_index \in 0..(Len(entries) - 1)
          /\ next_index' \in 0..(Len(entries) - 1)
          /\ next_index' = IF next_index + 1 = Len(entries) THEN 0 ELSE next_index + 1
      BY <1>1, <1>2, <1>4, <2>1
    <3>2. PICK e \in Lines : e = pending[t]
      BY <1>1
    <3> HIDE DEF LinesInv
    <3>3. Unrolled([entries EXCEPT ![next_index + 1] = e], next_index')
            = Append(Tail(Unrolled(entries, next_index)), e)
      BY <3>1, OverwriteShifts
    <3> QED BY <2>1, <3>2, <3>3
  <2>5. GetEntries = Unrolled(entries, next_index)
    <3>1. next_index \in 0..Len(entries)
      BY <1>1, <2>1
    <3> QED BY <1>6, <3>1, EntriesRotate DEF GetEntries
  <2>6. GetEntries' = Unrolled(entries', next_index')
    <3>1. next_index' \in 0..Len(entries') /\ ~(Len(entries') < MaxEntries)
      BY <1>1, <1>4, <2>2
    <3>2. [i \in 1..Len(entries') |->
             IF i <= Len(entries') - next_index' THEN entries'[next_index' + i]
             ELSE entries'[i - (Len(entries') - next_index')]] = Unrolled(entries', next_index')
      BY <2>2, <3>1, EntriesRotate
    <3> QED BY <3>1, <3>2 DEF GetEntries
  <2>7. ~(Len(GetEntries) < MaxEntries)
    <3>1. next_index \in 0..Len(entries)
      BY <1>1, <2>1
    <3>2. Len(Unrolled(entries, next_index)) = Len(entries)
      BY <3>1, Rotation
    <3> QED BY <1>1, <2>1, <2>5, <3>2
  <2> QED BY <2>3, <2>4, <2>5, <2>6, <2>7 DEF Bounded
<1> QED BY <1>5, <1>6

\* For any ring size and any number of threads, an export after a line was
\* stored is the one before with that line last (tracing_buffer.rs).
THEOREM ExportsAreLatest == Spec => ExportsLatestLines
<1> DEFINE Step ==
       \/ GetEntries' = GetEntries
       \/ GetEntries' = <<>> /\ pending' = pending
       \/ \E t \in Threads : /\ pending[t] # None /\ pending'[t] = None
                             /\ GetEntries' = Bounded(GetEntries, pending[t], MaxEntries)
<1>1. Init => LinesInv
  BY StoresAssumption DEF Init, LinesInv
<1>2. LinesInv /\ [Next]_vars => LinesInv' /\ Step
  <2> SUFFICES ASSUME LinesInv, [Next]_vars PROVE LinesInv' /\ Step
    OBVIOUS
  <2>1. ASSUME NEW t \in Threads, AddLine(t) PROVE LinesInv' /\ Step
    <3>1. GetEntries' = Bounded(GetEntries, pending[t], MaxEntries) /\ LinesInv'
      BY <2>1, LineShifts
    <3>2. pending[t] # None /\ pending'[t] = None
      BY <2>1 DEF AddLine, LinesInv
    <3> QED BY <3>1, <3>2
  <2>2. ASSUME NEW t \in Threads, NEW l \in Lines, BuildLine(t, l) PROVE LinesInv' /\ Step
    BY <2>2 DEF BuildLine, LinesInv, GetEntries
  <2>3. CASE ClearTracing
    <3>1. GetEntries' = <<>> /\ pending' = pending
      BY <2>3, StoresAssumption DEF ClearTracing, GetEntries
    <3>2. LinesInv'
      BY <2>3, StoresAssumption DEF ClearTracing, LinesInv
    <3> QED BY <3>1, <3>2
  <2>4. CASE UNCHANGED tracingVars
    BY <2>4 DEF tracingVars, LinesInv, GetEntries
  <2>5. CASE CaptureNext
    BY <2>4, <2>5 DEF CaptureNext, CaptureFrame, StorePacket, ClearCapture, RegisterSession,
       CaptureKeys, ClearKeylog
  <2>6. CASE UNCHANGED vars
    BY <2>4, <2>6 DEF vars, tracingVars
  <2> QED BY <2>1, <2>2, <2>3, <2>5, <2>6 DEF Next, TracingNext
<1> QED BY <1>1, <1>2, PTL DEF Spec, ExportsLatestLines
-----------------------------------------------------------------------------
(* What is offered for download *)

\* The surveys whose keys were stored since the last clear.
Stored == {SurveyOf[c] : c \in captured}

\* The order list names the surveys with keys, each once; and as long as no more
\* than MaxSessions have stored any, no key was evicted.
KeylogInv ==
  /\ sessions \in [Surveys -> SUBSET Conns]
  /\ session_order \in Seq(Surveys)
  /\ Len(session_order) <= MaxSessions
  /\ \A i, j \in 1..Len(session_order) : session_order[i] = session_order[j] => i = j
  /\ Oldest(Len(session_order)) = Held
  /\ captured \in SUBSET Conns
  /\ \A c \in captured : SurveyOf[c] # EmptyId
  /\ IsFiniteSet(Stored)
  /\ Held \subseteq Stored
  /\ Cardinality(Stored) <= MaxSessions => \A c \in captured : c \in sessions[SurveyOf[c]]

\* Every tag a packet carries, or will carry, is that of a registered survey.
TagsInv ==
  /\ \A i \in 1..Len(packets) : packets[i].survey \in registered_ids \cup {None}
  /\ tagged # None => tagged.survey \in registered_ids \cup {None}
  /\ \A a \in Addresses : address_to_session[a] \in registered_ids \cup {None}

\* The order list names every session that is held, once.
LEMMA OrderCounts ==
  ASSUME KeylogInv
  PROVE  IsFiniteSet(Held) /\ Cardinality(Held) = Len(session_order)
<1> USE DEF KeylogInv
<1> DEFINE n == Len(session_order)
           f == [i \in 1..n |-> session_order[i]]
<1>1. n \in Nat
  OBVIOUS
<1>2. f \in [1..n -> Held]
  BY DEF Oldest
<1>3. IsInjective(f)
  BY DEF IsInjective
<1>4. \A s \in Held : \E i \in 1..n : f[i] = s
  BY DEF Oldest
<1>5. f \in Bijection(1..n, Held)
  BY <1>2, <1>3, <1>4 DEF Bijection, Injection, Surjection
<1>6. ExistsBijection(1..n, Held)
  BY <1>5 DEF ExistsBijection
<1> QED BY <1>1, <1>6, FS_CountingElements, FS_NatBijection

\* The eviction loop makes room for one session, and removes none while there
\* is room (dtls_keylog.rs, add_entry).
LEMMA EvictsOnlyWhenFull ==
  ASSUME KeylogInv
  PROVE  Evicted = IF Len(session_order) < MaxSessions THEN 0 ELSE 1
<1>1. /\ IsFiniteSet(Held)
      /\ Cardinality(Held) = Len(session_order)
      /\ Len(session_order) \in Nat
      /\ Len(session_order) <= MaxSessions
      /\ MaxSessions \in Nat \ {0}
  BY OrderCounts, StoresAssumption DEF KeylogInv
<1>2. Held \ Oldest(0) = Held
  BY DEF Oldest
<1>3. RoomAfter(0) <=> Len(session_order) < MaxSessions
  <2>1. RoomAfter(0) <=> Cardinality(Held) < MaxSessions \/ 0 = Len(session_order)
    BY <1>2, Zenon DEF RoomAfter
  <2> QED BY <1>1, <2>1
<1>4. CASE Len(session_order) < MaxSessions
  <2>1. /\ 0 \in 0..Len(session_order)
        /\ RoomAfter(0)
        /\ \A j \in 0..(0 - 1) : ~RoomAfter(j)
    BY <1>1, <1>3, <1>4
  <2>2. \A k \in 0..Len(session_order) :
          RoomAfter(k) /\ (\A j \in 0..(k - 1) : ~RoomAfter(j)) => k = 0
    BY <1>1, <2>1
  <2> QED BY <1>4, <2>1, <2>2 DEF Evicted
<1>5. CASE ~(Len(session_order) < MaxSessions)
  <2>1. Len(session_order) = MaxSessions /\ 1 \in 1..Len(session_order)
    BY <1>1, <1>5
  <2>2. Oldest(1) = {session_order[1]} /\ session_order[1] \in Held
    BY <2>1 DEF Oldest, KeylogInv
  <2>3. Cardinality(Held \ Oldest(1)) = Len(session_order) - 1
    BY <1>1, <2>2, FS_RemoveElement
  <2>4. /\ 1 \in 0..Len(session_order)
        /\ RoomAfter(1)
        /\ ~RoomAfter(0)
        /\ \A j \in 0..(1 - 1) : ~RoomAfter(j)
    BY <1>1, <1>3, <2>1, <2>3 DEF RoomAfter
  <2>5. \A k \in 0..Len(session_order) :
          RoomAfter(k) /\ (\A j \in 0..(k - 1) : ~RoomAfter(j)) => k = 1
    BY <1>1, <2>4
  <2> QED BY <1>5, <2>4, <2>5 DEF Evicted
<1> QED BY <1>4, <1>5

\* Storing the keys of a connection keeps the order list and the map in step,
\* and loses no key while the surveys that stored keys fit.
LEMMA AddEntryKeeps ==
  ASSUME KeylogInv, NEW c \in Conns, AddEntry(SurveyOf[c], c)
  PROVE  KeylogInv'
<1> DEFINE s == SurveyOf[c]
           n == Len(session_order)
<1>1. /\ s \in Surveys
      /\ MaxSessions \in Nat \ {0}
      /\ n \in Nat
  BY StoresAssumption DEF KeylogInv
<1>2. CASE s = EmptyId
  BY <1>2 DEF AddEntry, keylogVars, KeylogInv, Stored, Held, Oldest
<1>3. CASE s # EmptyId /\ s \in Held
  <2>1. /\ captured' = captured \cup {c}
        /\ sessions' = [sessions EXCEPT ![s] = @ \cup {c}]
        /\ session_order' = session_order
    BY <1>3 DEF AddEntry
  <2>2. sessions' \in [Surveys -> SUBSET Conns] /\ captured' \in SUBSET Conns
    BY <1>1, <2>1 DEF KeylogInv
  <2>3. Held' = Held /\ Oldest(Len(session_order))' = Oldest(Len(session_order))
    BY <1>1, <1>3, <2>1 DEF Held, Oldest, KeylogInv
  <2>4. Stored' = Stored
    BY <1>3, <2>1 DEF Stored, KeylogInv
  <2>5. \A d \in captured' : SurveyOf[d] # EmptyId
    BY <1>3, <2>1 DEF KeylogInv
  <2>6. Cardinality(Stored') <= MaxSessions => \A d \in captured' : d \in sessions'[SurveyOf[d]]
    BY <1>1, <2>1, <2>4, StoresAssumption DEF KeylogInv
  <2> QED BY <2>1, <2>2, <2>3, <2>4, <2>5, <2>6 DEF KeylogInv
<1>4. CASE s # EmptyId /\ s \notin Held
  <2> DEFINE e == Evicted
             kept == SubSeq(session_order, e + 1, n)
  <2>1. e = IF n < MaxSessions THEN 0 ELSE 1
    BY EvictsOnlyWhenFull
  <2>2. /\ captured' = captured \cup {c}
        /\ session_order' = Append(kept, s)
        /\ sessions' = [x \in Surveys |->
             IF x = s THEN {c} ELSE IF x \in Oldest(e) THEN {} ELSE sessions[x]]
    BY <1>4 DEF AddEntry
  <2> HIDE DEF e
  <2>3. /\ e \in 0..n
        /\ n - e < MaxSessions
    BY <1>1, <2>1 DEF KeylogInv
  <2>4. /\ kept \in Seq(Surveys)
        /\ Len(kept) = n - e
        /\ \A i \in 1..(n - e) : kept[i] = session_order[e + i]
    <3>1. \A i \in (e + 1)..n : session_order[i] \in Surveys
      BY <1>1, <2>3 DEF KeylogInv
    <3>2. /\ kept \in Seq(Surveys)
          /\ Len(kept) = IF e + 1 <= n THEN n - (e + 1) + 1 ELSE 0
          /\ \A i \in 1..(n - (e + 1) + 1) : kept[i] = session_order[(e + 1) + i - 1]
      BY <1>1, <2>3, <3>1, SubSeqProperties DEF KeylogInv
    <3> QED BY <1>1, <2>3, <3>2
  <2> HIDE DEF kept
  <2>5. /\ session_order' \in Seq(Surveys)
        /\ Len(session_order') = n - e + 1
        /\ \A i \in 1..(n - e) : session_order'[i] = session_order[e + i]
        /\ session_order'[n - e + 1] = s
    BY <1>1, <2>2, <2>3, <2>4, AppendProperties
  <2>6. Len(session_order') <= MaxSessions
    BY <1>1, <2>3, <2>5
  <2>7. \A i \in 1..n : session_order[i] \in Held /\ session_order[i] # s
    BY <1>4 DEF KeylogInv, Oldest
  <2>8. ASSUME NEW i \in 1..Len(session_order'), NEW j \in 1..Len(session_order'),
               session_order'[i] = session_order'[j]
        PROVE  i = j
    <3>1. CASE i \in 1..(n - e) /\ j \in 1..(n - e)
      <4>1. session_order[e + i] = session_order[e + j]
        BY <2>5, <2>8, <3>1
      <4>2. e + i \in 1..n /\ e + j \in 1..n
        BY <1>1, <2>3, <3>1
      <4>3. e + i = e + j
        BY <4>1, <4>2 DEF KeylogInv
      <4> QED BY <1>1, <2>3, <4>3
    <3>2. CASE i \in 1..(n - e) /\ j = n - e + 1
      <4>1. session_order[e + i] = s /\ e + i \in 1..n
        BY <1>1, <2>3, <2>5, <2>8, <3>2
      <4> QED BY <2>7, <4>1
    <3>3. CASE i = n - e + 1 /\ j \in 1..(n - e)
      <4>1. session_order[e + j] = s /\ e + j \in 1..n
        BY <1>1, <2>3, <2>5, <2>8, <3>3
      <4> QED BY <2>7, <4>1
    <3>4. n - e \in Nat /\ i \in 1..(n - e + 1) /\ j \in 1..(n - e + 1)
      BY <1>1, <2>3, <2>5
    <3> HIDE DEF n
    <3>5. /\ i \in 1..(n - e) \/ i = n - e + 1
          /\ j \in 1..(n - e) \/ j = n - e + 1
      BY <3>4
    <3> QED BY <3>1, <3>2, <3>3, <3>5
  <2>9. Held' = (Held \ Oldest(e)) \cup {s}
    BY <1>1, <2>2 DEF Held, KeylogInv
  <2>10. Oldest(Len(session_order))' = (Held \ Oldest(e)) \cup {s}
    <3>1. Oldest(Len(session_order))' = {session_order'[i] : i \in 1..(n - e + 1)}
      BY <2>5 DEF Oldest
    <3>2. ASSUME NEW i \in 1..(n - e)
          PROVE  session_order'[i] \in Held \ Oldest(e)
      <4>1. session_order'[i] = session_order[e + i] /\ e + i \in 1..n
        BY <1>1, <2>3, <2>5
      <4>2. ASSUME NEW j \in 1..e, session_order[e + i] = session_order[j] PROVE FALSE
        <5>1. j \in 1..n /\ j # e + i
          BY <1>1, <2>3
        <5> QED BY <4>1, <4>2, <5>1 DEF KeylogInv
      <4> QED BY <2>7, <4>1, <4>2 DEF Oldest
    <3>3. ASSUME NEW x \in Held \ Oldest(e)
          PROVE  \E i \in 1..(n - e) : session_order'[i] = x
      <4>1. PICK j \in 1..n : session_order[j] = x
        BY DEF KeylogInv, Oldest
      <4>2. j \notin 1..e
        BY <4>1 DEF Oldest
      <4>3. j - e \in 1..(n - e) /\ e + (j - e) = j
        BY <1>1, <2>3, <4>2
      <4>4. session_order'[j - e] = x
        BY <2>5, <4>1, <4>3
      <4> QED BY <4>3, <4>4
    <3>4. 1..(n - e + 1) = 1..(n - e) \cup {n - e + 1}
      BY <1>1, <2>3
    <3> QED BY <2>5, <3>1, <3>2, <3>3, <3>4
  <2>11. /\ Stored' = Stored \cup {s}
         /\ IsFiniteSet(Stored')
         /\ Cardinality(Stored') = IF s \in Stored THEN Cardinality(Stored)
                                   ELSE Cardinality(Stored) + 1
         /\ Cardinality(Stored) \in Nat
    <3>1. Stored' = Stored \cup {s}
      BY <2>2 DEF Stored
    <3>2. IsFiniteSet(Stored)
      BY DEF KeylogInv
    <3> QED BY <3>1, <3>2, FS_AddElement, FS_CardinalityType
  <2>12. ASSUME Cardinality(Stored') <= MaxSessions
         PROVE  \A d \in captured' : d \in sessions'[SurveyOf[d]]
    <3>1. Cardinality(Stored) <= MaxSessions
      BY <1>1, <2>11, <2>12
    <3>2. \A d \in captured : d \in sessions[SurveyOf[d]] /\ SurveyOf[d] \in Held
      BY <3>1, StoresAssumption DEF KeylogInv, Held
    <3>3. Stored = Held
      BY <3>2 DEF Stored, KeylogInv
    <3>4. n < MaxSessions
      BY <1>1, <1>4, <2>11, <2>12, <3>3, OrderCounts
    <3>5. e = 0 /\ Oldest(e) = {}
      BY <2>1, <3>4 DEF Oldest
    <3>6. \A d \in captured : SurveyOf[d] # s
      BY <1>4, <3>2
    <3> QED BY <1>1, <2>2, <3>2, <3>5, <3>6, StoresAssumption DEF KeylogInv
  <2>13. sessions' \in [Surveys -> SUBSET Conns] /\ captured' \in SUBSET Conns
    BY <1>1, <2>2 DEF KeylogInv
  <2>14. \A d \in captured' : SurveyOf[d] # EmptyId
    BY <1>4, <2>2 DEF KeylogInv
  <2>15. Held' \subseteq Stored'
    BY <2>9, <2>11 DEF KeylogInv
  <2> QED BY <2>5, <2>6, <2>8, <2>9, <2>10, <2>11, <2>12, <2>13, <2>14, <2>15 DEF KeylogInv
<1> QED BY <1>2, <1>3, <1>4

\* The keys' order list, the map and the keys stored since the last clear agree
\* at every step of the server (dtls_keylog.rs).
LEMMA KeylogInvariant == Spec => []KeylogInv
<1>1. Init => KeylogInv
  <2> SUFFICES ASSUME Init PROVE KeylogInv
    OBVIOUS
  <2>1. Held = {} /\ Stored = {} /\ Oldest(Len(session_order)) = {}
    BY DEF Init, Held, Stored, Oldest
  <2> QED BY <2>1, FS_EmptySet, StoresAssumption DEF Init, KeylogInv
<1>2. KeylogInv /\ [Next]_vars => KeylogInv'
  <2> SUFFICES ASSUME KeylogInv, [Next]_vars PROVE KeylogInv'
    OBVIOUS
  <2>1. ASSUME UNCHANGED keylogVars PROVE KeylogInv'
    BY <2>1 DEF keylogVars, KeylogInv, Held, Stored, Oldest
  <2>2. ASSUME NEW c \in Conns, NEW available \in BOOLEAN, CaptureKeys(c, available)
        PROVE  KeylogInv'
    BY <2>1, <2>2, AddEntryKeeps DEF CaptureKeys
  <2>3. CASE ClearKeylog
    <3>1. /\ sessions' = [s \in Surveys |-> {}]
          /\ session_order' = <<>>
          /\ captured' = {}
      BY <2>3 DEF ClearKeylog
    <3>2. Held' = {} /\ Stored' = {} /\ Oldest(Len(session_order))' = {}
      BY <3>1 DEF Held, Stored, Oldest
    <3> QED BY <3>1, <3>2, FS_EmptySet, StoresAssumption DEF KeylogInv
  <2>4. CASE UNCHANGED vars
    BY <2>1, <2>4 DEF vars, keylogVars
  <2>5. ASSUME CaptureNext, ~ClearKeylog,
               ~\E c \in Conns, available \in BOOLEAN : CaptureKeys(c, available)
        PROVE  KeylogInv'
    BY <2>1, <2>5 DEF CaptureNext, CaptureFrame, StorePacket, ClearCapture, RegisterSession
  <2>6. CASE TracingNext
    BY <2>1, <2>6 DEF TracingNext, BuildLine, AddLine, ClearTracing
  <2> QED BY <2>2, <2>3, <2>4, <2>5, <2>6 DEF Next
<1> QED BY <1>1, <1>2, PTL DEF Spec

\* A packet is only ever tagged with a survey that was registered before, and a
\* registered survey stays registered (packet_capture.rs, SessionRegistry).
LEMMA TagsInvariant == Spec => []TagsInv
<1>1. Init => TagsInv
  BY DEF Init, TagsInv
<1>2. CaptureInv /\ TagsInv /\ [Next]_vars => TagsInv'
  <2> SUFFICES ASSUME CaptureInv, TagsInv, [Next]_vars PROVE TagsInv'
    OBVIOUS
  <2>1. ASSUME NEW f \in Frames, CaptureFrame(f) PROVE TagsInv'
    <3>1. ExtractSessionId(f) \in registered_ids \cup {None}
      <4>1. f \in FrameFields
        BY StoresAssumption
      <4>2. /\ \A a \in Addresses \cup {None} : Lookup(a) \in registered_ids \cup {None}
            /\ LookupByServerPort(f) = None
        BY DEF Lookup, TagsInv, LookupByServerPort
      <4>3. CASE ~f.whole \/ f.proto = "tcp"
        BY <4>3 DEF ExtractSessionId, ParseAddresses
      <4>4. CASE f.whole /\ f.proto # "tcp"
        <5>1. PICK a \in Addresses \cup {None}, b \in Addresses \cup {None} :
                ParseAddresses(f) = <<a, b>>
          BY <4>1, <4>4 DEF ParseAddresses, FrameFields, PortZero
        <5>2. LookupByEither(a, b) \in registered_ids \cup {None}
          BY <4>2 DEF LookupByEither
        <5>3. Lookup(EmbeddedDestination(f)) \in registered_ids \cup {None}
          BY <4>1, <4>2 DEF EmbeddedDestination, FrameFields
        <5> QED BY <4>2, <5>1, <5>2, <5>3 DEF ExtractSessionId
      <4> QED BY <4>3, <4>4
    <3> QED BY <2>1, <3>1 DEF CaptureFrame, TagsInv, registryVars
  <2>2. CASE StorePacket
    <3>1. /\ tagged.survey \in registered_ids \cup {None}
          /\ packets' = IF Len(packets) < MaxPackets THEN Append(packets, tagged)
                        ELSE [packets EXCEPT ![write_pos + 1] = tagged]
          /\ tagged' = None
          /\ UNCHANGED registryVars
      BY <2>2 DEF StorePacket, PushPacket, TagsInv
    <3>2. packets \in Seq(Packets) /\ tagged \in Packets
      BY <2>2 DEF StorePacket, CaptureInv, CaptureType
    <3>3. \A i \in 1..Len(packets') : packets'[i].survey \in registered_ids \cup {None}
      <4>1. CASE Len(packets) < MaxPackets
        <5>1. packets' = Append(packets, tagged)
          BY <3>1, <4>1
        <5>2. /\ Len(packets') = Len(packets) + 1
              /\ \A i \in 1..Len(packets) : packets'[i] = packets[i]
              /\ packets'[Len(packets) + 1] = tagged
          BY <3>2, <5>1, AppendProperties
        <5> QED BY <3>1, <3>2, <5>2 DEF TagsInv
      <4>2. CASE ~(Len(packets) < MaxPackets)
        <5>1. packets' = [packets EXCEPT ![write_pos + 1] = tagged]
          BY <3>1, <4>2
        <5>2. write_pos + 1 \in 1..Len(packets)
          BY <4>2, StoresAssumption DEF CaptureInv, CaptureType
        <5>3. /\ Len(packets') = Len(packets)
              /\ \A j \in 1..Len(packets) :
                   packets'[j] = IF j = write_pos + 1 THEN tagged ELSE packets[j]
          BY <3>2, <5>1, <5>2, ExceptSeq
        <5> QED BY <3>1, <5>3 DEF TagsInv
      <4> QED BY <4>1, <4>2
    <3> QED BY <3>1, <3>3 DEF TagsInv, registryVars
  <2>3. CASE ClearCapture
    BY <2>3 DEF ClearCapture, TagsInv, registryVars
  <2>4. ASSUME NEW c \in Conns, NEW known \in BOOLEAN, RegisterSession(c, known) PROVE TagsInv'
    BY <2>4, StoresAssumption
    DEF RegisterSession, TagsInv, CaptureInv, CaptureType, registryVars, captureVars
  <2>5. ASSUME UNCHANGED <<captureVars, registryVars>> PROVE TagsInv'
    BY <2>5 DEF TagsInv, captureVars, registryVars
  <2>6. CASE \E c \in Conns, available \in BOOLEAN : CaptureKeys(c, available)
    BY <2>5, <2>6 DEF CaptureKeys
  <2>7. CASE ClearKeylog
    BY <2>5, <2>7 DEF ClearKeylog
  <2>8. CASE TracingNext
    BY <2>5, <2>8 DEF TracingNext, BuildLine, AddLine, ClearTracing
  <2>9. CASE UNCHANGED vars
    BY <2>5, <2>9 DEF vars, captureVars, registryVars
  <2> QED BY <2>1, <2>2, <2>3, <2>4, <2>6, <2>7, <2>8, <2>9 DEF Next, CaptureNext
<1> QED BY <1>1, <1>2, CaptureInvariant, PTL DEF Spec

\* What get_packets_for_session finds is tagged with the survey and in the ring.
LEMMA FoundIsInRing ==
  ASSUME CaptureInv, NEW s \in Surveys, GetPacketsForSession(s) # <<>>
  PROVE  \E i \in 1..Len(packets) : packets[i].survey = s
<1> DEFINE g == GetPackets
<1>1. g \in Seq(Packets) /\ Len(packets) \in Nat
  BY GetPacketsType DEF CaptureInv, CaptureType
<1>2. \A j \in 1..Len(g) : \E i \in 1..Len(packets) : g[j] = packets[i]
  <2>1. CASE Len(packets) < MaxPackets
    BY <2>1 DEF GetPackets
  <2>2. CASE ~(Len(packets) < MaxPackets)
    <3>1. write_pos \in 0..Len(packets) /\ g = Unrolled(packets, write_pos)
      <4>1. write_pos \in 0..Len(packets)
        BY <2>2, StoresAssumption DEF CaptureInv, CaptureType
      <4> QED BY <2>2, <4>1 DEF GetPackets, Unrolled
    <3>2. /\ Len(g) = Len(packets)
          /\ \A i \in 1..Len(packets) :
               g[i] = IF i <= Len(packets) - write_pos THEN packets[write_pos + i]
                      ELSE packets[i - (Len(packets) - write_pos)]
      BY <3>1, Rotation DEF CaptureInv, CaptureType
    <3>3. ASSUME NEW j \in 1..Len(g)
          PROVE  \E i \in 1..Len(packets) : g[j] = packets[i]
      <4>1. CASE j <= Len(packets) - write_pos
        <5>1. write_pos + j \in 1..Len(packets) /\ g[j] = packets[write_pos + j]
          BY <1>1, <3>1, <3>2, <4>1
        <5> QED BY <5>1
      <4>2. CASE ~(j <= Len(packets) - write_pos)
        <5>1. /\ j - (Len(packets) - write_pos) \in 1..Len(packets)
              /\ g[j] = packets[j - (Len(packets) - write_pos)]
          BY <1>1, <3>1, <3>2, <4>2
        <5> QED BY <5>1
      <4> QED BY <4>1, <4>2
    <3> QED BY <3>3
  <2> QED BY <2>1, <2>2
<1> HIDE DEF g
<1>3. \E j \in 1..Len(g) : g[j].survey = s
  <2>1. GetPacketsForSession(s) = [j \in {i \in DOMAIN g : g[i].survey = s} |-> g[j]]
    BY DEF GetPacketsForSession, RestrictValues, Restrict, g
  <2>2. {i \in DOMAIN g : g[i].survey = s} # {}
    <3>1. ASSUME {i \in DOMAIN g : g[i].survey = s} = {} PROVE FALSE
      BY <2>1, <3>1
    <3> QED BY <3>1
  <2> QED BY <1>1, <2>2
<1> QED BY <1>2, <1>3

\* For any limit on sessions, any ring and any number of connections: what the
\* analyst's list offers can be downloaded, and nothing stored within the limit
\* is missing from it (dtls_keylog.rs, analyst_api.rs).
THEOREM DownloadsAreOffered == Spec => []DownloadsOffered
<1>1. CaptureInv /\ KeylogInv /\ TagsInv => DownloadsOffered
  <2> SUFFICES ASSUME CaptureInv, KeylogInv, TagsInv PROVE DownloadsOffered
    OBVIOUS
  <2>1. /\ Oldest(Len(session_order)) = Held
        /\ Len(session_order) = Cardinality(Held)
        /\ Len(session_order) <= MaxSessions
    BY OrderCounts DEF KeylogInv
  <2>2. ASSUME Cardinality(Stored) <= MaxSessions, NEW c \in captured
        PROVE  /\ c \in sessions[SurveyOf[c]]
               /\ HasKeylog(SurveyOf[c])
               /\ KeylogDownload(SurveyOf[c]) = "ok"
    <3>1. c \in sessions[SurveyOf[c]] /\ SurveyOf[c] # EmptyId
      BY <2>2 DEF KeylogInv
    <3> QED BY <3>1 DEF HasKeylog, KeylogDownload
  <2>3. ASSUME NEW s \in Surveys, PcapDownload(s) # <<>> PROVE HasPcap(s)
    <3>1. GetPacketsForSession(s) # <<>>
      BY <2>3 DEF PcapDownload
    <3>2. PICK i \in 1..Len(packets) : packets[i].survey = s
      BY <3>1, FoundIsInRing
    <3>3. s # None
      BY StoresAssumption
    <3> QED BY <3>2, <3>3 DEF TagsInv, HasPcap
  <2> QED BY <2>1, <2>2, <2>3 DEF DownloadsOffered, Stored
<1> QED BY <1>1, CaptureInvariant, KeylogInvariant, TagsInvariant, PTL
=============================================================================
