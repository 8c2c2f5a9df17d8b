-------------------------- MODULE MeasurementProofs --------------------------
(***************************************************************************)
(* Proofs about the measurements of a session, for any number of starts,   *)
(* for any number of probes, however they are delayed, lost or overtaken,  *)
(* for any lengths of the windows and any difference of the two clocks.    *)
(*                                                                         *)
(* Active probe streams are always supervised.  The deviations reported    *)
(* stay within the spread of the true delays: the baseline is an average   *)
(* of such delays, all of them off by the same difference of the clocks.   *)
(***************************************************************************)
EXTENDS ProbeStreams, ProbeMetrics, SequenceTheorems, FiniteSetTheorems,
        WellFoundedInduction, TLAPS

-----------------------------------------------------------------------------
(* The tasks of a session *)

\* What the handler is doing agrees with the number of starts.
HandlerCounts ==
  /\ handler \in {"StartServerTraffic", "StartProbeStreams"} => started < MaxStarts
  /\ handler \in {"spawn_traffic", "spawn_streams"} => started > 0

\* The inductive invariant: TypeOK and HandlerCounts give the number of the
\* start whose reporter is spawned.
StreamsInv == TypeOK /\ HandlerCounts /\ StreamsSupervised

\* A session starts with both flags down.
LEMMA InitInv == Init => StreamsInv
<1> SUFFICES ASSUME Init PROVE StreamsInv
  OBVIOUS
<1> USE StreamsAssumption DEF Init
<1>1. conn \in {"up", "down", "closed"} /\ pending \in 0..MaxPending /\ open \in SUBSET Channels
  OBVIOUS
<1>2. limit \in {"none", "running", "over"} /\ started \in 0..MaxStarts
  OBVIOUS
<1>3. handler \in Messages \cup {"idle", "spawn_traffic", "spawn_streams"}
  OBVIOUS
<1>4. /\ sender \in [Starts -> SenderLabels]
      /\ prober \in [Starts -> SenderLabels]
      /\ reporter \in [Starts -> ReporterLabels]
  BY DEF SenderLabels, ReporterLabels
<1>5. HandlerCounts /\ StreamsSupervised
  BY DEF HandlerCounts, StreamsSupervised
<1>6. traffic \in BOOLEAN /\ streams \in BOOLEAN /\ late \in BOOLEAN
  OBVIOUS
<1> QED BY <1>1, <1>2, <1>3, <1>4, <1>5, <1>6 DEF StreamsInv, TypeOK

\* The steps of the control channel's handler keep the invariant: a start
\* leaves the handler on its way to the spawn, and the spawned reporter takes
\* over from it.
LEMMA HandlerKeeps ==
  ASSUME StreamsInv, HandlerRuns \/ \E m \in Messages : Receive(m)
  PROVE  StreamsInv'
<1> USE StreamsAssumption DEF StreamsInv, HandlerCounts, TypeOK, Messages, Starts, Alive,
        StreamsSupervised, connVars, taskVars, SenderLabels, ReporterLabels
<1>1. CASE \E m \in Messages : Receive(m)
  BY <1>1 DEF Receive
<1>2. CASE StartServerTraffic
  BY <1>2 DEF StartServerTraffic
<1>3. CASE SpawnSenders
  BY <1>3 DEF SpawnSenders
<1>4. CASE StopServerTraffic
  BY <1>4 DEF StopServerTraffic
<1>5. CASE StartProbeStreams
  BY <1>5 DEF StartProbeStreams
<1>6. CASE SpawnStreams
  <2>1. started \in Starts
    BY <1>6 DEF SpawnStreams
  <2>2. reporter'[started] = "tick"
    BY <1>6, <2>1 DEF SpawnStreams
  <2>3. StreamsSupervised'
    BY <2>1, <2>2
  <2>4. TypeOK' /\ HandlerCounts'
    BY <1>6, <2>1 DEF SpawnStreams
  <2> QED BY <2>3, <2>4
<1>7. CASE StopProbeStreams
  BY <1>7 DEF StopProbeStreams
<1> QED BY <1>1, <1>2, <1>3, <1>4, <1>5, <1>6, <1>7 DEF HandlerRuns

\* The senders keep it: they leave the reporters alone and at most clear the
\* flag.
LEMMA SendersKeep ==
  ASSUME StreamsInv, NEW n \in Starts, SenderRuns(n) \/ ProberRuns(n)
  PROVE  StreamsInv'
<1> USE StreamsAssumption DEF StreamsInv, HandlerCounts, TypeOK, Messages, Starts, Alive,
        StreamsSupervised, connVars, taskVars, SenderLabels, ReporterLabels
<1>1. CASE SenderRuns(n)
  BY <1>1 DEF SenderRuns, SenderTick, SenderChannel, SenderSend, Sender
<1>2. CASE ProberTick(n)
  BY <1>2 DEF ProberTick
<1>3. CASE ProberChannel(n) \/ ProberSend(n)
  BY <1>3 DEF ProberChannel, ProberSend, Prober
<1> QED BY <1>1, <1>2, <1>3 DEF ProberRuns

\* A reporter that goes on stays alive; one that ends has seen the flag down or
\* clears it.
LEMMA ReporterKeeps ==
  ASSUME StreamsInv, NEW n \in Starts, ReporterRuns(n)
  PROVE  StreamsInv'
<1> USE StreamsAssumption DEF StreamsInv, HandlerCounts, TypeOK, Messages, Starts, Alive,
        StreamsSupervised, connVars, taskVars, SenderLabels, ReporterLabels, Reporter
<1>1. CASE ReporterTick(n)
  BY <1>1 DEF ReporterTick
<1>2. CASE ReporterChannel(n)
  BY <1>2 DEF ReporterChannel
<1>3. CASE ReporterTime(n)
  BY <1>3 DEF ReporterTime
<1>4. CASE ReporterClear(n)
  BY <1>4 DEF ReporterClear
<1>5. CASE ReporterReport(n)
  BY <1>5 DEF ReporterReport
<1> QED BY <1>1, <1>2, <1>3, <1>4, <1>5 DEF ReporterRuns

\* The connection, its callback and the clock keep it.
LEMMA EnvironmentKeeps ==
  ASSUME StreamsInv,
         \/ \E to \in {"down", "closed"} : ConnectionLost(to)
         \/ ConnectionRecovers
         \/ StopActivities
         \/ \E ch \in Channels : ChannelCloses(ch)
         \/ Expire
  PROVE  StreamsInv'
<1> USE StreamsAssumption DEF StreamsInv, HandlerCounts, TypeOK, StreamsSupervised, connVars, taskVars
<1>1. CASE \E to \in {"down", "closed"} : ConnectionLost(to)
  BY <1>1 DEF ConnectionLost
<1>2. CASE ConnectionRecovers
  BY <1>2 DEF ConnectionRecovers
<1>3. CASE StopActivities
  <2>1. pending' \in 0..MaxPending
    BY <1>3 DEF StopActivities
  <2>2. ~streams' /\ ~traffic' /\ streams' \in BOOLEAN /\ traffic' \in BOOLEAN
    BY <1>3 DEF StopActivities
  <2>3. UNCHANGED <<conn, open, limit, handler, started, sender, prober, reporter, late>>
    BY <1>3 DEF StopActivities
  <2> QED BY <2>1, <2>2, <2>3
<1>4. CASE \E ch \in Channels : ChannelCloses(ch)
  BY <1>4 DEF ChannelCloses
<1>5. CASE Expire
  BY <1>5 DEF Expire
<1> QED BY <1>1, <1>2, <1>3, <1>4, <1>5

\* The invariant holds in every state, for any number of starts.
THEOREM StreamsInvariant == Spec => []StreamsInv
<1>1. Init => StreamsInv
  BY InitInv
<1>2. StreamsInv /\ [Next]_vars => StreamsInv'
  <2> SUFFICES ASSUME StreamsInv, [Next]_vars PROVE StreamsInv'
    OBVIOUS
  <2>1. CASE Next
    BY <2>1, HandlerKeeps, SendersKeep, ReporterKeeps, EnvironmentKeeps DEF Next
  <2>2. CASE UNCHANGED vars
    BY <2>2 DEF vars, connVars, taskVars, StreamsInv, HandlerCounts, TypeOK,
       StreamsSupervised, Alive
  <2> QED BY <2>1, <2>2
<1> QED BY <1>1, <1>2, PTL DEF Spec

\* While probe_streams_active is set a stats reporter runs or is about to be
\* spawned: the control channel and the time limit are always being watched,
\* however many starts, stops and lost connections overlap.
THEOREM AlwaysSupervised == Spec => []StreamsSupervised
<1>1. StreamsInv => StreamsSupervised
  BY DEF StreamsInv
<1> QED BY <1>1, StreamsInvariant, PTL

-----------------------------------------------------------------------------
(* The state of the metrics *)

\* The probes on their way, the entries of the windows and the figures reported.
Probes == [kind : {"measurement", "probe", "echo", "plain"}, to : Ends, seq : Nat, sent : Int]
Entries == [seq : Nat, sent : Int, at : Int]
Reports == [lost : Nat, reorders : Nat, lo : Nat, hi : Nat]

\* The type of the state: numbers of probes and counts are natural, and the
\* clocks of the two ends may be negative against one another.
MetricsType ==
  /\ now \in Nat /\ offset \in Int
  /\ flight \in SUBSET Probes
  /\ active \in [Ends -> BOOLEAN] /\ starting \in BOOLEAN
  /\ next_seq \in [Ends \cup {"traffic", "plain"} -> Nat]
  /\ sent_probes \in Seq([seq : Nat, at : Int])
  /\ window \in [Windows -> Seq(Entries)]
  /\ baseline \in [Ends -> [sum : Int, count : Nat]]
  /\ feedback \in [Ends -> [highest : Nat, count : Nat, reorders : Nat]]
  /\ report \in [Windows -> [Lengths -> Reports \cup {NoReport}]]
  /\ arrived \in [Windows -> SUBSET Nat]
  /\ overtaken \in SUBSET Windows
  /\ delays \in [Ends -> SUBSET Int]

\* The window a probe on its way is meant for.
Target(p) == IF p.kind = "measurement" THEN p.to
             ELSE IF p.kind = "probe" THEN "received"
             ELSE IF p.kind = "echo" THEN "echoed" ELSE "plain"

-----------------------------------------------------------------------------
(* Numbers *)

\* A set of natural numbers that is not empty has a least element.
LEMMA LeastNat ==
  ASSUME NEW T \in SUBSET Nat, T # {}
  PROVE  \E n \in T : \A m \in T : n <= m
<1> DEFINE R == {ss \in Nat \X Nat : ss[1] < ss[2]}
<1>1. IsWellFoundedOn(R, Nat)
  BY NatLessThanWellFounded DEF OpToRel
<1>2. PICK n \in T : \A m \in T : ~(<<m, n>> \in R)
  BY <1>1, WFMin
<1>3. ASSUME NEW m \in T, m < n
      PROVE  FALSE
  <2>1. <<m, n>> \in Nat \X Nat
    OBVIOUS
  <2>2. <<m, n>> \in R
    BY <2>1, <1>3
  <2> QED BY <2>2, <1>2
<1> QED BY <1>3

\* Min and Max of a finite set of numbers are what they should be: of two
\* elements, the smaller one has fewer below it.
LEMMA FiniteMin ==
  ASSUME NEW S \in SUBSET Int, IsFiniteSet(S), S # {}
  PROVE  Min(S) \in S /\ \A x \in S : Min(S) <= x
<1> DEFINE below == [x \in S |-> Cardinality({y \in S : y <= x})]
           T == {below[x] : x \in S}
<1>1. \A x \in S : IsFiniteSet({y \in S : y <= x}) /\ below[x] \in Nat
  BY FS_Subset, FS_CardinalityType
<1>2. T \in SUBSET Nat /\ T # {}
  BY <1>1
<1>3. PICK n \in T : \A m \in T : n <= m
  BY <1>2, LeastNat
<1>4. PICK x \in S : n = below[x]
  OBVIOUS
<1>5. x \in Int /\ \A y \in S : y \in Int
  OBVIOUS
<1>6. \A y \in S : below[y] \in T
  OBVIOUS
<1> HIDE DEF T
<1>7. ASSUME NEW y \in S, y < x
      PROVE  FALSE
  <2> DEFINE A == {z \in S : z <= x}
             B == {z \in S : z <= y}
  <2>1. B \in SUBSET A /\ x \in A /\ x \notin B
    <3>1. ASSUME NEW z \in S, z <= y PROVE z <= x
      BY <1>5, <1>7, <3>1
    <3>2. x <= x /\ ~(x <= y)
      BY <1>5, <1>7
    <3> QED BY <3>1, <3>2
  <2>2. IsFiniteSet(A) /\ below[x] = Cardinality(A) /\ below[y] = Cardinality(B)
    BY <1>1
  <2>3. /\ below[x] \in Nat /\ below[y] \in Nat
        /\ below[x] <= below[y]
    BY <1>1, <1>3, <1>4, <1>6
  <2> HIDE DEF A, B, below
  <2>4. /\ Cardinality(B) <= Cardinality(A)
        /\ Cardinality(A) = Cardinality(B) => A = B
    BY <2>1, <2>2, FS_Subset
  <2>5. Cardinality(A) = Cardinality(B)
    BY <2>2, <2>3, <2>4
  <2> QED BY <2>1, <2>4, <2>5
<1>8. x \in S /\ \A y \in S : x <= y
  BY <1>5, <1>7
<1> QED BY <1>8 DEF Min

\* The same of Max, by the number of elements above.
LEMMA FiniteMax ==
  ASSUME NEW S \in SUBSET Int, IsFiniteSet(S), S # {}
  PROVE  Max(S) \in S /\ \A x \in S : x <= Max(S)
<1> DEFINE above == [x \in S |-> Cardinality({y \in S : x <= y})]
           T == {above[x] : x \in S}
<1>1. \A x \in S : IsFiniteSet({y \in S : x <= y}) /\ above[x] \in Nat
  BY FS_Subset, FS_CardinalityType
<1>2. T \in SUBSET Nat /\ T # {}
  BY <1>1
<1>3. PICK n \in T : \A m \in T : n <= m
  BY <1>2, LeastNat
<1>4. PICK x \in S : n = above[x]
  OBVIOUS
<1>5. x \in Int /\ \A y \in S : y \in Int
  OBVIOUS
<1>6. \A y \in S : above[y] \in T
  OBVIOUS
<1> HIDE DEF T
<1>7. ASSUME NEW y \in S, x < y
      PROVE  FALSE
  <2> DEFINE A == {z \in S : x <= z}
             B == {z \in S : y <= z}
  <2>1. B \in SUBSET A /\ x \in A /\ x \notin B
    <3>1. ASSUME NEW z \in S, y <= z PROVE x <= z
      BY <1>5, <1>7, <3>1
    <3>2. x <= x /\ ~(y <= x)
      BY <1>5, <1>7
    <3> QED BY <3>1, <3>2
  <2>2. IsFiniteSet(A) /\ above[x] = Cardinality(A) /\ above[y] = Cardinality(B)
    BY <1>1
  <2>3. /\ above[x] \in Nat /\ above[y] \in Nat
        /\ above[x] <= above[y]
    BY <1>1, <1>3, <1>4, <1>6
  <2> HIDE DEF A, B, above
  <2>4. /\ Cardinality(B) <= Cardinality(A)
        /\ Cardinality(A) = Cardinality(B) => A = B
    BY <2>1, <2>2, FS_Subset
  <2>5. Cardinality(A) = Cardinality(B)
    BY <2>2, <2>3, <2>4
  <2> QED BY <2>1, <2>4, <2>5
<1>8. x \in S /\ \A y \in S : y <= x
  BY <1>5, <1>7
<1> QED BY <1>8 DEF Max

\* The larger of two numbers.
LEMMA MaxOfTwo ==
  ASSUME NEW a \in Int, NEW b \in Int
  PROVE  Max({a, b}) = IF a <= b THEN b ELSE a
  BY DEF Max

-----------------------------------------------------------------------------
(* Windows *)

\* What the entries of a window hold.
LEMMA EntryFields ==
  ASSUME NEW win \in Seq(Entries), NEW i \in 1..Len(win)
  PROVE  /\ win[i] \in Entries
         /\ win[i].seq \in Nat /\ win[i].sent \in Int /\ win[i].at \in Int
<1>1. win[i] \in Entries
  OBVIOUS
<1> QED BY <1>1 DEF Entries

\* What the filter of a report keeps.
LEMMA RecentFacts ==
  ASSUME NEW win \in Seq(Entries), NEW c \in Int
  PROVE  /\ DOMAIN Recent(win, c) = {i \in 1..Len(win) : win[i].at >= c}
         /\ \A i \in DOMAIN Recent(win, c) : Recent(win, c)[i] = win[i]
         /\ IsFiniteSet(DOMAIN Recent(win, c))
         /\ Recent(win, c) = <<>> <=> DOMAIN Recent(win, c) = {}
         /\ Cardinality(DOMAIN Recent(win, c)) \in Nat
<1> DEFINE D == {i \in 1..Len(win) : win[i].at >= c}
<1>1. Recent(win, c) = [i \in D |-> win[i]]
  BY DEF Recent, RestrictValues, Restrict
<1>2. IsFiniteSet(D)
  <2>1. Len(win) \in Nat
    OBVIOUS
  <2>2. IsFiniteSet(1..Len(win))
    BY <2>1, FS_Interval
  <2> QED BY <2>2, FS_Subset
<1>3. Cardinality(D) \in Nat
  BY <1>2, FS_CardinalityType
<1> HIDE DEF D
<1>4. DOMAIN Recent(win, c) = D /\ \A i \in D : Recent(win, c)[i] = win[i]
  BY <1>1
<1>5. Recent(win, c) = <<>> <=> D = {}
  BY <1>1
<1> QED BY <1>2, <1>3, <1>4, <1>5 DEF D

\* Popping old entries leaves the end of a window.
LEMMA PrunedIsEnd ==
  ASSUME NEW T, NEW win \in Seq(T), NEW c \in Int
  PROVE  /\ Pruned(win, c) \in Seq(T)
         /\ \E k \in 0..Len(win) : Pruned(win, c) = SubSeq(win, k + 1, Len(win))
<1> DEFINE kept == {i \in DOMAIN win : win[i].at >= c}
<1>1. Len(win) \in Nat /\ DOMAIN win = 1..Len(win)
  OBVIOUS
<1>2. CASE kept = {}
  <2>1. Pruned(win, c) = <<>>
    BY <1>2 DEF Pruned
  <2>2. Len(win) \in 0..Len(win) /\ SubSeq(win, Len(win) + 1, Len(win)) = <<>>
    BY <1>1, SubSeqEmpty
  <2> QED BY <2>1, <2>2
<1>3. CASE kept # {}
  <2>1. kept \in SUBSET Int /\ kept \subseteq 1..Len(win)
    BY <1>1
  <2>2. Min(kept) \in kept
    <3> HIDE DEF kept
    <3>1. IsFiniteSet(1..Len(win))
      BY <1>1, FS_Interval
    <3>2. IsFiniteSet(kept)
      BY <2>1, <3>1, FS_Subset
    <3> QED BY <1>3, <2>1, <3>2, FiniteMin
  <2>3. PICK m \in 1..Len(win) : m = Min(kept)
    BY <2>1, <2>2
  <2>4. Pruned(win, c) = SubSeq(win, m, Len(win))
    BY <1>3, <2>3 DEF Pruned
  <2>5. m - 1 \in 0..Len(win) /\ (m - 1) + 1 = m
    BY <1>1
  <2>6. \A i \in m..Len(win) : win[i] \in T
    BY <1>1
  <2>7. SubSeq(win, m, Len(win)) \in Seq(T)
    BY <1>1, <2>6, SubSeqProperties
  <2> QED BY <2>4, <2>5, <2>7
<1> QED BY <1>2, <1>3

\* The same for the entries of a window, by position.
LEMMA PrunedWindow ==
  ASSUME NEW win \in Seq(Entries), NEW c \in Int
  PROVE  \E k \in 0..Len(win) :
           /\ Pruned(win, c) \in Seq(Entries)
           /\ Len(Pruned(win, c)) = Len(win) - k
           /\ \A i \in 1..(Len(win) - k) : Pruned(win, c)[i] = win[k + i]
<1>1. Pruned(win, c) \in Seq(Entries)
  BY PrunedIsEnd
<1>2. PICK k \in 0..Len(win) : Pruned(win, c) = SubSeq(win, k + 1, Len(win))
  BY PrunedIsEnd
<1>3. Len(win) \in Nat /\ \A i \in (k + 1)..Len(win) : win[i] \in Entries
  OBVIOUS
<1>4. /\ Len(Pruned(win, c)) = IF k + 1 <= Len(win) THEN Len(win) - (k + 1) + 1 ELSE 0
      /\ \A i \in 1..(Len(win) - (k + 1) + 1) : Pruned(win, c)[i] = win[(k + 1) + i - 1]
  BY <1>2, <1>3, SubSeqProperties
<1>5. /\ Len(win) - (k + 1) + 1 = Len(win) - k
      /\ \A i \in 1..(Len(win) - k) : (k + 1) + i - 1 = k + i
      /\ k + 1 <= Len(win) \/ Len(win) - k = 0
  BY <1>3
<1>6. /\ Len(Pruned(win, c)) = Len(win) - k
      /\ \A i \in 1..(Len(win) - k) : Pruned(win, c)[i] = win[k + i]
  BY <1>4, <1>5
<1> QED BY <1>1, <1>6

\* A window after a probe was stored holds that probe and some of the last of
\* those it held.
LEMMA StoredEntries ==
  ASSUME NEW win \in Seq(Entries), NEW e \in Entries, NEW c \in Int
  PROVE  LET new == Pruned(Append(win, e), c) IN
         \E k \in 0..(Len(win) + 1) :
           /\ new \in Seq(Entries)
           /\ Len(new) = Len(win) + 1 - k
           /\ \A i \in 1..(Len(win) + 1 - k) :
                new[i] = IF k + i = Len(win) + 1 THEN e ELSE win[k + i]
<1> DEFINE all == Append(win, e)
           new == Pruned(all, c)
<1>1. /\ all \in Seq(Entries)
      /\ Len(all) = Len(win) + 1
      /\ \A i \in 1..Len(win) : all[i] = win[i]
      /\ all[Len(win) + 1] = e
      /\ Len(win) \in Nat
  BY AppendProperties
<1> HIDE DEF all
<1>2. PICK k \in 0..Len(all) : /\ new \in Seq(Entries)
                               /\ Len(new) = Len(all) - k
                               /\ \A i \in 1..(Len(all) - k) : new[i] = all[k + i]
  <2>1. all \in Seq(Entries)
    BY <1>1
  <2> QED BY <2>1, PrunedWindow
<1> HIDE DEF new
<1>3. k \in 0..(Len(win) + 1) /\ Len(new) = Len(win) + 1 - k
  BY <1>1, <1>2
<1>4. ASSUME NEW i \in 1..(Len(win) + 1 - k)
      PROVE  new[i] = IF k + i = Len(win) + 1 THEN e ELSE win[k + i]
  <2>1. new[i] = all[k + i] /\ k + i \in 1..(Len(win) + 1)
    BY <1>1, <1>2, <1>3
  <2> QED BY <1>1, <2>1
<1> QED BY <1>2, <1>3, <1>4 DEF new, all

\* An entry of a window is the one just stored, or was there before.
LEMMA StoredFrom ==
  ASSUME NEW win \in Seq(Entries), NEW e \in Entries, NEW c \in Int,
         NEW i \in 1..Len(Pruned(Append(win, e), c))
  PROVE  LET new == Pruned(Append(win, e), c) IN
         new[i] = e \/ \E j \in 1..Len(win) : new[i] = win[j]
<1> DEFINE new == Pruned(Append(win, e), c)
<1>1. PICK k \in 0..(Len(win) + 1) :
             /\ Len(new) = Len(win) + 1 - k
             /\ \A n \in 1..(Len(win) + 1 - k) :
                  new[n] = IF k + n = Len(win) + 1 THEN e ELSE win[k + n]
  BY StoredEntries
<1>2. Len(win) \in Nat
  OBVIOUS
<1> HIDE DEF new
<1>3. i \in 1..(Len(win) + 1 - k)
  BY <1>1 DEF new
<1>4. CASE k + i = Len(win) + 1
  BY <1>1, <1>3, <1>4 DEF new
<1>5. CASE k + i # Len(win) + 1
  <2>1. k + i \in 1..Len(win)
    BY <1>2, <1>3, <1>5
  <2>2. new[i] = win[k + i]
    BY <1>1, <1>3, <1>5
  <2> QED BY <2>1, <2>2 DEF new
<1> QED BY <1>4, <1>5

-----------------------------------------------------------------------------
(* Figures *)

\* The numbers of a window that is not empty have a first and a last one.
LEMMA SeqsFacts ==
  ASSUME NEW win \in Seq(Entries), NEW c \in Int, Recent(win, c) # <<>>
  PROVE  LET r == Recent(win, c) IN
         /\ Seqs(r) \in SUBSET Nat
         /\ IsFiniteSet(Seqs(r))
         /\ Min(Seqs(r)) \in Seqs(r) /\ Max(Seqs(r)) \in Seqs(r)
         /\ \A n \in Seqs(r) : Min(Seqs(r)) <= n /\ n <= Max(Seqs(r))
<1> DEFINE r == Recent(win, c)
           D == DOMAIN r
           f == [i \in D |-> r[i].seq]
<1>1. /\ D \subseteq 1..Len(win)
      /\ \A i \in D : r[i] = win[i]
      /\ IsFiniteSet(D)
      /\ D # {}
  BY RecentFacts
<1> HIDE DEF r
<1>2. Seqs(r) \in SUBSET Nat /\ Seqs(r) # {}
  BY <1>1, EntryFields DEF Seqs
<1>3. IsFiniteSet(Seqs(r))
  <2>1. f \in Surjection(D, Seqs(r))
    BY DEF Surjection, Seqs
  <2> QED BY <1>1, <2>1, FS_Surjection
<1>4. Min(Seqs(r)) \in Seqs(r) /\ Max(Seqs(r)) \in Seqs(r)
      /\ \A n \in Seqs(r) : Min(Seqs(r)) <= n /\ n <= Max(Seqs(r))
  <2>1. Seqs(r) \in SUBSET Int
    BY <1>2
  <2> QED BY <1>2, <1>3, <2>1, FiniteMin, FiniteMax
<1> QED BY <1>2, <1>3, <1>4 DEF r

\* The figures are numbers, and never negative.
LEMMA FiguresType ==
  ASSUME NEW win \in Seq(Entries), NEW c \in Int, Recent(win, c) # <<>>, NEW n \in Nat
  PROVE  Figures(Recent(win, c), n) \in Reports
<1> DEFINE r == Recent(win, c)
<1>1. Min(Seqs(r)) \in Nat /\ Max(Seqs(r)) \in Nat
  BY SeqsFacts
<1>2. Cardinality(DOMAIN r) \in Nat
  BY RecentFacts
<1> HIDE DEF r
<1>3. Lost(r) \in Nat
  <2>1. Expected(r) - Cardinality(DOMAIN r) \in Int
    BY <1>1, <1>2 DEF Expected
  <2> QED BY <2>1, MaxOfTwo DEF Lost
<1>4. Figures(r, n) \in Reports
  BY <1>1, <1>3 DEF Figures, Reports
<1> QED BY <1>4 DEF r

\* The counts of reordered probes are natural numbers.
LEMMA ReordersType ==
  ASSUME NEW win \in Seq(Entries), NEW c \in Int
  PROVE  Reorders(Recent(win, c)) \in Nat /\ StepsBack(Recent(win, c)) \in Nat
<1> DEFINE r == Recent(win, c)
           D == DOMAIN r
<1>1. IsFiniteSet(D)
  BY RecentFacts
<1> HIDE DEF r
<1>2. Reorders(r) \in Nat
  <2> DEFINE S == {i \in D : \E j \in D : j < i /\ r[i].seq < r[j].seq}
  <2>1. IsFiniteSet(S)
    BY <1>1, FS_Subset
  <2>2. Cardinality(S) \in Nat
    BY <2>1, FS_CardinalityType
  <2> QED BY <2>2 DEF Reorders
<1>3. StepsBack(r) \in Nat
  <2> DEFINE S == {ij \in Consecutive(r) : r[ij[2]].seq < r[ij[1]].seq}
  <2>1. IsFiniteSet(D \X D)
    BY <1>1, FS_Product
  <2>2. S \in SUBSET (D \X D)
    BY DEF Consecutive
  <2> HIDE DEF S
  <2>3. IsFiniteSet(S)
    BY <2>1, <2>2, FS_Subset
  <2>4. Cardinality(S) \in Nat
    BY <2>3, FS_CardinalityType
  <2> QED BY <2>4 DEF StepsBack, S
<1> QED BY <1>2, <1>3 DEF r

-----------------------------------------------------------------------------
(* Types *)

\* The lengths of time and the clocks are numbers.
LEMMA Constants ==
  /\ FeedbackWindow \in Nat /\ StatsWindow \in Nat
  /\ Max(Spans) \in Nat
  /\ \A s \in Lengths : s \in Nat
  /\ MinSamples \in Nat /\ Multiplier \in Nat /\ MinThreshold \in Nat
<1>1. Max(Spans) \in Spans
  <2>1. Spans \in SUBSET Int
    BY MetricsAssumption
  <2> QED BY <2>1, MetricsAssumption, FiniteMax
<1> QED BY <1>1, MetricsAssumption DEF Lengths

\* Each end reads its own clock, and the client's is off by the offset.
LEMMA Clocks ==
  ASSUME MetricsType
  PROVE  /\ \A e \in Ends : Clock(e) \in Int /\ Other(e) \in Ends
         /\ Clock("client") = now + offset
         /\ Clock("server") = now
         /\ now \in Int /\ offset \in Int
  BY DEF MetricsType, Clock, Other, Ends

\* The baseline stays a sum and a count.
LEMMA WithDelayType ==
  ASSUME NEW b \in [sum : Int, count : Nat], NEW d \in Int
  PROVE  WithDelay(b, d) \in [sum : Int, count : Nat]
<1>1. b.sum \in Int /\ b.count \in Nat
  OBVIOUS
<1>2. WithDelay(b, d) = b \/ WithDelay(b, d) = [sum |-> b.sum + d, count |-> b.count + 1]
  BY DEF WithDelay
<1> QED BY <1>1, <1>2

\* A window that a probe is stored in stays a window.
LEMMA StoredType ==
  ASSUME NEW win \in Seq(Entries), NEW e \in Entries, NEW c \in Int
  PROVE  Pruned(Append(win, e), c) \in Seq(Entries)
  BY StoredEntries

\* The metrics begin well-typed ...
LEMMA TypeInit == MetricsInit => MetricsType
<1> SUFFICES ASSUME MetricsInit PROVE MetricsType
  OBVIOUS
<1>1. now \in Nat /\ offset \in Int /\ flight \in SUBSET Probes
  BY MetricsAssumption DEF MetricsInit
<1>2. active \in [Ends -> BOOLEAN] /\ starting \in BOOLEAN
  BY DEF MetricsInit
<1>3. /\ next_seq \in [Ends \cup {"traffic", "plain"} -> Nat]
      /\ sent_probes \in Seq([seq : Nat, at : Int])
      /\ window \in [Windows -> Seq(Entries)]
  BY DEF MetricsInit
<1>4. /\ baseline \in [Ends -> [sum : Int, count : Nat]]
      /\ feedback \in [Ends -> [highest : Nat, count : Nat, reorders : Nat]]
  BY DEF MetricsInit
<1>5. /\ report \in [Windows -> [Lengths -> Reports \cup {NoReport}]]
      /\ arrived \in [Windows -> SUBSET Nat]
      /\ overtaken \in SUBSET Windows
      /\ delays \in [Ends -> SUBSET Int]
  BY DEF MetricsInit
<1> QED BY <1>1, <1>2, <1>3, <1>4, <1>5 DEF MetricsType

\* ... and stay so: starting and stopping the streams, and time, ...
LEMMA TypeStarts ==
  ASSUME MetricsType, StartStreams \/ StartReceived \/ StopStreams \/ TimePasses
  PROVE  MetricsType'
<1> USE DEF MetricsType
<1>1. CASE StartStreams
  BY <1>1 DEF StartStreams
<1>2. CASE StartReceived
  BY <1>2 DEF StartReceived
<1>3. CASE StopStreams
  BY <1>3 DEF StopStreams
<1>4. CASE TimePasses
  BY <1>4 DEF TimePasses
<1> QED BY <1>1, <1>2, <1>3, <1>4

\* ... sending, ...
LEMMA TypeSends ==
  ASSUME MetricsType, SendProbe \/ SendPlain \/ \E e \in Ends : SendMeasurement(e)
  PROVE  MetricsType'
<1>1. ASSUME NEW e \in Ends, SendMeasurement(e) PROVE MetricsType'
  <2>1. [kind |-> "measurement", to |-> Other(e), seq |-> next_seq[e], sent |-> Clock(e)] \in Probes
    BY Clocks DEF MetricsType, Probes
  <2>2. next_seq' \in [Ends \cup {"traffic", "plain"} -> Nat]
    BY <1>1 DEF MetricsType, SendMeasurement
  <2> QED BY <1>1, <2>1, <2>2 DEF MetricsType, SendMeasurement
<1>2. CASE SendPlain
  <2>1. [kind |-> "plain", to |-> "server", seq |-> next_seq["plain"], sent |-> Clock("client")] \in Probes
    BY Clocks DEF MetricsType, Probes, Ends
  <2>2. next_seq' \in [Ends \cup {"traffic", "plain"} -> Nat]
    BY <1>2 DEF MetricsType, SendPlain
  <2> QED BY <1>2, <2>1, <2>2 DEF MetricsType, SendPlain
<1>3. CASE SendProbe
  <2> DEFINE T == [seq : Nat, at : Int]
             sent == [seq |-> next_seq["traffic"], at |-> now]
             p == [kind |-> "probe", to |-> "client", seq |-> sent.seq, sent |-> now]
  <2>1. sent \in T /\ p \in Probes
    BY Clocks DEF MetricsType, Probes, Ends
  <2>2. next_seq' \in [Ends \cup {"traffic", "plain"} -> Nat]
    BY <1>3 DEF MetricsType, SendProbe
  <2>3. /\ sent_probes' = Pruned(Append(sent_probes, sent), now - Max(Spans))
        /\ flight' = flight \cup {p}
        /\ UNCHANGED <<now, offset, active, starting, window, baseline, feedback, report, arrived,
                       overtaken, delays>>
    BY <1>3 DEF SendProbe
  <2>4. now - Max(Spans) \in Int /\ sent_probes \in Seq(T)
    BY Constants, Clocks DEF MetricsType
  <2> HIDE DEF T, sent, p
  <2>5. Append(sent_probes, sent) \in Seq(T)
    BY <2>1, <2>4, AppendProperties
  <2>6. sent_probes' \in Seq(T)
    BY <2>3, <2>4, <2>5, PrunedIsEnd
  <2> QED BY <2>1, <2>2, <2>3, <2>6 DEF MetricsType, T
<1> QED BY <1>1, <1>2, <1>3

\* ... reporting, ...
LEMMA FiguresOrNone ==
  ASSUME MetricsType, NEW win \in Seq(Entries), NEW c \in Int
  PROVE  LET r == Recent(win, c) IN
         r # <<>> => /\ Figures(r, Reorders(r)) \in Reports
                     /\ Figures(r, StepsBack(r)) \in Reports
                     /\ StepsBack(r) \in Nat
  BY ReordersType, FiguresType

\* ... and their steps: the clients' feedback and the metrics loop, ...
LEMMA TypeReports ==
  ASSUME MetricsType, CalculateMetrics \/ \E e \in Ends : ReportStats(e)
  PROVE  MetricsType'
<1>1. ASSUME NEW e \in Ends, ReportStats(e) PROVE MetricsType'
  <2> DEFINE r == RecentMeasured(e)
             new == IF r = <<>> THEN NoReport ELSE Figures(r, Reorders(r))
  <2>1. window[e] \in Seq(Entries) /\ Clock(e) - FeedbackWindow \in Int
    <3>1. window[e] \in Seq(Entries)
      BY DEF MetricsType, Windows
    <3> QED BY <3>1, Clocks, Constants
  <2>2. new \in Reports \cup {NoReport}
    BY <2>1, FiguresOrNone DEF RecentMeasured
  <2>3. /\ report' = [report EXCEPT ![e][FeedbackWindow] = new]
        /\ UNCHANGED <<now, offset, flight, active, starting, next_seq, sent_probes, window,
                       baseline, feedback, arrived, overtaken, delays>>
    BY <1>1 DEF ReportStats
  <2> HIDE DEF new
  <2>4. report' \in [Windows -> [Lengths -> Reports \cup {NoReport}]]
    BY <2>2, <2>3 DEF MetricsType, Windows, Lengths
  <2> QED BY <2>3, <2>4 DEF MetricsType
<1>2. CASE CalculateMetrics
  <2> DEFINE old == report["received"]
             new == ClientMetrics(window["received"], old)
  <2>1. window["received"] \in Seq(Entries) /\ old \in [Lengths -> Reports \cup {NoReport}]
    BY DEF MetricsType, Windows
  <2>2. ASSUME NEW s \in Lengths
        PROVE  new[s] \in Reports \cup {NoReport}
    <3> DEFINE r == Recent(window["received"], Clock("client") - s)
    <3>1. Clock("client") - s \in Int
      BY Clocks, Constants DEF Ends
    <3>2. r # <<>> => Figures(r, StepsBack(r)) \in Reports /\ StepsBack(r) \in Nat
      BY <2>1, <3>1, FiguresOrNone
    <3>3. old[s] # NoReport /\ r # <<>> => [old[s] EXCEPT !.reorders = StepsBack(r)] \in Reports
      BY <2>1, <3>2 DEF Reports
    <3>4. new[s] \in {old[s], Figures(r, StepsBack(r)), [old[s] EXCEPT !.reorders = StepsBack(r)]}
          /\ (new[s] # old[s] => r # <<>>)
          /\ (new[s] \notin {old[s], Figures(r, StepsBack(r))} => old[s] # NoReport)
      BY DEF ClientMetrics
    <3> QED BY <2>1, <3>2, <3>3, <3>4
  <2>3. new \in [Lengths -> Reports \cup {NoReport}]
    BY <2>2 DEF ClientMetrics
  <2>4. /\ report' = [report EXCEPT !["received"] = new]
        /\ UNCHANGED <<now, offset, flight, active, starting, next_seq, sent_probes, window,
                       baseline, feedback, arrived, overtaken, delays>>
    BY <1>2 DEF CalculateMetrics
  <2> HIDE DEF new
  <2>5. report' \in [Windows -> [Lengths -> Reports \cup {NoReport}]]
    BY <2>3, <2>4 DEF MetricsType, Windows
  <2> QED BY <2>4, <2>5 DEF MetricsType
<1> QED BY <1>1, <1>2

\* ... the metrics the server calculates after every probe, ...
LEMMA ServerMetricsType ==
  ASSUME MetricsType, NEW wins \in [Windows -> Seq(Entries)]
  PROVE  ServerMetrics(wins) \in [Windows -> [Lengths -> Reports \cup {NoReport}]]
<1>1. ASSUME NEW w \in Windows, NEW s \in Lengths
      PROVE  ServerMetrics(wins)[w][s] \in Reports \cup {NoReport}
  <2> DEFINE r == Recent(wins[w], now - s)
  <2>1. wins[w] \in Seq(Entries) /\ now - s \in Int
    BY Clocks, Constants
  <2>2. r # <<>> => Figures(r, Reorders(r)) \in Reports
    BY <2>1, FiguresOrNone
  <2>3. report[w][s] \in Reports \cup {NoReport}
    BY DEF MetricsType
  <2>4. ServerMetrics(wins)[w][s] = IF w \notin {"plain", "echoed"} \/ s \notin Spans
                                    THEN report[w][s]
                                    ELSE IF r = <<>> THEN NoReport ELSE Figures(r, Reorders(r))
    BY DEF ServerMetrics
  <2> QED BY <2>2, <2>3, <2>4
<1>2. ServerMetrics(wins) = [w \in Windows |-> [s \in Lengths |-> ServerMetrics(wins)[w][s]]]
  BY DEF ServerMetrics
<1> QED BY <1>1, <1>2

\* A probe on its way has a target and the fields it needs.
LEMMA ProbeFields ==
  ASSUME MetricsType, NEW p \in flight
  PROVE  /\ p \in Probes
         /\ p.kind \in {"measurement", "probe", "echo", "plain"}
         /\ p.to \in Ends /\ p.seq \in Nat /\ p.sent \in Int
         /\ Target(p) \in Windows
<1>1. p \in Probes
  BY DEF MetricsType
<1> QED BY <1>1 DEF Probes, Target, Windows

\* What is noted of an arrival.
LEMMA ArrivedType ==
  ASSUME MetricsType, NEW w \in Windows, NEW p \in flight, Arrived(w, p)
  PROVE  arrived' \in [Windows -> SUBSET Nat] /\ overtaken' \in SUBSET Windows
<1>1. p.seq \in Nat
  BY ProbeFields
<1> QED BY <1>1 DEF Arrived, MetricsType

\* ... and receiving.
LEMMA TypeMeasurement ==
  ASSUME MetricsType, NEW p \in flight, MeasurementReceived(p)
  PROVE  MetricsType'
<1> DEFINE e   == p.to
           at  == Clock(e)
           new == [seq |-> p.seq, sent |-> p.sent, at |-> at]
           win == Pruned(Append(window[e], new), at - StatsWindow)
           fed == Recent(win, at - FeedbackWindow)
           fb  == [highest  |-> Max({feedback[e].highest, p.seq}),
                   count    |-> Cardinality(DOMAIN fed),
                   reorders |-> Reorders(fed)]
           d   == (at - p.sent) - (Clock(e) - Clock(Other(e)))
<1>1. e \in Ends /\ e \in Windows /\ p.seq \in Nat /\ p.sent \in Int
  BY ProbeFields DEF Windows
<1>2. at \in Int /\ at - StatsWindow \in Int /\ at - FeedbackWindow \in Int /\ d \in Int
  BY <1>1, Clocks, Constants
<1>3. /\ flight' = flight \ {p}
      /\ Arrived(e, p)
      /\ UNCHANGED <<now, offset, active, starting, next_seq, sent_probes, report>>
      /\ \/ /\ window' = [window EXCEPT ![e] = win]
            /\ baseline' = [baseline EXCEPT ![e] = WithDelay(baseline[e], at - p.sent)]
            /\ feedback' = [feedback EXCEPT ![e] = fb]
            /\ delays' = [delays EXCEPT ![e] = delays[e] \cup {d}]
         \/ UNCHANGED <<window, baseline, feedback, delays>>
  BY DEF MeasurementReceived
<1>4. win \in Seq(Entries)
  <2>1. new \in Entries /\ window[e] \in Seq(Entries)
    BY <1>1, <1>2 DEF MetricsType, Entries
  <2> HIDE DEF new, at
  <2> QED BY <1>2, <2>1, StoredType
<1>5. fb \in [highest : Nat, count : Nat, reorders : Nat]
  <2>1. feedback[e].highest \in Nat
    BY <1>1 DEF MetricsType
  <2>2. Max({feedback[e].highest, p.seq}) \in Nat
    BY <1>1, <2>1, MaxOfTwo
  <2> HIDE DEF win, at
  <2>3. Cardinality(DOMAIN fed) \in Nat
    BY <1>2, <1>4, RecentFacts
  <2>4. Reorders(fed) \in Nat
    BY <1>2, <1>4, ReordersType
  <2> HIDE DEF fed
  <2> QED BY <2>2, <2>3, <2>4
<1>6. WithDelay(baseline[e], at - p.sent) \in [sum : Int, count : Nat]
  <2> HIDE DEF at
  <2>1. at - p.sent \in Int
    BY <1>1, <1>2
  <2> HIDE DEF e
  <2>2. baseline[e] \in [sum : Int, count : Nat]
    BY <1>1 DEF MetricsType
  <2> QED BY <2>1, <2>2, WithDelayType
<1>7. arrived' \in [Windows -> SUBSET Nat] /\ overtaken' \in SUBSET Windows
  BY <1>1, <1>3, ArrivedType
<1> HIDE DEF win, fb, d, at, e
<1>8. /\ window' \in [Windows -> Seq(Entries)]
      /\ baseline' \in [Ends -> [sum : Int, count : Nat]]
      /\ feedback' \in [Ends -> [highest : Nat, count : Nat, reorders : Nat]]
      /\ delays' \in [Ends -> SUBSET Int]
  <2>1. window' \in [Windows -> Seq(Entries)]
    BY <1>3, <1>4 DEF MetricsType
  <2>2. baseline' \in [Ends -> [sum : Int, count : Nat]]
    BY <1>3, <1>6 DEF MetricsType
  <2>3. feedback' \in [Ends -> [highest : Nat, count : Nat, reorders : Nat]]
    BY <1>3, <1>5 DEF MetricsType
  <2>4. delays' \in [Ends -> SUBSET Int]
    <3>1. CASE delays' = [delays EXCEPT ![e] = delays[e] \cup {d}]
      BY <1>1, <1>2, <3>1 DEF MetricsType
    <3>2. CASE delays' = delays
      BY <3>2 DEF MetricsType
    <3> QED BY <1>3, <3>1, <3>2
  <2> QED BY <2>1, <2>2, <2>3, <2>4
<1> QED BY <1>3, <1>7, <1>8 DEF MetricsType

\* A probe that is still remembered has a time at which it was sent.
LEMMA KnownIsSent ==
  ASSUME MetricsType, NEW n
  PROVE  LET known == {i \in DOMAIN sent_probes : sent_probes[i].seq = n} IN
         known # {} => sent_probes[Max(known)].at \in Int
<1> DEFINE known == {i \in DOMAIN sent_probes : sent_probes[i].seq = n}
<1> SUFFICES ASSUME known # {} PROVE sent_probes[Max(known)].at \in Int
  OBVIOUS
<1>1. /\ sent_probes \in Seq([seq : Nat, at : Int]) /\ Len(sent_probes) \in Nat
      /\ DOMAIN sent_probes = 1..Len(sent_probes)
  BY DEF MetricsType
<1>2. known \in SUBSET Int /\ known \subseteq 1..Len(sent_probes)
  BY <1>1
<1> HIDE DEF known
<1>3. IsFiniteSet(known)
  <2>1. IsFiniteSet(1..Len(sent_probes))
    BY <1>1, FS_Interval
  <2> QED BY <1>2, <2>1, FS_Subset
<1>4. PICK i \in 1..Len(sent_probes) : i = Max(known)
  BY <1>2, <1>3, FiniteMax
<1>5. sent_probes[i] \in [seq : Nat, at : Int]
  BY <1>1, ElementOfSeq
<1> QED BY <1>4, <1>5

\* ... receiving the probes of the server traffic and those of the client.
LEMMA TypeTraffic ==
  ASSUME MetricsType, NEW p \in flight, ProbeReceived(p) \/ EchoReceived(p) \/ PlainReceived(p)
  PROVE  MetricsType'
<1>1. p.seq \in Nat /\ p.sent \in Int
  BY ProbeFields
<1>2. now \in Int /\ Clock("client") \in Int /\ Max(Spans) \in Nat
  BY Clocks, Constants DEF Ends
<1>3. CASE ProbeReceived(p)
  <2> DEFINE at  == Clock("client")
             new == [seq |-> p.seq, sent |-> p.sent, at |-> at]
             win == Pruned(Append(window["received"], new), at - Max(Spans))
             echo == [kind |-> "echo", to |-> "server", seq |-> p.seq, sent |-> at]
  <2>1. new \in Entries /\ echo \in Probes /\ window["received"] \in Seq(Entries)
    BY <1>1, <1>2 DEF MetricsType, Entries, Probes, Windows, Ends
  <2>2. win \in Seq(Entries)
    <3>1. at - Max(Spans) \in Int
      BY <1>2
    <3> HIDE DEF new, at
    <3> QED BY <2>1, <3>1, StoredType
  <2>3. /\ flight' = (flight \ {p}) \cup {echo}
        /\ window' = [window EXCEPT !["received"] = win]
        /\ Arrived("received", p)
        /\ UNCHANGED <<now, offset, active, starting, next_seq, sent_probes, baseline, feedback,
                       report, delays>>
    BY <1>3 DEF ProbeReceived
  <2>4. arrived' \in [Windows -> SUBSET Nat] /\ overtaken' \in SUBSET Windows
    BY <2>3, ArrivedType DEF Windows
  <2> HIDE DEF win, echo
  <2>5. window' \in [Windows -> Seq(Entries)] /\ flight' \in SUBSET Probes
    BY <2>1, <2>2, <2>3 DEF MetricsType
  <2> QED BY <2>3, <2>4, <2>5 DEF MetricsType
<1>4. ASSUME NEW w \in Windows, NEW win \in Seq(Entries), StoreAndRecalculate(w, win)
      PROVE  /\ window' \in [Windows -> Seq(Entries)]
             /\ report' \in [Windows -> [Lengths -> Reports \cup {NoReport}]]
  <2>1. window' \in [Windows -> Seq(Entries)]
    BY <1>4 DEF StoreAndRecalculate, MetricsType
  <2> QED BY <1>4, <2>1, ServerMetricsType DEF StoreAndRecalculate
<1>5. CASE PlainReceived(p)
  <2> DEFINE new == [seq |-> p.seq, sent |-> p.sent, at |-> now]
             win == Pruned(Append(window["plain"], new), now - Max(Spans))
  <2>1. new \in Entries /\ window["plain"] \in Seq(Entries) /\ now - Max(Spans) \in Int
    <3>1. now \in Int /\ window["plain"] \in Seq(Entries)
      BY DEF MetricsType, Windows
    <3>2. new \in Entries
      BY <1>1, <3>1 DEF Entries
    <3>3. now - Max(Spans) \in Int
      BY <1>2, <3>1
    <3> QED BY <3>1, <3>2, <3>3
  <2>2. win \in Seq(Entries)
    <3> HIDE DEF new
    <3> QED BY <2>1, StoredType
  <2>3. /\ flight' = flight \ {p}
        /\ StoreAndRecalculate("plain", win)
        /\ Arrived("plain", p)
        /\ UNCHANGED <<now, offset, active, starting, next_seq, sent_probes, baseline, feedback,
                       delays>>
    BY <1>5 DEF PlainReceived
  <2>4. arrived' \in [Windows -> SUBSET Nat] /\ overtaken' \in SUBSET Windows
    BY <2>3, ArrivedType DEF Windows
  <2> HIDE DEF win
  <2>5. /\ window' \in [Windows -> Seq(Entries)]
        /\ report' \in [Windows -> [Lengths -> Reports \cup {NoReport}]]
    BY <1>4, <2>2, <2>3 DEF Windows
  <2> QED BY <2>3, <2>4, <2>5 DEF MetricsType
<1>6. CASE EchoReceived(p)
  <2> DEFINE known == {i \in DOMAIN sent_probes : sent_probes[i].seq = p.seq}
             new == [seq |-> p.seq, sent |-> sent_probes[Max(known)].at, at |-> p.sent]
             win == Pruned(Append(window["echoed"], new), now - Max(Spans))
  <2>1. window["echoed"] \in Seq(Entries) /\ now - Max(Spans) \in Int /\ "echoed" \in Windows
    BY <1>2 DEF MetricsType, Windows
  <2>2. /\ flight' = flight \ {p}
        /\ UNCHANGED <<now, offset, active, starting, next_seq, sent_probes, baseline, feedback,
                       delays>>
        /\ \/ /\ StoreAndRecalculate("echoed", window["echoed"])
              /\ UNCHANGED <<arrived, overtaken>>
           \/ /\ known # {}
              /\ StoreAndRecalculate("echoed", win)
              /\ Arrived("echoed", p)
    BY <1>6 DEF EchoReceived
  <2>3. known # {} => win \in Seq(Entries)
    <3> SUFFICES ASSUME known # {} PROVE win \in Seq(Entries)
      OBVIOUS
    <3>1. sent_probes[Max(known)].at \in Int
      BY KnownIsSent
    <3>2. new \in Entries
      BY <1>1, <3>1 DEF Entries
    <3> HIDE DEF new
    <3> QED BY <2>1, <3>2, StoredType
  <2> HIDE DEF win, known
  <2>4. /\ window' \in [Windows -> Seq(Entries)]
        /\ report' \in [Windows -> [Lengths -> Reports \cup {NoReport}]]
    BY <1>4, <2>1, <2>2, <2>3
  <2>5. arrived' \in [Windows -> SUBSET Nat] /\ overtaken' \in SUBSET Windows
    BY <2>1, <2>2, ArrivedType DEF MetricsType
  <2> QED BY <2>2, <2>4, <2>5 DEF MetricsType
<1> QED BY <1>3, <1>5, <1>6

\* Every step keeps the types.
LEMMA TypeKept ==
  ASSUME MetricsType, MetricsNext
  PROVE  MetricsType'
  BY TypeStarts, TypeSends, TypeReports, TypeMeasurement, TypeTraffic
     DEF MetricsNext, MeasurementNext, TrafficNext

-----------------------------------------------------------------------------
(* The baseline *)

\* What the clocks of the two ends add to the delays an end measures.
Skew(e) == IF e = "client" THEN offset ELSE -offset

\* An average that lies between two delays as the skewed clocks show them.
Between(b, lo, hi, k) == b.count * (lo + k) <= b.sum /\ b.sum <= b.count * (hi + k)

\* Every delay in a window was measured, and the baseline is an average of
\* delays that were, both up to the skew of the clocks.
BaselineInv ==
  \A e \in Ends :
    /\ \A i \in 1..Len(window[e]) : window[e][i].at - window[e][i].sent - Skew(e) \in delays[e]
    /\ delays[e] = {} => baseline[e] = [sum |-> 0, count |-> 0]
    /\ delays[e] # {} => \E lo, hi \in delays[e] :
         (\A d \in delays[e] : lo <= d /\ d <= hi) /\ Between(baseline[e], lo, hi, Skew(e))

\* A sample keeps the average between the smallest and the largest.
LEMMA SampleBetween ==
  ASSUME NEW b \in [sum : Int, count : Nat], NEW lo \in Int, NEW hi \in Int, NEW k \in Int,
         NEW d \in Int, NEW lo2 \in Int, NEW hi2 \in Int,
         Between(b, lo, hi, k), lo2 <= lo, hi <= hi2, lo2 <= d, d <= hi2
  PROVE  /\ Between(b, lo2, hi2, k)
         /\ Between([sum |-> b.sum + (d + k), count |-> b.count + 1], lo2, hi2, k)
<1> DEFINE n == b.count
           t == b.sum
<1>1. n \in Nat /\ t \in Int /\ n * (lo + k) <= t /\ t <= n * (hi + k)
  BY DEF Between
<1> HIDE DEF n, t
<1>2. n * (lo2 + k) <= n * (lo + k) /\ n * (hi + k) <= n * (hi2 + k)
  <2>1. ASSUME NEW a \in Int, NEW c \in Int, a <= c PROVE n * a <= n * c
    BY <1>1, <2>1
  <2>2. lo2 + k <= lo + k /\ hi + k <= hi2 + k
    OBVIOUS
  <2> QED BY <2>1, <2>2
<1>3. n * (lo2 + k) <= t /\ t <= n * (hi2 + k)
  <2>1. n * (lo2 + k) \in Int /\ n * (lo + k) \in Int /\ n * (hi + k) \in Int /\ n * (hi2 + k) \in Int
    BY <1>1
  <2> QED BY <1>1, <1>2, <2>1
<1>4. (n + 1) * (lo2 + k) = n * (lo2 + k) + (lo2 + k) /\ (n + 1) * (hi2 + k) = n * (hi2 + k) + (hi2 + k)
  BY <1>1
<1>5. (n + 1) * (lo2 + k) <= t + (d + k) /\ t + (d + k) <= (n + 1) * (hi2 + k)
  <2>1. n * (lo2 + k) \in Int /\ n * (hi2 + k) \in Int
    BY <1>1
  <2>2. ASSUME NEW x \in Int, NEW y \in Int, x <= t, t <= y
        PROVE  x + (lo2 + k) <= t + (d + k) /\ t + (d + k) <= y + (hi2 + k)
    BY <1>1, <2>2
  <2> QED BY <1>3, <1>4, <2>1, <2>2
<1> QED BY <1>3, <1>5 DEF Between, n, t

\* What the two clocks are apart.
LEMMA SkewIsOffset ==
  ASSUME MetricsType, NEW e \in Ends
  PROVE  Skew(e) \in Int /\ Skew(e) = Clock(e) - Clock(Other(e))
  BY DEF MetricsType, Skew, Clock, Other, Ends

\* The baseline after a sample, for the true delays with that of the sample.
LEMMA BaselineSample ==
  ASSUME NEW b \in [sum : Int, count : Nat], NEW T \in SUBSET Int, NEW k \in Int, NEW d \in Int,
         T = {} => b = [sum |-> 0, count |-> 0],
         T # {} => \E lo, hi \in T : (\A x \in T : lo <= x /\ x <= hi) /\ Between(b, lo, hi, k)
  PROVE  \E lo, hi \in T \cup {d} : /\ \A x \in T \cup {d} : lo <= x /\ x <= hi
                                    /\ Between(WithDelay(b, d + k), lo, hi, k)
<1>1. \/ WithDelay(b, d + k) = b
      \/ WithDelay(b, d + k) = [sum |-> b.sum + (d + k), count |-> b.count + 1]
  BY DEF WithDelay
<1>2. CASE T = {}
  <2>1. Between(b, d, d, k)
    BY <1>2 DEF Between
  <2>2. Between(WithDelay(b, d + k), d, d, k)
    BY <1>1, <2>1, SampleBetween
  <2> QED BY <1>2, <2>2
<1>3. CASE T # {}
  <2>1. PICK lo \in T, hi \in T : (\A x \in T : lo <= x /\ x <= hi) /\ Between(b, lo, hi, k)
    BY <1>3
  <2>2. PICK lo2 \in T \cup {d} : lo2 = IF d < lo THEN d ELSE lo
    OBVIOUS
  <2>3. PICK hi2 \in T \cup {d} : hi2 = IF d > hi THEN d ELSE hi
    OBVIOUS
  <2>4. /\ lo \in Int /\ hi \in Int /\ lo2 \in Int /\ hi2 \in Int
        /\ lo2 <= lo /\ hi <= hi2 /\ lo2 <= d /\ d <= hi2
    BY <2>2, <2>3
  <2>5. \A x \in T \cup {d} : lo2 <= x /\ x <= hi2
    BY <2>1, <2>4
  <2>6. Between(b, lo2, hi2, k)
        /\ Between([sum |-> b.sum + (d + k), count |-> b.count + 1], lo2, hi2, k)
    BY <2>1, <2>4, SampleBetween
  <2>7. Between(WithDelay(b, d + k), lo2, hi2, k)
    BY <1>1, <2>6
  <2> QED BY <2>5, <2>7
<1> QED BY <1>2, <1>3

\* What is inductive: the types and the baseline.
OffsetInv == MetricsType /\ BaselineInv

\* Every step keeps the sum of the baseline between its bounds.
LEMMA BaselineKept ==
  ASSUME MetricsType, BaselineInv, MetricsNext
  PROVE  BaselineInv'
<1> DEFINE Good(e) ==
      /\ \A i \in 1..Len(window'[e]) : window'[e][i].at - window'[e][i].sent - Skew(e)' \in delays'[e]
      /\ delays'[e] = {} => baseline'[e] = [sum |-> 0, count |-> 0]
      /\ delays'[e] # {} => \E lo, hi \in delays'[e] :
           /\ \A d \in delays'[e] : lo <= d /\ d <= hi
           /\ Between(baseline'[e], lo, hi, Skew(e)')
<1> SUFFICES \A e \in Ends : Good(e)
  BY DEF BaselineInv
<1>1. UNCHANGED offset
  BY DEF MetricsNext, MeasurementNext, TrafficNext, StartStreams, StartReceived, StopStreams,
         SendMeasurement, ReportStats, MeasurementReceived, SendProbe, SendPlain,
         CalculateMetrics, ProbeReceived, EchoReceived, PlainReceived, TimePasses
<1>2. \A e \in Ends : Skew(e)' = Skew(e)
  BY <1>1 DEF Skew
<1>3. ASSUME NEW e \in Ends, window'[e] = window[e], baseline'[e] = baseline[e], delays'[e] = delays[e]
      PROVE  Good(e)
  BY <1>2, <1>3 DEF BaselineInv
<1>4. ASSUME UNCHANGED <<window, baseline, delays>> PROVE \A e \in Ends : Good(e)
  BY <1>3, <1>4
<1>5. CASE StartStreams \/ StartReceived \/ StopStreams \/ TimePasses \/ SendProbe \/ SendPlain
           \/ CalculateMetrics \/ \E e \in Ends : SendMeasurement(e) \/ ReportStats(e)
  <2>1. UNCHANGED <<window, baseline, delays>>
    BY <1>5 DEF StartStreams, StartReceived, StopStreams, TimePasses, SendProbe, SendPlain,
                CalculateMetrics, SendMeasurement, ReportStats
  <2> QED BY <1>4, <2>1
<1>6. ASSUME NEW p \in flight, ProbeReceived(p) \/ EchoReceived(p) \/ PlainReceived(p)
      PROVE  \A e \in Ends : Good(e)
  <2>1. PICK w \in {"received", "echoed", "plain"} : \E win : window' = [window EXCEPT ![w] = win]
    BY <1>6 DEF ProbeReceived, EchoReceived, PlainReceived, StoreAndRecalculate
  <2>2. UNCHANGED <<baseline, delays>>
    BY <1>6 DEF ProbeReceived, EchoReceived, PlainReceived
  <2>3. \A e \in Ends : window'[e] = window[e]
    BY <2>1 DEF MetricsType, Ends, Windows
  <2> QED BY <1>3, <2>2, <2>3
<1>7. ASSUME NEW p \in flight, MeasurementReceived(p) PROVE \A e \in Ends : Good(e)
  <2>1. p.to \in Ends /\ p.to \in Windows /\ p.seq \in Nat /\ p.sent \in Int
    BY ProbeFields DEF Windows
  <2>2. CASE ~active[p.to]
    BY <1>4, <1>7, <2>2 DEF MeasurementReceived
  <2>3. CASE active[p.to]
    <3> DEFINE at  == Clock(p.to)
               k   == Skew(p.to)
               d   == (at - p.sent) - k
               new == [seq |-> p.seq, sent |-> p.sent, at |-> at]
               win == Pruned(Append(window[p.to], new), at - StatsWindow)
    <3>1. at \in Int /\ k \in Int /\ k = Clock(p.to) - Clock(Other(p.to)) /\ at - StatsWindow \in Int
      BY <2>1, Clocks, SkewIsOffset, Constants
    <3>2. d \in Int /\ at - p.sent = d + k /\ new \in Entries
      <4>1. new \in Entries
        BY <2>1, <3>1 DEF Entries
      <4> HIDE DEF at, k
      <4>2. d \in Int /\ at - p.sent = d + k
        BY <2>1, <3>1
      <4> QED BY <4>1, <4>2
    <3>3. /\ window' = [window EXCEPT ![p.to] = win]
          /\ baseline' = [baseline EXCEPT ![p.to] = WithDelay(@, at - p.sent)]
          /\ delays' = [delays EXCEPT ![p.to] = @ \cup {(at - p.sent) - (Clock(p.to) - Clock(Other(p.to)))}]
      BY <1>7, <2>3 DEF MeasurementReceived
    <3>4. \A e \in Ends : e # p.to => window'[e] = window[e] /\ baseline'[e] = baseline[e]
                                      /\ delays'[e] = delays[e]
      <4>1. Ends \subseteq Windows
        BY DEF Windows
      <4> HIDE DEF win
      <4> QED BY <3>3, <4>1 DEF MetricsType
    <3>5. /\ window'[p.to] = win
          /\ baseline'[p.to] = WithDelay(baseline[p.to], d + k)
          /\ delays'[p.to] = delays[p.to] \cup {d}
      <4> HIDE DEF win, at
      <4> QED BY <2>1, <3>1, <3>2, <3>3 DEF MetricsType
    <3>6. \A i \in 1..Len(win) : win[i].at - win[i].sent - k \in delays[p.to] \cup {d}
      <4> DEFINE old == window[p.to]
      <4>1. old \in Seq(Entries)
        BY <2>1 DEF MetricsType
      <4>2. \A j \in 1..Len(old) : old[j].at - old[j].sent - k \in delays[p.to]
        BY <2>1 DEF BaselineInv
      <4>3. new.at - new.sent - k = d
        OBVIOUS
      <4> HIDE DEF old, new, d, k, at
      <4> SUFFICES ASSUME NEW i \in 1..Len(win)
                   PROVE  win[i].at - win[i].sent - k \in delays[p.to] \cup {d}
        OBVIOUS
      <4>4. win = Pruned(Append(old, new), at - StatsWindow)
        BY DEF old
      <4> HIDE DEF win
      <4>5. win[i] = new \/ \E j \in 1..Len(old) : win[i] = old[j]
        BY <3>1, <3>2, <4>1, <4>4, StoredFrom
      <4> QED BY <4>2, <4>3, <4>5
    <3>7. \E lo, hi \in delays[p.to] \cup {d} :
             /\ \A x \in delays[p.to] \cup {d} : lo <= x /\ x <= hi
             /\ Between(WithDelay(baseline[p.to], d + k), lo, hi, k)
      <4> DEFINE b == baseline[p.to]
                 T == delays[p.to]
      <4>1. b \in [sum : Int, count : Nat] /\ T \in SUBSET Int
        BY <2>1 DEF MetricsType
      <4>2. /\ T = {} => b = [sum |-> 0, count |-> 0]
            /\ T # {} => \E lo, hi \in T : (\A x \in T : lo <= x /\ x <= hi) /\ Between(b, lo, hi, k)
        BY <2>1 DEF BaselineInv
      <4>3. k \in Int /\ d \in Int
        BY <3>1, <3>2
      <4> HIDE DEF b, T, d, k
      <4>4. \E lo, hi \in T \cup {d} : /\ \A x \in T \cup {d} : lo <= x /\ x <= hi
                                       /\ Between(WithDelay(b, d + k), lo, hi, k)
        BY <4>1, <4>2, <4>3, BaselineSample
      <4> QED BY <4>4 DEF b, T
    <3>8. Skew(p.to)' = k
      BY <1>2, <2>1
    <3> HIDE DEF win, d, k
    <3>9. Good(p.to)
      BY <3>5, <3>6, <3>7, <3>8
    <3> HIDE DEF Good
    <3> QED BY <1>3, <3>4, <3>9
  <2> QED BY <2>2, <2>3
<1> QED BY <1>5, <1>6, <1>7 DEF MetricsNext, MeasurementNext, TrafficNext

-----------------------------------------------------------------------------
(* Percentiles *)

\* The k-th value of a sorted list is one of its values.
LEMMA SortedIn ==
  ASSUME NEW s, IsFiniteSet(DOMAIN s), \A i \in DOMAIN s : s[i] \in Int,
         NEW k \in Nat, k < Cardinality(DOMAIN s)
  PROVE  Sorted(s, k) \in Range(s)
<1> DEFINE D == DOMAIN s
           R == {s[i] : i \in D}
           f == [i \in D |-> s[i]]
           V == {v \in R : Cardinality({i \in D : s[i] <= v}) > k}
<1>1. R \in SUBSET Int
  OBVIOUS
<1>2. D # {} /\ R # {}
  BY FS_EmptySet
<1>3. IsFiniteSet(R)
  <2>1. f \in Surjection(D, R)
    BY DEF Surjection
  <2> HIDE DEF f, R, D
  <2>2. IsFiniteSet(D)
    BY DEF D
  <2> QED BY <2>1, <2>2, FS_Surjection
<1>4. Max(R) \in R /\ \A v \in R : v <= Max(R)
  <2> HIDE DEF R
  <2> QED BY <1>1, <1>2, <1>3, FiniteMax
<1>5. Max(R) \in V
  <2>1. {i \in D : s[i] <= Max(R)} = D
    BY <1>4
  <2>2. Cardinality({i \in D : s[i] <= Max(R)}) > k
    <3>1. Cardinality(D) \in Nat
      BY FS_CardinalityType
    <3> QED BY <2>1, <3>1
  <2> QED BY <1>4, <2>2
<1>6. V \in SUBSET R
  OBVIOUS
<1> HIDE DEF V, R
<1>7. V \in SUBSET Int /\ IsFiniteSet(V) /\ V # {}
  BY <1>1, <1>3, <1>5, <1>6, FS_Subset
<1>8. Min(V) \in R
  BY <1>6, <1>7, FiniteMin
<1>9. Sorted(s, k) = Min(V) /\ Range(s) = R
  BY DEF Sorted, Range, V, R
<1> QED BY <1>8, <1>9

\* What is reported of a list are values of it, or zero if it is empty.
LEMMA PercentilesIn ==
  ASSUME NEW s, IsFiniteSet(DOMAIN s), \A i \in DOMAIN s : s[i] \in Int,
         NEW v \in Range(Percentiles(s))
  PROVE  v \in Range(s) \/ v = 0
<1> DEFINE len == Cardinality(DOMAIN s)
<1>1. len \in Nat
  BY FS_CardinalityType
<1>2. CASE len = 0
  <2>1. Percentiles(s) = <<0, 0, 0, 0>>
    BY <1>2 DEF Percentiles
  <2> QED BY <2>1 DEF Range
<1>3. CASE len # 0
  <2> HIDE DEF len
  <2>1. /\ len \div 2 \in Nat /\ len \div 2 < len
        /\ len - 1 \in Nat /\ len - 1 < len
    BY <1>1, <1>3
  <2>2. PICK m \in Nat : m = (len * 99) \div 100
    BY <1>1
  <2>3. Min({m, len - 1}) \in Nat /\ Min({m, len - 1}) < len
    <3>1. PICK l \in Nat : l = len - 1
      BY <2>1
    <3>2. Min({m, l}) = IF m <= l THEN m ELSE l
      BY DEF Min
    <3> QED BY <1>1, <3>1, <3>2
  <2>4. PICK a, b, c, d : /\ a = Sorted(s, len \div 2)
                          /\ b = Sorted(s, Min({m, len - 1}))
                          /\ c = Sorted(s, 0)
                          /\ d = Sorted(s, len - 1)
    OBVIOUS
  <2>5. a \in Range(s) /\ b \in Range(s) /\ c \in Range(s) /\ d \in Range(s)
    BY <1>1, <1>3, <2>1, <2>3, <2>4, SortedIn DEF len
  <2>6. Percentiles(s) = <<a, b, c, d>>
    BY <1>3, <2>2, <2>4 DEF Percentiles, len
  <2>7. v \in {a, b, c, d}
    BY <2>6 DEF Range
  <2> QED BY <2>5, <2>7
<1> QED BY <1>2, <1>3

-----------------------------------------------------------------------------
(* Deviations *)

\* The largest and the smallest of a set are its maximum and its minimum.
LEMMA MaxMinAre ==
  ASSUME NEW S \in SUBSET Int, NEW lo \in S, NEW hi \in S, \A x \in S : lo <= x /\ x <= hi
  PROVE  Max(S) = hi /\ Min(S) = lo
<1>1. \E x \in S : \A y \in S : x >= y
  <2>1. \A y \in S : hi >= y
    OBVIOUS
  <2> QED BY <2>1
<1>2. \E x \in S : \A y \in S : x <= y
  OBVIOUS
<1>3. Max(S) \in S /\ \A y \in S : Max(S) >= y
  BY <1>1 DEF Max
<1>4. Min(S) \in S /\ \A y \in S : Min(S) <= y
  BY <1>2 DEF Min
<1>5. Max(S) \in Int /\ Min(S) \in Int /\ lo \in Int /\ hi \in Int
  BY <1>3, <1>4
<1>6. Max(S) >= hi /\ Max(S) <= hi /\ Min(S) <= lo /\ lo <= Min(S)
  BY <1>3, <1>4
<1> QED BY <1>5, <1>6

\* The deviation of a delay between two others from an average between them.
LEMMA DeviationBound ==
  ASSUME NEW n \in Nat, NEW t \in Int, NEW lo \in Int, NEW hi \in Int, NEW k \in Int, NEW d \in Int,
         n * (lo + k) <= t, t <= n * (hi + k), lo <= d, d <= hi
  PROVE  Abs((d + k) * n - t) <= (hi - lo) * n
<1> DEFINE a == n * (lo + k)
           b == n * (hi + k)
           x == (d + k) * n
<1>1. a \in Int /\ b \in Int /\ x \in Int
  OBVIOUS
<1>2. a <= x /\ x <= b
  <2>1. ASSUME NEW u \in Int, NEW v \in Int, u <= v PROVE n * u <= v * n
    BY <2>1
  <2>2. ASSUME NEW u \in Int, NEW v \in Int, u <= v PROVE u * n <= n * v
    BY <2>2
  <2>3. lo + k <= d + k /\ d + k <= hi + k
    OBVIOUS
  <2> QED BY <2>1, <2>2, <2>3
<1>3. b - a = (hi - lo) * n
  OBVIOUS
<1>4. a <= t /\ t <= b
  OBVIOUS
<1> HIDE DEF a, b, x
<1>5. Abs(x - t) <= b - a
  BY <1>1, <1>2, <1>4 DEF Abs
<1> QED BY <1>3, <1>5 DEF x

\* The baseline is an average of true delays in every reachable state.
THEOREM OffsetInvariant == MetricsSpec => []OffsetInv
<1>1. ASSUME MetricsInit PROVE OffsetInv
  <2>1. MetricsType
    BY <1>1, TypeInit
  <2>2. \A e \in Ends : /\ 1..Len(window[e]) = {} /\ delays[e] = {}
                        /\ baseline[e] = [sum |-> 0, count |-> 0]
    BY <1>1 DEF MetricsInit, Windows
  <2>3. BaselineInv
    BY <2>2, Zenon DEF BaselineInv
  <2> QED BY <2>1, <2>3 DEF OffsetInv
<1>2. ASSUME OffsetInv, MetricsNext PROVE OffsetInv'
  BY <1>2, TypeKept, BaselineKept DEF OffsetInv
<1>3. ASSUME OffsetInv, UNCHANGED metricsVars PROVE OffsetInv'
  <2>1. MetricsType'
    BY <1>3 DEF OffsetInv, metricsVars, MetricsType
  <2>2. BaselineInv'
    BY <1>3 DEF OffsetInv, metricsVars, BaselineInv, Skew
  <2> QED BY <2>1, <2>2 DEF OffsetInv
<1> QED BY <1>1, <1>2, <1>3, PTL DEF MetricsSpec

\* Whatever the offset of the clocks and whichever samples the baseline leaves
\* out, no deviation and no jitter exceeds the spread of the true delays
\* (calculate_probe_stream_stats: delay_deviation_ms and jitter_ms).
THEOREM OffsetsCancel == MetricsSpec => []OffsetCancels
<1>1. OffsetInv => OffsetCancels
  <2> SUFFICES ASSUME OffsetInv, NEW e \in Ends, RecentMeasured(e) # <<>>
               PROVE  LET r      == RecentMeasured(e)
                          spread == Max(delays[e]) - Min(delays[e])
                      IN  /\ \A d \in Range(DelayDeviations(r, baseline[e])) :
                               Abs(d) <= spread * baseline[e].count
                          /\ \A j \in Range(Jitter(r)) : j <= spread
    BY DEF OffsetCancels
  <2> DEFINE win == window[e]
             c   == Clock(e) - FeedbackWindow
             r   == Recent(win, c)
             D   == DOMAIN r
             T   == delays[e]
             b   == baseline[e]
             k   == Skew(e)
             spread == Max(T) - Min(T)
  <2>1. /\ win \in Seq(Entries) /\ c \in Int /\ T \in SUBSET Int /\ k \in Int
        /\ b \in [sum : Int, count : Nat] /\ r = RecentMeasured(e)
    <3>1. MetricsType
      BY DEF OffsetInv
    <3>2. win \in Seq(Entries) /\ T \in SUBSET Int /\ b \in [sum : Int, count : Nat]
      BY <3>1 DEF MetricsType, Windows
    <3>3. c \in Int /\ k \in Int
      BY <3>1, Clocks, Constants, SkewIsOffset
    <3> QED BY <3>2, <3>3 DEF RecentMeasured
  <2>2. /\ \A i \in 1..Len(win) : win[i].at - win[i].sent - k \in T
        /\ T # {} => \E lo, hi \in T : (\A d \in T : lo <= d /\ d <= hi) /\ Between(b, lo, hi, k)
    BY DEF OffsetInv, BaselineInv
  <2> HIDE DEF win, c, T, b, k
  <2>3. /\ D \subseteq 1..Len(win) /\ IsFiniteSet(D) /\ D # {}
        /\ \A i \in D : r[i] = win[i]
    BY <2>1, RecentFacts
  <2> HIDE DEF r
  <2>4. T # {}
    BY <2>2, <2>3
  <2>5. PICK lo \in T, hi \in T : (\A d \in T : lo <= d /\ d <= hi) /\ Between(b, lo, hi, k)
    BY <2>2, <2>4
  <2>6. lo \in Int /\ hi \in Int /\ lo <= hi /\ Max(T) = hi /\ Min(T) = lo
    <3>1. lo \in Int /\ hi \in Int /\ lo <= hi
      BY <2>1, <2>5
    <3>2. Max(T) = hi /\ Min(T) = lo
      BY <2>1, <2>5, MaxMinAre
    <3> QED BY <3>1, <3>2
  <2>7. b.count \in Nat /\ b.sum \in Int /\ b.count * (lo + k) <= b.sum /\ b.sum <= b.count * (hi + k)
    BY <2>1, <2>5 DEF Between
  <2>8. \A i \in D : \E d \in T : Delays(r)[i] = d + k
    <3> SUFFICES ASSUME NEW i \in D PROVE \E d \in T : Delays(r)[i] = d + k
      OBVIOUS
    <3>1. i \in 1..Len(win) /\ Delays(r)[i] = win[i].at - win[i].sent
      BY <2>3 DEF Delays
    <3>2. win[i].at \in Int /\ win[i].sent \in Int
      BY <2>1, <3>1, EntryFields
    <3>3. win[i].at - win[i].sent - k \in T
      BY <2>2, <3>1
    <3>4. win[i].at - win[i].sent = (win[i].at - win[i].sent - k) + k
      BY <2>1, <3>2
    <3> QED BY <3>1, <3>3, <3>4
  <2>9. ASSUME NEW v \in Range(DelayDeviations(r, b)) PROVE Abs(v) <= spread * b.count
    <3> DEFINE s == [i \in D |-> Delays(r)[i] * b.count - b.sum]
    <3>1. \A i \in D : s[i] \in Int /\ Abs(s[i]) <= (hi - lo) * b.count
      <4> SUFFICES ASSUME NEW i \in D PROVE s[i] \in Int /\ Abs(s[i]) <= (hi - lo) * b.count
        OBVIOUS
      <4>1. PICK d \in T : Delays(r)[i] = d + k
        BY <2>8
      <4>2. d \in Int /\ lo <= d /\ d <= hi /\ k \in Int
        BY <2>1, <2>5
      <4>3. s[i] = (d + k) * b.count - b.sum
        BY <4>1
      <4>4. Abs((d + k) * b.count - b.sum) <= (hi - lo) * b.count
        BY <2>6, <2>7, <4>2, DeviationBound
      <4>5. (d + k) * b.count - b.sum \in Int
        BY <2>7, <4>2
      <4> QED BY <4>3, <4>4, <4>5
    <3>2. DOMAIN s = D /\ v \in Range(Percentiles(s))
      BY <2>9 DEF DelayDeviations
    <3> HIDE DEF s
    <3>3. v \in Range(s) \/ v = 0
      BY <2>3, <3>1, <3>2, PercentilesIn
    <3>4. CASE v = 0
      <4>1. 0 <= (hi - lo) * b.count
        BY <2>6, <2>7
      <4> QED BY <2>6, <3>4, <4>1 DEF Abs
    <3>5. CASE v \in Range(s)
      <4>1. PICK i \in D : v = s[i]
        BY <3>2, <3>5 DEF Range
      <4> QED BY <2>6, <3>1, <4>1
    <3> QED BY <3>3, <3>4, <3>5
  <2>10. ASSUME NEW v \in Range(Jitter(r)) PROVE v <= spread
    <3> DEFINE C == Consecutive(r)
               s == [ij \in C |-> Abs(Delays(r)[ij[2]] - Delays(r)[ij[1]])]
    <3>1. C \subseteq D \X D /\ IsFiniteSet(C)
      <4>1. C \subseteq D \X D
        BY DEF Consecutive
      <4>2. IsFiniteSet(D \X D)
        BY <2>3, FS_Product
      <4> QED BY <4>1, <4>2, FS_Subset
    <3> HIDE DEF C
    <3>2. \A ij \in C : s[ij] \in Int /\ s[ij] <= hi - lo
      <4> SUFFICES ASSUME NEW ij \in C PROVE s[ij] \in Int /\ s[ij] <= hi - lo
        OBVIOUS
      <4>1. ij[1] \in D /\ ij[2] \in D
        BY <3>1
      <4>2. PICK d1 \in T : Delays(r)[ij[1]] = d1 + k
        BY <2>8, <4>1
      <4>3. PICK d2 \in T : Delays(r)[ij[2]] = d2 + k
        BY <2>8, <4>1
      <4>4. d1 \in lo..hi /\ d2 \in lo..hi /\ k \in Int
        BY <2>1, <2>5
      <4>5. Abs((d2 + k) - (d1 + k)) \in Int /\ Abs((d2 + k) - (d1 + k)) <= hi - lo
        BY <2>6, <4>4 DEF Abs
      <4>6. s[ij] = Abs((d2 + k) - (d1 + k))
        BY <4>2, <4>3
      <4> QED BY <4>5, <4>6
    <3>3. DOMAIN s = C /\ v \in Range(Percentiles(s))
      BY <2>10 DEF Jitter, C
    <3> HIDE DEF s
    <3>4. v \in Range(s) \/ v = 0
      BY <3>1, <3>2, <3>3, PercentilesIn
    <3>5. CASE v = 0
      BY <2>6, <3>5
    <3>6. CASE v \in Range(s)
      <4>1. PICK ij \in C : v = s[ij]
        BY <3>3, <3>6 DEF Range
      <4> QED BY <2>6, <3>2, <4>1
    <3> QED BY <3>4, <3>5, <3>6
  <2> HIDE DEF spread
  <2> QED BY <2>1, <2>9, <2>10 DEF spread, T, b
<1> QED BY <1>1, OffsetInvariant, PTL
=============================================================================
