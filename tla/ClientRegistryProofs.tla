------------------------ MODULE ClientRegistryProofs ------------------------
(***************************************************************************)
(* Proofs about ClientRegistry for any number of tasks and ids.            *)
(*                                                                         *)
(* The invariant behind all of them: a task at a label of Holding owns a   *)
(* read guard.  A write section needs "readers" to be empty, so while a    *)
(* cleanup handler is past its lookup no write section can run at all, its *)
(* own included.                                                           *)
(***************************************************************************)
EXTENDS ClientRegistry, TLAPS

\* The part of TypeOK the proofs use (the queue plays no role in them).
SessionTypes ==
  /\ clients \in SUBSET Ids
  /\ parent \in [Ids -> Ids]
  /\ peer \in [Ids -> {"none", "open", "closed"}]
  /\ pc \in [Tasks -> Labels]
  /\ arg \in [Tasks -> Ids \cup {NoId}]
  /\ todo \in [Tasks -> SUBSET Ids]
  /\ readers \in SUBSET Tasks

\* Labels at which a task works on a client that exists.
Working == {"offer", "insert", "icmp_find", "icmp_count", "icmp_remove", "icmp_close",
            "cl_find", "cl_close", "cl_remove"}

\* Read guards are where the code keeps them; a task works on a client whose
\* peer was created; only created clients are listed.
GuardsHeld  == \A t \in Tasks : pc[t] \in Holding => t \in readers
ArgsCreated == \A t \in Tasks : pc[t] \in Working => arg[t] \in Ids /\ peer[arg[t]] # "none"
Listed      == \A id \in clients \cup addressed : id \in Ids /\ peer[id] # "none"

GuardInv == SessionTypes /\ GuardsHeld /\ ArgsCreated /\ Listed

\* The server starts with an empty table and no guard held.
LEMMA GuardInvInit == Init => GuardInv
  BY RegistryAssumption DEF Init, GuardInv, SessionTypes, GuardsHeld, ArgsCreated, Listed,
     Labels, Holding, Working, ReadWaits, WriteWaits

\* Every step keeps the guards where the code keeps them.
LEMMA GuardInvNext == GuardInv /\ [Next]_vars => GuardInv'
<1> SUFFICES ASSUME GuardInv, [Next]_vars PROVE GuardInv'
  OBVIOUS
<1> USE RegistryAssumption DEF GuardInv, SessionTypes, GuardsHeld, ArgsCreated, Listed, Labels,
        Holding, Working, ReadWaits, WriteWaits, sessionVars, lockVars, history,
        Go, Finish, Await
<1>1. ASSUME NEW t \in Tasks, Requests(t) PROVE GuardInv'
  <2>1. CASE ReadRequest(t)
    BY <2>1 DEF ReadRequest
  <2>2. ASSUME NEW id \in Ids, NEW p \in Ids, StartRequest(t, id, p) PROVE GuardInv'
    BY <2>2 DEF StartRequest
  <2>3. ASSUME NEW id \in Ids, IcmpError(t, id) PROVE GuardInv'
    BY <2>3 DEF IcmpError
  <2>4. ASSUME NEW id \in Ids, CleanupRequest(t, id) PROVE GuardInv'
    BY <2>4 DEF CleanupRequest
  <2> QED
    BY <1>1, <2>1, <2>2, <2>3, <2>4 DEF Requests
<1>2. ASSUME NEW t \in Tasks, Runs(t) PROVE GuardInv'
  <2>1. CASE OfferFails(t)
    BY <2>1 DEF OfferFails
  <2>2. CASE OfferAnswered(t)
    BY <2>2 DEF OfferAnswered
  <2>3. CASE InsertTimeout(t)
    BY <2>3 DEF InsertTimeout
  <2>4. CASE ReadGranted(t)
    BY <2>4 DEF ReadGranted
  <2>5. CASE ReadDone(t)
    BY <2>5 DEF ReadDone
  <2>6. CASE IcmpFind(t)
    BY <2>6 DEF IcmpFind
  <2>7. CASE IcmpCount(t)
    BY <2>7 DEF IcmpCount
  <2>8. CASE IcmpClose(t)
    BY <2>8 DEF IcmpClose
  <2>9. CASE CleanupFind(t)
    BY <2>9 DEF CleanupFind, Descendants
  <2>10. ASSUME NEW id \in Ids, CleanupClosePeer(t, id) PROVE GuardInv'
    BY <2>10 DEF CleanupClosePeer
  <2>11. CASE CleanupAwaitWrite(t)
    BY <2>11 DEF CleanupAwaitWrite
  <2>12. CASE WriteSection(t)
    BY <2>12 DEF WriteSection, CanWrite, Inserted, IcmpRemoved, Cleaned
  <2> QED
    BY <1>2, <2>1, <2>2, <2>3, <2>4, <2>5, <2>6, <2>7, <2>8, <2>9, <2>10, <2>11, <2>12 DEF Runs
<1>3. ASSUME NEW t \in Tasks, RequestDropped(t) PROVE GuardInv'
  BY <1>3 DEF RequestDropped
<1>4. ASSUME NEW id \in Ids, PeerCleanup(id) PROVE GuardInv'
  BY <1>4 DEF PeerCleanup
<1>5. ASSUME NEW id \in Ids, PeerConnected(id) PROVE GuardInv'
  BY <1>5 DEF PeerConnected
<1>6. ASSUME NEW id \in Ids, SecondElapses(id) PROVE GuardInv'
  BY <1>6 DEF SecondElapses
<1>7. CASE UNCHANGED vars
  BY <1>7 DEF vars
<1> QED
  BY <1>1, <1>2, <1>3, <1>4, <1>5, <1>6, <1>7 DEF Next

\* A handler at a point where the code holds a read guard does hold it, and
\* works on a client whose peer was created (signaling.rs, cleanup.rs, main.rs).
THEOREM GuardSafety == Spec => []GuardInv
  BY GuardInvInit, GuardInvNext, PTL DEF Spec

\* Only a write section changes the table, and it needs every read guard gone.
LEMMA OnlyWritersChange ==
  ASSUME Next, clients' # clients
  PROVE  \E t \in Tasks : WriteSection(t) /\ readers = {}
<1> USE DEF sessionVars
<1>1. ASSUME NEW t \in Tasks, Requests(t) PROVE FALSE
  BY <1>1 DEF Requests, ReadRequest, StartRequest, IcmpError, CleanupRequest
<1>2. ASSUME NEW t \in Tasks, Runs(t), ~WriteSection(t) PROVE FALSE
  BY <1>2 DEF Runs, OfferFails, OfferAnswered, InsertTimeout, ReadGranted, ReadDone, IcmpFind,
     IcmpCount, IcmpClose, CleanupFind, CleanupClosePeer, CleanupAwaitWrite
<1>3. ASSUME NEW t \in Tasks, RequestDropped(t) PROVE FALSE
  BY <1>3 DEF RequestDropped
<1>4. ASSUME NEW id \in Ids, PeerCleanup(id) \/ PeerConnected(id) \/ SecondElapses(id) PROVE FALSE
  BY <1>4 DEF PeerCleanup, PeerConnected, SecondElapses
<1> QED
  BY <1>1, <1>2, <1>3, <1>4 DEF Next, WriteSection, CanWrite

\* While a cleanup handler waits for the write guard the table never changes,
\* for any number of requests: the handler's own read guard keeps every write
\* section out, its own too (cleanup.rs:26-75).
THEOREM RegistryFrozen == Spec => FrozenWhileCleanupWaits
<1>1. GuardInv /\ [Next]_vars => [CleanupWaiting => clients' = clients]_vars
  BY OnlyWritersChange DEF GuardInv, GuardsHeld, Holding, CleanupWaiting, vars
<1> QED
  BY <1>1, GuardSafety, PTL DEF Spec, FrozenWhileCleanupWaits

\* A session leaves the table only through an ICMP callback past the
\* threshold, and through one only, for any number of callbacks, requests and
\* cleanup handlers (main.rs, the ICMP error callback).
THEOREM LeavesOnlyThroughIcmp == Spec => LeavesThroughIcmp
<1> DEFINE Closes(id) ==
      \E t \in Tasks : arg[t] = id /\ pc[t] = "icmp_remove" /\ pc'[t] = "icmp_close"
<1>1. ASSUME GuardInv, Next, NEW id \in clients \ clients' PROVE Closes(id)
  <2>1. PICK t \in Tasks : WriteSection(t) /\ readers = {}
    BY <1>1, OnlyWritersChange
  <2>2. pc[t] \notin {"insert", "cl_remove"}
    <3>1. pc[t] # "cl_remove"
      BY <1>1, <2>1 DEF GuardInv, GuardsHeld, Holding
    <3> QED
      BY <1>1, <2>1, <3>1 DEF WriteSection, Inserted
  <2>3. pc[t] = "icmp_remove" /\ id = arg[t]
    BY <1>1, <2>1, <2>2 DEF WriteSection, CanWrite, WriteWaits, IcmpRemoved
  <2> QED
    BY <1>1, <2>1, <2>3 DEF WriteSection, Go, GuardInv, SessionTypes
<1>2. GuardInv /\ [Next]_vars => [\A id \in clients \ clients' : Closes(id)]_vars
  BY <1>1 DEF vars
<1> QED
  BY <1>2, GuardSafety, PTL DEF Spec, LeavesThroughIcmp

\* The descendants of a client depend only on the table and on the parents of
\* the clients in it.
LEMMA DescendantsStable ==
  ASSUME clients' = clients, \A i \in clients : parent'[i] = parent[i]
  PROVE  \A id : Descendants(id)' = Descendants(id)
<1>1. \A S : Closed(S)' <=> Closed(S)
  BY DEF Closed
<1> QED
  BY <1>1 DEF Descendants

\* Parents are set once, before a client is listed.
LEMMA ParentsFixed ==
  ASSUME GuardInv, Next
  PROVE  \A i \in clients : parent'[i] = parent[i]
<1> USE DEF sessionVars
<1>1. ASSUME NEW t \in Tasks, NEW id \in Ids, NEW p \in Ids, StartRequest(t, id, p)
      PROVE  \A i \in clients : parent'[i] = parent[i]
  BY <1>1 DEF StartRequest, GuardInv, SessionTypes, Listed
<1>2. ASSUME NEW t \in Tasks, Requests(t), ~(\E id, p \in Ids : StartRequest(t, id, p))
      PROVE  parent' = parent
  BY <1>2 DEF Requests, ReadRequest, IcmpError, CleanupRequest
<1>3. ASSUME NEW t \in Tasks, Runs(t) PROVE parent' = parent
  BY <1>3 DEF Runs, OfferFails, OfferAnswered, InsertTimeout, ReadGranted, ReadDone, IcmpFind,
     IcmpCount, IcmpClose, CleanupFind, CleanupClosePeer, CleanupAwaitWrite, WriteSection
<1>4. ASSUME NEW t \in Tasks, RequestDropped(t) PROVE parent' = parent
  BY <1>4 DEF RequestDropped
<1>5. ASSUME NEW id \in Ids, PeerCleanup(id) \/ PeerConnected(id) \/ SecondElapses(id)
      PROVE  parent' = parent
  BY <1>5 DEF PeerCleanup, PeerConnected, SecondElapses
<1> QED
  BY <1>1, <1>2, <1>3, <1>4, <1>5 DEF Next

\* A task is past the lookup of its cleanup after a step only if it was before,
\* with the same id and set, or if the step is its lookup.
LEMMA CleanupProgress ==
  ASSUME GuardInv, Next, NEW t \in Tasks, pc'[t] \in {"cl_close", "cl_remove"}
  PROVE  \/ /\ pc[t] \in {"cl_close", "cl_remove"}
            /\ arg'[t] = arg[t]
            /\ todo'[t] = todo[t]
         \/ CleanupFind(t) /\ arg[t] \in clients
<1> USE DEF GuardInv, SessionTypes, Go, Finish, Await
<1>1. ASSUME NEW u \in Tasks, Requests(u) PROVE pc[t] = pc'[t] /\ arg'[t] = arg[t] /\ todo'[t] = todo[t]
  BY <1>1 DEF Requests, ReadRequest, StartRequest, IcmpError, CleanupRequest
<1>2. ASSUME NEW u \in Tasks, RequestDropped(u)
      PROVE  pc[t] = pc'[t] /\ arg'[t] = arg[t] /\ todo'[t] = todo[t]
  BY <1>2 DEF RequestDropped
<1>3. ASSUME NEW u \in Tasks, CleanupAwaitWrite(u)
      PROVE  pc[t] \in {"cl_close", "cl_remove"} /\ arg'[t] = arg[t] /\ todo'[t] = todo[t]
  BY <1>3 DEF CleanupAwaitWrite
<1>4. ASSUME NEW u \in Tasks, CleanupFind(u), u # t \/ arg[t] \notin clients
      PROVE  pc[t] = pc'[t] /\ arg'[t] = arg[t] /\ todo'[t] = todo[t]
  BY <1>4 DEF CleanupFind
<1>5. ASSUME NEW u \in Tasks, Runs(u), ~CleanupAwaitWrite(u), ~CleanupFind(u)
      PROVE  pc[t] = pc'[t] /\ arg'[t] = arg[t] /\ todo'[t] = todo[t]
  BY <1>5 DEF Runs, OfferFails, OfferAnswered, InsertTimeout, ReadGranted, ReadDone, IcmpFind,
     IcmpCount, IcmpClose, CleanupClosePeer, WriteSection
<1>6. ASSUME NEW id \in Ids, PeerCleanup(id) \/ PeerConnected(id) \/ SecondElapses(id)
      PROVE  pc[t] = pc'[t] /\ arg'[t] = arg[t] /\ todo'[t] = todo[t]
  BY <1>6 DEF PeerCleanup, PeerConnected, SecondElapses
<1> QED
  BY <1>1, <1>2, <1>3, <1>4, <1>5, <1>6 DEF Next

\* The set a cleanup handler acts on is, at every moment until it is done, the
\* client and its registered descendants (cleanup.rs:45-59).
THEOREM DeletionExact == Spec => []DeletionSetExact
<1>1. Init => DeletionSetExact
  BY DEF Init, DeletionSetExact
<1>2. GuardInv /\ DeletionSetExact /\ [Next]_vars => DeletionSetExact'
  <2> SUFFICES ASSUME GuardInv, DeletionSetExact, Next, NEW t \in Tasks,
                      pc'[t] \in {"cl_close", "cl_remove"}
               PROVE  todo'[t] = Descendants(arg[t])'
    <3>1. UNCHANGED vars /\ DeletionSetExact => DeletionSetExact'
      BY DEF vars, sessionVars, lockVars, history, DeletionSetExact, Descendants, Closed
    <3> QED
      BY <3>1 DEF DeletionSetExact
  <2>1. CASE pc[t] \in {"cl_close", "cl_remove"} /\ arg'[t] = arg[t] /\ todo'[t] = todo[t]
    <3>1. clients' = clients
      BY <2>1, OnlyWritersChange DEF GuardInv, GuardsHeld, Holding
    <3>2. Descendants(arg[t])' = Descendants(arg[t])
      BY <2>1, <3>1, ParentsFixed, DescendantsStable DEF Descendants, Closed
    <3> QED
      BY <2>1, <3>2 DEF DeletionSetExact
  <2>2. CASE CleanupFind(t) /\ arg[t] \in clients
    <3>1. /\ clients' = clients
          /\ parent' = parent
          /\ arg'[t] = arg[t]
          /\ todo'[t] = Descendants(arg[t])
      BY <2>2 DEF CleanupFind, sessionVars, GuardInv, SessionTypes
    <3> QED
      BY <3>1 DEF Descendants, Closed
  <2> QED
    BY <2>1, <2>2, CleanupProgress
<1> QED
  BY <1>1, <1>2, GuardSafety, PTL DEF Spec

\* Every open peer has an owner, unless its signaling_start timed out on the
\* lock or was dropped: the invariant that would catch a forgotten close on the
\* failure path of signaling.rs:325-336 or in the ICMP callback.
THEOREM PeersOwned == Spec => []OpenPeersOwned
<1>1. Init => OpenPeersOwned
  BY DEF Init, OpenPeersOwned
<1>2. GuardInv /\ OpenPeersOwned /\ [Next]_vars => OpenPeersOwned'
  <2> SUFFICES ASSUME GuardInv, OpenPeersOwned, [Next]_vars PROVE OpenPeersOwned'
    OBVIOUS
  <2> USE DEF OpenPeersOwned, Owned, GuardInv, SessionTypes, ArgsCreated, Working, Go, Finish,
              Await, sessionVars, lockVars, history
  <2>1. ASSUME NEW t \in Tasks, Requests(t) PROVE OpenPeersOwned'
    BY <2>1 DEF Requests, ReadRequest, StartRequest, IcmpError, CleanupRequest
  <2>2. ASSUME NEW t \in Tasks, Runs(t) PROVE OpenPeersOwned'
    <3>1. CASE OfferFails(t) \/ InsertTimeout(t)
      BY <3>1 DEF OfferFails, InsertTimeout
    <3>2. CASE OfferAnswered(t)
      BY <3>2 DEF OfferAnswered
    <3>3. CASE ReadGranted(t) \/ ReadDone(t) \/ IcmpFind(t)
      BY <3>3 DEF ReadGranted, ReadDone, IcmpFind
    <3>4. CASE IcmpCount(t)
      BY <3>4 DEF IcmpCount
    <3>5. CASE IcmpClose(t)
      BY <3>5 DEF IcmpClose
    <3>6. CASE CleanupFind(t)
      BY <3>6 DEF CleanupFind
    <3>7. ASSUME NEW id \in Ids, CleanupClosePeer(t, id) PROVE OpenPeersOwned'
      BY <3>7 DEF CleanupClosePeer
    <3>8. CASE CleanupAwaitWrite(t)
      BY <3>8 DEF CleanupAwaitWrite
    <3>9. CASE WriteSection(t)
      <4>1. CASE pc[t] = "insert"
        BY <3>9, <4>1 DEF WriteSection, Inserted
      <4>2. CASE pc[t] = "icmp_remove"
        BY <3>9, <4>2 DEF WriteSection, IcmpRemoved
      <4> QED
        BY <3>9, <4>1, <4>2 DEF WriteSection, CanWrite, WriteWaits, GuardsHeld, Holding
    <3> QED
      BY <2>2, <3>1, <3>2, <3>3, <3>4, <3>5, <3>6, <3>7, <3>8, <3>9 DEF Runs
  <2>3. ASSUME NEW t \in Tasks, RequestDropped(t) PROVE OpenPeersOwned'
    BY <2>3 DEF RequestDropped, HttpLabels
  <2>4. ASSUME NEW id \in Ids, PeerCleanup(id) \/ PeerConnected(id) \/ SecondElapses(id)
        PROVE  OpenPeersOwned'
    BY <2>4 DEF PeerCleanup, PeerConnected, SecondElapses
  <2>5. CASE UNCHANGED vars
    BY <2>5 DEF vars
  <2> QED
    BY <2>1, <2>2, <2>3, <2>4, <2>5 DEF Next
<1> QED
  BY <1>1, <1>2, GuardSafety, PTL DEF Spec
=============================================================================
