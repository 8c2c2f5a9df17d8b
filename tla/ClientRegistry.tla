--------------------------- MODULE ClientRegistry ---------------------------
(***************************************************************************)
(* The server's table of client sessions, AppState.clients: a HashMap      *)
(* behind one tokio RwLock, shared by the signaling handlers, the          *)
(* dashboard's cleanup handler and the ICMP error callback.                *)
(*                                                                         *)
(* tokio's RwLock is fair: requests wait in one FIFO queue, so a waiting   *)
(* writer holds back every later reader.  No handler keeps the write guard *)
(* across an await, so a write section is one step; read guards are kept   *)
(* across awaits and are tracked in "readers".                             *)
(***************************************************************************)
EXTENDS Naturals, Sequences, SequencesExt, FiniteSets

CONSTANTS Tasks,      \* the request handlers and spawned callbacks that can run at once
          Ids,        \* client ids signaling_start can draw (fresh UUIDs)
          NoId,       \* no client
          Threshold   \* ICMP errors in a row that tear a session down (5 in the code)

ASSUME RegistryAssumption == /\ NoId \notin Ids
                             /\ Threshold \in Nat \ {0}

VARIABLES clients,    \* the keys of the HashMap
          parent,     \* ClientSession.parent_id
          addressed,  \* sessions whose peer_address is known
          peer,       \* the RTCPeerConnection created for each id
          doomed,     \* peers sent to peer_cleanup_sender and not yet closed
          errors,     \* ClientSession.icmp_error_count
          recent,     \* sessions whose last_icmp_error is less than 1 s old
          readers,    \* tasks that hold a read guard
          queue,      \* tasks waiting for the lock, in arrival order
          pc,         \* where each task is
          arg,        \* the client id each task works on
          todo,       \* to_remove of each cleanup handler
          failed,     \* history: ids whose signaling_start answered an error
          lost        \* history: ids whose signaling_start ended with the peer handed to nobody

sessionVars == <<clients, parent, addressed, errors, recent>>
lockVars == <<readers, queue>>
history == <<failed, lost>>
vars == <<sessionVars, peer, doomed, lockVars, pc, arg, todo, history>>

ReadWaits  == {"read", "icmp_find", "cl_find"}
WriteWaits == {"insert", "icmp_remove", "cl_remove"}
Holding    == {"reading", "cl_close", "cl_remove"}
Labels     == ReadWaits \cup WriteWaits \cup Holding
                \cup {"idle", "offer", "icmp_count", "icmp_close"}
HttpLabels == {"offer", "insert", "read", "reading", "cl_find", "cl_close", "cl_remove"}

TypeOK ==
  /\ clients \in SUBSET Ids
  /\ parent \in [Ids -> Ids]
  /\ addressed \in SUBSET Ids
  /\ peer \in [Ids -> {"none", "open", "closed"}]
  /\ doomed \in SUBSET Ids
  /\ errors \in [Ids -> 0..Threshold]
  /\ recent \in SUBSET Ids
  /\ readers \in SUBSET Tasks
  /\ queue \in Seq(Tasks)
  /\ pc \in [Tasks -> Labels]
  /\ arg \in [Tasks -> Ids \cup {NoId}]
  /\ todo \in [Tasks -> SUBSET Ids]
  /\ failed \in SUBSET Ids
  /\ lost \in SUBSET Ids

Init ==
  /\ clients = {}
  /\ parent = [i \in Ids |-> i]
  /\ addressed = {}
  /\ peer = [i \in Ids |-> "none"]
  /\ doomed = {}
  /\ errors = [i \in Ids |-> 0]
  /\ recent = {}
  /\ readers = {}
  /\ queue = <<>>
  /\ pc = [t \in Tasks |-> "idle"]
  /\ arg = [t \in Tasks |-> NoId]
  /\ todo = [t \in Tasks |-> {}]
  /\ failed = {}
  /\ lost = {}

-----------------------------------------------------------------------------
(* The lock.  A task at the head of the queue gets a read guard at once    *)
(* (write guards never outlive a step) and a write guard once no read      *)
(* guard is left.                                                          *)

AtHead(t)   == queue # <<>> /\ Head(queue) = t
CanRead(t)  == AtHead(t) /\ pc[t] \in ReadWaits
CanWrite(t) == AtHead(t) /\ pc[t] \in WriteWaits /\ readers = {}

Go(t, label)    == pc' = [pc EXCEPT ![t] = label]
Finish(t)       == /\ Go(t, "idle")
                   /\ arg' = [arg EXCEPT ![t] = NoId]
                   /\ todo' = [todo EXCEPT ![t] = {}]
Await(t, label) == Go(t, label) /\ queue' = Append(queue, t)

-----------------------------------------------------------------------------
(* signaling_start *)

\* The peer is created, the session built and its handlers installed.  The
\* client names an earlier session as parent, or the session is its own.
StartRequest(t, id, p) ==
  /\ pc[t] = "idle"
  /\ peer[id] = "none"
  /\ p = id \/ peer[p] # "none"
  /\ peer' = [peer EXCEPT ![id] = "open"]
  /\ parent' = [parent EXCEPT ![id] = p]
  /\ arg' = [arg EXCEPT ![t] = id]
  /\ Go(t, "offer")
  /\ UNCHANGED <<clients, addressed, errors, recent, doomed, lockVars, todo, history>>

OfferFailsForgetsPeer(t) ==  \* mutant: the peer is not sent to the cleanup task
  /\ pc[t] = "offer"
  /\ failed' = failed \cup {arg[t]}
  /\ Finish(t)
  /\ UNCHANGED <<sessionVars, peer, doomed, lockVars, lost>>

\* handle_offer fails: the peer goes to the cleanup task and the answer is 500.
OfferFails(t) ==
  /\ pc[t] = "offer"
  /\ doomed' = doomed \cup {arg[t]}
  /\ failed' = failed \cup {arg[t]}
  /\ Finish(t)
  /\ UNCHANGED <<sessionVars, peer, lockVars, lost>>

\* handle_offer succeeds: wait for the write guard.
OfferAnswered(t) ==
  /\ pc[t] = "offer"
  /\ Await(t, "insert")
  /\ UNCHANGED <<sessionVars, peer, doomed, readers, arg, todo, history>>

\* The 5 s timeout on the write guard, which somebody's read guard kept away:
\* 500, and the peer is not sent anywhere.
InsertTimeout(t) ==
  /\ pc[t] = "insert"
  /\ readers # {}
  /\ queue' = RemoveFirst(queue, t)
  /\ failed' = failed \cup {arg[t]}
  /\ lost' = lost \cup {arg[t]}
  /\ Finish(t)
  /\ UNCHANGED <<sessionVars, peer, doomed, readers>>

\* The task spawned in main closes the peers of failed offers.
PeerCleanup(id) ==
  /\ id \in doomed
  /\ doomed' = doomed \ {id}
  /\ peer' = [peer EXCEPT ![id] = "closed"]
  /\ UNCHANGED <<sessionVars, lockVars, pc, arg, todo, history>>

\* The peer reaches Connected: the state handler stores the remote address.
PeerConnected(id) ==
  /\ id \in clients \ addressed
  /\ peer[id] = "open"
  /\ addressed' = addressed \cup {id}
  /\ UNCHANGED <<clients, parent, errors, recent, peer, doomed, lockVars, pc, arg, todo, history>>

-----------------------------------------------------------------------------
(* Handlers that only read the table but keep the guard across an await:   *)
(* ice_candidate, get_ice_candidates, the dashboard and diagnostics.       *)

ReadRequest(t) ==
  /\ pc[t] = "idle"
  /\ Await(t, "read")
  /\ UNCHANGED <<sessionVars, peer, doomed, readers, arg, todo, history>>

ReadGranted(t) ==
  /\ pc[t] = "read"
  /\ CanRead(t)
  /\ queue' = Tail(queue)
  /\ readers' = readers \cup {t}
  /\ Go(t, "reading")
  /\ UNCHANGED <<sessionVars, peer, doomed, arg, todo, history>>

ReadDone(t) ==
  /\ pc[t] = "reading"
  /\ readers' = readers \ {t}
  /\ Finish(t)
  /\ UNCHANGED <<sessionVars, peer, doomed, queue, history>>

-----------------------------------------------------------------------------
(* The ICMP error callback *)

\* An error that matched no tracked packet names the address of client id.
IcmpError(t, id) ==
  /\ pc[t] = "idle"
  /\ id \in addressed
  /\ arg' = [arg EXCEPT ![t] = id]
  /\ Await(t, "icmp_find")
  /\ UNCHANGED <<sessionVars, peer, doomed, readers, todo, history>>

\* Look the address up under the read guard, then drop the guard.
IcmpFind(t) ==
  /\ pc[t] = "icmp_find"
  /\ CanRead(t)
  /\ queue' = Tail(queue)
  /\ \/ /\ arg[t] \in clients \cap addressed
        /\ Go(t, "icmp_count")
        /\ UNCHANGED <<arg, todo>>
     \/ /\ arg[t] \notin clients \cap addressed
        /\ Finish(t)
  /\ UNCHANGED <<sessionVars, peer, doomed, readers, history>>

\* Count the error: one more if the last is under a second old, else one.
\* The count saturates at Threshold, above which the code does not look.
NewCount(id) ==
  IF id \notin recent THEN 1
  ELSE IF errors[id] < Threshold THEN errors[id] + 1 ELSE Threshold

IcmpCount(t) ==
  LET count == NewCount(arg[t]) IN
  /\ pc[t] = "icmp_count"
  /\ errors' = [errors EXCEPT ![arg[t]] = count]
  /\ recent' = recent \cup {arg[t]}
  /\ \/ /\ count >= Threshold
        /\ Await(t, "icmp_remove")
        /\ UNCHANGED <<arg, todo>>
     \/ /\ count < Threshold
        /\ Finish(t)
        /\ UNCHANGED queue
  /\ UNCHANGED <<clients, parent, addressed, peer, doomed, readers, history>>

\* The peer of the session this callback removed is closed without the lock.
IcmpClose(t) ==
  /\ pc[t] = "icmp_close"
  /\ peer' = [peer EXCEPT ![arg[t]] = "closed"]
  /\ Finish(t)
  /\ UNCHANGED <<sessionVars, doomed, lockVars, history>>

\* A second passes since the last ICMP error of a session.
SecondElapses(id) ==
  /\ id \in recent
  /\ recent' = recent \ {id}
  /\ UNCHANGED <<clients, parent, addressed, errors, peer, doomed, lockVars, pc, arg, todo, history>>

-----------------------------------------------------------------------------
(* cleanup_client_handler *)

CleanupRequest(t, id) ==
  /\ pc[t] = "idle"
  /\ peer[id] # "none"
  /\ arg' = [arg EXCEPT ![t] = id]
  /\ Await(t, "cl_find")
  /\ UNCHANGED <<sessionVars, peer, doomed, readers, todo, history>>

\* The client and, transitively, every session whose parent is in the set.
Closed(S) == \A i \in clients : parent[i] \in S => i \in S
Descendants(id) == {i \in Ids : \A S \in SUBSET Ids : id \in S /\ Closed(S) => i \in S}

CleanupFindDropsGuard(t) ==  \* mutant: the guard ends with the lookup
  /\ pc[t] = "cl_find"
  /\ CanRead(t)
  /\ queue' = Tail(queue)
  /\ \/ /\ arg[t] \in clients
        /\ todo' = [todo EXCEPT ![t] = Descendants(arg[t])]
        /\ Go(t, "cl_close")
        /\ UNCHANGED arg
     \/ /\ arg[t] \notin clients
        /\ Finish(t)
  /\ UNCHANGED <<sessionVars, peer, doomed, readers, history>>

\* Under the read guard: unknown id -> 404, else the set to remove.  The
\* guard stays alive (the later "let mut clients" only shadows its name).
CleanupFind(t) ==
  /\ pc[t] = "cl_find"
  /\ CanRead(t)
  /\ queue' = Tail(queue)
  /\ \/ /\ arg[t] \in clients
        /\ readers' = readers \cup {t}
        /\ todo' = [todo EXCEPT ![t] = Descendants(arg[t])]
        /\ Go(t, "cl_close")
        /\ UNCHANGED arg
     \/ /\ arg[t] \notin clients
        /\ Finish(t)
        /\ UNCHANGED readers
  /\ UNCHANGED <<sessionVars, peer, doomed, history>>

\* Close the peers of the set one by one, awaiting each, guard in hand.
CleanupClosePeer(t, id) ==
  /\ pc[t] = "cl_close"
  /\ id \in todo[t]
  /\ peer[id] = "open"
  /\ peer' = [peer EXCEPT ![id] = "closed"]
  /\ UNCHANGED <<sessionVars, doomed, lockVars, pc, arg, todo, history>>

CleanupAwaitWriteReleased(t) ==  \* mutant: the read guard is dropped first
  /\ pc[t] = "cl_close"
  /\ \A i \in todo[t] : peer[i] # "open"
  /\ readers' = readers \ {t}
  /\ Await(t, "cl_remove")
  /\ UNCHANGED <<sessionVars, peer, doomed, arg, todo, history>>

\* Ask for the write guard, the read guard still alive.
CleanupAwaitWrite(t) ==
  /\ pc[t] = "cl_close"
  /\ \A i \in todo[t] : peer[i] # "open"
  /\ Await(t, "cl_remove")
  /\ UNCHANGED <<sessionVars, peer, doomed, readers, arg, todo, history>>

-----------------------------------------------------------------------------
\* The write sections: signaling_start inserts its session, the ICMP callback
\* removes its session (and closes the peer if it was the one to remove it),
\* the cleanup handler removes its whole set.
Inserted(t)    == clients \cup {arg[t]}
IcmpRemoved(t) == clients \ {arg[t]}
Cleaned(t)     == clients \ todo[t]

WriteSection(t) ==
  /\ CanWrite(t)
  /\ queue' = Tail(queue)
  /\ clients' = CASE pc[t] = "insert"      -> Inserted(t)
                  [] pc[t] = "icmp_remove" -> IcmpRemoved(t)
                  [] pc[t] = "cl_remove"   -> Cleaned(t)
  /\ IF pc[t] = "icmp_remove" /\ arg[t] \in clients
     THEN Go(t, "icmp_close") /\ UNCHANGED <<arg, todo>>
     ELSE Finish(t)
  /\ UNCHANGED <<parent, addressed, errors, recent, peer, doomed, readers, history>>

RequestDroppedQueued(t) ==  \* mutant: the place in the queue is kept
  /\ pc[t] \in HttpLabels
  /\ readers' = readers \ {t}
  /\ lost' = IF pc[t] \in {"offer", "insert"} THEN lost \cup {arg[t]} ELSE lost
  /\ Finish(t)
  /\ UNCHANGED <<sessionVars, peer, doomed, queue, failed>>

\* The HTTP client goes away and the server drops the handler's future: its
\* guard is released and its place in the queue given up.
RequestDropped(t) ==
  /\ pc[t] \in HttpLabels
  /\ queue' = RemoveFirst(queue, t)
  /\ readers' = readers \ {t}
  /\ lost' = IF pc[t] \in {"offer", "insert"} THEN lost \cup {arg[t]} ELSE lost
  /\ Finish(t)
  /\ UNCHANGED <<sessionVars, peer, doomed, failed>>

-----------------------------------------------------------------------------
Requests(t) ==
  \/ ReadRequest(t)
  \/ \E id, p \in Ids : StartRequest(t, id, p)
  \/ \E id \in Ids : IcmpError(t, id) \/ CleanupRequest(t, id)

\* The steps the runtime takes for a task that can run.
Runs(t) ==
  \/ OfferFails(t)
  \/ OfferAnswered(t)
  \/ InsertTimeout(t)
  \/ ReadGranted(t)
  \/ ReadDone(t)
  \/ IcmpFind(t)
  \/ IcmpCount(t)
  \/ IcmpClose(t)
  \/ CleanupFind(t)
  \/ \E id \in Ids : CleanupClosePeer(t, id)
  \/ CleanupAwaitWrite(t)
  \/ WriteSection(t)

Next ==
  \/ \E t \in Tasks : Requests(t) \/ Runs(t) \/ RequestDropped(t)
  \/ \E id \in Ids : PeerCleanup(id) \/ PeerConnected(id) \/ SecondElapses(id)

Spec == Init /\ [][Next]_vars

\* tokio polls every runnable task and fires every expired timer; clients,
\* ICMP errors and dropped requests are up to the network.
FairSpec == /\ Spec
            /\ \A t \in Tasks : WF_vars(Runs(t))
            /\ \A id \in Ids : WF_vars(PeerCleanup(id))

-----------------------------------------------------------------------------
(* Properties *)

\* The set a cleanup handler computed under the read guard is still exactly
\* the client and its registered descendants whenever the handler acts on it:
\* no insert or removal slips in between to_remove and the removal loop.
DeletionSetExact ==
  \A t \in Tasks : pc[t] \in {"cl_close", "cl_remove"} => todo[t] = Descendants(arg[t])

\* An RTCPeerConnection that is still open has an owner: it is listed in the
\* table, a task that will list or close it is running, or the cleanup task
\* has it.  The only ways to lose one are a signaling_start whose lock timed
\* out or whose request was dropped by the HTTP client.
Owned(id) ==
  \/ id \in clients \cup doomed \cup lost
  \/ \E t \in Tasks : arg[t] = id /\ pc[t] \in {"offer", "insert", "icmp_close"}
OpenPeersOwned == \A id \in Ids : peer[id] = "open" => Owned(id)

\* A cleanup handler that waits for the write guard holds a read guard of the
\* same lock (cleanup.rs:26 and :75).
CleanupWaiting == \E t \in Tasks : pc[t] = "cl_remove"

\* While a cleanup handler waits for the write guard nobody enters or leaves
\* the table of clients: not a new session, not a session the ICMP callback
\* tears down, and not the sessions the cleanup is meant to remove.
FrozenWhileCleanupWaits == [][CleanupWaiting => clients' = clients]_vars

\* A session leaves the table only through an ICMP callback past the threshold,
\* and the callback that took it out is the one that goes on to close its peer:
\* of two callbacks past the threshold the second finds nothing to close.
LeavesThroughIcmp ==
  [][\A id \in clients \ clients' :
       \E t \in Tasks : arg[t] = id /\ pc[t] = "icmp_remove" /\ pc'[t] = "icmp_close"]_vars

\* signaling_start answers every offer, whatever the other handlers do with
\* the lock: the 5 s timeout bounds the wait for the write guard.  Any other
\* handler that waits for the table gets it, unless a cleanup handler is stuck:
\* nothing else can hold the queue up.
HandlersServed ==
  \A t \in Tasks :
    /\ (pc[t] \in {"offer", "insert"}) ~> (pc[t] = "idle")
    /\ (pc[t] \in {"read", "icmp_find", "icmp_remove", "cl_find"})
         ~> (pc[t] \notin {"read", "icmp_find", "icmp_remove", "cl_find"} \/ CleanupWaiting)

\* docs/plans/2025-12-24-dashboard-cleanup-button-design.md: the button removes
\* the client from the server state and the handler answers 200 with the ids it
\* removed.  A cleanup handler that found its client therefore finishes.
CleanupAnswers ==
  \A t \in Tasks : (pc[t] \in {"cl_close", "cl_remove"}) ~> (pc[t] = "idle")

\* main.rs:584 and state.rs:22: the peers of signaling requests that failed
\* are handed to the cleanup task, which closes them.
FailedSignalingReleasesPeer ==
  \A id \in failed : id \in doomed \/ peer[id] = "closed"
=============================================================================
