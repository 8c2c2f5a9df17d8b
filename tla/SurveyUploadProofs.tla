------------------------- MODULE SurveyUploadProofs -------------------------
(***************************************************************************)
(* Proofs about SurveyUpload for any recordings, chunks and numbers of     *)
(* requests, failures and wipes.  The core is that, as long as the         *)
(* recordings of a session are not wiped, files only grow: whatever a      *)
(* handler, the uploader or a row has recorded about the disk is still     *)
(* true when it is used.                                                   *)
(***************************************************************************)
EXTENDS SurveyUpload, TLAPS

\* In each predicate d stands for the files and w for the wiped sessions, so
\* that it can be moved from one state to the next.
Stored(r, k, d) == k \in d[r][FileOf(k)].good

\* A file reaches as far as its chunks.
LengthsCover(d) ==
  \A r \in Recordings, f \in Files : \A k \in d[r][f].good : k <= d[r][f].len

\* What the handler of request j has read or written is on disk.
Truthful(j, d, w) ==
  j.kind # "free" =>
    /\ j.rec \in Recordings
    /\ SessionOf[j.rec] \notin w =>
         /\ \A k \in j.saw : Stored(j.rec, k, d)
         /\ \A f \in Files : j.size[f] <= d[j.rec][f].len
         /\ j.kind = "chunk" /\ (j.pc = "store" \/ (j.pc = "replied" /\ j.ok)) =>
              Stored(j.rec, j.at, d)

\* What the uploader c of recording r relies on is on disk.
Relies(c, r, d, w) ==
  SessionOf[r] \notin w =>
    /\ \A k \in c.have : Stored(r, k, d)
    /\ \A k \in Chunks : k < c.next => Stored(r, k, d)

\* What the row of recording r says is on disk.
RowSound(row, r, d, w) ==
  SessionOf[r] \notin w =>
    /\ row.status = "complete" => \A k \in Chunks : Stored(r, k, d)
    /\ \A f \in Files : row.bytes[f] <= d[r][f].len

\* The uploader waits for a request of its own, of the kind it expects.
Linked(c, r) ==
  c.req # None =>
    /\ handlers[c.req].kind = c.pc
    /\ handlers[c.req].rec = r
    /\ c.pc = "chunk" => handlers[c.req].at = c.next /\ c.next \in Chunks

ChunkJobs == \A h \in Handlers : handlers[h].kind = "chunk" => handlers[h].at \in Chunks

\* A wipe removes only files of its session, and only after it deleted the rows.
WipesOwnFiles ==
  \A s \in Sessions :
    /\ \A d \in wiper[s].files : SessionOf[d[1]] = s
    /\ wiper[s].pc = "unlink" => s \in wiped

UploadInv == /\ TypeOK
             /\ LengthsCover(disk)
             /\ WipesOwnFiles
             /\ RowsWipeable
             /\ ChunkJobs
             /\ \A r \in Recordings : Linked(client[r], r)
             /\ \A h \in Handlers : Truthful(handlers[h], disk, wiped)
             /\ \A r \in Recordings : Relies(client[r], r, disk, wiped)
             /\ \A r \in Recordings : RowSound(rows[r], r, disk, wiped)

USE UploadAssumption

\* Every chunk belongs to one of the two files.
LEMMA FileOfType == \A k : FileOf(k) \in Files
  BY DEF FileOf, Files

\* The chunk after a file's last one is a chunk number or one past the last.
LEMMA AfterType == \A f \in Files : After(f) \in 0..(NChunks + 1)
  BY DEF After, Files

\* The initial records have their types.
LEMMA FreeTypes ==
  /\ NoRow \in Row /\ Absent \in File /\ Free \in Handler /\ Idle \in Client
  /\ NoWipe \in Wiper
  BY DEF NoRow, Absent, Free, Idle, NoWipe, Row, File, Handler, Client, Wiper,
         Statuses, Kinds, HandlerPcs, ClientPcs, WiperPcs

\* The parts of TypeOK about single records.
LEMMA Records ==
  ASSUME TypeOK
  PROVE  /\ \A h \in Handlers : handlers[h] \in Handler
         /\ \A r \in Recordings : client[r] \in Client /\ rows[r] \in Row
         /\ \A r \in Recordings, f \in Files : disk[r][f] \in File
         /\ \A s \in Sessions : wiper[s] \in Wiper
  BY DEF TypeOK

----------------------------------------------------------------------------
(* Types.                                                                  *)

\* What one step does to one request, uploader, row or file keeps its type.
LEMMA AfterErrorType == \A c \in Client : AfterError(c) \in Client
  <1> TAKE c \in Client
  <1>1. c.tries > 1 => c.tries - 1 \in 1..Retries
    BY DEF Client
  <1>2. c.tries > 1 => [c EXCEPT !.tries = c.tries - 1, !.req = None] \in Client
    BY <1>1 DEF Client
  <1> QED
    BY <1>2, FreeTypes DEF AfterError

\* The steps of a wipe keep its record's type.
LEMMA WiperTypes ==
  ASSUME NEW x \in Wiper, NEW p \in WiperPcs, NEW t \in SUBSET (Recordings \X Files), NEW d
  PROVE  /\ [x EXCEPT !.pc = p] \in Wiper
         /\ [x EXCEPT !.files = x.files \ {d}] \in Wiper
         /\ [pc |-> p, files |-> t] \in Wiper
  BY DEF Wiper

\* Writing a chunk, whole or in part, keeps the file's type and never shortens it.
LEMMA FileTypes ==
  ASSUME NEW x \in File, NEW k \in Chunks
  PROVE  /\ [there |-> TRUE, len |-> Larger(x.len, k), good |-> x.good \cup {k}] \in File
         /\ [there |-> TRUE, len |-> Larger(x.len, k), good |-> x.good] \in File
         /\ [there |-> TRUE, len |-> x.len, good |-> x.good] \in File
         /\ Larger(x.len, k) \in Nat /\ x.len \in Nat
         /\ Larger(x.len, k) >= x.len /\ Larger(x.len, k) >= k
  <1>1. x.len \in 0..NChunks /\ k \in 0..NChunks
    BY DEF File, Chunks
  <1>2. /\ Larger(x.len, k) \in 0..NChunks
        /\ Larger(x.len, k) >= x.len /\ Larger(x.len, k) >= k
    BY <1>1 DEF Larger
  <1> QED
    BY <1>1, <1>2 DEF File

\* One slot, one uploader or one row changes at a time.
LEMMA TypeStep == UploadInv /\ [Next]_vars => TypeOK'
  <1> SUFFICES ASSUME UploadInv, [Next]_vars PROVE TypeOK'
    OBVIOUS
  <1>0. TypeOK
    BY DEF UploadInv
  <1> USE <1>0, FreeTypes
  <1>c. \A r \in Recordings : client[r] \in Client
    BY Records
  <1>a. \A h \in Handlers : handlers[h] \in Handler
    BY Records
  <1>1. ASSUME NEW s \in Sessions, CreateSession(s) PROVE TypeOK'
    BY <1>1 DEF CreateSession, TypeOK
  <1>2. ASSUME NEW s \in Sessions, RecordProbeStats(s) PROVE TypeOK'
    BY <1>2 DEF RecordProbeStats, TypeOK
  <1>3. ASSUME NEW s \in Sessions, WipeLookup(s) PROVE TypeOK'
    <2>1. [wiper[s] EXCEPT !.pc = "collect"] \in Wiper
      BY Records, WiperTypes DEF WiperPcs
    <2> QED
      BY <1>3, <2>1 DEF WipeLookup, TypeOK
  <1>4. ASSUME NEW s \in Sessions, WipeCollect(s) PROVE TypeOK'
    <2>1. [pc |-> "delete", files |-> {r \in RecordingsOf(s) : HasRow(r)} \X Files] \in Wiper
      BY DEF Wiper, WiperPcs, RecordingsOf
    <2> QED
      BY <1>4, <2>1 DEF WipeCollect, TypeOK
  <1>5. ASSUME NEW s \in Sessions, WipeRows(s) PROVE TypeOK'
    <2>1. [wiper[s] EXCEPT !.pc = "unlink"] \in Wiper
      BY Records, WiperTypes DEF WiperPcs
    <2>2. Without(s) \in [Recordings -> Row]
      BY DEF Without, TypeOK
    <2> QED
      BY <1>5, <2>1, <2>2 DEF WipeRows, TypeOK
  <1>6. ASSUME NEW s \in Sessions, WipeFails(s) PROVE TypeOK'
    <2>1. Without(s) \in [Recordings -> Row]
      BY DEF Without, TypeOK
    <2> QED
      BY <1>6, <2>1 DEF WipeFails, TypeOK
  <1>7. ASSUME NEW s \in Sessions, WipeUnlink(s) PROVE TypeOK'
    <2>1. PICK d \in wiper[s].files :
            /\ wiper' = [wiper EXCEPT ![s].files = @ \ {d}]
            /\ \/ disk' = [disk EXCEPT ![d[1]][d[2]] = Absent] /\ UNCHANGED fails
               \/ fails < MaxFails /\ fails' = fails + 1 /\ UNCHANGED disk
      BY <1>7 DEF WipeUnlink
    <2>2. d[1] \in Recordings /\ d[2] \in Files
      BY Records DEF Wiper
    <2>3. [wiper[s] EXCEPT !.files = wiper[s].files \ {d}] \in Wiper
      <3>1. wiper[s] \in Wiper
        BY Records
      <3> QED
        BY <3>1 DEF Wiper
    <2>4. wiper' \in [Sessions -> Wiper]
      BY <2>1, <2>3 DEF TypeOK
    <2>5. disk' \in [Recordings -> [Files -> File]]
      <3>1. [disk[d[1]] EXCEPT ![d[2]] = Absent] \in [Files -> File]
        BY <2>2 DEF TypeOK
      <3> QED
        BY <2>1, <2>2, <3>1 DEF TypeOK
    <2> QED
      BY <1>7, <2>1, <2>4, <2>5 DEF WipeUnlink, TypeOK
  <1>8. ASSUME NEW s \in Sessions, WipeDone(s) PROVE TypeOK'
    BY <1>8 DEF WipeDone, TypeOK
  <1>9. ASSUME NEW r \in Recordings, Prepared(r) PROVE TypeOK'
    <2>1. client[r].req \in Handlers
      BY <1>9, Records DEF Prepared, Client
    <2>2. handlers[client[r].req].saw \in SUBSET Chunks
      BY <2>1, Records DEF Handler
    <2>3. [client[r] EXCEPT !.pc = "chunk", !.req = None,
                            !.have = handlers[client[r].req].saw] \in Client
      BY <1>c, <2>2 DEF Client, ClientPcs
    <2> QED
      BY <1>9, <2>1, <2>3 DEF Prepared, Reply, TypeOK
  <1>10. ASSUME NEW r \in Recordings, SkipChunk(r) PROVE TypeOK'
    <2>1. client[r].next \in Chunks
      BY <1>10, Records DEF SkipChunk, Client
    <2>2. [client[r] EXCEPT !.next = client[r].next + 1] \in Client
      BY <1>c, <2>1 DEF Client, Chunks
    <2> QED
      BY <1>10, <2>2 DEF SkipChunk, TypeOK
  <1>11. ASSUME NEW r \in Recordings, ChunkStored(r) PROVE TypeOK'
    <2>1. client[r].next \in Chunks
      BY <1>11 DEF ChunkStored, UploadInv, Linked
    <2>2. [client[r] EXCEPT !.next = client[r].next + 1, !.tries = Retries, !.req = None] \in Client
      <3>1. Retries \in 1..Retries /\ client[r].next + 1 \in 1..(NChunks + 1)
        BY <2>1 DEF Chunks
      <3> QED
        BY <1>c, <3>1 DEF Client
    <2> QED
      BY <1>11, <2>2 DEF ChunkStored, TypeOK
  <1>12. ASSUME NEW r \in Recordings, Finalized(r) PROVE TypeOK'
    <2>1. [Idle EXCEPT !.pc = "done"] \in Client
      BY <1>c DEF Client, ClientPcs
    <2> QED
      BY <1>12, <2>1 DEF Finalized, TypeOK
  <1>13. ASSUME NEW r \in Recordings, RequestRefused(r) PROVE TypeOK'
    <2>1. AfterError(client[r]) \in Client
      BY <1>c, AfterErrorType
    <2> QED
      BY <1>13, <2>1 DEF RequestRefused, TypeOK
  <1>14. ASSUME NEW r \in Recordings, GiveUp(r) PROVE TypeOK'
    <2>1. AfterError(client[r]) \in Client
      BY <1>c, AfterErrorType
    <2> QED
      BY <1>14, <2>1 DEF GiveUp, TypeOK
  <1>15. ASSUME NEW r \in Recordings, NEW h \in Handlers, StartUpload(r, h) PROVE TypeOK'
    <2>1. [Idle EXCEPT !.pc = "prepare", !.req = h] \in Client
      BY <1>c DEF Client, ClientPcs
    <2>2. [Free EXCEPT !.kind = "prepare", !.rec = r, !.at = 0, !.pc = "start"] \in Handler
      <3>1. \A k \in 0..(NChunks + 1) :
              [Free EXCEPT !.kind = "prepare", !.rec = r, !.at = k, !.pc = "start"] \in Handler
        BY DEF Handler, Kinds, HandlerPcs
      <3>2. 0 \in 0..(NChunks + 1)
        OBVIOUS
      <3> QED
        BY <3>1, <3>2
    <2> QED
      BY <1>15, <2>1, <2>2 DEF StartUpload, Request, TypeOK
  <1>16. ASSUME NEW r \in Recordings, NEW h \in Handlers, SendChunk(r, h) PROVE TypeOK'
    <2>1. [client[r] EXCEPT !.req = h] \in Client
      BY <1>c DEF Client, ClientPcs
    <2>2. client[r].next \in 0..(NChunks + 1)
      BY Records DEF Client
    <2>3. [Free EXCEPT !.kind = "chunk", !.rec = r, !.at = client[r].next, !.pc = "start"] \in Handler
      BY <2>2 DEF Handler, Kinds, HandlerPcs
    <2> QED
      BY <1>16, <2>1, <2>3 DEF SendChunk, Request, TypeOK
  <1>17. ASSUME NEW r \in Recordings, NEW h \in Handlers, AskFinalize(r, h) PROVE TypeOK'
    <2>1. [client[r] EXCEPT !.pc = "finalize", !.req = h] \in Client
      BY <1>c DEF Client, ClientPcs
    <2>2. [Free EXCEPT !.kind = "finalize", !.rec = r, !.at = 1, !.pc = "start"] \in Handler
      <3>1. \A k \in 0..(NChunks + 1) :
              [Free EXCEPT !.kind = "finalize", !.rec = r, !.at = k, !.pc = "start"] \in Handler
        BY DEF Handler, Kinds, HandlerPcs
      <3>2. 1 \in 0..(NChunks + 1)
        OBVIOUS
      <3> QED
        BY <3>1, <3>2
    <2> QED
      BY <1>17, <2>1, <2>2 DEF AskFinalize, Request, TypeOK
  <1>18. ASSUME NEW h \in Handlers, NEW p \in HandlerPcs, Goto(h, p)
         PROVE  handlers' \in [Handlers -> Handler]
    <2>1. [handlers[h] EXCEPT !.pc = p] \in Handler
      BY <1>a DEF Handler
    <2> QED
      BY <1>18, <2>1 DEF Goto, TypeOK
  <1>19. ASSUME NEW h \in Handlers, NEW b \in BOOLEAN, Answer(h, b)
         PROVE  handlers' \in [Handlers -> Handler]
    <2>1. [handlers[h] EXCEPT !.pc = "replied", !.ok = b] \in Handler
      BY <1>a DEF Handler, HandlerPcs
    <2> QED
      BY <1>19, <2>1 DEF Answer, TypeOK
  <1>20. ASSUME NEW h \in Handlers, PrepareStart(h) PROVE TypeOK'
    <2>1. [handlers[h] EXCEPT !.pc = "read", !.at = 1] \in Handler
      <3>1. \A k \in 0..(NChunks + 1) : [handlers[h] EXCEPT !.pc = "read", !.at = k] \in Handler
        BY <1>a DEF Handler, HandlerPcs
      <3>2. 1 \in 0..(NChunks + 1)
        OBVIOUS
      <3> QED
        BY <3>1, <3>2
    <2>2. CASE Answer(h, FALSE)
      BY <1>19, <1>20, <2>2 DEF PrepareStart, TypeOK
    <2>3. CASE handlers' = [handlers EXCEPT ![h].pc = "read", ![h].at = 1]
      <3>1. handlers' \in [Handlers -> Handler]
        BY <2>1, <2>3 DEF TypeOK
      <3> QED
        BY <1>20, <3>1 DEF PrepareStart, TypeOK
    <2> QED
      BY <1>20, <2>2, <2>3 DEF PrepareStart
  <1>21. ASSUME NEW h \in Handlers, ReadChunk(h) PROVE TypeOK'
    <2> DEFINE k == handlers[h].at
               g == disk[handlers[h].rec][FileOf(k)].good
    <2>1. k \in Chunks /\ k + 1 \in 0..(NChunks + 1)
      BY <1>21 DEF ReadChunk, Chunks
    <2>a. After(FileOf(k)) \in 0..(NChunks + 1)
      BY FileOfType, AfterType
    <2>2. [handlers[h] EXCEPT !.at = After(FileOf(k))] \in Handler
      BY <1>a, <2>a DEF Handler
    <2>3. handlers[h].saw \cup ({k} \cap g) \in SUBSET Chunks
      BY <2>1, Records DEF Handler
    <2>4. [handlers[h] EXCEPT !.at = k + 1, !.saw = handlers[h].saw \cup ({k} \cap g)] \in Handler
      BY <1>a, <2>1, <2>3 DEF Handler
    <2>5. handlers' \in [Handlers -> Handler]
      BY <1>21, <2>2, <2>4 DEF ReadChunk, TypeOK
    <2> QED
      BY <1>21, <2>5 DEF ReadChunk, TypeOK
  <1>22. ASSUME NEW h \in Handlers, ReadDone(h) PROVE TypeOK'
    BY <1>18, <1>22 DEF ReadDone, HandlerPcs, TypeOK
  <1>23. ASSUME NEW h \in Handlers, PrepareSizes(h) PROVE TypeOK'
    <2>1. handlers[h].rec \in Recordings
      BY <1>23 DEF PrepareSizes, At, UploadInv, Truthful
    <2>2. [f \in Files |-> disk[handlers[h].rec][f].len] \in [Files -> 0..NChunks]
      BY <2>1, Records DEF File
    <2>3. [handlers[h] EXCEPT !.pc = "store",
             !.size = [f \in Files |-> disk[handlers[h].rec][f].len]] \in Handler
      BY <1>a, <2>2 DEF Handler, HandlerPcs
    <2> QED
      BY <1>23, <2>3 DEF PrepareSizes, TypeOK
  <1>24. ASSUME NEW h \in Handlers, PrepareRow(h) PROVE TypeOK'
    <2>1. handlers[h].rec \in Recordings /\ handlers[h].size \in [Files -> 0..NChunks]
      BY <1>24, Records DEF PrepareRow, At, UploadInv, Truthful, Handler
    <2>2. rows[handlers[h].rec].status \in Statuses
      BY <2>1, Records DEF Row
    <2>3. \A p \in Statuses : [status |-> p, bytes |-> handlers[h].size] \in Row
      BY <2>1 DEF Row
    <2>4. rows' \in [Recordings -> Row]
      BY <1>24, <2>1, <2>2, <2>3 DEF PrepareRow, TypeOK, Statuses
    <2> QED
      BY <1>19, <1>24, <2>4 DEF PrepareRow, TypeOK
  <1>25. ASSUME NEW h \in Handlers, ChunkPath(h) PROVE TypeOK'
    BY <1>18, <1>19, <1>25 DEF ChunkPath, HandlerPcs, TypeOK
  <1>26. ASSUME NEW h \in Handlers, ChunkWrite(h) PROVE TypeOK'
    <2> DEFINE k == handlers[h].at
               x == disk[handlers[h].rec][FileOf(k)]
    <2>1. handlers[h].rec \in Recordings /\ k \in Chunks /\ FileOf(k) \in Files
      BY <1>26, FileOfType DEF ChunkWrite, At, UploadInv, Truthful, ChunkJobs
    <2>2. [there |-> TRUE, len |-> Larger(x.len, k), good |-> x.good \cup {k}] \in File
      BY <2>1, Records, FileTypes
    <2>3. disk' \in [Recordings -> [Files -> File]]
      BY <1>26, <2>1, <2>2 DEF ChunkWrite, TypeOK
    <2> QED
      BY <1>18, <1>26, <2>3 DEF ChunkWrite, HandlerPcs, TypeOK
  <1>27. ASSUME NEW h \in Handlers, ChunkWriteFails(h) PROVE TypeOK'
    <2> DEFINE k == handlers[h].at
               r == handlers[h].rec
               f == FileOf(k)
               x == disk[r][f]
    <2>1. r \in Recordings /\ k \in Chunks /\ f \in Files
      BY <1>27, FileOfType DEF ChunkWriteFails, At, UploadInv, Truthful, ChunkJobs
    <2>2. /\ [there |-> TRUE, len |-> Larger(x.len, k), good |-> x.good] \in File
          /\ [there |-> TRUE, len |-> x.len, good |-> x.good] \in File
      BY <2>1, Records, FileTypes
    <2>a. /\ [disk[r] EXCEPT ![f] = [there |-> TRUE, len |-> Larger(x.len, k), good |-> x.good]]
             \in [Files -> File]
          /\ [disk[r] EXCEPT ![f] = [there |-> TRUE, len |-> x.len, good |-> x.good]]
             \in [Files -> File]
      BY <2>1, <2>2 DEF TypeOK
    <2>b. \/ disk' = [disk EXCEPT ![r] = [disk[r] EXCEPT ![f] =
                        [there |-> TRUE, len |-> Larger(x.len, k), good |-> x.good]]]
          \/ disk' = [disk EXCEPT ![r] = [disk[r] EXCEPT ![f] =
                        [there |-> TRUE, len |-> x.len, good |-> x.good]]]
      BY <1>27 DEF ChunkWriteFails
    <2>3. disk' \in [Recordings -> [Files -> File]]
      BY <2>1, <2>a, <2>b DEF TypeOK
    <2>c. fails' \in 0..MaxFails
      BY <1>27 DEF ChunkWriteFails, TypeOK
    <2> QED
      BY <1>19, <1>27, <2>3, <2>c DEF ChunkWriteFails, TypeOK
  <1>28. ASSUME NEW h \in Handlers, ChunkBytes(h) PROVE TypeOK'
    <2> DEFINE k == handlers[h].at
               r == handlers[h].rec
    <2>1. r \in Recordings /\ k \in Chunks /\ FileOf(k) \in Files
      BY <1>28, FileOfType DEF ChunkBytes, At, UploadInv, Truthful, ChunkJobs
    <2>2. [rows[r] EXCEPT !.bytes[FileOf(k)] = Larger(rows[r].bytes[FileOf(k)], k)] \in Row
      <3>1. rows[r] \in Row
        BY <2>1, Records
      <3>2. Larger(rows[r].bytes[FileOf(k)], k) \in 0..NChunks
        BY <2>1, <3>1 DEF Row, Larger, Chunks
      <3> QED
        BY <2>1, <3>1, <3>2 DEF Row
    <2>3. rows' \in [Recordings -> Row]
      BY <1>28, <2>1, <2>2 DEF ChunkBytes, TypeOK
    <2> QED
      BY <1>19, <1>28, <2>3 DEF ChunkBytes, TypeOK
  <1>29. ASSUME NEW h \in Handlers, FinalizeRow(h) PROVE TypeOK'
    BY <1>18, <1>19, <1>29 DEF FinalizeRow, HandlerPcs, TypeOK
  <1>30. ASSUME NEW h \in Handlers, FinalizeStatus(h) PROVE TypeOK'
    <2>1. handlers[h].rec \in Recordings
      BY <1>30 DEF FinalizeStatus, At, UploadInv, Truthful
    <2>2. \A p \in {"complete", "failed"} : [rows[handlers[h].rec] EXCEPT !.status = p] \in Row
      BY <2>1, Records DEF Row, Statuses
    <2>3. rows' \in [Recordings -> Row]
      BY <1>30, <2>1, <2>2 DEF FinalizeStatus, TypeOK
    <2> QED
      BY <1>19, <1>30, <2>3 DEF FinalizeStatus, TypeOK
  <1>31. ASSUME NEW h \in Handlers, HandlerFails(h) PROVE TypeOK'
    <2>1. handlers' \in [Handlers -> Handler]
      BY <1>19, <1>31 DEF HandlerFails
    <2>2. fails' \in 0..MaxFails
      BY <1>31 DEF HandlerFails, TypeOK
    <2> QED
      BY <1>31, <2>1, <2>2 DEF HandlerFails, TypeOK
  <1>32. ASSUME NEW h \in Handlers, Drop(h) PROVE TypeOK'
    BY <1>32 DEF Drop, TypeOK
  <1>33. CASE Crash
    <2>1. \A r \in Recordings : AfterError(client[r]) \in Client
      BY <1>c, AfterErrorType
    <2> QED
      BY <1>33, <2>1 DEF Crash, TypeOK
  <1>34. CASE UNCHANGED vars
    BY <1>34 DEF vars, TypeOK
  <1> QED
    BY <1>1, <1>2, <1>3, <1>4, <1>5, <1>6, <1>7, <1>8, <1>9, <1>10, <1>11, <1>12, <1>13,
       <1>14, <1>15, <1>16, <1>17, <1>20, <1>21, <1>22, <1>23, <1>24, <1>25, <1>26, <1>27,
       <1>28, <1>29, <1>30, <1>31, <1>32, <1>33, <1>34
       DEF Next, Survey, Browser, Handle, Wipe

----------------------------------------------------------------------------
(* Files of recordings that are kept only grow.                            *)

Grown(d1, w1, d2, w2) ==
  /\ w1 \subseteq w2
  /\ \A r \in Recordings : SessionOf[r] \notin w2 =>
       \A f \in Files : /\ d1[r][f].good \subseteq d2[r][f].good
                        /\ d1[r][f].len <= d2[r][f].len

Lengths(d) == \A r \in Recordings, f \in Files : d[r][f].len \in Nat

\* The lengths of the files are numbers, now
LEMMA DiskLengths == ASSUME TypeOK PROVE Lengths(disk)
  BY Records DEF Lengths, File

\* ... and after the step.
LEMMA NextLengths == ASSUME TypeOK' PROVE Lengths(disk')
  <1>1. \A r \in Recordings, f \in Files : disk'[r][f] \in File
    BY DEF TypeOK
  <1> QED
    BY <1>1 DEF Lengths, File

\* Only WipeUnlink removes a file, and by then the session counts as wiped.
LEMMA DiskGrows ==
  ASSUME UploadInv, [Next]_vars
  PROVE  Grown(disk, wiped, disk', wiped') /\ LengthsCover(disk')
  <1>0. TypeOK /\ Lengths(disk) /\ LengthsCover(disk)
    BY DiskLengths DEF UploadInv
  <1>1. ASSUME UNCHANGED disk, wiped \subseteq wiped'
        PROVE  Grown(disk, wiped, disk', wiped') /\ LengthsCover(disk')
    BY <1>0, <1>1 DEF Grown, Lengths, LengthsCover
  <1>2. ASSUME NEW r \in Recordings, NEW f \in Files, NEW x \in File,
               disk' = [disk EXCEPT ![r] = [disk[r] EXCEPT ![f] = x]], UNCHANGED wiped,
               \A k \in x.good : k <= x.len,
               \/ SessionOf[r] \in wiped
               \/ disk[r][f].good \subseteq x.good /\ disk[r][f].len <= x.len
        PROVE  Grown(disk, wiped, disk', wiped') /\ LengthsCover(disk')
    <2> SUFFICES ASSUME NEW q \in Recordings, NEW e \in Files
                 PROVE  /\ \A k \in disk'[q][e].good : k <= disk'[q][e].len
                        /\ SessionOf[q] \notin wiped =>
                             /\ disk[q][e].good \subseteq disk'[q][e].good
                             /\ disk[q][e].len <= disk'[q][e].len
      BY <1>2 DEF Grown, LengthsCover
    <2>1. CASE q = r /\ e = f
      <3>1. disk'[q][e] = x
        BY <1>0, <1>2, <2>1 DEF TypeOK
      <3> QED
        BY <1>2, <2>1, <3>1
    <2>2. CASE ~(q = r /\ e = f)
      <3>1. disk'[q][e] = disk[q][e]
        BY <1>0, <1>2, <2>2 DEF TypeOK
      <3> QED
        BY <1>0, <3>1 DEF Lengths, LengthsCover
    <2> QED
      BY <2>1, <2>2
  <1>3. ASSUME NEW s \in Sessions, WipeUnlink(s)
        PROVE  Grown(disk, wiped, disk', wiped') /\ LengthsCover(disk')
    <2>1. PICK d \in wiper[s].files :
            \/ disk' = [disk EXCEPT ![d[1]] = [disk[d[1]] EXCEPT ![d[2]] = Absent]]
            \/ UNCHANGED disk
      BY <1>3 DEF WipeUnlink
    <2>2. d[1] \in Recordings /\ d[2] \in Files
      BY <1>0, Records DEF Wiper
    <2>3. SessionOf[d[1]] \in wiped
      BY <1>3 DEF WipeUnlink, UploadInv, WipesOwnFiles
    <2>4. \A k \in Absent.good : k <= Absent.len
      BY DEF Absent
    <2> QED
      BY <1>1, <1>2, <1>3, <2>1, <2>2, <2>3, <2>4, FreeTypes DEF WipeUnlink
  <1>4. ASSUME NEW h \in Handlers, ChunkWrite(h)
        PROVE  Grown(disk, wiped, disk', wiped') /\ LengthsCover(disk')
    <2> DEFINE k == handlers[h].at
               r == handlers[h].rec
               f == FileOf(k)
               x == [there |-> TRUE, len |-> Larger(disk[r][f].len, k),
                     good |-> disk[r][f].good \cup {k}]
    <2>1. r \in Recordings /\ k \in Chunks /\ f \in Files
      BY <1>4, FileOfType DEF ChunkWrite, At, UploadInv, Truthful, ChunkJobs
    <2>2. x \in File /\ disk[r][f].len <= x.len /\ disk[r][f].good \subseteq x.good
      BY <1>0, <2>1, Records, FileTypes
    <2>3. disk' = [disk EXCEPT ![r] = [disk[r] EXCEPT ![f] = x]] /\ UNCHANGED wiped
      BY <1>4 DEF ChunkWrite
    <2>4. \A n \in x.good : n <= x.len
      <3>1. disk[r][f].good \subseteq Chunks /\ disk[r][f].len \in Nat /\ k \in Nat
        BY <1>0, <2>1, Records DEF File, Chunks
      <3>2. \A n \in disk[r][f].good : n <= disk[r][f].len
        BY <1>0, <2>1 DEF LengthsCover
      <3> QED
        BY <3>1, <3>2 DEF Larger, Chunks
    <2> QED
      BY <1>2, <2>1, <2>2, <2>3, <2>4
  <1>5. ASSUME NEW h \in Handlers, ChunkWriteFails(h)
        PROVE  Grown(disk, wiped, disk', wiped') /\ LengthsCover(disk')
    <2> DEFINE k == handlers[h].at
               r == handlers[h].rec
               f == FileOf(k)
               x == [there |-> TRUE, len |-> Larger(disk[r][f].len, k), good |-> disk[r][f].good]
               y == [there |-> TRUE, len |-> disk[r][f].len, good |-> disk[r][f].good]
    <2>1. r \in Recordings /\ k \in Chunks /\ f \in Files
      BY <1>5, FileOfType DEF ChunkWriteFails, At, UploadInv, Truthful, ChunkJobs
    <2>2. x \in File /\ disk[r][f].len <= x.len /\ disk[r][f].good \subseteq x.good
      BY <1>0, <2>1, Records, FileTypes
    <2>3. y \in File /\ disk[r][f].len <= y.len /\ disk[r][f].good \subseteq y.good
      <3>1. y \in File /\ disk[r][f].len \in Nat
        BY <1>0, <2>1, Records, FileTypes
      <3> QED
        BY <3>1
    <2>4. \/ disk' = [disk EXCEPT ![r] = [disk[r] EXCEPT ![f] = x]]
          \/ disk' = [disk EXCEPT ![r] = [disk[r] EXCEPT ![f] = y]]
      BY <1>5 DEF ChunkWriteFails
    <2>5. UNCHANGED wiped
      BY <1>5 DEF ChunkWriteFails
    <2>6. \A n \in x.good : n <= x.len
      <3>1. disk[r][f].good \subseteq Chunks /\ disk[r][f].len \in Nat /\ k \in Nat
        BY <1>0, <2>1, Records DEF File, Chunks
      <3>2. \A n \in disk[r][f].good : n <= disk[r][f].len
        BY <1>0, <2>1 DEF LengthsCover
      <3> QED
        BY <3>1, <3>2 DEF Larger, Chunks
    <2>7. \A n \in y.good : n <= y.len
      <3>1. disk[r][f].good \subseteq Chunks /\ disk[r][f].len \in Nat /\ k \in Nat
        BY <1>0, <2>1, Records DEF File, Chunks
      <3>2. \A n \in disk[r][f].good : n <= disk[r][f].len
        BY <1>0, <2>1 DEF LengthsCover
      <3> QED
        BY <3>1, <3>2 DEF Larger, Chunks
    <2> HIDE DEF x, y, r, f
    <2> QED
      BY <1>2, <2>1, <2>2, <2>3, <2>4, <2>5, <2>6, <2>7
  <1>6. CASE UNCHANGED disk /\ wiped \subseteq wiped'
    BY <1>1, <1>6
  <1>7. \/ UNCHANGED disk /\ wiped \subseteq wiped'
        \/ \E s \in Sessions : WipeUnlink(s)
        \/ \E h \in Handlers : ChunkWrite(h) \/ ChunkWriteFails(h)
    BY DEF Next, vars, Survey, Browser, Handle, Wipe, CreateSession, RecordProbeStats,
           WipeLookup, WipeCollect, WipeRows, WipeFails, WipeDone, Prepared, SkipChunk,
           ChunkStored, Finalized, RequestRefused, GiveUp, StartUpload, SendChunk,
           AskFinalize, PrepareStart, ReadChunk, ReadDone, PrepareSizes, PrepareRow,
           ChunkPath, ChunkBytes, FinalizeRow, FinalizeStatus, HandlerFails, Drop, Crash
  <1> QED
    BY <1>3, <1>4, <1>5, <1>6, <1>7

\* A chunk that is on disk stays there while its session is not wiped.
LEMMA StoredStays ==
  ASSUME NEW d1, NEW w1, NEW d2, NEW w2, Grown(d1, w1, d2, w2),
         NEW r \in Recordings, SessionOf[r] \notin w2, NEW k, Stored(r, k, d1)
  PROVE  Stored(r, k, d2)
  BY FileOfType DEF Grown, Stored

\* So what a handler has read or written stays true,
LEMMA TruthfulStays ==
  ASSUME NEW d1, NEW w1, NEW d2, NEW w2, Grown(d1, w1, d2, w2), Lengths(d1), Lengths(d2),
         NEW j \in Handler, Truthful(j, d1, w1)
  PROVE  Truthful(j, d2, w2)
  <1> SUFFICES ASSUME j.kind # "free", SessionOf[j.rec] \notin w2
               PROVE  /\ \A k \in j.saw : Stored(j.rec, k, d2)
                      /\ \A f \in Files : j.size[f] <= d2[j.rec][f].len
                      /\ j.kind = "chunk" /\ (j.pc = "store" \/ (j.pc = "replied" /\ j.ok)) =>
                           Stored(j.rec, j.at, d2)
    BY DEF Truthful
  <1>1. j.rec \in Recordings /\ SessionOf[j.rec] \notin w1
    BY DEF Truthful, Grown
  <1>2. \A f \in Files : j.size[f] <= d2[j.rec][f].len
    <2> TAKE f \in Files
    <2>1. j.size[f] \in Nat /\ d1[j.rec][f].len \in Nat /\ d2[j.rec][f].len \in Nat
      BY <1>1 DEF Handler, Lengths
    <2>2. j.size[f] <= d1[j.rec][f].len /\ d1[j.rec][f].len <= d2[j.rec][f].len
      BY <1>1 DEF Truthful, Grown
    <2> QED
      BY <2>1, <2>2
  <1> QED
    BY <1>1, <1>2, StoredStays DEF Truthful

\* what the uploader relies on stays true,
LEMMA ReliesStays ==
  ASSUME NEW d1, NEW w1, NEW d2, NEW w2, Grown(d1, w1, d2, w2),
         NEW r \in Recordings, NEW c, Relies(c, r, d1, w1)
  PROVE  Relies(c, r, d2, w2)
  BY StoredStays DEF Relies, Grown

\* and what a row claims stays true.
LEMMA RowSoundStays ==
  ASSUME NEW d1, NEW w1, NEW d2, NEW w2, Grown(d1, w1, d2, w2), Lengths(d1), Lengths(d2),
         NEW r \in Recordings, NEW row \in Row, RowSound(row, r, d1, w1)
  PROVE  RowSound(row, r, d2, w2)
  <1> SUFFICES ASSUME SessionOf[r] \notin w2
               PROVE  /\ row.status = "complete" => \A k \in Chunks : Stored(r, k, d2)
                      /\ \A f \in Files : row.bytes[f] <= d2[r][f].len
    BY DEF RowSound
  <1>1. SessionOf[r] \notin w1
    BY DEF Grown
  <1>2. \A f \in Files : row.bytes[f] <= d2[r][f].len
    <2> TAKE f \in Files
    <2>1. row.bytes[f] \in Nat /\ d1[r][f].len \in Nat /\ d2[r][f].len \in Nat
      BY DEF Row, Lengths
    <2>2. row.bytes[f] <= d1[r][f].len /\ d1[r][f].len <= d2[r][f].len
      BY <1>1 DEF RowSound, Grown
    <2> QED
      BY <2>1, <2>2
  <1> QED
    BY <1>1, <1>2, StoredStays DEF RowSound

----------------------------------------------------------------------------
(* The parts of the invariant about the database and the wipe.             *)

\* A wipe deletes only files of its own session, and only after its rows.
LEMMA WipeStep == UploadInv /\ [Next]_vars => WipesOwnFiles'
  <1> SUFFICES ASSUME UploadInv, [Next]_vars PROVE WipesOwnFiles'
    OBVIOUS
  <1>0. TypeOK /\ WipesOwnFiles /\ \A s \in Sessions : wiper[s] \in Wiper
    BY Records DEF UploadInv
  <1>1. ASSUME UNCHANGED wiper, wiped \subseteq wiped' PROVE WipesOwnFiles'
    BY <1>0, <1>1 DEF WipesOwnFiles
  <1>2. ASSUME NEW s \in Sessions, WipeLookup(s) PROVE WipesOwnFiles'
    BY <1>0, <1>2 DEF WipeLookup, WipesOwnFiles, TypeOK, Wiper
  <1>3. ASSUME NEW s \in Sessions, WipeCollect(s) PROVE WipesOwnFiles'
    BY <1>0, <1>3 DEF WipeCollect, WipesOwnFiles, TypeOK, Wiper, RecordingsOf
  <1>4. ASSUME NEW s \in Sessions, WipeRows(s) PROVE WipesOwnFiles'
    BY <1>0, <1>4 DEF WipeRows, WipesOwnFiles, TypeOK, Wiper
  <1>5. ASSUME NEW s \in Sessions, WipeFails(s) PROVE WipesOwnFiles'
    BY <1>0, <1>5 DEF WipeFails, WipesOwnFiles, TypeOK, NoWipe
  <1>6. ASSUME NEW s \in Sessions, WipeUnlink(s) PROVE WipesOwnFiles'
    BY <1>0, <1>6 DEF WipeUnlink, WipesOwnFiles, TypeOK, Wiper
  <1>7. ASSUME NEW s \in Sessions, WipeDone(s) PROVE WipesOwnFiles'
    BY <1>0, <1>7 DEF WipeDone, WipesOwnFiles, TypeOK, NoWipe
  <1>8. CASE Crash
    BY <1>0, <1>8 DEF Crash, WipesOwnFiles, TypeOK, NoWipe
  <1>9. CASE UNCHANGED wiper /\ wiped \subseteq wiped'
    BY <1>1, <1>9
  <1>10. \/ UNCHANGED wiper /\ wiped \subseteq wiped'
         \/ \E s \in Sessions : \/ WipeLookup(s) \/ WipeCollect(s) \/ WipeRows(s)
                                \/ WipeFails(s) \/ WipeUnlink(s) \/ WipeDone(s)
         \/ Crash
    BY DEF Next, vars, Survey, Browser, Handle, Wipe, CreateSession, RecordProbeStats,
           Prepared, SkipChunk, ChunkStored, Finalized, RequestRefused, GiveUp,
           StartUpload, SendChunk, AskFinalize, PrepareStart, ReadChunk, ReadDone,
           PrepareSizes, PrepareRow, ChunkPath, ChunkWrite, ChunkWriteFails, ChunkBytes,
           FinalizeRow, FinalizeStatus, HandlerFails, Drop
  <1> QED
    BY <1>2, <1>3, <1>4, <1>5, <1>6, <1>7, <1>8, <1>9, <1>10

\* No step leaves a recording or a metric row without its session row.
LEMMA RowsStep == UploadInv /\ [Next]_vars => RowsWipeable'
  <1> SUFFICES ASSUME UploadInv, [Next]_vars PROVE RowsWipeable'
    OBVIOUS
  <1>0. TypeOK /\ RowsWipeable /\ \A r \in Recordings : rows[r] \in Row
    BY Records DEF UploadInv
  <1>1. CASE UNCHANGED <<sessions, metrics, rows>>
    BY <1>0, <1>1 DEF RowsWipeable, HasRow
  <1>2. ASSUME NEW s \in Sessions, CreateSession(s) PROVE RowsWipeable'
    BY <1>0, <1>2 DEF CreateSession, RowsWipeable, HasRow
  <1>3. ASSUME NEW s \in Sessions, RecordProbeStats(s) PROVE RowsWipeable'
    BY <1>0, <1>3 DEF RecordProbeStats, RowsWipeable, HasRow
  <1>4. ASSUME NEW s \in Sessions, WipeRows(s) PROVE RowsWipeable'
    BY <1>0, <1>4 DEF WipeRows, Without, RowsWipeable, HasRow
  <1>5. ASSUME NEW s \in Sessions, WipeFails(s) PROVE RowsWipeable'
    <2>1. rows' = rows \/ rows' = Without(s)
      BY <1>5 DEF WipeFails
    <2>2. \A r \in Recordings : rows'[r] = rows[r] \/ rows'[r] = NoRow
      BY <2>1 DEF Without
    <2>3. UNCHANGED sessions /\ metrics' \subseteq metrics
      BY <1>5 DEF WipeFails
    <2> QED
      BY <1>0, <2>2, <2>3 DEF RowsWipeable, HasRow
  <1>6. ASSUME NEW h \in Handlers, PrepareRow(h) PROVE RowsWipeable'
    <2>1. handlers[h].rec \in Recordings
      BY <1>6 DEF PrepareRow, At, UploadInv, Truthful
    <2>2. SessionOf[handlers[h].rec] \in sessions \/ UNCHANGED rows
      BY <1>0, <1>6, <2>1 DEF PrepareRow, RowsWipeable
    <2>3. \A r \in Recordings : r # handlers[h].rec => rows'[r] = rows[r]
      BY <1>0, <1>6 DEF PrepareRow, TypeOK
    <2>4. UNCHANGED <<sessions, metrics>>
      BY <1>6 DEF PrepareRow
    <2> QED
      BY <1>0, <2>1, <2>2, <2>3, <2>4 DEF RowsWipeable, HasRow
  <1>7. ASSUME NEW h \in Handlers, ChunkBytes(h) \/ FinalizeStatus(h) PROVE RowsWipeable'
    <2>1. \A r \in Recordings : HasRow(r)' => HasRow(r)
      <3> TAKE r \in Recordings
      <3>1. CASE r = handlers[h].rec
        BY <1>7, <3>1 DEF ChunkBytes, FinalizeStatus, HasRow
      <3>2. CASE r # handlers[h].rec
        <4>1. rows'[r] = rows[r]
          BY <1>0, <1>7, <3>2 DEF ChunkBytes, FinalizeStatus, TypeOK
        <4> QED
          BY <4>1 DEF HasRow
      <3> QED
        BY <3>1, <3>2
    <2>2. UNCHANGED <<sessions, metrics>>
      BY <1>7 DEF ChunkBytes, FinalizeStatus
    <2> QED
      BY <1>0, <2>1, <2>2 DEF RowsWipeable
  <1>8. \/ UNCHANGED <<sessions, metrics, rows>>
        \/ \E s \in Sessions : \/ CreateSession(s) \/ RecordProbeStats(s)
                               \/ WipeRows(s) \/ WipeFails(s)
        \/ \E h \in Handlers : PrepareRow(h) \/ ChunkBytes(h) \/ FinalizeStatus(h)
    BY DEF Next, vars, Survey, Browser, Handle, Wipe, WipeLookup, WipeCollect, WipeUnlink,
           WipeDone, Prepared, SkipChunk, ChunkStored, Finalized, RequestRefused, GiveUp,
           StartUpload, SendChunk, AskFinalize, PrepareStart, ReadChunk, ReadDone,
           PrepareSizes, ChunkPath, ChunkWrite, ChunkWriteFails, FinalizeRow,
           HandlerFails, Drop, Crash
  <1> QED
    BY <1>1, <1>2, <1>3, <1>4, <1>5, <1>6, <1>7, <1>8

\* What a row claims is on disk after every step (prepare_upload, upload_chunk,
\* finalize_upload).
LEMMA RowSoundStep ==
  ASSUME UploadInv, [Next]_vars, TypeOK', NEW r \in Recordings
  PROVE  RowSound(rows'[r], r, disk', wiped')
  <1>0. TypeOK /\ rows[r] \in Row /\ Lengths(disk) /\ Lengths(disk')
    BY Records, DiskLengths, NextLengths DEF UploadInv
  <1>1. Grown(disk, wiped, disk', wiped') /\ LengthsCover(disk')
    BY DiskGrows
  <1>2. RowSound(rows[r], r, disk', wiped')
    <2>1. RowSound(rows[r], r, disk, wiped)
      BY DEF UploadInv
    <2> QED
      BY <1>0, <1>1, <2>1, RowSoundStays
  <1>3. RowSound(NoRow, r, disk', wiped')
    BY <1>0 DEF RowSound, NoRow, Lengths
  <1>4. CASE rows'[r] = rows[r] \/ rows'[r] = NoRow
    BY <1>2, <1>3, <1>4
  <1>5. ASSUME NEW h \in Handlers, PrepareRow(h), handlers[h].rec = r
        PROVE  RowSound(rows'[r], r, disk', wiped')
    <2>1. UNCHANGED <<disk, wiped>>
      BY <1>5 DEF PrepareRow
    <2>2. SessionOf[r] \notin wiped => \A f \in Files : handlers[h].size[f] <= disk[r][f].len
      BY <1>5 DEF PrepareRow, At, UploadInv, Truthful
    <2>3. \/ rows'[r] = rows[r]
          \/ /\ rows'[r].bytes = handlers[h].size
             /\ rows'[r].status = "complete" => rows[r].status = "complete"
      <3>1. \/ rows'[r] = rows[r]
            \/ rows'[r] = [status |-> rows[r].status, bytes |-> handlers[h].size]
            \/ rows'[r] = [status |-> "uploading", bytes |-> handlers[h].size]
        BY <1>0, <1>5 DEF PrepareRow, TypeOK
      <3> QED
        BY <3>1
    <2> QED
      BY <1>2, <2>1, <2>2, <2>3 DEF RowSound
  <1>6. ASSUME NEW h \in Handlers, ChunkBytes(h), handlers[h].rec = r
        PROVE  RowSound(rows'[r], r, disk', wiped')
    <2> DEFINE k == handlers[h].at
    <2>1. UNCHANGED <<disk, wiped>> /\ k \in Chunks
      BY <1>6 DEF ChunkBytes, At, UploadInv, ChunkJobs
    <2>2. SessionOf[r] \notin wiped => k <= disk[r][FileOf(k)].len
      <3>1. SessionOf[r] \notin wiped => Stored(r, k, disk)
        BY <1>6 DEF ChunkBytes, At, UploadInv, Truthful
      <3> QED
        BY <3>1, FileOfType DEF Stored, UploadInv, LengthsCover
    <2>3. /\ rows'[r].status = rows[r].status
          /\ \A f \in Files : \/ rows'[r].bytes[f] = rows[r].bytes[f]
                              \/ f = FileOf(k) /\ rows'[r].bytes[f] = Larger(rows[r].bytes[f], k)
      BY <1>0, <1>6 DEF ChunkBytes, TypeOK, Row
    <2> QED
      BY <1>2, <2>1, <2>2, <2>3 DEF RowSound, Larger
  <1>7. ASSUME NEW h \in Handlers, FinalizeStatus(h), handlers[h].rec = r
        PROVE  RowSound(rows'[r], r, disk', wiped')
    <2>1. UNCHANGED <<disk, wiped>>
      BY <1>7 DEF FinalizeStatus
    <2>2. SessionOf[r] \notin wiped => \A k \in handlers[h].saw : Stored(r, k, disk)
      BY <1>7 DEF FinalizeStatus, At, UploadInv, Truthful
    <2>3. \/ rows'[r] = rows[r]
          \/ /\ rows'[r].bytes = rows[r].bytes
             /\ rows'[r].status = "complete" => Chunks \subseteq handlers[h].saw
      BY <1>0, <1>7 DEF FinalizeStatus, TypeOK, Row
    <2> QED
      BY <1>2, <2>1, <2>2, <2>3 DEF RowSound
  <1>8. \/ rows'[r] = rows[r] \/ rows'[r] = NoRow
        \/ \E h \in Handlers : /\ PrepareRow(h) \/ ChunkBytes(h) \/ FinalizeStatus(h)
                               /\ handlers[h].rec = r
    <2>1. ASSUME NEW h \in Handlers, PrepareRow(h) \/ ChunkBytes(h) \/ FinalizeStatus(h),
                 handlers[h].rec # r
          PROVE  rows'[r] = rows[r]
      BY <1>0, <2>1 DEF PrepareRow, ChunkBytes, FinalizeStatus, TypeOK
    <2>2. ASSUME NEW s \in Sessions, WipeRows(s) \/ WipeFails(s)
          PROVE  rows'[r] = rows[r] \/ rows'[r] = NoRow
      BY <2>2 DEF WipeRows, WipeFails, Without
    <2>3. \/ UNCHANGED rows
          \/ \E s \in Sessions : WipeRows(s) \/ WipeFails(s)
          \/ \E h \in Handlers : PrepareRow(h) \/ ChunkBytes(h) \/ FinalizeStatus(h)
      BY DEF Next, vars, Survey, Browser, Handle, Wipe, CreateSession, RecordProbeStats,
             WipeLookup, WipeCollect, WipeUnlink, WipeDone, Prepared, SkipChunk,
             ChunkStored, Finalized, RequestRefused, GiveUp, StartUpload, SendChunk,
             AskFinalize, PrepareStart, ReadChunk, ReadDone, PrepareSizes, ChunkPath,
             ChunkWrite, ChunkWriteFails, FinalizeRow, HandlerFails, Drop, Crash
    <2> QED
      BY <2>1, <2>2, <2>3
  <1> QED
    BY <1>4, <1>5, <1>6, <1>7, <1>8

----------------------------------------------------------------------------
(* The parts about the handlers and the uploaders.                         *)

\* What moving a handler on does to the handlers.
LEMMA GotoFields ==
  ASSUME TypeOK, NEW h \in Handlers, NEW p, Goto(h, p)
  PROVE  /\ \A g \in Handlers : g # h => handlers'[g] = handlers[g]
         /\ handlers'[h].pc = p /\ handlers'[h].kind = handlers[h].kind
         /\ handlers'[h].rec = handlers[h].rec /\ handlers'[h].at = handlers[h].at
         /\ handlers'[h].saw = handlers[h].saw /\ handlers'[h].size = handlers[h].size
  <1>1. handlers[h] \in Handler
    BY Records
  <1> QED
    BY <1>1 DEF Goto, TypeOK, Handler

\* What a reply does to them.
LEMMA AnswerFields ==
  ASSUME TypeOK, NEW h \in Handlers, NEW b, Answer(h, b)
  PROVE  /\ \A g \in Handlers : g # h => handlers'[g] = handlers[g]
         /\ handlers'[h].pc = "replied" /\ handlers'[h].ok = b
         /\ handlers'[h].kind = handlers[h].kind
         /\ handlers'[h].rec = handlers[h].rec /\ handlers'[h].at = handlers[h].at
         /\ handlers'[h].saw = handlers[h].saw /\ handlers'[h].size = handlers[h].size
  <1>1. handlers[h] \in Handler
    BY Records
  <1> QED
    BY <1>1 DEF Answer, TypeOK, Handler

\* What a new request does to them.
LEMMA RequestFields ==
  ASSUME TypeOK, NEW h \in Handlers, NEW r, NEW kind, NEW k, Request(h, r, kind, k)
  PROVE  /\ \A g \in Handlers : g # h => handlers'[g] = handlers[g]
         /\ handlers[h].kind = "free"
         /\ handlers'[h].pc = "start" /\ handlers'[h].kind = kind
         /\ handlers'[h].rec = r /\ handlers'[h].at = k
         /\ handlers'[h].saw = {} /\ handlers'[h].size = [f \in Files |-> 0]
  BY DEF Request, TypeOK, Free

\* The handler steps, by what they do to the job: a step that keeps kind,
\* recording, chunk, what was read and the sizes.
Moved(i, j) == /\ i.kind = j.kind /\ i.rec = j.rec /\ i.at = j.at
               /\ i.saw = j.saw /\ i.size = j.size

\* A handler that only moves on stays truthful, if the chunk it has to have
\* stored is stored.
LEMMA MovedTruthful ==
  ASSUME NEW i, NEW j, NEW d, NEW w, Truthful(j, d, w), Moved(i, j),
         \/ i.kind # "chunk"
         \/ ~(i.pc = "store" \/ (i.pc = "replied" /\ i.ok))
         \/ SessionOf[i.rec] \in w
         \/ Stored(i.rec, i.at, d)
  PROVE  Truthful(i, d, w)
  BY DEF Truthful, Moved

\* Every handler is truthful after every step.
LEMMA HandlerStep ==
  ASSUME UploadInv, [Next]_vars, TypeOK', NEW g \in Handlers
  PROVE  /\ Truthful(handlers'[g], disk', wiped')
         /\ handlers'[g].kind = "chunk" => handlers'[g].at \in Chunks
  <1> DEFINE Good(j) == /\ Truthful(j, disk', wiped')
                        /\ j.kind = "chunk" => j.at \in Chunks
  <1> SUFFICES Good(handlers'[g])
    OBVIOUS
  <1>0. TypeOK /\ Lengths(disk) /\ Lengths(disk') /\ \A h \in Handlers : handlers[h] \in Handler
    BY Records, DiskLengths, NextLengths DEF UploadInv
  <1>1. Grown(disk, wiped, disk', wiped')
    BY DiskGrows
  <1>2. \A h \in Handlers : Good(handlers[h])
    <2> TAKE h \in Handlers
    <2>1. Truthful(handlers[h], disk, wiped)
      BY DEF UploadInv
    <2>2. Truthful(handlers[h], disk', wiped')
      BY <1>0, <1>1, <2>1, TruthfulStays
    <2> QED
      BY <2>2 DEF UploadInv, ChunkJobs
  <1>3. Good(Free)
    BY DEF Truthful, Free
  <1>4. ASSUME NEW h \in Handlers, NEW r \in Recordings, NEW kind, NEW k,
               Request(h, r, kind, k), kind = "chunk" => k \in Chunks
        PROVE  Good(handlers'[g])
    <2>1. CASE g = h
      BY <1>0, <1>4, <2>1, RequestFields DEF Truthful, Lengths
    <2> QED
      BY <1>0, <1>2, <1>4, <2>1, RequestFields
  <1>5. ASSUME NEW r \in Recordings, NEW h \in Handlers,
               StartUpload(r, h) \/ SendChunk(r, h) \/ AskFinalize(r, h)
        PROVE  Good(handlers'[g])
    <2> HIDE DEF Good
    <2>1. \E kind, k : Request(h, r, kind, k) /\ (kind = "chunk" => k \in Chunks)
      BY <1>5 DEF StartUpload, SendChunk, AskFinalize
    <2> QED
      BY <1>4, <2>1
  <1>6. ASSUME NEW h, handlers' = [handlers EXCEPT ![h] = Free] PROVE Good(handlers'[g])
    BY <1>0, <1>2, <1>3, <1>6 DEF TypeOK
  <1>7. CASE Crash
    BY <1>3, <1>7 DEF Crash
  <1>8. ASSUME NEW h \in Handlers, NEW p, Goto(h, p), p # "replied",
               handlers[h].kind = "chunk" /\ p = "store" =>
                 SessionOf[handlers[h].rec] \in wiped' \/ Stored(handlers[h].rec, handlers[h].at, disk')
        PROVE  Good(handlers'[g])
    <2>1. CASE g = h
      <3>1. Moved(handlers'[h], handlers[h]) /\ handlers'[h].pc = p
        BY <1>0, <1>8, GotoFields DEF Moved
      <3>2. Truthful(handlers'[h], disk', wiped')
        BY <1>2, <1>8, <3>1, MovedTruthful DEF Moved
      <3> QED
        BY <1>2, <2>1, <3>1, <3>2 DEF Moved
    <2> QED
      BY <1>0, <1>2, <1>8, <2>1, GotoFields
  <1>9. ASSUME NEW h \in Handlers, NEW b, Answer(h, b),
               handlers[h].kind = "chunk" /\ b =>
                 SessionOf[handlers[h].rec] \in wiped' \/ Stored(handlers[h].rec, handlers[h].at, disk')
        PROVE  Good(handlers'[g])
    <2>1. CASE g = h
      <3>1. Moved(handlers'[h], handlers[h]) /\ handlers'[h].pc = "replied" /\ handlers'[h].ok = b
        BY <1>0, <1>9, AnswerFields DEF Moved
      <3>2. Truthful(handlers'[h], disk', wiped')
        BY <1>2, <1>9, <3>1, MovedTruthful DEF Moved
      <3> QED
        BY <1>2, <2>1, <3>1, <3>2 DEF Moved
    <2> QED
      BY <1>0, <1>2, <1>9, <2>1, AnswerFields
  <1>10. ASSUME NEW h \in Handlers, PrepareStart(h) PROVE Good(handlers'[g])
    <2>1. CASE Answer(h, FALSE)
      BY <1>9, <2>1
    <2>2. CASE handlers' = [handlers EXCEPT ![h].pc = "read", ![h].at = 1]
      <3>1. handlers[h].kind = "prepare"
        BY <1>10 DEF PrepareStart, At
      <3>2. /\ handlers'[h].kind = handlers[h].kind /\ handlers'[h].rec = handlers[h].rec
            /\ handlers'[h].saw = handlers[h].saw /\ handlers'[h].size = handlers[h].size
            /\ \A x \in Handlers : x # h => handlers'[x] = handlers[x]
        BY <1>0, <2>2 DEF TypeOK, Handler
      <3> QED
        BY <1>2, <3>1, <3>2 DEF Truthful
    <2> QED
      BY <1>10, <2>1, <2>2 DEF PrepareStart
  <1>11. ASSUME NEW h \in Handlers, ReadChunk(h) PROVE Good(handlers'[g])
    <2> DEFINE k == handlers[h].at
               r == handlers[h].rec
    <2>1. /\ handlers[h].kind \in {"prepare", "finalize"} /\ UNCHANGED <<disk, wiped>>
      BY <1>11 DEF ReadChunk
    <2>2. /\ handlers'[h].kind = handlers[h].kind /\ handlers'[h].rec = r
          /\ handlers'[h].size = handlers[h].size
          /\ \A n \in handlers'[h].saw : n \in handlers[h].saw \/ Stored(r, n, disk)
          /\ \A x \in Handlers : x # h => handlers'[x] = handlers[x]
      <3>1. \/ handlers' = [handlers EXCEPT ![h].at = After(FileOf(k))]
            \/ handlers' = [handlers EXCEPT ![h].at = k + 1,
                              ![h].saw = handlers[h].saw \cup ({k} \cap disk[r][FileOf(k)].good)]
        BY <1>11 DEF ReadChunk
      <3>2. \A x \in Handlers : x # h => handlers'[x] = handlers[x]
        BY <1>0, <3>1 DEF TypeOK
      <3>3. /\ handlers'[h].kind = handlers[h].kind /\ handlers'[h].rec = r
            /\ handlers'[h].size = handlers[h].size
            /\ \/ handlers'[h].saw = handlers[h].saw
               \/ handlers'[h].saw = handlers[h].saw \cup ({k} \cap disk[r][FileOf(k)].good)
        BY <1>0, <3>1 DEF TypeOK, Handler
      <3> QED
        BY <3>2, <3>3 DEF Stored
    <2> QED
      BY <1>2, <2>1, <2>2 DEF Truthful
  <1>12. ASSUME NEW h \in Handlers, PrepareSizes(h) PROVE Good(handlers'[g])
    <2>1. handlers[h].kind = "prepare" /\ UNCHANGED <<disk, wiped>>
      BY <1>12 DEF PrepareSizes, At
    <2>2. /\ handlers'[h].kind = handlers[h].kind /\ handlers'[h].rec = handlers[h].rec
          /\ handlers'[h].saw = handlers[h].saw
          /\ handlers'[h].size = [f \in Files |-> disk[handlers[h].rec][f].len]
          /\ \A x \in Handlers : x # h => handlers'[x] = handlers[x]
      BY <1>0, <1>12 DEF PrepareSizes, TypeOK, Handler
    <2>3. handlers[h].rec \in Recordings
      BY <1>2, <2>1 DEF Truthful
    <2> QED
      BY <1>0, <1>2, <2>1, <2>2, <2>3 DEF Truthful, Lengths
  <1>13. ASSUME NEW h \in Handlers, ChunkWrite(h) PROVE Good(handlers'[g])
    <2> DEFINE k == handlers[h].at
               r == handlers[h].rec
               f == FileOf(k)
    <2>1. r \in Recordings /\ k \in Chunks /\ f \in Files
      BY <1>13, FileOfType DEF ChunkWrite, At, UploadInv, Truthful, ChunkJobs
    <2>2. disk'[r][f].good = disk[r][f].good \cup {k}
      BY <1>0, <1>13, <2>1 DEF ChunkWrite, TypeOK
    <2>3. Stored(r, k, disk')
      BY <2>2 DEF Stored
    <2>4. Goto(h, "store")
      BY <1>13 DEF ChunkWrite
    <2> QED
      BY <1>8, <2>3, <2>4
  <1>14. ASSUME NEW h \in Handlers, ChunkBytes(h) PROVE Good(handlers'[g])
    <2>1. SessionOf[handlers[h].rec] \in wiped' \/ Stored(handlers[h].rec, handlers[h].at, disk')
      BY <1>2, <1>14 DEF ChunkBytes, At, Truthful
    <2> QED
      BY <1>9, <1>14, <2>1 DEF ChunkBytes
  <1>15. ASSUME NEW h \in Handlers,
                \/ ReadDone(h) \/ ChunkPath(h) \/ FinalizeRow(h) \/ PrepareRow(h)
                \/ FinalizeStatus(h) \/ HandlerFails(h) \/ ChunkWriteFails(h)
         PROVE  Good(handlers'[g])
    <2> HIDE DEF Good
    <2>1. CASE Answer(h, FALSE)
      BY <1>9, <2>1
    <2>2. CASE handlers[h].kind # "chunk" /\ Answer(h, TRUE)
      BY <1>9, <2>2
    <2>3. CASE Goto(h, "write") \/ Goto(h, "sizes") \/ Goto(h, "read")
      BY <1>8, <2>3
    <2>4. CASE handlers[h].kind # "chunk" /\ Goto(h, "store")
      BY <1>8, <2>4
    <2>5. CASE ReadDone(h)
      <3>1. handlers[h].kind # "chunk" \/ handlers[h].at \in Chunks
        BY <1>2 DEF Good
      <3>2. handlers[h].kind # "chunk"
        BY <2>5, <3>1 DEF ReadDone, Chunks
      <3> QED
        BY <2>3, <2>4, <2>5, <3>2 DEF ReadDone
    <2> QED
      BY <1>15, <2>1, <2>2, <2>3, <2>4, <2>5
         DEF ChunkPath, FinalizeRow, PrepareRow, FinalizeStatus, HandlerFails,
             ChunkWriteFails, At
  <1>16. CASE UNCHANGED handlers
    BY <1>2, <1>16
  <1>17. \/ UNCHANGED handlers \/ Crash
         \/ \E r \in Recordings, h \in Handlers :
              StartUpload(r, h) \/ SendChunk(r, h) \/ AskFinalize(r, h)
         \/ \E h : handlers' = [handlers EXCEPT ![h] = Free]
         \/ \E h \in Handlers :
              \/ PrepareStart(h) \/ ReadChunk(h) \/ PrepareSizes(h) \/ ChunkWrite(h)
              \/ ChunkBytes(h) \/ ReadDone(h) \/ ChunkPath(h) \/ FinalizeRow(h)
              \/ PrepareRow(h) \/ FinalizeStatus(h) \/ HandlerFails(h) \/ ChunkWriteFails(h)
    BY DEF Next, vars, Survey, Browser, Handle, Wipe, CreateSession, RecordProbeStats,
           WipeLookup, WipeCollect, WipeRows, WipeFails, WipeUnlink, WipeDone, Prepared,
           SkipChunk, ChunkStored, Finalized, RequestRefused, GiveUp, Drop
  <1> HIDE DEF Good
  <1> QED
    BY <1>5, <1>6, <1>7, <1>10, <1>11, <1>12, <1>13, <1>14, <1>15, <1>16, <1>17

\* A step of a handler keeps what its request is about.
LEMMA HandlerKeeps ==
  ASSUME TypeOK, NEW h \in Handlers,
         \/ PrepareStart(h) \/ ReadChunk(h) \/ ReadDone(h) \/ PrepareSizes(h)
         \/ PrepareRow(h) \/ ChunkPath(h) \/ ChunkWrite(h) \/ ChunkBytes(h)
         \/ FinalizeRow(h) \/ FinalizeStatus(h) \/ HandlerFails(h) \/ ChunkWriteFails(h)
  PROVE  \A g \in Handlers :
           /\ handlers'[g].kind = handlers[g].kind
           /\ handlers'[g].rec = handlers[g].rec
           /\ handlers'[g].kind = "chunk" => handlers'[g].at = handlers[g].at
  <1> DEFINE Keeps == \A g \in Handlers :
                        /\ handlers'[g].kind = handlers[g].kind
                        /\ handlers'[g].rec = handlers[g].rec
                        /\ handlers'[g].kind = "chunk" => handlers'[g].at = handlers[g].at
  <1> SUFFICES Keeps
    OBVIOUS
  <1>0. handlers[h] \in Handler
    BY Records
  <1>1. ASSUME NEW p, Goto(h, p) PROVE Keeps
    BY <1>1, GotoFields
  <1>2. ASSUME NEW b, Answer(h, b) PROVE Keeps
    BY <1>2, AnswerFields
  <1>3. CASE handlers[h].kind # "chunk" /\ PrepareStart(h)
    <2>1. CASE handlers' = [handlers EXCEPT ![h].pc = "read", ![h].at = 1]
      BY <1>0, <1>3, <2>1 DEF TypeOK, Handler
    <2> QED
      BY <1>2, <1>3, <2>1 DEF PrepareStart
  <1>4. CASE ReadChunk(h)
    <2>1. handlers[h].kind # "chunk"
      BY <1>4 DEF ReadChunk
    <2>2. \/ handlers' = [handlers EXCEPT ![h].at = After(FileOf(handlers[h].at))]
          \/ handlers' = [handlers EXCEPT ![h].at = handlers[h].at + 1,
                            ![h].saw = handlers[h].saw \cup
                              ({handlers[h].at} \cap disk[handlers[h].rec][FileOf(handlers[h].at)].good)]
      BY <1>4 DEF ReadChunk
    <2>3. \A x \in Handlers : x # h => handlers'[x] = handlers[x]
      BY <2>2 DEF TypeOK
    <2>4. handlers'[h].kind = handlers[h].kind /\ handlers'[h].rec = handlers[h].rec
      BY <1>0, <2>2 DEF TypeOK, Handler
    <2> QED
      BY <2>1, <2>3, <2>4
  <1>5. CASE PrepareSizes(h)
    BY <1>0, <1>5 DEF PrepareSizes, TypeOK, Handler
  <1> HIDE DEF Keeps
  <1> QED
    BY <1>1, <1>2, <1>3, <1>4, <1>5
       DEF PrepareStart, ReadDone, PrepareRow, ChunkPath, ChunkWrite, ChunkBytes, FinalizeRow,
           FinalizeStatus, HandlerFails, ChunkWriteFails, At

\* The steps of Next by what they do to an uploader and the handlers.
LEMMA LinkedStep ==
  ASSUME UploadInv, [Next]_vars, TypeOK', NEW r \in Recordings
  PROVE  Linked(client[r], r)'
  <1>0. /\ TypeOK /\ \A q \in Recordings : client[q] \in Client /\ Linked(client[q], q)
        /\ \A h \in Handlers : handlers[h] \in Handler
    BY Records DEF UploadInv
  <1>1. CASE client'[r].req = None
    BY <1>1 DEF Linked
  <1>2. CASE /\ client'[r] = client[r]
             /\ client[r].req # None =>
                  /\ handlers'[client[r].req].kind = handlers[client[r].req].kind
                  /\ handlers'[client[r].req].rec = handlers[client[r].req].rec
                  /\ handlers'[client[r].req].kind = "chunk" =>
                       handlers'[client[r].req].at = handlers[client[r].req].at
    BY <1>0, <1>2 DEF Linked
  <1>3. client[r].req # None => client[r].req \in Handlers /\ handlers[client[r].req].kind # "free"
    BY <1>0 DEF Linked, Client, ClientPcs
  <1>4. ASSUME NEW q \in Recordings, NEW h \in Handlers, NEW kind, NEW k, NEW c,
               Request(h, q, kind, k), client' = [client EXCEPT ![q] = c],
               c.pc = kind, c.req = h, kind = "chunk" => k = c.next /\ c.next \in Chunks
        PROVE  Linked(client[r], r)'
    <2>1. CASE q = r
      <3>1. client'[r] = c
        BY <1>0, <1>4, <2>1 DEF TypeOK
      <3> QED
        BY <1>0, <1>4, <2>1, <3>1, RequestFields DEF Linked
    <2>2. CASE q # r
      <3>1. client'[r] = client[r]
        BY <1>0, <1>4, <2>2 DEF TypeOK
      <3>2. client[r].req # None => handlers'[client[r].req] = handlers[client[r].req]
        BY <1>0, <1>3, <1>4, RequestFields
      <3> QED
        BY <1>2, <3>1, <3>2
    <2> QED
      BY <2>1, <2>2
  <1>5. ASSUME NEW q \in Recordings, NEW h \in Handlers,
               StartUpload(q, h) \/ SendChunk(q, h) \/ AskFinalize(q, h)
        PROVE  Linked(client[r], r)'
    <2>0. client[q] \in Client
      BY <1>0
    <2>1. CASE StartUpload(q, h)
      <3>1. /\ [Idle EXCEPT !.pc = "prepare", !.req = h].pc = "prepare"
            /\ [Idle EXCEPT !.pc = "prepare", !.req = h].req = h
        BY DEF Idle
      <3> QED
        BY <1>4, <2>1, <3>1 DEF StartUpload
    <2>2. CASE SendChunk(q, h)
      <3>1. /\ [client[q] EXCEPT !.req = h].pc = "chunk" /\ [client[q] EXCEPT !.req = h].req = h
            /\ [client[q] EXCEPT !.req = h].next = client[q].next
        BY <2>0, <2>2 DEF SendChunk, Client
      <3>2. client' = [client EXCEPT ![q] = [client[q] EXCEPT !.req = h]]
        BY <2>2 DEF SendChunk
      <3> QED
        BY <1>4, <2>2, <3>1, <3>2 DEF SendChunk
    <2>3. CASE AskFinalize(q, h)
      <3>1. /\ [client[q] EXCEPT !.pc = "finalize", !.req = h].pc = "finalize"
            /\ [client[q] EXCEPT !.pc = "finalize", !.req = h].req = h
        BY <2>0 DEF Client
      <3> QED
        BY <1>4, <2>3, <3>1 DEF AskFinalize
    <2> QED
      BY <1>5, <2>1, <2>2, <2>3
  <1>6. ASSUME NEW c \in Client PROVE AfterError(c).req = None
    BY <1>6 DEF AfterError, Idle, Client
  <1>7. ASSUME NEW q \in Recordings, client[q].req # None,
               handlers' = [handlers EXCEPT ![client[q].req] = Free],
               NEW c, client' = [client EXCEPT ![q] = c], c.req = None
        PROVE  Linked(client[r], r)'
    <2>1. CASE q = r
      BY <1>0, <1>1, <1>7, <2>1 DEF TypeOK
    <2>2. CASE q # r
      <3>1. client'[r] = client[r]
        BY <1>0, <1>7, <2>2 DEF TypeOK
      <3>2. client[r].req # None => client[r].req # client[q].req
        BY <1>0, <1>7, <2>2 DEF Linked
      <3>3. client[r].req # None => handlers'[client[r].req] = handlers[client[r].req]
        BY <1>0, <1>3, <1>7, <3>2 DEF TypeOK
      <3> QED
        BY <1>2, <3>1, <3>3
    <2> QED
      BY <2>1, <2>2
  <1>8. ASSUME NEW q \in Recordings,
               Prepared(q) \/ ChunkStored(q) \/ Finalized(q) \/ RequestRefused(q)
        PROVE  Linked(client[r], r)'
    <2>0. client[q] \in Client
      BY <1>0
    <2>1. CASE Prepared(q)
      <3>1. [client[q] EXCEPT !.pc = "chunk", !.req = None, !.have = Reply(q).saw].req = None
        BY <2>0 DEF Client
      <3> QED
        BY <1>7, <2>1, <3>1 DEF Prepared
    <2>2. CASE ChunkStored(q)
      <3>1. [client[q] EXCEPT !.next = client[q].next + 1, !.tries = Retries, !.req = None].req = None
        BY <2>0 DEF Client
      <3> QED
        BY <1>7, <2>2, <3>1 DEF ChunkStored
    <2>3. CASE Finalized(q)
      <3>1. Idle.req = None /\ [Idle EXCEPT !.pc = "done"].req = None
        BY DEF Idle
      <3> QED
        BY <1>7, <2>3, <3>1 DEF Finalized
    <2>4. CASE RequestRefused(q)
      BY <1>6, <1>7, <2>0, <2>4 DEF RequestRefused
    <2> QED
      BY <1>8, <2>1, <2>2, <2>3, <2>4
  <1>9. ASSUME NEW q \in Recordings, SkipChunk(q) PROVE Linked(client[r], r)'
    <2>1. CASE q = r
      <3>1. client'[r].req = client[r].req
        BY <1>0, <1>9, <2>1 DEF SkipChunk, TypeOK, Client
      <3> QED
        BY <1>1, <1>9, <2>1, <3>1 DEF SkipChunk
    <2>2. CASE q # r
      BY <1>0, <1>2, <1>9, <2>2 DEF SkipChunk, TypeOK
    <2> QED
      BY <2>1, <2>2
  <1>10. ASSUME NEW q \in Recordings, GiveUp(q) PROVE Linked(client[r], r)'
    <2>1. PICK c \in {AfterError(client[q]), Idle} : client' = [client EXCEPT ![q] = c]
      BY <1>10 DEF GiveUp
    <2>2. c.req = None
      BY <1>0, <1>6, <2>1 DEF Idle
    <2>3. CASE q = r
      BY <1>0, <1>1, <2>1, <2>2, <2>3 DEF TypeOK
    <2>4. CASE q # r
      <3>1. client'[r] = client[r] /\ handlers' = handlers
        BY <1>0, <1>10, <2>1, <2>4 DEF GiveUp, TypeOK
      <3> QED
        BY <1>2, <3>1
    <2> QED
      BY <2>3, <2>4
  <1>11. CASE Crash
    <2>1. client'[r] = IF client[r].req = None THEN client[r] ELSE AfterError(client[r])
      BY <1>11 DEF Crash
    <2> QED
      BY <1>0, <1>1, <1>6, <2>1
  <1>12. ASSUME NEW h \in Handlers, Drop(h) PROVE Linked(client[r], r)'
    <2>1. client' = client /\ handlers' = [handlers EXCEPT ![h] = Free]
      BY <1>12 DEF Drop
    <2>2. client[r].req # h
      BY <1>0, <1>12 DEF Drop, Linked
    <2>3. client[r].req # None => handlers'[client[r].req] = handlers[client[r].req]
      BY <1>0, <1>3, <2>1, <2>2 DEF TypeOK
    <2> QED
      BY <1>2, <2>1, <2>3
  <1>13. ASSUME NEW h \in Handlers,
                \/ PrepareStart(h) \/ ReadChunk(h) \/ ReadDone(h) \/ PrepareSizes(h)
                \/ PrepareRow(h) \/ ChunkPath(h) \/ ChunkWrite(h) \/ ChunkBytes(h)
                \/ FinalizeRow(h) \/ FinalizeStatus(h) \/ HandlerFails(h) \/ ChunkWriteFails(h)
         PROVE  Linked(client[r], r)'
    <2>1. client' = client
      BY <1>13 DEF PrepareStart, ReadChunk, ReadDone, PrepareSizes, PrepareRow, ChunkPath,
           ChunkWrite, ChunkBytes, FinalizeRow, FinalizeStatus, HandlerFails, ChunkWriteFails
    <2>2. \A g \in Handlers :
            /\ handlers'[g].kind = handlers[g].kind
            /\ handlers'[g].rec = handlers[g].rec
            /\ handlers'[g].kind = "chunk" => handlers'[g].at = handlers[g].at
      BY <1>0, <1>13, HandlerKeeps
    <2> QED
      BY <1>2, <1>3, <2>1, <2>2
  <1>14. CASE UNCHANGED <<handlers, client>>
    BY <1>2, <1>14
  <1> QED
    BY <1>5, <1>8, <1>9, <1>10, <1>11, <1>12, <1>13, <1>14
       DEF Next, vars, Survey, Browser, Handle, Wipe, CreateSession, RecordProbeStats,
           WipeLookup, WipeCollect, WipeRows, WipeFails, WipeUnlink, WipeDone

\* What every uploader relies on is true after every step.
LEMMA ReliesStep ==
  ASSUME UploadInv, [Next]_vars, TypeOK', NEW r \in Recordings
  PROVE  Relies(client'[r], r, disk', wiped')
  <1>0. TypeOK /\ client[r] \in Client /\ Linked(client[r], r)
    BY Records DEF UploadInv
  <1>1. Grown(disk, wiped, disk', wiped')
    BY DiskGrows
  <1>2. Relies(client[r], r, disk, wiped)
    BY DEF UploadInv
  <1>3. Relies(client[r], r, disk', wiped')
    BY <1>1, <1>2, ReliesStays
  <1>4. CASE client'[r].have = client[r].have /\ client'[r].next = client[r].next
    BY <1>3, <1>4 DEF Relies
  <1>5. CASE client'[r].have = {} /\ client'[r].next = 1
    BY <1>5 DEF Relies, Chunks
  <1>6. CASE client'[r] = AfterError(client[r]) \/ client'[r] = Idle
    <2>1. CASE client'[r] = Idle
      BY <1>5, <2>1 DEF Idle
    <2>2. CASE client'[r] = [client[r] EXCEPT !.tries = client[r].tries - 1, !.req = None]
      BY <1>0, <1>4, <2>2 DEF Client
    <2> QED
      BY <1>6, <2>1, <2>2 DEF AfterError
  <1>7. CASE Prepared(r)
    <2>1. /\ client'[r].have = handlers[client[r].req].saw
          /\ client'[r].next = client[r].next
      BY <1>0, <1>7 DEF Prepared, Reply, TypeOK, Client
    <2>2. client[r].req \in Handlers /\ handlers[client[r].req].kind = "prepare"
          /\ handlers[client[r].req].rec = r
      BY <1>0, <1>7 DEF Prepared, Linked, Client
    <2>3. Truthful(handlers[client[r].req], disk, wiped)
      BY <2>2 DEF UploadInv
    <2>4. UNCHANGED <<disk, wiped>>
      BY <1>7 DEF Prepared
    <2> QED
      BY <1>2, <2>1, <2>2, <2>3, <2>4 DEF Truthful, Relies
  <1>8. CASE SkipChunk(r)
    <2>1. client'[r].have = client[r].have /\ client'[r].next = client[r].next + 1
      BY <1>0, <1>8 DEF SkipChunk, TypeOK, Client
    <2>2. \A k \in Chunks : k < client[r].next + 1 => k < client[r].next \/ k = client[r].next
      BY <1>0 DEF Client, Chunks
    <2>3. client[r].next \in client[r].have /\ UNCHANGED <<disk, wiped>>
      BY <1>8 DEF SkipChunk
    <2> QED
      BY <1>2, <2>1, <2>2, <2>3 DEF Relies
  <1>9. CASE ChunkStored(r)
    <2>1. client'[r].have = client[r].have /\ client'[r].next = client[r].next + 1
      BY <1>0, <1>9 DEF ChunkStored, TypeOK, Client
    <2>2. \A k \in Chunks : k < client[r].next + 1 => k < client[r].next \/ k = client[r].next
      BY <1>0 DEF Client, Chunks
    <2>3. /\ client[r].req \in Handlers /\ handlers[client[r].req].kind = "chunk"
          /\ handlers[client[r].req].rec = r /\ handlers[client[r].req].at = client[r].next
      BY <1>0, <1>9 DEF ChunkStored, Linked, Client
    <2>4. Truthful(handlers[client[r].req], disk, wiped)
      BY <2>3 DEF UploadInv
    <2>5. /\ handlers[client[r].req].pc = "replied" /\ handlers[client[r].req].ok
          /\ UNCHANGED <<disk, wiped>>
      BY <1>9 DEF ChunkStored, Reply
    <2>6. SessionOf[r] \notin wiped => Stored(r, client[r].next, disk)
      BY <2>3, <2>4, <2>5 DEF Truthful
    <2> QED
      BY <1>2, <2>1, <2>2, <2>5, <2>6 DEF Relies
  <1>10. CASE client'[r] = client[r]
    BY <1>4, <1>10
  <1>11. ASSUME NEW q \in Recordings, q # r, NEW c, client' = [client EXCEPT ![q] = c]
         PROVE  client'[r] = client[r]
    BY <1>0, <1>11 DEF TypeOK
  <1>12. ASSUME NEW h \in Handlers, StartUpload(r, h) \/ SendChunk(r, h) \/ AskFinalize(r, h)
         PROVE  Relies(client'[r], r, disk', wiped')
    <2>1. CASE StartUpload(r, h)
      BY <1>0, <1>5, <2>1 DEF StartUpload, TypeOK, Idle
    <2>2. CASE SendChunk(r, h)
      BY <1>0, <1>4, <2>2 DEF SendChunk, TypeOK, Client
    <2>3. CASE AskFinalize(r, h)
      BY <1>0, <1>4, <2>3 DEF AskFinalize, TypeOK, Client
    <2> QED
      BY <1>12, <2>1, <2>2, <2>3
  <1>13. CASE Finalized(r)
    <2>1. client'[r] = Idle \/ client'[r] = [Idle EXCEPT !.pc = "done"]
      BY <1>0, <1>13 DEF Finalized, TypeOK
    <2> QED
      BY <1>5, <2>1 DEF Idle
  <1>14. CASE RequestRefused(r) \/ GiveUp(r)
    <2>1. client'[r] = AfterError(client[r]) \/ client'[r] = Idle
      BY <1>0, <1>14 DEF RequestRefused, GiveUp, TypeOK
    <2> QED
      BY <1>6, <2>1
  <1>15. CASE Crash
    <2>1. client'[r] = client[r] \/ client'[r] = AfterError(client[r])
      BY <1>15 DEF Crash
    <2> QED
      BY <1>6, <1>10, <2>1
  <1>16. ASSUME NEW q \in Recordings, Browser(q) \/ GiveUp(q)
         PROVE  Relies(client'[r], r, disk', wiped')
    <2>1. CASE q = r
      BY <1>7, <1>8, <1>9, <1>12, <1>13, <1>14, <1>16, <2>1 DEF Browser
    <2>2. CASE q # r
      <3>1. \E c : client' = [client EXCEPT ![q] = c]
        BY <1>16 DEF Browser, GiveUp, StartUpload, SendChunk, AskFinalize, Prepared, SkipChunk,
             ChunkStored, Finalized, RequestRefused
      <3> QED
        BY <1>10, <1>11, <2>2, <3>1
    <2> QED
      BY <2>1, <2>2
  <1>17. \/ client' = client \/ Crash \/ \E q \in Recordings : Browser(q) \/ GiveUp(q)
    BY DEF Next, vars, Survey, Handle, Wipe, CreateSession, RecordProbeStats,
         WipeLookup, WipeCollect, WipeRows, WipeFails, WipeUnlink, WipeDone, Drop,
         PrepareStart, ReadChunk, ReadDone, PrepareSizes, PrepareRow, ChunkPath,
         ChunkWrite, ChunkBytes, FinalizeRow, FinalizeStatus, HandlerFails, ChunkWriteFails
  <1> QED
    BY <1>10, <1>15, <1>16, <1>17

----------------------------------------------------------------------------
(* The theorems.                                                           *)

\* The invariant holds of the empty database and disk.
LEMMA InitInv == Init => UploadInv
  <1> SUFFICES ASSUME Init PROVE UploadInv
    OBVIOUS
  <1>1. TypeOK
    BY FreeTypes DEF Init, TypeOK
  <1>2. LengthsCover(disk)
    BY DEF Init, LengthsCover, Absent
  <1>3. WipesOwnFiles
    BY DEF Init, WipesOwnFiles, NoWipe
  <1>4. RowsWipeable
    BY DEF Init, RowsWipeable, HasRow
  <1>5. ChunkJobs
    BY DEF Init, ChunkJobs, Free
  <1>6. \A r \in Recordings : Linked(client[r], r)
    BY DEF Init, Linked, Idle
  <1>7. \A h \in Handlers : Truthful(handlers[h], disk, wiped)
    BY DEF Init, Truthful, Free
  <1>8. \A r \in Recordings : Relies(client[r], r, disk, wiped)
    BY DEF Init, Relies, Idle, Chunks
  <1>9. \A r \in Recordings : RowSound(rows[r], r, disk, wiped)
    BY DEF Init, RowSound, NoRow, Absent
  <1> QED
    BY <1>1, <1>2, <1>3, <1>4, <1>5, <1>6, <1>7, <1>8, <1>9 DEF UploadInv

\* Whatever handlers, uploaders, wipes, failures and crashes do, what anyone
\* recorded about the files of a session that is not wiped stays true.
THEOREM UploadInvariant == Spec => []UploadInv
  <1>1. ASSUME UploadInv, [Next]_vars PROVE UploadInv'
    <2>1. TypeOK'
      BY <1>1, TypeStep
    <2>2. LengthsCover(disk)'
      BY <1>1, DiskGrows DEF LengthsCover
    <2>3. WipesOwnFiles' /\ RowsWipeable'
      BY <1>1, WipeStep, RowsStep
    <2>4. ChunkJobs' /\ \A h \in Handlers : Truthful(handlers'[h], disk', wiped')
      BY <1>1, <2>1, HandlerStep DEF ChunkJobs
    <2>5. \A r \in Recordings : Linked(client[r], r)'
      BY <1>1, <2>1, LinkedStep
    <2>6. \A r \in Recordings : /\ Relies(client'[r], r, disk', wiped')
                                /\ RowSound(rows'[r], r, disk', wiped')
      BY <1>1, <2>1, ReliesStep, RowSoundStep
    <2> QED
      BY <2>1, <2>2, <2>3, <2>4, <2>5, <2>6 DEF UploadInv, Truthful, Relies, RowSound, Stored
  <1> QED
    BY <1>1, InitInv, PTL DEF Spec

\* A recording shown as complete is on disk with every chunk (finalize_upload).
THEOREM CompleteIsWholeHolds == Spec => []CompleteIsWhole
  <1>1. UploadInv => CompleteIsWhole
    BY DEF UploadInv, RowSound, CompleteIsWhole, Kept, ChunksOf, Stored
  <1> QED
    BY <1>1, UploadInvariant, PTL

\* The uploader of nettest.html never moves past a chunk the server does not hold.
THEOREM PassedChunksStoredHolds == Spec => []PassedChunksStored
  <1>1. UploadInv => PassedChunksStored
    BY DEF UploadInv, Relies, PassedChunksStored, Kept, Stored
  <1> QED
    BY <1>1, UploadInvariant, PTL

\* The uploaded-bytes columns (upload_chunk, prepare_upload) never claim more
\* than the files hold.
THEOREM BytesNotOverstatedHolds == Spec => []BytesNotOverstated
  <1>1. UploadInv => BytesNotOverstated
    BY DEF UploadInv, RowSound, BytesNotOverstated, Kept
  <1> QED
    BY <1>1, UploadInvariant, PTL

\* No recording or metric row outlives its session row (wipe_session).
THEOREM RowsWipeableHolds == Spec => []RowsWipeable
  <1>1. UploadInv => RowsWipeable
    BY DEF UploadInv
  <1> QED
    BY <1>1, UploadInvariant, PTL
=============================================================================
