---------------------------- MODULE SurveyUpload ----------------------------
(***************************************************************************)
(* Survey sessions and the chunked, resumable upload of their recordings:  *)
(* the SQLite tables, the files below the storage directory, the handlers  *)
(* of /api/upload/{prepare,chunk,finalize}, the browser's uploader and the *)
(* analyst's wipe of a session.                                            *)
(*                                                                         *)
(* One mutex guards the database connection, so a block of statements      *)
(* under one lock is one step; a handler can be overtaken wherever it      *)
(* releases the lock or awaits file I/O.  A handler whose client has gone  *)
(* may run to its end or be dropped at any await.  A write or a read of a  *)
(* file that was unlinked after it was opened is the same as one made just *)
(* before the unlink, so opening is not a step of its own.                 *)
(***************************************************************************)
EXTENDS Naturals, FiniteSets

CONSTANTS Sessions,
          Recordings,
          SessionOf,    \* the survey session of a recording
          NChunks,      \* chunks of a recording, the video's first
          NVideo,       \* how many of them are the video's
          Handlers,     \* bound: upload requests the server works on at once
          Retries,      \* attempts at one chunk before the upload fails
          MaxFails,     \* bound: requests that fail or are given up
          MaxStarts,    \* bound: StartSurveySession messages, one per connection
          None

Files == {"video", "sensor"}
Chunks == 1..NChunks
FileOf(k) == IF k <= NVideo THEN "video" ELSE "sensor"
ChunksOf(f) == {k \in Chunks : FileOf(k) = f}

ASSUME UploadAssumption == /\ SessionOf \in [Recordings -> Sessions]
                           /\ NChunks \in Nat /\ NVideo \in 0..NChunks
                           /\ Retries \in Nat \ {0}
                           /\ MaxFails \in Nat /\ MaxStarts \in Nat
                           /\ None \notin Handlers

VARIABLES sessions,  \* survey_sessions: the ids it has rows for
          metrics,   \* survey_metrics: the ids it has rows for
          rows,      \* recordings: per recording its row or NoRow
          disk,      \* per recording and file: there or not, its length, the right chunks
          handlers,  \* upload requests being handled
          client,    \* the browser's uploader of each recording
          wiper,     \* the wipe request of each session
          wiped,     \* history: sessions whose recordings a wipe has deleted
          fails,     \* requests that failed or were given up
          starts     \* StartSurveySession messages so far

vars == <<sessions, metrics, rows, disk, handlers, client, wiper, wiped, fails, starts>>

\* Lengths are counted in chunks: the number of the last chunk the file reaches into.
NoRow == [status |-> "none", bytes |-> [f \in Files |-> 0]]
Absent == [there |-> FALSE, len |-> 0, good |-> {}]
Free == [kind |-> "free", rec |-> None, at |-> 0, pc |-> "free", saw |-> {},
         size |-> [f \in Files |-> 0], ok |-> FALSE]
Idle == [pc |-> "idle", next |-> 1, have |-> {}, tries |-> Retries, req |-> None]
NoWipe == [pc |-> "idle", files |-> {}]

Statuses == {"none", "uploading", "complete", "failed"}
Kinds == {"free", "prepare", "chunk", "finalize"}
HandlerPcs == {"free", "start", "read", "sizes", "write", "store", "replied"}
ClientPcs == {"idle", "prepare", "chunk", "finalize", "done"}
WiperPcs == {"idle", "collect", "delete", "unlink"}

Row == [status : Statuses, bytes : [Files -> 0..NChunks]]
File == [there : BOOLEAN, len : 0..NChunks, good : SUBSET Chunks]
Handler == [kind : Kinds, rec : Recordings \cup {None}, at : 0..(NChunks + 1),
            pc : HandlerPcs, saw : SUBSET Chunks, size : [Files -> 0..NChunks],
            ok : BOOLEAN]
Client == [pc : ClientPcs, next : 1..(NChunks + 1), have : SUBSET Chunks,
           tries : 1..Retries, req : Handlers \cup {None}]
Wiper == [pc : WiperPcs, files : SUBSET (Recordings \X Files)]

TypeOK ==
  /\ sessions \in SUBSET Sessions /\ metrics \in SUBSET Sessions
  /\ rows \in [Recordings -> Row]
  /\ disk \in [Recordings -> [Files -> File]]
  /\ handlers \in [Handlers -> Handler]
  /\ client \in [Recordings -> Client]
  /\ wiper \in [Sessions -> Wiper]
  /\ wiped \in SUBSET Sessions
  /\ fails \in 0..MaxFails /\ starts \in 0..MaxStarts

Init ==
  /\ sessions = {} /\ metrics = {} /\ wiped = {} /\ fails = 0 /\ starts = 0
  /\ rows = [r \in Recordings |-> NoRow]
  /\ disk = [r \in Recordings |-> [f \in Files |-> Absent]]
  /\ handlers = [h \in Handlers |-> Free]
  /\ client = [r \in Recordings |-> Idle]
  /\ wiper = [s \in Sessions |-> NoWipe]

----------------------------------------------------------------------------
(* Survey sessions and metrics.                                            *)

\* StartSurveySession of one of the connections: the primary key lets the
\* first one insert the row, the others only log the error.
CreateSession(s) ==
  /\ starts < MaxStarts
  /\ starts' = starts + 1
  /\ sessions' = sessions \cup {s}
  /\ UNCHANGED <<metrics, rows, disk, handlers, client, wiper, wiped, fails>>

\* The stats reporter inserts both directions under one lock; the foreign
\* key refuses them when the session has no row.
RecordProbeStats(s) ==
  /\ s \in sessions
  /\ metrics' = metrics \cup {s}
  /\ UNCHANGED <<sessions, rows, disk, handlers, client, wiper, wiped, fails, starts>>

----------------------------------------------------------------------------
(* The browser's uploader.  A request occupies a handler slot.             *)

Request(h, r, kind, at) ==
  /\ handlers[h].kind = "free"
  /\ handlers' = [handlers EXCEPT ![h] = [Free EXCEPT !.kind = kind, !.rec = r,
                                                      !.at = at, !.pc = "start"]]

Reply(r) == handlers[client[r].req]

\* The user starts (or retries) the upload of a recording made in a survey.
StartUpload(r, h) ==
  /\ client[r].pc = "idle"
  /\ Request(h, r, "prepare", 0)
  /\ client' = [client EXCEPT ![r] = [Idle EXCEPT !.pc = "prepare", !.req = h]]
  /\ UNCHANGED <<sessions, metrics, rows, disk, wiper, wiped, fails, starts>>

\* The answer to prepare: the chunks whose checksum the server already has.
Prepared(r) ==
  /\ client[r].pc = "prepare" /\ client[r].req # None
  /\ Reply(r).pc = "replied" /\ Reply(r).ok
  /\ client' = [client EXCEPT ![r] = [client[r] EXCEPT !.pc = "chunk", !.req = None,
                                               !.have = Reply(r).saw]]
  /\ handlers' = [handlers EXCEPT ![client[r].req] = Free]
  /\ UNCHANGED <<sessions, metrics, rows, disk, wiper, wiped, fails, starts>>

\* mutant: the resume trusts the number of chunks, not their checksums
SkipChunkByCount(r) ==
  /\ client[r].pc = "chunk" /\ client[r].req = None
  /\ client[r].next \in Chunks
  /\ client[r].have # {}
  /\ client' = [client EXCEPT ![r].next = @ + 1]
  /\ UNCHANGED <<sessions, metrics, rows, disk, handlers, wiper, wiped, fails, starts>>

\* A chunk the server already has is skipped, any other is sent.
SkipChunk(r) ==
  /\ client[r].pc = "chunk" /\ client[r].req = None
  /\ client[r].next \in client[r].have
  /\ client' = [client EXCEPT ![r].next = @ + 1]
  /\ UNCHANGED <<sessions, metrics, rows, disk, handlers, wiper, wiped, fails, starts>>

SendChunk(r, h) ==
  /\ client[r].pc = "chunk" /\ client[r].req = None
  /\ client[r].next \in Chunks \ client[r].have
  /\ Request(h, r, "chunk", client[r].next)
  /\ client' = [client EXCEPT ![r].req = h]
  /\ UNCHANGED <<sessions, metrics, rows, disk, wiper, wiped, fails, starts>>

ChunkStored(r) ==
  /\ client[r].pc = "chunk" /\ client[r].req # None
  /\ Reply(r).pc = "replied" /\ Reply(r).ok
  /\ client' = [client EXCEPT ![r] = [client[r] EXCEPT !.next = @ + 1, !.tries = Retries,
                                               !.req = None]]
  /\ handlers' = [handlers EXCEPT ![client[r].req] = Free]
  /\ UNCHANGED <<sessions, metrics, rows, disk, wiper, wiped, fails, starts>>

AskFinalize(r, h) ==
  /\ client[r].pc = "chunk" /\ client[r].req = None
  /\ client[r].next = NChunks + 1
  /\ Request(h, r, "finalize", 1)
  /\ client' = [client EXCEPT ![r] = [client[r] EXCEPT !.pc = "finalize", !.req = h]]
  /\ UNCHANGED <<sessions, metrics, rows, disk, wiper, wiped, fails, starts>>

\* "complete": the recording is marked as uploaded.  "failed": the user may retry.
Finalized(r) ==
  /\ client[r].pc = "finalize" /\ client[r].req # None
  /\ Reply(r).pc = "replied" /\ Reply(r).ok
  /\ client' = [client EXCEPT ![r] = IF Chunks \subseteq Reply(r).saw
                                       THEN [Idle EXCEPT !.pc = "done"]
                                       ELSE Idle]
  /\ handlers' = [handlers EXCEPT ![client[r].req] = Free]
  /\ UNCHANGED <<sessions, metrics, rows, disk, wiper, wiped, fails, starts>>

\* What a failed request does to the uploader: a chunk is tried again, as
\* often as Retries allows; anything else ends the upload.
AfterError(c) ==
  IF c.pc = "chunk" /\ c.tries > 1
    THEN [c EXCEPT !.tries = @ - 1, !.req = None]
    ELSE Idle

\* The server answered with an error.
RequestRefused(r) ==
  /\ client[r].req # None
  /\ Reply(r).pc = "replied" /\ ~Reply(r).ok
  /\ client' = [client EXCEPT ![r] = AfterError(@)]
  /\ handlers' = [handlers EXCEPT ![client[r].req] = Free]
  /\ UNCHANGED <<sessions, metrics, rows, disk, wiper, wiped, fails, starts>>

\* The network fails the request, or the page is reloaded; the handler is on its own.
GiveUp(r) ==
  /\ client[r].req # None
  /\ fails < MaxFails
  /\ fails' = fails + 1
  /\ \E c \in {AfterError(client[r]), Idle} : client' = [client EXCEPT ![r] = c]
  /\ UNCHANGED <<sessions, metrics, rows, disk, handlers, wiper, wiped, starts>>

----------------------------------------------------------------------------
(* The upload handlers.                                                    *)

At(h, kind, pc) == handlers[h].kind = kind /\ handlers[h].pc = pc
Goto(h, pc) == handlers' = [handlers EXCEPT ![h].pc = pc]
Answer(h, ok) == handlers' = [handlers EXCEPT ![h].pc = "replied", ![h].ok = ok]
Larger(m, n) == IF m < n THEN n ELSE m
HasRow(r) == rows[r] # NoRow

\* Steps 1 to 3 of prepare: the session must exist; its directory is made.
PrepareStart(h) ==
  /\ At(h, "prepare", "start")
  /\ IF SessionOf[handlers[h].rec] \in sessions
       THEN handlers' = [handlers EXCEPT ![h].pc = "read", ![h].at = 1]
       ELSE Answer(h, FALSE)
  /\ UNCHANGED <<sessions, metrics, rows, disk, client, wiper, wiped, fails, starts>>

FirstOf(f) == IF f = "video" THEN 1 ELSE NVideo + 1
After(f) == IF f = "video" THEN NVideo + 1 ELSE NChunks + 1

\* calculate_file_checksums, one chunk: saw gets the chunks whose checksum is
\* the client's.  A file that does not exist when it would be opened has none.
ReadChunk(h) ==
  LET k == handlers[h].at
      file == disk[handlers[h].rec][FileOf(k)]
  IN /\ handlers[h].kind \in {"prepare", "finalize"} /\ handlers[h].pc = "read"
     /\ k \in Chunks
     /\ handlers' = IF k = FirstOf(FileOf(k)) /\ ~file.there
                      THEN [handlers EXCEPT ![h].at = After(FileOf(k))]
                      ELSE [handlers EXCEPT ![h].at = k + 1,
                                            ![h].saw = @ \cup ({k} \cap file.good)]
     /\ UNCHANGED <<sessions, metrics, rows, disk, client, wiper, wiped, fails, starts>>

ReadDone(h) ==
  /\ handlers[h].pc = "read" /\ handlers[h].at = NChunks + 1
  /\ Goto(h, IF handlers[h].kind = "prepare" THEN "sizes" ELSE "store")
  /\ UNCHANGED <<sessions, metrics, rows, disk, client, wiper, wiped, fails, starts>>

\* The lengths of both files, for the uploaded-bytes columns.
PrepareSizes(h) ==
  /\ At(h, "prepare", "sizes")
  /\ handlers' = [handlers EXCEPT ![h].pc = "store",
                    ![h].size = [f \in Files |-> disk[handlers[h].rec][f].len]]
  /\ UNCHANGED <<sessions, metrics, rows, disk, client, wiper, wiped, fails, starts>>

\* mutant: a plain INSERT, refused when the recording already has a row
PrepareRowInsertOnly(h) ==
  LET r == handlers[h].rec
  IN /\ At(h, "prepare", "store")
     /\ IF ~HasRow(r) /\ SessionOf[r] \in sessions
          THEN /\ rows' = [rows EXCEPT ![r] = [status |-> "uploading",
                                               bytes |-> handlers[h].size]]
               /\ Answer(h, TRUE)
          ELSE Answer(h, FALSE) /\ UNCHANGED rows
     /\ UNCHANGED <<sessions, metrics, disk, client, wiper, wiped, fails, starts>>

\* mutant: a recording whose files have their full size is complete
PrepareRowBySize(h) ==
  LET r == handlers[h].rec
      full == \A f \in Files : handlers[h].size[f] = After(f) - 1
  IN /\ At(h, "prepare", "store")
     /\ IF HasRow(r) \/ SessionOf[r] \in sessions
          THEN /\ rows' = [rows EXCEPT ![r] = [status |-> IF full THEN "complete" ELSE "uploading",
                                               bytes |-> handlers[h].size]]
               /\ Answer(h, TRUE)
          ELSE Answer(h, FALSE) /\ UNCHANGED rows
     /\ UNCHANGED <<sessions, metrics, disk, client, wiper, wiped, fails, starts>>

\* mutant: the foreign key is not enforced
PrepareRowNoForeignKey(h) ==
  LET r == handlers[h].rec
  IN /\ At(h, "prepare", "store")
     /\ rows' = [rows EXCEPT ![r] =
                   [status |-> IF HasRow(r) THEN @.status ELSE "uploading",
                    bytes |-> handlers[h].size]]
     /\ Answer(h, TRUE)
     /\ UNCHANGED <<sessions, metrics, disk, client, wiper, wiped, fails, starts>>

\* The upsert.  A new row needs its session (the foreign key); the row of an
\* earlier attempt keeps its status.
PrepareRow(h) ==
  LET r == handlers[h].rec
  IN /\ At(h, "prepare", "store")
     /\ IF HasRow(r) \/ SessionOf[r] \in sessions
          THEN /\ rows' = [rows EXCEPT ![r] =
                             [status |-> IF HasRow(r) THEN @.status ELSE "uploading",
                              bytes |-> handlers[h].size]]
               /\ Answer(h, TRUE)
          ELSE Answer(h, FALSE) /\ UNCHANGED rows
     /\ UNCHANGED <<sessions, metrics, disk, client, wiper, wiped, fails, starts>>

\* mutant: the bytes are counted before they are written
ChunkPathCounts(h) ==
  LET r == handlers[h].rec
      k == handlers[h].at
  IN /\ At(h, "chunk", "start")
     /\ IF HasRow(r)
          THEN rows' = [rows EXCEPT ![r].bytes[FileOf(k)] = Larger(@, k)] /\ Goto(h, "write")
          ELSE Answer(h, FALSE) /\ UNCHANGED rows
     /\ UNCHANGED <<sessions, metrics, disk, client, wiper, wiped, fails, starts>>

\* Steps 1 to 3 of a chunk whose checksum is right: the path is in the row.
ChunkPath(h) ==
  /\ At(h, "chunk", "start")
  /\ IF HasRow(handlers[h].rec) THEN Goto(h, "write") ELSE Answer(h, FALSE)
  /\ UNCHANGED <<sessions, metrics, rows, disk, client, wiper, wiped, fails, starts>>

\* Step 4: open (and create), seek, write, flush.
ChunkWrite(h) ==
  LET k == handlers[h].at
      r == handlers[h].rec
      f == FileOf(k)
  IN /\ At(h, "chunk", "write")
     /\ disk' = [disk EXCEPT ![r][f] = [there |-> TRUE, len |-> Larger(@.len, k),
                                        good |-> @.good \cup {k}]]
     /\ Goto(h, "store")
     /\ UNCHANGED <<sessions, metrics, rows, client, wiper, wiped, fails, starts>>

\* The write fails half way: the file may have grown, a chunk that was right
\* stays right because the same bytes go over it.
ChunkWriteFails(h) ==
  LET k == handlers[h].at
      r == handlers[h].rec
      f == FileOf(k)
  IN /\ At(h, "chunk", "write")
     /\ fails < MaxFails
     /\ fails' = fails + 1
     /\ \E n \in {disk[r][f].len, Larger(disk[r][f].len, k)} :
          disk' = [disk EXCEPT ![r][f] = [there |-> TRUE, len |-> n, good |-> @.good]]
     /\ Answer(h, FALSE)
     /\ UNCHANGED <<sessions, metrics, rows, client, wiper, wiped, starts>>

\* Step 5: UPDATE ... MAX(uploaded, new), which touches no row after a wipe.
ChunkBytes(h) ==
  LET r == handlers[h].rec
      k == handlers[h].at
  IN /\ At(h, "chunk", "store")
     /\ rows' = IF HasRow(r)
                  THEN [rows EXCEPT ![r].bytes[FileOf(k)] = Larger(@, k)]
                  ELSE rows
     /\ Answer(h, TRUE)
     /\ UNCHANGED <<sessions, metrics, disk, client, wiper, wiped, fails, starts>>

FinalizeRow(h) ==
  /\ At(h, "finalize", "start")
  /\ IF HasRow(handlers[h].rec) THEN Goto(h, "read") ELSE Answer(h, FALSE)
  /\ UNCHANGED <<sessions, metrics, rows, disk, client, wiper, wiped, fails, starts>>

\* Both combined checksums equal the client's iff every chunk was read as right.
FinalizeStatus(h) ==
  LET r == handlers[h].rec
      verified == Chunks \subseteq handlers[h].saw
  IN /\ At(h, "finalize", "store")
     /\ rows' = IF HasRow(r)
                  THEN [rows EXCEPT ![r].status = IF verified THEN "complete" ELSE "failed"]
                  ELSE rows
     /\ Answer(h, TRUE)
     /\ UNCHANGED <<sessions, metrics, disk, client, wiper, wiped, fails, starts>>

\* A checksum mismatch of the received body, or a database or file error.
HandlerFails(h) ==
  /\ handlers[h].pc \in {"start", "read", "store"}
  /\ fails < MaxFails
  /\ fails' = fails + 1
  /\ Answer(h, FALSE)
  /\ UNCHANGED <<sessions, metrics, rows, disk, client, wiper, wiped, starts>>

\* A handler nobody waits for ends, or is dropped at an await.
Drop(h) ==
  /\ handlers[h].kind # "free"
  /\ client[handlers[h].rec].req # h
  /\ handlers' = [handlers EXCEPT ![h] = Free]
  /\ UNCHANGED <<sessions, metrics, rows, disk, client, wiper, wiped, fails, starts>>

\* The server process stops and is started again; files and rows survive.
Crash ==
  /\ fails < MaxFails
  /\ fails' = fails + 1
  /\ handlers' = [h \in Handlers |-> Free]
  /\ client' = [r \in Recordings |-> IF client[r].req = None THEN client[r]
                                                             ELSE AfterError(client[r])]
  /\ wiper' = [s \in Sessions |-> NoWipe]
  /\ UNCHANGED <<sessions, metrics, rows, disk, wiped, starts>>

----------------------------------------------------------------------------
(* wipe_session.  No file paths are ever stored in a session row, so the   *)
(* files of a session are those of its recordings.                         *)

RecordingsOf(s) == {r \in Recordings : SessionOf[r] = s}

WipeLookup(s) ==
  /\ wiper[s].pc = "idle"
  /\ s \in sessions
  /\ wiper' = [wiper EXCEPT ![s].pc = "collect"]
  /\ UNCHANGED <<sessions, metrics, rows, disk, handlers, client, wiped, fails, starts>>

WipeCollect(s) ==
  /\ wiper[s].pc = "collect"
  /\ wiper' = [wiper EXCEPT ![s] =
                 [pc |-> "delete", files |-> {r \in RecordingsOf(s) : HasRow(r)} \X Files]]
  /\ UNCHANGED <<sessions, metrics, rows, disk, handlers, client, wiped, fails, starts>>

Without(s) == [r \in Recordings |-> IF SessionOf[r] = s THEN NoRow ELSE rows[r]]

\* Metrics, recordings and session are deleted under one lock.
WipeRows(s) ==
  /\ wiper[s].pc = "delete"
  /\ metrics' = metrics \ {s} /\ rows' = Without(s) /\ sessions' = sessions \ {s}
  /\ wiped' = wiped \cup {s}
  /\ wiper' = [wiper EXCEPT ![s].pc = "unlink"]
  /\ UNCHANGED <<disk, handlers, client, fails, starts>>

\* A statement fails: each one commits by itself, so those before it stay done.
WipeFails(s) ==
  /\ wiper[s].pc \in {"collect", "delete"}
  /\ fails < MaxFails
  /\ fails' = fails + 1
  /\ \/ UNCHANGED <<metrics, rows, wiped>>
     \/ /\ wiper[s].pc = "delete"
        /\ metrics' = metrics \ {s}
        /\ UNCHANGED <<rows, wiped>>
     \/ /\ wiper[s].pc = "delete"
        /\ metrics' = metrics \ {s} /\ rows' = Without(s)
        /\ wiped' = wiped \cup {s}
  /\ wiper' = [wiper EXCEPT ![s] = NoWipe]
  /\ UNCHANGED <<sessions, disk, handlers, client, starts>>

\* One remove_file; a failure is only reported (files_failed).
WipeUnlink(s) ==
  /\ wiper[s].pc = "unlink"
  /\ \E d \in wiper[s].files :
       /\ wiper' = [wiper EXCEPT ![s].files = @ \ {d}]
       /\ \/ disk' = [disk EXCEPT ![d[1]][d[2]] = Absent] /\ UNCHANGED fails
          \/ fails < MaxFails /\ fails' = fails + 1 /\ UNCHANGED disk
  /\ UNCHANGED <<sessions, metrics, rows, handlers, client, wiped, starts>>

WipeDone(s) ==
  /\ wiper[s].pc = "unlink" /\ wiper[s].files = {}
  /\ wiper' = [wiper EXCEPT ![s] = NoWipe]
  /\ UNCHANGED <<sessions, metrics, rows, disk, handlers, client, wiped, fails, starts>>

----------------------------------------------------------------------------

Survey(s) == CreateSession(s) \/ RecordProbeStats(s)

Browser(r) ==
  \/ \E h \in Handlers : StartUpload(r, h) \/ SendChunk(r, h) \/ AskFinalize(r, h)
  \/ Prepared(r) \/ SkipChunk(r) \/ ChunkStored(r) \/ Finalized(r) \/ RequestRefused(r)

Handle(h) ==
  \/ PrepareStart(h) \/ ReadChunk(h) \/ ReadDone(h) \/ PrepareSizes(h) \/ PrepareRow(h)
  \/ ChunkPath(h) \/ ChunkWrite(h) \/ ChunkBytes(h)
  \/ FinalizeRow(h) \/ FinalizeStatus(h) \/ Drop(h)

Wipe(s) == WipeCollect(s) \/ WipeRows(s) \/ WipeUnlink(s) \/ WipeDone(s)

Next ==
  \/ \E s \in Sessions : Survey(s) \/ WipeLookup(s) \/ Wipe(s) \/ WipeFails(s)
  \/ \E r \in Recordings : Browser(r) \/ GiveUp(r)
  \/ \E h \in Handlers : Handle(h) \/ ChunkWriteFails(h) \/ HandlerFails(h)
  \/ Crash

Spec == Init /\ [][Next]_vars

\* The server runs its handlers; the survey is started; the browser goes on
\* and its user retries an upload that failed.
FairSpec ==
  /\ Spec
  /\ \A s \in Sessions : WF_vars(CreateSession(s)) /\ WF_vars(Wipe(s))
  /\ \A r \in Recordings : WF_vars(Browser(r))
  /\ \A h \in Handlers : WF_vars(Handle(h))

----------------------------------------------------------------------------
(* Properties.  They are about sessions whose recordings were not wiped:   *)
(* an upload that races a wipe may find the files gone under it.           *)

Kept(r) == SessionOf[r] \notin wiped

\* A recording the database shows as complete (upload_status of finalize_upload)
\* is on disk with every chunk as the browser has it, whatever requests were
\* retried, given up or cut short by a crash before or after.
CompleteIsWhole ==
  \A r \in Recordings :
    rows[r].status = "complete" /\ Kept(r) =>
      \A f \in Files : ChunksOf(f) \subseteq disk[r][f].good

\* The uploader never moves past a chunk that the server does not hold: what
\* prepare reported and what upload_chunk acknowledged stays on disk, so the
\* uploader of nettest.html may skip it.
PassedChunksStored ==
  \A r \in Recordings : Kept(r) =>
    \A k \in Chunks : k < client[r].next => k \in disk[r][FileOf(k)].good

\* The uploaded-bytes columns of a recording never claim more than the file
\* holds, though upload_chunk and prepare_upload write them long after the file.
BytesNotOverstated ==
  \A r \in Recordings : Kept(r) =>
    \A f \in Files : rows[r].bytes[f] <= disk[r][f].len

\* Every recording and metric row belongs to a session that has a row, so that
\* wipe_session, which starts from the session, can still find it: also when
\* a wipe overtakes prepare_upload or fails half way.
RowsWipeable ==
  /\ metrics \subseteq sessions
  /\ \A r \in Recordings : HasRow(r) => SessionOf[r] \in sessions

\* An upload whose session is kept is completed, after any number of requests
\* that were lost, failed or cut off by a crash (resume through prepare_upload).
UploadCompletes ==
  \A r \in Recordings : <>(client[r].pc = "done" \/ ~Kept(r))

\* wipe_session: "Permanently delete a survey session and all associated data
\* ... and any associated files (video, sensor, pcap, keylog) from disk."
WipeLeavesNothing ==
  \A s \in wiped \ sessions : wiper[s].pc = "idle" =>
    \A r \in RecordingsOf(s), f \in Files : ~disk[r][f].there

=============================================================================
