----------------------------- MODULE ModelJobs -----------------------------
(***************************************************************************)
(* The server's recorder of model requests (server/node/model-jobs.cjs).   *)
(* A job relays one upstream request: its bytes go through a buffered      *)
(* write stream into an append-only journal, and any number of readers     *)
(* replay the journal from byte 0 and follow its tail.  The row is in      *)
(* SQLite and the journal is a file; the run loop, its abort flag and the  *)
(* bytes still buffered are memory and die with the process.               *)
(*                                                                         *)
(* A job id stands for the request it was created for: its chat, its kind  *)
(* and the length of the answer the provider would give are fixed by       *)
(* constants.                                                              *)
(***************************************************************************)
EXTENDS Integers, FiniteSets

CONSTANTS
    Jobs,          \* job ids (UUIDs, never used twice)
    Chats,         \* chat ids
    ChatOf,        \* the chat a job generates for
    MainJobs,      \* jobs of kind 'main'; the others are 'aux'
    AnswerLen,     \* bytes of the provider's whole answer
    Readers,       \* HTTP requests that stream a journal
    NoJob,
    MaxRetained,   \* MODEL_JOB_MAX_RETAINED_TERMINAL, 50 in the code
    MaxRestarts,   \* model bound: server crashes
    DiskMayFail    \* whether journal writes may fail (disk full)

ASSUME JobsAssumption ==
    /\ ChatOf \in [Jobs -> Chats]
    /\ MainJobs \subseteq Jobs
    /\ AnswerLen \in [Jobs -> Nat]
    /\ NoJob \notin Jobs

ASSUME LimitsAssumption ==
    /\ MaxRetained \in Nat
    /\ MaxRestarts \in Nat
    /\ DiskMayFail \in BOOLEAN

VARIABLES
    status,      \* row.status, or "unused" / "gone" when there is no row
    claimed,     \* row.claimed
    headers,     \* row.upstream_status is set
    endedAt,     \* row.ended_at, as a position in the order of endings
    now,         \* the last ending
    run,         \* the runJob coroutine; "none" when not in activeJobs, "orphaned"
                 \* when the entry is there and the coroutine was never started
    aborted,     \* controller.signal.aborted
    failed,      \* runJob's error is set
    handed,      \* bytesWritten: bytes given to the write stream
    file,        \* length of the journal file
    diskFailed,  \* a write to the journal file has failed
    writeError,  \* the stream's 'error' event has been handled
    rjob,        \* the job a reader streams
    rphase,      \* where the reader's streamJob call stands
    offset,      \* bytes the reader has sent
    restarts

rowVars == <<status, claimed, headers, endedAt, now>>
runVars == <<run, aborted, failed, handed, file, diskFailed, writeError>>
readerVars == <<rjob, rphase, offset>>
vars == <<status, claimed, headers, endedAt, now, run, aborted, failed, handed,
          file, diskFailed, writeError, rjob, rphase, offset, restarts>>

Terminal == {"done", "failed", "aborted"}
Statuses == {"unused", "running", "gone"} \cup Terminal
RunPhases == {"none", "connecting", "streaming", "ending", "orphaned"}
ReaderPhases == {"idle", "headers", "opening", "reading", "eof", "last",
                 "ended", "missing"}
Waiting == {"headers", "opening", "reading", "eof", "last"}

TypeOK ==
    /\ status \in [Jobs -> Statuses]
    /\ claimed \in [Jobs -> BOOLEAN]
    /\ headers \in [Jobs -> BOOLEAN]
    /\ endedAt \in [Jobs -> Nat]
    /\ now \in Nat
    /\ run \in [Jobs -> RunPhases]
    /\ aborted \in [Jobs -> BOOLEAN]
    /\ failed \in [Jobs -> BOOLEAN]
    /\ handed \in [Jobs -> Nat]
    /\ file \in [Jobs -> Nat]
    /\ diskFailed \in [Jobs -> BOOLEAN]
    /\ writeError \in [Jobs -> BOOLEAN]
    /\ rjob \in [Readers -> Jobs \cup {NoJob}]
    /\ rphase \in [Readers -> ReaderPhases]
    /\ offset \in [Readers -> Nat]
    /\ restarts \in 0..MaxRestarts

HasRow(j) == status[j] \notin {"unused", "gone"}
Active(j) == run[j] # "none"

\* What GET /api/model-jobs?unclaimed=1 lists: the answers a client may recover.
Recoverable(j) == status[j] \in {"done", "failed"} /\ ~claimed[j] /\ j \in MainJobs

Init ==
    /\ status = [j \in Jobs |-> "unused"]
    /\ claimed = [j \in Jobs |-> FALSE]
    /\ headers = [j \in Jobs |-> FALSE]
    /\ endedAt = [j \in Jobs |-> 0]
    /\ now = 0
    /\ run = [j \in Jobs |-> "none"]
    /\ aborted = [j \in Jobs |-> FALSE]
    /\ failed = [j \in Jobs |-> FALSE]
    /\ handed = [j \in Jobs |-> 0]
    /\ file = [j \in Jobs |-> 0]
    /\ diskFailed = [j \in Jobs |-> FALSE]
    /\ writeError = [j \in Jobs |-> FALSE]
    /\ rjob = [r \in Readers |-> NoJob]
    /\ rphase = [r \in Readers |-> "idle"]
    /\ offset = [r \in Readers |-> 0]
    /\ restarts = 0

---------------------------------------------------------------------------
(* Creating a job: the row, the activeJobs entry, the empty journal and    *)
(* the first step of the run loop in one synchronous handler.              *)

\* Mutated RunningForChat: not used by the specification.
UnabortedRunningForChat(c) ==
    {k \in MainJobs : ChatOf[k] = c /\ status[k] = "running" /\ ~aborted[k]}

RunningForChat(c) == {k \in MainJobs : ChatOf[k] = c /\ status[k] = "running"}

\* The journal is created after the row and the entry: when that throws, both
\* stay and no loop is started.
CreateJob(j) ==
    /\ status[j] = "unused"
    /\ j \in MainJobs => RunningForChat(ChatOf[j]) = {}
    /\ status' = [status EXCEPT ![j] = "running"]
    /\ \/ run' = [run EXCEPT ![j] = "connecting"]
       \/ DiskMayFail /\ run' = [run EXCEPT ![j] = "orphaned"]
    /\ UNCHANGED <<claimed, headers, endedAt, now, aborted, failed, handed, file,
                   diskFailed, writeError, readerVars, restarts>>

---------------------------------------------------------------------------
(* The run loop.                                                           *)

UpstreamAnswers(j) ==
    /\ run[j] = "connecting"
    /\ ~aborted[j]
    /\ headers' = [headers EXCEPT ![j] = TRUE]
    /\ run' = [run EXCEPT ![j] = "streaming"]
    /\ UNCHANGED <<status, claimed, endedAt, now, aborted, failed, handed, file,
                   diskFailed, writeError, readerVars, restarts>>

Chunk(j) ==
    /\ run[j] = "streaming"
    /\ ~aborted[j] /\ ~writeError[j]
    /\ handed[j] < AnswerLen[j]
    /\ handed' = [handed EXCEPT ![j] = @ + 1]
    /\ UNCHANGED <<rowVars, run, aborted, failed, file, diskFailed, writeError,
                   readerVars, restarts>>

UpstreamEnds(j) ==
    /\ run[j] = "streaming"
    /\ ~aborted[j] /\ ~writeError[j]
    /\ handed[j] = AnswerLen[j]
    /\ run' = [run EXCEPT ![j] = "ending"]
    /\ UNCHANGED <<rowVars, aborted, failed, handed, file, diskFailed, writeError,
                   readerVars, restarts>>

\* Mutated UpstreamFails: not used by the specification.
SilentUpstreamFails(j) ==
    /\ run[j] \in {"connecting", "streaming"}
    /\ run' = [run EXCEPT ![j] = "ending"]
    /\ UNCHANGED <<rowVars, aborted, failed, handed, file, diskFailed, writeError,
                   readerVars, restarts>>

\* Mutated UpstreamFails: not used by the specification.
DeafUpstreamFails(j) ==
    /\ run[j] \in {"connecting", "streaming"}
    /\ ~aborted[j]
    /\ run' = [run EXCEPT ![j] = "ending"]
    /\ failed' = [failed EXCEPT ![j] = TRUE]
    /\ UNCHANGED <<rowVars, aborted, handed, file, diskFailed, writeError,
                   readerVars, restarts>>

\* A refused, broken or timed-out request, an abort, or a write error the
\* loop noticed.
UpstreamFails(j) ==
    /\ run[j] \in {"connecting", "streaming"}
    /\ run' = [run EXCEPT ![j] = "ending"]
    /\ failed' = [failed EXCEPT ![j] = TRUE]
    /\ UNCHANGED <<rowVars, aborted, handed, file, diskFailed, writeError,
                   readerVars, restarts>>

\* The write stream drains its buffer to the file behind the loop's back.
Flush(j) ==
    /\ Active(j) /\ ~diskFailed[j]
    /\ file[j] < handed[j]
    /\ file' = [file EXCEPT ![j] = @ + 1]
    /\ UNCHANGED <<rowVars, run, aborted, failed, handed, diskFailed, writeError,
                   readerVars, restarts>>

DiskFails(j) ==
    /\ DiskMayFail
    /\ Active(j) /\ ~diskFailed[j]
    /\ file[j] < handed[j]
    /\ diskFailed' = [diskFailed EXCEPT ![j] = TRUE]
    /\ UNCHANGED <<rowVars, run, aborted, failed, handed, file, writeError,
                   readerVars, restarts>>

\* The 'error' event follows the failed write later: the stream closes the
\* file first.
WriteErrorEvent(j) ==
    /\ Active(j) /\ diskFailed[j] /\ ~writeError[j]
    /\ writeError' = [writeError EXCEPT ![j] = TRUE]
    /\ UNCHANGED <<rowVars, run, aborted, failed, handed, file, diskFailed,
                   readerVars, restarts>>

FinalStatus(j) ==
    IF ~failed[j] /\ ~writeError[j] THEN "done"
    ELSE IF aborted[j] THEN "aborted" ELSE "failed"

\* Mutated EndCalledBack: not used by the specification.
UnflushedEndCalledBack(j) == TRUE

\* end() calls back once everything is flushed, and also on a failed stream.
EndCalledBack(j) == file[j] = handed[j] \/ diskFailed[j]

Finalize(j) ==
    /\ run[j] = "ending"
    /\ EndCalledBack(j)
    /\ status' = [status EXCEPT ![j] = FinalStatus(j)]
    /\ now' = now + 1
    /\ endedAt' = [endedAt EXCEPT ![j] = now + 1]
    /\ run' = [run EXCEPT ![j] = "none"]
    /\ UNCHANGED <<claimed, headers, aborted, failed, handed, file, diskFailed,
                   writeError, readerVars, restarts>>

---------------------------------------------------------------------------
(* Routes on a finished or running job.                                    *)

ClaimJob(j) ==
    /\ status[j] \in Terminal
    /\ claimed' = [claimed EXCEPT ![j] = TRUE]
    /\ UNCHANGED <<status, headers, endedAt, now, runVars, readerVars, restarts>>

\* DELETE aborts an active job and removes a finished one with its journal.
AbortJob(j) ==
    /\ Active(j)
    /\ aborted' = [aborted EXCEPT ![j] = TRUE]
    /\ UNCHANGED <<rowVars, run, failed, handed, file, diskFailed, writeError,
                   readerVars, restarts>>

DeleteJob(j) ==
    /\ status[j] \in Terminal /\ ~Active(j)
    /\ status' = [status EXCEPT ![j] = "gone"]
    /\ UNCHANGED <<claimed, headers, endedAt, now, runVars, readerVars, restarts>>

---------------------------------------------------------------------------
(* Rotation of finished jobs: by age, sparing unclaimed main jobs, and by  *)
(* number, keeping unclaimed main jobs first and then the newest.          *)

Worthless(j) == claimed[j] \/ j \notin MainJobs

Expired(st, end, cutoff) ==
    {j \in Jobs : st[j] \in Terminal /\ Worthless(j) /\ end[j] < cutoff}

\* Mutated KeptBefore: not used by the specification.
NewestKeptBefore(end, j, k) == end[j] >= end[k]

\* SQL order: unclaimed main rows first, then by ended_at, newest first
KeptBefore(end, j, k) ==
    \/ ~Worthless(j) /\ Worthless(k)
    \/ Worthless(j) = Worthless(k) /\ end[j] >= end[k]

Keeps(st, end) ==
    LET ended == {j \in Jobs : st[j] \in Terminal}
    IN  {K \in SUBSET ended :
            /\ Cardinality(K) <= MaxRetained
            /\ K # ended => Cardinality(K) = MaxRetained
            /\ \A j \in K, k \in ended \ K : KeptBefore(end, j, k)}

\* What cleanupTerminalJobs may remove: with the age cutoff falling anywhere.
Rotations(st, end) ==
    {Expired(st, end, cutoff) \cup ({j \in Jobs : st[j] \in Terminal} \ K) :
        cutoff \in 0..(now + 1), K \in Keeps(st, end)}

Drop(st, dropped) == [j \in Jobs |-> IF j \in dropped THEN "gone" ELSE st[j]]

CleanupTerminalJobs ==
    \E dropped \in Rotations(status, endedAt) :
        /\ dropped # {}
        /\ status' = Drop(status, dropped)
        /\ UNCHANGED <<claimed, headers, endedAt, now, runVars, readerVars, restarts>>

---------------------------------------------------------------------------
(* A crash of the server, and its next boot: jobs that were running are    *)
(* failed, then the rotation runs.  What the write streams had buffered    *)
(* is lost; so are all readers.                                            *)

MarkRunning(st) == [j \in Jobs |-> IF st[j] = "running" THEN "failed" ELSE st[j]]

Crash ==
    /\ now' = now + 1
    /\ endedAt' = [j \in Jobs |-> IF status[j] = "running" THEN now + 1 ELSE endedAt[j]]
    /\ \E dropped \in Rotations(MarkRunning(status), endedAt') :
            status' = Drop(MarkRunning(status), dropped)
    /\ run' = [j \in Jobs |-> "none"]
    /\ rjob' = [r \in Readers |-> NoJob]
    /\ rphase' = [r \in Readers |-> "idle"]
    /\ offset' = [r \in Readers |-> 0]
    /\ UNCHANGED <<claimed, headers, aborted, failed, handed, file, diskFailed, writeError>>

Restart ==
    /\ restarts < MaxRestarts
    /\ restarts' = restarts + 1
    /\ Crash

---------------------------------------------------------------------------
(* streamJob: replay from byte 0, then the live tail.  Each step ends at   *)
(* an await.                                                               *)

Attach(r, j) ==
    /\ rphase[r] = "idle"
    /\ HasRow(j)
    /\ rjob' = [rjob EXCEPT ![r] = j]
    /\ offset' = [offset EXCEPT ![r] = 0]
    /\ rphase' = [rphase EXCEPT ![r] =
                    IF status[j] = "running" /\ ~headers[j] THEN "headers" ELSE "opening"]
    /\ UNCHANGED <<rowVars, runVars, restarts>>

Becomes(r, phase) ==
    /\ rphase' = [rphase EXCEPT ![r] = phase]
    /\ UNCHANGED <<rowVars, runVars, rjob, offset, restarts>>

\* Mutated AwaitHeaders: not used by the specification.
EndlessAwaitHeaders(r) ==
    LET j == rjob[r] IN
    /\ rphase[r] = "headers"
    /\ HasRow(j) /\ headers[j]
    /\ Becomes(r, "opening")

\* After each sleep the row is read again.
AwaitHeaders(r) ==
    LET j == rjob[r] IN
    /\ rphase[r] = "headers"
    /\ HasRow(j)
    /\ ~(status[j] = "running" /\ ~headers[j] /\ Active(j))
    /\ Becomes(r, "opening")

\* A row that was deleted during the sleep is undefined, the handler throws, and
\* a rejection that nobody handles ends the process (logs.cjs): every job that
\* runs dies with it. Not counted in restarts: it takes a deleted job each time.
RowVanishes(r) ==
    /\ rphase[r] = "headers"
    /\ ~HasRow(rjob[r])
    /\ Crash
    /\ UNCHANGED restarts

OpenJournal(r) ==
    /\ rphase[r] = "opening"
    /\ Becomes(r, IF HasRow(rjob[r]) THEN "reading" ELSE "missing")

\* The open file handle outlives the journal's removal.
ReadBytes(r) ==
    LET j == rjob[r] IN
    /\ rphase[r] \in {"reading", "last"}
    /\ offset[r] < file[j]
    /\ offset' = [offset EXCEPT ![r] = file[j]]
    /\ UNCHANGED <<rowVars, runVars, rjob, rphase, restarts>>

ReadEnd(r) ==
    /\ rphase[r] \in {"reading", "last"}
    /\ offset[r] = file[rjob[r]]
    /\ Becomes(r, IF rphase[r] = "last" THEN "ended" ELSE "eof")

\* Mutated CheckTerminal: not used by the specification.
OneReadCheckTerminal(r) ==
    /\ rphase[r] = "eof"
    /\ Becomes(r, IF Active(rjob[r]) THEN "reading" ELSE "ended")

\* After an empty read: wait for the writer, or read once more if it is gone.
CheckTerminal(r) ==
    /\ rphase[r] = "eof"
    /\ Becomes(r, IF Active(rjob[r]) THEN "reading" ELSE "last")

ClientGone(r) ==
    /\ rphase[r] # "idle"
    /\ rjob' = [rjob EXCEPT ![r] = NoJob]
    /\ offset' = [offset EXCEPT ![r] = 0]
    /\ rphase' = [rphase EXCEPT ![r] = "idle"]
    /\ UNCHANGED <<rowVars, runVars, restarts>>

---------------------------------------------------------------------------

RunStep(j) ==
    \/ UpstreamAnswers(j)
    \/ Chunk(j)
    \/ UpstreamEnds(j)
    \/ UpstreamFails(j)

StreamStep(r) ==
    \/ AwaitHeaders(r)
    \/ OpenJournal(r)
    \/ ReadBytes(r)
    \/ ReadEnd(r)
    \/ CheckTerminal(r)

Next ==
    \/ \E j \in Jobs :
        \/ CreateJob(j) \/ RunStep(j) \/ Flush(j) \/ DiskFails(j)
        \/ WriteErrorEvent(j) \/ Finalize(j)
        \/ ClaimJob(j) \/ AbortJob(j) \/ DeleteJob(j)
    \/ \E r \in Readers :
        \/ \E j \in Jobs : Attach(r, j)
        \/ StreamStep(r) \/ RowVanishes(r)
        \/ ClientGone(r)
    \/ CleanupTerminalJobs
    \/ Restart

Spec == Init /\ [][Next]_vars

\* The upstream request ends by itself or by its timeout, the operating system
\* writes or fails, and the event loop runs every pending callback.
Fairness ==
    /\ \A j \in Jobs : WF_vars(RunStep(j)) /\ WF_vars(Flush(j)) /\ WF_vars(Finalize(j))
    /\ \A r \in Readers : WF_vars(StreamStep(r) \/ RowVanishes(r))

FairSpec == Spec /\ Fairness

---------------------------------------------------------------------------

\* A done job's journal is the provider's whole answer: the row turns terminal
\* only after the buffered stream has flushed (model-jobs.cjs:424-430), so a
\* client may take 'done' for completeness, through crashes and aborts alike.
DoneIsComplete ==
    \A j \in Jobs : (status[j] = "done" /\ ~diskFailed[j]) => file[j] = AnswerLen[j]

\* A stream that ends by itself delivered every byte the journal will ever
\* have: the extra read after the terminal check closes the race between the
\* last flush and the end of the job (model-jobs.cjs:587-592).
EndedStreamIsWhole ==
    \A r \in Readers : rphase[r] = "ended" =>
        /\ ~Active(rjob[r])
        /\ offset[r] = file[rjob[r]]

\* One main generation per chat at any time, over crashes and aborts that are
\* still winding down: a job counts as running until its row is final.
OneMainPerChat ==
    \A j, k \in MainJobs :
        (j # k /\ ChatOf[j] = ChatOf[k]) => ~(Active(j) /\ Active(k))

\* No row is left running without an entry in activeJobs: nothing could abort
\* it, and it would block its chat with 409 for good (model-jobs.cjs:417-422).
RunningIsActive == \A j \in Jobs : (status[j] = "running") <=> Active(j)

\* When a rotation throws away an answer no client has recovered, all it keeps
\* is unclaimed and at least as new: neither the mix of age and number nor the
\* jobs a restart has just failed may crowd it out (model-jobs.cjs:261-270).
RotationSparesUnclaimed ==
    [][CleanupTerminalJobs \/ Crash =>
        \A j, k \in Jobs :
            /\ HasRow(j) /\ status'[j] = "gone" /\ ~Worthless(j)
            /\ status'[k] \in Terminal
            => ~Worthless(k) /\ endedAt'[k] >= endedAt'[j]]_vars

\* The recorder implements the abstract store of answers: buffering, late
\* callbacks, the header wait and the journal's extra read are invisible to a
\* client, and only a failed write breaks the promise of a whole answer
\* (model-jobs.cjs:424-476, 587-667).
Store == INSTANCE JobStore WITH
    text <- file, cut <- diskFailed, reads <- rjob, got <- offset,
    over <- [r \in Readers |-> rphase[r] = "ended"]

ImplementsStore == Store!Spec

\* Every stream ends, or its client leaves, or the server goes down under it: a
\* reader neither waits for headers nor for bytes of a job that is over. A job
\* whose journal could not be created has no loop that would end it
\* (model-jobs.cjs:544-560, 587-667).
StreamsEnd ==
    \A r \in Readers :
        rphase[r] \in Waiting
            ~> rphase[r] \notin Waiting \/ run[rjob[r]] = "orphaned"

\* A job that was asked to stop stops, so its chat can generate again
\* (model-jobs.cjs:572-581: "the run loop finalizes status to 'aborted'").
AbortEnds ==
    \A j \in Jobs :
        aborted[j] /\ run[j] # "none" ~> run[j] \in {"none", "orphaned"}

\* Nobody waits for a job for ever: neither a reader nor the next send.
WaitsEnd == StreamsEnd /\ AbortEnds

=============================================================================
