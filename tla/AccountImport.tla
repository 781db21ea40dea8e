---------------------------- MODULE AccountImport ----------------------------
(***************************************************************************)
(* The import of a RisuAI account (risu-account-import.cjs): the user logs *)
(* in and sees a plan, confirms it, and from then on the server refuses    *)
(* every write until the account's files are downloaded and have replaced  *)
(* all data, or the user cancels; also across a restart of the server.     *)
(* The replacement itself is DataImport's import.                          *)
(*                                                                         *)
(* An account holds one of a few databases, each of which refers to the    *)
(* same files: the assets of an imported database.                         *)
(***************************************************************************)
EXTENDS DataImport

VARIABLES
    state,      \* idle, preparing, ready, downloading, ...
    token,      \* the login is in memory
    job,        \* the plan: its database and what the account lacks
    prep,       \* the check of the account that runs
    loop,       \* the download that runs
    cancelling, \* a cancel waits for them to stop
    meta,       \* meta.json on disk: none, prepared, or started
    staged,     \* the staged database on disk
    files,      \* the staged assets on disk
    approved,   \* the database the user confirmed (ghost)
    leftover    \* removing the marker or the files failed (ghost)

stagingVars == <<meta, staged, files>>
accountVars == <<state, token, job, prep, loop, cancelling, meta, staged,
                 files, approved, leftover>>
vars == <<importVars, accountVars>>

States == {"idle", "preparing", "ready", "downloading", "paused",
           "needs-login", "downloaded", "applying"}
Metas == {"none", "prepared", "started"}
Jobs == [db: Versions, missing: SUBSET Assets]
Preps == [pc: {"read", "stage", "meta", "end"}, db: Origins,
          meta: Metas, aborted: BOOLEAN]
Downloads == [todo: SUBSET Assets, aborted: BOOLEAN]

AccountTypeOK ==
    /\ state \in States /\ token \in BOOLEAN
    /\ job \in Jobs \cup {None}
    /\ prep \in Preps \cup {None} /\ loop \in Downloads \cup {None}
    /\ cancelling \in BOOLEAN
    /\ meta \in Metas /\ staged \in Origins /\ files \subseteq Assets
    /\ approved \in Origins /\ leftover \in BOOLEAN

TypeOK == ImportTypeOK /\ AccountTypeOK

ASSUME NoneOfAccount ==
    /\ None \notin Jobs /\ None \notin Preps /\ None \notin Downloads

Init ==
    /\ ImportInit
    /\ state = "idle" /\ token = FALSE
    /\ job = None /\ prep = None /\ loop = None
    /\ cancelling = FALSE
    /\ meta = "none" /\ staged = NoVersion /\ files = {}
    /\ approved = NoVersion /\ leftover = FALSE

\* Mutated Busy: not used by the specification.
BusyButCancelling == state \in {"preparing", "downloading", "applying"}

Busy == cancelling \/ state \in {"preparing", "downloading", "applying"}

\* The import's own routes work from any page while it blocks.
Allowed == blocking \/ Admitted

\* All of DataImport but the gate and the import.
serverVars == <<disk, tx, cache, store, timer, queued, load, page, acked,
                forgot, late>>

---------------------------------------------------------------------------
(* The check of the account, or of a new login to a started import.        *)

Prepare ==
    /\ Allowed /\ ~Busy
    /\ blocking => state = "needs-login"
    /\ job' = None /\ state' = "preparing" /\ token' = TRUE
    /\ prep' = [pc |-> "read", db |-> NoVersion, meta |-> "none",
                aborted |-> FALSE]
    /\ UNCHANGED <<importVars, loop, cancelling, stagingVars, approved,
                   leftover>>

\* A started import goes on with the database the user approved.
PrepareReads(v) ==
    /\ prep # None /\ prep.pc = "read" /\ ~prep.aborted
    /\ blocking => v = staged
    /\ prep' = [prep EXCEPT !.pc = "stage", !.db = v]
    /\ UNCHANGED <<importVars, state, token, job, loop, cancelling,
                   stagingVars, approved, leftover>>

\* Mutated PrepareStages: not used by the specification.
PrepareStagesStarted ==
    /\ prep # None /\ prep.pc = "stage"
    /\ IF blocking THEN UNCHANGED stagingVars
       ELSE /\ \/ files' = {} /\ meta' = "none"
               \/ files' = files /\ meta' = meta
            /\ staged' = prep.db
    /\ prep' = [prep EXCEPT !.pc = "meta", !.meta = "started"]
    /\ UNCHANGED <<importVars, state, token, job, loop, cancelling, approved,
                   leftover>>

\* Files of another account are removed, the database is staged, and the
\* marker is composed; some time later it is on disk.
PrepareStages ==
    /\ prep # None /\ prep.pc = "stage"
    /\ IF blocking THEN UNCHANGED stagingVars
       ELSE /\ \/ files' = {} /\ meta' = "none"
               \/ files' = files /\ meta' = meta
            /\ staged' = prep.db
    /\ prep' = [prep EXCEPT !.pc = "meta",
                            !.meta = IF blocking THEN "started" ELSE "prepared"]
    /\ UNCHANGED <<importVars, state, token, job, loop, cancelling, approved,
                   leftover>>

MetaLands ==
    /\ prep # None /\ prep.pc = "meta"
    /\ meta' = prep.meta
    /\ prep' = [prep EXCEPT !.pc = "end"]
    /\ UNCHANGED <<importVars, state, token, job, loop, cancelling, staged,
                   files, approved, leftover>>

NewDownload == [todo |-> NewAssets, aborted |-> FALSE]

\* A plan is ready; a new login to a started import continues it at once.
PrepareEnds ==
    /\ prep # None /\ prep.pc = "end" /\ ~prep.aborted
    /\ job' = [db |-> prep.db, missing |-> {}]
    /\ prep' = None
    /\ IF blocking
       THEN state' = "downloading" /\ loop' = NewDownload
       ELSE state' = "ready" /\ UNCHANGED loop
    /\ UNCHANGED <<importVars, token, cancelling, stagingVars, approved,
                   leftover>>

\* The account refuses the login, cannot be reached or holds nothing that can
\* be read, or a file cannot be written.
PrepareFails ==
    /\ prep # None /\ ~prep.aborted /\ prep.pc # "end"
    /\ prep' = None /\ token' = FALSE
    /\ state' = IF blocking THEN "needs-login" ELSE "idle"
    /\ UNCHANGED <<importVars, job, loop, cancelling, stagingVars, approved,
                   leftover>>

\* Mutated PrepareStops: not used by the specification.
PrepareStopsAtReads ==
    /\ prep # None /\ prep.aborted /\ prep.pc = "read"
    /\ prep' = None
    /\ UNCHANGED <<importVars, state, token, job, loop, cancelling,
                   stagingVars, approved, leftover>>

\* A cancelled check stops when it next looks at its signal.
PrepareStops ==
    /\ prep # None /\ prep.aborted /\ prep.pc \in {"read", "end"}
    /\ prep' = None
    /\ UNCHANGED <<importVars, state, token, job, loop, cancelling,
                   stagingVars, approved, leftover>>

---------------------------------------------------------------------------
(* The download.                                                           *)

\* Mutated StartDownload: not used by the specification.
StartDownloadUnmarked ==
    /\ Allowed
    /\ job # None /\ state \in {"ready", "paused"} /\ token
    /\ approved' = IF blocking THEN approved ELSE job.db
    /\ blocking' = TRUE
    /\ state' = "downloading"
    /\ job' = [job EXCEPT !.missing = {}]
    /\ loop' = NewDownload
    /\ UNCHANGED <<serverVars, imp, faults, token, prep, cancelling,
                   stagingVars, leftover>>

\* The first start is the user's confirmation: the marker is on disk before
\* anything is refused.
StartDownload ==
    /\ Allowed
    /\ job # None /\ state \in {"ready", "paused"} /\ token
    /\ IF blocking THEN UNCHANGED <<meta, approved>>
       ELSE meta' = "started" /\ approved' = job.db
    /\ blocking' = TRUE
    /\ state' = "downloading"
    /\ job' = [job EXCEPT !.missing = {}]
    /\ loop' = NewDownload
    /\ UNCHANGED <<serverVars, imp, faults, token, prep, cancelling, staged,
                   files, leftover>>

Going == loop # None /\ ~loop.aborted

\* A file staged before is kept; the account may lack one.
Fetches(a) ==
    /\ Going /\ a \in loop.todo
    /\ loop' = [loop EXCEPT !.todo = @ \ {a}]
    /\ \/ files' = files \cup {a} /\ UNCHANGED job
       \/ a \notin files /\ UNCHANGED files
          /\ job' = [job EXCEPT !.missing = @ \cup {a}]
    /\ UNCHANGED <<importVars, state, token, prep, cancelling, meta, staged,
                   approved, leftover>>

\* The login expired, or a request failed for good.
DownloadStops ==
    /\ Going
    /\ loop' = None
    /\ \/ state' = "needs-login" /\ token' = FALSE
       \/ state' = "paused" /\ UNCHANGED token
    /\ UNCHANGED <<importVars, job, prep, cancelling, stagingVars, approved,
                   leftover>>

DownloadAborted ==
    /\ loop # None /\ loop.aborted
    /\ loop' = None
    /\ UNCHANGED <<importVars, state, token, job, prep, cancelling,
                   stagingVars, approved, leftover>>

Applying ==
    /\ state' = "applying"
    /\ imp' = [NoImport EXCEPT !.pc = "drain", !.src = "account",
                               !.by = staged, !.plan = NewAssets \ job.missing]

\* While an upload holds the one import there may be the apply fails at once;
\* at the model's bound of imports too.
Applies ==
    LET may == imp = NoImport /\ disk.db.gen < MaxImports
    IN  \/ may /\ Applying
        \/ ~may /\ state' = "downloaded" /\ UNCHANGED imp

\* Without anything missing there is nothing left for the user to decide.
DownloadEnds ==
    /\ Going /\ loop.todo = {}
    /\ loop' = None
    /\ IF job.missing = {} THEN Applies
                           ELSE state' = "downloaded" /\ UNCHANGED imp
    /\ UNCHANGED <<serverVars, blocking, faults, token, job, prep, cancelling,
                   stagingVars, approved, leftover>>

StartApply ==
    /\ Allowed
    /\ job # None /\ state = "downloaded"
    /\ Applies
    /\ UNCHANGED <<serverVars, blocking, faults, token, job, prep, loop,
                   cancelling, stagingVars, approved, leftover>>

---------------------------------------------------------------------------
(* The ends of an import.  Pages loaded before hold the old data: they are *)
(* revoked, also when the replacement failed.                              *)

ApplyFailed ==
    /\ imp.src = "account"
    /\ \/ imp.pc = "failed" /\ Revoked
       \/ imp.pc = "full" /\ UNCHANGED page
    /\ imp' = NoImport
    /\ state' = "downloaded"
    /\ UNCHANGED <<rows, memory, queued, load, blocking, ghosts, faults, token,
                   job, prep, loop, cancelling, stagingVars, approved, leftover>>

\* A marker that cannot be removed is left to the removal of all files.
MarkerGone ==
    \/ meta' = "none" /\ UNCHANGED leftover
    \/ leftover' = TRUE /\ UNCHANGED meta

Applied ==
    /\ imp.pc = "done" /\ imp.src = "account"
    /\ imp' = NoImport /\ Revoked
    /\ token' = FALSE /\ job' = None
    /\ MarkerGone
    /\ blocking' = FALSE
    /\ UNCHANGED <<rows, memory, queued, load, ghosts, faults, state, prep,
                   loop, cancelling, staged, files, approved>>

StagingGone ==
    \/ /\ meta' = "none" /\ staged' = NoVersion /\ files' = {}
       /\ leftover' = FALSE
    \/ leftover' = TRUE /\ UNCHANGED stagingVars

CleansUp ==
    /\ state = "applying" /\ job = None
    /\ StagingGone
    /\ state' = "idle"
    /\ UNCHANGED <<importVars, token, job, prep, loop, cancelling, approved>>

\* Mutated Cancel: not used by the specification.
CancelAlways ==
    /\ Allowed /\ ~cancelling
    /\ meta' = "none" /\ blocking' = FALSE
    /\ job' = None /\ token' = FALSE /\ state' = "idle"
    /\ cancelling' = TRUE
    /\ prep' = IF prep = None THEN None ELSE [prep EXCEPT !.aborted = TRUE]
    /\ loop' = IF loop = None THEN None ELSE [loop EXCEPT !.aborted = TRUE]
    /\ UNCHANGED <<serverVars, imp, faults, staged, files, approved, leftover>>

\* A cancel unblocks at once, and lets what runs stop before it removes the
\* files.
Cancel ==
    /\ Allowed /\ state # "applying" /\ ~cancelling
    /\ meta' = "none" /\ blocking' = FALSE
    /\ job' = None /\ token' = FALSE /\ state' = "idle"
    /\ cancelling' = TRUE
    /\ prep' = IF prep = None THEN None ELSE [prep EXCEPT !.aborted = TRUE]
    /\ loop' = IF loop = None THEN None ELSE [loop EXCEPT !.aborted = TRUE]
    /\ UNCHANGED <<serverVars, imp, faults, staged, files, approved, leftover>>

CancelEnds ==
    /\ cancelling /\ prep = None /\ loop = None
    /\ StagingGone
    /\ cancelling' = FALSE
    /\ UNCHANGED <<importVars, state, token, job, prep, loop, approved>>

\* A restart forgets the token and the plan.  A started import waits for a
\* login to the same account, the files of one never started are dropped.
Restart ==
    /\ Restarts
    /\ token' = FALSE /\ job' = None /\ prep' = None /\ loop' = None
    /\ cancelling' = FALSE
    /\ blocking' = (meta = "started")
    /\ state' = IF meta = "started" THEN "needs-login" ELSE "idle"
    /\ IF meta = "prepared"
       THEN meta' = "none" /\ staged' = NoVersion /\ files' = {}
       ELSE UNCHANGED stagingVars
    /\ UNCHANGED <<approved, leftover>>

---------------------------------------------------------------------------

Working ==
    \/ \E v \in Versions : PrepareReads(v)
    \/ PrepareStages \/ MetaLands \/ PrepareEnds
    \/ PrepareStops
    \/ (\E a \in Assets : Fetches(a)) \/ DownloadAborted
    \/ DownloadEnds
    \/ ApplyFailed \/ Applied \/ CleansUp \/ CancelEnds

Next ==
    \/ ImportNext /\ UNCHANGED accountVars
    \/ Working
    \/ Prepare \/ PrepareFails \/ StartDownload \/ DownloadStops \/ StartApply
    \/ Cancel \/ Restart

\* What runs in the server goes on; the queue runs in the order of arrival, so
\* that the import's turn comes.  Logins, starts and cancels are the user's.
Spec ==
    /\ Init /\ [][Next]_vars
    /\ WF_vars(Working)
    /\ WF_vars(QueueSteps /\ UNCHANGED accountVars)
    /\ WF_vars(ImportSteps /\ UNCHANGED accountVars)
    /\ SF_vars(Drained /\ UNCHANGED accountVars)

---------------------------------------------------------------------------
(* Properties.                                                             *)

\* What pages and the data see of this import is what DataImport says of it.
ImplementsDataImport == ImportSpec

\* While the server refuses writes a restart would refuse them too.
BlockingSurvives == blocking => meta = "started"

\* A restart refuses writes only if they were refused before, or the removal
\* of what an ended import left was not finished.
RestartUnblocks ==
    [][Restart => (blocking' => blocking \/ cancelling \/ state = "applying"
                                \/ leftover)]_vars

\* A restart refuses writes exactly when they were refused.
RefusalOutlivesRestart == []BlockingSurvives /\ RestartUnblocks

\* The plan on offer is the staged database, and no cleanup of an earlier
\* import takes its files: what is to be applied is there.
PlanIsStaged ==
    job # None =>
        /\ staged = job.db
        /\ state \in {"downloaded", "applying"} => NewAssets \ job.missing \subseteq files

\* The account's login is not kept once nothing uses it.
TokenAtRest == state \in {"idle", "needs-login"} => ~token

\* An account replaces the data only while nothing else may write, with the
\* database the user confirmed, and with every file it has; unless the files
\* of an earlier import could not be removed.
ReplacesAsConfirmed ==
    [][disk'.db.gen > disk.db.gen /\ disk'.db.by # NoVersion /\ ~leftover =>
         /\ blocking /\ disk'.db.by = approved
         /\ NewAssets \ disk'.assets \subseteq job.missing]_vars

\* What runs ends: no import stays in a state that refuses both a cancel and
\* a login.
WorkEnds == Busy ~> ~Busy

===========================================================================
