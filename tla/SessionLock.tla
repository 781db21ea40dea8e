---------------------------- MODULE SessionLock ----------------------------
(***************************************************************************)
(* The cross-device write lock of the server (server/node/session-lock.cjs)*)
(* together with what it protects: the data version each open page has    *)
(* loaded.  Every data write goes through CheckWrite; a page load          *)
(* registers a boot and never steals the lock; an account import blocks    *)
(* every write, replaces all data and then revokes the lock; a server      *)
(* restart forgets the lock and the boots, but not a started import.       *)
(*                                                                         *)
(* A page's copy of the data is abstracted to a version number: the copy   *)
(* includes every change up to that version.  The clock is the             *)
(* millisecond Date.now(): it does not run backwards, and any number of    *)
(* requests may see the same reading.                                      *)
(***************************************************************************)
EXTENDS Integers, FiniteSets

CONSTANTS
    Sessions,          \* session ids (one per browser tab)
    Unheld,            \* `active` is null: nobody holds the lock
    Nobody,            \* `active.id` is null: the lock was revoked
    MaxTrackedBoots,   \* MAX_TRACKED_BOOTS, 50 in the code
    MaxClock,          \* model bound: last clock reading
    MaxVersion         \* model bound: number of data changes

ASSUME SessionsAssumption ==
    /\ Unheld \notin Sessions
    /\ Nobody \notin Sessions
    /\ Unheld # Nobody

ASSUME BoundsAssumption ==
    /\ MaxTrackedBoots \in Nat \ {0}
    /\ MaxClock \in Nat
    /\ MaxVersion \in Nat

VARIABLES
    clock,          \* Date.now()
    holder,         \* active.id
    lastWriteAt,    \* active.lastWriteAt
    boots,          \* session -> registered boot time, or NoBoot
    import,         \* progress of the account import
    version,        \* number of changes applied to the stored data
    holderVersion,  \* the newest version that moved lastWriteAt
    importVersion,  \* the newest version an import of this server run made
    copy,           \* session -> version its page holds, or NotLoaded
    registered,     \* session -> this page knows its boot was registered
    lateBoot        \* session -> the boot was registered after the load

lockVars == <<holder, lastWriteAt, boots>>
dataVars == <<version, holderVersion, importVersion>>
pageVars == <<copy, registered, lateBoot>>
allVars == <<clock, holder, lastWriteAt, boots, import,
             version, holderVersion, importVersion, copy, registered, lateBoot>>

NoBoot == -1
NotLoaded == -1

ImportPhases == {"none", "blocking", "applying", "swapped"}

LockTypeOK ==
    /\ clock \in 0..MaxClock
    /\ holder \in Sessions \cup {Unheld, Nobody}
    /\ lastWriteAt \in 0..MaxClock
    /\ boots \in [Sessions -> 0..MaxClock \cup {NoBoot}]
    /\ import \in ImportPhases
    /\ version \in 0..MaxVersion
    /\ holderVersion \in 0..MaxVersion
    /\ importVersion \in 0..MaxVersion
    /\ copy \in [Sessions -> 0..MaxVersion \cup {NotLoaded}]
    /\ registered \in [Sessions -> BOOLEAN]
    /\ lateBoot \in [Sessions -> BOOLEAN]

Loaded(s) == copy[s] # NotLoaded
Blocking == import # "none"
\* Mutated Fresh: not used by the specification.
MutFresh(s) == boots[s] # NoBoot /\ boots[s] >= lastWriteAt

Fresh(s) == boots[s] # NoBoot /\ boots[s] > lastWriteAt

\* What the reload-on-return check reports to a page.
Peek(s) ==
    IF Blocking THEN "stale"
    ELSE IF holder = Unheld THEN "free"
    ELSE IF holder = s THEN "active"
    ELSE IF boots[s] = NoBoot THEN "unknown"
    ELSE IF Fresh(s) THEN "fresh" ELSE "stale"

LockInit ==
    /\ clock = 0
    /\ holder = Unheld
    /\ lastWriteAt = 0
    /\ boots = [s \in Sessions |-> NoBoot]
    /\ import = "none"
    /\ version = 0
    /\ holderVersion = 0
    /\ importVersion = 0
    /\ copy = [s \in Sessions |-> NotLoaded]
    /\ registered = [s \in Sessions |-> FALSE]
    /\ lateBoot = [s \in Sessions |-> FALSE]

Tick ==
    /\ clock < MaxClock
    /\ clock' = clock + 1
    /\ UNCHANGED <<lockVars, import, dataVars, pageVars>>

---------------------------------------------------------------------------
(* Page life: a page registers its boot and loads the data.  The           *)
(* registration is a request of its own that may fail alone, or succeed    *)
(* with its answer lost; the page then repeats it before a later request,  *)
(* when it already holds data.                                             *)

Oldest(b, s) ==
    {x \in Sessions \ {s} : b[x] # NoBoot
        /\ \A y \in Sessions \ {s} : b[y] # NoBoot => b[x] <= b[y]}

\* Map insertion order is boot-time order, except among equal times.
AddBoot(s, new) ==
    LET added == [boots EXCEPT ![s] = clock]
        over  == Cardinality({x \in Sessions : added[x] # NoBoot}) > MaxTrackedBoots
    IN  IF over THEN \E x \in Oldest(added, s) : new = [added EXCEPT ![x] = NoBoot]
                ELSE new = added

Register(s, acked) ==
    /\ ~registered[s]
    /\ \E new \in [Sessions -> 0..MaxClock \cup {NoBoot}] :
            AddBoot(s, new) /\ boots' = new
    /\ IF holder = Unheld
       THEN holder' = s /\ lastWriteAt' = clock
       ELSE UNCHANGED <<holder, lastWriteAt>>
    /\ registered' = [registered EXCEPT ![s] = acked]
    /\ lateBoot' = [lateBoot EXCEPT ![s] = Loaded(s)]
    /\ UNCHANGED <<clock, import, dataVars, copy>>

Load(s) ==
    /\ ~Loaded(s)
    /\ copy' = [copy EXCEPT ![s] = version]
    /\ lateBoot' = [lateBoot EXCEPT ![s] = FALSE]
    /\ UNCHANGED <<clock, lockVars, import, dataVars, registered>>

Leave(s) ==
    /\ copy' = [copy EXCEPT ![s] = NotLoaded]
    /\ registered' = [registered EXCEPT ![s] = FALSE]
    /\ lateBoot' = [lateBoot EXCEPT ![s] = FALSE]

Close(s) ==
    /\ Loaded(s) \/ registered[s]
    /\ Leave(s)
    /\ UNCHANGED <<clock, lockVars, import, dataVars>>

---------------------------------------------------------------------------
(* Writes.  The lock decides before the route looks at the write: a write  *)
(* the route then refuses (`applied' FALSE: an etag or guard conflict)     *)
(* has moved the lock all the same.                                        *)

Changes(s, applied, bumps) ==
    IF applied
    THEN /\ version < MaxVersion
         /\ version' = version + 1
         /\ copy' = [copy EXCEPT ![s] = IF @ = version THEN version + 1 ELSE @]
         /\ holderVersion' = IF bumps THEN version + 1 ELSE holderVersion
         /\ UNCHANGED importVersion
    ELSE UNCHANGED <<dataVars, copy>>

\* Mutated Takes: not used by the specification.
MutTakes(s) == holder' = s /\ UNCHANGED lastWriteAt

Takes(s) == holder' = s /\ lastWriteAt' = clock

WriteAdopts(s, applied) ==
    /\ Loaded(s) /\ ~Blocking
    /\ holder = Unheld
    /\ Takes(s)
    /\ Changes(s, applied, TRUE)
    /\ UNCHANGED <<clock, boots, import, registered, lateBoot>>

WriteHolds(s, applied) ==
    /\ Loaded(s) /\ ~Blocking
    /\ holder = s
    /\ Takes(s)
    /\ Changes(s, applied, TRUE)
    /\ UNCHANGED <<clock, boots, import, registered, lateBoot>>

\* userActive: the page saw a real gesture in the last 15 seconds
WriteTakesOver(s, applied) ==
    /\ Loaded(s) /\ ~Blocking
    /\ holder \notin {Unheld, s}
    /\ Fresh(s)
    /\ Takes(s)
    /\ Changes(s, applied, TRUE)
    /\ UNCHANGED <<clock, boots, import, registered, lateBoot>>

WritePassive(s, applied) ==
    /\ Loaded(s) /\ ~Blocking
    /\ holder \notin {Unheld, s}
    /\ Fresh(s)
    /\ Changes(s, applied, FALSE)
    /\ UNCHANGED <<clock, lockVars, import, registered, lateBoot>>

\* HTTP 423: the page hands off, which ends in a reload.
WriteRejected(s) ==
    /\ Loaded(s)
    /\ Blocking \/ (holder \notin {Unheld, s} /\ ~Fresh(s))
    /\ Leave(s)
    /\ UNCHANGED <<clock, lockVars, import, dataVars>>

---------------------------------------------------------------------------
(* Account import: from its confirmation to its end the server refuses     *)
(* every data write.  An apply that fails may already have replaced the    *)
(* data, so the lock is revoked either way.                                *)

ImportStart ==
    /\ import = "none"
    /\ import' = "blocking"
    /\ UNCHANGED <<clock, lockVars, dataVars, pageVars>>

ImportCancel ==
    /\ import = "blocking"
    /\ import' = "none"
    /\ UNCHANGED <<clock, lockVars, dataVars, pageVars>>

ImportApply ==
    /\ import = "blocking"
    /\ import' = "applying"
    /\ UNCHANGED <<clock, lockVars, dataVars, pageVars>>

ImportSwap ==
    /\ import = "applying"
    /\ version < MaxVersion
    /\ version' = version + 1
    /\ holderVersion' = version'
    /\ importVersion' = version'
    /\ import' = "swapped"
    /\ UNCHANGED <<clock, lockVars, pageVars>>

\* Mutated RevokeAll: not used by the specification.
MutRevokeAll == holder' = Unheld /\ lastWriteAt' = clock

RevokeAll == holder' = Nobody /\ lastWriteAt' = clock

ImportEnd(ok) ==
    /\ import \in {"applying", "swapped"}
    /\ ok => import = "swapped"
    /\ RevokeAll
    /\ import' = IF ok THEN "none" ELSE "blocking"
    /\ UNCHANGED <<clock, boots, dataVars, pageVars>>

---------------------------------------------------------------------------

\* The lock is memory only; a started import is on disk and blocks again.
ServerRestart ==
    /\ holder # Unheld \/ Blocking
    /\ holder' = Unheld
    /\ lastWriteAt' = 0
    /\ boots' = [s \in Sessions |-> NoBoot]
    /\ import' = IF Blocking THEN "blocking" ELSE "none"
    /\ importVersion' = 0
    /\ UNCHANGED <<clock, version, holderVersion, pageVars>>

Write(s, applied) ==
    \/ WriteAdopts(s, applied)
    \/ WriteHolds(s, applied)
    \/ WriteTakesOver(s, applied)
    \/ WritePassive(s, applied)

Import ==
    \/ ImportStart
    \/ ImportCancel
    \/ ImportApply
    \/ ImportSwap
    \/ \E ok \in BOOLEAN : ImportEnd(ok)

LockNext ==
    \/ Tick
    \/ ServerRestart
    \/ Import
    \/ \E s \in Sessions :
        \/ \E b \in BOOLEAN : Register(s, b) \/ Write(s, b)
        \/ Load(s)
        \/ Close(s)
        \/ WriteRejected(s)

LockSpec == LockInit /\ [][LockNext]_allVars

---------------------------------------------------------------------------

\* A page that registered its boot before it loaded, and whose boot is newer
\* than the lock's last write, holds every change a lock holder or an import
\* ever made -- across takeovers, evicted boots, imports and restarts.  This is
\* why session-lock.cjs may hand it the lock without losing a change.
FreshCopyCoversHolder ==
    import # "swapped" =>
        \A s \in Sessions :
            (Loaded(s) /\ Fresh(s) /\ ~lateBoot[s]) => copy[s] >= holderVersion

\* After an import no page loaded before it holds the lock: revokeAll leaves
\* every earlier page, the holder included, without a way back to the lock
\* except a reload.  (A boot registered late escapes; so does a restart, which
\* forgets the import and resets importVersion.)
NoPreImportHolder ==
    \A s \in Sessions :
        (holder = s /\ Loaded(s) /\ ~lateBoot[s] /\ import # "swapped")
            => copy[s] >= importVersion

\* The lock leaves a live holder only to a fresh page, an import or a restart:
\* neither a page load nor an automatic write kicks the device in use, however
\* boots and evictions interleave.  Whoever takes it over was not behind it.
HandoverIsSafe ==
    [][\A s, t \in Sessions :
          (s # t /\ holder = s /\ holder' = t /\ ~lateBoot[t])
              => copy[t] >= holderVersion]_allVars
=============================================================================
