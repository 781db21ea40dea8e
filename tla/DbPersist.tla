----------------------------- MODULE DbPersist -----------------------------
(***************************************************************************)
(* The server's write-behind of database.bin (server.cjs): chats are split *)
(* from the client's view, patches change the view in memory, chat bodies  *)
(* are posted to the store, and a debounced timer, a flush or a full write *)
(* puts both together on disk.  One chat is followed from its first post   *)
(* to its deletion.  Operations are atomic: the server's own format is     *)
(* decoded without giving way to other requests.                           *)
(***************************************************************************)
EXTENDS Naturals

CONSTANTS
    Revs,       \* contents of the view apart from the chat's entry
    Bodies,
    Nothing,
    NotLoaded,  \* fullChatStore is null
    MaxFails    \* model bound: writes of database.bin that fail

ASSUME DbPersistAssumption ==
    /\ MaxFails \in Nat
    /\ Nothing \notin Bodies \cup [rev : Revs, chat : {"new", "listed", "deleted"}]
    /\ NotLoaded \notin Bodies \cup {Nothing}

Views == [rev : Revs, chat : {"new", "listed", "deleted"}]
MaybeBody == Bodies \cup {Nothing}
Databases == [view : Views, body : MaybeBody]

VARIABLES
    disk,       \* database.bin
    cache,      \* dbCache: the view, or Nothing
    store,      \* fullChatStore: the body of the chat if it has one
    unlisted,   \* unlistedChatPosts holds the chat
    timer,      \* saveTimers: it writes the view, or the store if there is no view
    fails,      \* for the bound
    acked,      \* history: the edits the clients were told are saved
    torn        \* history: memory was dropped or damaged since it was loaded

mem == [disk |-> disk, cache |-> cache, store |-> store,
        unlisted |-> unlisted, timer |-> timer]
vars == <<disk, cache, store, unlisted, timer, fails, acked, torn>>

TypeOK ==
    /\ disk \in Databases
    /\ cache \in Views \cup {Nothing}
    /\ store \in MaybeBody \cup {NotLoaded}
    /\ unlisted \in BOOLEAN
    /\ timer \in {"none", "view", "view or store"}
    /\ fails \in 0..MaxFails
    /\ acked \in Databases
    /\ torn \in BOOLEAN

\* A body is on disk only with the entry of its chat.
Whole(db) == db.body # Nothing => db.view.chat = "listed"

Init ==
    /\ disk \in {db \in Databases : Whole(db)}
    /\ cache = Nothing /\ store = NotLoaded
    /\ unlisted = FALSE /\ timer = "none"
    /\ fails = 0
    /\ acked = disk /\ torn = FALSE

---------------------------------------------------------------------------
(* What the functions of the server make of its memory.                    *)

Listed(v) == v # Nothing /\ v.chat = "listed"

\* reassembleFullDb: an entry without a body in the store stays a stub.
Merged(v, b) == [view |-> v, body |-> IF Listed(v) THEN b ELSE Nothing]

\* Mutated Rebuilt: not used by the specification.
RebuiltBare(m, db) ==
    [m EXCEPT !.store = db.body, !.unlisted = @ /\ ~Listed(db.view)]

\* initChatStore: the bodies of the database, and a posted one it does not list yet.
Rebuilt(m, db) ==
    [m EXCEPT !.store = IF m.unlisted /\ ~Listed(db.view) /\ m.store # NotLoaded
                        THEN m.store ELSE db.body,
              !.unlisted = @ /\ ~Listed(db.view)]

Ensured(m) == IF m.store = NotLoaded THEN Rebuilt(m, m.disk) ELSE m

Cold(m) == m.cache = Nothing
InMemory(m) == Merged(IF Cold(m) THEN m.disk.view ELSE m.cache, m.store)

\* The view with its bodies, or, with no view in memory, the store over what is on disk.
Written(m) ==
    LET n == [m EXCEPT !.disk = InMemory(m), !.timer = "none"] IN
    IF Cold(m) THEN n ELSE Rebuilt(n, n.disk)

\* Mutated NotWritten: not used by the specification.
NotRetried(m) == [m EXCEPT !.timer = "none"]

\* The write threw: tried again, while there is something to write.
NotWritten(m) == [m EXCEPT !.timer = IF Cold(m) THEN "view or store" ELSE "view"]

\* A guard refused to write the view, and dropped it.
Refused(m) == [m EXCEPT !.cache = Nothing, !.timer = "none"]

\* What a write of the memory may come to.
Writes(m) ==
    {[is |-> "written", m |-> Written(m)]}
    \cup (IF fails < MaxFails THEN {[is |-> "failed", m |-> NotWritten(m)]} ELSE {})
    \cup (IF ~Cold(m) THEN {[is |-> "refused", m |-> Refused(m)]} ELSE {})

\* flushPendingDb: the timer is the record that there is something to write.
Flushes(m) ==
    IF m.timer = "none" THEN {[is |-> "written", m |-> m]} ELSE Writes(m)

\* Mutated Loaded: not used by the specification.
LoadedBesideStore(m) ==
    [m EXCEPT !.cache = m.disk.view, !.store = IF @ = NotLoaded THEN Nothing ELSE @]

\* loadDbCacheIfMissing, once flushed.
Loaded(m) == [Rebuilt(m, m.disk) EXCEPT !.cache = m.disk.view]

Loads(m) == IF Cold(m) THEN Flushes(m) ELSE {[is |-> "written", m |-> m]}
WithCache(m) == IF Cold(m) THEN Loaded(m) ELSE m

Become(m) ==
    /\ disk' = m.disk /\ cache' = m.cache /\ store' = m.store
    /\ unlisted' = m.unlisted /\ timer' = m.timer

Counted(o) ==
    /\ fails' = IF o.is = "failed" THEN fails + 1 ELSE fails
    /\ torn' = (torn \/ o.is = "refused")

---------------------------------------------------------------------------
(* Requests.                                                               *)

\* A chat is posted before it is listed, and does not return once deleted.
Follows(v, w) ==
    /\ w \in Views
    /\ v.chat = w.chat \/ <<v.chat, w.chat>> \in {<<"new", "listed">>, <<"listed", "deleted">>}

\* With no view in memory no chat counts as listed.
PostChat ==
    \E b \in Bodies :
        LET m == Ensured(mem) IN
        /\ Become([m EXCEPT !.store = b, !.timer = "view or store",
                            !.unlisted = @ \/ ~Listed(m.cache)])
        /\ acked' = [acked EXCEPT !.body = b]
        /\ UNCHANGED <<fails, torn>>

GetChat ==
    /\ Become(Ensured(mem))
    /\ UNCHANGED <<fails, acked, torn>>

\* A request that only loads: a read, or a patch that is turned down.
ReadDb ==
    \E o \in Flushes(mem) :
        /\ Counted(o)
        /\ Become(IF o.is = "written" THEN WithCache(o.m) ELSE o.m)
        /\ UNCHANGED acked

Patch ==
    \E o \in Loads(mem) :
        /\ Counted(o)
        /\ \/ /\ o.is # "written"
              /\ Become(o.m)
              /\ UNCHANGED acked
           \/ /\ o.is = "written"
              /\ LET m == WithCache(o.m) IN
                 \E v \in Views :
                    /\ Follows(m.cache, v)
                    /\ Become([m EXCEPT !.cache = v, !.timer = "view",
                                        !.unlisted = @ /\ ~Listed(v)])
                    /\ acked' = [acked EXCEPT !.view = v]

\* An operation of the patch does not apply: the view is dropped.
PatchThrows ==
    \E o \in Loads(mem) :
        /\ o.is = "written"
        /\ Become([WithCache(o.m) EXCEPT !.cache = Nothing])
        /\ torn' = TRUE
        /\ UNCHANGED <<fails, acked>>

\* The bodies are merged in before a cold load, or after the one for the ETag.  The
\* store is rebuilt from what is to be written, before it is written.
FullWrite ==
    \E o \in Loads(Ensured(mem)) :
        \/ /\ o.is # "written"
           /\ Counted(o)
           /\ Become(o.m)
           /\ UNCHANGED acked
        \/ /\ o.is = "written"
           /\ LET m == WithCache(o.m) IN
              \E v \in Views, b \in {Ensured(mem).store, m.store} :
                LET db == Merged(v, b)
                    n == Rebuilt(m, db)
                IN
                /\ Follows(m.cache, v)
                /\ \/ /\ Become([n EXCEPT !.disk = db, !.cache = v, !.timer = "none"])
                      /\ acked' = [acked EXCEPT !.view = v]
                      /\ UNCHANGED <<fails, torn>>
                   \/ /\ fails < MaxFails
                      /\ Become(n)
                      /\ fails' = fails + 1
                      /\ torn' = (torn \/ n # m)
                      /\ UNCHANGED acked

FlushDb ==
    \E o \in Flushes(mem) :
        /\ Counted(o) /\ Become(o.m)
        /\ UNCHANGED acked

\* Mutated TimerFires: not used by the specification.
WarmTimerFires ==
    /\ timer # "none" /\ ~Cold(mem)
    /\ \E o \in Writes(mem) : Counted(o) /\ Become(o.m)
    /\ UNCHANGED acked

\* A patch's timer, and a retry, have nothing to write once the view is gone.
TimerFires ==
    /\ timer # "none"
    /\ \E o \in IF timer = "view" /\ Cold(mem)
                THEN {[is |-> "written", m |-> [mem EXCEPT !.timer = "none"]]}
                ELSE Writes(mem) :
        Counted(o) /\ Become(o.m)
    /\ UNCHANGED acked

\* A backup, a snapshot or a save folder takes the database's place.
Replace ==
    \E o \in Flushes(mem) :
        \/ /\ o.is # "written"
           /\ Counted(o) /\ Become(o.m)
           /\ UNCHANGED acked
        \/ /\ o.is = "written"
           /\ \E db \in Databases :
                /\ Whole(db)
                /\ \E s \in {db.body, NotLoaded} :
                    Become([disk |-> db, cache |-> Nothing, store |-> s,
                            unlisted |-> FALSE, timer |-> "none"])
                /\ acked' = db
           /\ torn' = FALSE
           /\ UNCHANGED fails

\* The process ends, by a crash or after a flush.
Restart ==
    /\ Become([mem EXCEPT !.cache = Nothing, !.store = NotLoaded,
                          !.unlisted = FALSE, !.timer = "none"])
    /\ acked' = disk /\ torn' = FALSE
    /\ UNCHANGED fails

Next ==
    \/ PostChat \/ GetChat
    \/ ReadDb \/ Patch \/ PatchThrows \/ FullWrite \/ FlushDb
    \/ TimerFires
    \/ Replace \/ Restart

Spec == Init /\ [][Next]_vars

\* Clients pause now and then, so that the debounced timer fires.
FairSpec == Spec /\ WF_vars(TimerFires)

---------------------------------------------------------------------------

AckedDb == Merged(acked.view, acked.body)

\* "The timer was the only record that memory is ahead of disk" (server.cjs:362):
\* an acknowledged edit that is not on disk has a timer, unless the server itself
\* dropped it.
NothingPendingUnrecorded == AckedDb # disk => timer # "none" \/ torn

\* The view and the body that requests are answered from are the acknowledged ones,
\* across persists, cold loads and full writes, and before the chat is listed
\* (server.cjs:720-726).
ServesAcked ==
    torn \/ /\ cache \in {Nothing, acked.view}
            /\ cache = Nothing => acked.view = disk.view
            /\ store # NotLoaded /\ acked.view.chat # "deleted" => store = acked.body
            /\ store = NotLoaded => acked = disk

\* What was acknowledged is served, and on disk or about to be written.
AckedSurvives == NothingPendingUnrecorded /\ ServesAcked

\* A body on disk is not lost while its chat is listed, unless by a replacement
\* of the database (server.cjs:1131-1136).
KeepsBodies ==
    [][disk.body # Nothing /\ ~torn /\ ~Replace
       => ~Listed(disk'.view) \/ disk'.body # Nothing]_vars

\* What is acknowledged gets to the disk, or is dropped: failed writes are retried.
GetsToDisk == AckedDb # disk ~> (AckedDb = disk \/ torn)

=============================================================================
