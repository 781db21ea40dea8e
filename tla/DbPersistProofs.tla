-------------------------- MODULE DbPersistProofs --------------------------
(***************************************************************************)
(* What DbPersist keeps, for any contents, bodies and number of failures.  *)
(* The inductive invariant speaks of the memory as one record, because the *)
(* requests chain the same few functions of it: Sound is what is always    *)
(* so, Agrees what is so while nothing was dropped.                        *)
(***************************************************************************)
EXTENDS DbPersist, TLAPS

Timers == {"none", "view", "view or store"}

Mems == [disk : Databases, cache : Views \cup {Nothing},
         store : MaybeBody \cup {NotLoaded}, unlisted : BOOLEAN, timer : Timers]

\* The view, the record of a post and the timer all come with a loaded store.
Sound(m) ==
    /\ m \in Mems
    /\ Whole(m.disk)
    /\ m.store = NotLoaded => m.cache = Nothing /\ m.timer = "none" /\ ~m.unlisted

\* The memory and the disk together hold what was acknowledged, and the memory alone
\* does once there is no timer; a timer for the view has one; a posted body that is not
\* listed is on record.
Agrees(m, a) ==
    /\ m.cache \in {Nothing, a.view}
    /\ m.cache = Nothing => m.disk.view = a.view /\ m.timer # "view"
    /\ m.store = NotLoaded => m.disk = a
    /\ m.store # NotLoaded /\ a.view.chat # "deleted" => m.store = a.body
    /\ m.store # NotLoaded /\ a.view.chat = "new" /\ a.body # Nothing => m.unlisted
    /\ m.timer = "none" => m.disk = Merged(a.view, a.body)
    /\ a.body = Nothing => m.disk.body = Nothing

\* No body leaves the disk with its entry staying.
Spares(m, n) == m.disk.body # Nothing => ~Listed(n.disk.view) \/ n.disk.body # Nothing

IInv ==
    /\ fails \in 0..MaxFails
    /\ acked \in Databases
    /\ torn \in BOOLEAN
    /\ Sound(mem)
    /\ ~torn => Agrees(mem, acked)

---------------------------------------------------------------------------

LEMMA NothingIsNoView == Nothing \notin Views /\ NotLoaded \notin MaybeBody /\ Nothing \notin Bodies
BY DbPersistAssumption DEF Views, MaybeBody

\* A merged database is one, and is whole.
LEMMA MergedWhole ==
    ASSUME NEW v \in Views, NEW b \in MaybeBody
    PROVE  /\ Merged(v, b) \in Databases /\ Whole(Merged(v, b))
           /\ Merged(v, b).view = v
           /\ Merged(v, b).body = IF v.chat = "listed" THEN b ELSE Nothing
<1>1. Listed(v) <=> v.chat = "listed"
  BY NothingIsNoView DEF Listed
<1>2. (IF Listed(v) THEN b ELSE Nothing) \in MaybeBody
  BY DEF MaybeBody
<1> QED
  BY <1>1, <1>2 DEF Merged, Databases, Whole

\* A rebuilt store is loaded; the rest of the memory is as it was.
LEMMA RebuiltFields ==
    ASSUME NEW m, m \in Mems, NEW db \in Databases
    PROVE  LET n == Rebuilt(m, db) IN
           /\ n \in Mems
           /\ n.disk = m.disk /\ n.cache = m.cache /\ n.timer = m.timer
           /\ n.store # NotLoaded
           /\ n.store = IF m.unlisted /\ db.view.chat # "listed" /\ m.store # NotLoaded
                        THEN m.store ELSE db.body
           /\ n.unlisted <=> m.unlisted /\ db.view.chat # "listed"
<1>1. db.view \in Views /\ db.body \in MaybeBody
  BY DEF Databases
<1>2. Listed(db.view) <=> db.view.chat = "listed"
  BY <1>1, NothingIsNoView DEF Listed
<1>3. m.store \in MaybeBody \cup {NotLoaded} /\ m.unlisted \in BOOLEAN
  BY DEF Mems
<1>4. (m.unlisted /\ ~Listed(db.view)) \in BOOLEAN
  OBVIOUS
<1> QED
  BY <1>1, <1>2, <1>3, <1>4, NothingIsNoView DEF Rebuilt, Mems

LEMMA RebuiltSound ==
    ASSUME NEW m, Sound(m), NEW db \in Databases
    PROVE  Sound(Rebuilt(m, db)) /\ Rebuilt(m, db).store # NotLoaded
<1>1. m \in Mems
  BY DEF Sound
<1> QED
  BY <1>1, RebuiltFields DEF Sound

\* Loading a store from what agrees keeps the agreement.
LEMMA EnsuredAgrees ==
    ASSUME NEW m, Sound(m)
    PROVE  /\ Sound(Ensured(m)) /\ Ensured(m).store # NotLoaded
           /\ Ensured(m).disk = m.disk /\ Ensured(m).cache = m.cache
           /\ Ensured(m).timer = m.timer
           /\ \A a \in Databases : Agrees(m, a) => Agrees(Ensured(m), a)
<1>1. m \in Mems /\ m.disk \in Databases /\ Whole(m.disk)
  BY DEF Sound, Mems
<1>2. CASE m.store # NotLoaded
  BY <1>2 DEF Ensured
<1>3. CASE m.store = NotLoaded
  <2> DEFINE n == Rebuilt(m, m.disk)
  <2>1. Ensured(m) = n
    BY <1>3 DEF Ensured
  <2>2. /\ n.disk = m.disk /\ n.cache = m.cache /\ n.timer = m.timer
        /\ n.store # NotLoaded /\ n.store = m.disk.body
    BY <1>1, <1>3, RebuiltFields
  <2>3. Sound(n)
    BY <1>1, RebuiltSound
  <2>4. ASSUME NEW a \in Databases, Agrees(m, a)
        PROVE  Agrees(n, a)
    <3>1. m.disk = a
      BY <1>3, <2>4 DEF Agrees
    <3>2. a.view.chat = "new" => a.body = Nothing
      BY <3>1, <1>1 DEF Whole
    <3> QED
      BY <2>2, <2>4, <3>1, <3>2 DEF Agrees
  <2> QED
    BY <2>1, <2>2, <2>3, <2>4
<1> QED
  BY <1>2, <1>3

\* A database on disk that agrees has the acknowledged body, or none is called for.
LEMMA LoadedAgrees ==
    ASSUME NEW m, Sound(m), m.cache = Nothing, m.timer = "none"
    PROVE  /\ Sound(Loaded(m)) /\ Loaded(m).disk = m.disk
           /\ Loaded(m).cache \in Views /\ Loaded(m).timer = "none"
           /\ Loaded(m).store # NotLoaded
           /\ \A a \in Databases : Agrees(m, a) => Agrees(Loaded(m), a)
<1> DEFINE n == Rebuilt(m, m.disk)
<1> DEFINE l == Loaded(m)
<1>1. m \in Mems /\ m.disk \in Databases /\ Whole(m.disk)
  BY DEF Sound, Mems
<1>2. /\ n \in Mems /\ n.disk = m.disk /\ n.cache = m.cache /\ n.timer = m.timer
      /\ n.store # NotLoaded
      /\ n.store = IF m.unlisted /\ m.disk.view.chat # "listed" /\ m.store # NotLoaded
                   THEN m.store ELSE m.disk.body
      /\ n.unlisted <=> m.unlisted /\ m.disk.view.chat # "listed"
  BY <1>1, RebuiltFields
<1>3. m.disk.view \in Views
  BY <1>1 DEF Databases
<1>4. l = [n EXCEPT !.cache = m.disk.view]
  BY DEF Loaded
<1>5. /\ l \in Mems /\ l.disk = m.disk /\ l.cache = m.disk.view /\ l.timer = "none"
      /\ l.store = n.store /\ l.unlisted = n.unlisted
  <2> HIDE DEF n, l
  <2> QED
    BY <1>2, <1>3, <1>4 DEF Mems
<1>6. Sound(l)
  BY <1>1, <1>2, <1>5 DEF Sound
<1>7. ASSUME NEW a \in Databases, Agrees(m, a)
      PROVE  Agrees(l, a)
  <2>1. m.disk.view = a.view /\ m.disk = Merged(a.view, a.body)
    BY <1>7 DEF Agrees
  <2>2. a.view \in Views /\ a.body \in MaybeBody
    BY DEF Databases
  <2>3. m.disk.body = IF a.view.chat = "listed" THEN a.body ELSE Nothing
    BY <2>1, <2>2, MergedWhole
  <2>4. a.view.chat \in {"new", "listed", "deleted"}
    BY <2>2 DEF Views
  <2>5. a.view.chat # "deleted" => l.store = a.body
    <3>1. CASE a.view.chat = "listed"
      BY <3>1, <1>2, <1>5, <2>1, <2>3
    <3>2. CASE a.view.chat = "new" /\ m.store # NotLoaded /\ m.unlisted
      BY <3>2, <1>2, <1>5, <1>7, <2>1 DEF Agrees
    <3>3. CASE a.view.chat = "new" /\ m.store # NotLoaded /\ ~m.unlisted
      <4>1. a.body = Nothing
        BY <3>3, <1>7 DEF Agrees
      <4> QED
        BY <4>1, <3>3, <1>2, <1>5, <2>3
    <3>4. CASE a.view.chat = "new" /\ m.store = NotLoaded
      <4>1. m.disk = a
        BY <3>4, <1>7 DEF Agrees
      <4> QED
        BY <4>1, <3>4, <1>2, <1>5
    <3> QED
      BY <3>1, <3>2, <3>3, <3>4, <2>4
  <2>6. a.view.chat = "new" /\ a.body # Nothing => l.unlisted
    <3>1. SUFFICES ASSUME a.view.chat = "new", a.body # Nothing PROVE l.unlisted
      OBVIOUS
    <3>2. m.store # NotLoaded
      <4>1. m.store = NotLoaded => m.disk = a
        BY <1>7 DEF Agrees
      <4> QED
        BY <4>1, <3>1, <2>3
    <3>3. m.unlisted
      BY <3>1, <3>2, <1>7 DEF Agrees
    <3> QED
      BY <3>1, <3>3, <1>2, <1>5, <2>1
  <2>7. l.store # NotLoaded
    BY <1>2, <1>5
  <2> QED
    BY <1>5, <1>7, <2>1, <2>5, <2>6, <2>7 DEF Agrees
<1> QED
  BY <1>2, <1>3, <1>5, <1>6, <1>7

\* A write puts on disk what was acknowledged, and nothing more to record.
LEMMA WrittenAgrees ==
    ASSUME NEW m, Sound(m), m.timer # "none"
    PROVE  /\ Sound(Written(m)) /\ Written(m).timer = "none" /\ Written(m).cache = m.cache
           /\ \A a \in Databases : Agrees(m, a) => Agrees(Written(m), a) /\ Spares(m, Written(m))
<1> DEFINE v == IF Cold(m) THEN m.disk.view ELSE m.cache
<1> DEFINE d == Merged(v, m.store)
<1> DEFINE n == [m EXCEPT !.disk = d, !.timer = "none"]
<1> DEFINE w == Written(m)
<1>1. m \in Mems /\ m.disk \in Databases /\ Whole(m.disk)
  BY DEF Sound, Mems
<1>2. m.store # NotLoaded /\ m.store \in MaybeBody
  BY <1>1 DEF Sound, Mems
<1>3. v \in Views
  BY <1>1 DEF Cold, Mems, Databases
<1>4. /\ d \in Databases /\ Whole(d) /\ d.view = v
      /\ d.body = IF v.chat = "listed" THEN m.store ELSE Nothing
  BY <1>2, <1>3, MergedWhole
<1>5. w = IF Cold(m) THEN n ELSE Rebuilt(n, n.disk)
  BY DEF Written, InMemory
<1>6. /\ n \in Mems /\ n.disk = d /\ n.timer = "none" /\ n.cache = m.cache
      /\ n.store = m.store /\ n.unlisted = m.unlisted
  <2> HIDE DEF d
  <2> QED
    BY <1>1, <1>4 DEF Mems, Timers
<1>7. Sound(n)
  BY <1>2, <1>4, <1>6 DEF Sound
<1>8. /\ w \in Mems /\ w.disk = d /\ w.timer = "none" /\ w.cache = m.cache
      /\ w.store # NotLoaded
      /\ \/ w.store = m.store /\ w.unlisted = m.unlisted
         \/ /\ w.store = IF m.unlisted /\ d.view.chat # "listed" THEN m.store ELSE d.body
            /\ w.unlisted <=> m.unlisted /\ d.view.chat # "listed"
  <2>1. CASE Cold(m)
    BY <2>1, <1>2, <1>5, <1>6
  <2>2. CASE ~Cold(m)
    <3> HIDE DEF d, n
    <3> QED
      BY <2>2, <1>2, <1>4, <1>5, <1>6, RebuiltFields
  <2> QED
    BY <2>1, <2>2
<1>9. Sound(w)
  <2>1. CASE Cold(m)
    BY <2>1, <1>5, <1>7
  <2>2. CASE ~Cold(m)
    <3> HIDE DEF d, n
    <3> QED
      BY <2>2, <1>4, <1>5, <1>6, <1>7, RebuiltSound
  <2> QED
    BY <2>1, <2>2
<1>10. ASSUME NEW a \in Databases, Agrees(m, a)
       PROVE  Agrees(w, a) /\ Spares(m, w)
  <2>1. v = a.view
    BY <1>10 DEF Agrees, Cold
  <2>2. a.view \in Views /\ a.view.chat \in {"new", "listed", "deleted"} /\ a.body \in MaybeBody
    BY DEF Databases, Views
  <2>3. a.view.chat # "deleted" => m.store = a.body
    BY <1>2, <1>10 DEF Agrees
  <2>4. d = Merged(a.view, a.body)
    <3>1. Listed(a.view) => a.view.chat # "deleted"
      BY DEF Listed
    <3> QED
      BY <2>1, <2>3, <3>1 DEF Merged
  <2>5. a.view.chat = "new" /\ a.body # Nothing => m.unlisted
    BY <1>2, <1>10 DEF Agrees
  <2>6. a.view.chat # "deleted" => w.store = a.body
    BY <1>4, <1>8, <2>1, <2>2, <2>3, <2>5
  <2>7. a.view.chat = "new" /\ a.body # Nothing => w.unlisted
    BY <1>4, <1>8, <2>1, <2>5
  <2>8. a.body = Nothing => d.body = Nothing
    BY <1>4, <2>1, <2>3
  <2>9. Agrees(w, a)
    <3> HIDE DEF d, w, v
    <3>1. w.cache \in {Nothing, a.view} /\ (w.cache = Nothing => w.disk.view = a.view)
      BY <1>4, <1>8, <1>10, <2>1 DEF Agrees
    <3> QED
      BY <1>8, <2>4, <2>6, <2>7, <2>8, <3>1 DEF Agrees
  <2>10. Spares(m, w)
    <3>1. m.disk.body # Nothing => a.body # Nothing
      BY <1>10 DEF Agrees
    <3>2. Listed(d.view) => d.body = a.body
      BY <1>4, <2>1, <2>2, <2>3, NothingIsNoView DEF Listed
    <3> QED
      BY <1>8, <3>1, <3>2 DEF Spares
  <2> QED
    BY <2>9, <2>10
<1> QED
  BY <1>8, <1>9, <1>10

\* What a write, and a flush, may come to.
LEMMA WritesOutcome ==
    ASSUME NEW m, Sound(m), m.timer # "none", NEW o \in Writes(m)
    PROVE  /\ o.is \in {"written", "failed", "refused"}
           /\ o.is = "failed" => fails < MaxFails
           /\ o.is = "written" => o.m.timer = "none" /\ o.m.cache = m.cache
           /\ Sound(o.m)
           /\ \A a \in Databases :
                Agrees(m, a) => /\ Spares(m, o.m)
                                /\ o.is # "refused" => Agrees(o.m, a)
<1>1. m \in Mems /\ m.store # NotLoaded
  BY DEF Sound
<1>2. CASE o = [is |-> "written", m |-> Written(m)]
  BY <1>2, WrittenAgrees
<1>3. CASE fails < MaxFails /\ o = [is |-> "failed", m |-> NotWritten(m)]
  <2> DEFINE n == NotWritten(m)
  <2>1. /\ n \in Mems /\ n.disk = m.disk /\ n.cache = m.cache /\ n.store = m.store
        /\ n.unlisted = m.unlisted /\ n.timer # "none"
        /\ m.cache = Nothing => n.timer # "view"
    BY <1>1 DEF NotWritten, Mems, Timers, Cold
  <2>2. Sound(n)
    BY <1>1, <2>1 DEF Sound
  <2>3. \A a \in Databases : Agrees(m, a) => Agrees(n, a) /\ Spares(m, n)
    BY <2>1 DEF Agrees, Spares
  <2> QED
    BY <1>3, <2>2, <2>3
<1>4. CASE o = [is |-> "refused", m |-> Refused(m)]
  <2> DEFINE n == Refused(m)
  <2>1. /\ n \in Mems /\ n.disk = m.disk /\ n.store = m.store
    BY <1>1 DEF Refused, Mems, Timers
  <2>2. Sound(n)
    BY <1>1, <2>1 DEF Sound
  <2>3. Spares(m, n)
    BY <2>1 DEF Spares
  <2> QED
    BY <1>4, <2>2, <2>3
<1> QED
  BY <1>2, <1>3, <1>4 DEF Writes

LEMMA FlushesOutcome ==
    ASSUME NEW m, Sound(m), NEW o \in Flushes(m)
    PROVE  /\ o.is \in {"written", "failed", "refused"}
           /\ o.is = "failed" => fails < MaxFails
           /\ o.is = "written" => o.m.timer = "none" /\ o.m.cache = m.cache
           /\ Sound(o.m)
           /\ \A a \in Databases :
                Agrees(m, a) => /\ Spares(m, o.m)
                                /\ o.is # "refused" => Agrees(o.m, a)
<1>1. CASE m.timer = "none"
  <2>1. o = [is |-> "written", m |-> m]
    BY <1>1 DEF Flushes
  <2> QED
    BY <1>1, <2>1 DEF Spares
<1>2. CASE m.timer # "none"
  <2>1. o \in Writes(m)
    BY <1>2 DEF Flushes
  <2> QED
    BY <1>2, <2>1, WritesOutcome
<1> QED
  BY <1>1, <1>2

---------------------------------------------------------------------------

LEMMA BecomeMem ==
    ASSUME NEW m, m \in Mems, Become(m)
    PROVE  mem' = m
BY DEF Become, mem, Mems

LEMMA MemFields ==
    /\ mem.disk = disk /\ mem.cache = cache /\ mem.store = store
    /\ mem.unlisted = unlisted /\ mem.timer = timer
BY DEF mem

LEMMA CountedFits ==
    ASSUME IInv, NEW o, Counted(o), o.is = "failed" => fails < MaxFails
    PROVE  fails' \in 0..MaxFails /\ torn' \in BOOLEAN
<1>1. MaxFails \in Nat /\ fails \in 0..MaxFails /\ torn \in BOOLEAN
  BY DbPersistAssumption DEF IInv
<1> QED
  BY <1>1 DEF Counted

\* A request that ends with what a flush of its memory came to.
LEMMA Flushed ==
    ASSUME IInv, NEW o \in Flushes(mem), Counted(o), Become(o.m), UNCHANGED acked
    PROVE  IInv' /\ (~torn => Spares(mem, mem'))
<1>1. Sound(mem) /\ acked \in Databases /\ (~torn => Agrees(mem, acked))
  BY DEF IInv
<1>2. /\ o.is = "failed" => fails < MaxFails
      /\ Sound(o.m)
      /\ ~torn => Spares(mem, o.m) /\ (o.is # "refused" => Agrees(o.m, acked))
  BY <1>1, FlushesOutcome
<1>3. mem' = o.m
  BY <1>2, BecomeMem DEF Sound
<1>4. fails' \in 0..MaxFails /\ torn' \in BOOLEAN
  BY <1>2, CountedFits
<1>5. ~torn' => ~torn /\ o.is # "refused"
  BY DEF Counted
<1>6. Sound(mem)' /\ (~torn' => Agrees(mem, acked)')
  BY <1>2, <1>3, <1>5
<1> QED
  BY <1>1, <1>2, <1>3, <1>4, <1>6 DEF IInv

\* What a request finds that loads the view first, from any memory.
LEMMA LoadsOutcome ==
    ASSUME NEW m, Sound(m), NEW o \in Loads(m)
    PROVE  /\ o \in Flushes(m) \/ (o.is = "written" /\ o.m = m)
           /\ o.is = "failed" => fails < MaxFails
           /\ Sound(o.m)
           /\ \A a \in Databases :
                Agrees(m, a) => /\ Spares(m, o.m)
                                /\ o.is # "refused" => Agrees(o.m, a)
           /\ o.is = "written" =>
                /\ Sound(WithCache(o.m)) /\ WithCache(o.m).store # NotLoaded
                /\ WithCache(o.m).cache \in Views /\ WithCache(o.m).disk = o.m.disk
                /\ \A a \in Databases : Agrees(m, a) => Agrees(WithCache(o.m), a)
<1>1. CASE Cold(m)
  <2>1. o \in Flushes(m)
    BY <1>1 DEF Loads
  <2>2. /\ o.is = "failed" => fails < MaxFails
        /\ o.is = "written" => o.m.timer = "none" /\ o.m.cache = m.cache
        /\ Sound(o.m)
        /\ \A a \in Databases :
             Agrees(m, a) => /\ Spares(m, o.m)
                             /\ o.is # "refused" => Agrees(o.m, a)
    BY <2>1, FlushesOutcome
  <2>3. ASSUME o.is = "written"
        PROVE  /\ Sound(WithCache(o.m)) /\ WithCache(o.m).store # NotLoaded
               /\ WithCache(o.m).cache \in Views /\ WithCache(o.m).disk = o.m.disk
               /\ \A a \in Databases : Agrees(m, a) => Agrees(WithCache(o.m), a)
    <3>1. o.m.timer = "none" /\ o.m.cache = Nothing
      BY <1>1, <2>2, <2>3 DEF Cold
    <3>2. WithCache(o.m) = Loaded(o.m)
      BY <3>1 DEF WithCache, Cold
    <3>3. \A a \in Databases : Agrees(m, a) => Agrees(o.m, a)
      BY <2>2, <2>3
    <3> QED
      BY <2>2, <3>1, <3>2, <3>3, LoadedAgrees
  <2> QED
    BY <2>1, <2>2, <2>3
<1>2. CASE ~Cold(m)
  <2>1. o.is = "written" /\ o.m = m /\ WithCache(m) = m
    BY <1>2 DEF Loads, WithCache
  <2>2. m.store # NotLoaded /\ m.cache \in Views
    BY <1>2 DEF Sound, Cold, Mems
  <2> QED
    BY <2>1, <2>2 DEF Spares
<1> QED
  BY <1>1, <1>2

---------------------------------------------------------------------------

LEMMA InitIInv == Init => IInv
<1> SUFFICES ASSUME Init PROVE IInv
  OBVIOUS
<1>1. disk \in Databases /\ Whole(disk)
  BY DEF Init
<1>2. disk.view \in Views /\ disk.body \in MaybeBody
  BY <1>1 DEF Databases
<1>3. Sound(mem)
  BY <1>1, NothingIsNoView, MemFields DEF Init, Sound, mem, Mems, Timers
<1>4. disk = Merged(disk.view, disk.body)
  <2>1. Listed(disk.view) <=> disk.view.chat = "listed"
    BY <1>2, NothingIsNoView DEF Listed
  <2>2. (IF Listed(disk.view) THEN disk.body ELSE Nothing) = disk.body
    BY <1>1, <2>1 DEF Whole
  <2> QED
    BY <1>1, <2>2 DEF Merged, Databases
<1>5. Agrees(mem, acked)
  BY <1>4, MemFields DEF Init, Agrees
<1>6. 0 \in 0..MaxFails
  BY DbPersistAssumption
<1> QED
  BY <1>1, <1>3, <1>5, <1>6 DEF Init, IInv

LEMMA PostChatStep == IInv /\ PostChat => IInv' /\ (~torn => Spares(mem, mem'))
<1> SUFFICES ASSUME IInv, PostChat PROVE IInv' /\ (~torn => Spares(mem, mem'))
  OBVIOUS
<1> DEFINE m == Ensured(mem)
<1>1. PICK b \in Bodies :
        /\ Become([m EXCEPT !.store = b, !.timer = "view or store",
                            !.unlisted = @ \/ ~Listed(m.cache)])
        /\ acked' = [acked EXCEPT !.body = b]
        /\ UNCHANGED <<fails, torn>>
  BY DEF PostChat
<1> DEFINE n == [m EXCEPT !.store = b, !.timer = "view or store",
                          !.unlisted = @ \/ ~Listed(m.cache)]
<1>2. /\ Sound(mem) /\ acked \in Databases /\ (~torn => Agrees(mem, acked))
      /\ fails \in 0..MaxFails /\ torn \in BOOLEAN
  BY DEF IInv
<1>3. /\ Sound(m) /\ m.store # NotLoaded /\ m.disk = mem.disk
      /\ ~torn => Agrees(m, acked)
  BY <1>2, EnsuredAgrees
<1>4. m \in Mems /\ m.disk \in Databases /\ Whole(m.disk)
  BY <1>3 DEF Sound, Mems
<1>5. b # Nothing /\ b # NotLoaded /\ b \in MaybeBody
  BY NothingIsNoView DEF MaybeBody
<1>6. /\ n \in Mems /\ n.disk = m.disk /\ n.cache = m.cache /\ n.store = b
      /\ n.timer = "view or store" /\ (n.unlisted <=> m.unlisted \/ ~Listed(m.cache))
  <2> HIDE DEF m
  <2>1. (m.unlisted \/ ~Listed(m.cache)) \in BOOLEAN
    OBVIOUS
  <2> QED
    BY <1>4, <1>5, <2>1 DEF Mems, Timers
<1>7. mem' = n
  <2> HIDE DEF n
  <2> QED
    BY <1>1, <1>6, BecomeMem DEF n
<1>8. Sound(n)
  <2> HIDE DEF n, m
  <2> QED
    BY <1>4, <1>5, <1>6 DEF Sound
<1>9. /\ acked' \in Databases /\ acked'.view = acked.view /\ acked'.body = b
  BY <1>1, <1>2, <1>5 DEF Databases
<1>10. ~torn => Agrees(n, acked')
  <2> SUFFICES ASSUME ~torn PROVE Agrees(n, acked')
    OBVIOUS
  <2>1. Agrees(m, acked)
    BY <1>3
  <2>2. acked.view.chat = "new" => n.unlisted
    <3>1. acked.view.chat = "new" => ~Listed(m.cache)
      BY <2>1 DEF Agrees, Listed
    <3> HIDE DEF n, m
    <3> QED
      BY <1>6, <3>1
  <2> HIDE DEF n, m
  <2> QED
    BY <1>5, <1>6, <1>9, <2>1, <2>2 DEF Agrees
<1>11. Spares(mem, n)
  <2> HIDE DEF n, m
  <2> QED
    BY <1>3, <1>6 DEF Spares
<1> QED
  <2> HIDE DEF n
  <2> QED
    BY <1>1, <1>2, <1>7, <1>8, <1>9, <1>10, <1>11 DEF IInv

LEMMA GetChatStep == IInv /\ GetChat => IInv' /\ (~torn => Spares(mem, mem'))
<1> SUFFICES ASSUME IInv, GetChat PROVE IInv' /\ (~torn => Spares(mem, mem'))
  OBVIOUS
<1>1. /\ Sound(mem) /\ acked \in Databases /\ (~torn => Agrees(mem, acked))
      /\ fails \in 0..MaxFails /\ torn \in BOOLEAN
  BY DEF IInv
<1>2. /\ Sound(Ensured(mem)) /\ Ensured(mem).disk = mem.disk
      /\ ~torn => Agrees(Ensured(mem), acked)
  BY <1>1, EnsuredAgrees
<1>3. mem' = Ensured(mem)
  BY <1>2, BecomeMem DEF GetChat, Sound
<1> QED
  BY <1>1, <1>2, <1>3 DEF GetChat, IInv, Spares

LEMMA FlushDbStep == IInv /\ FlushDb => IInv' /\ (~torn => Spares(mem, mem'))
BY Flushed DEF FlushDb

LEMMA ReadDbStep == IInv /\ ReadDb => IInv' /\ (~torn => Spares(mem, mem'))
<1> SUFFICES ASSUME IInv, ReadDb PROVE IInv' /\ (~torn => Spares(mem, mem'))
  OBVIOUS
<1>1. PICK o \in Flushes(mem) :
        /\ Counted(o)
        /\ Become(IF o.is = "written" THEN WithCache(o.m) ELSE o.m)
        /\ UNCHANGED acked
  BY DEF ReadDb
<1>2. CASE o.is # "written"
  BY <1>1, <1>2, Flushed
<1>3. CASE o.is = "written"
  <2> DEFINE l == WithCache(o.m)
  <2>1. /\ Sound(mem) /\ acked \in Databases /\ (~torn => Agrees(mem, acked))
    BY DEF IInv
  <2>2. /\ Sound(o.m) /\ o.m.timer = "none" /\ o.m.cache = mem.cache
        /\ ~torn => Agrees(o.m, acked) /\ Spares(mem, o.m)
    BY <1>3, <2>1, FlushesOutcome
  <2>3. Sound(l) /\ l.disk = o.m.disk /\ (~torn => Agrees(l, acked))
    <3>1. CASE Cold(o.m)
      BY <3>1, <2>1, <2>2, LoadedAgrees DEF WithCache, Cold
    <3>2. CASE ~Cold(o.m)
      BY <3>2, <2>2 DEF WithCache
    <3> QED
      BY <3>1, <3>2
  <2>4. mem' = l
    BY <1>1, <1>3, <2>3, BecomeMem DEF Sound
  <2>5. fails' \in 0..MaxFails /\ torn' \in BOOLEAN /\ (torn' <=> torn)
    <3>1. fails' \in 0..MaxFails /\ torn' \in BOOLEAN
      BY <1>1, <1>3, CountedFits
    <3>2. torn \in BOOLEAN
      BY DEF IInv
    <3> QED
      BY <1>1, <1>3, <3>1, <3>2 DEF Counted
  <2>6. ~torn => Spares(mem, l)
    BY <2>2, <2>3 DEF Spares
  <2> QED
    <3> HIDE DEF l
    <3> QED
      BY <1>1, <2>1, <2>3, <2>4, <2>5, <2>6 DEF IInv
<1> QED
  BY <1>2, <1>3

\* A load that came to nothing is a flush that did.
LEMMA LoadsStopped ==
    ASSUME IInv, NEW o \in Loads(mem), o.is # "written",
           Counted(o), Become(o.m), UNCHANGED acked
    PROVE  IInv' /\ (~torn => Spares(mem, mem'))
<1>1. Sound(mem)
  BY DEF IInv
<1>2. o \in Flushes(mem)
  BY <1>1, LoadsOutcome
<1> QED
  BY <1>2, Flushed

LEMMA PatchStep == IInv /\ Patch => IInv' /\ (~torn => Spares(mem, mem'))
<1> SUFFICES ASSUME IInv, Patch PROVE IInv' /\ (~torn => Spares(mem, mem'))
  OBVIOUS
<1>1. PICK o \in Loads(mem) :
        /\ Counted(o)
        /\ \/ /\ o.is # "written"
              /\ Become(o.m)
              /\ UNCHANGED acked
           \/ /\ o.is = "written"
              /\ LET m == WithCache(o.m) IN
                 \E v \in Views :
                    /\ Follows(m.cache, v)
                    /\ Become([m EXCEPT !.cache = v, !.timer = "view",
                                        !.unlisted = @ /\ ~Listed(v)])
                    /\ acked' = [acked EXCEPT !.view = v]
  BY DEF Patch
<1>2. CASE o.is # "written"
  BY <1>1, <1>2, LoadsStopped
<1>3. CASE o.is = "written"
  <2> DEFINE m == WithCache(o.m)
  <2>1. PICK v \in Views :
          /\ Follows(m.cache, v)
          /\ Become([m EXCEPT !.cache = v, !.timer = "view", !.unlisted = @ /\ ~Listed(v)])
          /\ acked' = [acked EXCEPT !.view = v]
    BY <1>1, <1>3
  <2> DEFINE n == [m EXCEPT !.cache = v, !.timer = "view", !.unlisted = @ /\ ~Listed(v)]
  <2>2. /\ Sound(mem) /\ acked \in Databases /\ (~torn => Agrees(mem, acked))
        /\ fails \in 0..MaxFails /\ torn \in BOOLEAN
    BY DEF IInv
  <2>3. /\ Sound(m) /\ m.store # NotLoaded /\ m.cache \in Views /\ m.disk = o.m.disk
        /\ ~torn => Agrees(m, acked) /\ Spares(mem, o.m)
    BY <1>3, <2>2, LoadsOutcome
  <2>4. m \in Mems /\ v # Nothing
    BY <2>3, NothingIsNoView DEF Sound
  <2>5. /\ n \in Mems /\ n.disk = m.disk /\ n.cache = v /\ n.store = m.store
        /\ n.timer = "view" /\ (n.unlisted <=> m.unlisted /\ v.chat # "listed")
    <3> HIDE DEF m
    <3>1. (m.unlisted /\ ~Listed(v)) \in BOOLEAN
      OBVIOUS
    <3>2. Listed(v) <=> v.chat = "listed"
      BY <2>4 DEF Listed
    <3> QED
      BY <2>4, <3>1, <3>2 DEF Mems, Timers
  <2>6. mem' = n
    <3> HIDE DEF n
    <3> QED
      BY <2>1, <2>5, BecomeMem DEF n
  <2>7. Sound(n)
    <3> HIDE DEF n, m
    <3> QED
      BY <2>3, <2>5 DEF Sound
  <2>8. acked' \in Databases /\ acked'.view = v /\ acked'.body = acked.body
    BY <2>1, <2>2 DEF Databases
  <2>9. ~torn => Agrees(n, acked')
    <3> SUFFICES ASSUME ~torn PROVE Agrees(n, acked')
      OBVIOUS
    <3>1. Agrees(m, acked) /\ m.cache = acked.view
      BY <2>3, NothingIsNoView DEF Agrees
    <3>2. /\ v.chat = acked.view.chat
             \/ (acked.view.chat = "new" /\ v.chat = "listed")
             \/ (acked.view.chat = "listed" /\ v.chat = "deleted")
      BY <2>1, <3>1 DEF Follows
    <3> HIDE DEF n, m
    <3> QED
      BY <2>3, <2>4, <2>5, <2>8, <3>1, <3>2 DEF Agrees
  <2>10. ~torn => Spares(mem, n)
    <3> HIDE DEF n, m
    <3> QED
      BY <2>3, <2>5 DEF Spares
  <2>11. fails' \in 0..MaxFails /\ torn' \in BOOLEAN /\ (torn' <=> torn)
    <3>1. fails' \in 0..MaxFails /\ torn' \in BOOLEAN
      BY <1>1, <1>3, CountedFits
    <3> QED
      BY <1>1, <1>3, <2>2, <3>1 DEF Counted
  <2> QED
    <3> HIDE DEF n
    <3> QED
      BY <2>6, <2>7, <2>8, <2>9, <2>10, <2>11 DEF IInv
<1> QED
  BY <1>2, <1>3

LEMMA PatchThrowsStep == IInv /\ PatchThrows => IInv' /\ (~torn => Spares(mem, mem'))
<1> SUFFICES ASSUME IInv, PatchThrows PROVE IInv' /\ (~torn => Spares(mem, mem'))
  OBVIOUS
<1>1. PICK o \in Loads(mem) :
        /\ o.is = "written"
        /\ Become([WithCache(o.m) EXCEPT !.cache = Nothing])
        /\ torn' = TRUE
        /\ UNCHANGED <<fails, acked>>
  BY DEF PatchThrows
<1> DEFINE m == WithCache(o.m)
<1> DEFINE n == [m EXCEPT !.cache = Nothing]
<1>2. /\ Sound(mem) /\ acked \in Databases /\ (~torn => Agrees(mem, acked))
      /\ fails \in 0..MaxFails /\ torn \in BOOLEAN
  BY DEF IInv
<1>3. /\ Sound(m) /\ m.store # NotLoaded /\ m.disk = o.m.disk
      /\ ~torn => Spares(mem, o.m)
  BY <1>1, <1>2, LoadsOutcome
<1>4. /\ n \in Mems /\ n.disk = m.disk /\ n.store = m.store
  <2>1. m \in Mems
    BY <1>3 DEF Sound
  <2> HIDE DEF m
  <2> QED
    BY <2>1 DEF Mems
<1>5. mem' = n
  <2> HIDE DEF n
  <2> QED
    BY <1>1, <1>4, BecomeMem DEF n
<1>6. Sound(n) /\ (~torn => Spares(mem, n))
  <2> HIDE DEF n, m
  <2> QED
    BY <1>3, <1>4 DEF Sound, Spares
<1> QED
  <2> HIDE DEF n
  <2> QED
    BY <1>1, <1>2, <1>5, <1>6 DEF IInv

LEMMA FullWriteStep == IInv /\ FullWrite => IInv' /\ (~torn => Spares(mem, mem'))
<1> SUFFICES ASSUME IInv, FullWrite PROVE IInv' /\ (~torn => Spares(mem, mem'))
  OBVIOUS
<1> DEFINE e == Ensured(mem)
<1>1. PICK o \in Loads(e) :
        \/ /\ o.is # "written"
           /\ Counted(o)
           /\ Become(o.m)
           /\ UNCHANGED acked
        \/ /\ o.is = "written"
           /\ LET m == WithCache(o.m) IN
              \E v \in Views, b \in {e.store, m.store} :
                LET db == Merged(v, b)
                    n == Rebuilt(m, db)
                IN
                /\ Follows(m.cache, v)
                /\ \/ /\ Become([n EXCEPT !.disk = db, !.cache = v, !.timer = "none"])
                      /\ acked' = [acked EXCEPT !.view = v]
                      /\ UNCHANGED <<fails, torn>>
                   \/ /\ fails < MaxFails
                      /\ Become(n)
                      /\ fails' = fails + 1
                      /\ torn' = (torn \/ n # m)
                      /\ UNCHANGED acked
  BY DEF FullWrite
<1>2. /\ Sound(mem) /\ acked \in Databases /\ (~torn => Agrees(mem, acked))
      /\ fails \in 0..MaxFails /\ torn \in BOOLEAN
  BY DEF IInv
<1>3. /\ Sound(e) /\ e.store # NotLoaded /\ e.disk = mem.disk
      /\ ~torn => Agrees(e, acked)
  BY <1>2, EnsuredAgrees
<1>4. CASE o.is # "written"
  <2>1. /\ o.is = "failed" => fails < MaxFails
        /\ Sound(o.m)
        /\ ~torn => Spares(e, o.m) /\ (o.is # "refused" => Agrees(o.m, acked))
    BY <1>2, <1>3, LoadsOutcome
  <2>2. Counted(o) /\ Become(o.m) /\ UNCHANGED acked
    BY <1>1, <1>4
  <2>3. mem' = o.m
    BY <2>1, <2>2, BecomeMem DEF Sound
  <2>4. fails' \in 0..MaxFails /\ torn' \in BOOLEAN
    BY <2>1, <2>2, CountedFits
  <2>5. ~torn' => ~torn /\ o.is # "refused"
    BY <2>2 DEF Counted
  <2>6. ~torn => Spares(mem, o.m)
    BY <1>3, <2>1 DEF Spares
  <2> QED
    BY <1>2, <2>1, <2>2, <2>3, <2>4, <2>5, <2>6 DEF IInv
<1>5. CASE o.is = "written"
  <2> DEFINE m == WithCache(o.m)
  <2>1. PICK v \in Views, b \in {e.store, m.store} :
          LET db == Merged(v, b)
              n == Rebuilt(m, db)
          IN
          /\ Follows(m.cache, v)
          /\ \/ /\ Become([n EXCEPT !.disk = db, !.cache = v, !.timer = "none"])
                /\ acked' = [acked EXCEPT !.view = v]
                /\ UNCHANGED <<fails, torn>>
             \/ /\ fails < MaxFails
                /\ Become(n)
                /\ fails' = fails + 1
                /\ torn' = (torn \/ n # m)
                /\ UNCHANGED acked
    BY <1>1, <1>5
  <2> DEFINE db == Merged(v, b)
  <2> DEFINE n == Rebuilt(m, db)
  <2> DEFINE w == [n EXCEPT !.disk = db, !.cache = v, !.timer = "none"]
  <2>2. /\ Sound(m) /\ m.store # NotLoaded /\ m.cache \in Views /\ m.disk = o.m.disk
        /\ ~torn => Agrees(m, acked) /\ Spares(e, o.m)
    BY <1>2, <1>3, <1>5, LoadsOutcome
  <2>3. m \in Mems /\ b \in MaybeBody
    BY <1>3, <2>2 DEF Sound, Mems
  <2>4. /\ db \in Databases /\ Whole(db) /\ db.view = v
        /\ db.body = IF v.chat = "listed" THEN b ELSE Nothing
    BY <2>3, MergedWhole
  <2>5. /\ n \in Mems
        /\ n.disk = m.disk /\ n.cache = m.cache /\ n.timer = m.timer
        /\ n.store # NotLoaded
        /\ n.store = IF m.unlisted /\ v.chat # "listed" THEN m.store ELSE db.body
        /\ n.unlisted <=> m.unlisted /\ v.chat # "listed"
    <3> HIDE DEF m, db
    <3> QED
      BY <2>2, <2>3, <2>4, RebuiltFields
  <2>6. Sound(n)
    <3> HIDE DEF m, db
    <3> QED
      BY <2>2, <2>4, RebuiltSound
  <2>7. ~torn => Spares(mem, n)
    <3> HIDE DEF m, n
    <3> QED
      BY <1>3, <2>2, <2>5 DEF Spares
  <2>8. CASE /\ fails < MaxFails
             /\ Become(n)
             /\ fails' = fails + 1
             /\ torn' = (torn \/ n # m)
             /\ UNCHANGED acked
    <3>1. mem' = n
      <4> HIDE DEF n
      <4> QED
        BY <2>5, <2>8, BecomeMem
    <3>2. fails' \in 0..MaxFails /\ torn' \in BOOLEAN
      BY <1>2, <2>8, DbPersistAssumption
    <3>3. ~torn' => Agrees(n, acked)
      <4> HIDE DEF n, m
      <4> QED
        BY <2>2, <2>8
    <3> HIDE DEF n, m
    <3> QED
      BY <1>2, <2>6, <2>7, <2>8, <3>1, <3>2, <3>3 DEF IInv
  <2>9. CASE /\ Become(w)
             /\ acked' = [acked EXCEPT !.view = v]
             /\ UNCHANGED <<fails, torn>>
    <3>1. /\ w \in Mems /\ w.disk = db /\ w.cache = v /\ w.timer = "none"
          /\ w.store = n.store /\ w.unlisted = n.unlisted
      <4> HIDE DEF n, db
      <4> QED
        BY <2>4, <2>5 DEF Mems, Timers
    <3>2. mem' = w
      <4> HIDE DEF w
      <4> QED
        BY <2>9, <3>1, BecomeMem
    <3>3. Sound(w)
      <4> HIDE DEF w, n, db
      <4> QED
        BY <2>4, <2>5, <3>1 DEF Sound
    <3>4. acked' \in Databases /\ acked'.view = v /\ acked'.body = acked.body
      BY <1>2, <2>9 DEF Databases
    <3>5. ASSUME ~torn
          PROVE  Agrees(w, acked') /\ Spares(mem, w)
      <4>1. Agrees(m, acked) /\ Agrees(e, acked) /\ m.cache = acked.view
        BY <1>3, <2>2, <3>5, NothingIsNoView DEF Agrees
      <4>2. /\ v.chat = acked.view.chat
               \/ (acked.view.chat = "new" /\ v.chat = "listed")
               \/ (acked.view.chat = "listed" /\ v.chat = "deleted")
        BY <2>1, <4>1 DEF Follows
      <4>3. acked.view.chat # "deleted" => b = acked.body /\ m.store = acked.body
        <5> HIDE DEF m, e
        <5> QED
          BY <1>3, <2>2, <4>1 DEF Agrees
      <4>4. db.body = IF v.chat = "listed" THEN acked.body ELSE Nothing
        BY <2>4, <4>2, <4>3
      <4>5. db = Merged(v, acked.body)
        <5>1. Listed(v) => v.chat = "listed"
          BY DEF Listed
        <5> QED
          BY <4>2, <4>3, <5>1 DEF Merged
      <4>6. acked.view.chat = "new" /\ acked.body # Nothing => m.unlisted
        <5> HIDE DEF m
        <5> QED
          BY <2>2, <4>1 DEF Agrees
      <4>7. v.chat \in {"new", "listed", "deleted"}
        BY DEF Views
      <4>8. v.chat # "deleted" => w.store = acked.body
        <5> HIDE DEF w, n, m, db
        <5> QED
          BY <2>5, <3>1, <4>2, <4>3, <4>4, <4>6, <4>7
      <4>9. v.chat = "new" /\ acked.body # Nothing => w.unlisted
        <5> HIDE DEF w, n, m, db
        <5> QED
          BY <2>5, <3>1, <4>2, <4>6
      <4>10. v # Nothing /\ w.store # NotLoaded
        <5> HIDE DEF w, n
        <5> QED
          BY <2>5, <3>1, NothingIsNoView
      <4>11. Agrees(w, acked')
        <5> HIDE DEF w, db
        <5> QED
          BY <3>1, <3>4, <4>4, <4>5, <4>8, <4>9, <4>10 DEF Agrees
      <4>12. Spares(mem, w)
        <5>1. mem.disk.body # Nothing => acked.body # Nothing
          BY <1>2, <3>5 DEF Agrees
        <5> HIDE DEF w, db
        <5> QED
          BY <2>4, <3>1, <4>4, <5>1 DEF Spares, Listed
      <4> QED
        BY <4>11, <4>12
    <3> HIDE DEF w
    <3> QED
      BY <1>2, <2>9, <3>2, <3>3, <3>4, <3>5 DEF IInv
  <2> QED
    BY <2>1, <2>8, <2>9
<1> QED
  BY <1>4, <1>5


LEMMA TimerFiresStep == IInv /\ TimerFires => IInv' /\ (~torn => Spares(mem, mem'))
<1> SUFFICES ASSUME IInv, TimerFires PROVE IInv' /\ (~torn => Spares(mem, mem'))
  OBVIOUS
<1>1. PICK o \in IF timer = "view" /\ Cold(mem)
                 THEN {[is |-> "written", m |-> [mem EXCEPT !.timer = "none"]]}
                 ELSE Writes(mem) :
        Counted(o) /\ Become(o.m)
  BY DEF TimerFires
<1>2. timer # "none" /\ UNCHANGED acked
  BY DEF TimerFires
<1>3. /\ Sound(mem) /\ acked \in Databases /\ (~torn => Agrees(mem, acked))
      /\ fails \in 0..MaxFails /\ torn \in BOOLEAN
  BY DEF IInv
<1>4. CASE timer = "view" /\ Cold(mem)
  <2> DEFINE n == [mem EXCEPT !.timer = "none"]
  <2>1. o.is = "written" /\ o.m = n
    BY <1>1, <1>4
  <2>2. /\ n \in Mems /\ n.disk = mem.disk /\ n.cache = mem.cache /\ n.store = mem.store
        /\ n.unlisted = mem.unlisted /\ n.timer = "none"
    <3>1. mem \in Mems
      BY <1>3 DEF Sound
    <3> QED
      BY <3>1 DEF Mems, Timers
  <2>3. mem' = n
    BY <1>1, <2>1, <2>2, BecomeMem
  <2>4. Sound(n) /\ Spares(mem, n)
    <3> HIDE DEF n
    <3> QED
      BY <1>3, <2>2 DEF Sound, Spares
  <2>5. torn
    BY <1>3, <1>4, MemFields DEF Agrees, Cold
  <2>6. fails' \in 0..MaxFails /\ torn' = TRUE
    BY <1>1, <1>3, <2>1, <2>5 DEF Counted
  <2> HIDE DEF n
  <2> QED
    BY <1>2, <1>3, <2>3, <2>4, <2>6 DEF IInv
<1>5. CASE ~(timer = "view" /\ Cold(mem))
  <2>1. o \in Flushes(mem)
    BY <1>1, <1>2, <1>5, MemFields DEF Flushes
  <2> QED
    BY <1>1, <1>2, <2>1, Flushed
<1> QED
  BY <1>4, <1>5

\* A replaced database is loaded, or not yet, and nothing is pending.
LEMMA ReplaceStep == IInv /\ Replace => IInv'
<1> SUFFICES ASSUME IInv, Replace PROVE IInv'
  OBVIOUS
<1>1. PICK o \in Flushes(mem) :
        \/ /\ o.is # "written"
           /\ Counted(o) /\ Become(o.m)
           /\ UNCHANGED acked
        \/ /\ o.is = "written"
           /\ \E db \in Databases :
                /\ Whole(db)
                /\ \E s \in {db.body, NotLoaded} :
                    Become([disk |-> db, cache |-> Nothing, store |-> s,
                            unlisted |-> FALSE, timer |-> "none"])
                /\ acked' = db
           /\ torn' = FALSE
           /\ UNCHANGED fails
  BY DEF Replace
<1>2. CASE o.is # "written"
  BY <1>1, <1>2, Flushed
<1>3. CASE o.is = "written"
  <2>1. PICK db \in Databases :
          /\ Whole(db)
          /\ \E s \in {db.body, NotLoaded} :
               Become([disk |-> db, cache |-> Nothing, store |-> s,
                       unlisted |-> FALSE, timer |-> "none"])
          /\ acked' = db
    BY <1>1, <1>3
  <2>2. PICK s \in {db.body, NotLoaded} :
          Become([disk |-> db, cache |-> Nothing, store |-> s,
                  unlisted |-> FALSE, timer |-> "none"])
    BY <2>1
  <2> DEFINE n == [disk |-> db, cache |-> Nothing, store |-> s,
                   unlisted |-> FALSE, timer |-> "none"]
  <2>3. db.view \in Views /\ db.body \in MaybeBody
    BY DEF Databases
  <2>4. n \in Mems
    BY <2>3 DEF Mems, Timers
  <2>5. mem' = n
    BY <2>2, <2>4, BecomeMem
  <2>6. Sound(n)
    BY <2>1, <2>4 DEF Sound
  <2>7. db = Merged(db.view, db.body)
    <3>1. (IF Listed(db.view) THEN db.body ELSE Nothing) = db.body
      BY <2>1, <2>3, NothingIsNoView DEF Whole, Listed
    <3> QED
      BY <3>1 DEF Merged, Databases
  <2>8. Agrees(n, db)
    <3>1. db.view.chat = "new" => db.body = Nothing
      BY <2>1 DEF Whole
    <3> QED
      BY <2>3, <2>7, <3>1, NothingIsNoView DEF Agrees
  <2>9. fails' = fails /\ torn' = FALSE /\ fails \in 0..MaxFails
    BY <1>1, <1>3 DEF IInv
  <2> HIDE DEF n
  <2> QED
    BY <2>1, <2>5, <2>6, <2>8, <2>9 DEF IInv
<1> QED
  BY <1>2, <1>3

LEMMA RestartStep == IInv /\ Restart => IInv' /\ Spares(mem, mem')
<1> SUFFICES ASSUME IInv, Restart PROVE IInv' /\ Spares(mem, mem')
  OBVIOUS
<1> DEFINE n == [mem EXCEPT !.cache = Nothing, !.store = NotLoaded,
                            !.unlisted = FALSE, !.timer = "none"]
<1>1. Sound(mem) /\ mem \in Mems /\ mem.disk = disk
  BY MemFields DEF IInv, Sound
<1>2. /\ n \in Mems /\ n.disk = disk /\ n.cache = Nothing /\ n.store = NotLoaded
      /\ n.timer = "none" /\ n.unlisted = FALSE
  BY <1>1 DEF Mems, Timers
<1>3. mem' = n /\ acked' = disk /\ torn' = FALSE /\ fails' = fails
  <2>1. Become(n) /\ acked' = disk /\ torn' = FALSE /\ fails' = fails
    BY DEF Restart
  <2> HIDE DEF n
  <2> QED
    BY <1>2, <2>1, BecomeMem
<1>4. disk \in Databases /\ Whole(disk) /\ disk.view \in Views /\ disk.body \in MaybeBody
  BY <1>1 DEF Sound, Mems, Databases
<1>5. disk = Merged(disk.view, disk.body)
  <2>1. (IF Listed(disk.view) THEN disk.body ELSE Nothing) = disk.body
    BY <1>4, NothingIsNoView DEF Whole, Listed
  <2> QED
    BY <1>4, <2>1 DEF Merged, Databases
<1>6. Sound(n) /\ Agrees(n, disk) /\ Spares(mem, n)
  <2> HIDE DEF n
  <2> QED
    BY <1>1, <1>2, <1>4, <1>5 DEF Sound, Agrees, Spares
<1> HIDE DEF n
<1> QED
  BY <1>3, <1>4, <1>6 DEF IInv

LEMMA NextStep ==
    IInv /\ [Next]_vars => IInv' /\ (~torn /\ ~Replace => Spares(mem, mem'))
<1> SUFFICES ASSUME IInv, [Next]_vars
             PROVE  IInv' /\ (~torn /\ ~Replace => Spares(mem, mem'))
  OBVIOUS
<1>1. CASE PostChat
  BY <1>1, PostChatStep
<1>2. CASE GetChat
  BY <1>2, GetChatStep
<1>3. CASE ReadDb
  BY <1>3, ReadDbStep
<1>4. CASE Patch
  BY <1>4, PatchStep
<1>5. CASE PatchThrows
  BY <1>5, PatchThrowsStep
<1>6. CASE FullWrite
  BY <1>6, FullWriteStep
<1>7. CASE FlushDb
  BY <1>7, FlushDbStep
<1>8. CASE TimerFires
  BY <1>8, TimerFiresStep
<1>9. CASE Replace
  BY <1>9, ReplaceStep
<1>10. CASE Restart
  BY <1>10, RestartStep
<1>11. CASE UNCHANGED vars
  <2>1. mem' = mem
    BY <1>11 DEF vars, mem
  <2> QED
    BY <1>11, <2>1 DEF vars, IInv, Spares
<1> QED
  BY <1>1, <1>2, <1>3, <1>4, <1>5, <1>6, <1>7, <1>8, <1>9, <1>10, <1>11 DEF Next

LEMMA SpecIInv == Spec => []IInv
<1>1. IInv /\ [Next]_vars => IInv'
  BY NextStep
<1> QED
  BY <1>1, InitIInv, PTL DEF Spec

---------------------------------------------------------------------------

\* The server's memory and the database on disk have their types (server.cjs:452-465).
THEOREM SpecTypeOK == Spec => []TypeOK
<1>1. IInv => TypeOK
  BY MemFields DEF IInv, Sound, Mems, Timers, TypeOK
<1> QED
  BY <1>1, SpecIInv, PTL

\* An acknowledged edit that is not on disk has a timer that will write it
\* (server.cjs:362), unless the server itself dropped it.
THEOREM SpecNothingPendingUnrecorded == Spec => []NothingPendingUnrecorded
<1>1. IInv => NothingPendingUnrecorded
  BY MemFields DEF IInv, Agrees, NothingPendingUnrecorded, AckedDb
<1> QED
  BY <1>1, SpecIInv, PTL

\* Requests are answered from what was acknowledged, across persists, cold loads and
\* full writes (server.cjs:720-726).
THEOREM SpecServesAcked == Spec => []ServesAcked
<1>1. IInv => ServesAcked
  <2> SUFFICES ASSUME IInv, ~torn PROVE ServesAcked
    BY DEF ServesAcked, IInv
  <2>1. Agrees(mem, acked)
    BY DEF IInv
  <2> QED
    BY <2>1, MemFields DEF Agrees, ServesAcked
<1> QED
  BY <1>1, SpecIInv, PTL

\* No body leaves the disk while its chat is listed, but by a replacement of the
\* database (server.cjs:1131-1136).
THEOREM SpecKeepsBodies == Spec => KeepsBodies
<1>1. IInv /\ [Next]_vars =>
        [disk.body # Nothing /\ ~torn /\ ~Replace
         => ~Listed(disk'.view) \/ disk'.body # Nothing]_vars
  <2> SUFFICES ASSUME IInv, [Next]_vars, disk.body # Nothing, ~torn, ~Replace
               PROVE  ~Listed(disk'.view) \/ disk'.body # Nothing
    OBVIOUS
  <2>1. Spares(mem, mem')
    BY NextStep
  <2>2. mem.disk = disk /\ mem'.disk = disk'
    BY DEF mem
  <2> QED
    BY <2>1, <2>2 DEF Spares
<1> QED
  BY <1>1, SpecIInv, PTL DEF Spec, KeepsBodies

\* What was acknowledged is served, and on disk or about to be written.
THEOREM SpecAckedSurvives == Spec => []AckedSurvives
<1>1. NothingPendingUnrecorded /\ ServesAcked => AckedSurvives
  BY DEF AckedSurvives
<1> QED BY <1>1, SpecNothingPendingUnrecorded, SpecServesAcked, PTL

=============================================================================
