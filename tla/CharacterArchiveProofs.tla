----------------------- MODULE CharacterArchiveProofs -----------------------
(***************************************************************************)
(* What CharacterArchive promises, for any chats, edits, rows, snapshots,  *)
(* restarts and reloads.  The invariant has three kinds of parts.          *)
(*                                                                         *)
(* The server: Sound and Agrees say of its memory what every function on   *)
(* it keeps; between a file without its timer and a memory that is ahead   *)
(* of it they say which of the two the bodies are in.                      *)
(*                                                                         *)
(* Revisions: none lists the character twice or nowhere (ViewsFit), and    *)
(* nobody has a stub for the row of a deactivation that was just answered  *)
(* (NamedOnce).                                                            *)
(*                                                                         *)
(* Rows: those whose stub may still be put, by the page or by a save in    *)
(* flight (Put), hold what was saved or were overtaken (Ready), and the    *)
(* snapshot's holds what the snapshot was taken with (SnapHolds).          *)
(***************************************************************************)
EXTENDS CharacterArchive, WellFoundedInduction, TLAPS

\* The greatest of some numbers is one of them.
LEMMA MaxIn ==
    ASSUME NEW n \in Nat, NEW S \in SUBSET (1..n), S # {}
    PROVE  Max(S) \in S
<1> DEFINE below == {ss \in Nat \X Nat : ss[1] < ss[2]}
           gaps == {n - x : x \in S}
<1>1. IsWellFoundedOn(below, Nat)
  BY NatLessThanWellFounded DEF OpToRel
<1>2. gaps \subseteq Nat /\ gaps # {}
  <2>1. \A x \in S : n - x \in Nat
    OBVIOUS
  <2>2. PICK x \in S : TRUE
    OBVIOUS
  <2>3. n - x \in gaps
    BY <2>2
  <2> QED
    BY <2>1, <2>3
<1>3. PICK g \in gaps : \A h \in gaps : <<h, g>> \notin below
  <2> HIDE DEF below, gaps
  <2> QED BY <1>1, <1>2, WFMin
<1>4. PICK x \in S : g = n - x
  BY <1>3
<1>5. \A y \in S : x >= y
  <2> TAKE y \in S
  <2>1. n - y \in gaps /\ n - y \in Nat /\ g \in Nat
    BY <1>2
  <2>2. ~(n - y < g)
    BY <1>3, <2>1
  <2> QED BY <2>2, <1>4
<1> QED BY <1>5 DEF Max

---------------------------------------------------------------------------
(* The inductive invariant *)

Full(b) == \A k \in Chats : b[k] # None

NotBoth(v) == ~(v.active /\ v.stub # NoRow)
Listed(v) == v.active \/ v.stub # NoRow

RowsWritten == \A t \in Rows : t <= used.rows /\ Full(rows[t])

\* What is always so of the server's memory: it has bodies with its view or its
\* timer, without a timer it is what the file holds, and the bodies an answered
\* activation registered are in the store as long as the stub is there and no
\* other activation displaced them.
Sound(s) ==
    /\ s \in Servers
    /\ s.cache # NotLoaded \/ s.timer => s.store # NotLoaded
    /\ s.cache = NotLoaded => s.pending = NoRow
    /\ ~s.timer => s.kept = s.saved /\ s.cache \in {NotLoaded, s.disk.view}
    /\ s.promised # NoRow =>
          /\ s.cache # NotLoaded /\ ~s.cache.active /\ s.cache.stub = s.promised
          /\ "row" \notin s.displaced => s.pending = s.promised /\ s.store # NoBodies

\* What it holds as long as the character was not deleted, and no activation
\* displaced anything.
Agrees(s) ==
    /\ s.displaced = {}
    /\ Full(s.saved) /\ Full(s.kept)
    /\ View(s).stub # NoRow => rows[View(s).stub] = s.saved
    /\ View(s).active /\ s.store # NotLoaded =>
          /\ Filled(s.store) = s.saved
          /\ ~s.timer \/ s.cache = NotLoaded => s.store = s.saved
    /\ Holds(s.disk.view, s.disk.body, s.kept)
    /\ s.promised # NoRow => s.store = Over(s.over, s.saved)

\* What is read from the rows has its type.
LEMMA RowTypes ==
    ASSUME TypeOK
    PROVE  /\ \A k \in Chats : FromRows(k) \in Edits \cup {None}
           /\ \A body \in Bodies : Filled(body) \in Bodies
<1>1. ASSUME NEW k \in Chats PROVE FromRows(k) \in Edits \cup {None}
  <2> DEFINE holding == {t \in Times : rows[t][k] # None}
  <2>1. CASE holding = {}
    BY <2>1 DEF FromRows
  <2>2. CASE holding # {}
    <3>1. holding \in SUBSET (1..MaxRows) /\ MaxRows \in Nat
      BY ArchiveAssumption DEF Times
    <3>2. Max(holding) \in holding
      BY <2>2, <3>1, MaxIn
    <3>3. rows[Max(holding)] \in Bodies
      BY <3>2 DEF TypeOK
    <3>4. FromRows(k) = rows[Max(holding)][k]
      BY <2>2 DEF FromRows
    <3> QED
      BY <3>3, <3>4 DEF Bodies
  <2> QED
    BY <2>1, <2>2
<1>2. ASSUME NEW body \in Bodies PROVE Filled(body) \in Bodies
  BY <1>1, <1>2 DEF Filled, Over, Bodies
<1> QED
  BY <1>1, <1>2

\* A body that lacks nothing is not filled.
LEMMA FullIsFilled ==
    ASSUME NEW body \in Bodies, Full(body)
    PROVE  Filled(body) = body
  BY DEF Full, Filled, Over, Bodies

\* Rows are whole, so one row is the newest for every chat.
LEMMA FilledFromNewest ==
    ASSUME TypeOK, RowsWritten, Rows # {}, NEW body \in Bodies
    PROVE  /\ Max(Rows) \in Rows
           /\ Filled(body) = Over(body, rows[Max(Rows)])
           /\ Full(Filled(body))
<1>1. Rows \in SUBSET (1..MaxRows) /\ MaxRows \in Nat
  BY ArchiveAssumption DEF Times, Rows
<1>2. Max(Rows) \in Rows
  BY <1>1, MaxIn
<1>3. \A k \in Chats : {t \in Times : rows[t][k] # None} = Rows
  BY DEF RowsWritten, Rows, Full, NoBodies, TypeOK, Bodies
<1>4. \A k \in Chats : FromRows(k) = rows[Max(Rows)][k]
  BY <1>3 DEF FromRows
<1>5. Full(rows[Max(Rows)])
  BY <1>2 DEF RowsWritten
<1> QED
  BY <1>2, <1>4, <1>5 DEF Filled, Over, Full, Bodies

---------------------------------------------------------------------------
(* What the server's functions keep.  Each lemma speaks of any memory s.   *)

\* A memory shows a revision.
LEMMA ViewTypes ==
    ASSUME NEW s \in Servers
    PROVE  View(s) \in Views /\ View(s) # NotLoaded /\ s.disk.view \in Views /\ s.disk.body \in Bodies
  BY NotLoadedAssumption DEF View, Servers, Files

\* No bodies is a value of its own.
LEMMA NoBodiesTypes == NoBodies \in Bodies /\ NotLoaded \notin Bodies /\ NotLoaded \notin Views
  BY NotLoadedAssumption DEF NoBodies, Bodies

\* A rebuilt store has the bodies it was given, or those of an activation.
LEMMA InitStoreFields ==
    ASSUME NEW s \in Servers, s.store # NotLoaded \/ s.pending = NoRow,
           NEW view \in Views, NEW body \in Bodies
    PROVE  LET n == InitStore(s, view, body)
               still == StillPending(s, view) IN
           /\ n \in Servers
           /\ n.disk = s.disk /\ n.cache = s.cache /\ n.timer = s.timer
           /\ n.saved = s.saved /\ n.kept = s.kept /\ n.promised = s.promised
           /\ n.displaced = s.displaced
           /\ n.store = IF view.active THEN body ELSE IF still THEN s.store ELSE NoBodies
           /\ n.store \in Bodies
           /\ n.pending = IF still THEN s.pending ELSE NoRow
           /\ n.over = IF still THEN s.over ELSE NoBodies
<1>1. StillPending(s, view) => s.store \in Bodies
  BY DEF StillPending, Servers
<1> QED
  BY <1>1, NoBodiesTypes DEF InitStore, Carried, Servers

\* A write of the file.
LEMMA FlushedFields ==
    ASSUME TypeOK, NEW s, Sound(s), s.timer
    PROVE  LET n == Flushed(s)
               body == IF s.cache = NotLoaded THEN s.store ELSE Filled(s.store)
               disk == [view |-> View(s), body |-> IF View(s).active THEN body ELSE NoBodies]
               still == StillPending(s, View(s)) IN
           /\ n \in Servers /\ ~n.timer
           /\ n.disk = disk /\ n.cache = s.cache
           /\ n.saved = s.saved /\ n.kept = s.saved /\ n.promised = s.promised
           /\ n.displaced = s.displaced
           /\ s.cache = NotLoaded => /\ n.store = s.store /\ n.pending = s.pending
                                     /\ n.over = s.over
           /\ s.cache # NotLoaded =>
                /\ n.store = IF View(s).active THEN body ELSE IF still THEN s.store ELSE NoBodies
                /\ n.store \in Bodies
                /\ n.pending = IF still THEN s.pending ELSE NoRow
                /\ n.over = IF still THEN s.over ELSE NoBodies
<1> DEFINE body == IF s.cache = NotLoaded THEN s.store ELSE Filled(s.store)
           disk == [view |-> View(s), body |-> IF View(s).active THEN body ELSE NoBodies]
           wrote == [s EXCEPT !.disk = disk, !.timer = FALSE, !.kept = s.saved]
<1>1. s \in Servers /\ s.store \in Bodies
  BY DEF Sound, Servers
<1>2. View(s) \in Views /\ body \in Bodies
  BY <1>1, ViewTypes, RowTypes
<1>3. disk \in Files /\ disk.body \in Bodies /\ disk.view = View(s)
  BY <1>2, NoBodiesTypes DEF Files
<1>4. /\ wrote \in Servers /\ wrote.disk = disk /\ ~wrote.timer /\ wrote.kept = s.saved
      /\ wrote.cache = s.cache /\ wrote.store = s.store /\ wrote.pending = s.pending
      /\ wrote.over = s.over /\ wrote.saved = s.saved /\ wrote.promised = s.promised
      /\ wrote.displaced = s.displaced
  BY <1>1, <1>3 DEF Servers
<1>5. Flushed(s) = IF s.cache = NotLoaded THEN wrote ELSE InitStore(wrote, View(s), disk.body)
  BY DEF Flushed
<1>6. wrote.store # NotLoaded
  BY <1>1, <1>4, NoBodiesTypes
<1>7. StillPending(wrote, View(s)) = StillPending(s, View(s))
  BY <1>4 DEF StillPending
<1> HIDE DEF wrote
<1>8. CASE s.cache = NotLoaded
  BY <1>4, <1>5, <1>8
<1>9. CASE s.cache # NotLoaded
  <2> DEFINE n == InitStore(wrote, View(s), disk.body)
  <2>1. Flushed(s) = n
    BY <1>5, <1>9
  <2>2. /\ n \in Servers
        /\ n.disk = wrote.disk /\ n.cache = wrote.cache /\ n.timer = wrote.timer
        /\ n.saved = wrote.saved /\ n.kept = wrote.kept /\ n.promised = wrote.promised
        /\ n.displaced = wrote.displaced
        /\ n.store = IF View(s).active THEN disk.body
                     ELSE IF StillPending(wrote, View(s)) THEN wrote.store ELSE NoBodies
        /\ n.store \in Bodies
        /\ n.pending = IF StillPending(wrote, View(s)) THEN wrote.pending ELSE NoRow
        /\ n.over = IF StillPending(wrote, View(s)) THEN wrote.over ELSE NoBodies
    BY <1>2, <1>3, <1>4, <1>6, InitStoreFields
  <2> HIDE DEF n
  <2> QED
    BY <1>3, <1>4, <1>7, <1>9, <2>1, <2>2
<1> QED
  BY <1>8, <1>9

\* After a write the file holds the view, and what was saved.
LEMMA FlushedKeeps ==
    ASSUME TypeOK, RowsWritten, NEW s, Sound(s)
    PROVE  LET n == Flushed(s) IN
           /\ Sound(n) /\ ~n.timer /\ n.cache = s.cache /\ n.disk.view = View(s)
           /\ n.saved = s.saved /\ n.kept = s.saved /\ n.promised = s.promised
           /\ n.displaced = s.displaced
           /\ n.over \in {s.over, NoBodies}
           /\ s.store # NotLoaded => n.store # NotLoaded
           /\ Agrees(s) => Agrees(n)
<1> DEFINE n == Flushed(s)
<1>0. /\ s \in Servers /\ View(s) \in Views /\ View(s).active \in BOOLEAN
      /\ View(s).stub \in Times \cup {NoRow}
  BY ViewTypes DEF Sound, Views
<1>1. CASE ~s.timer
  BY <1>1 DEF Sound, Flushed, View
<1>2. CASE s.timer
  <2> DEFINE body == IF s.cache = NotLoaded THEN s.store ELSE Filled(s.store)
             still == StillPending(s, View(s))
  <2>1. /\ n \in Servers /\ ~n.timer
        /\ n.disk = [view |-> View(s), body |-> IF View(s).active THEN body ELSE NoBodies]
        /\ n.cache = s.cache
        /\ n.saved = s.saved /\ n.kept = s.saved /\ n.promised = s.promised
        /\ n.displaced = s.displaced
        /\ s.cache = NotLoaded => /\ n.store = s.store /\ n.pending = s.pending
                                  /\ n.over = s.over
        /\ s.cache # NotLoaded =>
             /\ n.store = IF View(s).active THEN body ELSE IF still THEN s.store ELSE NoBodies
             /\ n.store \in Bodies
             /\ n.pending = IF still THEN s.pending ELSE NoRow
             /\ n.over = IF still THEN s.over ELSE NoBodies
    BY <1>2, FlushedFields
  <2> HIDE DEF n
  <2>2. View(n) = View(s) /\ n.disk.view = View(s)
        /\ n.disk.body = IF View(s).active THEN body ELSE NoBodies
    BY <2>1 DEF View
  <2>3. s.store \in Bodies /\ s.saved \in Bodies
    BY <1>0, <1>2 DEF Sound, Servers
  <2>4. n.store # NotLoaded
    BY <2>1, <2>3, NoBodiesTypes
  <2>5. s.promised # NoRow /\ "row" \notin s.displaced
        => still /\ s.cache # NotLoaded /\ ~View(s).active
    BY DEF Sound, StillPending, View
  <2>6. Sound(n)
    BY <2>1, <2>2, <2>4, <2>5 DEF Sound, View
  <2>7. ASSUME Agrees(s) PROVE Agrees(n)
    <3>1. Full(s.saved) /\ Filled(s.saved) = s.saved
      BY <2>3, <2>7, FullIsFilled DEF Agrees
    <3>2. View(s).active => body = s.saved
      BY <2>3, <2>7, NoBodiesTypes DEF Agrees
    <3>3. View(s).active => n.store = s.saved
      BY <2>1, <3>2
    <3>4. Holds(n.disk.view, n.disk.body, n.kept)
      BY <2>1, <2>2, <2>7, <3>2 DEF Holds, Agrees
    <3>5. s.promised # NoRow => n.store = Over(n.over, n.saved)
      BY <2>1, <2>5, <2>7 DEF Agrees
    <3> QED
      BY <2>1, <2>2, <2>7, <3>1, <3>3, <3>4, <3>5 DEF Agrees
  <2> QED
    BY <2>1, <2>2, <2>4, <2>6, <2>7 DEF n
<1> QED
  BY <1>1, <1>2

\* A memory without its view has nothing pending, and its store is of the file.
LEMMA StoreFromDiskKeeps ==
    ASSUME TypeOK, RowsWritten, NEW s, Sound(s), s.cache = NotLoaded, ~s.timer
    PROVE  LET n == StoreFromDisk(s) IN
           /\ n \in Servers /\ n.store # NotLoaded
           /\ n.disk = s.disk /\ n.cache = s.cache /\ n.timer = s.timer
           /\ n.saved = s.saved /\ n.kept = s.kept
           /\ n.promised = NoRow /\ s.promised = NoRow /\ n.pending = NoRow
           /\ n.over = NoBodies /\ n.displaced = s.displaced
           /\ Agrees(s) /\ s.disk.view.active => n.store = s.saved
<1>1. /\ s \in Servers /\ s.disk.view \in Views /\ s.disk.body \in Bodies
      /\ Filled(s.disk.body) \in Bodies /\ s.pending = NoRow /\ s.promised = NoRow
      /\ s.kept = s.saved /\ s.kept \in Bodies
  BY ViewTypes, RowTypes DEF Sound, Servers
<1>2. ~StillPending(s, s.disk.view)
  BY <1>1 DEF StillPending
<1> DEFINE n == InitStore(s, s.disk.view, Filled(s.disk.body))
<1>3. /\ n \in Servers
      /\ n.disk = s.disk /\ n.cache = s.cache /\ n.timer = s.timer
      /\ n.saved = s.saved /\ n.kept = s.kept /\ n.promised = s.promised
      /\ n.displaced = s.displaced
      /\ n.store = IF s.disk.view.active THEN Filled(s.disk.body) ELSE NoBodies
      /\ n.store \in Bodies /\ n.pending = NoRow /\ n.over = NoBodies
  BY <1>1, <1>2, InitStoreFields
<1> HIDE DEF n
<1>4. Agrees(s) /\ s.disk.view.active => Filled(s.disk.body) = s.saved
  BY <1>1, FullIsFilled DEF Agrees, Holds
<1> QED
  BY <1>1, <1>3, <1>4, NoBodiesTypes DEF StoreFromDisk, n

\* A loaded view is the one that was there.
LEMMA LoadedKeeps ==
    ASSUME TypeOK, RowsWritten, NEW s, Sound(s)
    PROVE  LET n == Loaded(s) IN
           /\ Sound(n) /\ n.cache = View(s) /\ n.cache \in Views /\ n.store # NotLoaded
           /\ n.saved = s.saved /\ n.kept \in {s.kept, s.saved} /\ n.promised = s.promised
           /\ n.displaced = s.displaced
           /\ n.disk.view \in {s.disk.view, View(s)}
           /\ n.over \in {s.over, NoBodies}
           /\ ~s.timer => ~n.timer
           /\ s.cache # NotLoaded => n = s
           /\ Agrees(s) => Agrees(n)
<1>0. s \in Servers /\ View(s) \in Views /\ View(s) # NotLoaded
  BY ViewTypes DEF Sound
<1>1. CASE s.cache # NotLoaded
  BY <1>0, <1>1 DEF Loaded, View, Sound
<1>2. CASE s.cache = NotLoaded
  <2> DEFINE f == Flushed(s)
             d == StoreFromDisk(f)
             n == [d EXCEPT !.cache = f.disk.view]
  <2>1. /\ Sound(f) /\ ~f.timer /\ f.cache = s.cache /\ f.disk.view = View(s)
        /\ f.saved = s.saved /\ f.kept = s.saved /\ f.promised = s.promised
        /\ f.displaced = s.displaced
        /\ Agrees(s) => Agrees(f)
    BY FlushedKeeps
  <2> HIDE DEF f
  <2>2. /\ d \in Servers /\ d.store # NotLoaded
        /\ d.disk = f.disk /\ d.cache = f.cache /\ d.timer = f.timer
        /\ d.saved = f.saved /\ d.kept = f.kept
        /\ d.promised = NoRow /\ f.promised = NoRow /\ d.pending = NoRow
        /\ d.over = NoBodies /\ d.displaced = f.displaced
        /\ Agrees(f) /\ f.disk.view.active => d.store = f.saved
    BY <1>2, <2>1, StoreFromDiskKeeps
  <2> HIDE DEF d
  <2>3. /\ n \in Servers /\ n.cache = View(s) /\ n.disk = f.disk /\ n.store = d.store
        /\ n.timer = f.timer /\ n.saved = f.saved /\ n.kept = f.kept
        /\ n.promised = NoRow /\ n.pending = NoRow /\ n.over = NoBodies
        /\ n.displaced = f.displaced
    BY <1>0, <2>1, <2>2 DEF Servers
  <2>4. Loaded(s) = n
    BY <1>2 DEF Loaded, f, d
  <2> HIDE DEF n
  <2>5. View(n) = View(s) /\ View(f) = View(s)
    BY <1>0, <1>2, <2>1, <2>3 DEF View
  <2>6. Sound(n)
    BY <1>0, <2>1, <2>2, <2>3 DEF Sound
  <2>7. ASSUME Agrees(s) PROVE Agrees(n)
    <3>1. Agrees(f) /\ f.saved \in Bodies
      BY <2>1, <2>7 DEF Sound, Servers
    <3>2. View(n).active => n.store = n.saved /\ Filled(n.store) = n.saved
      BY <2>1, <2>2, <2>3, <2>5, <3>1, FullIsFilled DEF Agrees
    <3> QED
      BY <2>3, <2>5, <3>1, <3>2 DEF Agrees
  <2> QED
    BY <1>0, <1>2, <2>1, <2>2, <2>3, <2>4, <2>6, <2>7
<1> QED
  BY <1>1, <1>2

\* A database that was written and loaded is the one that was there.
LEMMA OpenedKeeps ==
    ASSUME TypeOK, RowsWritten, NEW s, Sound(s)
    PROVE  LET n == Opened(s) IN
           /\ Sound(n) /\ n.cache = View(s) /\ n.cache \in Views /\ n.store # NotLoaded
           /\ ~n.timer /\ n.disk.view = View(s)
           /\ n.saved = s.saved /\ n.kept = s.saved /\ n.promised = s.promised
           /\ n.over \in {s.over, NoBodies} /\ n.displaced = s.displaced
           /\ Agrees(s) => Agrees(n)
<1> DEFINE f == Flushed(s)
<1>1. /\ Sound(f) /\ ~f.timer /\ f.cache = s.cache /\ f.disk.view = View(s)
      /\ f.saved = s.saved /\ f.kept = s.saved /\ f.promised = s.promised
      /\ f.over \in {s.over, NoBodies} /\ f.displaced = s.displaced
      /\ Agrees(s) => Agrees(f)
  BY FlushedKeeps
<1> HIDE DEF f
<1>2. View(f) = View(s)
  BY <1>1 DEF View
<1> DEFINE n == Loaded(f)
<1>3. /\ Sound(n) /\ n.cache = View(f) /\ n.cache \in Views /\ n.store # NotLoaded
      /\ n.saved = f.saved /\ n.kept \in {f.kept, f.saved} /\ n.promised = f.promised
      /\ n.disk.view \in {f.disk.view, View(f)}
      /\ n.over \in {f.over, NoBodies} /\ ~n.timer /\ n.displaced = f.displaced
      /\ Agrees(f) => Agrees(n)
  BY <1>1, LoadedKeeps
<1> HIDE DEF n
<1> QED
  BY <1>1, <1>2, <1>3 DEF Opened, f, n

\* A store that was not loaded is read from the file.
LEMMA WithStoreKeeps ==
    ASSUME TypeOK, RowsWritten, NEW s, Sound(s)
    PROVE  LET n == WithStore(s) IN
           /\ Sound(n) /\ n.store \in Bodies /\ n.disk = s.disk /\ n.cache = s.cache
           /\ n.timer = s.timer /\ n.saved = s.saved /\ n.kept = s.kept
           /\ n.promised = s.promised /\ n.displaced = s.displaced
           /\ Agrees(s) => Agrees(n)
<1>1. CASE s.store # NotLoaded
  BY <1>1 DEF WithStore, Sound, Servers
<1>2. CASE s.store = NotLoaded
  <2> DEFINE n == StoreFromDisk(s)
  <2>1. s.cache = NotLoaded /\ ~s.timer
    BY <1>2 DEF Sound
  <2>2. /\ n \in Servers /\ n.store # NotLoaded
        /\ n.disk = s.disk /\ n.cache = s.cache /\ n.timer = s.timer
        /\ n.saved = s.saved /\ n.kept = s.kept
        /\ n.promised = NoRow /\ s.promised = NoRow /\ n.pending = NoRow
        /\ n.over = NoBodies /\ n.displaced = s.displaced
        /\ Agrees(s) /\ s.disk.view.active => n.store = s.saved
    BY <2>1, StoreFromDiskKeeps
  <2> HIDE DEF n
  <2>3. View(n) = View(s) /\ View(s) = s.disk.view
    BY <2>1, <2>2 DEF View
  <2>4. n.store \in Bodies
    BY <2>2 DEF Servers
  <2>5. Sound(n)
    BY <2>1, <2>2 DEF Sound
  <2>6. ASSUME Agrees(s) PROVE Agrees(n)
    <3>1. View(n).active => n.store = n.saved /\ Filled(n.store) = n.saved
      BY <2>2, <2>3, <2>4, <2>6, FullIsFilled DEF Agrees
    <3> QED
      BY <2>2, <2>3, <2>6, <3>1 DEF Agrees
  <2> QED
    BY <1>2, <2>2, <2>4, <2>5, <2>6 DEF WithStore, n
<1> QED
  BY <1>1, <1>2

\* What is posted is in the store, and acknowledged if the character is listed.
Posted(s, k, b) ==
    [s EXCEPT !.store[k] = b, !.timer = TRUE,
              !.saved[k] = IF View(s).active THEN b ELSE @,
              !.over[k] = IF View(s).active THEN @ ELSE b]

\* A post keeps what is acknowledged in the store.
LEMMA PostedKeeps ==
    ASSUME TypeOK, NEW s, Sound(s), s.store \in Bodies, NEW k \in Chats, NEW b \in Edits
    PROVE  LET n == Posted(s, k, b) IN
           /\ Sound(n) /\ n.disk = s.disk /\ n.cache = s.cache /\ n.kept = s.kept
           /\ n.displaced = s.displaced
           /\ Agrees(s) /\ NotBoth(View(s)) => Agrees(n)
<1> DEFINE store == [s.store EXCEPT ![k] = b]
           saved == IF View(s).active THEN [s.saved EXCEPT ![k] = b] ELSE s.saved
           over == IF View(s).active THEN s.over ELSE [s.over EXCEPT ![k] = b]
           n == Posted(s, k, b)
<1>1. s \in Servers /\ s.saved \in Bodies /\ s.over \in Bodies /\ b # None
  BY ArchiveAssumption DEF Sound, Servers, Edits, None
<1>2. store \in Bodies /\ saved \in Bodies /\ over \in Bodies
  BY <1>1 DEF Bodies
<1>3. /\ n \in Servers /\ n.store = store /\ n.timer /\ n.saved = saved /\ n.over = over
      /\ n.disk = s.disk /\ n.cache = s.cache /\ n.kept = s.kept
      /\ n.pending = s.pending /\ n.promised = s.promised /\ n.displaced = s.displaced
  <2>1. n = [s EXCEPT !.store = store, !.timer = TRUE, !.saved = saved, !.over = over]
    BY <1>1 DEF Posted, Servers, Bodies
  <2> HIDE DEF n, store, saved, over
  <2> QED
    BY <1>1, <1>2, <2>1 DEF Servers
<1> HIDE DEF n
<1>4. View(n) = View(s)
  BY <1>3 DEF View
<1>5. store # NoBodies /\ store # NotLoaded
  <2>1. store[k] # NoBodies[k]
    BY <1>1 DEF NoBodies, Bodies
  <2> QED
    BY <1>2, <2>1, NoBodiesTypes
<1>6. Sound(n)
  BY <1>3, <1>5 DEF Sound
<1>7. ASSUME Agrees(s), NotBoth(View(s)) PROVE Agrees(n)
  <2>1. Full(saved)
    BY <1>1, <1>7 DEF Agrees, Full, Bodies
  <2>2. ASSUME View(s).active
        PROVE  Filled(store) = saved /\ View(s).stub = NoRow /\ (s.cache = NotLoaded => store = saved)
    <3>1. View(s).stub = NoRow
      BY <1>7, <2>2 DEF NotBoth
    <3>2. s.store # NotLoaded
      BY NoBodiesTypes
    <3>3. Filled(s.store) = s.saved /\ (s.cache = NotLoaded => s.store = s.saved)
      BY <1>7, <2>2, <3>2 DEF Agrees
    <3>4. ASSUME NEW j \in Chats PROVE Filled(store)[j] = saved[j]
      <4>1. Filled(s.store)[j] = s.saved[j]
        BY <3>3
      <4> QED
        BY <1>1, <2>2, <4>1 DEF Filled, Over, Bodies
    <3>5. Filled(store) = saved
      BY <1>2, <3>4 DEF Filled, Over, Bodies
    <3> QED
      BY <2>2, <3>1, <3>3, <3>5
  <2>3. ASSUME s.promised # NoRow PROVE store = Over(over, saved)
    <3>1. ~View(s).active
      BY <2>3 DEF Sound, View
    <3>2. s.store = Over(s.over, s.saved)
      BY <1>7, <2>3 DEF Agrees
    <3>3. ASSUME NEW j \in Chats PROVE store[j] = Over(over, saved)[j]
      <4>1. s.store[j] = Over(s.over, s.saved)[j]
        BY <3>2
      <4> QED
        BY <1>1, <3>1, <4>1 DEF Over, Bodies
    <3> QED
      BY <1>2, <3>3 DEF Over, Bodies
  <2>4. View(s).stub # NoRow => rows[View(s).stub] = saved
    BY <1>7, <2>2 DEF Agrees
  <2> QED
    BY <1>3, <1>4, <1>7, <2>1, <2>2, <2>3, <2>4 DEF Agrees
<1> QED
  BY <1>3, <1>6, <1>7 DEF n

\* An activation that displaces nothing registers what its stub's row holds.
LEMMA RegisterKeeps ==
    ASSUME TypeOK, NEW s, Sound(s), s.cache # NotLoaded, ~s.cache.active, ~s.timer,
           NEW t \in Rows
    PROVE  LET n == Register(s, t) IN
           /\ Sound(n) /\ n.disk = s.disk /\ n.cache = s.cache /\ n.timer = s.timer
           /\ n.saved = s.saved /\ n.kept = s.kept
           /\ s.displaced \subseteq n.displaced
           /\ Agrees(s) /\ n.displaced = {} => Agrees(n)
<1> DEFINE n == Register(s, t)
           posts == IF s.over = NoBodies THEN {} ELSE {"posts"}
           row == IF s.promised \in {NoRow, t} THEN {} ELSE {"row"}
<1>1. s \in Servers /\ s.saved \in Bodies /\ t \in Times /\ t # NoRow
      /\ rows[t] \in Bodies /\ rows[t] # NoBodies
  BY DEF Sound, Servers, Rows, TypeOK, Times, NoRow
<1>2. /\ n \in Servers /\ n.store = rows[t] /\ n.pending = t /\ n.over = s.over
      /\ n.promised = IF t = s.cache.stub THEN t ELSE s.promised
      /\ n.displaced = s.displaced \cup posts \cup row
      /\ n.disk = s.disk /\ n.cache = s.cache /\ n.timer = s.timer
      /\ n.saved = s.saved /\ n.kept = s.kept
  <2>1. s.displaced \cup posts \cup row \in SUBSET {"posts", "row"}
    BY <1>1 DEF Servers
  <2>2. n = [s EXCEPT !.store = rows[t], !.pending = t,
                      !.promised = IF t = s.cache.stub THEN t ELSE s.promised,
                      !.displaced = s.displaced \cup posts \cup row]
    BY DEF Register
  <2> HIDE DEF n, posts, row
  <2> QED
    BY <1>1, <2>1, <2>2 DEF Servers
<1> HIDE DEF n
<1>3. View(n) = View(s) /\ ~View(s).active
  BY <1>2 DEF View
<1>4. "row" \notin n.displaced => s.promised \in {NoRow, t}
  BY <1>2
<1>5. Sound(n)
  BY <1>1, <1>2, <1>4, NoBodiesTypes DEF Sound
<1>6. ASSUME Agrees(s), n.displaced = {}, n.promised # NoRow PROVE n.store = Over(n.over, n.saved)
  <2>1. s.over = NoBodies /\ s.promised \in {NoRow, t}
    BY <1>2, <1>6
  <2>2. t = s.cache.stub
    BY <1>2, <1>6, <2>1 DEF Sound
  <2>3. rows[t] = s.saved
    BY <1>1, <1>6, <2>2 DEF Agrees, View
  <2>4. Over(NoBodies, s.saved) = s.saved
    BY <1>1 DEF Over, NoBodies, Bodies
  <2> QED
    BY <1>2, <2>1, <2>3, <2>4
<1> QED
  BY <1>2, <1>3, <1>5, <1>6 DEF Agrees, n

\* A database that was just read holds what its file does.
LEMMA FromDiskKeeps ==
    ASSUME TypeOK, NEW s \in Servers
    PROVE  LET n == FromDisk(s) IN
           /\ Sound(n) /\ n.disk = s.disk /\ n.saved = s.kept /\ n.kept = s.kept
           /\ View(n) = s.disk.view /\ n.displaced = s.displaced
           /\ s.displaced = {} /\ Full(s.kept) /\ Holds(s.disk.view, s.disk.body, s.kept)
              => Agrees(n)
<1> DEFINE n == FromDisk(s)
<1>1. /\ n \in Servers /\ n.cache = NotLoaded /\ n.store = NotLoaded /\ n.pending = NoRow
      /\ ~n.timer /\ n.saved = s.kept /\ n.kept = s.kept /\ n.promised = NoRow
      /\ n.disk = s.disk /\ n.displaced = s.displaced
  BY NoBodiesTypes DEF FromDisk, Servers
<1> HIDE DEF n
<1>2. View(n) = s.disk.view
  BY <1>1 DEF View
<1> QED
  BY <1>1, <1>2 DEF Sound, Agrees, Holds, n

\* The row of a stub that a save puts, if it puts one, was written before, and
\* holds what was saved unless edits were saved since.
Ready(t) == t \in Rows /\ (t \in overtaken \/ (rows[t] = srv.saved /\ rows[t] = srv.kept))

\* A revision that lands with its guard passed finds what was saved: a
\* character back on the list in the store and the rows, a new stub in its row.
LEMMA LandKeeps ==
    ASSUME TypeOK, RowsWritten, NEW s, Sound(s), s.cache # NotLoaded, s.store # NotLoaded,
           NEW to \in Views, NotBoth(to)
    PROVE  LET n == Land(s, to) IN
           /\ Sound(n) /\ n.disk = s.disk /\ n.cache = to /\ n.store = s.store
           /\ n.kept = s.kept /\ n.displaced = s.displaced
           /\ \/ n.saved = s.saved /\ n.over = s.over
              \/ to.active /\ ~s.cache.active
              \/ to.stub \notin {NoRow, s.cache.stub} /\ to.stub \in overtaken
           /\ /\ Agrees(s) /\ Listed(s.cache) /\ ~ArchiveConflict(s, to)
              /\ to.stub \notin {NoRow, s.cache.stub} =>
                   /\ to.stub \in Rows
                   /\ to.stub \in overtaken \/ rows[to.stub] = s.saved
              => Agrees(n)
<1> DEFINE n == Land(s, to)
           returns == to.active /\ ~s.cache.active
           leaves == to.stub # NoRow /\ to.stub # s.cache.stub
           newest == Rows = {} \/ s.cache.stub = Max(Rows)
           own == \/ s.promised = s.cache.stub
                  \/ s.pending = NoRow /\ s.store = s.over /\ newest
           saved == IF returns THEN IF own THEN Over(s.over, s.saved) ELSE Filled(s.store)
                    ELSE IF leaves /\ to.stub \in overtaken THEN rows[to.stub] ELSE s.saved
           over == IF returns THEN NoBodies ELSE s.over
           promised == IF to.stub = s.cache.stub THEN s.promised ELSE NoRow
<1>1. /\ s \in Servers /\ s.store \in Bodies /\ s.over \in Bodies /\ s.saved \in Bodies
      /\ s.cache \in Views /\ to.stub \in Times \cup {NoRow}
      /\ s.promised \in Times \cup {NoRow}
  BY DEF Sound, Servers, Views
<1>2. Over(s.over, s.saved) \in Bodies /\ Filled(s.store) \in Bodies
  BY <1>1, RowTypes DEF Over, Bodies
<1>3. saved \in Bodies /\ over \in Bodies /\ promised \in Times \cup {NoRow}
  BY <1>1, <1>2, NoBodiesTypes DEF TypeOK
<1>4. n = [s EXCEPT !.cache = to, !.timer = TRUE, !.saved = saved, !.over = over,
                    !.promised = promised]
  BY DEF Land
<1> HIDE DEF n, saved, over, promised
<1>5. /\ n \in Servers /\ n.cache = to /\ n.timer /\ n.saved = saved /\ n.over = over
      /\ n.promised = promised /\ n.displaced = s.displaced
      /\ n.disk = s.disk /\ n.store = s.store /\ n.pending = s.pending /\ n.kept = s.kept
  BY <1>1, <1>3, <1>4 DEF Servers
<1>6. to # NotLoaded /\ View(s) = s.cache /\ View(n) = to
  BY <1>5, NoBodiesTypes DEF View
<1>7. promised # NoRow => promised = s.promised /\ to.stub = s.cache.stub /\ to.stub = promised
                          /\ ~to.active
  BY DEF promised, Sound, NotBoth
<1>8. Sound(n)
  BY <1>5, <1>6, <1>7 DEF Sound
<1>9. ASSUME Agrees(s), Listed(s.cache), ~ArchiveConflict(s, to),
             leaves => to.stub \in Rows /\ (to.stub \in overtaken \/ rows[to.stub] = s.saved)
      PROVE  Agrees(n)
  <2>1. Full(s.saved)
    BY <1>9 DEF Agrees
  <2>2. ASSUME returns
        PROVE  Full(saved) /\ Filled(s.store) = saved
    <3>1. s.cache.stub \in Times /\ rows[s.cache.stub] = s.saved
      BY <1>1, <1>6, <1>9, <2>2 DEF Listed, Agrees, Views
    <3>2. s.cache.stub \in Rows
      <4>1. PICK k \in Chats : TRUE
        BY ArchiveAssumption
      <4>2. s.saved[k] # NoBodies[k]
        BY <2>1 DEF Full, NoBodies
      <4> QED
        BY <3>1, <4>2 DEF Rows
    <3>3. Filled(s.store) = Over(s.store, rows[Max(Rows)]) /\ Full(Filled(s.store))
      BY <1>1, <3>2, FilledFromNewest
    <3>4. CASE s.promised = s.cache.stub
      <4>1. s.store = Over(s.over, s.saved)
        BY <1>9, <3>1, <3>4 DEF Agrees, Times, NoRow
      <4>2. Full(s.store)
        BY <1>1, <2>1, <4>1 DEF Full, Over, Bodies
      <4> QED
        BY <1>1, <2>2, <3>4, <4>1, <4>2, FullIsFilled DEF saved
    <3>5. CASE s.promised # s.cache.stub /\ s.pending = NoRow /\ s.store = s.over /\ newest
      BY <2>2, <3>1, <3>2, <3>3, <3>5 DEF saved
    <3>6. CASE ~own
      BY <2>2, <3>3, <3>6 DEF saved
    <3> QED
      BY <3>4, <3>5, <3>6
  <2>3. Full(saved)
    BY <1>9, <2>1, <2>2 DEF saved, RowsWritten
  <2>4. ASSUME to.stub # NoRow PROVE rows[to.stub] = saved
    BY <1>6, <1>9, <2>4 DEF saved, NotBoth, Agrees
  <2>5. ASSUME to.active PROVE Filled(s.store) = saved
    <3>1. CASE returns
      BY <2>2, <3>1
    <3>2. CASE ~returns
      BY <1>6, <1>9, <2>5, <3>2 DEF saved, NotBoth, Agrees
    <3> QED
      BY <3>1, <3>2
  <2>6. ASSUME promised # NoRow PROVE s.store = Over(over, saved)
    BY <1>7, <1>9, <2>6 DEF over, saved, Agrees
  <2> QED
    BY <1>5, <1>6, <1>9, <2>3, <2>4, <2>5, <2>6 DEF Agrees
<1> QED
  BY <1>5, <1>8, <1>9 DEF n, saved, over

---------------------------------------------------------------------------
(* What the server's requests do to its memory *)

\* A memory that shows the same view and keeps what was saved, unless an
\* activation displaced it.
Same(n) ==
    /\ Sound(n)
    /\ View(n) = View(srv) /\ n.disk.view \in {srv.disk.view, View(srv)}
    /\ n.saved = srv.saved /\ n.kept \in {srv.kept, srv.saved}
    /\ srv.displaced \subseteq n.displaced
    /\ Agrees(srv) /\ n.displaced = {} => Agrees(n)

\* What a request begins with, and an activation, changes nothing that was saved.
LEMMA OpenedSame ==
    ASSUME TypeOK, RowsWritten, Sound(srv)
    PROVE  LET s == Opened(srv) IN
           /\ Same(s) /\ s.cache = View(srv) /\ s.cache # NotLoaded /\ s.store \in Bodies
           /\ ~s.timer /\ s.disk.view = View(srv) /\ s.kept = srv.saved
           /\ \A t \in Times \cup {NoRow} : Same(AfterActivate(s, t))
<1> DEFINE s == Opened(srv)
<1>1. /\ Sound(s) /\ s.cache = View(srv) /\ s.cache \in Views /\ s.store # NotLoaded
      /\ ~s.timer /\ s.disk.view = View(srv)
      /\ s.saved = srv.saved /\ s.kept = srv.saved /\ s.promised = srv.promised
      /\ s.displaced = srv.displaced
      /\ Agrees(srv) => Agrees(s)
  BY OpenedKeeps
<1> HIDE DEF s
<1>2. s.cache # NotLoaded /\ s.store \in Bodies /\ View(s) = s.cache
  BY <1>1, NoBodiesTypes DEF Sound, Servers, View
<1>3. Same(s)
  BY <1>1, <1>2 DEF Same
<1>4. ASSUME NEW t \in Times \cup {NoRow} PROVE Same(AfterActivate(s, t))
  <2>1. CASE ActivateAnswer(s, t) = "done"
    <3> DEFINE n == Register(s, t)
    <3>1. ~s.cache.active /\ t \in Rows
      BY <2>1 DEF ActivateAnswer
    <3>2. /\ Sound(n) /\ n.disk = s.disk /\ n.cache = s.cache /\ n.timer = s.timer
          /\ n.saved = s.saved /\ n.kept = s.kept
          /\ s.displaced \subseteq n.displaced
          /\ Agrees(s) /\ n.displaced = {} => Agrees(n)
      BY <1>1, <1>2, <3>1, RegisterKeeps
    <3> HIDE DEF n
    <3>3. View(n) = View(s)
      BY <3>2 DEF View
    <3>4. Same(n)
      BY <1>1, <1>2, <3>2, <3>3 DEF Same
    <3> QED
      BY <2>1, <3>4 DEF AfterActivate, n
  <2>2. CASE ActivateAnswer(s, t) # "done"
    BY <1>3, <2>2 DEF AfterActivate
  <2> QED
    BY <2>1, <2>2
<1> QED
  BY <1>1, <1>2, <1>3, <1>4 DEF s

\* Neither does a write of the file.
LEMMA FlushedSame ==
    ASSUME TypeOK, RowsWritten, Sound(srv)
    PROVE  Same(Flushed(srv)) /\ Same(srv)
<1> DEFINE n == Flushed(srv)
<1>1. /\ Sound(n) /\ n.cache = srv.cache /\ n.disk.view = View(srv)
      /\ n.saved = srv.saved /\ n.kept = srv.saved /\ n.displaced = srv.displaced
      /\ Agrees(srv) => Agrees(n)
  BY FlushedKeeps
<1> HIDE DEF n
<1>2. View(n) = View(srv)
  BY <1>1 DEF View
<1>3. Same(n)
  BY <1>1, <1>2 DEF Same
<1> QED
  BY <1>3 DEF Same, n

\* A revision that landed.
Landed(n, req) ==
    /\ Sound(n)
    /\ View(n) = req.to /\ n.disk.view \in {srv.disk.view, View(srv), req.to}
    /\ n.kept \in {srv.kept, srv.saved, n.saved} /\ n.displaced = srv.displaced
    /\ /\ Agrees(srv) /\ Listed(View(srv))
       /\ req.to.stub \notin {NoRow, View(srv).stub} => Ready(req.to.stub)
       => Agrees(n)

\* A save is refused, and changes nothing, or its revision lands.
LEMMA SaveLands ==
    ASSUME TypeOK, RowsWritten, Sound(srv), NEW req, req.to \in Views, NotBoth(req.to),
           NEW whole \in BOOLEAN
    PROVE  LET s == Loaded(srv)
               n == AfterSave(s, req, whole) IN
           /\ s.cache = View(srv) /\ Sound(s)
           /\ s.promised = srv.promised /\ s.displaced = srv.displaced
           /\ Same(n) \/ (SaveAnswer(s, req) = "saved" /\ View(srv) = req.from /\ Landed(n, req))
<1> DEFINE s == Loaded(srv)
           landed == Land(s, req.to)
<1>1. /\ Sound(s) /\ s.cache = View(srv) /\ s.cache \in Views /\ s.store # NotLoaded
      /\ s.saved = srv.saved /\ s.kept \in {srv.kept, srv.saved}
      /\ s.promised = srv.promised /\ s.displaced = srv.displaced
      /\ s.disk.view \in {srv.disk.view, View(srv)}
      /\ Agrees(srv) => Agrees(s)
  BY LoadedKeeps
<1> HIDE DEF s
<1>2. s.cache # NotLoaded /\ View(s) = s.cache
  BY <1>1, NoBodiesTypes DEF View
<1>3. CASE SaveAnswer(s, req) # "saved"
  <2>1. Same(s)
    BY <1>1, <1>2 DEF Same
  <2> QED
    BY <1>1, <1>3, <2>1 DEF AfterSave, s
<1>4. CASE SaveAnswer(s, req) = "saved"
  <2>1. s.cache = req.from /\ ~ArchiveConflict(s, req.to)
    BY <1>4 DEF SaveAnswer
  <2>2. /\ Sound(landed) /\ landed.disk = s.disk /\ landed.cache = req.to
        /\ landed.kept = s.kept /\ landed.displaced = s.displaced
        /\ /\ Agrees(s) /\ Listed(s.cache) /\ ~ArchiveConflict(s, req.to)
           /\ req.to.stub \notin {NoRow, s.cache.stub} =>
                /\ req.to.stub \in Rows
                /\ req.to.stub \in overtaken \/ rows[req.to.stub] = s.saved
           => Agrees(landed)
    BY <1>1, <1>2, LandKeeps
  <2> HIDE DEF landed
  <2>3. View(landed) = req.to
    BY <2>2, NoBodiesTypes DEF View
  <2>4. Landed(landed, req)
    BY <1>1, <2>1, <2>2, <2>3 DEF Landed, Ready
  <2>5. Landed(Flushed(landed), req)
    <3> DEFINE n == Flushed(landed)
    <3>1. /\ Sound(n) /\ n.cache = landed.cache /\ n.disk.view = View(landed)
          /\ n.saved = landed.saved /\ n.kept = landed.saved
          /\ n.displaced = landed.displaced
          /\ Agrees(landed) => Agrees(n)
      BY <2>2, FlushedKeeps
    <3> HIDE DEF n
    <3>2. View(n) = req.to
      BY <2>2, <3>1, NoBodiesTypes DEF View
    <3> QED
      BY <2>3, <2>4, <3>1, <3>2 DEF Landed, n
  <2> QED
    BY <1>1, <1>4, <2>1, <2>4, <2>5 DEF AfterSave, s, landed
<1> QED
  BY <1>3, <1>4

---------------------------------------------------------------------------
(* The inductive invariant: its parts about the page, the requests and rows *)

\* Where a revision may list the character: not twice, in a row that was
\* written, and somewhere as long as it was not deleted.
Fit(v) == v.stub <= used.rows /\ NotBoth(v) /\ (gone \/ Listed(v))

ViewsFit ==
    /\ Fit(View(srv)) /\ Fit(srv.disk.view)
    /\ snap # NotLoaded => Fit(snap.file.view)
    /\ Fit(page.base) /\ Fit(page.etag) /\ Fit(page.local)
    /\ \A r \in strays \cup {save} : r.kind = "save" => Fit(r.to) /\ Fit(r.synced)

\* A deactivation that was answered and is not in the list yet.
NewRow == call.kind = "archive" /\ call.stage = "done"

\* The revisions somebody has, or sent.
Revisions ==
    {Untouched, View(srv), srv.disk.view, page.base, page.etag, page.local}
        \cup {r.to : r \in {q \in strays \cup {save} : q.kind = "save"}}
        \cup {r.synced : r \in {q \in strays \cup {save} : q.kind = "save"}}

\* None of them has a stub for the row of such a deactivation.
NamedOnce ==
    NewRow =>
        /\ call.at \in Times /\ call.at <= used.rows
        /\ \A v \in Revisions : v.stub # call.at

\* A request left behind was sent; a stub that a save in flight does not carry
\* is not yet the base's; a stub the page was told of is the base's, too, and that
\* of a save in flight; a deletion was answered after it was done.
Answers ==
    /\ \A r \in strays : r.stage = "sent"
    /\ save.stage # "idle" /\ page.local.stub \notin {NoRow, save.to.stub}
          => page.local.stub # page.base.stub
    /\ page.local.stub # NoRow /\ page.local.stub = page.etag.stub
          => /\ page.base.stub = page.local.stub
             /\ save.stage # "idle" => save.synced.stub = page.local.stub
    /\ call.kind = "delete" /\ call.stage = "done" => gone

\* A stub for row t may still be put: it is new in the page's list, or in a
\* save that was not served.
Puts(r, t) == r.kind = "save" /\ r.stage = "sent" /\ r.to.stub = t /\ r.from.stub # t
Put(t) ==
    \/ NewRow /\ call.at = t
    \/ page.local.stub = t /\ (page.base.stub # t \/ page.etag.stub # t)
    \/ \E r \in strays \cup {save} : Puts(r, t)

PutHolds == \A t \in Times : Put(t) => Ready(t)

SnapHolds ==
    snap # NotLoaded =>
        /\ Full(snap.saved)
        /\ snap.file.view.active => snap.file.body = snap.saved
        /\ snap.file.view.stub \in Rows => rows[snap.file.view.stub] = snap.saved

Core == TypeOK /\ RowsWritten /\ Sound(srv)
Content == Agrees(srv) /\ PutHolds /\ SnapHolds
Inv == Core /\ ViewsFit /\ NamedOnce /\ Answers /\ (gone \/ srv.displaced # {} \/ Content)

---------------------------------------------------------------------------
(* The actions by what they do to the server *)

PageStep ==
    \/ \E k \in Chats : EditChat(k)
    \/ SendSave \/ FullWrite \/ SaveDone \/ SaveRejected \/ SaveAnswerLost
    \/ SendArchive \/ ArchiveDone
    \/ SendActivate \/ ActivateDone \/ ActivateRefused \/ AskAgain
    \/ \E drop \in BOOLEAN : ActivateMissing(drop)
    \/ SendDelete \/ DeleteDone \/ CallFailed

ServerStep ==
    \/ \E tracked \in BOOLEAN : Rebase(tracked)
    \/ ServeArchive \/ ServeActivate \/ ServeDelete \/ Purge \/ ServeStrayCall
    \/ Persist \/ TakeSnapshot \/ Reload

\* Every step is of one of these kinds.
LEMMA Steps ==
    Next => \/ PageStep \/ ServerStep
            \/ \E k \in Chats, acked \in BOOLEAN : PostChat(k, acked)
            \/ \E whole \in BOOLEAN : ServeSave(whole)
            \/ ServeStraySave \/ RestoreSnapshot \/ Restart
  BY DEF Next, PageStep, ServerStep

\* A step of the page leaves the server alone.
LEMMA PageOnly == PageStep => UNCHANGED <<srv, rows, snap>>
  BY DEF PageStep, EditChat, SendSave, FullWrite, SaveDone, SaveRejected, SaveAnswerLost, SendArchive,
         ArchiveDone, SendActivate, ActivateDone, ActivateRefused, AskAgain, ActivateMissing,
         SendDelete, DeleteDone, CallFailed

\* Requests that carry no revision leave what was saved.
LEMMA ServerSame ==
    ASSUME Core, ServerStep
    PROVE  Same(srv')
<1>1. /\ Same(Opened(srv)) /\ Same(Flushed(srv)) /\ Same(srv)
      /\ \A t \in Times \cup {NoRow} : Same(AfterActivate(Opened(srv), t))
  BY OpenedSame, FlushedSame DEF Core
<1>2. CASE \E tracked \in BOOLEAN : Rebase(tracked)
  BY <1>1, <1>2 DEF Rebase
<1>3. CASE ServeArchive
  BY <1>1, <1>3 DEF ServeArchive
<1>4. CASE ServeActivate
  <2>1. call.at \in Times \cup {NoRow}
    BY DEF Core, TypeOK, Calls
  <2> QED
    BY <1>1, <1>4, <2>1 DEF ServeActivate
<1>5. CASE ServeDelete
  BY <1>1, <1>5 DEF ServeDelete
<1>6. CASE Purge
  BY <1>1, <1>6 DEF Purge
<1>7. CASE ServeStrayCall
  <2>1. PICK r \in strays :
           \/ r.kind # "activate" /\ srv' = Opened(srv)
           \/ r.kind = "activate" /\ srv' = AfterActivate(Opened(srv), r.at)
    BY <1>7 DEF ServeStrayCall
  <2>2. r.kind = "activate" => r.at \in Times \cup {NoRow}
    BY DEF Core, TypeOK, Calls, Saves
  <2> QED
    BY <1>1, <2>1, <2>2
<1>8. CASE Persist
  BY <1>1, <1>8 DEF Persist
<1>9. CASE TakeSnapshot
  BY <1>1, <1>9 DEF TakeSnapshot
<1>10. CASE Reload
  BY <1>1, <1>10 DEF Reload, Boot
<1> QED
  BY <1>2, <1>3, <1>4, <1>5, <1>6, <1>7, <1>8, <1>9, <1>10 DEF ServerStep

\* A post keeps the view and the file.
LEMMA PostStep ==
    ASSUME Core, ViewsFit, NEW k \in Chats, NEW acked \in BOOLEAN, PostChat(k, acked)
    PROVE  /\ Sound(srv') /\ View(srv') = View(srv) /\ srv'.disk = srv.disk
           /\ srv'.kept = srv.kept /\ srv'.displaced = srv.displaced
           /\ Agrees(srv) => Agrees(srv')
<1> DEFINE s == WithStore(srv)
<1>1. /\ Sound(s) /\ s.store \in Bodies /\ s.disk = srv.disk /\ s.cache = srv.cache
      /\ s.kept = srv.kept /\ s.displaced = srv.displaced
      /\ Agrees(srv) => Agrees(s)
  BY WithStoreKeeps DEF Core
<1> HIDE DEF s
<1>2. View(s) = View(srv)
  BY <1>1 DEF View
<1>3. page.dirty[k] \in Edits
  BY DEF PostChat, Core, TypeOK, Bodies
<1>4. srv' = Posted(s, k, page.dirty[k])
  BY <1>2 DEF PostChat, Posted, s
<1> DEFINE n == Posted(s, k, page.dirty[k])
<1>5. /\ Sound(n) /\ n.disk = s.disk /\ n.cache = s.cache /\ n.kept = s.kept
      /\ n.displaced = s.displaced
      /\ Agrees(s) /\ NotBoth(View(s)) => Agrees(n)
  BY <1>1, <1>3, PostedKeeps DEF Core
<1> HIDE DEF n
<1>6. View(n) = View(s)
  BY <1>5 DEF View
<1>7. NotBoth(View(s))
  BY <1>2 DEF ViewsFit, Fit
<1> QED
  BY <1>1, <1>2, <1>4, <1>5, <1>6, <1>7 DEF n

\* A save that is served, of this page or an earlier one.
LEMMA SaveStep ==
    ASSUME Core, ViewsFit, NEW req \in strays \cup {save}, req.kind = "save",
           NEW whole \in BOOLEAN, srv' = AfterSave(Loaded(srv), req, whole)
    PROVE  Same(srv') \/ (View(srv) = req.from /\ Landed(srv', req))
<1>1. req \in Saves /\ req.to \in Views
  BY DEF Core, TypeOK, Saves, Calls
<1>2. NotBoth(req.to)
  BY DEF ViewsFit, Fit
<1> QED
  BY <1>1, <1>2, SaveLands DEF Core

\* A restart goes back to what the file holds.
LEMMA RestartStep ==
    ASSUME Core, Restart
    PROVE  /\ Sound(srv') /\ View(srv') = srv.disk.view /\ srv'.disk = srv.disk
           /\ srv'.saved = srv.kept /\ srv'.kept = srv.kept
           /\ srv'.displaced = srv.displaced
           /\ Agrees(srv) => Agrees(srv')
<1>1. srv \in Servers
  BY DEF Core, Sound
<1>2. LET n == FromDisk(srv) IN
      /\ Sound(n) /\ n.disk = srv.disk /\ n.saved = srv.kept /\ n.kept = srv.kept
      /\ View(n) = srv.disk.view /\ n.displaced = srv.displaced
      /\ srv.displaced = {} /\ Full(srv.kept) /\ Holds(srv.disk.view, srv.disk.body, srv.kept)
         => Agrees(n)
  BY <1>1, FromDiskKeeps DEF Core
<1> QED
  BY <1>2 DEF Restart, Agrees

\* A restore goes back to what the snapshot holds.
LEMMA RestoreStep ==
    ASSUME Core, RestoreSnapshot
    PROVE  /\ Sound(srv') /\ srv'.cache = snap.file.view /\ View(srv') = snap.file.view
           /\ srv'.disk.view = snap.file.view
           /\ srv'.saved = snap.saved /\ srv'.kept = snap.saved
           /\ srv'.displaced = srv.displaced
           /\ snap \in Snapshots /\ snap.file.view \in Views
           /\ srv.displaced = {} /\ Full(snap.saved)
              /\ Holds(snap.file.view, snap.file.body, snap.saved)
              => Agrees(srv')
<1> DEFINE f == Flushed(srv)
           s == [f EXCEPT !.disk = snap.file, !.kept = snap.saved]
           d == FromDisk(s)
<1>1. snap \in Snapshots /\ snap.file \in Files /\ snap.file.view \in Views /\ snap.saved \in Bodies
  BY DEF RestoreSnapshot, Core, TypeOK, Snapshots, Files
<1>2. f \in Servers /\ f.displaced = srv.displaced
  BY FlushedKeeps DEF Core, Sound
<1> HIDE DEF f
<1>3. s \in Servers /\ s.disk = snap.file /\ s.kept = snap.saved /\ s.displaced = srv.displaced
  BY <1>1, <1>2 DEF Servers
<1> HIDE DEF s
<1>4. /\ Sound(d) /\ d.disk = snap.file /\ d.saved = snap.saved /\ d.kept = snap.saved
      /\ View(d) = snap.file.view /\ d.displaced = srv.displaced
      /\ srv.displaced = {} /\ Full(snap.saved)
         /\ Holds(snap.file.view, snap.file.body, snap.saved)
         => Agrees(d)
  BY <1>3, FromDiskKeeps DEF Core
<1> HIDE DEF d
<1> DEFINE n == Loaded(d)
<1>5. /\ Sound(n) /\ n.cache = View(d) /\ n.cache \in Views
      /\ n.saved = d.saved /\ n.kept \in {d.kept, d.saved}
      /\ n.disk.view \in {d.disk.view, View(d)} /\ n.displaced = d.displaced
      /\ Agrees(d) => Agrees(n)
  BY <1>4, LoadedKeeps DEF Core
<1>6. srv' = n
  BY DEF RestoreSnapshot, Boot, n, d, s, f
<1> HIDE DEF n
<1>7. View(n) = n.cache
  BY <1>5, NoBodiesTypes DEF View
<1> QED
  BY <1>1, <1>4, <1>5, <1>6, <1>7

\* Every step leaves the server sound, and what was displaced stays known.
LEMMA SoundStep ==
    ASSUME Core, ViewsFit, Next
    PROVE  Sound(srv') /\ srv.displaced \subseteq srv'.displaced
<1>1. CASE PageStep
  BY <1>1, PageOnly DEF Core
<1>2. CASE ServerStep
  BY <1>2, ServerSame DEF Same
<1>3. CASE \E k \in Chats, acked \in BOOLEAN : PostChat(k, acked)
  BY <1>3, PostStep
<1>4. CASE \E whole \in BOOLEAN : ServeSave(whole)
  <2>1. PICK whole \in BOOLEAN : ServeSave(whole)
    BY <1>4
  <2>2. srv' = AfterSave(Loaded(srv), save, whole) /\ save.kind = "save"
    BY <2>1 DEF ServeSave, Core, TypeOK, Saves
  <2> QED
    BY <2>2, SaveStep DEF Same, Landed
<1>5. CASE ServeStraySave
  <2>1. PICK r \in strays : r.kind = "save" /\ srv' = AfterSave(Loaded(srv), r, FALSE)
    BY <1>5 DEF ServeStraySave
  <2> QED
    BY <2>1, SaveStep DEF Same, Landed
<1>6. CASE RestoreSnapshot
  BY <1>6, RestoreStep
<1>7. CASE Restart
  BY <1>7, RestartStep
<1> QED
  BY <1>1, <1>2, <1>3, <1>4, <1>5, <1>6, <1>7, Steps

---------------------------------------------------------------------------
(* Types and rows *)

UsedTypes == [edits: Edits, rows: 0..MaxRows, restarts: 0..MaxRestarts, reloads: 0..MaxReloads,
              snaps: 0..MaxSnapshots, restores: 0..MaxSnapshots]

\* The bounds are numbers.
LEMMA Bounds ==
    {MaxEdits, MaxRows, MaxRestarts, MaxReloads, MaxSnapshots} \subseteq Nat
  BY ArchiveAssumption

\* A row is written whole and once, and removed by a deletion or a purge.
RowWritten == LET s == Opened(srv) IN CanArchive(s) /\ WriteRow(s) /\ srv' = s /\ gone' = gone
RowsDeleted == rows' = [t \in Times |-> NoBodies] /\ used' = used /\ gone'

\* The rows change in three ways only.
LEMMA RowsStep ==
    ASSUME TypeOK, Next
    PROVE  /\ used' \in UsedTypes
           /\ \/ rows' = rows /\ used'.rows = used.rows
              \/ RowWritten \/ RowsDeleted \/ Purge
<1> USE Bounds DEF UsedTypes
<1>0. used \in UsedTypes
  BY DEF TypeOK
<1>1. CASE \E k \in Chats : EditChat(k)
  BY <1>0, <1>1 DEF EditChat, Edits
<1>2. CASE \/ SendSave \/ FullWrite \/ SaveDone \/ SaveRejected \/ SendArchive \/ ArchiveDone
           \/ SendActivate \/ ActivateDone \/ ActivateRefused \/ AskAgain
           \/ \E drop \in BOOLEAN : ActivateMissing(drop)
           \/ SendDelete \/ DeleteDone \/ CallFailed
  BY <1>0, <1>2 DEF SendSave, FullWrite, SaveDone, SaveRejected, SendArchive, ArchiveDone, SendActivate,
     ActivateDone, ActivateRefused, AskAgain, ActivateMissing, SendDelete, DeleteDone, CallFailed
<1>3. CASE SaveAnswerLost
  BY <1>0, <1>3 DEF SaveAnswerLost
<1>4. CASE \/ \E k \in Chats, acked \in BOOLEAN : PostChat(k, acked)
           \/ \E tracked \in BOOLEAN : Rebase(tracked)
           \/ \E whole \in BOOLEAN : ServeSave(whole)
           \/ ServeActivate \/ ServeStraySave \/ Persist
  BY <1>0, <1>4 DEF PostChat, Rebase, ServeSave, ServeActivate, ServeStraySave, Persist
<1>5. CASE ServeArchive
  <2>1. CASE CanArchive(Opened(srv))
    BY <1>0, <1>5, <2>1 DEF ServeArchive, WriteRow, RowWritten
  <2>2. CASE ~CanArchive(Opened(srv))
    BY <1>0, <1>5, <2>2 DEF ServeArchive
  <2> QED
    BY <2>1, <2>2
<1>6. CASE ServeDelete
  BY <1>0, <1>6 DEF ServeDelete, DeleteRows, RowsDeleted
<1>7. CASE Purge
  BY <1>0, <1>7 DEF Purge
<1>8. CASE ServeStrayCall
  <2>1. PICK r \in strays :
           \/ /\ r.kind = "archive"
              /\ IF CanArchive(Opened(srv)) THEN WriteRow(Opened(srv)) ELSE UNCHANGED <<rows, used>>
              /\ srv' = Opened(srv) /\ gone' = gone
           \/ r.kind = "activate" /\ UNCHANGED <<rows, used>>
           \/ r.kind = "delete" /\ DeleteRows(Opened(srv)) /\ used' = used
    BY <1>8 DEF ServeStrayCall
  <2> QED
    BY <1>0, <2>1 DEF DeleteRows, RowsDeleted, RowWritten, WriteRow
<1>9. CASE TakeSnapshot
  BY <1>0, <1>9 DEF TakeSnapshot
<1>10. CASE Reload
  BY <1>0, <1>10 DEF Reload
<1>11. CASE RestoreSnapshot
  BY <1>0, <1>11 DEF RestoreSnapshot
<1>12. CASE Restart
  BY <1>0, <1>12 DEF Restart
<1> QED
  BY <1>1, <1>2, <1>3, <1>4, <1>5, <1>6, <1>7, <1>8, <1>9, <1>10, <1>11, <1>12
  DEF Next

\* Every row holds every chat, before and after a step, under the time it was written.
LEMMA RowsWrittenStep ==
    ASSUME Core, Next
    PROVE  rows' \in [Times -> Bodies] /\ RowsWritten' /\ used.rows <= used'.rows
<1>0. used \in UsedTypes /\ used.rows \in Int /\ rows \in [Times -> Bodies]
  BY Bounds DEF Core, TypeOK, UsedTypes
<1>1. CASE rows' = rows /\ used'.rows = used.rows
  <2>1. Rows' = Rows
    BY <1>1 DEF Rows
  <2> QED
    BY <1>0, <1>1, <2>1 DEF Core, RowsWritten
<1>2. CASE RowWritten
  <2> DEFINE s == Opened(srv)
             b == Filled(s.store)
  <2>1. b \in Bodies /\ Full(b)
    BY <1>2, OpenedSame, RowTypes DEF Core, RowWritten, CanArchive, Full
  <2>2. used.rows + 1 \in Times /\ used'.rows = used.rows + 1
        /\ rows' = [rows EXCEPT ![used.rows + 1] = b]
    BY <1>0, <1>2, Bounds DEF RowWritten, WriteRow, Times, UsedTypes
  <2> HIDE DEF b
  <2>3. rows' \in [Times -> Bodies]
    BY <1>0, <2>1, <2>2
  <2>4. ASSUME NEW t \in Rows' PROVE t <= used'.rows /\ Full(rows'[t])
    <3>1. t \in Times /\ t \in Int /\ rows'[t] # NoBodies
      BY DEF Rows, Times
    <3>2. CASE t = used.rows + 1
      BY <1>0, <2>1, <2>2, <3>2
    <3>3. CASE t # used.rows + 1
      BY <1>0, <2>2, <3>1, <3>3 DEF Core, RowsWritten, Rows
    <3> QED
      BY <3>2, <3>3
  <2> QED
    BY <1>0, <2>2, <2>3, <2>4 DEF RowsWritten, Full
<1>3. CASE RowsDeleted
  BY <1>0, <1>3, NoBodiesTypes DEF RowsDeleted, RowsWritten, Rows
<1>4. CASE Purge
  <2>1. PICK old \in SUBSET Rows : rows' = [t \in Times |-> IF t \in old THEN NoBodies ELSE rows[t]]
    BY <1>4 DEF Purge, Purgeable
  <2>2. rows' \in [Times -> Bodies] /\ used' = used
    BY <1>0, <1>4, <2>1, NoBodiesTypes DEF Purge
  <2>3. ASSUME NEW t \in Rows' PROVE t \in Rows /\ rows'[t] = rows[t]
    BY <2>1 DEF Rows
  <2> QED
    BY <1>0, <2>2, <2>3 DEF Core, RowsWritten, Full
<1> QED
  BY <1>1, <1>2, <1>3, <1>4, RowsStep DEF Core

Pages == [base: Views, etag: Views, local: Views, dirty: Bodies]

\* A merge is a revision.
LEMMA MergedType ==
    ASSUME NEW b \in Views, NEW l \in Views, NEW s \in Views, NEW tracked \in BOOLEAN
    PROVE  Merged(b, l, s, tracked) \in Views
<1>1. Merged(b, l, s, tracked).active \in BOOLEAN
  BY DEF Merged, Views
<1>2. Merged(b, l, s, tracked).stub \in Times \cup {NoRow}
  BY DEF Merged, Views
<1>3. Merged(b, l, s, tracked).touch \in Edits
  BY DEF Merged, Views
<1> QED
  BY <1>1, <1>2, <1>3 DEF Merged, Views

\* The actions that leave the page alone.
PageRests ==
    \/ FullWrite \/ SaveRejected \/ SaveAnswerLost
    \/ SendArchive \/ SendActivate \/ ActivateRefused \/ AskAgain
    \/ SendDelete \/ CallFailed
    \/ \E whole \in BOOLEAN : ServeSave(whole)
    \/ ServeArchive \/ ServeActivate \/ ServeDelete \/ Purge \/ Persist \/ TakeSnapshot
    \/ ServeStraySave \/ ServeStrayCall \/ Restart

LEMMA PageRestsSame == PageRests => page' = page
  BY DEF PageRests, FullWrite, SaveRejected, SaveAnswerLost, SendArchive, SendActivate,
     ActivateRefused, AskAgain, SendDelete, CallFailed, ServeSave, ServeArchive,
     ServeActivate, ServeDelete, Purge, Persist, TakeSnapshot, ServeStraySave,
     ServeStrayCall, Leave, Restart

\* Editing and posting leave its lists alone.
LEMMA EditedPage ==
    ASSUME Core, \/ \E k \in Chats : EditChat(k)
                 \/ \E k \in Chats, acked \in BOOLEAN : PostChat(k, acked)
    PROVE  /\ save' = save /\ page'.base = page.base /\ page'.etag = page.etag
           /\ page'.local.stub = page.local.stub /\ page'.local.active = page.local.active
<1>0. page \in Pages /\ page.local \in Views
  BY DEF Core, TypeOK, Pages
<1>1. CASE \E k \in Chats : EditChat(k)
  <2>1. PICK k \in Chats : EditChat(k)
    BY <1>1
  <2>2. page' = [page EXCEPT !.dirty = [page.dirty EXCEPT ![k] = used.edits + 1],
                             !.local = [page.local EXCEPT !.touch = used.edits + 1]]
        /\ save' = save
    BY <2>1 DEF EditChat
  <2>3. page'.base = page.base /\ page'.etag = page.etag
        /\ page'.local = [page.local EXCEPT !.touch = used.edits + 1]
    BY <1>0, <2>2 DEF Pages
  <2>4. page'.local.stub = page.local.stub /\ page'.local.active = page.local.active
    BY <1>0, <2>3 DEF Views
  <2> QED
    BY <2>2, <2>3, <2>4
<1>2. CASE \E k \in Chats, acked \in BOOLEAN : PostChat(k, acked)
  BY <1>0, <1>2 DEF PostChat, Pages
<1> QED
  BY <1>1, <1>2

\* What a step of the page, or of a request, leaves of the page and what is in flight.
LEMMA PageTypes ==
    ASSUME Core, Next, used' \in UsedTypes
    PROVE  page' \in Pages /\ save' \in Saves /\ call' \in Calls /\ strays' \subseteq Saves \cup Calls
<1> USE DEF Pages
<1>0. /\ page \in Pages /\ save \in Saves /\ call \in Calls /\ strays \subseteq Saves \cup Calls
      /\ page.base \in Views /\ page.etag \in Views /\ page.local \in Views /\ page.dirty \in Bodies
  BY DEF Core, TypeOK
<1>01. NoSave \in Saves /\ NoCall \in Calls
  BY Bounds DEF NoSave, NoCall, Saves, Calls, Untouched, Views, Edits, NoRow
<1>02. ASSUME NEW d \in Bodies, NEW k \in Chats, NEW e \in Edits \cup {None}
       PROVE  [d EXCEPT ![k] = e] \in Bodies
  BY DEF Bodies
<1>03. ASSUME NEW v \in Views
       PROVE  [v EXCEPT !.stub = NoRow] \in Views /\ ToList(v) \in Views
  BY DEF Views, ToList
<1>1. CASE \E k \in Chats : EditChat(k)
  <2>1. PICK k \in Chats : EditChat(k)
    BY <1>1
  <2>2. used.edits + 1 \in Edits
    BY <2>1, Bounds DEF EditChat, UsedTypes, Core, TypeOK, Edits
  <2>3. [page.dirty EXCEPT ![k] = used.edits + 1] \in Bodies
    BY <1>0, <1>02, <2>2
  <2>4. [page.local EXCEPT !.touch = used.edits + 1] \in Views
    BY <1>0, <2>2 DEF Views
  <2>5. page' = [page EXCEPT !.dirty = [page.dirty EXCEPT ![k] = used.edits + 1],
                             !.local = [page.local EXCEPT !.touch = used.edits + 1]]
    BY <2>1 DEF EditChat
  <2> QED
    BY <1>0, <2>1, <2>3, <2>4, <2>5 DEF EditChat
<1>2. CASE \E k \in Chats, acked \in BOOLEAN : PostChat(k, acked)
  <2>1. PICK k \in Chats, acked \in BOOLEAN : PostChat(k, acked)
    BY <1>2
  <2>2. [page.dirty EXCEPT ![k] = None] \in Bodies
    BY <1>0, <1>02
  <2>3. page' = IF acked THEN [page EXCEPT !.dirty = [page.dirty EXCEPT ![k] = None]] ELSE page
    BY <2>1 DEF PostChat
  <2> QED
    BY <1>0, <2>1, <2>2, <2>3 DEF PostChat
<1>3. CASE SendSave \/ FullWrite
  BY <1>0, <1>01, <1>3 DEF SendSave, FullWrite, Saves, NoSave
<1>4. CASE SaveDone
  <2>1. save.to \in Views
    BY <1>0 DEF Saves
  <2> QED
    BY <1>0, <1>01, <1>4, <2>1 DEF SaveDone
<1>5. CASE SaveRejected \/ SaveAnswerLost
  BY <1>0, <1>01, <1>5 DEF SaveRejected, SaveAnswerLost
<1>6. CASE \E tracked \in BOOLEAN : Rebase(tracked)
  <2>1. PICK tracked \in BOOLEAN : Rebase(tracked)
    BY <1>6
  <2>2. Opened(srv).cache \in Views
    BY OpenedKeeps DEF Core
  <2> DEFINE m == Merged(save.synced, page.local, Opened(srv).cache, tracked)
  <2>3. m \in Views
    BY <1>0, <2>2, MergedType DEF Saves
  <2>4. KeptEdits(m) \in Bodies
    BY <1>0, NoBodiesTypes DEF KeptEdits
  <2>5. /\ page' = [base |-> Opened(srv).cache, etag |-> Opened(srv).cache, local |-> m,
                    dirty |-> KeptEdits(m)]
        /\ save' = NoSave /\ call' = call /\ strays' = strays
    BY <2>1 DEF Rebase
  <2> HIDE DEF m
  <2> QED
    BY <1>0, <1>01, <2>2, <2>3, <2>4, <2>5
<1>7. CASE SendArchive
  BY <1>0, <1>01, <1>7 DEF SendArchive, Calls
<1>8. CASE ArchiveDone
  <2>1. ToStub(call.at, call.touch) \in Views
    BY <1>0 DEF ToStub, Views, Calls
  <2> QED
    BY <1>0, <1>01, <1>8, <2>1, NoBodiesTypes DEF ArchiveDone
<1>9. CASE SendActivate
  BY <1>0, <1>01, <1>9 DEF SendActivate, Calls, Views
<1>10. CASE ActivateDone
  <2>1. page' = [page EXCEPT !.local = IF page.local.active THEN [page.local EXCEPT !.stub = NoRow]
                                       ELSE ToList(page.local)]
    BY <1>10 DEF ActivateDone
  <2> QED
    BY <1>0, <1>01, <1>03, <1>10, <2>1 DEF ActivateDone
<1>11. CASE ActivateRefused \/ AskAgain \/ CallFailed
  BY <1>0, <1>01, <1>11 DEF ActivateRefused, AskAgain, CallFailed, Calls
<1>12. CASE \E drop \in BOOLEAN : ActivateMissing(drop)
  <2>1. PICK drop \in BOOLEAN : ActivateMissing(drop)
    BY <1>12
  <2>2. page' = IF drop THEN [page EXCEPT !.local = [page.local EXCEPT !.stub = NoRow]] ELSE page
    BY <2>1 DEF ActivateMissing
  <2> QED
    BY <1>0, <1>01, <1>03, <2>1, <2>2 DEF ActivateMissing
<1>13. CASE SendDelete
  BY <1>0, <1>01, <1>13 DEF SendDelete, Calls
<1>14. CASE DeleteDone
  <2>1. page' = [page EXCEPT !.local = [page.local EXCEPT !.stub = NoRow]]
    BY <1>14 DEF DeleteDone
  <2> QED
    BY <1>0, <1>01, <1>03, <1>14, <2>1 DEF DeleteDone
<1>15. CASE \E whole \in BOOLEAN : ServeSave(whole)
  <2>1. PICK a \in {"conflict", "mismatch", "rejected", "saved"} : save' = [save EXCEPT !.stage = a]
    BY <1>15 DEF ServeSave, Outcome
  <2> QED
    BY <1>0, <1>15, <2>1 DEF ServeSave, Saves
<1>16. CASE ServeArchive
  <2>1. CASE CanArchive(Opened(srv))
    <3>1. used.rows + 1 \in Times
      BY <1>16, <2>1, Bounds DEF ServeArchive, WriteRow, Core, TypeOK, Times
    <3>2. Opened(srv).cache.touch \in Edits
      BY OpenedKeeps DEF Core, Views
    <3> QED
      BY <1>0, <1>16, <2>1, <3>1, <3>2 DEF ServeArchive, Calls
  <2>2. CASE ~CanArchive(Opened(srv))
    BY <1>0, <1>16, <2>2 DEF ServeArchive, Calls
  <2> QED
    BY <2>1, <2>2
<1>17. CASE ServeActivate
  BY <1>0, <1>17 DEF ServeActivate, ActivateAnswer, Calls
<1>18. CASE ServeDelete
  BY <1>0, <1>18 DEF ServeDelete, Calls
<1>19. CASE ServeStrayCall \/ ServeStraySave
  BY <1>0, <1>19 DEF ServeStrayCall, ServeStraySave, Leave
<1>20. CASE Purge \/ Persist \/ TakeSnapshot
  BY <1>0, <1>20 DEF Purge, Persist, TakeSnapshot
<1>21. CASE Reload
  BY <1>0, <1>01, <1>21, OpenedKeeps, NoBodiesTypes DEF Core, Reload, Boot
<1>22. CASE RestoreSnapshot
  <2>1. srv'.cache \in Views
    BY <1>22, RestoreStep
  <2>2. page' = [base |-> srv'.cache, etag |-> srv'.cache, local |-> srv'.cache, dirty |-> NoBodies]
    BY <1>22 DEF RestoreSnapshot, Boot
  <2> QED
    BY <1>0, <1>01, <1>22, <2>1, <2>2, NoBodiesTypes DEF RestoreSnapshot, Boot
<1>23. CASE Restart
  BY <1>0, <1>01, <1>23 DEF Restart
<1> QED
  BY <1>1, <1>2, <1>3, <1>4, <1>5, <1>6, <1>7, <1>8, <1>9, <1>10, <1>11, <1>12, <1>13, <1>14,
     <1>15, <1>16, <1>17, <1>18, <1>19, <1>20, <1>21, <1>22, <1>23 DEF Next

\* Snapshots and ghosts keep their types, and the ghosts only grow.
LEMMA GhostTypes ==
    ASSUME Core, NamedOnce, Next
    PROVE  /\ snap' \in Snapshots \cup {NotLoaded} /\ overtaken' \subseteq Times
           /\ gone' \in BOOLEAN /\ (gone => gone') /\ overtaken \subseteq overtaken'
<1>0. snap \in Snapshots \cup {NotLoaded} /\ overtaken \subseteq Times /\ gone \in BOOLEAN
  BY DEF Core, TypeOK
<1>1. CASE \/ \E k \in Chats : EditChat(k)
           \/ SendSave \/ FullWrite \/ SaveDone \/ SaveRejected \/ SaveAnswerLost
           \/ SendArchive \/ SendActivate \/ ActivateDone \/ ActivateRefused \/ AskAgain
           \/ SendDelete \/ DeleteDone \/ CallFailed
  BY <1>0, <1>1 DEF EditChat, SendSave, FullWrite, SaveDone, SaveRejected, SaveAnswerLost, SendArchive,
     SendActivate, ActivateDone, ActivateRefused, AskAgain, SendDelete, DeleteDone, CallFailed
<1>2. CASE ServeArchive \/ ServeActivate \/ Purge \/ Persist \/ Reload \/ Restart
  BY <1>0, <1>2 DEF ServeArchive, ServeActivate, Purge, Persist, Reload, Restart
<1>3. CASE \/ \E k \in Chats, acked \in BOOLEAN : PostChat(k, acked)
           \/ \E whole \in BOOLEAN : ServeSave(whole)
           \/ ServeStraySave
  BY <1>0, <1>3 DEF PostChat, ServeSave, ServeStraySave, Leave, Overtake
<1>4. CASE \E tracked \in BOOLEAN : Rebase(tracked)
  BY <1>0, <1>4 DEF Rebase, Dropped
<1>5. CASE ArchiveDone
  BY <1>0, <1>5 DEF ArchiveDone, NamedOnce, NewRow
<1>6. CASE \E drop \in BOOLEAN : ActivateMissing(drop)
  BY <1>0, <1>6 DEF ActivateMissing
<1>7. CASE ServeDelete
  BY <1>0, <1>7 DEF ServeDelete, DeleteRows
<1>8. CASE ServeStrayCall
  BY <1>0, <1>8 DEF ServeStrayCall, DeleteRows, Leave
<1>9. CASE TakeSnapshot
  <2>1. srv.disk \in Files /\ srv.kept \in Bodies
    BY DEF Core, Sound, Servers
  <2> QED
    BY <1>0, <1>9, <2>1 DEF TakeSnapshot, Snapshots
<1>10. CASE RestoreSnapshot
  BY <1>0, <1>10 DEF RestoreSnapshot, Overtake
<1> QED
  BY <1>1, <1>2, <1>3, <1>4, <1>5, <1>6, <1>7, <1>8, <1>9, <1>10 DEF Next

\* A step keeps the types, whole rows and a sound server.
LEMMA CoreStep ==
    ASSUME Core, ViewsFit, NamedOnce, Next
    PROVE  Core'
<1>1. Sound(srv') /\ srv' \in Servers
  BY SoundStep DEF Sound
<1>2. rows' \in [Times -> Bodies] /\ RowsWritten'
  BY RowsWrittenStep
<1>3. used' \in UsedTypes
  BY RowsStep DEF Core
<1>4. page' \in Pages /\ save' \in Saves /\ call' \in Calls /\ strays' \subseteq Saves \cup Calls
  BY <1>3, PageTypes
<1>5. TypeOK'
  BY <1>1, <1>2, <1>3, <1>4, GhostTypes DEF TypeOK, UsedTypes, Pages
<1> QED
  BY <1>1, <1>2, <1>5 DEF Core

---------------------------------------------------------------------------
(* Where the revisions of the next state come from *)

\* The revisions somebody has fit.
LEMMA RevisionTypes ==
    ASSUME Core, ViewsFit
    PROVE  /\ Revisions \subseteq Views
           /\ \A v \in Revisions : Fit(v)
           /\ \A r \in strays \cup {save} :
                 r.kind = "save" => r.to \in Revisions /\ r.synced \in Revisions
<1>1. used.rows >= 0
  BY Bounds DEF Core, TypeOK
<1>2. Untouched \in Views /\ Fit(Untouched)
  BY <1>1, Bounds DEF Untouched, Views, Edits, Fit, NotBoth, Listed, NoRow
<1>3. /\ View(srv) \in Views /\ srv.disk.view \in Views
      /\ page.base \in Views /\ page.etag \in Views /\ page.local \in Views
  BY ViewTypes DEF Core, Sound, TypeOK
<1>4. ASSUME NEW r \in strays \cup {save}, r.kind = "save" PROVE r.to \in Views /\ r.synced \in Views
  BY <1>4 DEF Core, TypeOK, Saves, Calls
<1> QED
  BY <1>2, <1>3, <1>4 DEF Revisions, ViewsFit

\* The server takes its revision from a save, its file or a snapshot.
LEMMA ServerOrigin ==
    ASSUME Core, ViewsFit, Next
    PROVE  {View(srv'), srv'.disk.view} \subseteq Revisions \/ RestoreSnapshot
<1>01. View(srv) \in Revisions /\ srv.disk.view \in Revisions
  BY DEF Revisions
<1>02. ASSUME NEW req \in strays \cup {save}, req.kind = "save", NEW whole \in BOOLEAN,
              srv' = AfterSave(Loaded(srv), req, whole)
       PROVE  {View(srv'), srv'.disk.view} \subseteq Revisions
  <2>1. req.to \in Revisions
    BY <1>02, RevisionTypes
  <2>2. Same(srv') \/ Landed(srv', req)
    BY <1>02, SaveStep
  <2> QED
    BY <1>01, <2>1, <2>2 DEF Same, Landed
<1>1. CASE PageStep
  BY <1>01, <1>1, PageOnly
<1>2. CASE ServerStep
  BY <1>01, <1>2, ServerSame DEF Same
<1>3. CASE \E k \in Chats, acked \in BOOLEAN : PostChat(k, acked)
  <2>1. PICK k \in Chats, acked \in BOOLEAN : PostChat(k, acked)
    BY <1>3
  <2>2. View(srv') = View(srv) /\ srv'.disk = srv.disk
    BY <2>1, PostStep
  <2> QED
    BY <1>01, <2>2
<1>4. CASE \E whole \in BOOLEAN : ServeSave(whole)
  <2>1. PICK whole \in BOOLEAN : ServeSave(whole)
    BY <1>4
  <2>2. srv' = AfterSave(Loaded(srv), save, whole) /\ save.kind = "save"
    BY <2>1 DEF ServeSave, Core, TypeOK, Saves
  <2> QED
    BY <1>02, <2>2
<1>5. CASE ServeStraySave
  <2>1. PICK r \in strays : r.kind = "save" /\ srv' = AfterSave(Loaded(srv), r, FALSE)
    BY <1>5 DEF ServeStraySave
  <2> QED
    BY <1>02, <2>1
<1>6. CASE Restart
  <2>1. View(srv') = srv.disk.view /\ srv'.disk = srv.disk
    BY <1>6, RestartStep
  <2> QED
    BY <1>01, <2>1
<1> QED
  BY <1>1, <1>2, <1>3, <1>4, <1>5, <1>6, Steps

\* A save carries a revision the page had, and was made against one.
LEMMA InFlightOrigin ==
    ASSUME Core, ViewsFit, Next
    PROVE  \A r \in strays' \cup {save'} :
              r.kind = "save" => r.to \in Revisions /\ r.synced \in Revisions
<1> DEFINE inFlight == strays \cup {save}
<1>0. /\ \A r \in inFlight : r.kind = "save" => r.to \in Revisions /\ r.synced \in Revisions
      /\ page.local \in Revisions /\ page.base \in Revisions
      /\ NoSave.to \in Revisions /\ NoSave.synced \in Revisions
      /\ save \in Saves /\ save.kind = "save"
  BY RevisionTypes DEF Revisions, NoSave, Core, TypeOK, Saves
<1>1. CASE SendSave \/ FullWrite
  <2>1. strays' = strays /\ save'.to = page.local /\ save'.synced \in {page.base, save.synced}
    BY <1>0, <1>1 DEF SendSave, FullWrite, NoSave, Saves
  <2> QED
    BY <1>0, <2>1
<1>2. CASE \/ \E k \in Chats : EditChat(k)
           \/ SendArchive \/ ArchiveDone \/ SendActivate \/ ActivateDone \/ ActivateRefused \/ AskAgain
           \/ \E drop \in BOOLEAN : ActivateMissing(drop)
           \/ SendDelete \/ DeleteDone \/ CallFailed
           \/ \E k \in Chats, acked \in BOOLEAN : PostChat(k, acked)
           \/ ServeArchive \/ ServeActivate \/ ServeDelete \/ Purge \/ Persist \/ TakeSnapshot
  <2>1. strays' = strays /\ save' = save
    BY <1>2 DEF EditChat, SendArchive, ArchiveDone, SendActivate, ActivateDone, ActivateRefused,
       AskAgain, ActivateMissing, SendDelete, DeleteDone, CallFailed, PostChat,
       ServeArchive, ServeActivate, ServeDelete, Purge, Persist, TakeSnapshot
  <2> QED
    BY <1>0, <2>1
<1>3. CASE ServeStraySave \/ ServeStrayCall
  <2>1. strays' \subseteq strays /\ save' = save
    BY <1>3 DEF ServeStraySave, ServeStrayCall, Leave
  <2> QED
    BY <1>0, <2>1
<1>4. CASE SaveDone \/ SaveRejected \/ \E tracked \in BOOLEAN : Rebase(tracked)
  <2>1. strays' = strays /\ save' = NoSave
    BY <1>4 DEF SaveDone, SaveRejected, Rebase
  <2> QED
    BY <1>0, <2>1
<1>5. CASE SaveAnswerLost
  <2>1. strays' \subseteq inFlight /\ save' = NoSave
    BY <1>5 DEF SaveAnswerLost
  <2> QED
    BY <1>0, <2>1
<1>6. CASE \E whole \in BOOLEAN : ServeSave(whole)
  <2>1. strays' = strays /\ save'.to = save.to /\ save'.synced = save.synced
    BY <1>0, <1>6 DEF ServeSave, Saves
  <2> QED
    BY <1>0, <2>1
<1>7. CASE Reload
  <2>1. strays' \subseteq inFlight \cup {call} /\ save' = NoSave
    BY <1>7 DEF Reload, Boot
  <2>2. call.kind # "save"
    BY DEF Core, TypeOK, Calls
  <2> QED
    BY <1>0, <2>1, <2>2
<1>8. CASE RestoreSnapshot \/ Restart
  <2>1. strays' = {} /\ save' \in {save, NoSave}
    BY <1>8 DEF RestoreSnapshot, Boot, Restart
  <2> QED
    BY <1>0, <2>1
<1> QED
  BY <1>1, <1>2, <1>3, <1>4, <1>5, <1>6, <1>7, <1>8 DEF Next

---------------------------------------------------------------------------
(* No revision lists the character twice, or nowhere *)

FitNext(v) == v.stub <= used'.rows /\ NotBoth(v) /\ (gone' \/ Listed(v))

\* What fits a revision fits it after any step.
LEMMA StillFits ==
    ASSUME Core, NamedOnce, Next
    PROVE  \A v \in Views : Fit(v) => FitNext(v)
<1>1. used.rows \in Int /\ used'.rows \in Int /\ used.rows <= used'.rows /\ (gone => gone')
  BY RowsWrittenStep, RowsStep, GhostTypes, Bounds DEF Core, TypeOK, UsedTypes
<1>2. ASSUME NEW v \in Views PROVE v.stub \in Int
  BY DEF Views, Times, NoRow
<1> QED
  BY <1>1, <1>2 DEF Fit, FitNext

\* The revisions somebody has fit the next state, too.
LEMMA RevisionsFit ==
    ASSUME Core, ViewsFit, NamedOnce, Next
    PROVE  \A v \in Revisions : FitNext(v)
  BY RevisionTypes, StillFits

\* So does what the server and its file show then,
LEMMA ServerFits ==
    ASSUME Core, ViewsFit, NamedOnce, Next
    PROVE  FitNext(View(srv')) /\ FitNext(srv'.disk.view)
<1>1. CASE {View(srv'), srv'.disk.view} \subseteq Revisions
  BY <1>1, RevisionsFit
<1>2. CASE RestoreSnapshot
  <2>1. /\ View(srv') = snap.file.view /\ srv'.disk.view = snap.file.view
        /\ snap.file.view \in Views /\ snap # NotLoaded
    BY <1>2, RestoreStep DEF RestoreSnapshot
  <2> QED
    BY <2>1, StillFits DEF ViewsFit
<1> QED
  BY <1>1, <1>2, ServerOrigin

\* A merge lists the character once if both sides do, and nowhere only if it
\* drops it.
LEMMA MergedFits ==
    ASSUME NEW b \in Views, NEW l \in Views, NEW s \in Views, NEW tracked \in BOOLEAN,
           NotBoth(b), NotBoth(l), NotBoth(s)
    PROVE  LET m == Merged(b, l, s, tracked) IN
           /\ NotBoth(m)
           /\ m.stub \in {NoRow, l.stub, s.stub}
           /\ m.stub # s.stub /\ m.stub # NoRow => m.stub = l.stub /\ l.stub # b.stub
           /\ Listed(b) /\ Listed(l) /\ Listed(s) /\ ~Dropped(b, l, s, tracked)
              /\ (l.active # b.active => tracked)
              => Listed(m)
<1> DEFINE m == Merged(b, l, s, tracked)
<1>1. m.stub \in {NoRow, l.stub, s.stub}
  BY DEF Merged
<1>2. m.stub # s.stub /\ m.stub # NoRow => m.stub = l.stub /\ l.stub # b.stub
  BY DEF Merged
<1>3. NotBoth(m)
  BY DEF Merged, NotBoth, Views
<1>4. ASSUME Listed(b), Listed(l), Listed(s), ~Dropped(b, l, s, tracked), l.active # b.active => tracked
      PROVE  Listed(m)
  BY <1>4 DEF Merged, NotBoth, Listed, Dropped, Views
<1> QED
  BY <1>1, <1>2, <1>3, <1>4

\* and what the page shows.
LEMMA PageFits ==
    ASSUME Core, ViewsFit, NamedOnce, Answers, Next
    PROVE  FitNext(page'.base) /\ FitNext(page'.etag) /\ FitNext(page'.local)
<1>0. /\ page \in Pages /\ page.base \in Views /\ page.etag \in Views /\ page.local \in Views
      /\ Fit(page.base) /\ Fit(page.etag) /\ Fit(page.local)
  BY DEF Core, TypeOK, ViewsFit, Pages
<1>01. FitNext(page.base) /\ FitNext(page.etag) /\ FitNext(page.local)
  BY <1>0, StillFits
<1>02. View(srv) \in Views /\ Fit(View(srv)) /\ FitNext(View(srv))
  BY ViewTypes, StillFits DEF Core, Sound, ViewsFit
<1>03. Opened(srv).cache = View(srv)
  BY OpenedSame DEF Core
<1>04. used.rows \in Nat /\ used'.rows \in Nat /\ used.rows <= used'.rows
  BY RowsWrittenStep, RowsStep, Bounds DEF Core, TypeOK, UsedTypes
<1>05. /\ FitNext(ToList(page.local))
       /\ page.local.active \/ gone' => FitNext([page.local EXCEPT !.stub = NoRow])
  BY <1>0, <1>04 DEF FitNext, ToList, NotBoth, Listed, Views, NoRow
<1>1. CASE \/ \E k \in Chats : EditChat(k)
           \/ \E k \in Chats, acked \in BOOLEAN : PostChat(k, acked)
  BY <1>01, <1>1, EditedPage DEF FitNext, NotBoth, Listed
<1>3. CASE PageRests
  <2>1. page' = page
    BY <1>3, PageRestsSame
  <2> QED
    BY <1>01, <2>1
<1>2. CASE SendSave
  <2>1. page'.base = page.local /\ page'.etag = page.etag /\ page'.local = page.local
    BY <1>0, <1>2 DEF SendSave, Pages
  <2> QED
    BY <1>01, <2>1
<1>4. CASE SaveDone
  <2>1. page'.base = save.to /\ page'.etag = save.to /\ page'.local = page.local
    BY <1>0, <1>4 DEF SaveDone, Pages
  <2>2. save.to \in Views /\ Fit(save.to)
    BY DEF Core, TypeOK, Saves, ViewsFit
  <2> QED
    BY <1>01, <2>1, <2>2, StillFits
<1>5. CASE \E tracked \in BOOLEAN : Rebase(tracked)
  <2>1. PICK tracked \in BOOLEAN : Rebase(tracked)
    BY <1>5
  <2> DEFINE m == Merged(save.synced, page.local, View(srv), tracked)
  <2>2. /\ page'.base = View(srv) /\ page'.etag = View(srv) /\ page'.local = m /\ Tracks(tracked)
        /\ Dropped(save.synced, page.local, View(srv), tracked) => gone'
        /\ gone => gone'
    BY <1>0, <1>03, <2>1 DEF Rebase
  <2>3. /\ save.synced \in Views /\ Fit(save.synced)
        /\ NotBoth(save.synced) /\ NotBoth(page.local) /\ NotBoth(View(srv))
    BY <1>0, <1>02 DEF Fit, ViewsFit, Core, TypeOK, Saves
  <2>4. /\ NotBoth(m)
        /\ m.stub \in {NoRow, page.local.stub, View(srv).stub}
        /\ Listed(save.synced) /\ Listed(page.local) /\ Listed(View(srv))
           /\ ~Dropped(save.synced, page.local, View(srv), tracked)
           /\ (page.local.active # save.synced.active => tracked)
           => Listed(m)
    BY <1>0, <1>02, <2>3, MergedFits
  <2>5. page.local.active # save.synced.active => tracked
    BY <2>2 DEF Tracks
  <2>6. m.stub <= used'.rows
    BY <1>01, <1>02, <1>04, <2>4 DEF FitNext, NoRow
  <2> HIDE DEF m
  <2>7. gone' \/ Listed(m)
    BY <1>0, <1>02, <2>2, <2>3, <2>4, <2>5 DEF Fit
  <2> QED
    BY <1>02, <2>2, <2>4, <2>6, <2>7 DEF FitNext
<1>6. CASE ArchiveDone
  <2>1. page'.base = page.base /\ page'.etag = page.etag
        /\ page'.local \in {page.local, ToStub(call.at, call.touch)}
    BY <1>0, <1>6 DEF ArchiveDone, Pages
  <2>2. call.at \in Times /\ call.at <= used.rows
    BY <1>6 DEF ArchiveDone, NamedOnce, NewRow
  <2>3. FitNext(ToStub(call.at, call.touch))
    BY <1>04, <2>2 DEF FitNext, ToStub, NotBoth, Listed, Times, NoRow
  <2> QED
    BY <1>01, <2>1, <2>3
<1>7. CASE ActivateDone
  <2>1. page'.base = page.base /\ page'.etag = page.etag
        /\ page'.local = IF page.local.active THEN [page.local EXCEPT !.stub = NoRow]
                         ELSE ToList(page.local)
    BY <1>0, <1>7 DEF ActivateDone, Pages
  <2> QED
    BY <1>01, <1>05, <2>1
<1>8. CASE \E drop \in BOOLEAN : ActivateMissing(drop)
  <2>1. PICK drop \in BOOLEAN : ActivateMissing(drop)
    BY <1>8
  <2>2. page' = IF drop THEN [page EXCEPT !.local = [page.local EXCEPT !.stub = NoRow]] ELSE page
    BY <2>1 DEF ActivateMissing
  <2>3. drop => gone'
    BY <2>1, Zenon DEF ActivateMissing
  <2>4. CASE drop
    BY <1>0, <1>01, <1>05, <2>2, <2>3, <2>4 DEF Pages
  <2>5. CASE ~drop
    BY <1>01, <2>2, <2>5
  <2> QED
    BY <2>4, <2>5
<1>9. CASE DeleteDone
  <2>1. /\ page'.base = page.base /\ page'.etag = page.etag
        /\ page'.local = [page.local EXCEPT !.stub = NoRow] /\ gone'
    BY <1>0, <1>9 DEF DeleteDone, Pages, Answers
  <2> QED
    BY <1>01, <1>05, <2>1
<1>10. CASE Reload
  <2>1. page'.base = View(srv) /\ page'.etag = View(srv) /\ page'.local = View(srv)
    BY <1>03, <1>10 DEF Reload, Boot
  <2> QED
    BY <1>02, <2>1
<1>11. CASE RestoreSnapshot
  <2>1. /\ srv'.cache = snap.file.view /\ snap.file.view \in Views /\ snap # NotLoaded
        /\ page'.base = srv'.cache /\ page'.etag = srv'.cache /\ page'.local = srv'.cache
    BY <1>11, RestoreStep DEF RestoreSnapshot, Boot
  <2> QED
    BY <2>1, StillFits DEF ViewsFit
<1> QED
  BY <1>1, <1>2, <1>3, <1>4, <1>5, <1>6, <1>7, <1>8, <1>9, <1>10, <1>11 DEF Next, PageRests

\* Only taking one changes the snapshot.
LEMMA SnapOrigin == Next => snap' = snap \/ TakeSnapshot
<1>1. ServerStep => snap' = snap \/ TakeSnapshot
  BY DEF ServerStep, Rebase, ServeArchive, ServeActivate, ServeDelete, Purge, ServeStrayCall,
     Persist, Reload, Leave
<1>2. (\E k \in Chats, acked \in BOOLEAN : PostChat(k, acked))
      \/ (\E whole \in BOOLEAN : ServeSave(whole))
      \/ ServeStraySave \/ RestoreSnapshot \/ Restart => snap' = snap
  BY DEF PostChat, ServeSave, ServeStraySave, Leave, RestoreSnapshot, Restart
<1> QED
  BY <1>1, <1>2, Steps, PageOnly

\* No step makes a revision that lists the character twice or, as long as it
\* was not deleted, nowhere.
LEMMA ViewsFitStep ==
    ASSUME Core, ViewsFit, NamedOnce, Answers, Next
    PROVE  ViewsFit'
<1>1. snap' # NotLoaded => FitNext(snap'.file.view)
  <2>1. CASE TakeSnapshot
    <3>1. snap'.file.view = srv.disk.view /\ srv' = srv
      BY <2>1 DEF TakeSnapshot
    <3> QED
      BY <3>1, ServerFits
  <2>2. CASE snap' = snap
    <3>1. ASSUME snap # NotLoaded PROVE snap.file.view \in Views
      BY <3>1 DEF Core, TypeOK, Snapshots, Files
    <3> QED
      BY <2>2, <3>1, StillFits DEF ViewsFit
  <2> QED
    BY <2>1, <2>2, SnapOrigin
<1> QED
  BY <1>1, ServerFits, InFlightOrigin, RevisionsFit, PageFits DEF ViewsFit, Fit, FitNext, View

---------------------------------------------------------------------------
(* A row has one stub, and its stub goes one way *)

\* An activation, or a stub that is let go, takes a stub off the page's list.
LEMMA UnstubbedPage ==
    ASSUME Core, ActivateDone \/ (\E drop \in BOOLEAN : ActivateMissing(drop)) \/ DeleteDone
    PROVE  /\ save' = save /\ page'.base = page.base /\ page'.etag = page.etag
           /\ page'.local.stub \in {page.local.stub, NoRow}
<1>0. page \in Pages /\ page.local \in Views
  BY DEF Core, TypeOK, Pages
<1>1. save' = save
  BY DEF ActivateDone, ActivateMissing, DeleteDone
<1>2. \/ page' = page
      \/ page' = [page EXCEPT !.local = [page.local EXCEPT !.stub = NoRow]]
      \/ page' = [page EXCEPT !.local = ToList(page.local)]
  BY DEF ActivateDone, ActivateMissing, DeleteDone
<1>3. CASE page' = [page EXCEPT !.local = [page.local EXCEPT !.stub = NoRow]]
  BY <1>0, <1>1, <1>3 DEF Pages, Views
<1>4. CASE page' = [page EXCEPT !.local = ToList(page.local)]
  BY <1>0, <1>1, <1>4 DEF Pages, Views, ToList
<1> QED
  BY <1>1, <1>2, <1>3, <1>4

\* Only an answered deactivation puts a stub that no revision had.
LEMMA PageStubs ==
    ASSUME Core, ViewsFit, Next
    PROVE  \/ ArchiveDone \/ RestoreSnapshot
           \/ /\ page'.base \in Revisions /\ page'.etag \in Revisions
              /\ \E v \in Revisions : page'.local.stub = v.stub
<1>0. /\ page \in Pages /\ page.base \in Views /\ page.local \in Views
      /\ page.base \in Revisions /\ page.etag \in Revisions /\ page.local \in Revisions
      /\ View(srv) \in Revisions
      /\ View(srv) \in Views /\ Untouched \in Revisions /\ Untouched.stub = NoRow
      /\ Opened(srv).cache = View(srv) /\ save.kind = "save"
  BY ViewTypes, OpenedSame DEF Core, TypeOK, Sound, Pages, Revisions, Untouched, Saves
<1>1. CASE \/ \E k \in Chats : EditChat(k)
           \/ \E k \in Chats, acked \in BOOLEAN : PostChat(k, acked)
  BY <1>0, <1>1, EditedPage
<1>3. CASE PageRests
  <2>1. page' = page
    BY <1>3, PageRestsSame
  <2> QED
    BY <1>0, <2>1
<1>2. CASE SendSave
  <2>1. page'.base = page.local /\ page'.etag = page.etag /\ page'.local = page.local
    BY <1>0, <1>2 DEF SendSave, Pages
  <2> QED
    BY <1>0, <2>1
<1>4. CASE SaveDone
  <2>1. page'.base = save.to /\ page'.etag = save.to /\ page'.local = page.local
    BY <1>0, <1>4 DEF SaveDone, Pages
  <2> QED
    BY <1>0, <2>1, RevisionTypes
<1>5. CASE \E tracked \in BOOLEAN : Rebase(tracked)
  <2>1. PICK tracked \in BOOLEAN : Rebase(tracked)
    BY <1>5
  <2> DEFINE m == Merged(save.synced, page.local, View(srv), tracked)
  <2>2. page'.base = View(srv) /\ page'.etag = View(srv) /\ page'.local = m
    BY <1>0, <2>1 DEF Rebase
  <2>3. m.stub \in {NoRow, page.local.stub, View(srv).stub}
    BY DEF Merged
  <2> HIDE DEF m
  <2> QED
    BY <1>0, <2>2, <2>3
<1>6. CASE ActivateDone \/ (\E drop \in BOOLEAN : ActivateMissing(drop)) \/ DeleteDone
  <2>1. page'.base = page.base /\ page'.etag = page.etag
        /\ page'.local.stub \in {page.local.stub, NoRow}
    BY <1>6, UnstubbedPage
  <2> QED
    BY <1>0, <2>1
<1>7. CASE Reload
  BY <1>0, <1>7 DEF Reload, Boot
<1> QED
  BY <1>1, <1>2, <1>3, <1>4, <1>5, <1>6, <1>7 DEF Next, PageRests

\* A call that was sent, or answered, or given up.
LEMMA CallSteps ==
    ASSUME Core
    PROVE  /\ SendArchive \/ SendActivate \/ SendDelete \/ AskAgain => call'.stage = "sent"
           /\ ServeArchive => call'.kind = "archive"
           /\ ServeActivate => call'.kind = "activate"
           /\ ServeDelete => call'.kind = "delete"
           /\ ArchiveDone \/ ActivateDone \/ DeleteDone \/ CallFailed
              \/ (\E drop \in BOOLEAN : ActivateMissing(drop)) \/ Reload \/ RestoreSnapshot
              => call'.stage = "idle"
           /\ ActivateRefused => call'.stage \in {"idle", "flushing"}
<1>0. call \in Calls /\ NoCall.stage = "idle"
  BY DEF Core, TypeOK, NoCall
<1>1. SendArchive \/ SendActivate \/ SendDelete \/ AskAgain => call'.stage = "sent"
  <2>1. SendArchive => call'.stage = "sent"
    BY DEF SendArchive, NoCall
  <2>2. SendActivate => call'.stage = "sent"
    BY DEF SendActivate, NoCall
  <2>3. SendDelete => call'.stage = "sent"
    BY DEF SendDelete, NoCall
  <2>4. AskAgain => call'.stage = "sent"
    BY <1>0 DEF AskAgain, Calls
  <2> QED
    BY <2>1, <2>2, <2>3, <2>4
<1>2. ServeArchive => call'.kind = "archive"
  <2>1. CASE CanArchive(Opened(srv))
    BY <1>0, <2>1 DEF ServeArchive, Calls
  <2>2. CASE ~CanArchive(Opened(srv))
    BY <1>0, <2>2 DEF ServeArchive, Calls
  <2> QED
    BY <2>1, <2>2
<1>3. ServeActivate => call'.kind = "activate"
  BY <1>0 DEF ServeActivate, Calls
<1>4. ServeDelete => call'.kind = "delete"
  BY <1>0 DEF ServeDelete, Calls
<1>5. ArchiveDone \/ ActivateDone \/ DeleteDone \/ CallFailed
      \/ (\E drop \in BOOLEAN : ActivateMissing(drop)) \/ Reload \/ RestoreSnapshot
      => call'.stage = "idle"
  <2>1. ArchiveDone \/ ActivateDone \/ DeleteDone \/ CallFailed
        \/ (\E drop \in BOOLEAN : ActivateMissing(drop)) \/ Reload \/ RestoreSnapshot
        => call' = NoCall
    BY DEF ArchiveDone, ActivateDone, DeleteDone, CallFailed, ActivateMissing, Reload,
       RestoreSnapshot, Boot
  <2> QED
    BY <1>0, <2>1
<1>6. ActivateRefused => call'.stage \in {"idle", "flushing"}
  BY <1>0 DEF ActivateRefused, Calls
<1> QED
  BY <1>1, <1>2, <1>3, <1>4, <1>5, <1>6

\* A deactivation is answered once, and stays answered until the page reads it.
LEMMA NewRowOrigin ==
    ASSUME Core, Next, NewRow'
    PROVE  \/ NewRow /\ call' = call /\ ~ArchiveDone /\ ~RestoreSnapshot
           \/ ServeArchive /\ CanArchive(Opened(srv))
<1>0. call \in Calls /\ NoCall.stage = "idle"
  BY DEF Core, TypeOK, NoCall
<1>1. CASE \/ \E k \in Chats : EditChat(k)
           \/ SendSave \/ FullWrite \/ SaveDone \/ SaveRejected \/ SaveAnswerLost
           \/ \E k \in Chats, acked \in BOOLEAN : PostChat(k, acked)
           \/ \E tracked \in BOOLEAN : Rebase(tracked)
           \/ \E whole \in BOOLEAN : ServeSave(whole)
           \/ Purge \/ Persist \/ TakeSnapshot \/ ServeStraySave \/ ServeStrayCall
  <2>1. call' = call
    BY <1>1 DEF EditChat, SendSave, FullWrite, SaveDone, SaveRejected, SaveAnswerLost, PostChat, Rebase,
       ServeSave, Purge, Persist, TakeSnapshot, ServeStraySave, ServeStrayCall, Leave
  <2>2. NewRow
    BY <2>1 DEF NewRow
  <2> QED
    BY <1>0, <2>1, <2>2 DEF NewRow, ArchiveDone, RestoreSnapshot, Boot
<1>2. CASE SendArchive \/ SendActivate \/ SendDelete \/ ServeActivate \/ ServeDelete \/ AskAgain
  BY <1>2, CallSteps DEF NewRow
<1>3. CASE ArchiveDone \/ ActivateDone \/ ActivateRefused \/ DeleteDone \/ CallFailed
           \/ (\E drop \in BOOLEAN : ActivateMissing(drop)) \/ Reload \/ RestoreSnapshot
  BY <1>3, CallSteps DEF NewRow
<1>4. CASE ServeArchive
  BY <1>0, <1>4 DEF NewRow, ServeArchive, Calls
<1>5. CASE Restart
  <2>1. call' = call /\ NewRow
    BY <1>0, <1>5 DEF NewRow, Restart
  <2> QED
    BY <1>0, <2>1 DEF NewRow, ArchiveDone, RestoreSnapshot, Boot
<1> QED
  BY <1>1, <1>2, <1>3, <1>4, <1>5 DEF Next

\* The row of a deactivation that was just answered is new to everybody.
LEMMA NamedOnceStep ==
    ASSUME Core, ViewsFit, NamedOnce, Next
    PROVE  NamedOnce'
<1> SUFFICES ASSUME NewRow'
             PROVE  /\ call'.at \in Times /\ call'.at <= used'.rows
                    /\ \A v \in Revisions' : v.stub # call'.at
  BY DEF NamedOnce, Times
<1>1. CASE NewRow /\ call' = call /\ ~ArchiveDone /\ ~RestoreSnapshot
  <2>1. /\ page'.base \in Revisions /\ page'.etag \in Revisions
        /\ \E v \in Revisions : page'.local.stub = v.stub
        /\ View(srv') \in Revisions /\ srv'.disk.view \in Revisions
        /\ \A r \in strays' \cup {save'} :
              r.kind = "save" => r.to \in Revisions /\ r.synced \in Revisions
    BY <1>1, PageStubs, ServerOrigin, InFlightOrigin
  <2>2. \A v \in Revisions' : \E w \in Revisions : v.stub = w.stub
    BY <2>1 DEF Revisions, View
  <2>3. call.at \in Times /\ call.at <= used.rows /\ \A w \in Revisions : w.stub # call.at
    BY <1>1 DEF NamedOnce
  <2>4. call.at <= used'.rows
    BY <2>3, RowsWrittenStep, RowsStep, Bounds DEF Core, TypeOK, UsedTypes, Times
  <2> QED
    BY <1>1, <2>2, <2>3, <2>4
<1>2. CASE ServeArchive /\ CanArchive(Opened(srv))
  <2>1. /\ call' = [call EXCEPT !.stage = "done", !.at = used.rows + 1,
                                !.touch = Opened(srv).cache.touch]
        /\ used' = [used EXCEPT !.rows = @ + 1] /\ used.rows < MaxRows
        /\ page' = page /\ save' = save /\ strays' = strays
    BY <1>2 DEF ServeArchive, WriteRow
  <2>2. used.rows \in Nat /\ used'.rows = used.rows + 1 /\ call'.at = used.rows + 1
    BY <2>1, Bounds DEF Core, TypeOK, Calls
  <2>3. View(srv') \in Revisions /\ srv'.disk.view \in Revisions
    <3>1. Same(srv')
      BY <1>2, ServerSame DEF ServerStep
    <3> QED
      BY <3>1 DEF Same, Revisions
  <2>4. Revisions' \subseteq Revisions
    BY <2>1, <2>3 DEF Revisions, View
  <2>5. \A v \in Revisions : v.stub <= used.rows /\ v.stub \in Int
    BY RevisionTypes DEF Fit, Views, Times, NoRow
  <2>6. \A v \in Revisions' : v.stub # used.rows + 1
    BY <2>2, <2>4, <2>5
  <2> QED
    BY <2>1, <2>2, <2>6, Bounds DEF Times
<1> QED
  BY <1>1, <1>2, NewRowOrigin

\* What is known of requests and answers stays so.
LEMMA AnswersStep ==
    ASSUME Core, ViewsFit, NamedOnce, Answers, Next
    PROVE  Answers'
<1>0. /\ page \in Pages /\ page.base \in Views /\ page.local \in Views
      /\ save \in Saves /\ call \in Calls /\ save.kind = "save"
      /\ NoSave.stage = "idle" /\ NoCall.stage = "idle"
  BY DEF Core, TypeOK, Pages, Saves, NoSave, NoCall
<1>1. \A r \in strays' : r.stage = "sent"
  <2>1. CASE SaveAnswerLost
    BY <2>1 DEF SaveAnswerLost, Answers
  <2>2. CASE Reload
    BY <2>2 DEF Reload, Answers
  <2>3. CASE strays' \subseteq strays
    BY <2>3 DEF Answers
  <2>4. PageStep => strays' \subseteq strays \/ SaveAnswerLost
    BY DEF PageStep, EditChat, SendSave, FullWrite, SaveDone, SaveRejected, SendArchive,
       ArchiveDone, SendActivate, ActivateDone, ActivateRefused, AskAgain, ActivateMissing,
       SendDelete, DeleteDone, CallFailed
  <2>5. ServerStep => strays' \subseteq strays \/ Reload
    BY DEF ServerStep, Rebase, ServeArchive, ServeActivate, ServeDelete, Purge, ServeStrayCall,
       Leave, Persist, TakeSnapshot
  <2>6. (\E k \in Chats, acked \in BOOLEAN : PostChat(k, acked))
        \/ (\E whole \in BOOLEAN : ServeSave(whole))
        \/ ServeStraySave \/ RestoreSnapshot \/ Restart => strays' \subseteq strays
    BY DEF PostChat, ServeSave, ServeStraySave, Leave, RestoreSnapshot, Restart
  <2> QED
    BY <2>1, <2>2, <2>3, <2>4, <2>5, <2>6, Steps
<1> DEFINE Carries(p, w) == w.stage # "idle" /\ p.local.stub \notin {NoRow, w.to.stub}
                             => p.local.stub # p.base.stub
           Told(p, w) == p.local.stub # NoRow /\ p.local.stub = p.etag.stub
                         => /\ p.base.stub = p.local.stub
                            /\ w.stage # "idle" => w.synced.stub = p.local.stub
<1>2. Carries(page', save') /\ Told(page', save')
  <2>0. Carries(page, save) /\ Told(page, save)
    BY DEF Answers
  <2>1. CASE SendSave
    <3>1. /\ save'.synced = page.base /\ save'.to = page.local
          /\ page'.base = page.local /\ page'.etag = page.etag /\ page'.local = page.local
      BY <1>0, <2>1 DEF SendSave, NoSave, Pages
    <3> QED
      BY <2>0, <3>1
  <2>2. CASE SaveRejected \/ SaveAnswerLost
    <3>1. page' = page /\ save'.stage = "idle"
      BY <1>0, <2>2 DEF SaveRejected, SaveAnswerLost
    <3> QED
      BY <2>0, <3>1
  <2>3. CASE ArchiveDone
    <3>1. save' = save /\ page'.base = page.base /\ page'.etag = page.etag
          /\ page'.local.stub \in {page.local.stub, call.at}
      BY <1>0, <2>3 DEF ArchiveDone, ToStub, Pages
    <3>2. call.at # page.base.stub /\ call.at # page.etag.stub
      BY <2>3 DEF ArchiveDone, NamedOnce, NewRow, Revisions
    <3> QED
      BY <2>0, <3>1, <3>2
  <2>4. CASE /\ save'.stage = "idle" <=> save.stage = "idle"
             /\ save'.to = save.to /\ save'.synced = save.synced
             /\ page'.base = page.base /\ page'.etag = page.etag
             /\ page'.local.stub \in {page.local.stub, NoRow}
    BY <2>0, <2>4
  <2>5. CASE ActivateDone \/ (\E drop \in BOOLEAN : ActivateMissing(drop)) \/ DeleteDone
    <3>1. /\ save' = save /\ page'.base = page.base /\ page'.etag = page.etag
          /\ page'.local.stub \in {page.local.stub, NoRow}
      BY <2>5, UnstubbedPage
    <3> QED
      BY <2>4, <3>1
  <2>6. CASE \/ \E k \in Chats : EditChat(k)
             \/ \E k \in Chats, acked \in BOOLEAN : PostChat(k, acked)
    BY <2>4, <2>6, EditedPage
  <2>7. CASE SaveDone \/ (\E tracked \in BOOLEAN : Rebase(tracked)) \/ Reload \/ RestoreSnapshot
    <3>1. save' = NoSave
      BY <2>7 DEF SaveDone, Rebase, Reload, RestoreSnapshot, Boot
    <3>2. CASE SaveDone
      BY <1>0, <3>1, <3>2 DEF SaveDone, Pages
    <3>3. CASE \E tracked \in BOOLEAN : Rebase(tracked)
      BY <1>0, <3>1, <3>3 DEF Rebase
    <3>4. CASE Reload \/ RestoreSnapshot
      <4>1. PICK s : Boot(s)
        BY <3>4 DEF Reload, RestoreSnapshot
      <4> QED
        BY <1>0, <3>1, <4>1 DEF Boot
    <3> QED
      BY <2>7, <3>2, <3>3, <3>4
  <2>8. CASE \/ SendArchive \/ SendActivate \/ ActivateRefused \/ AskAgain
             \/ SendDelete \/ CallFailed
             \/ ServeArchive \/ ServeActivate \/ ServeDelete \/ Purge \/ Persist \/ TakeSnapshot
             \/ ServeStraySave \/ ServeStrayCall
    <3>1. page' = page /\ save' = save
      BY <2>8 DEF SendArchive, SendActivate,
         ActivateRefused, AskAgain, SendDelete, CallFailed, ServeArchive,
         ServeActivate, ServeDelete, Purge, Persist, TakeSnapshot, ServeStraySave,
         ServeStrayCall, Leave
    <3> QED
      BY <2>4, <3>1
  <2>9. CASE \E whole \in BOOLEAN : ServeSave(whole)
    <3>1. PICK a \in {"conflict", "mismatch", "rejected", "saved"} :
             save' = [save EXCEPT !.stage = a] /\ save.stage = "sent" /\ page' = page
      BY <2>9 DEF ServeSave, Outcome
    <3> QED
      BY <1>0, <2>4, <3>1 DEF Saves
  <2>10. CASE Restart
    <3>1. page' = page /\ save' \in {save, NoSave}
      BY <2>10 DEF Restart
    <3> QED
      BY <1>0, <2>0, <3>1
  <2>11. CASE FullWrite
    <3>1. /\ page' = page /\ save'.to = page.local /\ save'.synced = save.synced
          /\ save.stage # "idle"
      BY <1>0, <2>11 DEF FullWrite, Saves
    <3> QED
      BY <2>0, <3>1
  <2> HIDE DEF Carries, Told
  <2> QED
    BY <2>1, <2>2, <2>3, <2>5, <2>6, <2>7, <2>8, <2>9, <2>10, <2>11 DEF Next
<1>3. ASSUME call'.kind = "delete", call'.stage = "done"
      PROVE  gone'
  <2>1. CASE call' = call
    BY <1>3, <2>1, GhostTypes DEF Answers
  <2>2. CASE ServeDelete
    BY <1>0, <1>3, <2>2 DEF ServeDelete, DeleteRows, Calls
  <2>3. CASE SendArchive \/ SendActivate \/ SendDelete \/ ServeActivate \/ AskAgain \/ ServeArchive
             \/ ArchiveDone \/ ActivateDone \/ ActivateRefused \/ DeleteDone \/ CallFailed
             \/ (\E drop \in BOOLEAN : ActivateMissing(drop)) \/ Reload \/ RestoreSnapshot
    BY <1>3, <2>3, CallSteps
  <2>4. CASE Restart
    BY <1>0, <1>3, <2>1, <2>4 DEF Restart
  <2>5. CASE \/ \E k \in Chats : EditChat(k)
             \/ SendSave \/ FullWrite \/ SaveDone \/ SaveRejected \/ SaveAnswerLost
             \/ \E k \in Chats, acked \in BOOLEAN : PostChat(k, acked)
             \/ \E tracked \in BOOLEAN : Rebase(tracked)
             \/ \E whole \in BOOLEAN : ServeSave(whole)
             \/ Purge \/ Persist \/ TakeSnapshot \/ ServeStraySave \/ ServeStrayCall
    BY <2>1, <2>5 DEF EditChat, SendSave, FullWrite, SaveDone, SaveRejected, SaveAnswerLost, PostChat, Rebase,
       ServeSave, Purge, Persist, TakeSnapshot, ServeStraySave, ServeStrayCall, Leave
  <2> QED
    BY <2>2, <2>3, <2>4, <2>5 DEF Next
<1> QED
  BY <1>1, <1>2, <1>3 DEF Answers

---------------------------------------------------------------------------
(* What was saved stays where the revisions look for it *)

\* A row that somebody needs is not purged, and none is overwritten.
LEMMA RowsKept ==
    ASSUME Core, Next, ~gone', NEW t \in Times
    PROVE  /\ t <= used.rows /\ t \in Rows' => t \in Rows /\ rows'[t] = rows[t]
           /\ t \in Rows /\ (Wanted(t) \/ View(srv).stub = t) => t \in Rows' /\ rows'[t] = rows[t]
<1>0. rows \in [Times -> Bodies] /\ used.rows \in Int /\ t \in Int
  BY Bounds DEF Core, TypeOK, Times
<1>1. CASE rows' = rows
  BY <1>1 DEF Rows
<1>2. CASE RowWritten
  <2>1. rows' = [rows EXCEPT ![used.rows + 1] = Filled(Opened(srv).store)]
    BY <1>2 DEF RowWritten, WriteRow
  <2>2. t # used.rows + 1 => rows'[t] = rows[t]
    BY <1>0, <2>1
  <2>3. t \in Rows => t # used.rows + 1
    BY <1>0 DEF Core, RowsWritten
  <2> QED
    BY <1>0, <2>2, <2>3 DEF Rows
<1>3. CASE RowsDeleted
  BY <1>3 DEF RowsDeleted
<1>4. CASE Purge
  <2>1. PICK old \in SUBSET Purgeable(Opened(srv)) :
           rows' = [r \in Times |-> IF r \in old THEN NoBodies ELSE rows[r]]
    BY <1>4 DEF Purge
  <2>2. View(Opened(srv)) = View(srv)
    BY OpenedSame DEF Core, Same
  <2>3. Wanted(t) \/ View(srv).stub = t => t \notin old
    BY <2>1, <2>2 DEF Purgeable
  <2> QED
    BY <2>1, <2>3 DEF Rows
<1> QED
  BY <1>1, <1>2, <1>3, <1>4, RowsStep DEF Core

\* A row whose stub may be put is one a page wants.
LEMMA PutWanted ==
    ASSUME Core, Answers, NEW t \in Times, Put(t)
    PROVE  Wanted(t)
<1>1. CASE NewRow /\ call.at = t
  BY <1>1 DEF Wanted, NewRow
<1>2. CASE page.local.stub = t /\ (page.base.stub # t \/ page.etag.stub # t)
  BY <1>2 DEF Wanted, Unsaved
<1>3. CASE \E r \in strays \cup {save} : Puts(r, t)
  BY <1>3 DEF Wanted, Puts
<1> QED
  BY <1>1, <1>2, <1>3 DEF Put

\* Nothing but an answered deactivation makes a row one whose stub may be put.
LEMMA PutStep ==
    ASSUME Core, ViewsFit, NamedOnce, Answers, Next, NEW t \in Times, Put(t)'
    PROVE  /\ ~RestoreSnapshot
           /\ Put(t) \/ (ServeArchive /\ CanArchive(Opened(srv)) /\ t = used.rows + 1)
<1>0. /\ page \in Pages /\ page.base \in Views /\ page.local \in Views
      /\ save \in Saves /\ call \in Calls /\ save.kind = "save"
      /\ NoSave.stage = "idle" /\ NoCall.stage = "idle" /\ t # NoRow
      /\ Opened(srv).cache = View(srv) /\ View(srv) \in Views
  BY ViewTypes, OpenedSame DEF Core, TypeOK, Sound, Pages, Saves, NoSave, NoCall, Times, NoRow
<1>1. CASE NewRow' /\ call'.at = t
  <2>1. CASE NewRow /\ call' = call /\ ~RestoreSnapshot
    BY <1>1, <2>1 DEF Put
  <2>2. CASE ServeArchive /\ CanArchive(Opened(srv))
    <3>1. call'.at = used.rows + 1
      BY <1>0, <2>2 DEF ServeArchive, Calls
    <3>2. save'.stage = save.stage /\ call'.kind = "archive" /\ call'.stage = "done"
      BY <1>1, <2>2 DEF ServeArchive, NewRow
    <3>3. ~RestoreSnapshot
      BY <1>0, <3>2, CallSteps
    <3> QED
      BY <1>1, <2>2, <3>1, <3>3
  <2> QED
    BY <1>1, <2>1, <2>2, NewRowOrigin
<1>2. CASE page'.local.stub = t /\ (page'.base.stub # t \/ page'.etag.stub # t)
  <2>1. CASE ArchiveDone
    <3>1. page'.base = page.base /\ page'.etag = page.etag
          /\ page'.local.stub \in {page.local.stub, call.at}
      BY <1>0, <2>1 DEF ArchiveDone, ToStub, Pages
    <3>2. NewRow /\ call'.stage = "idle" /\ save' = save /\ strays' = strays
      BY <2>1, CallSteps DEF ArchiveDone, NewRow
    <3>3. Put(t)
      BY <1>2, <3>1, <3>2 DEF Put
    <3>4. ~RestoreSnapshot
      BY <1>2 DEF RestoreSnapshot, Boot
    <3> QED
      BY <3>3, <3>4
  <2>2. CASE page'.base = page.base /\ page'.etag = page.etag
             /\ page'.local.stub \in {page.local.stub, NoRow}
    <3>1. ~RestoreSnapshot
      BY <1>2 DEF RestoreSnapshot, Boot
    <3> QED
      BY <1>0, <1>2, <2>2, <3>1 DEF Put
  <2>3. CASE ActivateDone \/ (\E drop \in BOOLEAN : ActivateMissing(drop)) \/ DeleteDone
    BY <2>2, <2>3, UnstubbedPage
  <2>4. CASE \/ \E k \in Chats : EditChat(k)
             \/ \E k \in Chats, acked \in BOOLEAN : PostChat(k, acked)
    BY <2>2, <2>4, EditedPage
  <2>6. CASE PageRests
    <3>1. page' = page
      BY <2>6, PageRestsSame
    <3> QED
      BY <2>2, <3>1
  <2>5. CASE SendSave
    <3>1. page'.base = page.local /\ page'.etag = page.etag /\ page'.local = page.local
      BY <1>0, <2>5 DEF SendSave, Pages
    <3>2. ~RestoreSnapshot
      BY <1>0, <2>5 DEF RestoreSnapshot, Boot, SendSave, NoSave
    <3> QED
      BY <1>2, <3>1, <3>2 DEF Put
  <2>7. CASE SaveDone
    <3>1. /\ page'.base = save.to /\ page'.etag = save.to /\ page'.local = page.local
          /\ save.stage = "saved"
      BY <1>0, <2>7 DEF SaveDone, Pages
    <3>2. page.local.stub # page.base.stub
      BY <1>0, <1>2, <3>1 DEF Answers
    <3>3. ~RestoreSnapshot
      BY <1>2 DEF RestoreSnapshot, Boot
    <3> QED
      BY <1>2, <3>1, <3>2, <3>3 DEF Put
  <2>8. CASE \E tracked \in BOOLEAN : Rebase(tracked)
    <3>1. PICK tracked \in BOOLEAN : Rebase(tracked)
      BY <2>8
    <3> DEFINE m == Merged(save.synced, page.local, View(srv), tracked)
    <3>2. /\ page'.base = View(srv) /\ page'.etag = View(srv) /\ page'.local = m
          /\ save.stage = "conflict"
      BY <1>0, <3>1 DEF Rebase
    <3>3. /\ save.synced \in Views
          /\ NotBoth(save.synced) /\ NotBoth(page.local) /\ NotBoth(View(srv))
      BY <1>0 DEF ViewsFit, Fit, Saves
    <3>4. m.stub # View(srv).stub /\ m.stub # NoRow
          => m.stub = page.local.stub /\ page.local.stub # save.synced.stub
      BY <1>0, <3>1, <3>3, MergedFits
    <3> HIDE DEF m
    <3>5. page.local.stub = t /\ save.synced.stub # t
      BY <1>0, <1>2, <3>2, <3>4
    <3>6. page.etag.stub # t
      BY <1>0, <3>2, <3>5 DEF Answers
    <3>7. ~RestoreSnapshot
      BY <1>2 DEF RestoreSnapshot, Boot
    <3> QED
      BY <3>5, <3>6, <3>7 DEF Put
  <2>9. CASE Reload \/ RestoreSnapshot
    BY <1>2, <2>9 DEF Reload, RestoreSnapshot, Boot
  <2> QED
    BY <2>1, <2>3, <2>4, <2>5, <2>6, <2>7, <2>8, <2>9 DEF Next, PageRests
<1>3. CASE \E r \in strays' \cup {save'} : r.kind = "save" /\ r.stage = "sent" /\ r.to.stub = t /\ r.from.stub # t
  <2>1. PICK r \in strays' \cup {save'} :
           r.kind = "save" /\ r.stage = "sent" /\ r.to.stub = t /\ r.from.stub # t
    BY <1>3
  <2>2. ~RestoreSnapshot
    BY <1>0, <2>1 DEF RestoreSnapshot, Boot
  <2>3. CASE r \in strays \cup {save}
    BY <2>1, <2>2, <2>3 DEF Put, Puts
  <2>4. CASE SendSave \/ FullWrite
    <3>1. /\ strays' = strays /\ save'.to = page.local
          /\ save'.from = page.base \/ save'.from = page.etag
      BY <1>0, <2>4 DEF SendSave, FullWrite, NoSave, Saves
    <3> QED
      BY <2>1, <2>2, <2>3, <3>1 DEF Put
  <2>5. CASE Reload
    <3>1. strays' \subseteq strays \cup {save, call} /\ save' = NoSave
      BY <2>5 DEF Reload, Boot
    <3>2. r # NoSave /\ r # call
      BY <1>0, <2>1 DEF Calls
    <3> QED
      BY <2>1, <2>3, <3>1, <3>2
  <2>6. CASE \E whole \in BOOLEAN : ServeSave(whole)
    <3>1. strays' = strays /\ save'.stage # "sent"
      BY <1>0, <2>6 DEF ServeSave, Outcome, Saves
    <3> QED
      BY <2>1, <2>3, <3>1
  <2>7. CASE strays' \subseteq strays \cup {save} /\ save' \in {save, NoSave}
    BY <1>0, <2>1, <2>3, <2>7
  <2>8. PageStep => SendSave \/ FullWrite \/ (strays' \subseteq strays \cup {save} /\ save' \in {save, NoSave})
    BY DEF PageStep, EditChat, SaveDone, SaveRejected, SaveAnswerLost, SendArchive,
       ArchiveDone, SendActivate, ActivateDone, ActivateRefused, AskAgain, ActivateMissing,
       SendDelete, DeleteDone, CallFailed
  <2>9. ServerStep => Reload \/ (strays' \subseteq strays \cup {save} /\ save' \in {save, NoSave})
    BY DEF ServerStep, Rebase, ServeArchive, ServeActivate, ServeDelete, Purge, ServeStrayCall,
       Leave, Persist, TakeSnapshot
  <2>10. (\E k \in Chats, acked \in BOOLEAN : PostChat(k, acked)) \/ ServeStraySave \/ Restart
         => strays' \subseteq strays \cup {save} /\ save' \in {save, NoSave}
    BY DEF PostChat, ServeStraySave, Leave, Restart
  <2> QED
    BY <2>2, <2>4, <2>5, <2>6, <2>7, <2>8, <2>9, <2>10, Steps
<1> QED
  BY <1>1, <1>2, <1>3 DEF Put, Puts

\* What the server holds agrees with the rows as they were,
LEMMA AgreesStep ==
    ASSUME Core, ViewsFit, Answers, Content, Next, ~gone, ~gone', srv'.displaced = {}
    PROVE  Agrees(srv')
<1>01. ASSUME NEW req \in strays \cup {save}, req.kind = "save", req.stage = "sent",
              NEW whole \in BOOLEAN, srv' = AfterSave(Loaded(srv), req, whole)
       PROVE  Agrees(srv')
  <2>1. CASE Same(srv')
    BY <2>1 DEF Same, Content
  <2>2. CASE View(srv) = req.from /\ Landed(srv', req)
    <3>1. Listed(View(srv))
      BY DEF ViewsFit, Fit
    <3>2. ASSUME req.to.stub \notin {NoRow, View(srv).stub} PROVE Ready(req.to.stub)
      <4>1. req.to.stub \in Times
        BY <1>01, <3>2 DEF Core, TypeOK, Saves, Calls, Views
      <4>2. Put(req.to.stub)
        BY <1>01, <2>2, <3>2 DEF Put, Puts
      <4> QED
        BY <4>1, <4>2 DEF Content, PutHolds
    <3> QED
      BY <2>2, <3>1, <3>2 DEF Landed, Content
  <2> QED
    BY <1>01, <2>1, <2>2, SaveStep
<1>1. CASE PageStep
  BY <1>1, PageOnly DEF Content
<1>2. CASE ServerStep
  BY <1>2, ServerSame DEF Same, Content
<1>3. CASE \E k \in Chats, acked \in BOOLEAN : PostChat(k, acked)
  BY <1>3, PostStep DEF Content
<1>4. CASE \E whole \in BOOLEAN : ServeSave(whole)
  <2>1. PICK whole \in BOOLEAN : ServeSave(whole)
    BY <1>4
  <2>2. srv' = AfterSave(Loaded(srv), save, whole) /\ save.kind = "save" /\ save.stage = "sent"
    BY <2>1 DEF ServeSave, Core, TypeOK, Saves
  <2> QED
    BY <1>01, <2>2
<1>5. CASE ServeStraySave
  <2>1. PICK r \in strays : r.kind = "save" /\ srv' = AfterSave(Loaded(srv), r, FALSE)
    BY <1>5 DEF ServeStraySave
  <2>2. r.stage = "sent"
    BY <2>1 DEF Answers
  <2> QED
    BY <1>01, <2>1, <2>2
<1>6. CASE RestoreSnapshot
  <2>1. snap.file.view.stub \in Rows \cup {NoRow} /\ snap # NotLoaded
    BY <1>6 DEF RestoreSnapshot
  <2>2. Full(snap.saved) /\ Holds(snap.file.view, snap.file.body, snap.saved)
    BY <2>1 DEF Content, SnapHolds, Holds
  <2> QED
    BY <1>6, <2>2, RestoreStep
<1>7. CASE Restart
  BY <1>7, RestartStep DEF Content
<1> QED
  BY <1>1, <1>2, <1>3, <1>4, <1>5, <1>6, <1>7, Steps

\* and with the rows as they are.
LEMMA AgreesNext ==
    ASSUME Core, ViewsFit, Answers, Content, Next, ~gone, ~gone', srv'.displaced = {}
    PROVE  Agrees(srv)'
<1>1. Agrees(srv')
  BY AgreesStep
<1>2. CASE rows' = rows
  BY <1>1, <1>2 DEF Agrees, Holds, View, Filled, FromRows, Full
<1>3. ASSUME srv' = Opened(srv), View(srv').stub # NoRow => rows'[View(srv').stub] = rows[View(srv').stub]
      PROVE  Agrees(srv)'
  <2>1. /\ ~srv'.timer /\ srv'.disk.view = View(srv') /\ srv'.store \in Bodies
        /\ srv'.saved = srv'.kept /\ View(srv').stub \in Times \cup {NoRow}
    <3>1. Same(srv') /\ ~srv'.timer /\ srv'.disk.view = View(srv) /\ srv'.store \in Bodies
          /\ srv'.kept = srv.saved
      BY <1>3, OpenedSame DEF Core
    <3>2. View(srv) \in Views
      BY ViewTypes DEF Core, Sound
    <3> QED
      BY <3>1, <3>2 DEF Same, Views
  <2>2. ASSUME View(srv').active PROVE srv'.store = srv'.saved /\ Full(srv'.store)
    BY <1>1, <2>1, <2>2, NoBodiesTypes DEF Agrees
  <2>3. ASSUME View(srv').active PROVE Filled(srv.store)' = srv'.store
    BY <2>1, <2>2, <2>3 DEF Filled, Over, Full, Bodies
  <2> QED
    BY <1>1, <1>3, <2>1, <2>2, <2>3 DEF Agrees, Holds, View, Full
<1>4. CASE RowWritten
  <2>1. srv' = Opened(srv) /\ Opened(srv).cache.stub = NoRow
    BY <1>4 DEF RowWritten, CanArchive
  <2>2. View(srv').stub = NoRow
    BY <2>1, OpenedSame DEF Core, View
  <2> QED
    BY <1>3, <2>1, <2>2
<1>5. CASE Purge
  <2>1. srv' = Opened(srv) /\ View(srv') = View(srv)
    BY <1>5, OpenedSame DEF Core, Purge, Same
  <2>2. ASSUME View(srv).stub # NoRow PROVE rows'[View(srv).stub] = rows[View(srv).stub]
    <3>1. View(srv).stub \in Times /\ rows[View(srv).stub] = srv.saved /\ Full(srv.saved)
      BY <2>2, ViewTypes DEF Core, Sound, Views, Content, Agrees
    <3>2. PICK k \in Chats : TRUE
      BY ArchiveAssumption
    <3>3. srv.saved # NoBodies
      BY <3>1, <3>2 DEF Full, NoBodies
    <3>4. View(srv).stub \in Rows
      BY <3>1, <3>3 DEF Rows
    <3> QED
      BY <3>1, <3>4, RowsKept
  <2> QED
    BY <1>3, <2>1, <2>2
<1> QED
  BY <1>2, <1>4, <1>5, RowsStep DEF Core, RowsDeleted

\* A row whose stub may still be put holds what was saved, or was overtaken.
LEMMA PutHoldsStep ==
    ASSUME Core, ViewsFit, NamedOnce, Answers, Content, Next, ~gone, ~gone', srv'.displaced = {}
    PROVE  PutHolds'
<1> SUFFICES ASSUME NEW t \in Times, Put(t)'
             PROVE  t \in Rows' /\ (t \in overtaken' \/ (rows'[t] = srv'.saved /\ rows'[t] = srv'.kept))
  BY DEF PutHolds, Ready
<1>1. CASE ServeArchive /\ CanArchive(Opened(srv)) /\ t = used.rows + 1
  <2> DEFINE s == Opened(srv)
  <2>1. /\ Same(s) /\ s.cache = View(srv) /\ s.cache # NotLoaded /\ s.store \in Bodies
        /\ s.kept = srv.saved /\ View(s) = View(srv)
    BY OpenedSame DEF Core, Same
  <2>2. Agrees(s) /\ s.cache.active /\ (\A k \in Chats : Filled(s.store)[k] # None) /\ srv' = s
    BY <1>1, <2>1 DEF Same, Content, CanArchive, ServeArchive
  <2>3. rows' = [rows EXCEPT ![t] = Filled(s.store)]
    BY <1>1 DEF ServeArchive, WriteRow
  <2> HIDE DEF s
  <2>4. Filled(s.store) = s.saved /\ s.saved = s.kept
    BY <2>1, <2>2, NoBodiesTypes DEF Agrees, Same
  <2>5. rows'[t] = Filled(s.store)
    BY <2>3 DEF Core, TypeOK
  <2>6. Filled(s.store) # NoBodies
    <3>1. PICK k \in Chats : TRUE
      BY ArchiveAssumption
    <3> QED
      BY <2>2, <3>1 DEF NoBodies
  <2> QED
    BY <2>2, <2>4, <2>5, <2>6 DEF Rows
<1>2. CASE Put(t) /\ ~RestoreSnapshot
  <2>1. Ready(t) /\ Wanted(t)
    BY <1>2, PutWanted DEF Content, PutHolds
  <2>2. t \in Rows' /\ rows'[t] = rows[t]
    BY <2>1, RowsKept DEF Ready
  <2>3. overtaken \subseteq overtaken'
    BY GhostTypes
  <2> SUFFICES ASSUME t \notin overtaken' PROVE rows[t] = srv'.saved /\ rows[t] = srv'.kept
    BY <2>2
  <2>4. rows[t] = srv.saved /\ rows[t] = srv.kept
    BY <2>1, <2>3 DEF Ready
  <2>5. CASE Overtake /\ (srv'.kept \in {srv.kept, srv.saved, srv'.saved})
    BY <2>1, <2>4, <2>5 DEF Overtake
  <2>6. ASSUME NEW req \in strays \cup {save}, req.kind = "save", NEW whole \in BOOLEAN,
               srv' = AfterSave(Loaded(srv), req, whole)
        PROVE  srv'.kept \in {srv.kept, srv.saved, srv'.saved}
    BY <2>6, SaveStep DEF Same, Landed
  <2>7. CASE PageStep
    BY <2>4, <2>7, PageOnly
  <2>8. CASE ServerStep
    BY <2>4, <2>8, ServerSame DEF Same
  <2>9. CASE \E k \in Chats, acked \in BOOLEAN : PostChat(k, acked)
    BY <2>5, <2>9, PostStep DEF PostChat
  <2>10. CASE \E whole \in BOOLEAN : ServeSave(whole)
    <3>1. PICK whole \in BOOLEAN : ServeSave(whole)
      BY <2>10
    <3>2. srv' = AfterSave(Loaded(srv), save, whole) /\ save.kind = "save" /\ Overtake
      BY <3>1 DEF ServeSave, Core, TypeOK, Saves
    <3> QED
      BY <2>5, <2>6, <3>2
  <2>11. CASE ServeStraySave
    <3>1. PICK r \in strays : r.kind = "save" /\ srv' = AfterSave(Loaded(srv), r, FALSE) /\ Overtake
      BY <2>11 DEF ServeStraySave
    <3> QED
      BY <2>5, <2>6, <3>1
  <2>12. CASE Restart
    BY <2>4, <2>12, RestartStep
  <2> QED
    BY <1>2, <2>7, <2>8, <2>9, <2>10, <2>11, <2>12, Steps
<1> QED
  BY <1>1, <1>2, PutStep

\* The snapshot's row holds what the snapshot was taken with, or is gone.
LEMMA SnapHoldsStep ==
    ASSUME Core, ViewsFit, NamedOnce, Answers, Content, Next, ~gone, ~gone', srv'.displaced = {}
    PROVE  SnapHolds'
<1>1. CASE TakeSnapshot
  <2>1. snap' = [file |-> srv.disk, saved |-> srv.kept] /\ rows' = rows
    BY <1>1 DEF TakeSnapshot
  <2>2. Full(srv.kept) /\ Holds(srv.disk.view, srv.disk.body, srv.kept)
    BY DEF Content, Agrees
  <2> QED
    BY <2>1, <2>2 DEF SnapHolds, Holds, Full, Rows, Times, NoRow
<1>2. CASE snap' = snap
  <2> SUFFICES ASSUME snap # NotLoaded
               PROVE  /\ Full(snap.saved)
                      /\ snap.file.view.active => snap.file.body = snap.saved
                      /\ snap.file.view.stub \in Rows' => rows'[snap.file.view.stub] = snap.saved
    BY <1>2 DEF SnapHolds, Full
  <2>1. snap.file.view.stub <= used.rows
    BY DEF ViewsFit, Fit
  <2>2. ASSUME snap.file.view.stub \in Rows'
        PROVE  snap.file.view.stub \in Rows /\ rows'[snap.file.view.stub] = rows[snap.file.view.stub]
    <3>1. snap.file.view.stub \in Times
      BY <2>2 DEF Rows
    <3> QED
      BY <2>1, <2>2, <3>1, RowsKept
  <2> QED
    BY <2>2 DEF Content, SnapHolds
<1>3. snap' = snap \/ TakeSnapshot
  BY SnapOrigin
<1> QED
  BY <1>1, <1>2, <1>3

---------------------------------------------------------------------------
(* The invariant is inductive *)

\* The invariant holds at the start,
LEMMA InvInit == Init => Inv
<1> SUFFICES ASSUME Init PROVE Inv
  OBVIOUS
<1> DEFINE zero == [k \in Chats |-> 0]
<1>0. /\ zero \in Bodies /\ Full(zero) /\ 0 \in Edits /\ Untouched \in Views
      /\ {MaxEdits, MaxRows, MaxRestarts, MaxReloads, MaxSnapshots} \subseteq Nat
      /\ NoBodies \in Bodies /\ NotLoaded \notin Bodies /\ NotLoaded \notin Views
  BY Bounds, NoBodiesTypes DEF Bodies, Full, None, Edits, Untouched, Views, NoRow
<1> DEFINE first == [disk |-> [view |-> Untouched, body |-> zero], cache |-> Untouched, store |-> zero,
              pending |-> NoRow, timer |-> FALSE,
              saved |-> zero, kept |-> zero, over |-> NoBodies, promised |-> NoRow,
              displaced |-> {}]
<1>1. srv = first
  BY DEF Init
<1> HIDE DEF zero
<1>2. srv \in Servers
  BY <1>0, <1>1 DEF Servers, Files
<1>3. NoSave \in Saves /\ NoCall \in Calls
  BY <1>0 DEF NoSave, NoCall, Saves, Calls, NoRow
<1>4. TypeOK
  <2>1. rows \in [Times -> Bodies]
    BY <1>0 DEF Init
  <2>2. page \in [base: Views, etag: Views, local: Views, dirty: Bodies]
    BY <1>0 DEF Init
  <2>3. used \in UsedTypes
    BY <1>0 DEF Init, UsedTypes
  <2>4. overtaken \subseteq Times /\ gone \in BOOLEAN /\ strays \subseteq Saves \cup Calls
        /\ snap \in Snapshots \cup {NotLoaded} /\ save \in Saves /\ call \in Calls
    BY <1>3 DEF Init
  <2> QED
    BY <1>2, <2>1, <2>2, <2>3, <2>4 DEF TypeOK, UsedTypes
<1>5. Rows = {} /\ RowsWritten
  BY DEF Init, Rows, RowsWritten
<1>6. Sound(srv)
  BY <1>0, <1>1, <1>2 DEF Sound
<1>7. View(srv) = Untouched /\ srv.disk.view = Untouched
  BY <1>0, <1>1 DEF View
<1>8. ViewsFit
  BY <1>0, <1>7 DEF Init, ViewsFit, Fit, NotBoth, Listed, Untouched, NoSave, NoRow
<1>9. NamedOnce /\ Answers
  BY DEF Init, NamedOnce, NewRow, Answers, NoCall, NoSave
<1>10. Agrees(srv)
  <2>1. Filled(zero) = zero
    BY <1>0, FullIsFilled
  <2> QED
    BY <1>0, <1>1, <1>7, <2>1 DEF Agrees, Holds, Untouched
<1>11. PutHolds /\ SnapHolds
  BY DEF Init, PutHolds, SnapHolds, Put, Puts, NewRow, NoCall, NoSave, Untouched, Times, NoRow
<1> QED
  BY <1>4, <1>5, <1>6, <1>8, <1>9, <1>10, <1>11 DEF Inv, Core, Content

\* and every step keeps it.
LEMMA InvNext == Inv /\ [Next]_vars => Inv'
<1> SUFFICES ASSUME Inv, [Next]_vars PROVE Inv'
  OBVIOUS
<1>1. CASE Next
  <2>1. Core /\ ViewsFit /\ NamedOnce /\ Answers
    BY DEF Inv
  <2>2. Core' /\ ViewsFit' /\ NamedOnce' /\ Answers'
    BY <1>1, <2>1, CoreStep, ViewsFitStep, NamedOnceStep, AnswersStep
  <2>3. ASSUME ~gone', srv'.displaced = {} PROVE Content'
    <3>1. ~gone /\ srv.displaced = {}
      BY <1>1, <2>1, <2>3, GhostTypes, SoundStep
    <3>2. Content
      BY <3>1 DEF Inv
    <3> QED
      BY <1>1, <2>1, <2>3, <3>1, <3>2, AgreesNext, PutHoldsStep, SnapHoldsStep DEF Content
  <2> QED
    BY <2>2, <2>3 DEF Inv
<1>2. CASE UNCHANGED vars
  BY <1>2 DEF vars, Inv, Core, TypeOK, RowsWritten, Rows, ViewsFit, Fit, NamedOnce,
     Revisions, NewRow, Answers, Content, Agrees, View, Filled, FromRows, Holds, PutHolds, Put, Puts,
     Ready, SnapHolds
<1> QED
  BY <1>1, <1>2

\* The invariant holds always.
THEOREM SpecInv == Spec => []Inv
  BY InvInit, InvNext, PTL DEF Spec

---------------------------------------------------------------------------

\* Every variable has its type.
THEOREM SpecTypeOK == Spec => []TypeOK
<1>1. Inv => TypeOK
  BY DEF Inv, Core
<1> QED
  BY <1>1, SpecInv, PTL

\* However archive calls, posts, saves, rebases, purges, reloads, restores and
\* restarts interleave, the character is listed once and has the bodies last
\* acknowledged, in memory and on disk, until the user deletes it or an
\* activation displaces posts or the row this process had activated.
THEOREM SpecHoldsSaved == Spec => []HoldsSaved
<1>1. Inv => HoldsSaved
  <2> SUFFICES ASSUME Inv, ~gone
               PROVE  InOnePlace /\ (srv.displaced = {} => MemoryHoldsSaved /\ DiskHoldsSaved)
    BY DEF HoldsSaved
  <2>1. Core /\ ViewsFit /\ (srv.displaced = {} => Agrees(srv))
    BY DEF Inv, Content
  <2>2. ASSUME srv.displaced = {} PROVE MemoryHoldsSaved
    <3> DEFINE n == WithStore(srv)
    <3>1. n.store \in Bodies /\ n.cache = srv.cache /\ n.disk = srv.disk /\ n.saved = srv.saved
          /\ Agrees(n)
      BY <2>1, <2>2, WithStoreKeeps DEF Core
    <3> HIDE DEF n
    <3>2. View(n) = View(srv)
      BY <3>1 DEF View
    <3>3. View(n).active => Filled(n.store) = n.saved
      BY <3>1, NoBodiesTypes DEF Agrees
    <3> QED
      BY <2>1, <2>2, <3>1, <3>2, <3>3 DEF MemoryHoldsSaved, Holds, Agrees, n
  <2>3. ASSUME srv.displaced = {} PROVE DiskHoldsSaved
    BY <2>1, <2>3 DEF DiskHoldsSaved, Agrees
  <2>4. InOnePlace
    <3>1. \A v \in {View(srv), srv.disk.view, page.local} : v \in Views /\ Fit(v)
      BY <2>1, ViewTypes DEF Core, Sound, TypeOK, ViewsFit
    <3>2. \A v \in Views : v.active \in BOOLEAN
      BY DEF Views
    <3> QED
      BY <3>1, <3>2 DEF InOnePlace, Fit, NotBoth, Listed
  <2> QED
    BY <2>2, <2>3, <2>4
<1> QED
  BY <1>1, SpecInv, PTL

\* A snapshot whose row was not purged finds the bodies it was taken with, unless
\* the user deleted the character or an activation displaced what was saved.
THEOREM SpecSnapshotResolves == Spec => []SnapshotResolves
<1>1. Inv => SnapshotResolves
  BY DEF Inv, Content, SnapHolds, SnapshotResolves, Holds
<1> QED
  BY <1>1, SpecInv, PTL

\* The server that answered an activation does not refuse its save, unless a
\* late activation of another row displaced what it had registered.
THEOREM SpecActivationIsAccepted == Spec => ActivationIsAccepted
<1>1. ASSUME Inv, [Next]_vars, save.stage = "sent", save'.stage \in {"conflict", "rejected"},
             View(srv) = save.from
      PROVE  srv.promised \notin {save.from.stub} \ {NoRow} \/ "row" \in srv.displaced
  <2>1. Core /\ ViewsFit /\ save \in Saves
    <3>1. Core /\ ViewsFit
      BY <1>1 DEF Inv
    <3> QED
      BY <3>1 DEF Core, TypeOK
  <2>2. CASE \E whole \in BOOLEAN : ServeSave(whole)
    <3> DEFINE s == Loaded(srv)
    <3>1. /\ Sound(s) /\ s.promised = srv.promised /\ s.displaced = srv.displaced
          /\ s.cache = save.from /\ SaveAnswer(s, save) # "saved"
      <4>1. save.to \in Views /\ NotBoth(save.to) /\ FALSE \in BOOLEAN
        BY <2>1 DEF ViewsFit, Fit, Saves
      <4>2. /\ Sound(s) /\ s.promised = srv.promised /\ s.displaced = srv.displaced
            /\ s.cache = View(srv)
        BY <2>1, <4>1, SaveLands DEF Core
      <4>3. save' = [save EXCEPT !.stage = Outcome(s, SaveAnswer(s, save))]
        BY <2>2 DEF ServeSave
      <4>4. Outcome(s, SaveAnswer(s, save)) # "saved"
        BY <1>1, <2>1, <4>3 DEF Saves
      <4> QED
        BY <1>1, <4>2, <4>4 DEF Outcome
    <3>2. ArchiveConflict(s, save.to)
      BY <3>1 DEF SaveAnswer
    <3>3. s.store = NoBodies
      BY <2>1, <3>2 DEF ArchiveConflict, ViewsFit, Fit, NotBoth, Saves
    <3> QED
      BY <3>1, <3>3 DEF Sound
  <2>3. CASE ~(\E whole \in BOOLEAN : ServeSave(whole)) /\ Next
    <3>1. save' = save \/ save' = NoSave \/ SendSave \/ FullWrite
      BY <2>3 DEF Next, EditChat, PostChat, SaveDone, SaveRejected, SaveAnswerLost, Rebase,
         SendArchive, ArchiveDone, SendActivate, ActivateDone, ActivateRefused, AskAgain,
         ActivateMissing, SendDelete, DeleteDone, CallFailed, ServeArchive, ServeActivate,
         ServeDelete, Purge, ServeStraySave, ServeStrayCall, Leave, Persist, TakeSnapshot,
         Reload, Boot, RestoreSnapshot, Restart
    <3>2. NoSave.stage = "idle"
      BY DEF NoSave
    <3>3. SendSave \/ FullWrite => save'.stage = "sent"
      BY <2>1 DEF NoSave, SendSave, FullWrite, Saves
    <3> QED
      BY <1>1, <3>1, <3>2, <3>3
  <2>4. CASE UNCHANGED vars
    BY <1>1, <2>4 DEF vars
  <2> QED
    BY <1>1, <2>2, <2>3, <2>4
<1>2. Inv /\ [Next]_vars => [/\ save.stage = "sent" /\ save'.stage \in {"conflict", "rejected"}
                             /\ View(srv) = save.from
                             => srv.promised \notin {save.from.stub} \ {NoRow}
                                \/ "row" \in srv.displaced]_vars
  BY <1>1
<1> QED
  BY <1>2, SpecInv, PTL DEF Spec, ActivationIsAccepted

=============================================================================
