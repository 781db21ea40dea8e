--------------------------- MODULE SaveLoopProofs ---------------------------
(***************************************************************************)
(* What SaveLoop keeps, for any fields, any number of edits, other         *)
(* devices' writes and failures: no edit is forgotten before the server    *)
(* had it, none is counted as saved too early, and a page that reloads by  *)
(* itself loses nothing.                                                   *)
(*                                                                         *)
(* The inductive invariant follows an edit through an attempt.  Those the  *)
(* attempt started after (Early) are in its list and, once the request is  *)
(* built, in what is sent (Carried); newer ones are in the tracker (Late). *)
(* So when the server has taken what was sent, the edits left unsaved are  *)
(* exactly the late ones.                                                  *)
(*                                                                         *)
(* The second part is about what the page writes over: its copies of the   *)
(* server's database (the baseline, the etag's revision, the one a request *)
(* is checked against) differ from its own only in edits of its own.       *)
(***************************************************************************)
EXTENDS SaveLoop, TLAPS

Busy == att.pc # "idle"

\* Unsaved edits of the page that the attempt started after.
Early(f) == Unsaved(f) /\ db[f].n <= att.start

Carried ==
    Busy => \A f \in Fields : Early(f) => f \in att.toSave

Late ==
    \A f \in Fields : Unsaved(f) /\ (Busy => ~Early(f)) => f \in tracked

Sending ==
    att.pc \in {"patch", "patched", "write", "written"} =>
        \A f \in Fields : Early(f) => att.sent[f] = db[f]

Stored ==
    att.ans = "ok" => \A f \in Fields : att.sent[f] \in reached

\* The server's content is known to it, and so is what was read from it.
Known ==
    /\ Start \in reached
    /\ \A f \in Fields : view[f] \in reached /\ att.cur[f] \in reached

\* The page's edits in any copy of the database are counted.
Counted(e) == e.by = "page" => e.n <= editSeq

AllCounted ==
    /\ \A e \in reached : Counted(e)
    /\ \A f \in Fields : /\ Counted(db[f]) /\ Counted(base[f])
                         /\ Counted(att.exp[f]) /\ Counted(att.sent[f])

AttemptOK ==
    /\ ~Busy => att = Idle
    /\ att.head \in att.toSave \cup {NoChar}
    /\ att.ans # "none" => att.pc \in {"patched", "written"}

IInv ==
    /\ TypeOK
    /\ AttemptOK
    /\ Known
    /\ AllCounted
    /\ Carried
    /\ Late
    /\ Sending
    /\ Stored
    /\ SavedReached

---------------------------------------------------------------------------
(* Types.                                                                  *)

LEMMA StartIsEdit == Start \in Edits /\ NewDb \in Databases /\ Gone \in Edits
  BY DEF Start, NewDb, Edits, Databases, Gone, Statuses

LEMMA IdleIsAttempt == Idle \in Attempts
  BY StartIsEdit DEF Idle, Attempts, Phases, Answers

LEMMA MergedIsDatabase ==
  ASSUME TypeOK PROVE Merged \in Databases
<1>1. ASSUME NEW f \in Fields
      PROVE  Merged[f] \in {db[f], att.cur[f], Gone}
  BY <1>1 DEF Merged, MergedChar, Fields
<1>2. db \in [Fields -> Edits] /\ att.cur \in [Fields -> Edits]
  BY DEF TypeOK, Attempts, Databases
<1> QED BY <1>1, <1>2, StartIsEdit DEF Merged, Databases

LEMMA BaselineIsDatabase ==
  ASSUME TypeOK PROVE BaselineBefore \in Databases
<1>1. ASSUME NEW f \in Fields
      PROVE  BaselineBefore[f] \in {base[f], att.exp[f], Gone}
  BY <1>1 DEF BaselineBefore
<1>2. base \in [Fields -> Edits] /\ att.exp \in [Fields -> Edits]
  BY DEF TypeOK, Attempts, Databases
<1> QED BY <1>1, <1>2, StartIsEdit DEF BaselineBefore, Databases

LEMMA SentIsDatabase ==
  ASSUME NEW b \in Databases, NEW d \in Databases, NEW s
  PROVE  Sent(b, d, s) \in Databases
  BY DEF Sent, Databases

\* Requeue keeps the tracker's shape when the attempt's head is in its list.
LEMMA RequeueTypes ==
  ASSUME TypeOK, NEW s \in SUBSET Fields, NEW h \in s \cup {NoChar},
         h \in Chars \cup {NoChar}, Requeue(s, h)
  PROVE  /\ tracked' \subseteq Fields
         /\ head' \in (tracked' \cap Chars) \cup {NoChar}
<1>1. tracked' = tracked \cup s
  BY DEF Requeue
<1>2. head' \in (tracked' \cap Chars) \cup {NoChar}
  <2>1. CASE h # NoChar BY <1>1, <2>1 DEF Requeue
  <2>2. CASE h = NoChar /\ s \cap Chars = {} BY <1>1, <2>2 DEF Requeue, TypeOK
  <2>3. CASE h = NoChar /\ s \cap Chars # {} BY <1>1, <2>3 DEF Requeue
  <2> QED BY <2>1, <2>2, <2>3
<1> QED BY <1>1, <1>2 DEF TypeOK

LEMMA TypeInit == Init => TypeOK
<1> SUFFICES ASSUME Init PROVE TypeOK
  OBVIOUS
<1>1. /\ view \in Databases /\ db \in Databases /\ base \in Databases
      /\ etag \in Databases /\ synced \in Databases /\ reached \subseteq Edits
  BY StartIsEdit DEF Init
<1>2. att \in Attempts /\ att.start <= editSeq
  BY IdleIsAttempt DEF Init, Idle
<1>3. /\ foreign \in 0..MaxForeign /\ edits \in 0..MaxEdits
      /\ unseen \in 0..MaxUnseen /\ faults \in 0..MaxFaults
      /\ editSeq \in Nat /\ savedEditSeq \in 0..editSeq
  BY BoundsAssumption DEF Init
<1> QED BY <1>1, <1>2, <1>3 DEF Init, TypeOK

LEMMA TypeStep ==
  ASSUME TypeOK, AttemptOK, [Next]_vars
  PROVE  TypeOK'
<1> USE DEF TypeOK
<1>a. /\ Start \in Edits /\ NewDb \in Databases
      /\ \A d \in Databases : \A f \in Fields : d[f] \in Edits
      /\ Idle \in Attempts
  BY StartIsEdit, IdleIsAttempt DEF Databases
<1>b. att.head \in att.toSave \cup {NoChar}
  BY DEF AttemptOK
<1>1. ASSUME NEW f \in Fields, NEW st \in Statuses, Edit(f, st)
      PROVE  TypeOK'
  <2>1. [by |-> "page", n |-> editSeq + 1, st |-> st] \in Edits
    BY DEF Edits
  <2>2. db' \in Databases
    BY <1>1, <2>1 DEF Edit, Databases
  <2>3. tracked' \subseteq Fields /\ f \in tracked' /\ tracked \subseteq tracked'
    BY <1>1 DEF Edit, Tracks, Fields
  <2>4. head' \in (tracked' \cap Chars) \cup {NoChar}
    BY <1>1, <2>3 DEF Edit, Heads, Active
  <2>5. /\ edits' \in 0..MaxEdits
        /\ editSeq' \in Nat /\ savedEditSeq' \in 0..editSeq'
        /\ att'.start <= editSeq'
    BY <1>1, BoundsAssumption DEF Edit, Attempts
  <2>6. registered' \subseteq Chars
    BY <1>1 DEF Edit, Archived
  <2> QED BY <1>1, <2>2, <2>3, <2>4, <2>5, <2>6 DEF Edit, syncVars, genVars
<1>2. ASSUME NEW f \in Fields, NEW st \in Statuses, OtherWrites(f, st)
      PROVE  TypeOK'
  <2>1. [by |-> "other", n |-> foreign + 1, st |-> st] \in Edits
    BY BoundsAssumption DEF Edits
  <2>2. view' \in Databases /\ view'[f] \in Edits
    BY <1>2, <2>1 DEF OtherWrites, Databases
  <2> QED BY <1>2, <2>2, BoundsAssumption
        DEF OtherWrites, syncVars, trackVars, seqVars, genVars
<1>3. ASSUME NEW c \in Chars, Selects(c)
      PROVE  TypeOK'
  BY <1>3, BoundsAssumption
     DEF Selects, Fields, serverVars, syncVars, genVars, Attempts
<1>4. ASSUME NEW c \in Chars, BackgroundEdit(c)
      PROVE  TypeOK'
  <2>1. [by |-> "background", n |-> unseen + 1, st |-> "active"] \in Edits
    BY BoundsAssumption DEF Edits, Statuses
  <2>2. db' \in Databases
    BY <1>4, <2>1 DEF BackgroundEdit, Databases
  <2> QED BY <1>4, <2>2, BoundsAssumption
        DEF BackgroundEdit, serverVars, syncVars, trackVars, seqVars
<1>5. ASSUME NEW c \in Chars, GenerationStarts(c) \/ GenerationEnds(c)
      PROVE  TypeOK'
  BY <1>5, BoundsAssumption
     DEF GenerationStarts, GenerationEnds, serverVars, syncVars, trackVars, seqVars
<1>6. ASSUME NEW byLoop \in BOOLEAN, Takes(byLoop), changed' \in BOOLEAN
      PROVE  TypeOK'
  <2>1. att' \in Attempts /\ att'.start = editSeq
    BY <1>6, <1>a DEF Takes, Attempts, Idle, Phases, Answers
  <2>2. tracked' \subseteq Fields /\ head' \in (tracked' \cap Chars) \cup {NoChar}
    BY <1>6 DEF Takes, Fields
  <2>3. att'.start <= editSeq'
    BY <1>6, <2>1 DEF Takes, seqVars
  <2> QED BY <1>6, <2>1, <2>2, <2>3
        DEF Takes, serverVars, syncVars, seqVars, genVars
<1>7. CASE LoopJoins
  BY <1>7 DEF LoopJoins, Attempts, serverVars, syncVars, seqVars, genVars
<1>8. CASE PatchSet
  <2>1. base' \in Databases
    BY <1>8, SentIsDatabase DEF PatchSet
  <2>2. att' \in Attempts /\ att'.start = att.start
    BY <1>8, <2>1 DEF PatchSet, Attempts, Phases, Active
  <2> QED BY <1>8, <2>1, <2>2 DEF PatchSet, serverVars, trackVars, seqVars, genVars
<1>9. CASE ServerPatch \/ ServerWrite
  <2>1. view' \in Databases /\ reached' \subseteq Edits
    BY <1>9, <1>a DEF ServerPatch, ServerWrite, Stores, Rejects, Attempts
  <2>2. att' \in Attempts /\ att'.start = att.start
    BY <1>9, <2>1 DEF ServerPatch, ServerWrite, Answered, Attempts, Phases, Answers
  <2>3. faults' \in 0..MaxFaults
    BY <1>9, BoundsAssumption DEF ServerPatch, ServerWrite, Fault
  <2>4. registered' \subseteq Chars
    BY <1>9 DEF ServerPatch, ServerWrite, Stores, Rejects
  <2> QED BY <1>9, <2>1, <2>2, <2>3, <2>4
        DEF ServerPatch, ServerWrite, syncVars, trackVars, seqVars, genVars
<1>10. CASE AnswerLost \/ FullWrite \/ StartsRebase \/ ServerRead
  <2>1. att' \in Attempts /\ att'.start = att.start
    <3> USE DEF Attempts, Phases, Answers
    <3>1. CASE AnswerLost BY <3>1, <1>a DEF AnswerLost
    <3>2. CASE FullWrite BY <3>2, <1>a DEF FullWrite
    <3>3. CASE StartsRebase BY <3>3, <1>a DEF StartsRebase
    <3>4. CASE ServerRead BY <3>4, <1>a DEF ServerRead
    <3> QED BY <1>10, <3>1, <3>2, <3>3, <3>4
  <2>2. faults' \in 0..MaxFaults
    BY <1>10, BoundsAssumption
       DEF AnswerLost, FullWrite, StartsRebase, ServerRead, Fault
  <2>3. etag' \in Databases
    BY <1>10 DEF AnswerLost, FullWrite, StartsRebase, ServerRead, syncVars, Attempts
  <2> QED BY <1>10, <2>1, <2>2, <2>3
        DEF AnswerLost, FullWrite, StartsRebase, ServerRead,
            serverVars, syncVars, trackVars, seqVars, genVars
<1>11. CASE PatchSaved \/ WriteSaved
  <2>1. savedEditSeq' \in 0..editSeq
    BY <1>11 DEF PatchSaved, WriteSaved, Saved, Attempts
  <2>2. att' = Idle /\ att'.start = 0
    BY <1>11 DEF PatchSaved, WriteSaved, Saved, Idle
  <2> QED BY <1>11, <1>a, <2>1, <2>2
        DEF PatchSaved, WriteSaved, Saved, Attempts, serverVars, trackVars, genVars
<1>12. CASE RequestLost \/ GivesUp \/ Refused \/ ReadFails
  <2>1. Fails /\ UNCHANGED syncVars
    BY <1>12 DEF RequestLost, GivesUp, Refused, ReadFails
  <2>2. faults' \in 0..MaxFaults
    BY <1>12, BoundsAssumption DEF RequestLost, GivesUp, Refused, ReadFails, Fault
  <2>3. /\ tracked' \subseteq Fields
        /\ head' \in (tracked' \cap Chars) \cup {NoChar}
    BY <1>b, <2>1, RequeueTypes DEF Fails, Attempts
  <2>4. att' = Idle /\ att'.start = 0
    BY <2>1 DEF Fails, Idle
  <2> QED BY <1>a, <2>1, <2>2, <2>3, <2>4
        DEF Fails, serverVars, syncVars, seqVars, genVars
<1>18. CASE SaveRejected
  <2>1. Requeue(att.toSave, att.head) /\ att' = Idle
    BY <1>18 DEF SaveRejected
  <2>2. /\ tracked' \subseteq Fields
        /\ head' \in (tracked' \cap Chars) \cup {NoChar}
    BY <1>b, <2>1, RequeueTypes DEF Attempts
  <2>3. att' = Idle /\ att'.start = 0
    BY <2>1 DEF Idle
  <2> QED BY <1>18, <1>a, <2>2, <2>3
        DEF SaveRejected, serverVars, syncVars, seqVars, genVars
<1>19. CASE ServerRestarts
  BY <1>19, BoundsAssumption
     DEF ServerRestarts, Fault, syncVars, trackVars, seqVars, genVars
<1>13. CASE Rebased
  <2>1. db' \in Databases /\ base' \in Databases /\ synced' \in Databases
    BY <1>13, MergedIsDatabase DEF Rebased, Attempts
  <2>2. /\ tracked' \subseteq Fields
        /\ head' \in (tracked' \cap Chars) \cup {NoChar}
    <3> DEFINE moved == {c \in Chars : (c \in Active(db)) # (c \in Active(db'))}
               all == att.toSave \cup Overlaid \cup moved \cup (Fields \ Chars)
    <3>1. Requeue(all, att.head)
      BY <1>13 DEF Rebased
    <3>2. all \in SUBSET Fields /\ att.head \in all \cup {NoChar}
          /\ att.head \in Chars \cup {NoChar}
      BY <1>b DEF Overlaid, Attempts, Fields
    <3> HIDE DEF all
    <3> QED BY <3>1, <3>2, RequeueTypes
  <2>3. att' = Idle /\ att'.start = 0
    BY <1>13 DEF Rebased, Idle
  <2>4. generating' \subseteq Chars
    BY <1>13 DEF Rebased
  <2> QED BY <1>13, <1>a, <2>1, <2>2, <2>3, <2>4 DEF Rebased, serverVars
<1>14. CASE Defers
  <2>1. base' \in Databases /\ etag' \in Databases
    BY <1>14, BaselineIsDatabase DEF Defers, Attempts
  <2>2. /\ tracked' \subseteq Fields
        /\ head' \in (tracked' \cap Chars) \cup {NoChar}
    <3> DEFINE all == att.toSave \cup Overlaid
    <3>1. Requeue(all, att.head)
      BY <1>14 DEF Defers
    <3>2. all \in SUBSET Fields /\ att.head \in all \cup {NoChar}
          /\ att.head \in Chars \cup {NoChar}
      BY <1>b DEF Overlaid, Attempts, Fields
    <3> HIDE DEF all
    <3> QED BY <3>1, <3>2, RequeueTypes
  <2>3. att' = Idle /\ att'.start = 0
    BY <1>14 DEF Defers, Idle
  <2>4. faults' \in 0..MaxFaults
    BY <1>14, BoundsAssumption DEF Defers, Fault
  <2> QED BY <1>14, <1>a, <2>1, <2>2, <2>3, <2>4
        DEF Defers, serverVars, seqVars, genVars
<1>15. CASE HandOff
  BY <1>15 DEF HandOff, serverVars, syncVars, trackVars, seqVars, genVars
<1>16. CASE AutoReload \/ UserReload
  <2>1. savedEditSeq' = editSeq /\ editSeq' = editSeq /\ att' = att
    BY <1>16 DEF AutoReload, UserReload, Reload
  <2>2. tracked' = {} /\ head' = NoChar /\ generating' = {}
    BY <1>16 DEF AutoReload, UserReload, Reload
  <2>3. savedEditSeq' \in 0..editSeq' /\ att'.start <= editSeq'
    BY <2>1
  <2> QED BY <1>16, <2>1, <2>2, <2>3 DEF AutoReload, UserReload, Reload, serverVars
<1>17. CASE UNCHANGED vars
  BY <1>17 DEF vars
<1> QED
  BY <1>1, <1>2, <1>3, <1>4, <1>5, <1>6, <1>7, <1>8, <1>9, <1>10, <1>11, <1>12,
     <1>13, <1>14, <1>15, <1>16, <1>17, <1>18, <1>19
     DEF Next, PageSteps, ServerSteps, LoopSaves, Flush

---------------------------------------------------------------------------
(* The invariant.                                                          *)

LEMMA IInvInit == Init => IInv
<1> SUFFICES ASSUME Init PROVE IInv
  OBVIOUS
<1>1. TypeOK
  BY TypeInit
<1>2. \A f \in Fields : NewDb[f] = Start
  BY DEF NewDb
<1>3. att = Idle /\ db = NewDb /\ base = NewDb /\ view = NewDb /\ reached = {Start}
  BY DEF Init
<1>4. AttemptOK /\ Known /\ AllCounted
  BY <1>2, <1>3 DEF AttemptOK, Busy, Idle, Known, AllCounted, Counted, Start
<1>5. Carried /\ Late /\ Sending /\ Stored /\ SavedReached
  BY <1>2, <1>3
     DEF Carried, Late, Early, Sending, Stored, SavedReached, Unsaved, Busy, Idle, Start
<1> QED BY <1>1, <1>4, <1>5 DEF IInv

\* The steps that leave the copies and the tracker alone.
LEMMA QuietStep ==
  ASSUME IInv, TypeOK', UNCHANGED <<db, base, view, reached, tracked, att, editSeq,
                                    savedEditSeq>>
  PROVE  IInv'
  BY DEF IInv, AttemptOK, Known, AllCounted, Counted, Carried, Late, Early, Sending,
         Stored, SavedReached, Unsaved, Busy

\* An edit of the page: it is newer than any attempt, and tracked.
LEMMA EditStep ==
  ASSUME IInv, TypeOK', NEW f \in Fields, NEW st \in Statuses, Edit(f, st)
  PROVE  IInv'
<1>1. /\ db' = [db EXCEPT ![f] = [by |-> "page", n |-> editSeq + 1, st |-> st]]
      /\ editSeq' = editSeq + 1 /\ savedEditSeq' = savedEditSeq
      /\ tracked \subseteq tracked' /\ f \in tracked'
      /\ UNCHANGED <<view, reached, base, att>>
  BY DEF Edit, Tracks, syncVars, Fields
<1>2. /\ editSeq \in Nat /\ att.start \in Nat /\ savedEditSeq \in Nat
      /\ att.start <= editSeq /\ savedEditSeq <= editSeq
      /\ db \in [Fields -> Edits]
  BY DEF IInv, TypeOK, Attempts, Databases
<1>3. db'[f].n = editSeq + 1 /\ \A g \in Fields \ {f} : db'[g] = db[g]
  BY <1>1, <1>2
<1>4. ~Early(f)' /\ \A g \in Fields \ {f} : (Early(g)' <=> Early(g))
  BY <1>1, <1>2, <1>3 DEF Early, Unsaved
<1>5. AllCounted'
  <2>1. \A e \in Edits : Counted(e) => Counted(e)'
    BY <1>1, <1>2 DEF Counted, Edits
  <2>2. Counted(db[f])'
    BY <1>1, <1>2, <1>3 DEF Counted
  <2>3. /\ reached \subseteq Edits
        /\ \A g \in Fields : /\ db[g] \in Edits /\ base[g] \in Edits
                             /\ att.exp[g] \in Edits /\ att.sent[g] \in Edits
    BY DEF IInv, TypeOK, Attempts, Databases
  <2>4. /\ \A e \in reached : Counted(e)'
        /\ \A g \in Fields : /\ Counted(base[g])' /\ Counted(att.exp[g])'
                             /\ Counted(att.sent[g])'
    BY <1>1, <2>1, <2>3 DEF IInv, AllCounted, Counted
  <2>5. \A g \in Fields \ {f} : Counted(db[g])'
    BY <1>1, <1>3, <2>1, <2>3 DEF IInv, AllCounted, Counted
  <2> QED BY <1>1, <2>2, <2>4, <2>5 DEF AllCounted, Counted
<1>6. SavedReached'
  BY <1>1, <1>2, <1>3 DEF IInv, SavedReached, Unsaved
<1>7. Carried' /\ Late' /\ Sending'
  BY <1>1, <1>3, <1>4 DEF IInv, Carried, Late, Sending, Busy, Unsaved
<1>8. AttemptOK' /\ Known' /\ Stored'
  BY <1>1 DEF IInv, AttemptOK, Busy, Known, Stored
<1> QED BY <1>5, <1>6, <1>7, <1>8 DEF IInv

LEMMA SelectsStep ==
  ASSUME IInv, TypeOK', NEW c \in Chars, Selects(c)
  PROVE  IInv'
<1>1. /\ editSeq' = editSeq + 1 /\ tracked \subseteq tracked'
      /\ UNCHANGED <<db, view, reached, base, att, savedEditSeq>>
  BY DEF Selects, serverVars, syncVars
<1>2. /\ editSeq \in Nat /\ reached \subseteq Edits
      /\ \A g \in Fields : /\ db[g] \in Edits /\ base[g] \in Edits
                           /\ att.exp[g] \in Edits /\ att.sent[g] \in Edits
  BY DEF IInv, TypeOK, Attempts, Databases
<1>3. \A e \in Edits : (e.by = "page" => e.n <= editSeq)
                        => (e.by = "page" => e.n <= editSeq')
  BY <1>1, <1>2 DEF Edits
<1>4. AllCounted'
  BY <1>1, <1>2, <1>3 DEF IInv, AllCounted, Counted
<1>5. AttemptOK' /\ Known' /\ Carried' /\ Late' /\ Sending' /\ Stored' /\ SavedReached'
  BY <1>1 DEF IInv, AttemptOK, Known, Carried, Late, Early, Sending, Stored,
              SavedReached, Unsaved, Busy
<1> QED BY <1>4, <1>5 DEF IInv

\* What is not the page's is never unsaved.
LEMMA BackgroundStep ==
  ASSUME IInv, TypeOK', NEW c \in Chars, BackgroundEdit(c)
  PROVE  IInv'
<1>1. /\ db' = [db EXCEPT ![c] =
                  [by |-> "background", n |-> unseen + 1, st |-> "active"]]
      /\ UNCHANGED <<view, reached, base, att, tracked, editSeq, savedEditSeq>>
  BY DEF BackgroundEdit, serverVars, syncVars, trackVars, seqVars
<1>2. db \in [Fields -> Edits] /\ c \in Fields
  BY DEF IInv, TypeOK, Databases, Fields
<1>3. db'[c].by = "background" /\ \A g \in Fields \ {c} : db'[g] = db[g]
  BY <1>1, <1>2
<1>4. AllCounted'
  BY <1>1, <1>2, <1>3 DEF IInv, AllCounted, Counted
<1>5. \A g \in Fields : Unsaved(g)' => Unsaved(g) /\ db'[g] = db[g]
  BY <1>1, <1>3 DEF Unsaved
<1>6. Carried' /\ Late' /\ Sending' /\ SavedReached'
  BY <1>1, <1>5 DEF IInv, Carried, Late, Early, Sending, SavedReached, Busy
<1>7. AttemptOK' /\ Known' /\ Stored'
  BY <1>1 DEF IInv, AttemptOK, Known, Stored, Busy
<1> QED BY <1>4, <1>6, <1>7 DEF IInv

\* The server learns more: what it holds is known, nothing becomes unsaved.
LEMMA ServerLearns ==
  ASSUME IInv, reached \subseteq reached', UNCHANGED <<db, tracked, savedEditSeq>>,
         att'.pc # "idle", att'.start = att.start, att'.toSave = att.toSave,
         Busy
  PROVE  Carried' /\ Late' /\ SavedReached'
<1>1. \A f \in Fields : Unsaved(f)' => Unsaved(f)
  BY DEF Unsaved
<1> QED BY <1>1 DEF IInv, Carried, Late, Early, SavedReached, Busy, Unsaved

LEMMA OtherStep ==
  ASSUME IInv, TypeOK', NEW f \in Fields, NEW st \in Statuses, OtherWrites(f, st)
  PROVE  IInv'
<1>1. /\ view' = [view EXCEPT ![f] = [by |-> "other", n |-> foreign + 1, st |-> st]]
      /\ reached' = reached \cup {view'[f]}
      /\ UNCHANGED <<db, base, att, tracked, editSeq, savedEditSeq>>
  BY DEF OtherWrites, syncVars, trackVars, seqVars
<1>2. view \in [Fields -> Edits]
  BY DEF IInv, TypeOK, Databases
<1>3. view'[f].by = "other" /\ \A g \in Fields \ {f} : view'[g] = view[g]
  BY <1>1, <1>2
<1>4. Known' /\ AllCounted'
  BY <1>1, <1>3 DEF IInv, Known, AllCounted, Counted
<1>5. \A g \in Fields : Unsaved(g)' => Unsaved(g)
  BY <1>1 DEF Unsaved
<1>6. Carried' /\ Late' /\ Sending' /\ SavedReached'
  BY <1>1, <1>5 DEF IInv, Carried, Late, Early, Sending, SavedReached, Busy, Unsaved
<1>7. AttemptOK' /\ Stored'
  BY <1>1 DEF IInv, AttemptOK, Stored, Busy
<1> QED BY <1>4, <1>6, <1>7 DEF IInv

\* An attempt takes the tracker: everything unsaved is in it and not newer.
LEMMA TakesStep ==
  ASSUME IInv, TypeOK', NEW byLoop, Takes(byLoop)
  PROVE  IInv'
<1>1. /\ att = Idle /\ ~Busy
      /\ att' = [Idle EXCEPT !.pc = "chats", !.toSave = tracked, !.head = head,
                             !.start = editSeq, !.byLoop = byLoop]
      /\ UNCHANGED <<view, reached, db, base, editSeq, savedEditSeq>>
  BY DEF Takes, serverVars, syncVars, seqVars, Busy, Idle
<1>2. /\ att'.pc = "chats" /\ att'.toSave = tracked /\ att'.head = head
      /\ att'.start = editSeq /\ att'.ans = "none"
      /\ att'.exp = NewDb /\ att'.sent = NewDb /\ att'.cur = NewDb
  BY <1>1 DEF Idle
<1>3. \A f \in Fields : NewDb[f] = Start
  BY DEF NewDb
<1>4. AttemptOK' /\ Known' /\ AllCounted'
  BY <1>1, <1>2, <1>3
     DEF IInv, TypeOK, AttemptOK, Busy, Known, AllCounted, Counted, Start
<1>5. \A f \in Fields : Unsaved(f)' => Unsaved(f) /\ Early(f)' /\ f \in tracked
  <2>1. \A f \in Fields : Unsaved(f) => f \in tracked /\ db[f].n <= editSeq
    BY <1>1 DEF IInv, Late, Unsaved, AllCounted, Counted
  <2>2. \A f \in Fields : Unsaved(f)' <=> Unsaved(f)
    BY <1>1 DEF Unsaved
  <2> QED BY <1>1, <1>2, <2>1, <2>2 DEF Early
<1>6. Carried' /\ Late' /\ Sending' /\ Stored'
  BY <1>2, <1>5 DEF Carried, Late, Sending, Stored, Busy, Early
<1>7. SavedReached'
  BY <1>1 DEF IInv, SavedReached, Unsaved
<1> QED BY <1>4, <1>6, <1>7 DEF IInv

LEMMA JoinsStep ==
  ASSUME IInv, TypeOK', LoopJoins
  PROVE  IInv'
<1>1. /\ att' = [att EXCEPT !.byLoop = TRUE] /\ Busy
      /\ UNCHANGED <<view, reached, db, base, tracked, editSeq, savedEditSeq>>
  BY DEF LoopJoins, IInv, AttemptOK, serverVars, syncVars, seqVars
<1>2. /\ att'.pc = att.pc /\ att'.toSave = att.toSave /\ att'.head = att.head
      /\ att'.start = att.start /\ att'.ans = att.ans /\ att'.exp = att.exp
      /\ att'.sent = att.sent /\ att'.cur = att.cur
  BY <1>1 DEF IInv, TypeOK, Attempts
<1> QED
  BY <1>1, <1>2 DEF IInv, AttemptOK, Known, AllCounted, Counted, Carried, Late, Early,
                    Sending, Stored, SavedReached, Unsaved, Busy

\* What is sent holds the early edits: roots and characters as they are, and
\* the blocks among them are in the attempt's list.
LEMMA PatchSetStep ==
  ASSUME IInv, TypeOK', PatchSet
  PROVE  IInv'
<1>1. /\ att.pc = "chats" /\ base' = Sent(base, db, att.toSave)
      /\ att' = [att EXCEPT !.pc = "patch", !.exp = base, !.sent = base',
                            !.wide = {c \in Active(db) : base[c] # db[c]}]
      /\ UNCHANGED <<view, reached, db, tracked, editSeq, savedEditSeq>>
  BY DEF PatchSet, serverVars, trackVars, seqVars
<1>2. /\ att'.pc = "patch" /\ att'.toSave = att.toSave /\ att'.head = att.head
      /\ att'.start = att.start /\ att'.ans = att.ans /\ att'.exp = base
      /\ att'.sent = base' /\ att'.cur = att.cur
  BY <1>1 DEF IInv, TypeOK, Attempts
<1>3. \A f \in Fields : \/ base'[f] = db[f]
                        \/ base'[f] = base[f] /\ f \notin att.toSave
  <2>1. base' = Sent(base, db, att.toSave)
    BY <1>1
  <2> QED BY <2>1 DEF Sent
<1>4. \A f \in Fields : Early(f)' => Early(f) /\ f \in att.toSave
  BY <1>1, <1>2 DEF IInv, Carried, Early, Unsaved, Busy
<1>5. AllCounted'
  <2>1. \A f \in Fields : Counted(db[f]) /\ Counted(base[f])
    BY DEF IInv, AllCounted
  <2>2. \A f \in Fields : Counted(base'[f])
    BY <1>3, <2>1
  <2> QED BY <1>1, <1>2, <2>1, <2>2 DEF IInv, AllCounted, Counted
<1>6. AttemptOK' /\ Known' /\ Stored'
  BY <1>1, <1>2 DEF IInv, AttemptOK, Known, Stored, Busy
<1>7. Sending'
  <2>1. \A f \in Fields : Early(f)' => base'[f] = db[f]
    BY <1>3, <1>4
  <2> QED BY <1>1, <1>2, <2>1 DEF Sending
<1>8. Carried' /\ Late' /\ SavedReached'
  BY <1>1, <1>2 DEF IInv, Carried, Late, Early, Unsaved, SavedReached, Busy
<1> QED BY <1>5, <1>6, <1>7, <1>8 DEF IInv

\* The server answers: what it took, it knows.
LEMMA ServerStep ==
  ASSUME IInv, TypeOK', ServerPatch \/ ServerWrite
  PROVE  IInv'
<1>1. /\ att.pc \in {"patch", "write"}
      /\ UNCHANGED <<db, base, tracked, editSeq, savedEditSeq>>
      /\ \E pc \in {"patched", "written"}, ans \in {"ok", "conflict", "refused", "failed"} :
            /\ att' = [att EXCEPT !.pc = pc, !.ans = ans, !.cur = view']
            /\ \/ ans = "ok" /\ Stores(att.sent)
               \/ ans # "ok" /\ UNCHANGED <<view, reached>>
  BY DEF ServerPatch, ServerWrite, Rejects, Answered, syncVars, trackVars, seqVars
<1>2. PICK pc \in {"patched", "written"}, ans \in {"ok", "conflict", "refused", "failed"} :
        /\ att' = [att EXCEPT !.pc = pc, !.ans = ans, !.cur = view']
        /\ \/ ans = "ok" /\ Stores(att.sent)
           \/ ans # "ok" /\ UNCHANGED <<view, reached>>
  BY <1>1
<1>3. /\ att'.pc = pc /\ att'.ans = ans /\ att'.cur = view'
      /\ att'.toSave = att.toSave /\ att'.head = att.head /\ att'.start = att.start
      /\ att'.exp = att.exp /\ att'.sent = att.sent
  BY <1>2 DEF IInv, TypeOK, Attempts
<1>4. /\ reached \subseteq reached'
      /\ \A e \in reached' : e \in reached \/ \E f \in Fields : e = att.sent[f]
      /\ \A f \in Fields : view'[f] \in reached'
      /\ ans = "ok" => \A f \in Fields : att.sent[f] \in reached'
  BY <1>2 DEF Stores, IInv, Known
<1>5. AttemptOK' /\ Known' /\ AllCounted' /\ Stored'
  BY <1>1, <1>2, <1>3, <1>4
     DEF IInv, AttemptOK, Busy, Known, AllCounted, Counted, Stored
<1>6. Carried' /\ Late' /\ SavedReached'
  BY <1>1, <1>3, <1>4, ServerLearns DEF Busy
<1>7. Sending'
  BY <1>1, <1>3, <1>4 DEF IInv, Sending, Early, Unsaved
<1> QED BY <1>5, <1>6, <1>7 DEF IInv

\* The steps inside an attempt that move no edit.
LEMMA AttemptStep ==
  ASSUME IInv, TypeOK', AnswerLost \/ FullWrite \/ StartsRebase \/ ServerRead
  PROVE  IInv'
<1>1. /\ UNCHANGED <<view, reached, db, base, tracked, editSeq, savedEditSeq>>
      /\ Busy /\ att'.pc # "idle" /\ att'.ans = "none"
      /\ att'.toSave = att.toSave /\ att'.head = att.head /\ att'.start = att.start
      /\ att'.exp = att.exp
  <2> USE DEF IInv, TypeOK, Attempts, serverVars, syncVars, trackVars, seqVars, Busy
  <2>1. CASE AnswerLost BY <2>1 DEF AnswerLost
  <2>2. CASE FullWrite BY <2>2 DEF FullWrite
  <2>3. CASE StartsRebase BY <2>3 DEF StartsRebase
  <2>4. CASE ServerRead BY <2>4 DEF ServerRead, AttemptOK
  <2> QED BY <2>1, <2>2, <2>3, <2>4
<1>2. /\ att'.cur \in {NewDb, view}
      /\ \/ att'.sent = att.sent /\ att'.pc \in {"patch", "write", "merge"}
            /\ att.pc \in {"patched", "written", "read"}
         \/ att'.sent = db /\ att'.pc = "write"
         \/ att'.sent = NewDb /\ att'.pc = "read"
  <2> USE DEF IInv, TypeOK, Attempts
  <2>1. CASE AnswerLost BY <2>1 DEF AnswerLost
  <2>2. CASE FullWrite BY <2>2 DEF FullWrite
  <2>3. CASE StartsRebase BY <2>3 DEF StartsRebase
  <2>4. CASE ServerRead BY <2>4 DEF ServerRead
  <2> QED BY <2>1, <2>2, <2>3, <2>4
<1>3. ServerRead => att'.pc = "merge"
  BY DEF ServerRead, IInv, TypeOK, Attempts
<1>4. \A f \in Fields : NewDb[f] = Start
  BY DEF NewDb
<1>5. AttemptOK' /\ Known' /\ AllCounted' /\ Stored'
  BY <1>1, <1>2, <1>4
     DEF IInv, AttemptOK, Busy, Known, AllCounted, Counted, Stored, Start
<1>6. Carried' /\ Late' /\ SavedReached'
  BY <1>1 DEF IInv, Carried, Late, Early, SavedReached, Busy, Unsaved
<1>7. Sending'
  BY <1>1, <1>2, <1>3
     DEF IInv, Sending, Early, Unsaved, AnswerLost, FullWrite, StartsRebase
<1> QED BY <1>5, <1>6, <1>7 DEF IInv

LEMMA IdleFields ==
  /\ Idle.pc = "idle" /\ Idle.head = NoChar /\ Idle.ans = "none"
  /\ \A f \in Fields : Idle.exp[f] = Start /\ Idle.sent[f] = Start /\ Idle.cur[f] = Start
  BY DEF Idle, NewDb

\* The end of an attempt: whatever is unsaved is tracked and was not counted.
LEMMA EndStep ==
  ASSUME IInv, TypeOK', att' = Idle, UNCHANGED <<view, reached>>,
         editSeq \in Nat, editSeq' \in Nat, editSeq <= editSeq',
         \A f \in Fields : Counted(db'[f]) /\ Counted(base'[f]),
         \A f \in Fields :
            Unsaved(f)' => Unsaved(f) /\ db'[f] = db[f] /\ f \in tracked'
                           /\ db[f].n > savedEditSeq'
  PROVE  IInv'
<1>1. Busy' = FALSE
  BY IdleFields DEF Busy
<1>2. AttemptOK' /\ Known' /\ Stored' /\ Carried' /\ Sending'
  BY <1>1, IdleFields DEF IInv, AttemptOK, Busy, Known, Stored, Carried, Sending
<1>3. Late' /\ SavedReached'
  BY <1>1 DEF Late, SavedReached
<1>4. /\ reached' \subseteq Edits
      /\ \A f \in Fields : db'[f] \in Edits /\ base'[f] \in Edits
  BY DEF TypeOK, Databases
<1>5. \A e \in Edits : Counted(e) => Counted(e)'
  BY DEF Counted, Edits
<1>6. AllCounted'
  BY <1>4, <1>5, IdleFields DEF IInv, AllCounted, Counted, Start
<1> QED BY <1>2, <1>3, <1>6 DEF IInv

LEMMA SavedStep ==
  ASSUME IInv, TypeOK', PatchSaved \/ WriteSaved
  PROVE  IInv'
<1>1. /\ att.pc \in {"patched", "written"} /\ att.ans = "ok" /\ att' = Idle
      /\ base' \in {base, att.sent}
      /\ UNCHANGED <<view, reached, db, tracked, editSeq>>
      /\ savedEditSeq' \in {att.start, savedEditSeq}
  BY DEF PatchSaved, WriteSaved, Saved, serverVars, trackVars
<1>2. \A f \in Fields : ~Early(f)
  BY <1>1 DEF IInv, Sending, Stored, Early, Unsaved
<1>3. \A f \in Fields : db[f] \in Edits /\ att.start \in Nat /\ editSeq \in Nat
  BY DEF IInv, TypeOK, Attempts, Databases
<1>4. \A f \in Fields : Unsaved(f) => f \in tracked /\ db[f].n > att.start
  BY <1>1, <1>2, <1>3 DEF IInv, Late, Early, Edits
<1>5. \A f \in Fields : Unsaved(f) => db[f].n > savedEditSeq'
  BY <1>1, <1>4 DEF IInv, SavedReached
<1>6. \A f \in Fields : Counted(db'[f]) /\ Counted(base'[f])
  BY <1>1 DEF IInv, AllCounted
<1>7. \A f \in Fields : Unsaved(f)' <=> Unsaved(f)
  BY <1>1 DEF Unsaved
<1> QED
  <2>1. editSeq' \in Nat /\ editSeq <= editSeq'
    BY <1>1 DEF IInv, TypeOK
  <2> QED BY <1>1, <1>4, <1>5, <1>6, <1>7, <2>1, EndStep DEF IInv, TypeOK

\* What was unsaved before is tracked once the attempt's list is back.
LEMMA Requeued ==
  ASSUME IInv, NEW s, att.toSave \subseteq s, tracked' = tracked \cup s,
         NEW f \in Fields, Unsaved(f)
  PROVE  f \in tracked'
  BY DEF IInv, Carried, Late

LEMMA FailsStep ==
  ASSUME IInv, TypeOK', RequestLost \/ GivesUp \/ Refused \/ ReadFails \/ SaveRejected
  PROVE  IInv'
<1>1. /\ att' = Idle /\ tracked' = tracked \cup att.toSave
      /\ UNCHANGED <<view, reached, db, base, editSeq, savedEditSeq>>
  BY DEF RequestLost, GivesUp, Refused, ReadFails, Fails, SaveRejected, Requeue,
         serverVars, syncVars, seqVars
<1>2. \A f \in Fields : Unsaved(f)' <=> Unsaved(f)
  BY <1>1 DEF Unsaved
<1>3. \A f \in Fields : Unsaved(f) => f \in tracked' /\ db[f].n > savedEditSeq
  BY <1>1, Requeued DEF IInv, SavedReached
<1>4. \A f \in Fields : Counted(db'[f]) /\ Counted(base'[f])
  BY <1>1 DEF IInv, AllCounted
<1>5. editSeq \in Nat
  BY DEF IInv, TypeOK
<1> QED BY <1>1, <1>2, <1>3, <1>4, <1>5, EndStep

LEMMA DefersStep ==
  ASSUME IInv, TypeOK', Defers
  PROVE  IInv'
<1>1. /\ att' = Idle /\ tracked' = tracked \cup (att.toSave \cup Overlaid)
      /\ base' = BaselineBefore
      /\ UNCHANGED <<view, reached, db, editSeq, savedEditSeq>>
  BY DEF Defers, Requeue, serverVars, seqVars
<1>2. \A f \in Fields : Unsaved(f)' <=> Unsaved(f)
  BY <1>1 DEF Unsaved
<1>3. \A f \in Fields : Unsaved(f) => f \in tracked' /\ db[f].n > savedEditSeq
  BY <1>1, Requeued DEF IInv, SavedReached
<1>4. ASSUME NEW f \in Fields
      PROVE  Counted(db'[f]) /\ Counted(base'[f])
  <2>1. BaselineBefore[f] \in {base[f], att.exp[f], Gone}
    BY DEF BaselineBefore
  <2>2. Counted(Gone) /\ Counted(base[f]) /\ Counted(att.exp[f]) /\ Counted(db[f])
    BY DEF IInv, AllCounted, Counted, Gone
  <2> QED BY <1>1, <2>1, <2>2
<1>5. editSeq \in Nat
  BY DEF IInv, TypeOK
<1> QED BY <1>1, <1>2, <1>3, <1>4, <1>5, EndStep

\* A merge takes each field from the page or from the server, whose edits
\* are not unsaved, or drops the character.
LEMMA RebasedStep ==
  ASSUME IInv, TypeOK', Rebased
  PROVE  IInv'
<1> DEFINE moved == {c \in Chars : (c \in Active(db)) # (c \in Active(db'))}
           all == att.toSave \cup Overlaid \cup moved \cup (Fields \ Chars)
<1>1. /\ att' = Idle /\ tracked' = tracked \cup all
      /\ db' = Merged /\ base' = att.cur /\ editSeq' = editSeq + 1
      /\ UNCHANGED <<view, reached, savedEditSeq>>
  BY DEF Rebased, Requeue, serverVars
<1>2. att.toSave \subseteq all
  OBVIOUS
<1> HIDE DEF all
<1>3. ASSUME NEW f \in Fields
      PROVE  db'[f] \in {db[f], att.cur[f], Gone}
  <2>1. Merged[f] \in {db[f], att.cur[f], Gone}
    BY DEF Merged, MergedChar, Fields
  <2> QED BY <1>1, <2>1
<1>4. ASSUME NEW f \in Fields, Unsaved(f)'
      PROVE  Unsaved(f) /\ db'[f] = db[f] /\ f \in tracked' /\ db[f].n > savedEditSeq'
  <2>1. db'[f].by = "page" /\ db'[f] \notin reached
    BY <1>1, <1>4 DEF Unsaved
  <2>2. att.cur[f] \in reached /\ Gone.by # "page"
    BY DEF IInv, Known, Gone
  <2>3. db'[f] = db[f] /\ Unsaved(f)
    BY <1>3, <2>1, <2>2 DEF Unsaved
  <2> QED BY <1>1, <1>2, <2>3, Requeued DEF IInv, SavedReached
<1>5. ASSUME NEW f \in Fields
      PROVE  Counted(db'[f]) /\ Counted(base'[f])
  <2>1. Counted(Gone) /\ Counted(att.cur[f]) /\ Counted(db[f])
    BY DEF IInv, AllCounted, Known, Counted, Gone
  <2> QED BY <1>1, <1>3, <2>1
<1>6. editSeq \in Nat /\ editSeq' \in Nat /\ editSeq <= editSeq'
  BY <1>1 DEF IInv, TypeOK
<1> QED BY <1>1, <1>4, <1>5, <1>6, EndStep

LEMMA ReloadStep ==
  ASSUME IInv, TypeOK', AutoReload \/ UserReload
  PROVE  IInv'
<1>1. /\ att = Idle /\ att' = Idle /\ db' = view /\ base' = view
      /\ UNCHANGED <<view, reached, editSeq>>
  BY DEF AutoReload, UserReload, Reload, serverVars
<1>2. \A f \in Fields : ~Unsaved(f)' /\ Counted(view[f])
  BY <1>1 DEF IInv, Known, Unsaved, AllCounted
<1>3. editSeq \in Nat
  BY DEF IInv, TypeOK
<1> QED BY <1>1, <1>2, <1>3, EndStep

LEMMA IInvStep == IInv /\ [Next]_vars => IInv'
<1> SUFFICES ASSUME IInv, [Next]_vars PROVE IInv'
  OBVIOUS
<1>0. TypeOK'
  BY TypeStep DEF IInv
<1>1. CASE \E f \in Fields, st \in Statuses : Edit(f, st) \/ OtherWrites(f, st)
  BY <1>0, <1>1, EditStep, OtherStep
<1>2. CASE \E c \in Chars : Selects(c) \/ BackgroundEdit(c)
  BY <1>0, <1>2, SelectsStep, BackgroundStep
<1>3. CASE \E c \in Chars : GenerationStarts(c) \/ GenerationEnds(c)
  BY <1>0, <1>3, QuietStep
     DEF GenerationStarts, GenerationEnds, serverVars, syncVars, trackVars, seqVars
<1>4. CASE LoopSaves \/ Flush
  BY <1>0, <1>4, TakesStep DEF LoopSaves, Flush
<1>5. CASE LoopJoins \/ PatchSet
  BY <1>0, <1>5, JoinsStep, PatchSetStep
<1>6. CASE ServerPatch \/ ServerWrite
  BY <1>0, <1>6, ServerStep
<1>7. CASE AnswerLost \/ FullWrite \/ StartsRebase \/ ServerRead
  BY <1>0, <1>7, AttemptStep
<1>8. CASE PatchSaved \/ WriteSaved
  BY <1>0, <1>8, SavedStep
<1>9. CASE RequestLost \/ GivesUp \/ Refused \/ ReadFails \/ SaveRejected
  BY <1>0, <1>9, FailsStep
<1>10. CASE Rebased \/ Defers
  BY <1>0, <1>10, RebasedStep, DefersStep
<1>11. CASE HandOff \/ ServerRestarts \/ UNCHANGED vars
  BY <1>0, <1>11, QuietStep DEF HandOff, ServerRestarts, vars, serverVars, syncVars, trackVars, seqVars
<1>12. CASE AutoReload \/ UserReload
  BY <1>0, <1>12, ReloadStep
<1> QED
  BY <1>1, <1>2, <1>3, <1>4, <1>5, <1>6, <1>7, <1>8, <1>9, <1>10, <1>11, <1>12
     DEF Next, PageSteps, ServerSteps

THEOREM Invariance == Spec => []IInv
  BY IInvInit, IInvStep, PTL DEF Spec

---------------------------------------------------------------------------
(* The theorems.                                                           *)

\* The types hold.
THEOREM TypesHold == Spec => []TypeOK
<1>1. IInv => TypeOK
  BY DEF IInv
<1> QED BY <1>1, Invariance, PTL

\* savedEditSeq never runs ahead of the server (saveDb, triggerSave).
THEOREM SavedIsReached == Spec => []SavedReached
<1>1. IInv => SavedReached
  BY DEF IInv
<1> QED BY <1>1, Invariance, PTL

\* No failure, rebase or overlapping save forgets an edit.
THEOREM NothingIsForgotten == Spec => []NothingForgotten
<1>1. IInv => NothingForgotten
  BY DEF IInv, NothingForgotten, Carried, Late
<1> QED BY <1>1, Invariance, PTL

\* A reload without a question loses no edit (resolveSessionHandoff).
THEOREM AutoReloadIsSafe == Spec => AutoReloadLosesNothing
<1>1. IInv /\ [Next]_vars => [AutoReload => \A f \in Fields : ~Unsaved(f)]_vars
  <2> SUFFICES ASSUME IInv, AutoReload, NEW f \in Fields, Unsaved(f)
               PROVE  FALSE
    OBVIOUS
  <2>1. db[f].n > savedEditSeq /\ db[f].n <= editSeq
    BY DEF IInv, SavedReached, AllCounted, Counted, Unsaved
  <2>2. db[f].n \in Nat /\ editSeq \in Nat /\ savedEditSeq \in Nat
    BY DEF IInv, TypeOK, Databases, Edits
  <2> QED BY <2>1, <2>2 DEF AutoReload
<1> QED BY <1>1, Invariance, PTL DEF AutoReloadLosesNothing, Spec

\* A rebase keeps the page's edits of a character that is still active on
\* the server: those the attempt carried, those made since, and those only
\* the hash saw (mergeServerDbWithTrackedLocalChanges).
THEOREM RebaseKeepsCharacters == Spec => CharacterEditsKept
<1>1. ASSUME IInv, Rebased, NEW c \in Active(db) \ Archived(att.cur),
             Unsaved(c) \/ (att.exp[c] # db[c] /\ c \in att.wide)
      PROVE  db'[c] = db[c]
  <2>1. c \in Fields /\ c \in Chars
    BY DEF Active, Fields
  <2>2. c \in Overlaid \ Skipped
    BY <1>1, <2>1 DEF IInv, Carried, Late, Overlaid, Skipped
  <2>3. MergedChar(c) = db[c]
    BY <1>1, <2>2 DEF MergedChar
  <2>4. c \notin Roots /\ c \notin Blocks /\ c \notin Plugins
    BY <2>1, FieldsAssumption
  <2>5. Merged[c] = MergedChar(c)
    BY <2>1, <2>4 DEF Merged
  <2> QED BY <1>1, <2>3, <2>5 DEF Rebased
<1>2. IInv /\ [Next]_vars => [Rebased => \A c \in Active(db) \ Archived(att.cur) :
         Unsaved(c) \/ (att.exp[c] # db[c] /\ c \in att.wide) => db'[c] = db[c]]_vars
  BY <1>1
<1> QED BY <1>2, Invariance, PTL DEF CharacterEditsKept, Spec

\* A rebase keeps the page's edits of a root key, as long as the baseline of
\* the attempt is content the server had (localRootWins).
THEOREM RebaseKeepsRoots == Spec => RootEditsKept
<1>1. ASSUME Rebased, NEW r \in Roots, Unsaved(r), att.exp[r] \in reached
      PROVE  db'[r] = db[r]
  <2>1. db[r] # att.exp[r] /\ r \in Fields
    BY <1>1 DEF Unsaved, Fields
  <2>2. r \notin Blocks /\ r \notin Plugins /\ r \notin Chars
    BY FieldsAssumption
  <2>3. Merged[r] = db[r]
    BY <2>1, <2>2 DEF Merged
  <2> QED BY <1>1, <2>3 DEF Rebased
<1>2. [Next]_vars => [Rebased => \A r \in Roots :
         Unsaved(r) /\ att.exp[r] \in reached => db'[r] = db[r]]_vars
  BY <1>1
<1> QED BY <1>2, PTL DEF RootEditsKept, Spec

\* An edit the server never had counts as unsaved, and some save takes it.
THEOREM EditsAreAccounted == Spec => []EditsAccounted
<1>1. SavedReached /\ NothingForgotten => EditsAccounted
  BY DEF EditsAccounted
<1> QED BY <1>1, SavedIsReached, NothingIsForgotten, PTL

\* What a rebase keeps of the page's edits.
THEOREM RebaseKeepsAll == Spec => RebaseKeepsEdits
  BY RebaseKeepsCharacters, RebaseKeepsRoots DEF RebaseKeepsEdits

---------------------------------------------------------------------------
(* What a page writes over: nothing of another device.                     *)
(*                                                                         *)
(* A request is accepted when the server has what the page took it to      *)
(* have: the baseline (att.exp) for a patch, the etag for a full write.    *)
(* Where the page's database differs from those, the difference is an edit *)
(* of its own (Owns, Knows), or the field is laid over whole (Holds).  An  *)
(* edit the user does not see may reach the server by a request whose      *)
(* answer is lost; from then on the server's field is another one, so for  *)
(* characters this is claimed only while it is the one of the baseline.    *)

Holds(f) == f \in (IF Busy THEN att.toSave ELSE tracked)

OwnNew(e) == e.by = "page" /\ e.n > savedEditSeq

\* An edit of the page that is not on the server, or is not known to be.
Fresh(e) == e.by \in {"page", "background"} /\ (e \notin reached \/ OwnNew(e))

\* No edit was made twice, nor to two fields.
Made(e) ==
    /\ e.by = "page" => e.n <= editSeq
    /\ e.by = "background" => e.n <= unseen
    /\ e.by = "other" => e.n <= foreign

Vals(f) ==
    {db[f], base[f], synced[f], view[f], att.exp[f], att.sent[f], att.cur[f]}

Unique ==
    /\ \A e \in reached : Made(e)
    /\ \A f \in Fields : \A e \in Vals(f) : Made(e)
    /\ \A f, g \in Fields : f # g => Vals(f) \cap Vals(g) \subseteq {Start, Gone}

\* The flags of the blocks and plugins that changed since the baseline.
Dirty ==
    \A f \in Blocks \cup Plugins : db[f] # base[f] =>
        \/ f \in tracked /\ (Busy => db[f].by = "page" /\ db[f].n > att.start)
        \/ att.pc = "chats" /\ f \in att.toSave

\* Where the page differs from its copy x of the server's database.
Owns(x) ==
    \A f \in Fields \ Chars : db[f] # x[f] => OwnNew(db[f]) \/ (f \in Blocks /\ Holds(f))

Knows(x) ==
    \A c \in Chars : view[c] = x[c] /\ db[c] # x[c] => Fresh(db[c]) \/ Holds(c)

Follows(x) ==
    \A c \in Chars : c \notin tracked \cup att.toSave =>
        (db[c].st = "archived" <=> x[c].st = "archived")

Past == Busy /\ att.pc # "chats"

Copies ==
    /\ Owns(base) /\ Knows(base) /\ Follows(base)
    /\ Owns(synced) /\ Knows(synced)
    /\ Past => Owns(att.exp) /\ Knows(att.exp) /\ Follows(att.exp)

\* What changed in the page since a request was built.
NewerAt(f) ==
    db[f] # att.sent[f] =>
        /\ db[f].by = "page" \/ (f \in Chars /\ db[f].by = "background")
        /\ db[f] \notin reached \/ (OwnNew(db[f]) /\ db[f].n > att.start)
        /\ f \in Blocks \cup Plugins => f \in tracked
        /\ f \in Chars /\ f \notin tracked =>
              (db[f].st = "archived" <=> att.sent[f].st = "archived")

Newer ==
    att.pc \in {"patch", "patched", "write", "written"} => \A f \in Fields : NewerAt(f)

\* Where a request differs from the copy x it is checked against.
Replaces(x) ==
    /\ \A f \in Fields \ Chars : att.sent[f] # x[f] =>
         OwnNew(att.sent[f]) \/ (f \in Blocks /\ f \in att.toSave)
    /\ \A c \in Chars : view[c] = x[c] /\ att.sent[c] # x[c] =>
         Fresh(att.sent[c]) \/ c \in att.toSave

Requests ==
    /\ att.pc \in {"patch", "patched"} => base = att.sent /\ Replaces(att.exp)
    /\ att.pc \in {"write", "written"} => Replaces(synced)

RInv == Unique /\ Dirty /\ Copies /\ Newer /\ Requests

LEMMA RInvInit == Init => RInv
<1> SUFFICES ASSUME Init PROVE RInv
  OBVIOUS
<1>1. /\ db = NewDb /\ base = NewDb /\ synced = NewDb /\ view = NewDb /\ att = Idle
      /\ reached = {Start}
  BY DEF Init
<1>2. \A f \in Fields : NewDb[f] = Start /\ Vals(f) = {Start}
  BY <1>1, IdleFields DEF NewDb, Vals
<1>3. Made(Start)
  BY DEF Made, Start
<1>4. Unique
  BY <1>1, <1>2, <1>3 DEF Unique
<1>5. ~Busy /\ att.pc = "idle"
  BY <1>1, IdleFields DEF Busy
<1> QED
  BY <1>1, <1>4, <1>5 DEF RInv, Dirty, Copies, Owns, Knows, Follows, Past, Newer, Requests

\* The numbers and edits a proof about a field needs.
LEMMA Typed ==
  ASSUME TypeOK
  PROVE  /\ editSeq \in Nat /\ savedEditSeq \in Nat /\ unseen \in Nat /\ foreign \in Nat
         /\ att.start \in Nat /\ att.start <= editSeq /\ savedEditSeq <= editSeq
         /\ att.toSave \subseteq Fields /\ tracked \subseteq Fields
         /\ \A f \in Fields :
              /\ db[f] \in Edits /\ base[f] \in Edits /\ synced[f] \in Edits
              /\ view[f] \in Edits /\ etag[f] \in Edits /\ att.exp[f] \in Edits
              /\ att.sent[f] \in Edits /\ att.cur[f] \in Edits
         /\ \A e \in Edits : e.n \in Nat
  BY BoundsAssumption DEF TypeOK, Attempts, Databases, Edits

\* A step that makes no edit.
LEMMA UniqueStep ==
  ASSUME TypeOK, TypeOK', Unique,
         editSeq <= editSeq', unseen <= unseen', foreign <= foreign',
         \A f \in Fields : Vals(f)' \subseteq Vals(f) \cup {Start, Gone},
         \A e \in reached' : e \in reached \/ \E f \in Fields : e \in Vals(f)
  PROVE  Unique'
<1>0. /\ editSeq' \in Nat /\ unseen' \in Nat /\ foreign' \in Nat
      /\ editSeq \in Nat /\ unseen \in Nat /\ foreign \in Nat
  BY BoundsAssumption DEF TypeOK
<1>1. Made(Start)' /\ Made(Gone)'
  BY DEF Made, Start, Gone
<1>2. ASSUME NEW e \in Edits, Made(e) PROVE Made(e)'
  BY <1>0, <1>2, Typed DEF Made
<1>3. \A f \in Fields : \A e \in Vals(f) : e \in Edits /\ Made(e)'
  BY <1>2, Typed DEF Unique, Vals
<1>4. \A e \in reached : Made(e)'
  BY <1>2 DEF Unique, TypeOK
<1>5. \A f \in Fields : \A e \in Vals(f)' : Made(e)'
  BY <1>1, <1>3
<1>6. \A e \in reached' : Made(e)'
  BY <1>3, <1>4
<1>7. \A f, g \in Fields : f # g => Vals(f)' \cap Vals(g)' \subseteq {Start, Gone}
  BY DEF Unique
<1> QED
  BY <1>5, <1>6, <1>7 DEF Unique

\* A step that makes the edit e, to g.
LEMMA UniqueEdit ==
  ASSUME TypeOK, TypeOK', Unique,
         editSeq <= editSeq', unseen <= unseen', foreign <= foreign',
         NEW e \in Edits, NEW g \in Fields, Made(e)', \A h \in Fields : e \notin Vals(h),
         \A f \in Fields : Vals(f)' \subseteq Vals(f) \cup (IF f = g THEN {e} ELSE {}),
         reached' \subseteq reached \cup {e}
  PROVE  Unique'
<1>0. /\ editSeq' \in Nat /\ unseen' \in Nat /\ foreign' \in Nat
      /\ editSeq \in Nat /\ unseen \in Nat /\ foreign \in Nat
  BY BoundsAssumption DEF TypeOK
<1>2. ASSUME NEW d \in Edits, Made(d) PROVE Made(d)'
  BY <1>0, <1>2, Typed DEF Made
<1>3. \A f \in Fields : \A d \in Vals(f) : d \in Edits /\ Made(d)'
  BY <1>2, Typed DEF Unique, Vals
<1>4. \A d \in reached : Made(d)'
  BY <1>2 DEF Unique, TypeOK
<1>5. \A f \in Fields : \A d \in Vals(f)' : Made(d)'
  BY <1>3
<1>6. \A d \in reached' : Made(d)'
  BY <1>4
<1>7. \A f, h \in Fields : f # h => Vals(f)' \cap Vals(h)' \subseteq {Start, Gone}
  BY DEF Unique
<1> QED
  BY <1>5, <1>6, <1>7 DEF Unique

\* A step that makes no edit and sends nothing.
LEMMA QuietCopies ==
  ASSUME IInv, TypeOK', RInv,
         UNCHANGED <<view, reached, foreign, db, base, synced, savedEditSeq>>,
         editSeq <= editSeq', unseen <= unseen', tracked \subseteq tracked',
         UNCHANGED <<att.pc, att.toSave, att.start, att.exp, att.sent, att.cur>>
  PROVE  RInv'
<1>1. foreign' = foreign /\ foreign <= foreign /\ TypeOK
  BY Typed DEF IInv
<1>2. Unique'
  BY <1>1, UniqueStep DEF RInv, Vals
<1>3. Busy' = Busy /\ Past' = Past /\ \A f \in Fields : Holds(f) => Holds(f)'
  BY DEF Busy, Past, Holds
<1>4. Dirty'
  BY <1>3 DEF RInv, Dirty
<1>5. \A e \in Edits : (Fresh(e) => Fresh(e)') /\ (OwnNew(e) => OwnNew(e)')
  BY DEF Fresh, OwnNew
<1>6. \A f \in Fields : db[f] \in Edits /\ att.sent[f] \in Edits
  BY <1>1, Typed
<1>7. \A c \in Chars : c \in Fields
  BY DEF Fields
<1>8. Copies'
  BY <1>3, <1>5, <1>6, <1>7 DEF RInv, Copies, Owns, Knows, Follows
<1>9. Newer'
  BY <1>5, <1>6 DEF RInv, Newer, NewerAt
<1>10. Requests'
  BY <1>5, <1>6, <1>7 DEF RInv, Requests, Replaces
<1> QED
  BY <1>2, <1>4, <1>8, <1>9, <1>10 DEF RInv

\* An edit of the page: by the user, who is seen, or by the program, who is not.
LEMMA OwnEditCopies ==
  ASSUME IInv, TypeOK', RInv, NEW f \in Fields, NEW e \in Edits,
         db' = [db EXCEPT ![f] = e],
         UNCHANGED <<view, reached, foreign, base, synced, savedEditSeq, att>>,
         editSeq <= editSeq', unseen <= unseen', tracked \subseteq tracked',
         \/ e.by = "page" /\ e.n = editSeq + 1 /\ editSeq' = editSeq + 1 /\ f \in tracked'
         \/ /\ e.by = "background" /\ e.n = unseen + 1 /\ unseen' = unseen + 1
            /\ f \in Chars /\ db[f].st = "active" /\ e.st = "active"
  PROVE  RInv'
<1>1. TypeOK /\ foreign' = foreign /\ foreign <= foreign
  BY Typed DEF IInv
<1>2. /\ editSeq \in Nat /\ unseen \in Nat /\ foreign \in Nat /\ savedEditSeq \in Nat /\ att.start \in Nat
      /\ att.start <= editSeq /\ savedEditSeq <= editSeq
      /\ \A g \in Fields : db'[g] = IF g = f THEN e ELSE db[g]
  BY <1>1, Typed DEF TypeOK, Databases
<1>3. Made(e)' /\ ~Made(e)
  BY <1>2 DEF Made
<1>4. e \notin reached /\ \A g \in Fields : e \notin Vals(g)
  BY <1>3 DEF RInv, Unique
<1>5. Unique'
  <2>1. \A g \in Fields : Vals(g)' \subseteq Vals(g) \cup (IF f = g THEN {e} ELSE {})
    BY <1>2 DEF Vals
  <2>2. \A g \in Fields : Vals(g)' \subseteq Vals(g) \cup (IF g = f THEN {e} ELSE {})
    BY <2>1
  <2> QED
    BY <1>1, <1>3, <1>4, <2>2, UniqueEdit DEF RInv
<1>6. Busy' = Busy /\ Past' = Past /\ \A g \in Fields : Holds(g) => Holds(g)'
  BY DEF Busy, Past, Holds
<1>7. /\ \A d \in Edits : (Fresh(d)' <=> Fresh(d)) /\ (OwnNew(d)' <=> OwnNew(d))
      /\ Fresh(e)'
      /\ f \notin Chars => OwnNew(e)' /\ e.n > att.start /\ f \in tracked'
      /\ f \notin tracked' => db[f].st = e.st
  BY <1>2, <1>4 DEF Fresh, OwnNew
<1>8. \A g \in Fields : db[g] \in Edits /\ db'[g] \in Edits /\ att.sent[g] \in Edits
  BY <1>1, <1>2, Typed
<1>9. /\ \A c \in Chars : c \in Fields
      /\ \A b \in Blocks \cup Plugins : b \in Fields \ Chars
  BY FieldsAssumption DEF Fields
<1>10. Dirty'
  BY <1>2, <1>6, <1>7, <1>9 DEF RInv, Dirty, OwnNew
<1>11. /\ Owns(base)' /\ Owns(synced)' /\ (Past => Owns(att.exp)')
  BY <1>2, <1>6, <1>7, <1>8 DEF RInv, Copies, Owns
<1>12. /\ Knows(base)' /\ Knows(synced)' /\ (Past => Knows(att.exp)')
  BY <1>2, <1>6, <1>7, <1>8, <1>9 DEF RInv, Copies, Knows
<1>13. /\ Follows(base)' /\ (Past => Follows(att.exp)')
  BY <1>2, <1>7, <1>9 DEF RInv, Copies, Follows
<1>14. Newer'
  <2> SUFFICES ASSUME att.pc \in {"patch", "patched", "write", "written"}, NEW g \in Fields
               PROVE  NewerAt(g)'
    BY DEF Newer
  <2>1. NewerAt(g)
    BY DEF RInv, Newer
  <2>2. CASE g = f
    <3>1. db'[g] = e /\ e \notin reached' /\ (e.by = "page" \/ (g \in Chars /\ e.by = "background"))
      BY <1>2, <1>4, <2>2
    <3>2. g \in Blocks \cup Plugins => g \in tracked'
      BY <1>7, <1>9, <2>2
    <3>3. g \notin tracked' => db[g].st = e.st
      BY <1>7, <2>2
    <3> QED
      BY <2>1, <3>1, <3>2, <3>3 DEF NewerAt
  <2>3. CASE g # f
    <3>1. db'[g] = db[g] /\ (OwnNew(db[g]) <=> OwnNew(db[g])')
      BY <1>2, <2>3 DEF OwnNew
    <3> QED
      BY <1>2, <2>1, <2>3, <3>1 DEF NewerAt, OwnNew
  <2> QED
    BY <2>2, <2>3
<1>15. Requests'
  BY <1>7, <1>8, <1>9 DEF RInv, Requests, Replaces
<1> QED
  BY <1>5, <1>6, <1>10, <1>11, <1>12, <1>13, <1>14, <1>15 DEF RInv, Copies

\* An edit of another device: no copy of the page holds it.
LEMMA OtherCopies ==
  ASSUME IInv, TypeOK', RInv, NEW f \in Fields, NEW st \in Statuses, OtherWrites(f, st)
  PROVE  RInv'
<1>1. TypeOK
  BY DEF IInv
<1>a. [by |-> "other", n |-> foreign + 1, st |-> st] \in Edits
  BY <1>1, Typed DEF Edits
<1>3. PICK e \in Edits : /\ e.by = "other" /\ e.n = foreign + 1
                         /\ view' = [view EXCEPT ![f] = e] /\ reached' = reached \cup {view'[f]}
  BY <1>a DEF OtherWrites
<1>2. /\ foreign \in Nat /\ \A g \in Fields : view'[g] = IF g = f THEN e ELSE view[g]
      /\ foreign' = foreign + 1 /\ reached' = reached \cup {e}
      /\ UNCHANGED <<db, base, synced, tracked, editSeq, savedEditSeq, unseen, att>>
  <2>1. \A g \in Fields : view'[g] = IF g = f THEN e ELSE view[g]
    BY <1>1, <1>3 DEF TypeOK, Databases
  <2> QED
    BY <1>1, <1>3, <2>1, Typed DEF OtherWrites, syncVars, trackVars, seqVars, genVars
<1>4. Made(e)' /\ ~Made(e)
  BY <1>2, <1>3 DEF Made
<1>5. e \notin reached /\ \A g \in Fields : e \notin Vals(g)
  BY <1>4 DEF RInv, Unique
<1>6. Unique'
  <2>1. \A g \in Fields : Vals(g)' \subseteq Vals(g) \cup (IF g = f THEN {e} ELSE {})
    BY <1>2 DEF Vals
  <2>2. editSeq <= editSeq' /\ unseen <= unseen' /\ foreign <= foreign'
    BY <1>1, <1>2, Typed
  <2> QED
    BY <1>1, <1>2, <1>3, <1>4, <1>5, <2>1, <2>2, UniqueEdit DEF RInv
<1>7. Busy' = Busy /\ Past' = Past /\ \A g \in Fields : Holds(g)' = Holds(g)
  BY <1>2 DEF Busy, Past, Holds
<1>8. \A d \in Edits : (Fresh(d) => Fresh(d)') /\ (OwnNew(d) => OwnNew(d)')
  BY <1>2, <1>3 DEF Fresh, OwnNew
<1>9. \A g \in Fields : db[g] \in Edits /\ att.sent[g] \in Edits
  BY <1>1, Typed
<1>10. \A c \in Chars : c \in Fields
  BY DEF Fields
<1>11. \A g \in Fields : base[g] # e /\ synced[g] # e /\ att.exp[g] # e
  BY <1>5 DEF Vals
<1>12. Dirty'
  BY <1>2, <1>7 DEF RInv, Dirty
<1>13. Copies'
  BY <1>2, <1>7, <1>8, <1>9, <1>10, <1>11 DEF RInv, Copies, Owns, Knows, Follows
<1>14. Newer'
  BY <1>2, <1>3, <1>8, <1>9 DEF RInv, Newer, NewerAt
<1>15. Requests'
  BY <1>2, <1>8, <1>9, <1>10, <1>11 DEF RInv, Requests, Replaces
<1> QED
  BY <1>6, <1>12, <1>13, <1>14, <1>15 DEF RInv

LEMMA TakesCopies ==
  ASSUME IInv, TypeOK', RInv, LoopSaves \/ Flush
  PROVE  RInv'
<1>1. TypeOK /\ att = Idle /\ ~Busy
  BY IdleFields DEF IInv, LoopSaves, Flush, Takes, Busy
<1>2. /\ att'.pc = "chats" /\ att'.toSave = tracked /\ att'.start = editSeq
      /\ att'.exp = NewDb /\ att'.sent = NewDb /\ att'.cur = NewDb
      /\ att.exp = NewDb /\ att.sent = NewDb /\ att.cur = NewDb /\ att.toSave = {}
      /\ UNCHANGED <<view, reached, foreign, db, base, synced, editSeq, savedEditSeq, unseen>>
  <2>1. att' = [Idle EXCEPT !.pc = "chats", !.toSave = tracked, !.head = head,
                            !.start = editSeq, !.byLoop = att'.byLoop]
    BY DEF LoopSaves, Flush, Takes, Idle
  <2> QED
    BY <1>1, <2>1 DEF LoopSaves, Flush, Takes, Idle, serverVars, syncVars, seqVars, genVars
<1>3. Unique'
  <2>1. editSeq <= editSeq' /\ unseen <= unseen' /\ foreign <= foreign'
    BY <1>1, <1>2, Typed
  <2> QED
    BY <1>1, <1>2, <2>1, UniqueStep DEF RInv, Vals
<1>4. Busy' /\ ~Past' /\ \A f \in Fields : Holds(f)' <=> Holds(f)
  BY <1>1, <1>2 DEF Busy, Past, Holds
<1>5. \A f \in Fields : f \in tracked => f \in att'.toSave
  BY <1>2
<1>6. \A c \in Chars \cup Blocks \cup Plugins : c \in Fields
  BY DEF Fields
<1>7. \A e : (Fresh(e)' <=> Fresh(e)) /\ (OwnNew(e)' <=> OwnNew(e))
  BY <1>2 DEF Fresh, OwnNew
<1>8. Dirty'
  BY <1>1, <1>2, <1>5, <1>6, IdleFields DEF RInv, Dirty
<1>9. Owns(base)' /\ Owns(synced)' /\ Knows(base)' /\ Knows(synced)'
  BY <1>2, <1>4, <1>6, <1>7 DEF RInv, Copies, Owns, Knows, OwnNew, Fresh
<1>10. Follows(base)'
  BY <1>2, <1>5, <1>6 DEF RInv, Copies, Follows
<1>11. Newer' /\ Requests'
  BY <1>2 DEF Newer, Requests
<1> QED
  BY <1>3, <1>4, <1>8, <1>9, <1>10, <1>11 DEF RInv, Copies

LEMMA PatchSetCopies ==
  ASSUME IInv, TypeOK', RInv, PatchSet
  PROVE  RInv'
<1>1. TypeOK /\ Busy /\ att.pc = "chats"
  BY DEF IInv, PatchSet, Busy
<1>2. /\ base' = Sent(base, db, att.toSave)
      /\ att'.pc = "patch" /\ att'.exp = base /\ att'.sent = base'
      /\ UNCHANGED <<att.toSave, att.start, att.cur>>
      /\ UNCHANGED <<view, reached, foreign, db, synced, tracked, editSeq, savedEditSeq, unseen>>
  <2>1. att' = [att EXCEPT !.pc = "patch", !.exp = base, !.sent = base', !.wide = att'.wide]
    BY <1>1 DEF PatchSet, TypeOK, Attempts
  <2> QED
    BY <1>1, <2>1 DEF PatchSet, TypeOK, Attempts, serverVars, trackVars, seqVars, genVars
<1>3. /\ \A f \in Fields : f \notin (Blocks \cup Plugins) \ att.toSave => base'[f] = db[f]
      /\ \A f \in (Blocks \cup Plugins) \ att.toSave : base'[f] = base[f]
  BY <1>2 DEF Sent, Fields
<1>4. Unique'
  <2>1. editSeq <= editSeq' /\ unseen <= unseen' /\ foreign <= foreign'
    BY <1>1, <1>2, Typed
  <2>2. ASSUME NEW f \in Fields PROVE base'[f] \in {db[f], base[f]}
    BY <1>3
  <2>3. \A f \in Fields : Vals(f)' \subseteq Vals(f) \cup {Start, Gone}
    BY <1>2, <2>2 DEF Vals
  <2> QED
    BY <1>1, <1>2, <2>1, <2>3, UniqueStep DEF RInv
<1>5. Busy' /\ Past' /\ \A f \in Fields : Holds(f)' <=> Holds(f)
  BY <1>1, <1>2 DEF Busy, Past, Holds
<1>6. /\ \A c \in Chars : c \in Fields /\ c \notin Blocks \cup Plugins
      /\ \A b \in Blocks \cup Plugins : b \in Fields /\ b \notin Chars
  BY FieldsAssumption DEF Fields
<1>7. ASSUME NEW f \in Fields, db[f] # base'[f]
      PROVE  /\ f \in (Blocks \cup Plugins) \ att.toSave /\ f \in tracked /\ db[f] # base[f]
             /\ db[f].by = "page" /\ db[f].n > att.start
  BY <1>1, <1>3, <1>7 DEF RInv, Dirty
<1>8. Dirty'
  BY <1>2, <1>6, <1>7 DEF Dirty
<1>9. Owns(base)'
  BY <1>2, <1>5, <1>6, <1>7 DEF RInv, Copies, Owns, OwnNew
<1>10. Owns(synced)' /\ Owns(att.exp)'
  BY <1>2, <1>5 DEF RInv, Copies, Owns, OwnNew
<1>11. Knows(base)' /\ Follows(base)'
  BY <1>2, <1>3, <1>6 DEF Knows, Follows
<1>12. Knows(synced)' /\ Knows(att.exp)' /\ Follows(att.exp)'
  BY <1>2, <1>5, <1>6 DEF RInv, Copies, Knows, Follows, Fresh, OwnNew
<1>13. Newer'
  <2> SUFFICES ASSUME NEW f \in Fields, db[f] # base'[f] PROVE NewerAt(f)'
    BY <1>2 DEF Newer, NewerAt
  <2>1. OwnNew(db[f])
    BY <1>1, <1>6, <1>7 DEF RInv, Copies, Owns, Holds
  <2> QED
    BY <1>2, <1>6, <1>7, <2>1 DEF NewerAt, OwnNew
<1>14. Requests'
  <2>1. \A f \in Fields \ Chars : base'[f] # base[f] => OwnNew(db[f]) \/ (f \in Blocks /\ f \in att.toSave)
    BY <1>1, <1>3 DEF RInv, Copies, Owns, Holds
  <2>2. \A f \in Fields : base'[f] # base[f] => base'[f] = db[f]
    BY <1>3
  <2>3. \A c \in Chars : view[c] = base[c] /\ base'[c] # base[c] => Fresh(db[c]) \/ c \in att.toSave
    BY <1>1, <1>3, <1>6 DEF RInv, Copies, Knows, Holds
  <2> QED
    BY <1>2, <1>6, <2>1, <2>2, <2>3 DEF Requests, Replaces, OwnNew, Fresh
<1> QED
  BY <1>4, <1>5, <1>8, <1>9, <1>10, <1>11, <1>12, <1>13, <1>14 DEF RInv, Copies

\* The server takes a request.
LEMMA StoresCopies ==
  ASSUME IInv, TypeOK', RInv, Stores(att.sent),
         \/ att.pc = "patch" /\ att'.pc = "patched"
         \/ att.pc = "write" /\ att'.pc = "written",
         UNCHANGED <<att.toSave, att.start, att.exp, att.sent>>, att'.cur = view',
         UNCHANGED <<foreign, db, base, synced, tracked, editSeq, savedEditSeq, unseen>>
  PROVE  RInv'
<1>1. TypeOK /\ Busy /\ Past
  BY DEF IInv, Busy, Past
<1>2. view' = att.sent /\ reached' = reached \cup {att.sent[f] : f \in Fields}
  BY DEF Stores
<1>3. Unique'
  <2>1. editSeq <= editSeq' /\ unseen <= unseen' /\ foreign <= foreign'
    BY <1>1, Typed
  <2>2. \A f \in Fields : Vals(f)' \subseteq Vals(f) \cup {Start, Gone}
    BY <1>2 DEF Vals
  <2>3. \A e \in reached' : e \in reached \/ \E f \in Fields : e \in Vals(f)
    BY <1>2 DEF Vals
  <2> QED
    BY <1>1, <2>1, <2>2, <2>3, UniqueStep DEF RInv
<1>4. Busy' /\ Past' /\ \A f \in Fields : Holds(f)' <=> Holds(f)
  BY <1>1 DEF Busy, Past, Holds
<1>5. \A c \in Chars : c \in Fields
  BY DEF Fields
<1>6. ASSUME NEW f \in Fields, db[f] # att.sent[f] PROVE NewerAt(f)' /\ Fresh(db[f])'
  <2>1. NewerAt(f)
    BY DEF RInv, Newer
  <2>2. \A g \in Fields : db[f] # att.sent[g]
    <3> SUFFICES ASSUME NEW g \in Fields \ {f}, db[f] = att.sent[g] PROVE FALSE
      BY <1>6
    <3>1. db[f] \in Vals(f) \cap Vals(g)
      BY DEF Vals
    <3>2. db[f] \in {Start, Gone}
      BY <3>1 DEF RInv, Unique
    <3> QED
      BY <1>6, <2>1, <3>2 DEF NewerAt, Start, Gone
  <2>3. db[f] \notin reached => db[f] \notin reached'
    BY <1>2, <2>2
  <2> QED
    BY <1>6, <2>1, <2>3 DEF NewerAt, Fresh, OwnNew
<1>7. Newer'
  BY <1>6 DEF Newer, NewerAt
<1>8. Dirty'
  BY <1>1, <1>4 DEF RInv, Dirty
<1>9. Owns(base)' /\ Owns(synced)' /\ Owns(att.exp)' /\ Follows(base)' /\ Follows(att.exp)'
  BY <1>1, <1>4 DEF RInv, Copies, Owns, OwnNew, Follows
<1>10. Knows(base)' /\ Knows(synced)' /\ Knows(att.exp)'
  BY <1>2, <1>5, <1>6 DEF Knows
<1>11. Requests'
  BY <1>2 DEF RInv, Requests, Replaces, OwnNew
<1> QED
  BY <1>3, <1>4, <1>7, <1>8, <1>9, <1>10, <1>11 DEF RInv, Copies

\* An answer, or the loss of one; nothing changes but what the page knows.
LEMMA AnswersCopies ==
  ASSUME IInv, TypeOK', RInv, Past, Past',
         att'.pc \in {"patch", "patched"} => att.pc \in {"patch", "patched"} /\ att'.sent = att.sent,
         att'.pc \in {"write", "written"} => att.pc \in {"write", "written"} /\ att'.sent = att.sent,
         att'.sent \in {att.sent, NewDb}, att'.cur \in {att.cur, view, NewDb},
         UNCHANGED <<att.toSave, att.start, att.exp>>,
         UNCHANGED <<view, reached, foreign, db, base, synced, tracked, editSeq, savedEditSeq, unseen>>
  PROVE  RInv'
<1>1. TypeOK /\ Busy /\ Busy'
  BY DEF IInv, Past
<1>2. Unique'
  <2>1. editSeq <= editSeq' /\ unseen <= unseen' /\ foreign <= foreign'
    BY <1>1, Typed
  <2>2. \A f \in Fields : NewDb[f] = Start
    BY DEF NewDb
  <2>3. \A f \in Fields : Vals(f)' \subseteq Vals(f) \cup {Start, Gone}
    BY <2>2 DEF Vals
  <2> QED
    BY <1>1, <2>1, <2>3, UniqueStep DEF RInv
<1>3. Dirty'
  BY <1>1 DEF RInv, Dirty, Past
<1>4. Copies'
  BY <1>1 DEF RInv, Copies, Owns, Knows, Follows, Holds, OwnNew, Fresh
<1>5. Newer' /\ Requests'
  BY DEF RInv, Newer, NewerAt, Requests, Replaces, OwnNew, Fresh
<1> QED
  BY <1>2, <1>3, <1>4, <1>5 DEF RInv

LEMMA FullWriteCopies ==
  ASSUME IInv, TypeOK', RInv, FullWrite
  PROVE  RInv'
<1>1. TypeOK /\ Busy /\ Past /\ att.pc = "patched"
  BY DEF IInv, FullWrite, Busy, Past
<1>2. /\ att'.pc = "write" /\ att'.sent = db /\ att'.cur = NewDb
      /\ UNCHANGED <<att.toSave, att.start, att.exp>>
      /\ UNCHANGED <<view, reached, foreign, db, base, synced, tracked, editSeq, savedEditSeq, unseen>>
  BY <1>1 DEF FullWrite, TypeOK, Attempts, serverVars, syncVars, trackVars, seqVars, genVars
<1>3. Unique'
  <2>1. editSeq <= editSeq' /\ unseen <= unseen' /\ foreign <= foreign'
    BY <1>1, <1>2, Typed
  <2>2. \A f \in Fields : NewDb[f] = Start
    BY DEF NewDb
  <2>3. \A f \in Fields : Vals(f)' \subseteq Vals(f) \cup {Start, Gone}
    BY <1>2, <2>2 DEF Vals
  <2> QED
    BY <1>1, <1>2, <2>1, <2>3, UniqueStep DEF RInv
<1>4. Busy' /\ Past'
  BY <1>2 DEF Busy, Past
<1>5. Dirty'
  BY <1>1, <1>2, <1>4 DEF RInv, Dirty
<1>6. Copies'
  BY <1>1, <1>2, <1>4 DEF RInv, Copies, Owns, Knows, Follows, Holds, OwnNew, Fresh
<1>7. Newer'
  BY <1>2 DEF Newer, NewerAt
<1>8. Requests'
  BY <1>1, <1>2 DEF RInv, Copies, Owns, Knows, Holds, Requests, Replaces, OwnNew, Fresh
<1> QED
  BY <1>3, <1>5, <1>6, <1>7, <1>8 DEF RInv

LEMMA SavedCopies ==
  ASSUME IInv, IInv', RInv, PatchSaved \/ WriteSaved
  PROVE  RInv'
<1>1. TypeOK /\ TypeOK' /\ att' = Idle /\ att.pc \in {"patched", "written"}
  BY DEF IInv, PatchSaved, WriteSaved, Saved
<1>2. /\ base' = att.sent /\ synced' = att.sent
      /\ savedEditSeq' \in {att.start, savedEditSeq}
      /\ UNCHANGED <<view, reached, foreign, db, tracked, editSeq, unseen>>
  BY DEF PatchSaved, WriteSaved, Saved, RInv, Requests, serverVars, trackVars, genVars
<1>3. Unique'
  <2>1. editSeq <= editSeq' /\ unseen <= unseen' /\ foreign <= foreign'
    BY <1>1, <1>2, Typed
  <2>2. \A f \in Fields : Vals(f)' \subseteq Vals(f) \cup {Start, Gone}
    BY <1>1, <1>2, IdleFields DEF Vals
  <2> QED
    BY <1>1, <1>2, <2>1, <2>2, UniqueStep DEF RInv
<1>4. ~Busy' /\ ~Past' /\ att'.pc = "idle"
  BY <1>1, IdleFields DEF Busy, Past
<1>5. ASSUME NEW f \in Fields, db[f] # att.sent[f]
      PROVE  /\ Fresh(db[f])' /\ (f \notin Chars => OwnNew(db[f])')
             /\ f \in Blocks \cup Plugins => f \in tracked
             /\ f \in Chars /\ f \notin tracked =>
                  (db[f].st = "archived" <=> att.sent[f].st = "archived")
  <2>1. NewerAt(f)
    BY <1>1 DEF RInv, Newer
  <2>2. OwnNew(db[f]) /\ db[f].n > att.start => OwnNew(db[f])'
    BY <1>2 DEF OwnNew
  <2>3. db[f].by = "page" /\ db[f] \notin reached => OwnNew(db[f])'
    BY <1>2 DEF IInv, SavedReached, Unsaved, OwnNew
  <2> QED
    BY <1>2, <1>5, <2>1, <2>2, <2>3 DEF NewerAt, Fresh, OwnNew
<1>6. \A c \in Chars \cup Blocks \cup Plugins : c \in Fields
  BY DEF Fields
<1>7. Dirty'
  BY <1>2, <1>4, <1>5, <1>6 DEF Dirty
<1>8. Owns(base)' /\ Owns(synced)'
  BY <1>2, <1>5 DEF Owns, OwnNew
<1>9. Knows(base)' /\ Knows(synced)' /\ Follows(base)'
  BY <1>2, <1>5, <1>6 DEF Knows, Follows, Fresh, OwnNew
<1>10. Newer' /\ Requests'
  BY <1>4 DEF Newer, Requests
<1> QED
  BY <1>3, <1>4, <1>7, <1>8, <1>9, <1>10 DEF RInv, Copies

LEMMA FailsCopies ==
  ASSUME IInv, TypeOK', RInv, RequestLost \/ GivesUp \/ Refused \/ ReadFails \/ SaveRejected
  PROVE  RInv'
<1>1. /\ TypeOK /\ Busy /\ att' = Idle /\ tracked' = tracked \cup att.toSave
      /\ UNCHANGED <<view, reached, foreign, db, base, synced, editSeq, savedEditSeq, unseen>>
  BY DEF IInv, Busy, RequestLost, GivesUp, Refused, ReadFails, Fails, SaveRejected, Requeue,
         serverVars, syncVars, seqVars, genVars
<1>2. Unique'
  <2>1. editSeq <= editSeq' /\ unseen <= unseen' /\ foreign <= foreign'
    BY <1>1, Typed
  <2>2. \A f \in Fields : Vals(f)' \subseteq Vals(f) \cup {Start, Gone}
    BY <1>1, IdleFields DEF Vals
  <2> QED
    BY <1>1, <2>1, <2>2, UniqueStep DEF RInv
<1>3. ~Busy' /\ ~Past' /\ att'.pc = "idle"
  BY <1>1, IdleFields DEF Busy, Past
<1>4. \A f \in Fields : Holds(f) => Holds(f)'
  BY <1>1, <1>3 DEF Holds
<1>5. \A c \in Chars : c \in Fields
  BY DEF Fields
<1>6. Dirty'
  BY <1>1, <1>3 DEF RInv, Dirty
<1>7. Owns(base)' /\ Owns(synced)'
  BY <1>1, <1>4 DEF RInv, Copies, Owns, OwnNew
<1>8. Knows(base)' /\ Knows(synced)'
  BY <1>1, <1>4, <1>5 DEF RInv, Copies, Knows, Fresh, OwnNew
<1>9. Follows(base)'
  BY <1>1 DEF RInv, Copies, Follows
<1>10. Newer' /\ Requests'
  BY <1>3 DEF Newer, Requests
<1> QED
  BY <1>2, <1>3, <1>6, <1>7, <1>8, <1>9, <1>10 DEF RInv, Copies

LEMMA DefersCopies ==
  ASSUME IInv, TypeOK', RInv, Defers
  PROVE  RInv'
<1>1. /\ TypeOK /\ Busy /\ Past /\ att.pc = "merge" /\ att' = Idle
      /\ tracked' = tracked \cup (att.toSave \cup Overlaid)
      /\ base' = BaselineBefore
      /\ UNCHANGED <<view, reached, foreign, db, synced, editSeq, savedEditSeq, unseen>>
  BY DEF IInv, Busy, Past, Defers, Requeue, serverVars, seqVars, genVars
<1>2. /\ \A r \in Roots : base'[r] = att.exp[r]
      /\ \A b \in Blocks \cup Plugins : base'[b] = base[b]
      /\ \A c \in Chars : \/ att.exp[c].st = "archived" /\ base'[c] = att.exp[c]
                          \/ /\ base[c].st = "archived" /\ att.exp[c].st # "archived"
                             /\ base'[c] = Gone
                          \/ /\ base[c].st # "archived" /\ att.exp[c].st # "archived"
                             /\ base'[c] = base[c]
  BY <1>1, FieldsAssumption DEF BaselineBefore, Archived, Fields
<1>3. Unique'
  <2>1. editSeq <= editSeq' /\ unseen <= unseen' /\ foreign <= foreign'
    BY <1>1, Typed
  <2>2. \A f \in Fields : base'[f] \in Vals(f) \cup {Gone}
    BY <1>2 DEF Vals, Fields
  <2>3. \A f \in Fields : Vals(f)' \subseteq Vals(f) \cup {Start, Gone}
    BY <1>1, <2>2, IdleFields DEF Vals
  <2> QED
    BY <1>1, <2>1, <2>3, UniqueStep DEF RInv
<1>4. ~Busy' /\ ~Past' /\ att'.pc = "idle"
  BY <1>1, IdleFields DEF Busy, Past
<1>5. \A f \in Fields : Holds(f) => Holds(f)'
  BY <1>1, <1>4 DEF Holds
<1>6. \A c \in Chars : c \in Fields
  BY DEF Fields
<1>7. Dirty'
  BY <1>1, <1>2, <1>4 DEF RInv, Dirty
<1>8. Owns(base)'
  BY <1>1, <1>2, <1>5 DEF RInv, Copies, Owns, OwnNew, Fields
<1>9. Owns(synced)' /\ Knows(synced)'
  BY <1>1, <1>5, <1>6 DEF RInv, Copies, Owns, Knows, OwnNew, Fresh
<1>10. ASSUME NEW c \in Chars, c \notin tracked'
       PROVE  base'[c] \in {base[c], att.exp[c]}
  <2>1. /\ db[c].st = "archived" <=> base[c].st = "archived"
        /\ db[c].st = "archived" <=> att.exp[c].st = "archived"
    BY <1>1, <1>10 DEF RInv, Copies, Follows
  <2> QED
    BY <1>2, <2>1
<1>11. Knows(base)'
  <2> SUFFICES ASSUME NEW c \in Chars, c \notin tracked', view[c] = base'[c], db[c] # base'[c]
               PROVE  Fresh(db[c])'
    BY <1>1, <1>4 DEF Knows, Holds
  <2>1. Fresh(db[c])
    BY <1>1, <1>10 DEF RInv, Copies, Knows, Holds
  <2> QED
    BY <1>1, <2>1 DEF Fresh, OwnNew
<1>12. Follows(base)'
  BY <1>1, <1>10 DEF RInv, Copies, Follows
<1>13. Newer' /\ Requests'
  BY <1>4 DEF Newer, Requests
<1> QED
  BY <1>3, <1>4, <1>7, <1>8, <1>9, <1>11, <1>12, <1>13 DEF RInv, Copies

\* What a merge does not take from the server goes to the tracker, or is a
\* new edit of a root key.
LEMMA RebasedCopies ==
  ASSUME IInv, TypeOK', RInv, Rebased
  PROVE  RInv'
<1>1. /\ TypeOK /\ Busy /\ Past /\ att' = Idle
      /\ db' = Merged /\ base' = att.cur /\ synced' = att.cur
      /\ editSeq' = editSeq + 1
      /\ tracked \subseteq tracked' /\ att.toSave \subseteq tracked'
      /\ Overlaid \subseteq tracked' /\ Fields \ Chars \subseteq tracked'
      /\ UNCHANGED <<view, reached, foreign, savedEditSeq, unseen>>
  BY DEF IInv, Busy, Past, Rebased, Requeue, serverVars
<1>2. /\ \A r \in Roots : db'[r] = IF db[r] # att.exp[r] THEN db[r] ELSE att.cur[r]
      /\ \A b \in Blocks \cup Plugins : db'[b] \in {db[b], att.cur[b]}
      /\ \A b \in Plugins : db'[b] = att.cur[b]
      /\ \A c \in Chars : db'[c] = MergedChar(c)
  BY <1>1, FieldsAssumption DEF Merged, Fields
<1>3. Unique'
  <2>1. editSeq <= editSeq' /\ unseen <= unseen' /\ foreign <= foreign'
    BY <1>1, Typed
  <2>2. \A f \in Fields : db'[f] \in {db[f], att.cur[f], Gone}
    BY <1>2 DEF MergedChar, Fields
  <2>3. \A f \in Fields : Vals(f)' \subseteq Vals(f) \cup {Start, Gone}
    BY <1>1, <2>2, IdleFields DEF Vals
  <2> QED
    BY <1>1, <2>1, <2>3, UniqueStep DEF RInv
<1>4. ~Busy' /\ ~Past' /\ att'.pc = "idle"
  BY <1>1, IdleFields DEF Busy, Past
<1>5. /\ \A c \in Chars : c \in Fields
      /\ \A f \in Fields \ Chars : f \in Roots \cup Blocks \cup Plugins /\ f \in tracked'
  BY <1>1 DEF Fields
<1>6. Dirty'
  BY <1>1, <1>4, FieldsAssumption DEF Dirty, Fields
<1>7. Owns(base)' /\ Owns(synced)'
  <2> SUFFICES ASSUME NEW f \in Fields \ Chars, db'[f] # att.cur[f]
               PROVE  (OwnNew(db[f])' /\ db'[f] = db[f]) \/ (f \in Blocks /\ Holds(f)')
    BY <1>1 DEF Owns, OwnNew
  <2>1. CASE f \in Roots
    <3>1. db'[f] = db[f] /\ db[f] # att.exp[f]
      BY <1>2, <2>1
    <3>2. OwnNew(db[f])
      BY <1>1, <2>1, <3>1, FieldsAssumption DEF RInv, Copies, Owns
    <3> QED
      BY <1>1, <3>1, <3>2 DEF OwnNew
  <2>2. CASE f \in Blocks
    BY <1>4, <1>5, <2>2 DEF Holds
  <2>3. f \notin Plugins
    BY <1>2
  <2> QED
    BY <1>5, <2>1, <2>2, <2>3
<1>8. ASSUME NEW c \in Chars, c \notin tracked' PROVE db'[c] = att.cur[c]
  <2>1. c \notin Overlaid /\ (db[c].st = "archived" <=> att.exp[c].st = "archived")
    BY <1>1, <1>8 DEF RInv, Copies, Follows
  <2>2. ~Returned(c) /\ ~PutAway(c)
    BY <2>1 DEF Returned, PutAway, Active, Archived
  <2> QED
    BY <1>2, <2>1, <2>2 DEF MergedChar
<1>9. Knows(base)' /\ Knows(synced)' /\ Follows(base)'
  BY <1>1, <1>4, <1>8 DEF Knows, Follows, Holds
<1>10. Newer' /\ Requests'
  BY <1>4 DEF Newer, Requests
<1> QED
  BY <1>3, <1>4, <1>6, <1>7, <1>9, <1>10 DEF RInv, Copies

LEMMA ReloadCopies ==
  ASSUME IInv, TypeOK', RInv, AutoReload \/ UserReload
  PROVE  RInv'
<1>1. /\ TypeOK /\ att = Idle /\ att' = Idle
      /\ db' = view /\ base' = view /\ synced' = view
      /\ UNCHANGED <<view, reached, foreign, editSeq, unseen>>
  BY DEF IInv, AutoReload, UserReload, Reload, serverVars
<1>2. Unique'
  <2>1. editSeq <= editSeq' /\ unseen <= unseen' /\ foreign <= foreign'
    BY <1>1, Typed
  <2>2. \A f \in Fields : Vals(f)' \subseteq Vals(f) \cup {Start, Gone}
    BY <1>1, IdleFields DEF Vals
  <2> QED
    BY <1>1, <2>1, <2>2, UniqueStep DEF RInv
<1>3. ~Past' /\ att'.pc = "idle"
  BY <1>1, IdleFields DEF Busy, Past
<1> QED
  BY <1>1, <1>2, <1>3 DEF RInv, Dirty, Copies, Owns, Knows, Follows, Newer, Requests

LEMMA RInvStep == IInv /\ IInv' /\ RInv /\ [Next]_vars => RInv'
<1> SUFFICES ASSUME IInv, IInv', RInv, [Next]_vars PROVE RInv'
  OBVIOUS
<1>0. /\ TypeOK /\ TypeOK' /\ editSeq \in Nat /\ unseen \in Nat
      /\ editSeq <= editSeq + 1 /\ unseen <= unseen + 1 /\ editSeq <= editSeq /\ unseen <= unseen
  BY Typed DEF IInv
<1>1. ASSUME NEW f \in Fields, NEW st \in Statuses, Edit(f, st) PROVE RInv'
  <2>1. /\ db' = [db EXCEPT ![f] = [by |-> "page", n |-> editSeq + 1, st |-> st]]
        /\ editSeq' = editSeq + 1 /\ tracked' = tracked \cup Tracks(f, st)
        /\ UNCHANGED <<view, reached, foreign, base, synced, savedEditSeq, unseen, att>>
    BY <1>1 DEF Edit, syncVars, genVars
  <2>2. f \in Tracks(f, st)
    BY DEF Tracks
  <2>3. [by |-> "page", n |-> editSeq + 1, st |-> st] \in Edits
    <3>1. editSeq + 1 \in Nat
      BY <1>0
    <3> QED
      BY <3>1 DEF Edits
  <2>4. PICK e \in Edits : e = [by |-> "page", n |-> editSeq + 1, st |-> st]
    BY <2>3, Zenon
  <2>5. e.by = "page" /\ e.n = editSeq + 1 /\ db' = [db EXCEPT ![f] = e]
    BY <2>1, <2>4
  <2> QED
    BY <1>0, <2>1, <2>2, <2>5, OwnEditCopies
<1>2. ASSUME NEW f \in Fields, NEW st \in Statuses, OtherWrites(f, st) PROVE RInv'
  BY <1>0, <1>2, OtherCopies
<1>3. ASSUME NEW c \in Chars, BackgroundEdit(c) PROVE RInv'
  <2>1. /\ db' = [db EXCEPT ![c] = [by |-> "background", n |-> unseen + 1, st |-> "active"]]
        /\ unseen' = unseen + 1 /\ db[c].st = "active"
        /\ UNCHANGED <<view, reached, foreign, base, synced, tracked, editSeq, savedEditSeq, att>>
    BY <1>3 DEF BackgroundEdit, Active, serverVars, syncVars, trackVars, seqVars
  <2>2. [by |-> "background", n |-> unseen + 1, st |-> "active"] \in Edits
    <3>1. unseen + 1 \in Nat
      BY <1>0
    <3> QED
      BY <3>1 DEF Edits, Statuses
  <2>3. PICK e \in Edits : e = [by |-> "background", n |-> unseen + 1, st |-> "active"]
    BY <2>2, Zenon
  <2>4. /\ e.by = "background" /\ e.n = unseen + 1 /\ e.st = "active"
        /\ db' = [db EXCEPT ![c] = e] /\ c \in Fields
    BY <2>1, <2>3 DEF Fields
  <2> QED
    BY <1>0, <2>1, <2>4, OwnEditCopies
<1>4. CASE \E c \in Chars : Selects(c)
  BY <1>0, <1>4, QuietCopies DEF Selects, serverVars, syncVars, genVars
<1>5. CASE \E c \in Chars : GenerationStarts(c) \/ GenerationEnds(c)
  BY <1>0, <1>5, QuietCopies
     DEF GenerationStarts, GenerationEnds, serverVars, syncVars, trackVars, seqVars
<1>6. CASE HandOff \/ ServerRestarts \/ UNCHANGED vars
  BY <1>0, <1>6, QuietCopies
     DEF HandOff, ServerRestarts, vars, serverVars, syncVars, trackVars, seqVars, genVars
<1>7. CASE LoopJoins
  <2>1. UNCHANGED <<att.pc, att.toSave, att.start, att.exp, att.sent, att.cur>>
    BY <1>0, <1>7 DEF LoopJoins, TypeOK, Attempts
  <2> QED
    BY <1>0, <1>7, <2>1, QuietCopies DEF LoopJoins, serverVars, syncVars, seqVars, genVars
<1>8. CASE LoopSaves \/ Flush
  BY <1>0, <1>8, TakesCopies
<1>9. CASE PatchSet
  BY <1>0, <1>9, PatchSetCopies
<1>10. CASE ServerPatch \/ ServerWrite
  <2>1. /\ att'.cur = view'
        /\ UNCHANGED <<att.toSave, att.start, att.exp, att.sent>>
        /\ \/ att.pc = "patch" /\ att'.pc = "patched"
           \/ att.pc = "write" /\ att'.pc = "written"
        /\ Stores(att.sent) \/ UNCHANGED <<view, reached>>
    <3>1. ASSUME NEW pc \in Phases, NEW ans \in Answers, Answered(pc, ans)
          PROVE  /\ att'.pc = pc /\ att'.cur = view'
                 /\ UNCHANGED <<att.toSave, att.start, att.exp, att.sent>>
      BY <1>0, <3>1 DEF Answered, TypeOK, Attempts
    <3>2. CASE ServerPatch
      <4>1. \E ans \in Answers : Answered("patched", ans)
        BY <3>2 DEF ServerPatch, Answers
      <4> QED
        BY <3>1, <3>2, <4>1 DEF ServerPatch, Rejects, Phases
    <3>3. CASE ServerWrite
      <4>1. \E ans \in Answers : Answered("written", ans)
        BY <3>3 DEF ServerWrite, Answers
      <4> QED
        BY <3>1, <3>3, <4>1 DEF ServerWrite, Rejects, Phases
    <3> QED
      BY <1>10, <3>2, <3>3
  <2>2. UNCHANGED <<foreign, db, base, synced, tracked, editSeq, savedEditSeq, unseen>>
    BY <1>10 DEF ServerPatch, ServerWrite, syncVars, trackVars, seqVars, genVars
  <2>4. CASE Stores(att.sent)
    BY <1>0, <2>1, <2>2, <2>4, StoresCopies
  <2>5. CASE UNCHANGED <<view, reached>>
    BY <1>0, <2>1, <2>2, <2>5, AnswersCopies DEF Past, Busy
  <2> QED
    BY <2>1, <2>4, <2>5
<1>11. CASE AnswerLost \/ StartsRebase \/ ServerRead
  <2>1. /\ UNCHANGED <<att.toSave, att.start, att.exp>>
        /\ att'.sent \in {att.sent, NewDb} /\ att'.cur \in {att.cur, view, NewDb}
        /\ \/ att.pc = "patched" /\ att'.pc = "patch" /\ att'.sent = att.sent
           \/ att.pc = "written" /\ att'.pc = "write" /\ att'.sent = att.sent
           \/ att.pc \in {"patched", "written"} /\ att'.pc = "read"
           \/ att.pc = "read" /\ att'.pc = "merge"
    <3>1. CASE AnswerLost
      <4>1. att' = [att EXCEPT !.pc = IF att.pc = "patched" THEN "patch" ELSE "write",
                               !.ans = "none", !.cur = NewDb]
        BY <3>1 DEF AnswerLost
      <4> QED
        BY <1>0, <3>1, <4>1 DEF AnswerLost, TypeOK, Attempts
    <3>2. CASE StartsRebase
      BY <1>0, <3>2 DEF StartsRebase, TypeOK, Attempts
    <3>3. CASE ServerRead
      BY <1>0, <3>3 DEF ServerRead, TypeOK, Attempts
    <3> QED
      BY <1>11, <3>1, <3>2, <3>3
  <2>2. UNCHANGED <<view, reached, foreign, db, base, synced, tracked, editSeq, savedEditSeq, unseen>>
    BY <1>11 DEF AnswerLost, StartsRebase, ServerRead, serverVars, syncVars, trackVars, seqVars, genVars
  <2> QED
    BY <1>0, <2>1, <2>2, AnswersCopies DEF Past, Busy
<1>12. CASE FullWrite
  BY <1>0, <1>12, FullWriteCopies
<1>13. CASE PatchSaved \/ WriteSaved
  BY <1>13, SavedCopies
<1>14. CASE RequestLost \/ GivesUp \/ Refused \/ ReadFails \/ SaveRejected
  BY <1>0, <1>14, FailsCopies
<1>15. CASE Defers \/ Rebased
  BY <1>0, <1>15, DefersCopies, RebasedCopies
<1>16. CASE AutoReload \/ UserReload
  BY <1>0, <1>16, ReloadCopies
<1> QED
  BY <1>1, <1>2, <1>3, <1>4, <1>5, <1>6, <1>7, <1>8, <1>9, <1>10, <1>11, <1>12, <1>13, <1>14,
     <1>15, <1>16 DEF Next, PageSteps, ServerSteps

LEMMA CopiesHold == Spec => []RInv
  BY RInvInit, RInvStep, Invariance, PTL DEF Spec

\* A patch or a full write that the server takes puts edits of the page's own
\* over what is there, but for the fields a rebase laid whole.
THEOREM WritesOnlyItsOwn == Spec => NeverReverts
<1>1. ASSUME IInv, RInv, [Next]_vars, foreign' = foreign, etag = synced,
             NEW f \in Fields \ LaidWhole
      PROVE  ~Reverts(f)
  <2> SUFFICES ASSUME Reverts(f) PROVE FALSE
    OBVIOUS
  <2>1. TypeOK /\ foreign \in Nat
    BY <1>1, Typed DEF IInv
  <2>2. ASSUME Stores(att.sent), NEW x \in Databases, view = x, Replaces(x) PROVE FALSE
    <3>1. view'[f] = att.sent[f] /\ att.sent[f] # x[f]
      BY <2>2 DEF Stores, Reverts
    <3>2. f \notin att.toSave \/ f \notin Chars \cup Blocks
      BY DEF LaidWhole
    <3>3. OwnNew(att.sent[f]) \/ Fresh(att.sent[f])
      BY <2>2, <3>1, <3>2 DEF Replaces
    <3>4. savedEditSeq \in Nat /\ att.sent[f].n \in Nat
      BY <2>1, Typed
    <3> QED
      BY <2>1, <3>1, <3>3, <3>4 DEF Reverts, Fresh, OwnNew
  <2>3. CASE ServerPatch
    <3>1. att.pc = "patch" /\ att.exp \in Databases
      BY <2>1, <2>3 DEF ServerPatch, TypeOK, Attempts
    <3>2. Replaces(att.exp)
      BY <1>1, <3>1 DEF RInv, Requests
    <3>3. view = att.exp /\ Stores(att.sent)
      BY <2>3 DEF ServerPatch, Rejects, Reverts
    <3> QED
      BY <2>2, <3>1, <3>2, <3>3
  <2>4. CASE ServerWrite
    <3>1. att.pc = "write" /\ synced \in Databases
      BY <2>1, <2>4 DEF ServerWrite, TypeOK
    <3>2. Replaces(synced)
      BY <1>1, <3>1 DEF RInv, Requests
    <3>3. view = synced /\ Stores(att.sent)
      BY <1>1, <2>4 DEF ServerWrite, Rejects, Reverts
    <3> QED
      BY <2>2, <3>1, <3>2, <3>3
  <2>5. ASSUME NEW g \in Fields, NEW st \in Statuses, OtherWrites(g, st) PROVE FALSE
    BY <1>1, <2>1, <2>5 DEF OtherWrites
  <2>6. CASE view' = view
    BY <2>6 DEF Reverts
  <2>7. \/ view' = view \/ ServerPatch \/ ServerWrite
        \/ \E g \in Fields, st \in Statuses : OtherWrites(g, st)
    <3>1. CASE \E g \in Fields, st \in Statuses : Edit(g, st)
      BY <3>1 DEF Edit
    <3>2. CASE \E c \in Chars : Selects(c) \/ BackgroundEdit(c) \/ GenerationStarts(c) \/ GenerationEnds(c)
      BY <3>2 DEF Selects, BackgroundEdit, GenerationStarts, GenerationEnds, serverVars
    <3>3. CASE LoopSaves \/ Flush \/ LoopJoins \/ PatchSet
      BY <3>3 DEF LoopSaves, Flush, Takes, LoopJoins, PatchSet, serverVars
    <3>4. CASE PatchSaved \/ WriteSaved \/ FullWrite \/ StartsRebase \/ Rebased \/ Refused \/ SaveRejected
      BY <3>4 DEF SaveRejected, PatchSaved, WriteSaved, Saved, FullWrite, StartsRebase, Rebased, Refused, Fails, serverVars
    <3>5. CASE ServerRead \/ AnswerLost \/ RequestLost \/ GivesUp \/ ReadFails \/ Defers
      BY <3>5 DEF ServerRead, AnswerLost, RequestLost, GivesUp, ReadFails, Fails, Defers, serverVars
    <3>6. CASE HandOff \/ ServerRestarts \/ AutoReload \/ UserReload \/ UNCHANGED vars
      BY <3>6 DEF ServerRestarts, HandOff, AutoReload, UserReload, Reload, serverVars, vars
    <3> QED
      BY <1>1, <3>1, <3>2, <3>3, <3>4, <3>5, <3>6 DEF Next, PageSteps, ServerSteps
  <2> QED
    BY <2>3, <2>4, <2>5, <2>6, <2>7
<1>2. IInv /\ RInv /\ [Next]_vars =>
        [foreign' = foreign /\ etag = synced => \A f \in Fields \ LaidWhole : ~Reverts(f)]_vars
  BY <1>1
<1> QED
  BY <1>2, Invariance, CopiesHold, PTL DEF Spec, NeverReverts

=============================================================================
