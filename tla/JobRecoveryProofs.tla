-------------------------- MODULE JobRecoveryProofs --------------------------
(***************************************************************************)
(* What JobRecovery keeps for any number of generations and reloads: the   *)
(* owner of a chat's entry, that recovery claims only what is saved, and   *)
(* that a failure is shown once.                                           *)
(*                                                                         *)
(* The inductive invariant has three parts, which follow the entry         *)
(* (Owners), the workers (Known, Slots) and the messages (Single, Prefix). *)
(***************************************************************************)
EXTENDS JobRecovery, FiniteSetTheorems, WellFoundedInduction, TLAPS

Over == Ended \cup {"gone"}

\* Everyone who acts on a job has heard of it, and a recovery of its end; a
\* poll loop recovers its own job only.
Known ==
    /\ \A j \in poller \cup scan.active : status[j] # "none"
    /\ \A i \in 1..Len(scan.todo) : status[scan.todo[i]] \in Over
    /\ \A w \in Workers : rec[w].at # "idle" =>
        /\ rec[w].job \in Jobs /\ status[rec[w].job] \in Over
        /\ w # Discovery => rec[w].job = w /\ w \in poller

\* The entry is the live send's exactly while it runs, and nobody else acts on
\* its job meanwhile.
Owners ==
    /\ LiveKeepsEntry
    /\ GuardHasPoller
    /\ entry.kind = "live" => live.at # "none"
    /\ live.at # "none" =>
        /\ live.gen \in Jobs /\ status[live.gen] # "none"
        /\ live.gen \notin poller
        /\ \A w \in Workers : rec[w].at # "idle" => rec[w].job # live.gen

NoneOf(c, j) == \A i \in 1..Len(c) : c[i].gen # j
OneOf(c, j) == \A i, k \in 1..Len(c) : c[i].gen = j /\ c[k].gen = j => i = k
WholeIn(c, j) == \E i \in 1..Len(c) : c[i] = [gen |-> j, text |-> Whole]

\* Until its answer is collected a job has one message at most, and a live send
\* that waits for its first byte has none.
Single ==
    /\ \A j \in Jobs : status[j] = "none" => NoneOf(chat, j)
    /\ \A j \in Jobs : status[j] \in {"running", "answering", "failed"} => OneOf(chat, j)
    /\ live.at = "waiting" => NoneOf(chat, live.gen)

\* The server has the same messages as the tab, up to some length.
Prefix ==
    /\ Len(saved) <= Len(chat)
    /\ \A i \in 1..Len(saved) : saved[i].gen = chat[i].gen

\* Where a recovery found the message it still is; once read a done job's text
\* is in the chat, once saved with the server; not so for a chat that is deleted.
Slots ==
    \A w \in Workers :
        /\ rec[w].at = "read" /\ rec[w].idx # 0 => chat[rec[w].idx].gen = rec[w].job
        /\ rec[w].at = "save" /\ status[rec[w].job] = "done"
             => WholeIn(chat, rec[w].job)
        /\ rec[w].at = "claim" /\ status[rec[w].job] = "done" /\ Here
             => WholeIn(chat, rec[w].job) /\ WholeIn(saved, rec[w].job)

IInv == TypeOK /\ Known /\ Owners /\ Single /\ Prefix /\ Slots

---------------------------------------------------------------------------
(* The messages.                                                           *)

\* c grew into d: every message is where it was, and a whole text stays whole.
Grown(c, d) ==
    /\ Len(c) <= Len(d)
    /\ \A i \in 1..Len(c) :
        d[i].gen = c[i].gen /\ (c[i].text = Whole => d[i].text = Whole)

\* Only messages of job j are new.
OnlyOf(c, d, j) ==
    \A k \in Jobs \ {j} : /\ NoneOf(c, k) => NoneOf(d, k)
                          /\ OneOf(c, k) => OneOf(d, k)

LEMMA LeastIndex ==
  ASSUME NEW S \in SUBSET Nat, S # {}
  PROVE  \E n \in S : \A m \in S : n <= m
<1> DEFINE R == {ss \in Nat \X Nat : ss[1] < ss[2]}
<1>1. IsWellFoundedOn(R, Nat)
  BY Zenon, NatLessThanWellFounded DEF OpToRel
<1>2. \E n \in S : \A m \in S : <<m, n>> \notin R
  <2> HIDE DEF R
  <2> QED BY <1>1, WFMin, Zenon
<1>3. ASSUME NEW m \in Nat, NEW n \in Nat, <<m, n>> \notin R
      PROVE  n <= m
  BY <1>3
<1> HIDE DEF R
<1> QED BY <1>2, <1>3

\* IndexOf finds a message of the job whenever there is one.
LEMMA IndexOfFinds ==
  ASSUME chat \in Seq(Messages), NEW j \in Jobs
  PROVE  /\ IndexOf(j) \in 0..Len(chat)
         /\ IndexOf(j) # 0 => chat[IndexOf(j)].gen = j
         /\ IndexOf(j) = 0 => NoneOf(chat, j)
<1> DEFINE S == {i \in 1..Len(chat) : chat[i].gen = j}
<1>0. Len(chat) \in Nat
  OBVIOUS
<1>1. CASE S = {}
  <2>1. IndexOf(j) = 0 /\ NoneOf(chat, j)
    BY <1>1 DEF IndexOf, NoneOf
  <2> QED BY <2>1, <1>0
<1>2. CASE S # {}
  <2>1. PICK n \in S : \A m \in S : n <= m
    <3>1. S \in SUBSET Nat
      BY <1>0
    <3> QED BY <1>2, <3>1, LeastIndex, Zenon
  <2>2. /\ n \in 1..Len(chat) /\ chat[n].gen = j
        /\ \A k \in 1..(n - 1) : chat[k].gen # j
    BY <1>0, <2>1
  <2>3. IndexOf(j) \in 1..Len(chat) /\ chat[IndexOf(j)].gen = j
    BY <2>2 DEF IndexOf
  <2> QED BY <2>3, <1>0
<1> QED BY <1>1, <1>2

LEMMA MessageTypes ==
  ASSUME NEW c \in Seq(Messages)
  PROVE  \A i \in 1..Len(c) : c[i] \in Messages /\ c[i].gen \in Jobs /\ c[i].text \in Texts
<1>1. \A m \in Messages : m.gen \in Jobs /\ m.text \in Texts
  BY DEF Messages
<1> QED BY <1>1

Appended(c, d, j, t) == d = Append(c, [gen |-> j, text |-> t])
Retexted(c, d, i, t) == d = [c EXCEPT ![i].text = t]

LEMMA AppendMessage ==
  ASSUME NEW c \in Seq(Messages), NEW j \in Jobs, NEW t \in Texts, NEW d,
         Appended(c, d, j, t)
  PROVE  /\ d \in Seq(Messages) /\ Len(d) = Len(c) + 1
         /\ d[Len(d)] = [gen |-> j, text |-> t]
         /\ Grown(c, d) /\ OnlyOf(c, d, j)
         /\ NoneOf(c, j) => OneOf(d, j)
<1> DEFINE m == [gen |-> j, text |-> t]
<1>1. m \in Messages /\ m.gen = j
  BY DEF Messages
<1>2. /\ d \in Seq(Messages) /\ Len(c) \in Nat /\ Len(d) = Len(c) + 1
      /\ d[Len(d)] = m /\ \A i \in 1..Len(c) : d[i] = c[i]
  BY <1>1 DEF Appended
<1> HIDE DEF m
<1>3. Grown(c, d)
  BY <1>2 DEF Grown
<1>4. OnlyOf(c, d, j)
  BY <1>1, <1>2 DEF OnlyOf, NoneOf, OneOf
<1>5. NoneOf(c, j) => OneOf(d, j)
  BY <1>1, <1>2 DEF NoneOf, OneOf
<1> QED BY <1>2, <1>3, <1>4, <1>5 DEF m

\* A new text for a message moves none.
LEMMA RetextMessage ==
  ASSUME NEW c \in Seq(Messages), NEW i, NEW t \in Texts, NEW d,
         Retexted(c, d, i, t),
         c[i].text = Whole => t = Whole
  PROVE  /\ d \in Seq(Messages) /\ Len(d) = Len(c)
         /\ i \in 1..Len(c) => d[i] = [gen |-> c[i].gen, text |-> t]
         /\ Grown(c, d)
         /\ \A k : (NoneOf(c, k) => NoneOf(d, k)) /\ (OneOf(c, k) => OneOf(d, k))
<1>1. Len(c) \in Nat /\ DOMAIN c = 1..Len(c)
  OBVIOUS
<1>2. \A k \in 1..Len(c) : c[k] \in Messages
  OBVIOUS
<1>3. \A k \in 1..Len(c) : d[k] = IF k = i THEN [c[i] EXCEPT !.text = t] ELSE c[k]
  BY <1>1 DEF Retexted
<1>4. \A k \in 1..Len(c) : /\ d[k] \in Messages /\ d[k].gen = c[k].gen
                           /\ k = i => d[k] = [gen |-> c[i].gen, text |-> t]
                           /\ k # i => d[k] = c[k]
  BY <1>2, <1>3 DEF Messages
<1>5. d \in Seq(Messages) /\ Len(d) = Len(c)
  <2>1. d \in [1..Len(c) -> Messages]
    BY <1>1, <1>4 DEF Retexted
  <2> QED BY <2>1, <1>1
<1>6. Grown(c, d)
  BY <1>1, <1>4, <1>5 DEF Grown
<1>7. \A k : (NoneOf(c, k) => NoneOf(d, k)) /\ (OneOf(c, k) => OneOf(d, k))
  BY <1>4, <1>5 DEF NoneOf, OneOf
<1> QED BY <1>4, <1>5, <1>6, <1>7


LEMMA SetTextKeeps ==
  ASSUME chat \in Seq(Messages), NEW j \in Jobs, NEW t \in Texts, NEW d,
         d = SetText(j, t),
         t # Whole => chat[IndexOf(j)].text = 0
  PROVE  /\ d \in Seq(Messages) /\ Len(d) = Len(chat) /\ Grown(chat, d)
         /\ \A k : (NoneOf(chat, k) => NoneOf(d, k)) /\ (OneOf(chat, k) => OneOf(d, k))
<1>1. Retexted(chat, d, IndexOf(j), t)
  BY DEF SetText, Retexted
<1>2. chat[IndexOf(j)].text = Whole => t = Whole
  BY DEF Whole
<1> QED BY <1>1, <1>2, RetextMessage

LEMMA ShowErrorKeeps ==
  ASSUME chat \in Seq(Messages), NEW j \in Jobs, NEW idx \in 0..Len(chat), NEW d,
         d = ShowError(j, idx)
  PROVE  /\ d \in Seq(Messages) /\ Len(chat) <= Len(d)
         /\ Grown(chat, d) /\ OnlyOf(chat, d, j)
         /\ NoneOf(chat, j) => OneOf(d, j)
         /\ idx # 0 => d = chat
<1>1. CASE idx = 0
  <2>1. Appended(chat, d, j, Partial) /\ Partial \in Texts
    BY <1>1 DEF ShowError, Partial, Texts, Appended
  <2>2. /\ d \in Seq(Messages) /\ Len(d) = Len(chat) + 1
        /\ Grown(chat, d) /\ OnlyOf(chat, d, j)
        /\ NoneOf(chat, j) => OneOf(d, j)
    BY <2>1, AppendMessage
  <2> QED BY <1>1, <2>2
<1>2. CASE idx # 0
  <2>1. d = chat
    BY <1>2 DEF ShowError
  <2>2. Grown(chat, chat) /\ OnlyOf(chat, chat, j) /\ (NoneOf(chat, j) => OneOf(chat, j))
    BY DEF Grown, OnlyOf, NoneOf, OneOf
  <2> QED BY <2>1, <2>2
<1> QED BY <1>1, <1>2

LEMMA SlotInKeeps ==
  ASSUME chat \in Seq(Messages), NEW j \in Jobs, NEW idx \in 0..Len(chat), NEW d,
         d = SlotIn(j, idx),
         idx # 0 => chat[idx].gen = j
  PROVE  /\ d \in Seq(Messages) /\ Len(chat) <= Len(d)
         /\ Grown(chat, d) /\ OnlyOf(chat, d, j)
         /\ WholeIn(d, j)
<1>0. Whole \in Texts /\ Whole = 2
  BY DEF Whole, Texts
<1>1. CASE idx = 0
  <2>1. Appended(chat, d, j, Whole)
    BY <1>1 DEF SlotIn, Appended
  <2>2. /\ d \in Seq(Messages) /\ Len(d) = Len(chat) + 1
        /\ d[Len(d)] = [gen |-> j, text |-> Whole]
        /\ Grown(chat, d) /\ OnlyOf(chat, d, j)
    BY <1>0, <2>1, AppendMessage
  <2> QED BY <2>2 DEF WholeIn
<1>2. CASE idx # 0
  <2>1. idx \in 1..Len(chat) /\ chat[idx].gen = j
    BY <1>2
  <2>2. chat[idx].text \in 0..2
    BY <2>1, MessageTypes DEF Texts
  <2>3. CASE chat[idx].text < Whole
    <3>1. Retexted(chat, d, idx, Whole)
      BY <1>2, <2>3 DEF SlotIn, Retexted
    <3>2. /\ d \in Seq(Messages) /\ Len(d) = Len(chat) /\ Grown(chat, d)
          /\ d[idx] = [gen |-> j, text |-> Whole]
          /\ \A k : (NoneOf(chat, k) => NoneOf(d, k)) /\ (OneOf(chat, k) => OneOf(d, k))
      BY <1>0, <2>1, <3>1, RetextMessage
    <3> QED BY <2>1, <3>2 DEF WholeIn, OnlyOf
  <2>4. CASE ~(chat[idx].text < Whole)
    <3>1. d = chat
      BY <1>2, <2>4 DEF SlotIn
    <3>2. chat[idx] = [gen |-> j, text |-> Whole]
      <4>1. chat[idx].text = Whole
        BY <1>0, <2>2, <2>4
      <4>2. chat[idx] = [gen |-> chat[idx].gen, text |-> chat[idx].text]
        BY <2>1, MessageTypes DEF Messages
      <4> QED BY <2>1, <4>1, <4>2
    <3> QED BY <2>1, <3>1, <3>2 DEF WholeIn, OnlyOf, Grown
  <2> QED BY <2>3, <2>4
<1> QED BY <1>1, <1>2

---------------------------------------------------------------------------
(* What a recovery's start and end do.                                     *)

Entries == [kind : {"none", "live", "background"}, gen : Workers]
Recs(n) == [at : {"idle", "read", "save", "claim"}, job : Workers, idx : 0..n]

\* Where a recovery of job j that goes on stands: only a journal is read for a
\* message looked up before.
Stands(j, at) == [at |-> at, job |-> j, idx |-> IF at = "read" THEN IndexOf(j) ELSE 0]

\* A recovery of job j that goes on: it reads a journal, it has already put a
\* failure where IndexOf found room for it, or there is no chat.
Goes(w, j, at) ==
    /\ entry.kind # "live"
    /\ entry' = entry /\ poller' = poller
    /\ home' = home
    /\ rec' = [rec EXCEPT ![w] = Stands(j, at)]
    /\ \/ at = "read" /\ status[j] \in {"done", "refused", "gone"} /\ chat' = chat
       \/ /\ at \in {"save", "claim"} /\ status[j] \in {"failed", "gone"}
          /\ chat' = chat \/ chat' = ShowError(j, IndexOf(j))
       \/ at = "claim" /\ ~Here /\ status[j] \in Over /\ chat' = chat

LEMMA BeginCases ==
  ASSUME NEW w \in Workers, NEW j \in Jobs, Begin(w, j), home' = home
  PROVE  \/ Leave(w) /\ chat' = chat
         \/ \E at \in {"read", "save", "claim"} : Goes(w, j, at)
<1>1. CASE entry.kind = "live"
  BY <1>1 DEF Begin
<1>2. CASE entry.kind # "live" /\ ~(Leave(w) /\ chat' = chat)
  <2>1. CASE Goes(w, j, "read")
    BY <2>1
  <2>2. CASE Goes(w, j, "save")
    BY <2>2
  <2>3. CASE Goes(w, j, "claim")
    BY <2>3
  <2>4. Goes(w, j, "read") \/ Goes(w, j, "save") \/ Goes(w, j, "claim")
    BY <1>2 DEF Begin, Goes, Stands, Over
  <2> QED BY <2>1, <2>2, <2>3, <2>4
<1> QED BY <1>1, <1>2

LEMMA JobsAreWorkers == /\ Jobs \subseteq Workers /\ Discovery \in Workers
                        /\ Discovery \notin Jobs /\ Workers = {Discovery} \cup Jobs
  BY JobRecoveryAssumption DEF Workers, Jobs, Discovery

LEMMA IdleTypes ==
  /\ NoEntry \in Entries
  /\ NoSend \in [at : {"none", "waiting", "streaming"}, gen : Workers]
  /\ \A n \in Nat : Idle \in Recs(n)
  BY JobsAreWorkers DEF NoEntry, NoSend, Idle, Entries, Recs, Discovery

\* The recoveries stay typed while the chat grows.
LEMMA RecsGrow ==
  ASSUME NEW m \in Nat, NEW n \in Nat, m <= n, NEW r \in [Workers -> Recs(m)]
  PROVE  r \in [Workers -> Recs(n)]
<1>1. 0..m \subseteq 0..n
  OBVIOUS
<1>2. Recs(m) \subseteq Recs(n)
  BY <1>1 DEF Recs
<1> QED BY <1>2

LEMMA TypeFacts ==
  ASSUME TypeOK
  PROVE  /\ rec \in [Workers -> Recs(Len(chat))]
         /\ entry \in Entries
         /\ Len(chat) \in Nat /\ Len(saved) \in Nat
         /\ \A w \in Workers :
              /\ rec[w].idx \in 0..Len(chat) /\ rec[w].job \in Workers
              /\ rec[w].at \in {"idle", "read", "save", "claim"}
<1>1. rec \in [Workers -> Recs(Len(chat))]
  BY DEF TypeOK, Recs
<1>2. \A n : \A r \in Recs(n) : /\ r.idx \in 0..n /\ r.job \in Workers
                                /\ r.at \in {"idle", "read", "save", "claim"}
  BY DEF Recs
<1> QED BY <1>1, <1>2 DEF TypeOK, Entries

\* Whoever leaves takes its poll loop and no other along.
LEMMA LeaveEffect ==
  ASSUME TypeOK, NEW w \in Workers, Leave(w)
  PROVE  /\ rec' = [rec EXCEPT ![w] = Idle]
         /\ rec' \in [Workers -> Recs(Len(chat))]
         /\ entry' \in Entries
         /\ poller \ {w} \subseteq poller' /\ poller' \subseteq poller
         /\ w \in Jobs => w \notin poller'
         /\ entry' = NoEntry \/ (entry' = entry /\ (w \in Jobs => entry.gen # w))
         /\ entry' # entry => entry.gen = w
<1>1. rec' = [rec EXCEPT ![w] = Idle]
  BY DEF Leave
<1>2. rec' \in [Workers -> Recs(Len(chat))]
  BY <1>1, TypeFacts, IdleTypes
<1>3. CASE w = Discovery
  <2>1. entry' = entry /\ poller' = poller
    BY <1>3 DEF Leave
  <2> QED BY <1>1, <1>2, <1>3, <2>1, TypeFacts, JobsAreWorkers
<1>4. CASE w # Discovery
  <2>1. entry' = (IF entry.gen = w THEN NoEntry ELSE entry) /\ poller' = poller \ {w}
    BY <1>4 DEF Leave, Release
  <2> QED BY <1>1, <1>2, <2>1, TypeFacts, IdleTypes
<1> QED BY <1>3, <1>4

\* What a recovery that goes on does to the chat, and where it stands then.
LEMMA GoesEffect ==
  ASSUME TypeOK, NEW w \in Workers, NEW j \in Jobs, NEW at \in {"read", "save", "claim"},
         Goes(w, j, at)
  PROVE  /\ chat' \in Seq(Messages) /\ Len(chat) <= Len(chat')
         /\ Grown(chat, chat') /\ OnlyOf(chat, chat', j)
         /\ OneOf(chat, j) => OneOf(chat', j)
         /\ IndexOf(j) \in 0..Len(chat)
         /\ rec' \in [Workers -> Recs(Len(chat'))]
<1>1. chat \in Seq(Messages)
  BY DEF TypeOK
<1>2. IndexOf(j) \in 0..Len(chat) /\ (IndexOf(j) = 0 => NoneOf(chat, j))
  BY <1>1, IndexOfFinds
<1>5. chat' = chat \/ chat' = ShowError(j, IndexOf(j))
  BY DEF Goes
<1>6. /\ chat' \in Seq(Messages) /\ Len(chat) <= Len(chat')
      /\ Grown(chat, chat') /\ OnlyOf(chat, chat', j)
      /\ OneOf(chat, j) => OneOf(chat', j)
  <2>1. CASE chat' = chat
    BY <1>1, <2>1, TypeFacts DEF Grown, OnlyOf
  <2>2. CASE chat' = ShowError(j, IndexOf(j))
    BY <1>1, <1>2, <2>2, ShowErrorKeeps
  <2> QED BY <1>5, <2>1, <2>2
<1>7. Len(chat') \in Nat /\ Len(chat) \in Nat
  BY <1>1, <1>6
<1>8. Stands(j, at) \in Recs(Len(chat'))
  <2>1. IndexOf(j) \in 0..Len(chat') /\ 0 \in 0..Len(chat')
    BY <1>2, <1>6, <1>7
  <2> QED BY <2>1, JobsAreWorkers DEF Recs, Stands
<1>9. rec \in [Workers -> Recs(Len(chat'))]
  BY <1>6, <1>7, TypeFacts, RecsGrow
<1>10. rec' = [rec EXCEPT ![w] = Stands(j, at)]
  BY DEF Goes
<1> QED BY <1>2, <1>6, <1>8, <1>9, <1>10

---------------------------------------------------------------------------
(* The type invariant.                                                     *)

Statuses == {"none", "running", "answering", "gone"} \cup Ended

Homes == {"listed", "deleted", "gone"}

LEMMA TypeInit == Init => TypeOK
<1> SUFFICES ASSUME Init PROVE TypeOK
  OBVIOUS
<1>1. status \in [Jobs -> Statuses]
  BY DEF Init, Statuses
<1>2. chat \in Seq(Messages) /\ saved \in Seq(Messages) /\ Len(chat) = 0
  BY DEF Init
<1>3. scan \in [at : {"none", "both", "unclaimed", "active", "jobs"},
                todo : Seq(Jobs), active : SUBSET Jobs]
  BY DEF Init, NoScan
<1>4. rec \in [Workers -> Recs(Len(chat))] /\ entry \in Entries
  BY <1>2, IdleTypes DEF Init
<1>6. home \in Homes
  BY DEF Init, Homes
<1>5. deaths \in 0..MaxDeaths
  BY JobRecoveryAssumption DEF Init
<1> QED BY <1>1, <1>2, <1>3, <1>4, <1>5, <1>6, IdleTypes
        DEF Init, TypeOK, Statuses, Recs, Entries, Homes

\* The chat, the recoveries, the entry and the loops of a step are well typed.
LEMMA TypeParts ==
  ASSUME status' \in [Jobs -> Statuses], claimed' \subseteq Jobs,
         chat' \in Seq(Messages), saved' \in Seq(Messages),
         entry' \in Entries,
         live' \in [at : {"none", "waiting", "streaming"}, gen : Workers],
         poller' \subseteq Jobs,
         scan' \in [at : {"none", "both", "unclaimed", "active", "jobs"},
                    todo : Seq(Jobs), active : SUBSET Jobs],
         rec' \in [Workers -> Recs(Len(chat'))],
         deaths' \in 0..MaxDeaths, home' \in Homes
  PROVE  TypeOK'
  BY DEF TypeOK, Statuses, Recs, Entries, Homes

\* The chat is deleted once, and comes back with a new tab only.
LEMMA HomeMoves ==
  ASSUME home \in Homes, [Next]_vars
  PROVE  home' \in Homes /\ (~Die => (Here' => Here) /\ (DeleteChat \/ home' = home))
<1>1. CASE Die
  BY <1>1 DEF Die, Homes
<1>2. CASE DeleteChat
  BY <1>2 DEF DeleteChat, Here, Homes
<1>3. home' = home \/ Die \/ DeleteChat
  BY DEF Next, LiveStep, RecoveryStep, StartSend, Push, Chunk, Collect, Stray, FailSend,
     LoseStream, StopSend, EndSend, Upstream, StartDiscovery, ListUnclaimed, ListActive,
     RecoverNext, AttachRunning, Poll, PollEnds, Read, ReadThrows, Save, SaveFails, Claim,
     AutoSave, StopBackground, vars
<1>4. home' = home => (Here' => Here)
  BY DEF Here
<1> QED BY <1>1, <1>2, <1>3, <1>4 DEF DeleteChat, Here

\* The unclaimed jobs listed in order.
LEMMA UnclaimedOrdered ==
  ASSUME NEW s \in InOrder(Unclaimed)
  PROVE  /\ s \in Seq(Jobs)
         /\ \A i \in 1..Len(s) : status[s[i]] \in Ended /\ s[i] \notin claimed
<1>1. Unclaimed \subseteq 1..MaxJobs /\ Unclaimed \subseteq Jobs
  BY DEF Unclaimed, Jobs
<1>2. IsFiniteSet(1..MaxJobs)
  BY JobRecoveryAssumption, FS_Interval
<1>3. Cardinality(Unclaimed) \in Nat
  BY <1>1, <1>2, FS_Subset, FS_CardinalityType
<1>4. s \in [1..Cardinality(Unclaimed) -> Unclaimed]
  BY DEF InOrder
<1> HIDE DEF Unclaimed
<1>5. s \in Seq(Unclaimed)
  BY <1>3, <1>4
<1>6. \A i \in 1..Len(s) : s[i] \in Unclaimed
  BY <1>5
<1> QED BY <1>1, <1>5, <1>6 DEF Unclaimed

\* A journal once read, the recovery saves or claims.
LEMMA ReadMoves ==
  ASSUME NEW w \in Workers, Read(w)
  PROVE  \E at \in {"save", "claim"} :
            /\ rec' = [rec EXCEPT ![w] = [at |-> at, job |-> rec[w].job, idx |-> 0]]
            /\ \/ at = "save" /\ chat' = SlotIn(rec[w].job, rec[w].idx)
               \/ status[rec[w].job] = "refused"
  BY DEF Read, Then

LEMMA TypeStep ==
  ASSUME IInv, [Next]_vars
  PROVE  TypeOK'
<1> DEFINE Sends == [at : {"none", "waiting", "streaming"}, gen : Workers]
           Scans == [at : {"none", "both", "unclaimed", "active", "jobs"},
                     todo : Seq(Jobs), active : SUBSET Jobs]
           Bound == 0..MaxDeaths
<1>0. TypeOK /\ Known /\ Owners /\ Slots
  BY DEF IInv
<1>a. /\ status \in [Jobs -> Statuses] /\ claimed \subseteq Jobs
      /\ chat \in Seq(Messages) /\ saved \in Seq(Messages)
      /\ entry \in Entries /\ live \in Sends /\ poller \subseteq Jobs
      /\ scan \in Scans /\ rec \in [Workers -> Recs(Len(chat))] /\ deaths \in Bound
      /\ home' \in Homes
  BY <1>0, TypeFacts, HomeMoves DEF TypeOK, Statuses, Homes
<1>b. /\ NoEntry \in Entries /\ NoSend \in Sends /\ Jobs \subseteq Workers
      /\ \A n \in Nat : Idle \in Recs(n)
      /\ Len(chat) \in Nat
      /\ Ended \subseteq Statuses /\ {"running", "answering", "gone"} \subseteq Statuses
  BY <1>0, IdleTypes, JobsAreWorkers, TypeFacts DEF Statuses, Ended
<1>c. live.at # "none" => live.gen \in Jobs
  BY <1>0 DEF Owners
<1>d. \A w \in Workers : rec[w].at # "idle" => rec[w].job \in Jobs /\ rec[w].idx \in 0..Len(chat)
  BY <1>0, TypeFacts DEF Known
<1>e. NoScan \in Scans
  BY DEF NoScan
\* A worker's next phase.
<1>f. ASSUME NEW w \in Workers, NEW at \in {"idle", "read", "save", "claim"}
      PROVE  [rec EXCEPT ![w].at = at] \in [Workers -> Recs(Len(chat))]
  <2>1. [rec[w] EXCEPT !.at = at] \in Recs(Len(chat))
    BY <1>a DEF Recs
  <2>2. [rec EXCEPT ![w].at = at] = [rec EXCEPT ![w] = [rec[w] EXCEPT !.at = at]]
    BY <1>a, Zenon
  <2> QED BY <1>a, <2>1, <2>2
\* What a step leaves alone stays typed.
<1>g. /\ status' = status => status' \in [Jobs -> Statuses]
      /\ claimed' = claimed => claimed' \subseteq Jobs
      /\ chat' = chat => chat' \in Seq(Messages)
      /\ chat' = chat => rec \in [Workers -> Recs(Len(chat'))]
      /\ saved' = saved => saved' \in Seq(Messages)
      /\ entry' = entry => entry' \in Entries
      /\ live' = live => live' \in Sends
      /\ poller' = poller => poller' \subseteq Jobs
      /\ scan' = scan => scan' \in Scans
      /\ deaths' = deaths => deaths' \in Bound
  BY <1>a
\* The end of a send that leaves a chat it has grown at most.
<1>h. ASSUME EndSend, chat' \in Seq(Messages), Len(chat) <= Len(chat')
      PROVE  /\ live' \in Sends /\ entry' \in Entries /\ saved' \in Seq(Messages)
             /\ poller' \subseteq Jobs /\ scan' \in Scans /\ deaths' \in Bound
             /\ rec' \in [Workers -> Recs(Len(chat'))]
  <2>1. rec' = rec /\ Len(chat') \in Nat
    BY <1>h DEF EndSend
  <2>2. rec' \in [Workers -> Recs(Len(chat'))]
    BY <1>a, <1>b, <1>h, <2>1, RecsGrow
  <2> QED BY <1>a, <1>b, <1>h, <2>2 DEF EndSend
\* Everything but the recovery stays with a worker that leaves.
<1>i. ASSUME NEW w \in Workers, Leave(w), chat' = chat
      PROVE  /\ rec' \in [Workers -> Recs(Len(chat'))]
             /\ entry' \in Entries /\ poller' \subseteq Jobs
  BY <1>0, <1>a, <1>i, LeaveEffect
<1>j. ASSUME NEW w \in Workers, NEW j \in Jobs, Begin(w, j), home' = home
      PROVE  /\ rec' \in [Workers -> Recs(Len(chat'))] /\ chat' \in Seq(Messages)
             /\ entry' \in Entries /\ poller' \subseteq Jobs
  <2>1. CASE Leave(w) /\ chat' = chat
    BY <1>a, <1>i, <2>1
  <2>2. ASSUME NEW at \in {"read", "save", "claim"}, Goes(w, j, at)
        PROVE  /\ rec' \in [Workers -> Recs(Len(chat'))] /\ chat' \in Seq(Messages)
               /\ entry' \in Entries /\ poller' \subseteq Jobs
    <3>1. entry' = entry /\ poller' = poller
      BY <2>2 DEF Goes
    <3> QED BY <1>0, <1>a, <2>2, <3>1, GoesEffect
  <2> QED BY <1>j, <2>1, <2>2, BeginCases
<1> HIDE DEF Sends, Scans, Bound
<1>1. ASSUME NEW j \in Jobs, Upstream(j)
      PROVE  TypeOK'
  <2>1. status' \in [Jobs -> Statuses]
    BY <1>1, <1>a, <1>b DEF Upstream, Ended, Statuses
  <2>2. UNCHANGED <<claimed, tabVars, poller, scan, rec, deaths, home>>
    BY <1>1 DEF Upstream
  <2> QED BY <1>a, <2>1, <2>2, TypeParts DEF tabVars, Sends, Scans, Bound
<1>2. ASSUME NEW j \in Jobs, StartSend(j)
      PROVE  TypeOK'
  <2>1. status' \in [Jobs -> Statuses]
    BY <1>2, <1>a, <1>b DEF StartSend
  <2>2. entry' \in Entries /\ live' \in Sends
    BY <1>2, <1>b DEF StartSend, Entries, Sends
  <2>3. UNCHANGED <<claimed, chat, saved, poller, scan, rec, deaths, home>>
    BY <1>2 DEF StartSend
  <2> QED BY <1>a, <2>1, <2>2, <2>3, TypeParts DEF Sends, Scans, Bound
<1>3. CASE Push
  <2>1. Appended(chat, chat', live.gen, 0) /\ live.gen \in Jobs /\ 0 \in Texts
    BY <1>3, <1>c DEF Push, Appended, Texts
  <2>2. chat' \in Seq(Messages) /\ Len(chat') = Len(chat) + 1
    BY <1>a, <2>1, AppendMessage
  <2>3. live' \in Sends
    BY <1>3, <1>a DEF Push, Sends
  <2>4. UNCHANGED <<serverVars, saved, entry, poller, scan, rec, deaths, home>>
    BY <1>3 DEF Push
  <2>5. rec' \in [Workers -> Recs(Len(chat'))]
    BY <1>a, <1>b, <2>2, <2>4, RecsGrow
  <2> QED BY <1>a, <2>2, <2>3, <2>4, <2>5, TypeParts DEF serverVars, Sends, Scans, Bound
<1>4. CASE Chunk
  <2>1. chat' \in Seq(Messages) /\ Len(chat') = Len(chat)
    <3>1. live.gen \in Jobs /\ Partial \in Texts
      BY <1>4, <1>c DEF Chunk, Partial, Texts
    <3>2. chat' = SetText(live.gen, Partial) /\ chat[IndexOf(live.gen)].text = 0
      BY <1>4 DEF Chunk
    <3> QED BY <1>a, <3>1, <3>2, SetTextKeeps
  <2>2. UNCHANGED <<serverVars, saved, entry, live, poller, scan, rec, deaths, home>>
    BY <1>4 DEF Chunk
  <2> QED BY <1>a, <2>1, <2>2, TypeParts DEF serverVars, Sends, Scans, Bound
<1>5. CASE Collect
  <2>1. chat' \in Seq(Messages) /\ Len(chat') = Len(chat)
    <3>1. live.gen \in Jobs /\ Whole \in Texts
      BY <1>5, <1>c DEF Collect, Whole, Texts
    <3> QED BY <1>5, <1>a, <3>1, SetTextKeeps DEF Collect
  <2>2. claimed' \subseteq Jobs
    BY <1>5, <1>a, <1>c DEF Collect, TryClaim
  <2>3. EndSend /\ status' = status /\ Len(chat) <= Len(chat')
    BY <1>5, <1>b, <2>1 DEF Collect
  <2> QED BY <1>a, <1>h, <2>1, <2>2, <2>3, TypeParts DEF Sends, Scans, Bound
<1>k. ASSUME live.at # "none",
             chat' = chat \/ (Here /\ live.at = "waiting" /\ chat' = ShowError(live.gen, 0))
      PROVE  chat' \in Seq(Messages) /\ Len(chat) <= Len(chat')
  BY <1>a, <1>b, <1>c, <1>k, ShowErrorKeeps
<1>24. CASE Stray
  <2>1. EndSend /\ chat' = chat /\ status' = status
    BY <1>24 DEF Stray
  <2>2. claimed' \subseteq Jobs
    BY <1>24, <1>a, <1>c DEF Stray, TryClaim
  <2> QED BY <1>a, <1>b, <1>h, <2>1, <2>2, TypeParts DEF Sends, Scans, Bound
<1>25. CASE DeleteChat
  <2>1. UNCHANGED <<serverVars, tabVars, poller, scan, rec, deaths>>
    BY <1>25 DEF DeleteChat
  <2> QED BY <1>a, <2>1, TypeParts DEF serverVars, tabVars, Sends, Scans, Bound
<1>6. CASE FailSend
  <2>1. chat' \in Seq(Messages) /\ Len(chat) <= Len(chat')
    BY <1>6, <1>k DEF FailSend
  <2>2. claimed' \subseteq Jobs
    BY <1>6, <1>a, <1>c DEF FailSend, TryClaim
  <2>3. EndSend /\ status' = status
    BY <1>6 DEF FailSend
  <2> QED BY <1>a, <1>h, <2>1, <2>2, <2>3, TypeParts DEF Sends, Scans, Bound
<1>7. CASE LoseStream
  <2>1. chat' \in Seq(Messages) /\ Len(chat) <= Len(chat')
    BY <1>7, <1>k DEF LoseStream
  <2>2. EndSend /\ status' = status /\ claimed' = claimed
    BY <1>7 DEF LoseStream, serverVars
  <2> QED BY <1>a, <1>h, <2>1, <2>2, TypeParts DEF Sends, Scans, Bound
<1>8. CASE StopSend
  <2>1. EndSend /\ chat' = chat /\ claimed' = claimed
    BY <1>8 DEF StopSend
  <2>2. status' \in [Jobs -> Statuses]
    BY <1>8, <1>a, <1>b DEF StopSend, Delete
  <2> QED BY <1>a, <1>b, <1>h, <2>1, <2>2, TypeParts DEF Sends, Scans, Bound
<1>9. CASE AutoSave
  BY <1>9, <1>a, TypeParts DEF AutoSave, serverVars, Sends, Scans, Bound
<1>10. CASE Die
  <2>1. chat' \in Seq(Messages) /\ Len(chat') \in Nat
    BY <1>10, <1>a DEF Die
  <2>2. rec' \in [Workers -> Recs(Len(chat'))]
    BY <1>10, <1>b, <2>1 DEF Die
  <2>3. deaths' \in Bound
    BY <1>10, <1>a, JobRecoveryAssumption DEF Die, Bound
  <2>4. /\ entry' \in Entries /\ live' \in Sends /\ poller' \subseteq Jobs /\ scan' \in Scans
        /\ UNCHANGED <<status, claimed, saved>>
    BY <1>10, <1>b, <1>e DEF Die, serverVars, Sends, Scans
  <2> QED BY <1>a, <2>1, <2>2, <2>3, <2>4, TypeParts DEF Sends, Scans, Bound
<1>11. ASSUME NEW w \in Workers, Read(w)
       PROVE  TypeOK'
  <2> DEFINE j == rec[w].job
             idx == rec[w].idx
  <2>1. j \in Jobs /\ idx \in 0..Len(chat)
    BY <1>11, <1>d DEF Read
  <2>2. idx # 0 => chat[idx].gen = j
    BY <1>11, <1>0 DEF Read, Slots
  <2>3. chat' = SlotIn(j, idx) \/ chat' = ShowError(j, idx) \/ chat' = chat
    BY <1>11 DEF Read
  <2>4. chat' \in Seq(Messages) /\ Len(chat) <= Len(chat') /\ Len(chat') \in Nat
    BY <1>a, <1>b, <2>1, <2>2, <2>3, SlotInKeeps, ShowErrorKeeps
  <2>5. rec' \in [Workers -> Recs(Len(chat))]
    <3>1. \E at \in {"save", "claim"} :
                rec' = [rec EXCEPT ![w] = [at |-> at, job |-> rec[w].job, idx |-> 0]]
      BY <1>11, ReadMoves
    <3>2. rec[w].job \in Workers /\ 0 \in 0..Len(chat)
      BY <1>b, <2>1
    <3>3. \A at \in {"save", "claim"} :
                [at |-> at, job |-> rec[w].job, idx |-> 0] \in Recs(Len(chat))
      BY <3>2 DEF Recs
    <3> HIDE DEF j, idx
    <3> QED BY <1>a, <3>1, <3>3
  <2>6. rec' \in [Workers -> Recs(Len(chat'))]
    BY <1>b, <2>4, <2>5, RecsGrow
  <2>7. UNCHANGED <<serverVars, saved, entry, live, poller, scan, deaths, home>>
    BY <1>11 DEF Read
  <2> QED BY <1>a, <2>4, <2>6, <2>7, TypeParts DEF serverVars, Sends, Scans, Bound
<1>12. ASSUME NEW w \in Workers, ReadThrows(w) \/ SaveFails(w)
       PROVE  TypeOK'
  <2>1. Leave(w) /\ UNCHANGED <<serverVars, chat, saved, live, scan, deaths, home>>
    BY <1>12 DEF ReadThrows, SaveFails
  <2> QED BY <1>a, <1>i, <2>1, TypeParts DEF serverVars, Sends, Scans, Bound
<1>13. ASSUME NEW w \in Workers, Save(w)
       PROVE  TypeOK'
  <2>1. rec' \in [Workers -> Recs(Len(chat))]
    BY <1>13, <1>f DEF Save
  <2>2. saved' = chat /\ UNCHANGED <<serverVars, chat, entry, live, poller, scan, deaths, home>>
    BY <1>13 DEF Save
  <2> QED BY <1>a, <2>1, <2>2, TypeParts DEF serverVars, Sends, Scans, Bound
<1>14. ASSUME NEW w \in Workers, Claim(w)
       PROVE  TypeOK'
  <2>1. claimed' \subseteq Jobs
    BY <1>14, <1>a, <1>d DEF Claim, TryClaim
  <2>2. Leave(w) /\ UNCHANGED <<status, chat, saved, live, scan, deaths, home>>
    BY <1>14 DEF Claim
  <2> QED BY <1>a, <1>i, <2>1, <2>2, TypeParts DEF Sends, Scans, Bound
<1>15. CASE StartDiscovery
  <2>1. scan' \in Scans
    BY <1>15, <1>a DEF StartDiscovery, Scans
  <2> QED BY <1>15, <1>a, <2>1, TypeParts DEF StartDiscovery, serverVars, tabVars, Sends, Scans, Bound
<1>16. CASE ListUnclaimed
  <2>1. PICK s \in InOrder(Unclaimed) :
            scan' = [scan EXCEPT !.at = IF @ = "both" THEN "active" ELSE "jobs", !.todo = s]
    BY <1>16 DEF ListUnclaimed
  <2>2. s \in Seq(Jobs)
    BY <2>1, UnclaimedOrdered
  <2>3. scan' \in Scans
    BY <1>a, <2>1, <2>2 DEF Scans
  <2> QED BY <1>16, <1>a, <2>3, TypeParts DEF ListUnclaimed, serverVars, tabVars, Sends, Scans, Bound
<1>17. CASE ListActive
  <2>1. scan' \in Scans
    BY <1>17, <1>a DEF ListActive, Scans
  <2> QED BY <1>17, <1>a, <2>1, TypeParts DEF ListActive, serverVars, tabVars, Sends, Scans, Bound
<1>18. CASE RecoverNext
  <2>1. scan.todo \in Seq(Jobs) /\ scan.todo # <<>>
    BY <1>18, <1>a DEF RecoverNext, Scans
  <2>2. Head(scan.todo) \in Jobs /\ Tail(scan.todo) \in Seq(Jobs)
    BY <2>1
  <2>3. Begin(Discovery, Head(scan.todo)) /\ scan' = [scan EXCEPT !.todo = Tail(scan.todo)]
    BY <1>18 DEF RecoverNext
  <2>4. scan' \in Scans
    BY <1>a, <2>2, <2>3 DEF Scans
  <2>6. UNCHANGED <<serverVars, saved, live, deaths, home>>
    BY <1>18 DEF RecoverNext
  <2>5. /\ rec' \in [Workers -> Recs(Len(chat'))] /\ chat' \in Seq(Messages)
        /\ entry' \in Entries /\ poller' \subseteq Jobs
    BY <1>j, <2>2, <2>3, <2>6, JobsAreWorkers
  <2> QED BY <1>a, <2>4, <2>5, <2>6, TypeParts DEF serverVars, Sends, Scans, Bound
<1>19. CASE AttachRunning
  <2>1. Attachable \subseteq Jobs
    BY <1>a DEF Attachable, Scans
  <2>2. entry' \in Entries
    BY <1>19, <1>a, <1>b, <2>1 DEF AttachRunning, Entries
  <2>3. poller' \subseteq Jobs /\ scan' \in Scans
    BY <1>19, <1>a, <1>e, <2>1 DEF AttachRunning
  <2>4. UNCHANGED <<serverVars, chat, saved, live, rec, deaths, home>>
    BY <1>19 DEF AttachRunning
  <2> QED BY <1>a, <2>2, <2>3, <2>4, TypeParts DEF serverVars, Sends, Scans, Bound
<1>20. ASSUME NEW j \in Jobs, Poll(j)
       PROVE  TypeOK'
  <2>1. j \in Workers /\ UNCHANGED <<serverVars, saved, live, scan, deaths, home>>
    BY <1>20, <1>b DEF Poll
  <2>2. CASE Begin(j, j)
    BY <1>a, <1>j, <2>1, <2>2, TypeParts DEF serverVars, Sends, Scans, Bound
  <2>3. CASE Leave(j) /\ chat' = chat
    BY <1>a, <1>i, <2>1, <2>3, TypeParts DEF serverVars, Sends, Scans, Bound
  <2> QED BY <1>20, <2>2, <2>3 DEF Poll
<1>21. ASSUME NEW j \in Jobs, PollEnds(j)
       PROVE  TypeOK'
  <2>1. /\ j \in Workers /\ Leave(j)
        /\ UNCHANGED <<serverVars, chat, saved, live, scan, deaths, home>>
    BY <1>21, <1>b DEF PollEnds
  <2> QED BY <1>a, <1>i, <2>1, TypeParts DEF serverVars, Sends, Scans, Bound
<1>22. CASE StopBackground
  <2>1. status' \in [Jobs -> Statuses]
    BY <1>22, <1>a, <1>b DEF StopBackground, Delete
  <2>2. entry' = NoEntry /\ UNCHANGED <<claimed, chat, saved, live, poller, scan, rec, deaths, home>>
    BY <1>22 DEF StopBackground
  <2> QED BY <1>a, <1>b, <2>1, <2>2, TypeParts DEF Sends, Scans, Bound
<1>23. CASE UNCHANGED vars
  BY <1>23, <1>a, TypeParts DEF vars, Sends, Scans, Bound
<1> QED
  BY <1>1, <1>2, <1>3, <1>4, <1>5, <1>6, <1>7, <1>8, <1>9, <1>10, <1>11, <1>12, <1>13,
     <1>14, <1>15, <1>16, <1>17, <1>18, <1>19, <1>20, <1>21, <1>22, <1>23, <1>24, <1>25
  DEF Next, LiveStep, RecoveryStep

---------------------------------------------------------------------------
(* What a step does to the jobs, the messages and the recoveries.          *)

\* A job once started stays known, and one that is over can only be deleted.
LEMMA StatusMoves ==
  ASSUME IInv, [Next]_vars, NEW j \in Jobs
  PROVE  /\ status[j] # "none" <=> (status'[j] # "none" /\ ~StartSend(j))
         /\ status[j] \in Over => status'[j] \in {status[j], "gone"}
         /\ status'[j] = "failed" => status[j] \in {"running", "answering", "failed"}
         /\ status'[j] \in {"running", "answering"}
              => status[j] \in {"none", "running", "answering"}
<1>0. /\ status \in [Jobs -> Statuses]
      /\ live.at # "none" => live.gen \in Jobs /\ status[live.gen] # "none"
      /\ entry.kind = "background" => entry.gen \in Jobs /\ status[entry.gen] # "none"
  BY DEF IInv, TypeOK, Owners, GuardHasPoller, Known, Statuses
<1> USE <1>0 DEF Over, Ended
<1>1. ASSUME NEW i \in Jobs, Upstream(i)
      PROVE  status[i] \in Running /\ \E st \in Ended \cup {"answering"} : status' = [status EXCEPT ![i] = st]
  BY <1>1 DEF Upstream, Running
<1>2. ASSUME NEW i \in Jobs, StartSend(i)
      PROVE  status[i] = "none" /\ status' = [status EXCEPT ![i] = "running"]
  BY <1>2 DEF StartSend
<1>3. CASE StopSend \/ StopBackground
  <2>1. status' = status \/ \E i \in Jobs : status[i] # "none" /\ status' = [status EXCEPT ![i] = "gone"]
    BY <1>3 DEF StopSend, StopBackground, Delete
  <2>2. ~StartSend(j)
    BY <1>3 DEF StopSend, StopBackground, StartSend, NoEntry, NoSend
  <2> QED BY <2>1, <2>2 DEF Statuses
<1>4. ASSUME status' = status
      PROVE  ~StartSend(j)
  BY <1>4 DEF StartSend
<1>5. \/ status' = status \/ StopSend \/ StopBackground
      \/ \E i \in Jobs : Upstream(i) \/ StartSend(i)
  BY DEF Next, LiveStep, RecoveryStep, Push, Chunk, Collect, Stray, FailSend, LoseStream, DeleteChat,
     StartDiscovery, ListUnclaimed, ListActive, RecoverNext, AttachRunning, Poll, PollEnds,
     Read, ReadThrows, Save, SaveFails, Claim, AutoSave, Die, serverVars, vars
<1>6. ASSUME NEW i \in Jobs, Upstream(i)
      PROVE  ~StartSend(j)
  BY <1>6 DEF Upstream, StartSend
<1> QED BY <1>1, <1>2, <1>3, <1>4, <1>5, <1>6 DEF Statuses, Running

\* The chat grows by messages of one job, which the live send is not about to
\* push one for; once only, unless the job has an answer.
Talks(j) ==
    /\ status[j] # "none"
    /\ chat' \in Seq(Messages) /\ Grown(chat, chat') /\ OnlyOf(chat, chat', j)
    /\ status[j] \notin {"done", "refused", "gone"} => (OneOf(chat, j) => OneOf(chat', j))
    /\ live'.at = "waiting" => live' = live /\ live.gen # j
    /\ saved' = saved

LEMMA SendTalks ==
  ASSUME IInv, live.at # "none", live'.at # "waiting", saved' = saved, NEW t \in Texts,
         \/ live.at = "waiting" /\ chat' = Append(chat, [gen |-> live.gen, text |-> t])
         \/ chat' = SetText(live.gen, t) /\ (t # Whole => chat[IndexOf(live.gen)].text = 0)
  PROVE  Talks(live.gen)
<1>1. /\ chat \in Seq(Messages) /\ live.gen \in Jobs /\ status[live.gen] # "none"
      /\ live.at = "waiting" => NoneOf(chat, live.gen)
  BY DEF IInv, TypeOK, Owners, Single
<1>2. CASE live.at = "waiting" /\ chat' = Append(chat, [gen |-> live.gen, text |-> t])
  <2>1. Appended(chat, chat', live.gen, t)
    BY <1>2 DEF Appended
  <2> QED BY <1>1, <1>2, <2>1, AppendMessage DEF Talks
<1>3. CASE chat' = SetText(live.gen, t) /\ (t # Whole => chat[IndexOf(live.gen)].text = 0)
  <2>1. /\ chat' \in Seq(Messages) /\ Grown(chat, chat')
        /\ \A k : (NoneOf(chat, k) => NoneOf(chat', k)) /\ (OneOf(chat, k) => OneOf(chat', k))
    BY <1>1, <1>3, SetTextKeeps
  <2> QED BY <1>1, <2>1 DEF Talks, OnlyOf
<1> QED BY <1>2, <1>3

LEMMA RecoveryTalks ==
  ASSUME IInv, NEW w \in Workers, NEW j \in Jobs, status[j] \in Over, NEW idx \in 0..Len(chat),
         \/ chat' = ShowError(j, idx)
         \/ chat' = SlotIn(j, idx) /\ (idx # 0 => chat[idx].gen = j),
         status[j] = "failed" => chat' = ShowError(j, IndexOf(j)),
         live.at # "none" => live.gen # j,
         live' = live, saved' = saved
  PROVE  Talks(j)
<1>1. chat \in Seq(Messages)
  BY DEF IInv, TypeOK
<1>2. chat' \in Seq(Messages) /\ Grown(chat, chat') /\ OnlyOf(chat, chat', j)
  BY <1>1, ShowErrorKeeps, SlotInKeeps
<1>3. status[j] = "failed" => (OneOf(chat, j) => OneOf(chat', j))
  BY <1>1, ShowErrorKeeps, IndexOfFinds
<1> QED BY <1>2, <1>3 DEF Talks, Over, Ended

LEMMA BeginTalks ==
  ASSUME IInv, NEW w \in Workers, NEW j \in Jobs, Begin(w, j), live' = live, saved' = saved,
         home' = home
  PROVE  chat' = chat \/ Talks(j)
<1>1. CASE Leave(w) /\ chat' = chat
  BY <1>1
<1>2. ASSUME NEW at \in {"read", "save", "claim"}, Goes(w, j, at), chat' # chat
      PROVE  Talks(j)
  <2>1. entry.kind # "live" /\ status[j] \in Over /\ chat' = ShowError(j, IndexOf(j))
    BY <1>2 DEF Goes, Over, Ended
  <2>2. live.at = "none"
    BY <2>1 DEF IInv, Owners, LiveKeepsEntry
  <2>3. IndexOf(j) \in 0..Len(chat)
    BY IndexOfFinds DEF IInv, TypeOK
  <2> QED BY <2>1, <2>2, <2>3, RecoveryTalks
<1> QED BY <1>1, <1>2, BeginCases

LEMMA ChatMoves ==
  ASSUME IInv, [Next]_vars
  PROVE  \/ chat' = chat /\ saved' \in {saved, chat}
         \/ Die
         \/ \E j \in Jobs : Talks(j)
<1>0. /\ \A w \in Workers : rec[w].at # "idle" =>
           /\ rec[w].job \in Jobs /\ status[rec[w].job] \in Over
           /\ live.at # "none" => rec[w].job # live.gen
           /\ rec[w].at = "read" /\ rec[w].idx # 0 => chat[rec[w].idx].gen = rec[w].job
           /\ rec[w].idx \in 0..Len(chat)
      /\ live.at # "none" => live.gen \in Jobs
      /\ {0, Partial, Whole} \subseteq Texts
      /\ NoSend.at = "none"
  BY TypeFacts DEF IInv, Known, Owners, Slots, Texts, Partial, Whole, NoSend
<1>1. CASE Push
  <2>1. /\ live.at = "waiting" /\ chat' = Append(chat, [gen |-> live.gen, text |-> 0])
        /\ live'.at # "waiting" /\ saved' = saved
    <3>1. live' = [live EXCEPT !.at = "streaming"] /\ live \in [at : {"none", "waiting", "streaming"}, gen : Workers]
      BY <1>1 DEF Push, IInv, TypeOK
    <3> QED BY <1>1, <3>1 DEF Push
  <2> QED BY <1>0, <2>1, SendTalks
<1>2. CASE Chunk
  <2>1. /\ live.at = "streaming" /\ live' = live /\ saved' = saved
        /\ chat' = SetText(live.gen, Partial) /\ chat[IndexOf(live.gen)].text = 0
    BY <1>2 DEF Chunk
  <2> QED BY <1>0, <2>1, SendTalks
<1>3. CASE Collect
  <2>1. live.at = "streaming" /\ live' = NoSend /\ saved' = saved /\ chat' = SetText(live.gen, Whole)
    BY <1>3 DEF Collect, EndSend
  <2> QED BY <1>0, <2>1, SendTalks
<1>4. CASE FailSend \/ LoseStream
  <2>1. /\ live.at # "none" /\ live' = NoSend /\ saved' = saved
        /\ chat' = chat \/ (live.at = "waiting" /\ chat' = Append(chat, [gen |-> live.gen, text |-> Partial]))
    BY <1>4 DEF FailSend, LoseStream, EndSend, ShowError
  <2> QED BY <1>0, <2>1, SendTalks
<1>5. ASSUME NEW w \in Workers, Read(w)
      PROVE  (chat' = chat /\ saved' = saved) \/ \E j \in Jobs : Talks(j)
  <2> DEFINE j == rec[w].job
             idx == rec[w].idx
  <2>1. /\ rec[w].at = "read" /\ live' = live /\ saved' = saved
        /\ \/ status[j] = "done" /\ chat' = SlotIn(j, idx)
           \/ status[j] = "refused" /\ chat' = ShowError(j, idx)
           \/ chat' = chat
    BY <1>5 DEF Read
  <2>2. CASE chat' # chat
    <3>1. j \in Jobs /\ idx \in 0..Len(chat) /\ status[j] \in Over /\ status[j] # "failed"
      BY <1>0, <2>1, <2>2
    <3>2. /\ chat' = ShowError(j, idx) \/ (chat' = SlotIn(j, idx) /\ (idx # 0 => chat[idx].gen = j))
          /\ live.at # "none" => live.gen # j
      BY <1>0, <2>1, <2>2
    <3> QED BY <2>1, <3>1, <3>2, RecoveryTalks
  <2> QED BY <2>1, <2>2
<1>6. CASE RecoverNext
  <2>1. /\ Begin(Discovery, Head(scan.todo)) /\ live' = live /\ saved' = saved /\ home' = home
        /\ Head(scan.todo) \in Jobs
    <3>1. scan.todo \in Seq(Jobs) /\ scan.todo # <<>>
      BY <1>6 DEF RecoverNext, IInv, TypeOK
    <3>2. Head(scan.todo) \in Jobs
      BY <3>1
    <3> QED BY <1>6, <3>2 DEF RecoverNext
  <2> QED BY <2>1, BeginTalks, JobsAreWorkers
<1>7. ASSUME NEW j \in Jobs, Poll(j)
      PROVE  (chat' = chat /\ saved' = saved) \/ Talks(j)
  BY <1>7, BeginTalks, JobsAreWorkers DEF Poll
<1>8. \/ Push \/ Chunk \/ Collect \/ FailSend \/ LoseStream \/ Die \/ RecoverNext
      \/ \E w \in Workers : Read(w)
      \/ \E j \in Jobs : Poll(j)
      \/ chat' = chat /\ saved' \in {saved, chat}
  BY DEF Next, LiveStep, RecoveryStep, StartSend, StopSend, Stray, DeleteChat, EndSend, Upstream,
     StartDiscovery, ListUnclaimed, ListActive, AttachRunning, PollEnds,
     ReadThrows, Save, SaveFails, Claim, AutoSave, StopBackground, tabVars, vars
<1> QED BY <1>1, <1>2, <1>3, <1>4, <1>5, <1>6, <1>7, <1>8

\* A recovery rests, ends, starts (a poll loop only for its own job, and from
\* its list), has read its journal or has saved.
LEMMA RecMoves ==
  ASSUME IInv, [Next]_vars, NEW w \in Workers
  PROVE  \/ rec'[w] = rec[w] /\ (w \in poller => rec'[w].at = "idle" \/ w \in poller')
         \/ rec'[w] = Idle
         \/ \E j \in Jobs, at \in {"read", "save", "claim"} :
                Goes(w, j, at) /\ (w # Discovery => j = w /\ w \in poller)
         \/ Read(w)
         \/ Save(w)
<1>0. /\ rec \in [Workers -> Recs(Len(chat))] /\ poller \subseteq Jobs /\ Idle.at = "idle"
      /\ TypeOK
  BY TypeFacts DEF IInv, TypeOK, Idle
<1> DEFINE Rests == rec'[w] = rec[w] /\ (w \in poller => rec'[w].at = "idle" \/ w \in poller')
           Starts == \E j \in Jobs, at \in {"read", "save", "claim"} :
                        Goes(w, j, at) /\ (w # Discovery => j = w /\ w \in poller)
<1>1. ASSUME NEW v \in Workers, Leave(v)
      PROVE  Rests \/ rec'[w] = Idle
  <2>1. rec' = [rec EXCEPT ![v] = Idle] /\ poller \ {v} \subseteq poller'
    BY <1>0, <1>1, LeaveEffect
  <2> QED BY <1>0, <2>1
<1>2. ASSUME NEW v \in Workers, NEW j \in Jobs, Begin(v, j), v # Discovery => j = v /\ v \in poller,
             home' = home
      PROVE  Rests \/ rec'[w] = Idle \/ Starts
  <2>1. CASE Leave(v)
    BY <1>1, <2>1
  <2>2. ASSUME NEW at \in {"read", "save", "claim"}, Goes(v, j, at)
        PROVE  Rests \/ Starts
    <3>1. CASE v = w
      BY <1>2, <2>2, <3>1
    <3>2. CASE v # w
      BY <1>0, <2>2, <3>2 DEF Goes
    <3> QED BY <3>1, <3>2
  <2> QED BY <1>2, <2>1, <2>2, BeginCases
<1>3. ASSUME NEW v \in Workers, Read(v) \/ Save(v)
      PROVE  Rests \/ Read(w) \/ Save(w)
  <2>1. CASE v = w
    BY <1>3, <2>1
  <2>2. CASE v # w
    <3>1. poller' = poller
      BY <1>3 DEF Read, Save
    <3>2. \E x : rec' = [rec EXCEPT ![v] = x]
      BY <1>0, <1>3, ReadMoves, Zenon DEF Save
    <3> QED BY <1>0, <2>2, <3>1, <3>2
  <2> QED BY <2>1, <2>2
<1>4. ASSUME NEW v \in Workers, ReadThrows(v) \/ SaveFails(v) \/ Claim(v)
      PROVE  Rests \/ rec'[w] = Idle
  BY <1>1, <1>4 DEF ReadThrows, SaveFails, Claim
<1>5. CASE RecoverNext
  <2>1. /\ scan.todo \in Seq(Jobs) /\ scan.todo # <<>> /\ Begin(Discovery, Head(scan.todo))
        /\ home' = home
    BY <1>0, <1>5 DEF RecoverNext, TypeOK
  <2>2. Head(scan.todo) \in Jobs
    BY <2>1
  <2> QED BY <1>2, <2>1, <2>2, JobsAreWorkers
<1>6. ASSUME NEW j \in Jobs, Poll(j) \/ PollEnds(j)
      PROVE  Rests \/ rec'[w] = Idle \/ Starts
  <2>1. j \in poller /\ (Begin(j, j) \/ Leave(j)) /\ home' = home
    BY <1>6 DEF Poll, PollEnds
  <2> QED BY <1>1, <1>2, <2>1, JobsAreWorkers
<1>7. CASE Die
  BY <1>7 DEF Die
<1>8. \/ RecoverNext \/ Die \/ (rec' = rec /\ poller \subseteq poller')
      \/ \E j \in Jobs : Poll(j) \/ PollEnds(j)
      \/ \E v \in Workers : Read(v) \/ Save(v) \/ ReadThrows(v) \/ SaveFails(v) \/ Claim(v)
  BY DEF Next, LiveStep, RecoveryStep, StartSend, Push, Chunk, Collect, FailSend, LoseStream,
     StopSend, Stray, DeleteChat, EndSend, Upstream, StartDiscovery, ListUnclaimed, ListActive,
     AttachRunning, AutoSave, StopBackground, vars
<1> QED BY <1>2, <1>3, <1>4, <1>5, <1>6, <1>7, <1>8

---------------------------------------------------------------------------
(* The messages and the recoveries.                                        *)

LEMMA PrefixStep ==
  ASSUME IInv, [Next]_vars
  PROVE  Prefix'
<1>0. Prefix /\ chat \in Seq(Messages) /\ saved \in Seq(Messages)
  BY DEF IInv, TypeOK
<1>1. CASE chat' = chat /\ saved' \in {saved, chat}
  BY <1>0, <1>1 DEF Prefix
<1>2. CASE Die
  <2>1. chat' = saved /\ saved' = saved
    BY <1>2 DEF Die
  <2> QED BY <1>0, <2>1 DEF Prefix
<1>3. ASSUME NEW j \in Jobs, Talks(j)
      PROVE  Prefix'
  <2>1. /\ saved' = saved /\ chat' \in Seq(Messages)
        /\ Len(chat) <= Len(chat') /\ \A i \in 1..Len(chat) : chat'[i].gen = chat[i].gen
    BY <1>3 DEF Talks, Grown
  <2> QED BY <1>0, <2>1 DEF Prefix
<1> QED BY <1>1, <1>2, <1>3, ChatMoves

LEMMA SingleStep ==
  ASSUME IInv, [Next]_vars
  PROVE  Single'
<1>0. Single /\ Prefix /\ chat \in Seq(Messages) /\ saved \in Seq(Messages)
  BY DEF IInv, TypeOK
<1>1. ASSUME NEW k \in Jobs
      PROVE  /\ status'[k] = "none" => status[k] = "none"
             /\ status'[k] \in {"running", "answering", "failed"}
                  => status[k] \in {"none", "running", "answering", "failed"}
  BY StatusMoves
<1>2. \A k \in Jobs : /\ status[k] = "none" => NoneOf(chat, k)
                      /\ status[k] \in {"none", "running", "answering", "failed"} => OneOf(chat, k)
  BY <1>0 DEF Single, NoneOf, OneOf
\* Who waits for a first byte has just started, or was waiting already.
<1>3. live'.at = "waiting" =>
        \/ live' = live
        \/ \E j \in Jobs : live'.gen = j /\ StartSend(j)
  <2>1. ASSUME Push
        PROVE  live'.at # "waiting"
    BY <2>1 DEF Push, IInv, TypeOK
  <2>2. NoSend.at # "waiting"
    BY DEF NoSend
  <2>3. ASSUME NEW j \in Jobs, StartSend(j)
        PROVE  live'.gen = j
    BY <2>3 DEF StartSend
  <2>4. \/ Push \/ live' = live \/ live' = NoSend \/ \E j \in Jobs : StartSend(j)
    BY DEF Next, LiveStep, RecoveryStep, Chunk, Collect, Stray, DeleteChat, FailSend,
       LoseStream, StopSend, EndSend, Upstream, StartDiscovery, ListUnclaimed, ListActive, RecoverNext,
       AttachRunning, Poll, PollEnds, Read, ReadThrows, Save, SaveFails, Claim,
       AutoSave, StopBackground, Die, tabVars, vars
  <2> QED BY <2>1, <2>2, <2>3, <2>4
<1>4. CASE chat' = chat
  <2>1. live'.at = "waiting" => NoneOf(chat, live'.gen)
    <3>1. \A j \in Jobs : StartSend(j) => NoneOf(chat, j)
      BY <1>2 DEF StartSend
    <3> QED BY <1>0, <1>3, <3>1 DEF Single
  <2> QED BY <1>1, <1>2, <1>4, <2>1 DEF Single
<1>5. CASE Die
  <2>1. chat' = saved /\ live'.at # "waiting"
    BY <1>5 DEF Die, NoSend
  <2>2. \A k \in Jobs : /\ NoneOf(chat, k) => NoneOf(saved, k)
                        /\ OneOf(chat, k) => OneOf(saved, k)
    BY <1>0 DEF Prefix, NoneOf, OneOf
  <2> QED BY <1>1, <1>2, <2>1, <2>2 DEF Single
<1>6. ASSUME NEW j \in Jobs, Talks(j)
      PROVE  Single'
  <2>1. ASSUME NEW k \in Jobs, status'[k] = "none"
        PROVE  NoneOf(chat', k)
    BY <1>1, <1>2, <1>6, <2>1 DEF Talks, OnlyOf
  <2>2. ASSUME NEW k \in Jobs, status'[k] \in {"running", "answering", "failed"}
        PROVE  OneOf(chat', k)
    BY <1>1, <1>2, <1>6, <2>2 DEF Talks, OnlyOf
  <2>3. ASSUME live'.at = "waiting"
        PROVE  NoneOf(chat', live'.gen)
    <3>1. live' = live /\ live.gen # j /\ live.gen \in Jobs /\ NoneOf(chat, live.gen)
      BY <1>0, <1>6, <2>3 DEF Talks, Single, IInv, Owners
    <3> QED BY <1>6, <3>1 DEF Talks, OnlyOf
  <2> QED BY <2>1, <2>2, <2>3 DEF Single
<1> QED BY <1>4, <1>5, <1>6, ChatMoves

LEMMA SlotsStep ==
  ASSUME IInv, [Next]_vars
  PROVE  Slots'
<1> SUFFICES ASSUME NEW w \in Workers
             PROVE  /\ rec'[w].at = "read" /\ rec'[w].idx # 0
                         => chat'[rec'[w].idx].gen = rec'[w].job
                    /\ rec'[w].at = "save" /\ status'[rec'[w].job] = "done"
                         => WholeIn(chat', rec'[w].job)
                    /\ rec'[w].at = "claim" /\ status'[rec'[w].job] = "done" /\ Here'
                         => WholeIn(chat', rec'[w].job) /\ WholeIn(saved', rec'[w].job)
  BY DEF Slots
<1>0. /\ chat \in Seq(Messages) /\ rec \in [Workers -> Recs(Len(chat))]
      /\ rec[w].at # "idle" => rec[w].job \in Jobs /\ status[rec[w].job] \in Over
      /\ rec[w].idx \in 0..Len(chat)
      /\ Slots
      /\ ~Die => (Here' => Here)
  BY TypeFacts, HomeMoves DEF IInv, TypeOK, Known, Homes
\* A job that is done now was done when its recovery began.
<1>1. \A j \in Jobs : status[j] \in Over /\ status'[j] = "done" => status[j] = "done"
  BY StatusMoves
<1>2. CASE Die
  BY <1>2 DEF Die, Idle
<1>3. CASE ~Die
  <2>1. \/ chat' = chat /\ saved' \in {saved, chat}
        \/ \E j \in Jobs : Talks(j)
    BY <1>3, ChatMoves
  \* Messages stay, here and on the server.
  <2>2. \A i \in 1..Len(chat) : chat'[i].gen = chat[i].gen
    BY <2>1 DEF Talks, Grown
  <2>3. ASSUME NEW j \in Jobs, WholeIn(chat, j)
        PROVE  WholeIn(chat', j)
    <3>1. PICK i \in 1..Len(chat) : chat[i] = [gen |-> j, text |-> Whole]
      BY <2>3 DEF WholeIn
    <3>2. CASE chat' = chat
      BY <2>3, <3>2
    <3>3. CASE chat' \in Seq(Messages) /\ Grown(chat, chat')
      <4>1. i \in 1..Len(chat') /\ chat'[i].gen = j /\ chat'[i].text = Whole
        BY <1>0, <3>1, <3>3 DEF Grown
      <4>2. chat'[i] \in Messages
        BY <3>3, <4>1
      <4>3. chat'[i] = [gen |-> j, text |-> Whole]
        BY <4>1, <4>2 DEF Messages
      <4> QED BY <4>1, <4>3 DEF WholeIn
    <3> QED BY <2>1, <3>2, <3>3 DEF Talks
  <2>4. \A j \in Jobs : WholeIn(saved, j) /\ WholeIn(chat, j) => WholeIn(saved', j)
    BY <2>1 DEF Talks
  <2>5. CASE rec'[w] = rec[w]
    BY <1>0, <1>1, <1>3, <2>2, <2>3, <2>4, <2>5 DEF Slots
  <2>6. CASE rec'[w] = Idle
    BY <2>6 DEF Idle
  <2>7. ASSUME NEW j \in Jobs, NEW at \in {"read", "save", "claim"}, Goes(w, j, at)
        PROVE  /\ rec'[w].at = "read" /\ rec'[w].idx # 0
                    => chat'[rec'[w].idx].gen = rec'[w].job
               /\ rec'[w].at \in {"save", "claim"} => status'[rec'[w].job] # "done" \/ ~Here'
               /\ rec'[w].at = "save" => status'[rec'[w].job] # "done"
    <3>1. /\ rec'[w].at = at /\ rec'[w].job = j
          /\ at = "read" => rec'[w].idx = IndexOf(j)
      BY <1>0, <2>7 DEF Goes, Stands
    <3>2. CASE at = "read"
      <4>1. chat' = chat
        BY <2>7, <3>2 DEF Goes
      <4> QED BY <1>0, <3>1, <3>2, <4>1, IndexOfFinds
    <3>3. CASE at # "read"
      <4>1. status[j] \in {"failed", "gone"} \/ (at = "claim" /\ ~Here)
        BY <2>7, <3>3 DEF Goes
      <4>2. status[j] \in {"failed", "gone"} => status'[j] # "done"
        BY <1>1 DEF Over, Ended
      <4> QED BY <1>0, <1>3, <3>1, <3>3, <4>1, <4>2
    <3> QED BY <3>2, <3>3
  <2>8. CASE Read(w)
    <3>1. /\ rec[w].at = "read" /\ rec'[w].job = rec[w].job /\ rec[w].job \in Jobs
          /\ rec'[w].at \in {"save", "claim"}
          /\ \/ /\ rec'[w].at = "save" /\ chat' = SlotIn(rec[w].job, rec[w].idx)
             \/ status[rec[w].job] = "refused"
      BY <1>0, <2>8, ReadMoves DEF Read
    <3>2. status[rec[w].job] = "refused" => status'[rec[w].job] # "done"
      BY <1>1, <3>1 DEF Over, Ended
    <3>3. chat' = SlotIn(rec[w].job, rec[w].idx) => WholeIn(chat', rec[w].job)
      BY <1>0, <3>1, SlotInKeeps DEF Slots
    <3> QED BY <3>1, <3>2, <3>3
  <2>9. CASE Save(w)
    <3>1. /\ rec[w].at = "save" /\ rec'[w].at = "claim" /\ rec'[w].job = rec[w].job
          /\ rec[w].job \in Jobs /\ chat' = chat /\ saved' = chat
      BY <1>0, <2>9 DEF Save, Recs
    <3> QED BY <1>0, <1>1, <3>1 DEF Slots
  <2> QED BY <2>5, <2>6, <2>7, <2>8, <2>9, RecMoves
<1> QED BY <1>2, <1>3

---------------------------------------------------------------------------
(* The workers and the entry.                                              *)

LEMMA KnownStep ==
  ASSUME IInv, [Next]_vars
  PROVE  Known'
<1>0. /\ TypeOK /\ Known /\ poller \subseteq Jobs /\ scan.active \subseteq Jobs
      /\ scan.todo \in Seq(Jobs) /\ rec \in [Workers -> Recs(Len(chat))]
  BY TypeFacts DEF IInv, TypeOK
<1>1. \A j \in Jobs : /\ status[j] # "none" => status'[j] # "none"
                      /\ status[j] \in Over => status'[j] \in Over
  BY StatusMoves DEF Over
<1>2. ASSUME NEW j \in poller'
      PROVE  j \in poller \cup scan.active
  <2>1. ASSUME NEW w \in Workers, Leave(w)
        PROVE  poller' \subseteq poller
    BY <1>0, <2>1, LeaveEffect
  <2>2. ASSUME NEW w \in Workers, NEW i \in Jobs, Begin(w, i), home' = home
        PROVE  poller' \subseteq poller
    BY <2>1, <2>2, BeginCases DEF Goes
  <2>3. AttachRunning => poller' = poller \cup Attachable
    BY DEF AttachRunning
  <2>4. RecoverNext => poller' \subseteq poller
    <3>1. ASSUME RecoverNext
          PROVE  Begin(Discovery, Head(scan.todo)) /\ Head(scan.todo) \in Jobs /\ home' = home
      <4>1. scan.todo \in Seq(Jobs) /\ scan.todo # <<>>
        BY <1>0, <3>1 DEF RecoverNext
      <4> QED BY <3>1, <4>1 DEF RecoverNext
    <3> QED BY <2>2, <3>1, JobsAreWorkers
  <2>5. ASSUME NEW i \in Jobs, Poll(i) \/ PollEnds(i)
        PROVE  poller' \subseteq poller
    BY <2>1, <2>2, <2>5, JobsAreWorkers DEF Poll, PollEnds
  <2>6. ASSUME NEW w \in Workers, ReadThrows(w) \/ SaveFails(w) \/ Claim(w)
        PROVE  poller' \subseteq poller
    BY <2>1, <2>6 DEF ReadThrows, SaveFails, Claim
  <2>7. Die => poller' = {}
    BY DEF Die
  <2>8. \/ poller' = poller \/ AttachRunning \/ RecoverNext \/ Die
        \/ \E i \in Jobs : Poll(i) \/ PollEnds(i)
        \/ \E w \in Workers : ReadThrows(w) \/ SaveFails(w) \/ Claim(w)
    BY DEF Next, LiveStep, RecoveryStep, StartSend, Push, Chunk, Collect, Stray, DeleteChat,
       FailSend, LoseStream, StopSend, EndSend, Upstream, StartDiscovery, ListUnclaimed, ListActive,
       Read, Save, AutoSave, StopBackground, vars
  <2> QED BY <1>2, <2>3, <2>4, <2>5, <2>6, <2>7, <2>8 DEF Attachable
<1>3. /\ \A j \in scan'.active : j \in Jobs /\ status'[j] # "none"
      /\ \A i \in 1..Len(scan'.todo) : status'[scan'.todo[i]] \in Over
  <2>1. CASE scan' = scan
    <3>1. \A i \in 1..Len(scan.todo) : scan.todo[i] \in Jobs
      BY <1>0
    <3> QED BY <1>0, <1>1, <2>1, <3>1 DEF Known
  <2>2. CASE StartDiscovery
    BY <2>2 DEF StartDiscovery, NoScan
  <2>3. CASE ListUnclaimed
    <3>1. PICK s \in InOrder(Unclaimed) :
              scan' = [scan EXCEPT !.at = IF @ = "both" THEN "active" ELSE "jobs", !.todo = s]
      BY <2>3 DEF ListUnclaimed
    <3>2. /\ scan \in [at : {"none", "both", "unclaimed", "active", "jobs"},
                       todo : Seq(Jobs), active : SUBSET Jobs]
      BY <1>0 DEF TypeOK
    <3>3. scan'.todo = s /\ scan'.active = scan.active
      BY <3>1, <3>2
    <3>4. s \in Seq(Jobs) /\ \A i \in 1..Len(s) : s[i] \in Jobs /\ status[s[i]] \in Over
      BY UnclaimedOrdered DEF Over
    <3> QED BY <1>0, <1>1, <3>3, <3>4 DEF Known
  <2>4. CASE ListActive
    <3>1. /\ scan' = [scan EXCEPT !.at = IF @ = "both" THEN "unclaimed" ELSE "jobs",
                                  !.active = {j \in Jobs : status[j] \in Running}]
      BY <2>4 DEF ListActive
    <3>2. /\ scan \in [at : {"none", "both", "unclaimed", "active", "jobs"},
                       todo : Seq(Jobs), active : SUBSET Jobs]
      BY <1>0 DEF TypeOK
    <3>3. scan'.todo = scan.todo /\ scan'.active = {j \in Jobs : status[j] \in Running}
      BY <3>1, <3>2
    <3>4. \A i \in 1..Len(scan.todo) : scan.todo[i] \in Jobs
      BY <1>0
    <3> QED BY <1>0, <1>1, <3>3, <3>4 DEF Known, Running
  <2>5. CASE RecoverNext
    <3>1. scan.todo # <<>> /\ scan' = [scan EXCEPT !.todo = Tail(scan.todo)]
      BY <2>5 DEF RecoverNext
    <3>2. /\ scan \in [at : {"none", "both", "unclaimed", "active", "jobs"},
                       todo : Seq(Jobs), active : SUBSET Jobs]
      BY <1>0 DEF TypeOK
    <3>3. scan'.todo = Tail(scan.todo) /\ scan'.active = scan.active
      BY <3>1, <3>2
    <3>4. \A i \in 1..Len(Tail(scan.todo)) : /\ i + 1 \in 1..Len(scan.todo)
                                             /\ Tail(scan.todo)[i] = scan.todo[i + 1]
      BY <1>0, <3>1
    <3>5. \A i \in 1..Len(scan.todo) : scan.todo[i] \in Jobs
      BY <1>0
    <3> QED BY <1>0, <1>1, <3>3, <3>4, <3>5 DEF Known
  <2>6. CASE AttachRunning \/ Die
    <3>1. scan' = NoScan
      BY <2>6 DEF AttachRunning, Die
    <3> QED BY <3>1 DEF NoScan
  <2>7. \/ scan' = scan \/ StartDiscovery \/ ListUnclaimed \/ ListActive \/ RecoverNext
        \/ AttachRunning \/ Die
    BY DEF Next, LiveStep, RecoveryStep, StartSend, Push, Chunk, Collect, Stray, DeleteChat,
       FailSend, LoseStream, StopSend, EndSend, Upstream, Poll, PollEnds, Read, ReadThrows, Save,
       SaveFails, Claim, AutoSave, StopBackground, vars
  <2> QED BY <2>1, <2>2, <2>3, <2>4, <2>5, <2>6, <2>7
<1>4. ASSUME NEW w \in Workers, rec'[w].at # "idle"
      PROVE  /\ rec'[w].job \in Jobs /\ status'[rec'[w].job] \in Over
             /\ w # Discovery => rec'[w].job = w /\ w \in poller'
  <2>1. CASE rec'[w] = rec[w] /\ (w \in poller => rec'[w].at = "idle" \/ w \in poller')
    BY <1>0, <1>1, <1>4, <2>1 DEF Known
  <2>2. CASE rec'[w] = Idle
    BY <1>4, <2>2 DEF Idle
  <2>3. ASSUME NEW j \in Jobs, NEW at \in {"read", "save", "claim"},
               Goes(w, j, at), w # Discovery => j = w /\ w \in poller
        PROVE  /\ rec'[w].job \in Jobs /\ status'[rec'[w].job] \in Over
               /\ w # Discovery => rec'[w].job = w /\ w \in poller'
    <3>1. rec'[w].job = j /\ poller' = poller
      BY <1>0, <2>3 DEF Goes, Stands
    <3>2. status[j] \in Over
      BY <2>3 DEF Goes, Over, Ended
    <3> QED BY <1>1, <2>3, <3>1, <3>2
  <2>4. CASE Read(w) \/ Save(w)
    <3>1. rec[w].at # "idle" /\ poller' = poller
      BY <2>4 DEF Read, Save
    <3>3. rec'[w].job = rec[w].job
      BY <1>0, <2>4, ReadMoves DEF Save, Recs
    <3> QED BY <1>0, <1>1, <3>1, <3>3 DEF Known
  <2> QED BY <2>1, <2>2, <2>3, <2>4, RecMoves
<1> QED BY <1>0, <1>1, <1>2, <1>3, <1>4 DEF Known

\* While a send runs: its job is known, and nobody else's.
Alone ==
    live.at # "none" =>
        /\ entry = [kind |-> "live", gen |-> live.gen]
        /\ live.gen \in Jobs /\ status[live.gen] # "none"
        /\ live.gen \notin poller
        /\ \A w \in Workers : rec[w].at # "idle" => rec[w].job # live.gen

Free ==
    live.at = "none" =>
        /\ entry.kind # "live"
        /\ entry.kind = "background" => entry.gen \in poller

LEMMA OwnersParts == TypeOK => (Owners <=> Alone /\ Free)
<1> SUFFICES ASSUME TypeOK PROVE Owners <=> Alone /\ Free
  OBVIOUS
<1>1. \A g : [kind |-> "live", gen |-> g].kind = "live"
  OBVIOUS
<1> QED BY <1>1 DEF Owners, Alone, Free, LiveKeepsEntry, GuardHasPoller

\* A recovery that leaves ends its own poll loop only, and takes no entry but
\* its own along.
LEMMA LeaveOwners ==
  ASSUME IInv, [Next]_vars, NEW w \in Workers, Leave(w),
         w # Discovery => w \in poller, live' = live
  PROVE  Alone' /\ Free'
<1>0. /\ TypeOK /\ Alone /\ Free /\ poller \subseteq Jobs
      /\ rec \in [Workers -> Recs(Len(chat))] /\ NoEntry.kind = "none" /\ Idle.at = "idle"
  BY OwnersParts, TypeFacts DEF IInv, TypeOK, NoEntry, Idle
<1>1. /\ rec' = [rec EXCEPT ![w] = Idle]
      /\ poller \ {w} \subseteq poller' /\ poller' \subseteq poller
      /\ entry' = NoEntry \/ (entry' = entry /\ (w \in Jobs => entry.gen # w))
      /\ entry' # entry => entry.gen = w
  BY <1>0, LeaveEffect
<1>2. ASSUME live.at # "none"
      PROVE  Alone'
  <2>1. entry.gen = live.gen /\ live.gen \in Jobs /\ live.gen \notin poller
    BY <1>0, <1>2 DEF Alone
  <2>2. entry' = entry
    BY <1>1, <2>1, JobsAreWorkers
  <2>3. status'[live.gen] # "none"
    BY <1>0, <1>2, <2>1, StatusMoves DEF Alone
  <2>4. ASSUME NEW v \in Workers, rec'[v].at # "idle"
        PROVE  rec'[v].job # live.gen
    BY <1>0, <1>1, <1>2, <2>4 DEF Alone
  <2> QED BY <1>0, <1>1, <1>2, <2>1, <2>2, <2>3, <2>4 DEF Alone
<1>3. ASSUME live.at = "none"
      PROVE  Free'
  <2>1. entry' = entry /\ entry.kind = "background" => entry.gen \in poller'
    BY <1>0, <1>1, <1>3 DEF Free
  <2> QED BY <1>0, <1>1, <1>3, <2>1 DEF Free
<1> QED BY <1>2, <1>3 DEF Alone, Free

\* A recovery only goes on while no send runs.
LEMMA BeginOwners ==
  ASSUME IInv, [Next]_vars, NEW w \in Workers, NEW j \in Jobs, Begin(w, j),
         w # Discovery => w \in poller, live' = live, home' = home
  PROVE  Alone' /\ Free'
<1>1. CASE Leave(w)
  BY <1>1, LeaveOwners
<1>2. ASSUME NEW at \in {"read", "save", "claim"}, Goes(w, j, at)
      PROVE  Alone' /\ Free'
  <2>1. Alone /\ Free /\ entry.kind # "live" /\ entry' = entry /\ poller' = poller
    BY <1>2, OwnersParts DEF IInv, Goes
  <2>2. live.at = "none"
    BY <2>1 DEF IInv, Owners, LiveKeepsEntry
  <2> QED BY <2>1, <2>2 DEF Alone, Free
<1> QED BY <1>1, <1>2, BeginCases

\* Neither the entry, the send, the loops nor a worker's job moves.
LEMMA StillOwners ==
  ASSUME IInv, [Next]_vars, entry' = entry, poller' = poller,
         live'.gen = live.gen, live'.at = "none" <=> live.at = "none",
         \A w \in Workers : rec'[w].at # "idle" => rec[w].at # "idle" /\ rec'[w].job = rec[w].job
  PROVE  Alone' /\ Free'
<1>1. Alone /\ Free
  BY OwnersParts DEF IInv
<1>2. live.at # "none" => status'[live.gen] # "none"
  BY <1>1, StatusMoves DEF Alone
<1> QED BY <1>1, <1>2 DEF Alone, Free

LEMMA OwnersStep ==
  ASSUME IInv, [Next]_vars
  PROVE  Alone' /\ Free'
<1>0. /\ TypeOK /\ Alone /\ Free /\ Known /\ poller \subseteq Jobs
      /\ rec \in [Workers -> Recs(Len(chat))]
      /\ live \in [at : {"none", "waiting", "streaming"}, gen : Workers]
      /\ NoEntry.kind = "none" /\ NoSend.at = "none" /\ Idle.at = "idle"
  BY OwnersParts, TypeFacts DEF IInv, TypeOK, NoEntry, NoSend, Idle
<1>1. ASSUME NEW j \in Jobs, StartSend(j)
      PROVE  Alone' /\ Free'
  <2>1. /\ status[j] = "none" /\ status' = [status EXCEPT ![j] = "running"]
        /\ entry' = [kind |-> "live", gen |-> j] /\ live' = [at |-> "waiting", gen |-> j]
        /\ poller' = poller /\ rec' = rec
    BY <1>1 DEF StartSend
  <2>2. j \notin poller /\ \A w \in Workers : rec[w].at # "idle" => rec[w].job # j
    BY <1>0, <2>1 DEF Known, Over, Ended
  <2>3. status'[j] = "running"
    BY <1>0, <2>1 DEF TypeOK
  <2> QED BY <2>1, <2>2, <2>3 DEF Alone, Free
<1>2. CASE EndSend
  <2>1. /\ live' = NoSend /\ poller' = poller
        /\ entry' = IF entry.gen = live.gen THEN NoEntry ELSE entry
    BY <1>2 DEF EndSend
  <2>2. CASE live.at = "none"
    BY <1>0, <2>1, <2>2 DEF Alone, Free
  <2>3. CASE live.at # "none"
    <3>1. entry' = NoEntry
      BY <1>0, <2>1, <2>3 DEF Alone
    <3> QED BY <1>0, <2>1, <3>1 DEF Alone, Free
  <2> QED BY <2>2, <2>3
<1>3. CASE Push
  <2>1. live' = [live EXCEPT !.at = "streaming"] /\ live.at = "waiting"
    BY <1>3 DEF Push
  <2>2. live'.gen = live.gen /\ live'.at # "none" /\ live.at # "none"
    BY <1>0, <2>1
  <2>3. entry' = entry /\ poller' = poller /\ rec' = rec
    BY <1>3 DEF Push
  <2> QED BY <2>2, <2>3, StillOwners
<1>4. ASSUME UNCHANGED <<entry, live, poller, rec>>
      PROVE  Alone' /\ Free'
  BY <1>4, StillOwners
<1>5. CASE Die
  BY <1>0, <1>5 DEF Die, Alone, Free
<1>6. ASSUME NEW w \in Workers, Read(w) \/ Save(w)
      PROVE  Alone' /\ Free'
  <2>1. entry' = entry /\ poller' = poller /\ live' = live /\ rec[w].at # "idle"
    BY <1>6 DEF Read, Save
  <2>2. PICK x : rec' = [rec EXCEPT ![w] = x] /\ x.job = rec[w].job
    <3>1. CASE Read(w)
      <4>1. PICK at : rec' = [rec EXCEPT ![w] = [at |-> at, job |-> rec[w].job, idx |-> 0]]
        BY <3>1, ReadMoves
      <4>2. [at |-> at, job |-> rec[w].job, idx |-> 0].job = rec[w].job
        OBVIOUS
      <4> QED BY <4>1, <4>2, Zenon
    <3>2. CASE Save(w)
      <4>1. rec' = [rec EXCEPT ![w] = [rec[w] EXCEPT !.at = "claim"]]
        <5>1. rec' = [rec EXCEPT ![w].at = "claim"]
          BY <3>2 DEF Save
        <5>2. [rec EXCEPT ![w].at = "claim"] = [rec EXCEPT ![w] = [rec[w] EXCEPT !.at = "claim"]]
          BY <1>0, Zenon
        <5> QED BY <5>1, <5>2
      <4>2. [rec[w] EXCEPT !.at = "claim"].job = rec[w].job
        BY <1>0 DEF Recs
      <4> QED BY <4>1, <4>2
    <3> QED BY <1>6, <3>1, <3>2
  <2>3. ASSUME NEW v \in Workers, rec'[v].at # "idle"
        PROVE  rec[v].at # "idle" /\ rec'[v].job = rec[v].job
    <3>1. CASE v = w
      BY <1>0, <2>1, <2>2, <3>1 DEF Recs
    <3>2. CASE v # w
      BY <1>0, <2>2, <2>3, <3>2
    <3> QED BY <3>1, <3>2
  <2> QED BY <2>1, <2>3, StillOwners
<1>7. ASSUME NEW w \in Workers, ReadThrows(w) \/ SaveFails(w) \/ Claim(w)
      PROVE  Alone' /\ Free'
  <2>1. Leave(w) /\ live' = live /\ rec[w].at # "idle"
    BY <1>7 DEF ReadThrows, SaveFails, Claim
  <2>2. w # Discovery => w \in poller
    BY <1>0, <2>1 DEF Known
  <2> QED BY <2>1, <2>2, LeaveOwners
<1>8. CASE RecoverNext
  <2>1. scan.todo \in Seq(Jobs) /\ scan.todo # <<>>
    BY <1>0, <1>8 DEF TypeOK, RecoverNext
  <2>2. /\ Head(scan.todo) \in Jobs /\ Begin(Discovery, Head(scan.todo))
        /\ live' = live /\ home' = home
    BY <1>8, <2>1 DEF RecoverNext
  <2> QED BY <2>2, JobsAreWorkers, BeginOwners
<1>9. ASSUME NEW j \in Jobs, Poll(j) \/ PollEnds(j)
      PROVE  Alone' /\ Free'
  <2>1. j \in poller /\ live' = live /\ home' = home /\ (Begin(j, j) \/ Leave(j))
    BY <1>9 DEF Poll, PollEnds
  <2> QED BY <2>1, JobsAreWorkers, BeginOwners, LeaveOwners
<1>10. CASE AttachRunning
  <2>1. /\ live' = live /\ rec' = rec /\ poller' = poller \cup Attachable
        /\ entry' = IF entry = NoEntry /\ Attachable # {}
                    THEN [kind |-> "background", gen |-> CHOOSE j \in Attachable : TRUE]
                    ELSE entry
    BY <1>10 DEF AttachRunning
  <2>2. CASE entry.kind = "live"
    <3>1. Attachable = {}
      BY <2>2 DEF Attachable
    <3> QED BY <2>1, <3>1, StillOwners
  <2>3. CASE entry.kind # "live"
    <3>1. live.at = "none"
      BY <1>0, <2>3 DEF Alone
    <3>2. Attachable # {} => (CHOOSE j \in Attachable : TRUE) \in Attachable
      OBVIOUS
    <3> HIDE DEF Attachable
    <3>3. /\ entry'.kind # "live"
          /\ entry'.kind = "background" => entry'.gen \in poller'
      <4>1. CASE entry = NoEntry /\ Attachable # {}
        BY <2>1, <3>2, <4>1
      <4>2. CASE ~(entry = NoEntry /\ Attachable # {})
        BY <1>0, <2>1, <2>3, <3>1, <4>2 DEF Free
      <4> QED BY <4>1, <4>2
    <3> QED BY <2>1, <3>1, <3>3 DEF Alone, Free
  <2> QED BY <2>2, <2>3
<1>11. CASE StopBackground
  <2>1. entry.kind = "background" /\ entry' = NoEntry /\ live' = live
    BY <1>11 DEF StopBackground
  <2>2. live.at = "none"
    BY <1>0, <2>1 DEF Alone
  <2> QED BY <1>0, <2>1, <2>2 DEF Alone, Free
<1>12. \/ EndSend \/ Push \/ UNCHANGED <<entry, live, poller, rec>> \/ Die
       \/ \E j \in Jobs : StartSend(j)
       \/ \E w \in Workers : Read(w) \/ Save(w)
       \/ \E w \in Workers : ReadThrows(w) \/ SaveFails(w) \/ Claim(w)
       \/ RecoverNext \/ AttachRunning \/ StopBackground
       \/ \E j \in Jobs : Poll(j) \/ PollEnds(j)
  BY DEF Next, LiveStep, RecoveryStep, Chunk, Collect, Stray, DeleteChat, FailSend, LoseStream, StopSend,
     Upstream, StartDiscovery, ListUnclaimed, ListActive, AutoSave, tabVars, vars
<1> QED BY <1>1, <1>2, <1>3, <1>4, <1>5, <1>6, <1>7, <1>8, <1>9, <1>10, <1>11, <1>12

---------------------------------------------------------------------------
(* The theorems.                                                           *)

LEMMA IInvInit == Init => IInv
<1> SUFFICES ASSUME Init PROVE IInv
  OBVIOUS
<1>1. TypeOK
  BY TypeInit
<1>2. /\ \A j \in Jobs : status[j] = "none"
      /\ \A w \in Workers : rec[w] = Idle
      /\ chat = <<>> /\ saved = <<>> /\ poller = {} /\ scan = NoScan
      /\ live = NoSend /\ entry = NoEntry
  BY DEF Init
<1>3. Known
  BY <1>2 DEF Known, NoScan, Idle
<1>4. Alone /\ Free
  BY <1>2 DEF Alone, Free, NoSend, NoEntry
<1>5. Single
  BY <1>2 DEF Single, NoneOf, OneOf, NoSend
<1>6. Prefix
  BY <1>2 DEF Prefix
<1>7. Slots
  BY <1>2 DEF Slots, Idle
<1> QED BY <1>1, <1>3, <1>4, <1>5, <1>6, <1>7, OwnersParts DEF IInv

LEMMA IInvStep == IInv /\ [Next]_vars => IInv'
<1> SUFFICES ASSUME IInv, [Next]_vars PROVE IInv'
  OBVIOUS
<1>1. TypeOK' /\ Known' /\ Single' /\ Prefix' /\ Slots'
  BY TypeStep, KnownStep, SingleStep, PrefixStep, SlotsStep
<1>2. Owners'
  BY OwnersStep DEF Owners, Alone, Free, LiveKeepsEntry, GuardHasPoller
<1> QED BY <1>1, <1>2 DEF IInv

\* The inductive invariant.
THEOREM SpecIInv == Spec => []IInv
  BY IInvInit, IInvStep, PTL DEF Spec

\* Every state of a tab, its recoveries and its jobs is well typed.
THEOREM SpecTypeOK == Spec => []TypeOK
<1>1. IInv => TypeOK
  BY DEF IInv
<1> QED BY <1>1, SpecIInv, PTL

\* The chat of a running send stays its own, whatever poll loops and
\* discoveries end, start or are left over meanwhile.
THEOREM SpecLiveKeepsEntry == Spec => []LiveKeepsEntry
<1>1. IInv => LiveKeepsEntry
  BY DEF IInv, Owners
<1> QED BY <1>1, SpecIInv, PTL

\* A chat that a background job blocks has the loop that will release it.
THEOREM SpecGuardHasPoller == Spec => []GuardHasPoller
<1>1. IInv => GuardHasPoller
  BY DEF IInv, Owners
<1> QED BY <1>1, SpecIInv, PTL

\* Recovery claims a done job only after its whole text reached the server, or
\* when the chat is deleted in its tab.
THEOREM SpecRecoveryClaimsSaved == Spec => []RecoveryClaimsSaved
<1>1. IInv => RecoveryClaimsSaved
  BY DEF IInv, Slots, RecoveryClaimsSaved, WholeIn
<1> QED BY <1>1, SpecIInv, PTL

\* However many recoveries find a failed job, its chat shows the failure once.
THEOREM SpecFailureShownOnce == Spec => []FailureShownOnce
<1>1. ASSUME IInv, NEW j \in Jobs, status[j] = "failed"
      PROVE  Cardinality(Copies(j)) <= 1
  <2>1. OneOf(chat, j) /\ Copies(j) \subseteq 1..Len(chat)
    BY <1>1 DEF IInv, Single, Copies
  <2>2. CASE Copies(j) = {}
    BY <2>2, FS_EmptySet
  <2>3. CASE Copies(j) # {}
    <3>1. PICK i : i \in Copies(j)
      BY <2>3
    <3>2. Copies(j) = {i}
      BY <2>1, <3>1 DEF Copies, OneOf
    <3> QED BY <3>2, FS_Singleton
  <2> QED BY <2>2, <2>3
<1>2. IInv => FailureShownOnce
  BY <1>1 DEF FailureShownOnce
<1> QED BY <1>2, SpecIInv, PTL

=============================================================================
