-------------------------- MODULE PendingSendsProofs --------------------------
(***************************************************************************)
(* What PendingSends promises, for any tabs, sends, queued calls, faults   *)
(* and overlapping resumes: no tombstone comes back to a chat, no tab's    *)
(* claim takes the tombstone of the send the tab runs, and no two sends    *)
(* were started on the strength of one tombstone.                          *)
(***************************************************************************)
EXTENDS PendingSends, TLAPS

---------------------------------------------------------------------------
(* Queues of calls.                                                        *)

LEMMA QueueAppend ==
  ASSUME NEW S, NEW q \in Seq(S), NEW e \in S
  PROVE  /\ Append(q, e) \in Seq(S)
         /\ Len(Append(q, e)) = Len(q) + 1
         /\ \A i \in 1..Len(q) : Append(q, e)[i] = q[i]
         /\ Append(q, e)[Len(q) + 1] = e
  OBVIOUS

LEMMA QueueTail ==
  ASSUME NEW S, NEW q \in Seq(S), q # <<>>
  PROVE  /\ Tail(q) \in Seq(S)
         /\ Len(q) \in Nat \ {0}
         /\ Len(Tail(q)) = Len(q) - 1
         /\ \A i \in 1..Len(q) - 1 : Tail(q)[i] = q[i + 1]
         /\ Head(q) = q[1] /\ q[1] \in S
  OBVIOUS

LEMMA QueueElement ==
  ASSUME TypeOK, NEW d \in Devices, NEW i \in 1..Len(chain[d])
  PROVE  chain[d][i] \in Ops
  BY DEF TypeOK

LEMMA OpIs ==
  ASSUME NEW op \in Ops
  PROVE  /\ op.op \in {"register", "clear", "claim"}
         /\ op.op = "register" => op.send \in Sends
         /\ op.op = "clear" => op.why \in Reasons
         /\ op.op = "claim" => op.by \in Resumes
  BY DEF Ops

LEMMA OpsAre ==
  /\ \A g \in Sends : [op |-> "register", send |-> g] \in Ops
  /\ \A why \in Reasons : [op |-> "clear", why |-> why] \in Ops
  /\ \A r \in Resumes : [op |-> "claim", by |-> r] \in Ops
  BY DEF Ops

---------------------------------------------------------------------------
(* Types.                                                                  *)

LEMMA EnqueueTyped ==
  ASSUME TypeOK, NEW d \in Devices, NEW op \in Ops, Enqueue(d, op)
  PROVE  chain' \in [Devices -> Seq(Ops)]
<1>1. Append(chain[d], op) \in Seq(Ops)
  BY QueueAppend DEF TypeOK
<1> QED
  BY <1>1 DEF TypeOK, Enqueue

LEMMA SendsNat == Sends \subseteq Nat /\ None \notin Sends
  BY PendingSendsAssumption DEF Sends

LEMMA InitTyped == Init => TypeOK
  BY PendingSendsAssumption, SMTT(60)
     DEF Init, TypeOK, Chats, Calls, Phases, Idle

LEMMA StartSendTyped ==
  ASSUME TypeOK, NEW d \in Devices, NEW old \in Sends \cup {None},
         NEW got \in Sends \cup {None}, StartSend(d, old, got)
  PROVE  /\ aged' = aged /\ job' = job
         /\ fate' \in [Sends -> {"unused", "running", "interrupted", "concluded"}]
         /\ rerunOf' \in [Sends -> Sends \cup {None}]
         /\ took' \in [Sends -> Sends \cup {None}]
         /\ live' \in [Devices -> Sends \cup {None}]
         /\ chain' \in [Devices -> Seq(Ops)]
<1>1. PICK g \in Sends :
        /\ fate' = [fate EXCEPT ![g] = "running"]
        /\ rerunOf' = [rerunOf EXCEPT ![g] = old]
        /\ took' = [took EXCEPT ![g] = got]
        /\ live' = [live EXCEPT ![d] = g]
        /\ Enqueue(d, [op |-> "register", send |-> g])
  BY DEF StartSend
<1>2. chain' \in [Devices -> Seq(Ops)]
  BY <1>1, EnqueueTyped, OpsAre
<1> QED
  BY <1>1, <1>2 DEF StartSend, TypeOK

LEMMA ClearQueued ==
  ASSUME TypeOK, NEW d \in Devices, NEW why \in Reasons,
         Enqueue(d, [op |-> "clear", why |-> why])
  PROVE  chain' \in [Devices -> Seq(Ops)]
  BY EnqueueTyped, OpsAre

LEMMA ConcludeTyped ==
  ASSUME TypeOK, NEW d \in Devices, Conclude(d)
  PROVE  /\ live' \in [Devices -> Sends \cup {None}]
         /\ fate' \in [Sends -> {"unused", "running", "interrupted", "concluded"}]
         /\ flag' \in [Devices -> Sends \cup {None}]
         /\ chain' \in [Devices -> Seq(Ops)]
         /\ UNCHANGED <<tomb, aged, rerunOf, took, saved, open, listed, stuck, faults, resume>>
<1>1. chain' \in [Devices -> Seq(Ops)]
  BY ClearQueued DEF Conclude, Reasons
<1> QED
  BY <1>1 DEF Conclude, TypeOK

LEMMA ReplyTyped ==
  ASSUME NEW chat \in Chats, NEW g \in Sends
  PROVE  Replied(chat, g) \in Chats
  BY DEF Chats, Replied

LEMMA LetGoTyped ==
  ASSUME TypeOK, NEW g \in Sends, LetGo(g)
  PROVE  job' \in [Sends -> {"none", "running", "unclaimed", "over"}]
<1>1. PICK to \in {job[g], "over"} :
        job' = [job EXCEPT ![g] = IF job[g] = "none" THEN job[g] ELSE to]
  BY DEF LetGo
<1> QED
  BY <1>1 DEF TypeOK

LEMMA CallTyped ==
  ASSUME TypeOK, NEW d \in Devices, NEW r \in Resumes, NEW c \in Calls
  PROVE  [resume EXCEPT ![d][r] = c] \in [Devices -> [Resumes -> Calls]]
  BY DEF TypeOK

LEMMA TypeOKStep ==
  ASSUME TypeOK, [Next]_vars
  PROVE  TypeOK'
<1> USE SendsNat
<1>1. ASSUME NEW d \in Devices, UserSends(d) PROVE TypeOK'
  <2>1. StartSend(d, None, None)
    BY <1>1 DEF UserSends
  <2>2. copy' \in [Devices -> Chats]
    BY <1>1 DEF UserSends, TypeOK, Chats
  <2> QED
    BY <1>1, <2>1, <2>2, StartSendTyped DEF UserSends, TypeOK
<1>2. ASSUME NEW d \in Devices, Save(d) PROVE TypeOK'
  BY <1>2 DEF Save, TypeOK, sendVars
<1>3. ASSUME NEW d \in Devices, FireJob(d) PROVE TypeOK'
  BY <1>3 DEF FireJob, TypeOK, chatVars
<1>4. ASSUME NEW d \in Devices, Reply(d) PROVE TypeOK'
  <2>1. Conclude(d) /\ live[d] \in Sends
    BY <1>4 DEF Reply, TypeOK
  <2>2. Replied(copy[d], live[d]) \in Chats
    BY <2>1, ReplyTyped DEF TypeOK
  <2>3. copy' \in [Devices -> Chats]
    BY <1>4, <2>1, <2>2 DEF Reply, TypeOK
  <2>4. job' \in [Sends -> {"none", "running", "unclaimed", "over"}]
    BY <1>4, <2>1, LetGoTyped DEF Reply
  <2> QED
    BY <2>1, <2>3, <2>4, ConcludeTyped DEF TypeOK
<1>5. ASSUME NEW d \in Devices, Fail(d) PROVE TypeOK'
  <2>1. Conclude(d) /\ live[d] \in Sends
    BY <1>5 DEF Fail, TypeOK
  <2>2. copy' \in [Devices -> Chats]
    <3>1. [copy[d] EXCEPT !.last = "char"] \in Chats
      BY DEF TypeOK, Chats
    <3>2. copy' = copy \/ copy' = [copy EXCEPT ![d] = [copy[d] EXCEPT !.last = "char"]]
      BY <1>5 DEF Fail
    <3> QED
      BY <3>1, <3>2 DEF TypeOK
  <2>3. job' \in [Sends -> {"none", "running", "unclaimed", "over"}]
    BY <1>5, <2>1, LetGoTyped DEF Fail
  <2> QED
    BY <2>1, <2>2, <2>3, ConcludeTyped DEF TypeOK
<1>6. ASSUME NEW d \in Devices, ForceRelease(d) PROVE TypeOK'
  <2>1. chain' \in [Devices -> Seq(Ops)]
    BY <1>6, ClearQueued DEF ForceRelease, Reasons
  <2>2. job' \in [Sends -> {"none", "running", "unclaimed", "over"}]
    BY <1>6, LetGoTyped DEF ForceRelease, TypeOK
  <2>3. faults' \in 0..MaxFaults
    BY <1>6, PendingSendsAssumption DEF ForceRelease, TypeOK
  <2> QED
    BY <1>6, <2>1, <2>2, <2>3 DEF ForceRelease, TypeOK, chatVars
<1>7. ASSUME NEW d \in Devices, StuckWakes(d) PROVE TypeOK'
  <2>1. chain' \in [Devices -> Seq(Ops)]
    BY <1>7, ClearQueued DEF StuckWakes, Reasons
  <2> QED
    BY <1>7, <2>1 DEF StuckWakes, TypeOK, chatVars, sendVars
<1>8. ASSUME NEW d \in Devices, TabDies(d) PROVE TypeOK'
  BY <1>8, PendingSendsAssumption DEF TabDies, TypeOK, Calls, Phases, Idle
<1>9. ASSUME NEW d \in Devices, Navigate(d) PROVE TypeOK'
  BY <1>9 DEF Navigate, TypeOK, chatVars, sendVars
<1>10. ASSUME NEW d \in Devices, ListUnclaimed(d) PROVE TypeOK'
  BY <1>10 DEF ListUnclaimed, TypeOK, chatVars, sendVars
<1>11. ASSUME NEW d \in Devices, ListPendingSends(d) PROVE TypeOK'
  <2>1. listed[d].jobs \in BOOLEAN
    BY <1>11 DEF ListPendingSends, TypeOK
  <2>2. (listed[d].jobs \/ ChatBusy) \in BOOLEAN
    OBVIOUS
  <2>3. listed' \in [Devices -> {None} \cup [send : Sends \cup {None}, jobs : BOOLEAN]]
    BY <1>11, <2>2 DEF ListPendingSends, TypeOK
  <2> QED
    BY <1>11, <2>3 DEF ListPendingSends, TypeOK, chatVars, sendVars
<1>12. ASSUME NEW d \in Devices, EvaluatePendingSend(d) PROVE TypeOK'
  <2>1. chain' \in [Devices -> Seq(Ops)]
    BY <1>12, ClearQueued DEF EvaluatePendingSend, TypeOK, Reasons
  <2>2. listed[d].send \in Sends \cup {None}
    BY <1>12 DEF EvaluatePendingSend, TypeOK
  <2>3. flag' \in [Devices -> Sends \cup {None}]
    BY <1>12, <2>2 DEF EvaluatePendingSend, TypeOK
  <2> QED
    BY <1>12, <2>1, <2>3 DEF EvaluatePendingSend, TypeOK, chatVars, sendVars
<1>13. ASSUME NEW d \in Devices, NEW r \in Resumes, TakeResumable(d, r) PROVE TypeOK'
  BY <1>13 DEF TakeResumable, TypeOK, Calls, Phases, chatVars, sendVars
<1>14. ASSUME NEW d \in Devices, NEW r \in Resumes, Revalidate(d, r) PROVE TypeOK'
  <2>1. chain' \in [Devices -> Seq(Ops)]
    BY <1>14, EnqueueTyped, OpsAre DEF Revalidate, TypeOK
  <2>2. resume[d][r] \in Calls /\ Idle \in Calls
    BY <1>14 DEF TypeOK, Idle, Calls, Phases
  <2>3. flag' \in [Devices -> Sends \cup {None}]
    BY <1>14, <2>2 DEF Revalidate, TypeOK, Calls
  <2>4. [resume[d][r] EXCEPT !.at = "claiming"] \in Calls
    BY <2>2 DEF Calls, Phases
  <2>5. resume' \in [Devices -> [Resumes -> Calls]]
    <3>1. \/ resume' = [resume EXCEPT ![d][r] = Idle]
          \/ resume' = [resume EXCEPT ![d][r] = [resume[d][r] EXCEPT !.at = "claiming"]]
      BY <1>14 DEF Revalidate
    <3> QED
      BY <3>1, <2>2, <2>4, CallTyped
  <2> QED
    BY <1>14, <2>1, <2>3, <2>5 DEF Revalidate, TypeOK, chatVars, sendVars
<1>15. ASSUME NEW d \in Devices, NEW r \in Resumes, ResumeSend(d, r) PROVE TypeOK'
  <2>1. /\ resume[d][r].for \in Sends \cup {None} /\ resume[d][r].got \in Sends \cup {None}
        /\ Idle \in Calls
    BY DEF TypeOK, Idle, Calls, Phases
  <2>2. resume' \in [Devices -> [Resumes -> Calls]]
    BY <1>15, <2>1 DEF ResumeSend, TypeOK
  <2>3. CASE UNCHANGED <<sendVars, live, chain>>
    BY <1>15, <2>2, <2>3 DEF ResumeSend, TypeOK, chatVars, sendVars
  <2>4. CASE StartSend(d, resume[d][r].for, resume[d][r].got)
    BY <1>15, <2>1, <2>2, <2>4, StartSendTyped DEF ResumeSend, TypeOK, chatVars
  <2> QED
    BY <1>15, <2>3, <2>4 DEF ResumeSend
<1>16. ASSUME NEW d \in Devices, NEW g \in Sends, RecoverJob(d, g) PROVE TypeOK'
  <2>1. Replied(copy[d], g) \in Chats
    BY ReplyTyped DEF TypeOK
  <2>2. copy' \in [Devices -> Chats]
    BY <1>16, <2>1 DEF RecoverJob, TypeOK
  <2>3. saved' \in Chats
    BY <1>16, <2>2 DEF RecoverJob, TypeOK
  <2>4. job' \in [Sends -> {"none", "running", "unclaimed", "over"}]
    BY <1>16, LetGoTyped DEF RecoverJob, TypeOK
  <2> QED
    BY <1>16, <2>2, <2>3, <2>4 DEF RecoverJob, TypeOK
<1>17. ASSUME NEW d \in Devices, Call(d) PROVE TypeOK'
  <2>1. chain[d] \in Seq(Ops) /\ chain[d] # <<>>
    BY <1>17 DEF Call, TypeOK
  <2>2. Head(chain[d]) \in Ops /\ Tail(chain[d]) \in Seq(Ops)
    BY <2>1, QueueTail
  <2>3. chain' \in [Devices -> Seq(Ops)]
    BY <1>17, <2>2 DEF Call, TypeOK
  <2>4. tomb' \in Sends \cup {None} /\ resume' \in [Devices -> [Resumes -> Calls]]
    <3>1. CASE Head(chain[d]).op = "register"
      BY <1>17, <2>2, <3>1, OpIs DEF Call, TypeOK, Register
    <3>2. CASE Head(chain[d]).op = "clear"
      BY <1>17, <2>2, <3>2, OpIs DEF Call, TypeOK, Clear
    <3>3. CASE Head(chain[d]).op = "claim"
      <4>1. PICK r \in Resumes : Claim(d, r)
        BY <1>17, <2>2, <3>3, OpIs DEF Call
      <4>2. resume[d][r] \in Calls
        BY DEF TypeOK
      <4>3. /\ tomb # None => [resume[d][r] EXCEPT !.at = "won", !.got = tomb] \in Calls
            /\ Idle \in Calls
        BY <4>2 DEF Calls, Phases, Idle, TypeOK
      <4> QED
        BY <4>1, <4>3 DEF Claim, TypeOK
    <3> QED
      BY <2>2, <3>1, <3>2, <3>3, OpIs
  <2> QED
    BY <1>17, <2>3, <2>4 DEF Call, TypeOK, chatVars, sendVars
<1>18. ASSUME NEW g \in Sends, Age(g) PROVE TypeOK'
  BY <1>18 DEF Age, TypeOK, chatVars
<1>19. ASSUME NEW g \in Sends, JobEnds(g) PROVE TypeOK'
  BY <1>19 DEF JobEnds, TypeOK, chatVars
<1>20. CASE UNCHANGED vars
  BY <1>20 DEF vars, TypeOK
<1>21. ASSUME NEW d \in Devices, Push(d) PROVE TypeOK'
  <2>1. Replied(copy[d], live[d]) \in Chats
    BY <1>21, ReplyTyped DEF Push, TypeOK
  <2> QED
    BY <1>21, <2>1 DEF Push, TypeOK, sendVars
<1> QED
  BY <1>1, <1>2, <1>3, <1>4, <1>5, <1>6, <1>7, <1>8, <1>9, <1>10, <1>11, <1>12,
     <1>13, <1>14, <1>15, <1>16, <1>17, <1>18, <1>19, <1>20, <1>21
     DEF Next, DiscoveryStep, SendStep

\* Every variable of the tombstone, its sends and its tabs has its type.
THEOREM SpecTypeOK == Spec => []TypeOK
  BY InitTyped, TypeOKStep, PTL DEF Spec

---------------------------------------------------------------------------
(* What a step does to the queues and the sends.                           *)

RegisterCall(g) == [op |-> "register", send |-> g]
ClearCall(why) == [op |-> "clear", why |-> why]
ClaimCall(r) == [op |-> "claim", by |-> r]

\* A send starts: the user's, or an interrupted one again.
Begins(d, g) ==
    /\ live[d] = None
    /\ fate[g] = "unused"
    /\ \A h \in Sends : h < g => fate[h] # "unused"
    /\ fate' = [fate EXCEPT ![g] = "running"]
    /\ live' = [live EXCEPT ![d] = g]
    /\ Enqueue(d, RegisterCall(g))
    /\ \/ took' = [took EXCEPT ![g] = None] /\ resume' = resume
       \/ \E r \in Resumes :
            /\ resume[d][r].at = "won"
            /\ took' = [took EXCEPT ![g] = resume[d][r].got]
            /\ resume' = [resume EXCEPT ![d][r] = Idle]
    /\ UNCHANGED <<tomb, flag, listed>>

\* A send ends in a living tab.
Ends(d) ==
    /\ live[d] # None
    /\ live' = [live EXCEPT ![d] = None]
    /\ fate' = [fate EXCEPT ![live[d]] = "concluded"]
    /\ flag' = [flag EXCEPT ![d] = None]
    /\ Enqueue(d, ClearCall("over"))
    /\ UNCHANGED <<tomb, took, listed, resume>>

\* A tab asks for the removal of the chat's tombstone without ending a send.
Clears(d) ==
    /\ \E why \in Reasons : Enqueue(d, ClearCall(why))
    /\ flag' = [flag EXCEPT ![d] = None]
    /\ listed' = listed \/ listed' = [listed EXCEPT ![d] = None]
    /\ UNCHANGED <<tomb, fate, took, live, resume>>

\* A resume asks for the tombstone.
Asks(d, r) ==
    /\ resume[d][r].at = "taken"
    /\ live[d] = None
    /\ Enqueue(d, ClaimCall(r))
    /\ resume' = [resume EXCEPT ![d][r] = [resume[d][r] EXCEPT !.at = "claiming"]]
    /\ UNCHANGED <<tomb, fate, took, live, flag, listed>>

\* Neither a queue, the tombstone nor a send changes.
Still == UNCHANGED <<tomb, fate, took, live, chain>>

LEMMA Kinds ==
  ASSUME TypeOK, [Next]_vars
  PROVE  \/ Still
         \/ \E d \in Devices, g \in Sends : Begins(d, g)
         \/ \E d \in Devices : Ends(d)
         \/ \E d \in Devices : Clears(d)
         \/ \E d \in Devices, r \in Resumes : Asks(d, r)
         \/ \E d \in Devices : Call(d)
         \/ \E d \in Devices : TabDies(d)
<1>1. CASE \E d \in Devices : UserSends(d)
  BY <1>1 DEF UserSends, StartSend, Begins, RegisterCall
<1>2. CASE \E d \in Devices : Reply(d) \/ Fail(d)
  BY <1>2 DEF Reply, Fail, Conclude, Ends, ClearCall
<1>3. CASE \E d \in Devices : ForceRelease(d)
  BY <1>3 DEF ForceRelease, Ends, ClearCall, chatVars
<1>4. CASE \E d \in Devices : StuckWakes(d)
  BY <1>4 DEF StuckWakes, Clears, ClearCall, Reasons, sendVars, chatVars
<1>5. ASSUME NEW d \in Devices, EvaluatePendingSend(d)
      PROVE  Still \/ Clears(d)
  BY <1>5 DEF EvaluatePendingSend, Clears, ClearCall, Reasons, Still, sendVars, chatVars
<1>6. ASSUME NEW d \in Devices, NEW r \in Resumes, Revalidate(d, r)
      PROVE  Still \/ Asks(d, r)
  BY <1>6 DEF Revalidate, Asks, ClaimCall, Still, sendVars, chatVars, Runnable
<1>7. ASSUME NEW d \in Devices, NEW r \in Resumes, ResumeSend(d, r)
      PROVE  Still \/ \E g \in Sends : Begins(d, g)
  BY <1>7 DEF ResumeSend, StartSend, Begins, RegisterCall, Still, sendVars, chatVars
<1>8. CASE \E d \in Devices : Save(d) \/ FireJob(d) \/ Push(d) \/ Navigate(d) \/ ListUnclaimed(d) \/ ListPendingSends(d)
  BY <1>8 DEF Save, FireJob, Push, Navigate, ListUnclaimed, ListPendingSends, Still, sendVars
<1>9. CASE \E g \in Sends : Age(g) \/ JobEnds(g)
  BY <1>9 DEF Age, JobEnds, Still
<1>10. CASE \E d \in Devices : (\E r \in Resumes : TakeResumable(d, r)) \/ (\E g \in Sends : RecoverJob(d, g))
  BY <1>10 DEF TakeResumable, RecoverJob, Still, sendVars
<1>11. CASE UNCHANGED vars
  BY <1>11 DEF vars, Still
<1> QED
  BY <1>1, <1>2, <1>3, <1>4, <1>5, <1>6, <1>7, <1>8, <1>9, <1>10, <1>11
     DEF Next, DiscoveryStep, SendStep

LEMMA Enqueued ==
  ASSUME TypeOK, NEW d \in Devices, NEW op \in Ops, Enqueue(d, op)
  PROVE  /\ \A e \in Devices : e # d => chain'[e] = chain[e]
         /\ Len(chain[d]) \in Nat
         /\ Len(chain'[d]) = Len(chain[d]) + 1
         /\ \A i \in 1..Len(chain[d]) : chain'[d][i] = chain[d][i]
         /\ chain'[d][Len(chain[d]) + 1] = op
<1>1. chain[d] \in Seq(Ops) /\ chain'[d] = Append(chain[d], op)
  BY DEF TypeOK, Enqueue
<1> QED
  BY <1>1, QueueAppend DEF TypeOK, Enqueue

LEMMA Called ==
  ASSUME TypeOK, NEW d \in Devices, Call(d)
  PROVE  /\ \A e \in Devices : e # d => chain'[e] = chain[e]
         /\ Len(chain[d]) \in Nat \ {0}
         /\ Len(chain'[d]) = Len(chain[d]) - 1
         /\ \A i \in 1..Len(chain'[d]) : chain'[d][i] = chain[d][i + 1]
         /\ chain[d][1] \in Ops
         /\ \/ /\ chain[d][1].op = "register" /\ chain[d][1].send \in Sends
               /\ tomb' = chain[d][1].send /\ resume' = resume
            \/ chain[d][1].op = "clear" /\ tomb' = None /\ resume' = resume
            \/ /\ chain[d][1].op = "claim" /\ chain[d][1].by \in Resumes
               /\ Claim(d, chain[d][1].by)
         /\ UNCHANGED <<sendVars, chatVars, live, open, flag, listed, stuck, faults>>
<1>1. chain[d] \in Seq(Ops) /\ chain[d] # <<>> /\ chain'[d] = Tail(chain[d])
  BY DEF TypeOK, Call
<1>2. Head(chain[d]) = chain[d][1] /\ chain[d][1] \in Ops
  BY <1>1, QueueTail
<1>3. /\ Len(chain[d]) \in Nat \ {0}
      /\ Len(chain'[d]) = Len(chain[d]) - 1
      /\ \A i \in 1..Len(chain'[d]) : chain'[d][i] = chain[d][i + 1]
  BY <1>1, QueueTail
<1>4. \A e \in Devices : e # d => chain'[e] = chain[e]
  BY DEF Call, TypeOK
<1>5. \/ /\ chain[d][1].op = "register" /\ chain[d][1].send \in Sends
         /\ tomb' = chain[d][1].send /\ resume' = resume
      \/ chain[d][1].op = "clear" /\ tomb' = None /\ resume' = resume
      \/ /\ chain[d][1].op = "claim" /\ chain[d][1].by \in Resumes
         /\ Claim(d, chain[d][1].by)
  BY <1>2, OpIs DEF Call, Register, Clear
<1> QED
  BY <1>2, <1>3, <1>4, <1>5 DEF Call

LEMMA NoneQueued ==
  ASSUME TypeOK, NEW d \in Devices, TabDies(d)
  PROVE  /\ \A e \in Devices : e # d => chain'[e] = chain[e]
         /\ chain'[d] = <<>> /\ Len(chain'[d]) = 0
  BY DEF TypeOK, TabDies

---------------------------------------------------------------------------
(* A tombstone's removal is queued behind it.                              *)

\* Behind the call that registers a send which is over, one clears.
Cleared ==
    \A d \in Devices : \A i \in 1..Len(chain[d]) :
        chain[d][i].op = "register" /\ live[d] # chain[d][i].send =>
            \E k \in (i + 1)..Len(chain[d]) : chain[d][k].op = "clear"

LEMMA ClearedInit == Init => Cleared
  BY DEF Init, Cleared

LEMMA ClearedStep ==
  ASSUME TypeOK, Cleared, [Next]_vars
  PROVE  Cleared'
<1> USE SendsNat
<1> SUFFICES ASSUME NEW e \in Devices, NEW i \in 1..Len(chain'[e]),
                    chain'[e][i].op = "register", live'[e] # chain'[e][i].send
             PROVE  \E k \in (i + 1)..Len(chain'[e]) : chain'[e][k].op = "clear"
  BY DEF Cleared
<1>1. CASE Still
  BY <1>1 DEF Still, Cleared
<1>2. ASSUME NEW d \in Devices, NEW g \in Sends, Begins(d, g)
      PROVE  \E k \in (i + 1)..Len(chain'[e]) : chain'[e][k].op = "clear"
  <2>1. Enqueue(d, RegisterCall(g)) /\ RegisterCall(g) \in Ops
    BY <1>2, OpsAre DEF Begins, RegisterCall
  <2>2. CASE e # d
    <3>1. live'[e] = live[e]
      BY <1>2, <2>2 DEF Begins, TypeOK
    <3>2. chain'[e] = chain[e]
      BY <2>1, <2>2, Enqueued
    <3> QED
      BY <3>1, <3>2 DEF Cleared
  <2>3. CASE e = d
    <3>1. i # Len(chain[d]) + 1
      BY <1>2, <2>1, <2>3, Enqueued DEF Begins, TypeOK, RegisterCall
    <3>2. i \in 1..Len(chain[d]) /\ chain[d][i] = chain'[d][i]
      BY <2>1, <2>3, <3>1, Enqueued
    <3>3. chain[d][i].send \in Sends /\ live[d] = None
      BY <1>2, <2>3, <3>2, QueueElement, OpIs DEF Begins
    <3>4. \E k \in (i + 1)..Len(chain[d]) : chain[d][k].op = "clear"
      BY <2>3, <3>2, <3>3 DEF Cleared
    <3> QED
      BY <2>1, <2>3, <3>2, <3>4, Enqueued
  <2> QED
    BY <2>2, <2>3
<1>3. ASSUME NEW d \in Devices, NEW why \in Reasons, Enqueue(d, ClearCall(why)),
             \A f \in Devices : f # d => live'[f] = live[f]
      PROVE  \E k \in (i + 1)..Len(chain'[e]) : chain'[e][k].op = "clear"
  <2>1. ClearCall(why) \in Ops /\ ClearCall(why).op = "clear"
    BY OpsAre DEF ClearCall
  <2>2. CASE e # d
    BY <1>3, <2>1, <2>2, Enqueued DEF Cleared
  <2>3. CASE e = d
    <3>1. i # Len(chain[d]) + 1
      BY <1>3, <2>1, <2>3, Enqueued
    <3>2. Len(chain[d]) + 1 \in (i + 1)..Len(chain'[e])
      BY <1>3, <2>1, <2>3, <3>1, Enqueued
    <3> QED
      BY <1>3, <2>1, <2>3, <3>2, Enqueued
  <2> QED
    BY <2>2, <2>3
<1>4. ASSUME NEW d \in Devices, Ends(d) \/ Clears(d)
      PROVE  \E k \in (i + 1)..Len(chain'[e]) : chain'[e][k].op = "clear"
  <2>1. \A f \in Devices : f # d => live'[f] = live[f]
    BY <1>4 DEF Ends, Clears, TypeOK
  <2>2. PICK why \in Reasons : Enqueue(d, ClearCall(why))
    BY <1>4 DEF Ends, Clears, Reasons
  <2> QED
    BY <1>3, <2>1, <2>2
<1>5. ASSUME NEW d \in Devices, NEW r \in Resumes, Asks(d, r)
      PROVE  \E k \in (i + 1)..Len(chain'[e]) : chain'[e][k].op = "clear"
  <2>1. Enqueue(d, ClaimCall(r)) /\ ClaimCall(r) \in Ops /\ ClaimCall(r).op = "claim" /\ live' = live
    BY <1>5, OpsAre DEF Asks, ClaimCall
  <2>2. CASE e # d
    BY <2>1, <2>2, Enqueued DEF Cleared
  <2>3. CASE e = d
    <3>1. i \in 1..Len(chain[d]) /\ chain[d][i] = chain'[d][i]
      BY <2>1, <2>3, Enqueued
    <3>2. \E k \in (i + 1)..Len(chain[d]) : chain[d][k].op = "clear"
      BY <2>1, <2>3, <3>1 DEF Cleared
    <3> QED
      BY <2>1, <2>3, <3>1, <3>2, Enqueued
  <2> QED
    BY <2>2, <2>3
<1>6. ASSUME NEW d \in Devices, Call(d)
      PROVE  \E k \in (i + 1)..Len(chain'[e]) : chain'[e][k].op = "clear"
  <2>1. live' = live
    BY <1>6, Called
  <2>2. CASE e # d
    BY <1>6, <2>1, <2>2, Called DEF Cleared
  <2>3. CASE e = d
    <3>1. i + 1 \in 1..Len(chain[d]) /\ chain[d][i + 1] = chain'[d][i]
      BY <1>6, <2>3, Called
    <3>2. PICK k \in (i + 2)..Len(chain[d]) : chain[d][k].op = "clear"
      BY <2>1, <2>3, <3>1 DEF Cleared
    <3>3. k - 1 \in (i + 1)..Len(chain'[d]) /\ chain'[d][k - 1] = chain[d][k]
      BY <1>6, <2>3, Called
    <3> QED
      BY <2>3, <3>2, <3>3
  <2> QED
    BY <2>2, <2>3
<1>7. ASSUME NEW d \in Devices, TabDies(d)
      PROVE  \E k \in (i + 1)..Len(chain'[e]) : chain'[e][k].op = "clear"
  <2>1. e # d /\ chain'[e] = chain[e]
    BY <1>7, NoneQueued
  <2>2. live'[e] = live[e]
    BY <1>7, <2>1 DEF TabDies, TypeOK
  <2> QED
    BY <2>1, <2>2 DEF Cleared
<1> QED
  BY <1>1, <1>2, <1>4, <1>5, <1>6, <1>7, Kinds

\* A concluded send's tombstone does not come back, in any of the tabs that
\* share the chat: calls reach the server in the order they were queued.
THEOREM SpecNoResurrection == Spec => []NoResurrection
<1>1. TypeOK /\ Cleared => NoResurrection
  <2> SUFFICES ASSUME TypeOK, Cleared, NEW d \in Devices, NEW i \in 1..MaxQueue,
                      i <= Len(chain[d]), chain[d][i].op = "register",
                      live[d] # chain[d][i].send
               PROVE  \E k \in (i + 1)..Len(chain[d]) : chain[d][k].op = "clear"
    BY DEF NoResurrection
  <2>1. i \in 1..Len(chain[d])
    BY PendingSendsAssumption DEF TypeOK
  <2> QED
    BY <2>1 DEF Cleared
<1> QED
  BY <1>1, ClearedInit, ClearedStep, SpecTypeOK, PTL DEF Spec

---------------------------------------------------------------------------
(* Where a claimed tombstone and a queued registration come from.          *)

Claims(d, r) == Call(d) /\ chain[d][1].op = "claim" /\ chain[d][1].by = r

\* What a resume call holds after a step.
ResumeFrom(d, r) ==
    \/ resume'[d][r] = resume[d][r]
    \/ /\ resume'[d][r].at # "won"
       /\ resume'[d][r].got \in {None, resume[d][r].got}
    \/ /\ Claims(d, r) /\ tomb # None
       /\ resume'[d][r].at = "won" /\ resume'[d][r].got = tomb

LEMMA IdleIs == Idle.at = "idle" /\ Idle.got = None
  BY DEF Idle

LEMMA ClaimIs ==
  ASSUME TypeOK, NEW d \in Devices, NEW r \in Resumes, Claim(d, r)
  PROVE  /\ tomb' = None
         /\ \A e \in Devices, s \in Resumes : e # d \/ s # r => resume'[e][s] = resume[e][s]
         /\ tomb = None => resume'[d][r] = Idle
         /\ tomb # None => resume'[d][r].at = "won" /\ resume'[d][r].got = tomb
<1> DEFINE won == [resume[d][r] EXCEPT !.at = "won", !.got = tomb]
<1>1. won.at = "won" /\ won.got = tomb
  <2>1. resume[d][r] \in Calls
    BY DEF TypeOK
  <2> QED
    BY <2>1 DEF Calls
<1>2. tomb' = None /\ (tomb = None => resume' = [resume EXCEPT ![d][r] = Idle])
  BY DEF Claim
<1>3. tomb # None => resume' = [resume EXCEPT ![d][r] = won]
  BY DEF Claim
<1> HIDE DEF won
<1>4. CASE tomb = None
  BY <1>2, <1>4 DEF TypeOK
<1>5. CASE tomb # None
  <2>1. resume' = [resume EXCEPT ![d][r] = won]
    BY <1>3, <1>5
  <2>2. \A e \in Devices, s \in Resumes :
          resume'[e][s] = IF e = d /\ s = r THEN won ELSE resume[e][s]
    BY <2>1 DEF TypeOK
  <2> QED
    BY <1>1, <1>2, <1>5, <2>2
<1> QED
  BY <1>4, <1>5

LEMMA ResumeStep ==
  ASSUME TypeOK, [Next]_vars, NEW e \in Devices, NEW s \in Resumes
  PROVE  ResumeFrom(e, s)
<1> USE IdleIs
<1>1. CASE resume' = resume
  BY <1>1 DEF ResumeFrom
<1>2. ASSUME NEW d \in Devices, NEW r \in Resumes, NEW c \in Calls,
             resume' = [resume EXCEPT ![d][r] = c],
             c.at # "won", c.got \in {None, resume[d][r].got}
      PROVE  ResumeFrom(e, s)
  BY <1>2 DEF ResumeFrom, TypeOK
<1>3. Idle \in Calls
  BY DEF Idle, Calls, Phases
<1>4. ASSUME NEW d \in Devices, Call(d) PROVE ResumeFrom(e, s)
  <2>1. CASE resume' = resume
    BY <1>1, <2>1
  <2>2. ASSUME Claim(d, chain[d][1].by), Claims(d, chain[d][1].by), chain[d][1].by \in Resumes
        PROVE  ResumeFrom(e, s)
    BY <2>2, ClaimIs DEF ResumeFrom
  <2> QED
    BY <1>4, <2>1, <2>2, Called DEF Claims
<1>5. ASSUME NEW d \in Devices, TabDies(d) PROVE ResumeFrom(e, s)
  <2>1. resume' = [resume EXCEPT ![d] = [r \in Resumes |-> Idle]]
    BY <1>5 DEF TabDies
  <2> QED
    BY <2>1 DEF ResumeFrom, TypeOK
<1>6. ASSUME NEW d \in Devices, NEW r \in Resumes, TakeResumable(d, r) PROVE ResumeFrom(e, s)
  <2> DEFINE c == [at |-> "taken", for |-> flag[d], got |-> None]
  <2>1. c \in Calls /\ c.at # "won" /\ c.got = None
    BY DEF TypeOK, Calls, Phases
  <2>2. resume' = [resume EXCEPT ![d][r] = c]
    BY <1>6 DEF TakeResumable
  <2> QED
    BY <1>2, <2>1, <2>2
<1>7. ASSUME NEW d \in Devices, NEW r \in Resumes, Revalidate(d, r) PROVE ResumeFrom(e, s)
  <2> DEFINE c == [resume[d][r] EXCEPT !.at = "claiming"]
  <2>1. c \in Calls /\ c.at # "won" /\ c.got = resume[d][r].got
    <3>1. resume[d][r] \in Calls
      BY DEF TypeOK
    <3> QED
      BY <3>1 DEF Calls, Phases
  <2>2. \/ resume' = [resume EXCEPT ![d][r] = Idle]
        \/ resume' = [resume EXCEPT ![d][r] = c]
    BY <1>7 DEF Revalidate
  <2> QED
    BY <1>2, <1>3, <2>1, <2>2
<1>8. ASSUME NEW d \in Devices, NEW r \in Resumes, ResumeSend(d, r) PROVE ResumeFrom(e, s)
  BY <1>2, <1>3, <1>8 DEF ResumeSend
<1>9. CASE \E d \in Devices : \/ UserSends(d) \/ Save(d) \/ FireJob(d) \/ Push(d) \/ Navigate(d)
                              \/ ListUnclaimed(d) \/ ListPendingSends(d) \/ EvaluatePendingSend(d)
  BY <1>1, <1>9 DEF UserSends, Save, FireJob, Push, Navigate, ListUnclaimed, ListPendingSends,
                    EvaluatePendingSend
<1>10. CASE \E d \in Devices : Reply(d) \/ Fail(d) \/ ForceRelease(d) \/ StuckWakes(d)
  BY <1>1, <1>10 DEF Reply, Fail, Conclude, ForceRelease, StuckWakes
<1>11. CASE \E g \in Sends : Age(g) \/ JobEnds(g) \/ \E d \in Devices : RecoverJob(d, g)
  BY <1>1, <1>11 DEF Age, JobEnds, RecoverJob
<1>12. CASE UNCHANGED vars
  BY <1>1, <1>12 DEF vars
<1> QED
  BY <1>4, <1>5, <1>6, <1>7, <1>8, <1>9, <1>10, <1>11, <1>12 DEF Next, DiscoveryStep, SendStep

LEMMA RegistersFrom ==
  ASSUME TypeOK, [Next]_vars, NEW e \in Devices
  PROVE  \E k \in {0, 1} : \A i \in 1..Len(chain'[e]) : chain'[e][i].op = "register" =>
            \/ i + k \in 1..Len(chain[e]) /\ chain'[e][i] = chain[e][i + k]
            \/ k = 0 /\ i = Len(chain[e]) + 1 /\ Begins(e, chain'[e][i].send)
<1> USE SendsNat
<1> DEFINE Goal(k) ==
             \A i \in 1..Len(chain'[e]) : chain'[e][i].op = "register" =>
                \/ i + k \in 1..Len(chain[e]) /\ chain'[e][i] = chain[e][i + k]
                \/ k = 0 /\ i = Len(chain[e]) + 1 /\ Begins(e, chain'[e][i].send)
<1>1. CASE chain'[e] = chain[e]
  <2>1. Len(chain[e]) \in Nat
    BY DEF TypeOK
  <2>2. Goal(0)
    BY <1>1, <2>1
  <2> QED
    BY <2>2
<1>2. ASSUME NEW g \in Sends, Begins(e, g) PROVE Goal(0)
  <2>1. /\ Enqueue(e, RegisterCall(g)) /\ RegisterCall(g) \in Ops /\ RegisterCall(g).send = g
    BY <1>2, OpsAre DEF Begins, RegisterCall
  <2>2. /\ Len(chain[e]) \in Nat /\ Len(chain'[e]) = Len(chain[e]) + 1
        /\ \A i \in 1..Len(chain[e]) : chain'[e][i] = chain[e][i]
        /\ chain'[e][Len(chain[e]) + 1] = RegisterCall(g)
    BY <2>1, Enqueued
  <2> QED
    BY <1>2, <2>1, <2>2
<1>3. ASSUME NEW op \in Ops, op.op # "register", Enqueue(e, op) PROVE Goal(0)
  <2>1. /\ Len(chain[e]) \in Nat /\ Len(chain'[e]) = Len(chain[e]) + 1
        /\ \A i \in 1..Len(chain[e]) : chain'[e][i] = chain[e][i]
        /\ chain'[e][Len(chain[e]) + 1] = op
    BY <1>3, Enqueued
  <2> QED
    BY <1>3, <2>1
<1>4. ASSUME Call(e) PROVE Goal(1)
  BY <1>4, Called
<1>5. ASSUME TabDies(e) PROVE Goal(0)
  BY <1>5, NoneQueued
<1>6. ASSUME NEW d \in Devices, d # e,
             \/ \E g \in Sends : Begins(d, g)
             \/ Ends(d) \/ Clears(d) \/ Call(d) \/ TabDies(d)
             \/ \E r \in Resumes : Asks(d, r)
      PROVE  chain'[e] = chain[e]
  <2>1. CASE Call(d) \/ TabDies(d)
    BY <1>6, <2>1, Called, NoneQueued
  <2>2. ASSUME NEW op \in Ops, Enqueue(d, op) PROVE chain'[e] = chain[e]
    BY <1>6, <2>2, Enqueued
  <2> QED
    BY <1>6, <2>1, <2>2, OpsAre
       DEF Begins, Ends, Clears, Asks, RegisterCall, ClearCall, ClaimCall, Reasons
<1>7. ASSUME Ends(e) \/ Clears(e) \/ \E r \in Resumes : Asks(e, r) PROVE Goal(0)
  <2>1. \E op \in Ops : op.op # "register" /\ Enqueue(e, op)
    BY <1>7, OpsAre DEF Ends, Clears, Asks, ClearCall, ClaimCall, Reasons
  <2> QED
    BY <1>3, <2>1
<1>8. Still => chain'[e] = chain[e]
  BY DEF Still
<1>9. \/ chain'[e] = chain[e] \/ Goal(0) \/ Goal(1)
  BY <1>2, <1>4, <1>5, <1>6, <1>7, <1>8, Kinds
<1> QED
  BY <1>1, <1>9

---------------------------------------------------------------------------
(* Only sends that started are spoken of, and those that run are live.     *)

Used == {g \in Sends : fate[g] # "unused"}

\* The tombstones that a resume's claim has won, or that a send was started for.
Got(d, r) == resume[d][r].got

Known ==
    /\ tomb \in Used \cup {None}
    /\ \A d \in Devices : live[d] \in Used \cup {None}
    /\ \A d \in Devices : \A i \in 1..Len(chain[d]) :
         chain[d][i].op = "register" => chain[d][i].send \in Used
    /\ \A g \in Sends : took[g] \in Used \cup {None}
    /\ \A d \in Devices, r \in Resumes : Got(d, r) \in Used \cup {None}

LiveRuns ==
    /\ \A d \in Devices : live[d] # None => fate[live[d]] = "running"
    /\ \A g \in Sends : fate[g] = "running" => \E d \in Devices : live[d] = g
    /\ \A d, e \in Devices : live[d] = live[e] /\ live[d] # None => d = e

\* A send that runs is registered by the tab it runs in.
Owned ==
    \A d \in Devices : \A i \in 1..Len(chain[d]) :
        chain[d][i].op = "register" /\ fate[chain[d][i].send] = "running" =>
            live[d] = chain[d][i].send

SendsInv == Known /\ LiveRuns /\ Owned

LEMMA SendsInit == Init => SendsInv
  BY SendsNat DEF Init, SendsInv, Known, LiveRuns, Owned, Used, Got, Idle

LEMMA UsedStep ==
  ASSUME TypeOK, Known, [Next]_vars
  PROVE  /\ Used \subseteq Used'
         /\ \/ Used' = Used
            \/ \E d \in Devices, g \in Sends : Begins(d, g) /\ Used' = Used \cup {g} /\ g \notin Used
<1> USE SendsNat
<1>1. CASE Still
  BY <1>1 DEF Still, Used
<1>2. ASSUME NEW d \in Devices, NEW g \in Sends, Begins(d, g)
      PROVE  Used' = Used \cup {g} /\ g \notin Used
  BY <1>2 DEF Begins, Used, TypeOK
<1>3. ASSUME NEW d \in Devices, Ends(d) \/ TabDies(d) PROVE Used' = Used
  <2>1. \A g \in Sends : fate'[g] = "unused" <=> g # live[d] /\ fate[g] = "unused"
    <3>1. CASE Ends(d)
      <4>1. fate' = [fate EXCEPT ![live[d]] = "concluded"] /\ live[d] \in Sends
        BY <3>1 DEF Ends, TypeOK
      <4> QED
        BY <4>1 DEF TypeOK
    <3>2. CASE TabDies(d)
      <4>1. \A g \in Sends : fate'[g] = IF g = live[d] THEN "interrupted" ELSE fate[g]
        BY <3>2 DEF TabDies
      <4> QED
        BY <4>1
    <3> QED
      BY <1>3, <3>1, <3>2
  <2>2. \A g \in Sends : g = live[d] => fate[g] # "unused"
    BY DEF Known, Used
  <2> QED
    BY <2>1, <2>2 DEF Used
<1>4. CASE \E d \in Devices : Clears(d) \/ \E r \in Resumes : Asks(d, r)
  BY <1>4 DEF Clears, Asks, Used
<1>5. CASE \E d \in Devices : Call(d)
  BY <1>5 DEF Call, sendVars, Used
<1> QED
  BY <1>1, <1>2, <1>3, <1>4, <1>5, Kinds

LEMMA KnownStep ==
  ASSUME TypeOK, Known, [Next]_vars
  PROVE  Known'
<1> USE SendsNat
<1>1. Used \subseteq Used'
  BY UsedStep
<1>2. tomb' \in Used' \cup {None}
  <2>1. CASE tomb' = tomb
    BY <1>1, <2>1 DEF Known
  <2>2. ASSUME NEW d \in Devices, Call(d) PROVE tomb' \in Used \cup {None}
    <3>1. 1 \in 1..Len(chain[d])
      BY <2>2, Called
    <3>2. chain[d][1].op = "register" => chain[d][1].send \in Used
      BY <3>1 DEF Known
    <3> QED
      BY <2>2, <3>2, Called DEF Claim
  <2> QED
    BY <1>1, <2>1, <2>2, Kinds DEF Still, Begins, Ends, Clears, Asks, TabDies
<1>3. \A d \in Devices : live'[d] \in Used' \cup {None}
  <2>1. CASE live' = live
    BY <1>1, <2>1 DEF Known
  <2>2. ASSUME NEW d \in Devices, NEW g \in Sends, Begins(d, g)
        PROVE  \A e \in Devices : live'[e] \in Used' \cup {None}
    <3>1. g \in Used'
      BY <2>2 DEF Begins, Used, TypeOK
    <3>2. \A e \in Devices : live'[e] \in {g, live[e]}
      BY <2>2 DEF Begins, TypeOK
    <3> QED
      BY <1>1, <3>1, <3>2 DEF Known
  <2>3. ASSUME NEW d \in Devices, Ends(d) \/ TabDies(d)
        PROVE  \A e \in Devices : live'[e] \in Used' \cup {None}
    <3>1. \A e \in Devices : live'[e] \in {None, live[e]}
      BY <2>3 DEF Ends, TabDies, TypeOK
    <3> QED
      BY <1>1, <3>1 DEF Known
  <2>4. (\E d \in Devices : Call(d)) => live' = live
    BY DEF Call
  <2> QED
    BY <2>1, <2>2, <2>3, <2>4, Kinds DEF Still, Clears, Asks
<1>4. ASSUME NEW e \in Devices, NEW i \in 1..Len(chain'[e]), chain'[e][i].op = "register"
      PROVE  chain'[e][i].send \in Used'
  <2>1. CASE \E j \in 1..Len(chain[e]) : chain[e][j] = chain'[e][i]
    BY <1>1, <1>4, <2>1 DEF Known
  <2>2. ASSUME Begins(e, chain'[e][i].send)
        PROVE  chain'[e][i].send \in Used'
    <3>1. chain'[e][i].send \in Sends
      BY <1>4, TypeOKStep, OpIs DEF TypeOK
    <3> QED
      BY <2>2, <3>1 DEF Begins, Used, TypeOK
  <2> QED
    BY <1>4, <2>1, <2>2, RegistersFrom
<1>5. \A g \in Sends : took'[g] \in Used' \cup {None}
  <2>1. CASE took' = took
    BY <1>1, <2>1 DEF Known
  <2>2. ASSUME NEW d \in Devices, NEW g \in Sends, Begins(d, g)
        PROVE  \A h \in Sends : took'[h] \in Used' \cup {None}
    <3>1. \E old \in Used \cup {None} : took' = [took EXCEPT ![g] = old]
      BY <2>2 DEF Begins, Known, Got
    <3> QED
      BY <1>1, <3>1 DEF Known, TypeOK
  <2>3. (\E d \in Devices : Call(d)) => took' = took
    BY DEF Call, sendVars
  <2> QED
    BY <2>1, <2>2, <2>3, Kinds DEF Still, Clears, Asks, Ends, TabDies
<1>6. ASSUME NEW d \in Devices, NEW r \in Resumes
      PROVE  Got(d, r)' \in Used' \cup {None}
  <2>1. ResumeFrom(d, r)
    BY ResumeStep
  <2> QED
    BY <1>1, <2>1 DEF ResumeFrom, Known, Got
<1> QED
  BY <1>2, <1>3, <1>4, <1>5, <1>6 DEF Known

LEMMA LiveRunsStep ==
  ASSUME TypeOK, Known, LiveRuns, [Next]_vars
  PROVE  LiveRuns'
<1> USE SendsNat
<1>1. CASE live' = live /\ fate' = fate
  BY <1>1 DEF LiveRuns
<1>2. ASSUME NEW d \in Devices, NEW g \in Sends, Begins(d, g) PROVE LiveRuns'
  <2>1. \A e \in Devices : live'[e] = IF e = d THEN g ELSE live[e]
    BY <1>2 DEF Begins, TypeOK
  <2>2. \A h \in Sends : fate'[h] = IF h = g THEN "running" ELSE fate[h]
    BY <1>2 DEF Begins, TypeOK
  <2>3. \A e \in Devices : live[e] \in Sends \cup {None} /\ live[e] # g
    BY <1>2 DEF Begins, Known, Used
  <2>4. live[d] = None
    BY <1>2 DEF Begins
  <2>5. ASSUME NEW e \in Devices, live'[e] # None PROVE fate'[live'[e]] = "running"
    BY <2>1, <2>2, <2>3, <2>5 DEF LiveRuns
  <2>6. ASSUME NEW h \in Sends, fate'[h] = "running" PROVE \E e \in Devices : live'[e] = h
    BY <2>1, <2>2, <2>4, <2>6 DEF LiveRuns
  <2>7. ASSUME NEW e \in Devices, NEW f \in Devices, live'[e] = live'[f], live'[e] # None PROVE e = f
    BY <2>1, <2>3, <2>7 DEF LiveRuns
  <2> QED
    BY <2>5, <2>6, <2>7 DEF LiveRuns
<1>3. ASSUME NEW d \in Devices, Ends(d) \/ TabDies(d) PROVE LiveRuns'
  <2>1. \A e \in Devices : live'[e] = IF e = d THEN None ELSE live[e]
    BY <1>3 DEF Ends, TabDies, TypeOK
  <2>2. \A h \in Sends : /\ h # live[d] => fate'[h] = fate[h]
                         /\ h = live[d] => fate'[h] # "running"
    <3>1. CASE Ends(d)
      <4>1. fate' = [fate EXCEPT ![live[d]] = "concluded"] /\ live[d] \in Sends
        BY <3>1 DEF Ends, TypeOK
      <4> QED
        BY <4>1 DEF TypeOK
    <3>2. CASE TabDies(d)
      <4>1. \A g \in Sends : fate'[g] = IF g = live[d] THEN "interrupted" ELSE fate[g]
        BY <3>2 DEF TabDies
      <4> QED
        BY <4>1
    <3> QED
      BY <1>3, <3>1, <3>2
  <2>3. \A e \in Devices : live[e] \in Sends \cup {None}
    BY DEF TypeOK
  <2>4. ASSUME NEW e \in Devices, live'[e] # None PROVE fate'[live'[e]] = "running"
    <3>1. e # d /\ live'[e] = live[e] /\ live[e] \in Sends
      BY <2>1, <2>3, <2>4
    <3>2. live[e] # live[d] /\ fate[live[e]] = "running"
      BY <3>1 DEF LiveRuns
    <3> QED
      BY <2>2, <3>1, <3>2
  <2>5. ASSUME NEW h \in Sends, fate'[h] = "running" PROVE \E e \in Devices : live'[e] = h
    <3>1. h # live[d] /\ fate[h] = "running"
      BY <2>2, <2>5
    <3>2. PICK e \in Devices : live[e] = h
      BY <3>1 DEF LiveRuns
    <3> QED
      BY <2>1, <3>1, <3>2
  <2>6. ASSUME NEW e \in Devices, NEW f \in Devices, live'[e] = live'[f], live'[e] # None PROVE e = f
    BY <2>1, <2>6 DEF LiveRuns
  <2> QED
    BY <2>4, <2>5, <2>6 DEF LiveRuns
<1>4. (\E d \in Devices : Call(d)) => live' = live /\ fate' = fate
  BY DEF Call, sendVars
<1> QED
  BY <1>1, <1>2, <1>3, <1>4, Kinds DEF Still, Clears, Asks

LEMMA OwnedStep ==
  ASSUME TypeOK, SendsInv, [Next]_vars
  PROVE  Owned'
<1> USE SendsNat
<1> SUFFICES ASSUME NEW e \in Devices, NEW i \in 1..Len(chain'[e]),
                    chain'[e][i].op = "register", fate'[chain'[e][i].send] = "running"
             PROVE  live'[e] = chain'[e][i].send
  BY DEF Owned
<1> DEFINE g == chain'[e][i].send
<1>1. g \in Sends
  BY TypeOKStep, OpIs DEF TypeOK
<1>2. CASE Begins(e, g)
  BY <1>2 DEF Begins, TypeOK
<1>3. ASSUME NEW j \in 1..Len(chain[e]), chain[e][j] = chain'[e][i]
      PROVE  live'[e] = g
  <2>1. g \in Used
    BY <1>3 DEF SendsInv, Known
  <2>2. fate[g] = "running"
    <3>1. ASSUME NEW d \in Devices, NEW h \in Sends, Begins(d, h) PROVE fate[g] = "running"
      BY <1>1, <2>1, <3>1 DEF Begins, Used, TypeOK
    <3>2. ASSUME NEW d \in Devices, Ends(d) PROVE fate[g] = "running"
      <4>1. fate' = [fate EXCEPT ![live[d]] = "concluded"]
        BY <3>2 DEF Ends
      <4> QED
        BY <1>1, <4>1 DEF TypeOK
    <3>3. ASSUME NEW d \in Devices, TabDies(d) PROVE fate[g] = "running"
      <4>1. fate'[g] = IF g = live[d] THEN "interrupted" ELSE fate[g]
        BY <1>1, <3>3 DEF TabDies
      <4> QED
        BY <4>1
    <3>4. (\E d \in Devices : Call(d)) => fate' = fate
      BY DEF Call, sendVars
    <3> QED
      BY <3>1, <3>2, <3>3, <3>4, Kinds DEF Still, Clears, Asks
  <2>3. live[e] = g
    BY <1>3, <2>2 DEF SendsInv, Owned
  <2>4. live'[e] = live[e]
    <3>1. PICK d \in Devices : live'[d] = g
      BY <1>1, LiveRunsStep DEF SendsInv, LiveRuns
    <3>2. ASSUME NEW c \in Devices, NEW h \in Sends, Begins(c, h) PROVE live'[e] = live[e]
      BY <1>1, <2>3, <3>2 DEF Begins, TypeOK
    <3>3. ASSUME NEW c \in Devices, Ends(c) \/ TabDies(c) PROVE live'[e] = live[e]
      <4>1. \A f \in Devices : live'[f] = IF f = c THEN None ELSE live[f]
        BY <3>3 DEF Ends, TabDies, TypeOK
      <4>2. d # c /\ live[d] = g
        BY <1>1, <3>1, <4>1
      <4>3. d = e
        BY <1>1, <2>3, <4>2 DEF SendsInv, LiveRuns
      <4> QED
        BY <2>3, <3>1, <4>3
    <3>4. (\E c \in Devices : Call(c)) => live' = live
      BY DEF Call
    <3> QED
      BY <3>2, <3>3, <3>4, Kinds DEF Still, Clears, Asks
  <2> QED
    BY <2>3, <2>4
<1> QED
  BY <1>2, <1>3, RegistersFrom

LEMMA SendsStep ==
  ASSUME TypeOK, SendsInv, [Next]_vars
  PROVE  SendsInv'
  BY KnownStep, LiveRunsStep, OwnedStep DEF SendsInv

---------------------------------------------------------------------------
(* Whose tombstone a claim finds.                                          *)

\* The tombstone of the send a tab runs comes behind the claims the tab queued
\* before it started, and while it runs none is queued.
OwnSpared ==
    \A d \in Devices : \A i \in 1..Len(chain[d]) :
        chain[d][i].op = "claim" /\ live[d] # None =>
            /\ tomb # live[d]
            /\ \A j \in 1..Len(chain[d]) :
                 chain[d][j].op = "register" /\ chain[d][j].send = live[d] => i < j

LEMMA OwnSparedInit == Init => OwnSpared
  BY DEF Init, OwnSpared

LEMMA OwnSparedStep ==
  ASSUME TypeOK, SendsInv, OwnSpared, [Next]_vars
  PROVE  OwnSpared'
<1> USE SendsNat
<1> SUFFICES ASSUME NEW e \in Devices, NEW i \in 1..Len(chain'[e]),
                    chain'[e][i].op = "claim", live'[e] # None
             PROVE  /\ tomb' # live'[e]
                    /\ \A j \in 1..Len(chain'[e]) :
                         chain'[e][j].op = "register" /\ chain'[e][j].send = live'[e] => i < j
  BY DEF OwnSpared
<1> DEFINE Goal == /\ tomb' # live'[e]
                   /\ \A j \in 1..Len(chain'[e]) :
                        chain'[e][j].op = "register" /\ chain'[e][j].send = live'[e] => i < j
<1>1. CASE chain'[e] = chain[e] /\ live'[e] = live[e] /\ tomb' = tomb
  BY <1>1 DEF OwnSpared
<1>2. ASSUME NEW g \in Sends, Begins(e, g) PROVE Goal
  <2>1. /\ Enqueue(e, RegisterCall(g)) /\ RegisterCall(g) \in Ops
        /\ RegisterCall(g).op = "register"
    BY <1>2, OpsAre DEF Begins, RegisterCall
  <2>2. live'[e] = g /\ g \notin Used /\ tomb' = tomb
    BY <1>2, <2>1 DEF Begins, TypeOK, Used
  <2>3. i \in 1..Len(chain[e])
    BY <2>1, Enqueued
  <2>4. ASSUME NEW j \in 1..Len(chain'[e]), chain'[e][j].op = "register", chain'[e][j].send = g
        PROVE  i < j
    <3>1. CASE j \in 1..Len(chain[e])
      BY <2>1, <2>2, <2>4, <3>1, Enqueued DEF SendsInv, Known
    <3> QED
      BY <2>1, <2>3, <3>1, Enqueued
  <2> QED
    BY <2>2, <2>4 DEF SendsInv, Known
<1>3. ASSUME NEW op \in Ops, Enqueue(e, op), op.op = "clear", UNCHANGED <<tomb, live>> PROVE Goal
  <2>1. i \in 1..Len(chain[e]) /\ chain[e][i].op = "claim"
    BY <1>3, Enqueued
  <2>2. \A j \in 1..Len(chain'[e]) : chain'[e][j].op = "register" =>
          j \in 1..Len(chain[e]) /\ chain'[e][j] = chain[e][j]
    BY <1>3, Enqueued
  <2> QED
    BY <1>3, <2>1, <2>2 DEF OwnSpared
<1>4. ASSUME Ends(e) \/ TabDies(e) PROVE FALSE
  <2>1. live' = [live EXCEPT ![e] = None]
    BY <1>4 DEF Ends, TabDies
  <2> QED
    BY <2>1 DEF TypeOK
<1>5. ASSUME Clears(e) PROVE Goal
  BY <1>3, <1>5, OpsAre DEF Clears, ClearCall
<1>6. ASSUME NEW r \in Resumes, Asks(e, r) PROVE FALSE
  BY <1>6 DEF Asks
<1>7. ASSUME Call(e) PROVE Goal
  <2>1. live' = live
    BY <1>7 DEF Call
  <2>2. /\ i + 1 \in 1..Len(chain[e]) /\ chain[e][i + 1].op = "claim"
        /\ \A j \in 1..Len(chain'[e]) : j + 1 \in 1..Len(chain[e]) /\ chain'[e][j] = chain[e][j + 1]
    BY <1>7, Called
  <2>3. /\ tomb # live[e]
        /\ \A j \in 1..Len(chain[e]) :
             chain[e][j].op = "register" /\ chain[e][j].send = live[e] => i + 1 < j
    BY <2>1, <2>2 DEF OwnSpared
  <2>4. tomb' # live'[e]
    <3>1. 1 \in 1..Len(chain[e])
      BY <1>7, Called
    <3>2. ~(chain[e][1].op = "register" /\ chain[e][1].send = live[e])
      BY <2>3, <3>1
    <3> QED
      BY <1>7, <2>1, <3>2, Called DEF Claim
  <2>5. ASSUME NEW j \in 1..Len(chain'[e]), chain'[e][j].op = "register", chain'[e][j].send = live[e]
        PROVE  i < j
    <3>1. i + 1 < j + 1
      BY <2>2, <2>3, <2>5
    <3> QED
      BY <3>1
  <2> QED
    BY <2>1, <2>4, <2>5
\* Another tab's step leaves the queue and the send of this one alone; the
\* tombstone it registers is that of a send of its own.
<1>8. ASSUME NEW d \in Devices, d # e, Call(d) PROVE Goal
  <2>1. chain'[e] = chain[e] /\ live' = live
    BY <1>8, Called
  <2>2. tomb # live[e] /\ live[e] \in Sends
    BY <2>1 DEF OwnSpared, TypeOK
  <2>3. tomb' # live[e]
    <3>1. CASE chain[d][1].op = "register" /\ tomb' = chain[d][1].send
      <4>1. 1 \in 1..Len(chain[d])
        BY <1>8, Called
      <4>2. fate[live[e]] = "running"
        BY <2>1 DEF SendsInv, LiveRuns
      <4>3. tomb' = live[e] => live[d] = live[e]
        BY <3>1, <4>1, <4>2 DEF SendsInv, Owned
      <4> QED
        BY <1>8, <2>1, <4>3 DEF SendsInv, LiveRuns
    <3> QED
      BY <1>8, <2>2, <3>1, Called DEF Claim
  <2> QED
    BY <2>1, <2>3 DEF OwnSpared
<1>9. ASSUME NEW d \in Devices, d # e,
             \/ \E g \in Sends : Begins(d, g)
             \/ Ends(d) \/ Clears(d) \/ TabDies(d)
             \/ \E r \in Resumes : Asks(d, r)
      PROVE  Goal
  <2>1. tomb' = tomb /\ live'[e] = live[e]
    BY <1>9 DEF Begins, Ends, Clears, TabDies, Asks, TypeOK
  <2>2. CASE TabDies(d)
    BY <1>1, <1>9, <2>1, <2>2, NoneQueued
  <2>3. ASSUME NEW op \in Ops, Enqueue(d, op) PROVE Goal
    BY <1>1, <1>9, <2>1, <2>3, Enqueued
  <2> QED
    BY <1>9, <2>2, <2>3, OpsAre
       DEF Begins, Ends, Clears, Asks, RegisterCall, ClearCall, ClaimCall, Reasons
<1>10. CASE Still
  BY <1>1, <1>10 DEF Still
<1> QED
  BY <1>2, <1>4, <1>5, <1>6, <1>7, <1>8, <1>9, <1>10, Kinds

LEMMA SpecSendsInv == Spec => [](TypeOK /\ SendsInv)
  BY SendsInit, SendsStep, SpecTypeOK, PTL DEF Spec

\* However many tabs have the chat, a tab's claim never takes the tombstone of
\* the send that the tab itself runs.
THEOREM SpecClaimSparesOwnSend == Spec => ClaimSparesOwnSend
<1> DEFINE Spared == \A d \in Devices, r \in Resumes :
                       (resume[d][r].at = "claiming" /\ resume'[d][r].at = "won")
                         => tomb # live[d]
<1>1. ASSUME TypeOK, OwnSpared, [Next]_vars PROVE Spared
  <2> SUFFICES ASSUME NEW d \in Devices, NEW r \in Resumes,
                      resume[d][r].at = "claiming", resume'[d][r].at = "won",
                      tomb = live[d]
               PROVE  FALSE
    OBVIOUS
  <2>1. Claims(d, r) /\ tomb # None
    BY <1>1, ResumeStep DEF ResumeFrom
  <2>2. 1 \in 1..Len(chain[d]) /\ chain[d][1].op = "claim"
    BY <1>1, <2>1, Called DEF Claims
  <2> QED
    BY <2>1, <2>2, <1>1 DEF OwnSpared
<1>2. TypeOK /\ SendsInv /\ OwnSpared /\ [Next]_vars => OwnSpared'
  BY OwnSparedStep
<1>3. TypeOK /\ OwnSpared /\ [Next]_vars => [Spared]_vars
  BY <1>1
<1> QED
  BY <1>2, <1>3, OwnSparedInit, SpecSendsInv, PTL DEF Spec, ClaimSparesOwnSend

---------------------------------------------------------------------------
(* One tombstone starts one send.                                          *)

\* A claim has won the tombstone of g, or started a send with it.
Gone(g) ==
    \/ \E h \in Sends : took[h] = g
    \/ \E d \in Devices, r \in Resumes : Got(d, r) = g

\* A tombstone that is there was not won yet.
TombWaits == tomb # None => ~Gone(tomb)

\* One that is on its way is not there, was not won yet, and comes once.
Queued(d, i, g) ==
    i \in 1..Len(chain[d]) /\ chain[d][i].op = "register" /\ chain[d][i].send = g
QueuedWaits ==
    \A d \in Devices, i \in Nat, g \in Sends : Queued(d, i, g) => tomb # g /\ ~Gone(g)
QueuedOnce ==
    \A d, e \in Devices, i, j \in Nat, g \in Sends :
        Queued(d, i, g) /\ Queued(e, j, g) => d = e /\ i = j

\* One that was won was won once, and has not started a send yet.
GotOnce ==
    \A d, e \in Devices, r, s \in Resumes :
        Got(d, r) # None /\ Got(d, r) = Got(e, s) => d = e /\ r = s
GotWaits ==
    \A d \in Devices, r \in Resumes, h \in Sends :
        Got(d, r) # None => took[h] # Got(d, r)

OnceInv ==
    TombWaits /\ QueuedWaits /\ QueuedOnce /\ GotOnce /\ GotWaits /\ OneReRunPerTombstone

LEMMA OnceInit == Init => OnceInv
  BY SendsNat
     DEF Init, OnceInv, TombWaits, QueuedWaits, QueuedOnce, Queued, GotOnce, GotWaits,
         OneReRunPerTombstone, Got, Gone, Idle

\* What a resume has after a step it had before, or its claim took just now.
LEMMA GotFrom ==
  ASSUME TypeOK, [Next]_vars, NEW d \in Devices, NEW r \in Resumes, Got(d, r)' # None
  PROVE  \/ Got(d, r)' = Got(d, r)
         \/ /\ Claims(d, r) /\ tomb # None /\ Got(d, r)' = tomb
            /\ tomb' = None /\ took' = took
<1>1. ResumeFrom(d, r)
  BY ResumeStep
<1>2. Claims(d, r) => tomb' = None /\ took' = took
  BY Called DEF Claims, Claim, sendVars
<1> QED
  BY <1>1, <1>2 DEF ResumeFrom, Got

\* Only one claim is served in a step.
LEMMA OneClaims ==
  ASSUME TypeOK, NEW d \in Devices, NEW e \in Devices, NEW r \in Resumes, NEW s \in Resumes,
         Claims(d, r), Claims(e, s)
  PROVE  d = e /\ r = s
<1>1. CASE d # e
  <2>1. chain'[e] = chain[e] /\ Len(chain'[e]) = Len(chain[e]) - 1 /\ Len(chain[e]) \in Nat
    BY <1>1, Called DEF Claims
  <2> QED
    BY <2>1
<1> QED
  BY <1>1 DEF Claims

\* What a send was started with it was started with before, or it starts now.
LEMMA TookFrom ==
  ASSUME TypeOK, [Next]_vars
  PROVE  \/ took' = took
         \/ \E d \in Devices, g \in Sends :
              /\ tomb' = tomb
              /\ \A h \in Sends : h # g => took'[h] = took[h]
              /\ \/ took'[g] = None
                 \/ \E r \in Resumes : took'[g] = Got(d, r) /\ Got(d, r)' = None
<1>1. ASSUME NEW d \in Devices, NEW g \in Sends, Begins(d, g)
      PROVE  /\ tomb' = tomb
             /\ \A h \in Sends : h # g => took'[h] = took[h]
             /\ \/ took'[g] = None
                \/ \E r \in Resumes : took'[g] = Got(d, r) /\ Got(d, r)' = None
  <2>1. CASE took' = [took EXCEPT ![g] = None]
    BY <1>1, <2>1 DEF Begins, TypeOK
  <2>2. ASSUME NEW r \in Resumes, took' = [took EXCEPT ![g] = resume[d][r].got],
               resume' = [resume EXCEPT ![d][r] = Idle]
        PROVE  (\A h \in Sends : h # g => took'[h] = took[h])
               /\ took'[g] = Got(d, r) /\ Got(d, r)' = None
    BY <2>2, IdleIs DEF TypeOK, Got
  <2> QED
    BY <1>1, <2>1, <2>2 DEF Begins
<1>2. (\E d \in Devices : Call(d)) => took' = took
  BY DEF Call, sendVars
<1> QED
  BY <1>1, <1>2, Kinds DEF Still, Clears, Asks, Ends, TabDies

LEMMA GoneFrom ==
  ASSUME TypeOK, [Next]_vars, NEW g, g # None, Gone(g)'
  PROVE  Gone(g) \/ (g = tomb /\ tomb' = None /\ \E d \in Devices, r \in Resumes : Claims(d, r))
<1>1. ASSUME NEW h \in Sends, took'[h] = g PROVE Gone(g)
  BY <1>1, TookFrom DEF Gone
<1>2. ASSUME NEW d \in Devices, NEW r \in Resumes, Got(d, r)' = g
      PROVE  Gone(g) \/ (g = tomb /\ tomb' = None /\ Claims(d, r))
  BY <1>2, GotFrom DEF Gone
<1> QED
  BY <1>1, <1>2 DEF Gone

\* A send that did not start yet was won by nobody.
LEMMA FreshWaits ==
  ASSUME Known, NEW g, g \notin Used, g # None
  PROVE  ~Gone(g) /\ tomb # g
  BY DEF Known, Gone

LEMMA GotOnceStep ==
  ASSUME TypeOK, OnceInv, [Next]_vars
  PROVE  GotOnce' /\ GotWaits' /\ OneReRunPerTombstone'
<1>1. GotOnce'
  <2> SUFFICES ASSUME NEW d \in Devices, NEW e \in Devices, NEW r \in Resumes, NEW s \in Resumes,
                      Got(d, r)' # None, Got(d, r)' = Got(e, s)'
               PROVE  d = e /\ r = s
    BY DEF GotOnce
  <2>1. CASE Got(d, r)' = Got(d, r) /\ Got(e, s)' = Got(e, s)
    BY <2>1 DEF OnceInv, GotOnce
  <2>2. CASE Claims(d, r) /\ Claims(e, s)
    BY <2>2, OneClaims
  <2> QED
    BY <2>1, <2>2, GotFrom DEF OnceInv, TombWaits, Gone
<1>2. GotWaits'
  <2> SUFFICES ASSUME NEW d \in Devices, NEW r \in Resumes, NEW h \in Sends,
                      Got(d, r)' # None, took'[h] = Got(d, r)'
               PROVE  FALSE
    BY DEF GotWaits
  <2>1. CASE took' = took
    BY <2>1, GotFrom DEF OnceInv, GotWaits, TombWaits, Gone
  <2>2. CASE took' # took
    <3>1. PICK e \in Devices, g \in Sends :
            /\ tomb' = tomb
            /\ \A k \in Sends : k # g => took'[k] = took[k]
            /\ \/ took'[g] = None
               \/ \E s \in Resumes : took'[g] = Got(e, s) /\ Got(e, s)' = None
      BY <2>2, TookFrom
    <3>2. Got(d, r)' = Got(d, r)
      BY <2>2, GotFrom
    <3>3. h = g
      BY <3>1, <3>2 DEF OnceInv, GotWaits
    <3> QED
      BY <3>1, <3>2, <3>3 DEF OnceInv, GotOnce
  <2> QED
    BY <2>1, <2>2
<1>3. OneReRunPerTombstone'
  <2>1. CASE took' = took
    BY <2>1 DEF OnceInv, OneReRunPerTombstone
  <2>2. ASSUME NEW d \in Devices, NEW g \in Sends,
               \A h \in Sends : h # g => took'[h] = took[h],
               \/ took'[g] = None
               \/ \E r \in Resumes : took'[g] = Got(d, r) /\ Got(d, r)' = None
        PROVE  OneReRunPerTombstone'
    <3>1. \A h \in Sends : h # g /\ took'[g] # None => took[h] # took'[g]
      BY <2>2 DEF OnceInv, GotWaits
    <3> QED
      BY <2>2, <3>1 DEF OnceInv, OneReRunPerTombstone
  <2> QED
    BY <2>1, <2>2, TookFrom
<1> QED
  BY <1>1, <1>2, <1>3

LEMMA QueuedFrom ==
  ASSUME TypeOK, [Next]_vars, NEW e \in Devices
  PROVE  \E k \in {0, 1} : \A i \in Nat, g \in Sends : Queued(e, i, g)' =>
            \/ Queued(e, i + k, g)
            \/ k = 0 /\ i = Len(chain[e]) + 1 /\ Begins(e, g)
<1>1. PICK k \in {0, 1} : \A i \in 1..Len(chain'[e]) : chain'[e][i].op = "register" =>
            \/ i + k \in 1..Len(chain[e]) /\ chain'[e][i] = chain[e][i + k]
            \/ k = 0 /\ i = Len(chain[e]) + 1 /\ Begins(e, chain'[e][i].send)
  BY RegistersFrom
<1>2. ASSUME NEW i \in Nat, NEW g \in Sends, Queued(e, i, g)'
      PROVE  \/ Queued(e, i + k, g)
             \/ k = 0 /\ i = Len(chain[e]) + 1 /\ Begins(e, g)
  <2>1. i \in 1..Len(chain'[e]) /\ chain'[e][i].op = "register" /\ chain'[e][i].send = g
    BY <1>2 DEF Queued
  <2> QED
    BY <1>1, <2>1 DEF Queued
<1> QED
  BY <1>2

LEMMA QueuedStep ==
  ASSUME TypeOK, Known, OnceInv, [Next]_vars
  PROVE  TombWaits' /\ QueuedWaits' /\ QueuedOnce'
<1> USE SendsNat
<1>1. ASSUME NEW d \in Devices, NEW g \in Sends, Begins(d, g)
      PROVE  /\ tomb' # g /\ ~Gone(g)'
             /\ \A e \in Devices, i \in Nat : ~Queued(e, i, g)
  <2>1. g \notin Used /\ tomb' = tomb
    BY <1>1 DEF Begins, Used
  <2>2. ~Gone(g) /\ tomb # g
    BY <2>1, FreshWaits
  <2>3. ~Gone(g)'
    BY <2>2, GoneFrom
  <2> QED
    BY <2>1, <2>2, <2>3 DEF Known, Queued
\* The calls of this step: what it registers, and what stays queued behind.
<1>2. ASSUME NEW d \in Devices, Call(d), tomb' # None
      PROVE  /\ tomb' \in Sends /\ Queued(d, 1, tomb')
             /\ \A g \in Sends : Gone(g)' => Gone(g)
             /\ \A i \in Nat, g \in Sends : Queued(d, i, g)' => Queued(d, i + 1, g)
  <2>1. /\ chain[d][1].op = "register" /\ chain[d][1].send \in Sends
        /\ tomb' = chain[d][1].send
    BY <1>2, Called DEF Claim
  <2>2. 1 \in 1..Len(chain[d])
    BY <1>2, Called
  <2>3. \A g \in Sends : Gone(g)' => Gone(g)
    BY <1>2, GoneFrom
  <2>4. \A i \in Nat, g \in Sends : Queued(d, i, g)' => Queued(d, i + 1, g)
    BY <1>2, Called DEF Queued
  <2> QED
    BY <2>1, <2>2, <2>3, <2>4 DEF Queued
<1>3. tomb' \in {None, tomb} \/ \E d \in Devices : Call(d)
  BY Kinds DEF Still, Begins, Ends, Clears, Asks, TabDies
<1>4. TombWaits'
  <2> SUFFICES ASSUME NEW g \in Sends, tomb' = g, Gone(g)'
               PROVE  FALSE
    <3>1. tomb' \in Sends \cup {None}
      BY <1>2, <1>3 DEF TypeOK
    <3> QED
      BY <3>1 DEF TombWaits, Gone
  <2>1. CASE tomb' \in {None, tomb}
    BY <2>1, GoneFrom DEF OnceInv, TombWaits
  <2>2. ASSUME NEW d \in Devices, Call(d) PROVE FALSE
    BY <1>2, <2>2 DEF OnceInv, QueuedWaits
  <2> QED
    BY <1>3, <2>1, <2>2
<1>5. QueuedWaits'
  <2> SUFFICES ASSUME NEW e \in Devices, NEW i \in Nat, NEW g \in Sends, Queued(e, i, g)'
               PROVE  tomb' # g /\ ~Gone(g)'
    BY DEF QueuedWaits
  <2>1. CASE Begins(e, g)
    BY <1>1, <2>1
  <2>2. ASSUME NEW j \in Nat, Queued(e, j, g) PROVE tomb' # g /\ ~Gone(g)'
    <3>1. tomb # g /\ ~Gone(g)
      BY <2>2 DEF OnceInv, QueuedWaits
    <3>2. ~Gone(g)'
      BY <3>1, GoneFrom
    <3>3. CASE tomb' \in {None, tomb}
      BY <3>1, <3>2, <3>3
    <3>4. ASSUME NEW d \in Devices, Call(d), tomb' = g PROVE FALSE
      <4>1. Queued(d, 1, g) /\ \A k \in Nat : Queued(d, k, g)' => Queued(d, k + 1, g)
        BY <1>2, <3>4
      <4>2. d = e
        BY <2>2, <4>1 DEF OnceInv, QueuedOnce
      <4>3. Queued(d, i + 1, g)
        BY <4>1, <4>2
      <4>4. i + 1 = 1 /\ i \in 1..Len(chain'[e])
        BY <4>1, <4>3 DEF OnceInv, QueuedOnce, Queued
      <4> QED
        BY <4>4
    <3> QED
      BY <1>3, <3>2, <3>3, <3>4
  <2> QED
    BY <2>1, <2>2, QueuedFrom
<1>6. QueuedOnce'
  <2> SUFFICES ASSUME NEW d \in Devices, NEW e \in Devices, NEW i \in Nat, NEW j \in Nat,
                      NEW g \in Sends, Queued(d, i, g)', Queued(e, j, g)'
               PROVE  d = e /\ i = j
    BY DEF QueuedOnce
  <2>1. PICK k \in {0, 1} : \A m \in Nat, h \in Sends : Queued(d, m, h)' =>
            \/ Queued(d, m + k, h)
            \/ k = 0 /\ m = Len(chain[d]) + 1 /\ Begins(d, h)
    BY QueuedFrom
  <2>2. PICK l \in {0, 1} : \A m \in Nat, h \in Sends : Queued(e, m, h)' =>
            \/ Queued(e, m + l, h)
            \/ l = 0 /\ m = Len(chain[e]) + 1 /\ Begins(e, h)
    BY QueuedFrom
  <2>3. ASSUME NEW f \in Devices, Begins(f, g) PROVE d = e /\ i = j
    <3>1. \A c \in Devices, m \in Nat : ~Queued(c, m, g)
      BY <1>1, <2>3
    <3>2. i + k \in Nat /\ j + l \in Nat
      OBVIOUS
    <3>3. /\ Begins(d, g) /\ i = Len(chain[d]) + 1
          /\ Begins(e, g) /\ j = Len(chain[e]) + 1
      BY <2>1, <2>2, <3>1, <3>2
    <3>4. d = e
      BY <3>3 DEF Begins, TypeOK
    <3> QED
      BY <3>3, <3>4
  <2>4. ASSUME Queued(d, i + k, g), Queued(e, j + l, g) PROVE d = e /\ i = j
    <3>1. d = e
      BY <2>4 DEF OnceInv, QueuedOnce
    <3>2. Queued(d, j + k, g) \/ Begins(d, g)
      BY <2>1, <3>1
    <3>3. CASE Queued(d, j + k, g)
      <4>1. i + k = j + k
        BY <2>4, <3>3 DEF OnceInv, QueuedOnce
      <4> QED
        BY <3>1, <4>1
    <3> QED
      BY <2>3, <3>2, <3>3
  <2> QED
    BY <2>1, <2>2, <2>3, <2>4
<1> QED
  BY <1>4, <1>5, <1>6

LEMMA OnceStep ==
  ASSUME TypeOK, Known, OnceInv, [Next]_vars
  PROVE  OnceInv'
  BY GotOnceStep, QueuedStep DEF OnceInv

\* No two sends were ever started on the strength of one tombstone, however many
\* tabs and machines have the chat open (model-jobs.cjs:401-407).
THEOREM SpecOneReRunPerTombstone == Spec => []OneReRunPerTombstone
<1>1. Init => OnceInv
  BY OnceInit
<1>2. TypeOK /\ SendsInv /\ OnceInv /\ [Next]_vars => OnceInv'
  BY OnceStep DEF SendsInv
<1>3. OnceInv => OneReRunPerTombstone
  BY DEF OnceInv
<1> QED
  BY <1>1, <1>2, <1>3, SpecSendsInv, PTL DEF Spec

=============================================================================
