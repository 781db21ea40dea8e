---------------------------- MODULE PendingSends ----------------------------
(***************************************************************************)
(* Resumable sends of one chat.  A send leaves a tombstone on the server   *)
(* when it starts and removes it when it concludes; a tab that dies in     *)
(* between leaves it behind, and the next discovery flags the chat so that *)
(* the send is run again (src/src/ts/process/request/pendingSends.ts,      *)
(* jobRecovery.ts, DefaultChatScreen.svelte, server/node/model-jobs.cjs).  *)
(* The server keys tombstones by chat, so chats do not interact and one    *)
(* chat is modelled, open on several devices.  The send guard of a job that *)
(* runs in the background (JobRecovery) only forbids some of these sends    *)
(* and is left out.                                                         *)
(***************************************************************************)
EXTENDS Naturals, FiniteSets, Sequences

CONSTANTS
    Devices,      \* tabs, on one machine or several
    Resumes,      \* resumeInterruptedSend calls that may overlap in a tab
    None,
    MaxSends,     \* model bound: sends over the whole behaviour
    MaxQueue,     \* model bound: operations waiting in one tab's chain
    MaxJobs,      \* model bound: main requests that are fired
    MaxFaults,    \* model bound: reloads, killed tabs and forced releases
    CanNavigate   \* whether the user may select another chat

ASSUME PendingSendsAssumption ==
    /\ MaxSends \in Nat
    /\ MaxQueue \in Nat
    /\ MaxJobs \in Nat
    /\ MaxFaults \in Nat
    /\ CanNavigate \in BOOLEAN
    /\ None \notin Nat

Sends == 1..MaxSends

VARIABLES
    tomb,       \* the pending_sends row of the chat: a send, or None
    aged,       \* sends that started longer ago than PENDING_SEND_MIN_AGE_MS
    fate,       \* what became of each send
    job,        \* the main model job of each send
    rerunOf,    \* the send a send was started to run again
    took,       \* the tombstone whose claim started it
    saved,      \* the chat as the server has it
    copy,       \* the chat as a tab has it
    live,       \* the send a tab runs: its generationStates entry
    stuck,      \* a stopped send whose entry was dropped before it ended
    open,       \* whether the chat is the selected one
    chain,      \* opChains: register, clear and claim calls in call order
    flag,       \* resumableSends: the interrupted send, or None
    listed,     \* how far a discovery is: the jobs it saw, the record it listed
    faults,     \* how many tabs died and sends were forced to release
    resume      \* where each resumeInterruptedSend call stands

sendVars == <<aged, fate, job, rerunOf, took>>
chatVars == <<saved, copy>>
vars == <<tomb, aged, fate, job, rerunOf, took, saved, copy, live, stuck, open, chain,
          flag, listed, faults, resume>>

Chats == [last : {"user", "char"}, replies : SUBSET Sends]
\* Why a tombstone is cleared: its send is over, an older send of the tab woke
\* up late, or discovery saw a job of the chat.
Reasons == {"over", "late", "jobs"}
Ops == [op : {"register"}, send : Sends] \cup [op : {"clear"}, why : Reasons] \cup [op : {"claim"}, by : Resumes]
Phases == {"idle", "taken", "claiming", "won"}
Calls == [at : Phases, for : Sends \cup {None}, got : Sends \cup {None}]

TypeOK ==
    /\ tomb \in Sends \cup {None}
    /\ aged \subseteq Sends
    /\ fate \in [Sends -> {"unused", "running", "interrupted", "concluded"}]
    /\ job \in [Sends -> {"none", "running", "unclaimed", "over"}]
    /\ rerunOf \in [Sends -> Sends \cup {None}]
    /\ took \in [Sends -> Sends \cup {None}]
    /\ saved \in Chats
    /\ copy \in [Devices -> Chats]
    /\ live \in [Devices -> Sends \cup {None}]
    /\ stuck \in [Devices -> Sends \cup {None}]
    /\ open \in [Devices -> BOOLEAN]
    /\ chain \in [Devices -> Seq(Ops)]
    /\ flag \in [Devices -> Sends \cup {None}]
    /\ listed \in [Devices -> {None} \cup [send : Sends \cup {None}, jobs : BOOLEAN]]
    /\ faults \in 0..MaxFaults
    /\ resume \in [Devices -> [Resumes -> Calls]]

Idle == [at |-> "idle", for |-> None, got |-> None]

Init ==
    /\ tomb = None
    /\ aged = {}
    /\ fate = [g \in Sends |-> "unused"]
    /\ job = [g \in Sends |-> "none"]
    /\ rerunOf = [g \in Sends |-> None]
    /\ took = [g \in Sends |-> None]
    /\ saved = [last |-> "char", replies |-> {}]
    /\ copy = [d \in Devices |-> saved]
    /\ live = [d \in Devices |-> None]
    /\ stuck = [d \in Devices |-> None]
    /\ open = [d \in Devices |-> TRUE]
    /\ chain = [d \in Devices |-> <<>>]
    /\ flag = [d \in Devices |-> None]
    /\ listed = [d \in Devices |-> None]
    /\ faults = 0
    /\ resume = [d \in Devices |-> [r \in Resumes |-> Idle]]

---------------------------------------------------------------------------
(* The server, and the network between: a tab's calls for the chat reach   *)
(* it one after the other.                                                 *)

Enqueue(d, op) ==
    /\ Len(chain[d]) < MaxQueue
    /\ chain' = [chain EXCEPT ![d] = Append(@, op)]

Register(g) == tomb' = g
Clear == tomb' = None

\* Mutated Claim: not used by the specification.
ReadingClaim(d, r) ==
    /\ tomb' = tomb
    /\ resume' = [resume EXCEPT ![d][r] =
                    IF tomb # None THEN [@ EXCEPT !.at = "won", !.got = tomb] ELSE Idle]

\* Delete and report in one statement.
Claim(d, r) ==
    /\ tomb' = None
    /\ resume' = [resume EXCEPT ![d][r] =
                    IF tomb # None THEN [@ EXCEPT !.at = "won", !.got = tomb] ELSE Idle]

\* Mutated Call: not used by the specification.
UnchainedCall(d) ==
    \E i \in 1..Len(chain[d]) :
        /\ LET op == chain[d][i] IN
                \/ op.op = "register" /\ Register(op.send) /\ UNCHANGED resume
                \/ op.op = "clear" /\ Clear /\ UNCHANGED resume
                \/ op.op = "claim" /\ Claim(d, op.by)
        /\ chain' = [chain EXCEPT ![d] =
                        SubSeq(@, 1, i - 1) \o SubSeq(@, i + 1, Len(@))]
        /\ UNCHANGED <<sendVars, chatVars, live, open, flag, listed, stuck, faults>>

Call(d) ==
    /\ chain[d] # <<>>
    /\ LET op == Head(chain[d]) IN
            \/ op.op = "register" /\ Register(op.send) /\ UNCHANGED resume
            \/ op.op = "clear" /\ Clear /\ UNCHANGED resume
            \/ op.op = "claim" /\ Claim(d, op.by)
    /\ chain' = [chain EXCEPT ![d] = Tail(@)]
    /\ UNCHANGED <<sendVars, chatVars, live, open, flag, listed, stuck, faults>>

\* A pipeline has fired its main request or died by the minimum age
\* (jobRecovery.ts:669-673).
Age(g) ==
    /\ g \notin aged
    /\ fate[g] # "unused"
    /\ fate[g] = "running" => job[g] # "none"
    /\ aged' = aged \cup {g}
    /\ UNCHANGED <<tomb, fate, job, rerunOf, took, chatVars, live, open, chain, flag, listed, stuck, faults, resume>>

---------------------------------------------------------------------------
(* A send in a tab.                                                        *)

\* sendChat: the chat must not be generating; the tombstone's call is queued
\* before the pipeline starts.
StartSend(d, old, got) ==
    /\ live[d] = None
    /\ \E g \in Sends :
        /\ fate[g] = "unused"
        /\ \A h \in Sends : h < g => fate[h] # "unused"
        /\ fate' = [fate EXCEPT ![g] = "running"]
        /\ rerunOf' = [rerunOf EXCEPT ![g] = old]
        /\ took' = [took EXCEPT ![g] = got]
        /\ live' = [live EXCEPT ![d] = g]
        /\ Enqueue(d, [op |-> "register", send |-> g])
    /\ UNCHANGED <<aged, job>>

UserSends(d) ==
    /\ open[d]
    /\ StartSend(d, None, None)
    /\ copy' = [copy EXCEPT ![d].last = "user"]
    /\ UNCHANGED <<tomb, saved, open, flag, listed, stuck, faults, resume>>

\* Save loop: the whole chat as the tab has it.
Save(d) ==
    /\ saved # copy[d]
    /\ saved' = copy[d]
    /\ UNCHANGED <<tomb, sendVars, copy, live, open, chain, flag, listed, stuck, faults, resume>>

ChatBusy == \E g \in Sends : job[g] = "running"

\* The main request, unless the server answers 409.
FireJob(d) ==
    LET g == live[d] IN
    /\ g # None
    /\ job[g] = "none" /\ ~ChatBusy
    /\ Cardinality({h \in Sends : job[h] # "none"}) < MaxJobs
    /\ job' = [job EXCEPT ![g] = "running"]
    /\ UNCHANGED <<tomb, aged, fate, rerunOf, took, chatVars, live, open, chain, flag, listed, stuck, faults, resume>>

JobEnds(g) ==
    /\ job[g] = "running"
    /\ job' = [job EXCEPT ![g] = "unclaimed"]
    /\ UNCHANGED <<tomb, aged, fate, rerunOf, took, chatVars, live, open, chain, flag, listed, stuck, faults, resume>>

\* clearPendingSend drops the flag at once and queues the call.
Conclude(d) ==
    /\ live[d] # None
    /\ live' = [live EXCEPT ![d] = None]
    /\ fate' = [fate EXCEPT ![live[d]] = "concluded"]
    /\ flag' = [flag EXCEPT ![d] = None]
    /\ Enqueue(d, [op |-> "clear", why |-> "over"])
    /\ UNCHANGED <<tomb, aged, rerunOf, took, saved, open, listed, stuck, faults, resume>>

\* A message of the send g: a new one at the end, or the one there is, filled in
\* place.
Replied(chat, g) ==
    IF g \in chat.replies THEN chat
    ELSE [last |-> "char", replies |-> chat.replies \cup {g}]

\* The job of g is claimed or aborted, unless that call is lost or never made.
LetGo(g) == \E to \in {job[g], "over"} :
    job' = [job EXCEPT ![g] = IF @ = "none" THEN @ ELSE to]

\* The streaming path has its message in the chat before the first byte.
Push(d) ==
    /\ live[d] # None /\ live[d] \notin copy[d].replies
    /\ copy' = [copy EXCEPT ![d] = Replied(@, live[d])]
    /\ UNCHANGED <<tomb, sendVars, saved, live, open, chain, flag, listed, stuck, faults, resume>>

\* The job is done, another tab has collected it, or the server made none and
\* the provider was asked directly.
Reply(d) ==
    /\ live[d] # None /\ job[live[d]] # "running"
    /\ copy' = [copy EXCEPT ![d] = Replied(@, live[d])]
    /\ LetGo(live[d])
    /\ Conclude(d)

\* An error, shown in the chat or as an alert, or a stop.  When only the
\* connection was lost the job goes on.
Fail(d) ==
    /\ live[d] # None
    /\ copy' = copy \/ copy' = [copy EXCEPT ![d].last = "char"]
    /\ LetGo(live[d])
    /\ Conclude(d)

\* Stop was pressed and the pipeline did not end within STOP_GRACE_MS: the entry
\* is dropped so that the chat can be used again.
ForceRelease(d) ==
    /\ faults < MaxFaults
    /\ faults' = faults + 1
    /\ stuck[d] = None
    /\ live[d] # None
    /\ stuck' = [stuck EXCEPT ![d] = live[d]]
    /\ live' = [live EXCEPT ![d] = None]
    /\ fate' = [fate EXCEPT ![live[d]] = "concluded"]
    /\ LetGo(live[d])
    /\ flag' = [flag EXCEPT ![d] = None]
    /\ Enqueue(d, [op |-> "clear", why |-> "over"])
    /\ UNCHANGED <<tomb, aged, rerunOf, took, chatVars, open, listed, resume>>

\* The stuck pipeline sees its aborted signal, clears the chat's tombstone and
\* returns; the entry of a newer send is not its own and stays.
StuckWakes(d) ==
    /\ stuck[d] # None
    /\ stuck' = [stuck EXCEPT ![d] = None]
    /\ flag' = [flag EXCEPT ![d] = None]
    /\ Enqueue(d, [op |-> "clear", why |-> "late"])
    /\ UNCHANGED <<tomb, sendVars, chatVars, live, open, listed, faults, resume>>

---------------------------------------------------------------------------
(* A dead send: its job may be recovered, or the send run again.           *)

\* A reload, or a tab the system killed, that comes back with the server's copy
\* of the chat.
TabDies(d) ==
    /\ faults < MaxFaults
    /\ faults' = faults + 1
    /\ live' = [live EXCEPT ![d] = None]
    /\ fate' = [g \in Sends |-> IF g = live[d] THEN "interrupted" ELSE fate[g]]
    /\ chain' = [chain EXCEPT ![d] = <<>>]
    /\ flag' = [flag EXCEPT ![d] = None]
    /\ listed' = [listed EXCEPT ![d] = None]
    /\ resume' = [resume EXCEPT ![d] = [r \in Resumes |-> Idle]]
    /\ copy' = [copy EXCEPT ![d] = saved]
    /\ stuck' = [stuck EXCEPT ![d] = None]
    /\ UNCHANGED <<tomb, aged, job, rerunOf, took, saved, open>>

\* Job recovery puts a finished job's answer or error into the chat, or shows the
\* error as an alert; it claims the job when the chat was saved.
RecoverJob(d, g) ==
    /\ live[d] = None
    /\ job[g] = "unclaimed"
    /\ copy' = copy \/ copy' = [copy EXCEPT ![d] = Replied(@, g)]
    /\ \/ saved' = copy'[d] /\ LetGo(g)
       \/ copy' = copy /\ g \notin copy[d].replies /\ UNCHANGED saved /\ LetGo(g)
       \/ UNCHANGED <<saved, job>>
    /\ UNCHANGED <<tomb, aged, fate, rerunOf, took, live, open, chain, flag, listed, stuck, faults, resume>>

\* Discovery asks for the unclaimed jobs, for the running ones in a second
\* request, and then for the pending sends.
ListUnclaimed(d) ==
    /\ listed[d] = None
    /\ listed' = [listed EXCEPT ![d] =
            [send |-> None, jobs |-> \E g \in Sends : job[g] = "unclaimed"]]
    /\ UNCHANGED <<tomb, sendVars, chatVars, live, open, chain, flag, stuck, faults, resume>>

ListPendingSends(d) ==
    /\ listed[d] # None /\ listed[d].send = None
    /\ listed' = [listed EXCEPT ![d] =
            IF tomb = None THEN None
            ELSE [send |-> tomb, jobs |-> listed[d].jobs \/ ChatBusy]]
    /\ UNCHANGED <<tomb, sendVars, chatVars, live, open, chain, flag, stuck, faults, resume>>

Deferred(d, g) == live[d] # None \/ g \notin aged

\* Mutated Concluded: not used by the specification.
AnyReplyConcluded(d) == copy[d].replies # {} \/ copy[d].last # "user"

Concluded(d) == listed[d].send \in copy[d].replies \/ copy[d].last # "user"

EvaluatePendingSend(d) ==
    /\ listed[d] # None /\ listed[d].send # None
    /\ listed' = [listed EXCEPT ![d] = None]
    /\ \/ Deferred(d, listed[d].send) /\ UNCHANGED <<chain, flag>>
       \/ ~Deferred(d, listed[d].send) /\ (Concluded(d) \/ listed[d].jobs)
            /\ Enqueue(d, [op |-> "clear",
                           why |-> IF Concluded(d) THEN "over" ELSE "jobs"])
            /\ flag' = [flag EXCEPT ![d] = None]
       \/ ~Deferred(d, listed[d].send) /\ ~Concluded(d) /\ ~listed[d].jobs
            /\ flag' = [flag EXCEPT ![d] = listed[d].send]
            /\ UNCHANGED chain
    /\ UNCHANGED <<tomb, sendVars, chatVars, live, open, stuck, faults, resume>>

\* The screen's effect takes the flag; the rest runs a macrotask later.
TakeResumable(d, r) ==
    /\ open[d] /\ flag[d] # None /\ live[d] = None
    /\ resume[d][r].at = "idle"
    /\ resume' = [resume EXCEPT ![d][r] = [at |-> "taken", for |-> flag[d], got |-> None]]
    /\ flag' = [flag EXCEPT ![d] = None]
    /\ UNCHANGED <<tomb, sendVars, chatVars, live, open, chain, listed, stuck, faults>>

\* Mutated Runnable: not used by the specification.
UnguardedRunnable(d) == open[d]

Runnable(d) == open[d] /\ live[d] = None

Revalidate(d, r) ==
    /\ resume[d][r].at = "taken"
    /\ \/ /\ ~Runnable(d)
          /\ flag' = [flag EXCEPT ![d] = resume[d][r].for]
          /\ resume' = [resume EXCEPT ![d][r] = Idle]
          /\ UNCHANGED chain
       \/ /\ Runnable(d) /\ copy[d].last # "user"
          /\ resume' = [resume EXCEPT ![d][r] = Idle]
          /\ UNCHANGED <<chain, flag>>
       \/ /\ Runnable(d) /\ copy[d].last = "user"
          /\ Enqueue(d, [op |-> "claim", by |-> r])
          /\ resume' = [resume EXCEPT ![d][r].at = "claiming"]
          /\ UNCHANGED flag
    /\ UNCHANGED <<tomb, sendVars, chatVars, live, open, listed, stuck, faults>>

ResumeSend(d, r) ==
    /\ resume[d][r].at = "won"
    /\ resume' = [resume EXCEPT ![d][r] = Idle]
    /\ \/ ~Runnable(d) /\ UNCHANGED <<sendVars, live, chain>>
       \/ Runnable(d) /\ StartSend(d, resume[d][r].for, resume[d][r].got)
    /\ UNCHANGED <<tomb, chatVars, open, flag, listed, stuck, faults>>

Navigate(d) ==
    /\ CanNavigate
    /\ open' = [open EXCEPT ![d] = ~@]
    /\ UNCHANGED <<tomb, sendVars, chatVars, live, chain, flag, listed, stuck, faults, resume>>

---------------------------------------------------------------------------

SendStep(d) ==
    \/ UserSends(d) \/ Save(d) \/ FireJob(d)
    \/ Push(d) \/ Reply(d) \/ Fail(d) \/ ForceRelease(d) \/ StuckWakes(d)
    \/ TabDies(d) \/ Navigate(d)

DiscoveryStep(d) ==
    \/ ListUnclaimed(d) \/ ListPendingSends(d) \/ EvaluatePendingSend(d)
    \/ \E r \in Resumes :
        TakeResumable(d, r) \/ Revalidate(d, r) \/ ResumeSend(d, r)
    \/ \E g \in Sends : RecoverJob(d, g)

Next ==
    \/ \E d \in Devices : DiscoveryStep(d) \/ SendStep(d) \/ Call(d)
    \/ \E g \in Sends : Age(g) \/ JobEnds(g)

Spec == Init /\ [][Next]_vars

---------------------------------------------------------------------------

\* A send that concluded in a living tab does not get its tombstone back: while
\* the row still names it, the call that removes it is queued behind
\* (pendingSends.ts:30-44).  Otherwise the next boot sends once more by itself.
NoResurrection ==
    \A d \in Devices, i \in 1..MaxQueue :
        (i <= Len(chain[d]) /\ chain[d][i].op = "register" /\ live[d] # chain[d][i].send)
            => \E k \in (i + 1)..Len(chain[d]) : chain[d][k].op = "clear"

\* What the claim's single statement gives, however many tabs and machines there
\* are: no two sends were started on the strength of one tombstone
\* (model-jobs.cjs:401-407).
OneReRunPerTombstone ==
    \A g, h \in Sends : (g # h /\ took[g] # None) => took[g] # took[h]

\* pendingSends.ts:76-77: "At most one device/tab can win, so an interrupted
\* send is re-run at most once even with several clients around".
ReRunAtMostOnce ==
    \A g, h \in Sends : (g # h /\ rerunOf[g] # None) => rerunOf[g] # rerunOf[h]

\* A tab's claim never takes away the tombstone of the send that the tab itself
\* is running (DefaultChatScreen.svelte:646-651).
ClaimSparesOwnSend ==
    [][\A d \in Devices, r \in Resumes :
        (resume[d][r].at = "claiming" /\ resume'[d][r].at = "won")
            => tomb # live[d]]_vars

\* The latest send, once its tombstone has arrived, is not forgotten before it
\* concludes or has a main job, while the chat ends with the user's turn: if its
\* tab dies now, the next discovery will find the tombstone, or a resume has
\* taken it (pendingSends.ts:5-9).  Left out are two clears that are keyed by
\* chat and take the tombstone of a newer send than theirs: that of a send that
\* outlived its forced release (index.svelte.ts:1625), and that of a discovery
\* that saw the job of an earlier send (jobRecovery.ts:715).
Forgettable(g) ==
    \/ fate[g] \notin {"running", "interrupted"} \/ job[g] # "none"
    \/ \E h \in Sends : h > g /\ fate[h] # "unused"
    \/ saved.last # "user"

Forgets(d) ==
    /\ chain'[d] # chain[d]
    /\ copy[d].last = "user"
    /\ \A r \in Resumes : resume'[d][r].at = "won" => resume[d][r].at = "won"
    /\ \A why \in {"late", "jobs"} : Head(chain[d]) # [op |-> "clear", why |-> why]

UnansweredIsRemembered ==
    [][\A g \in Sends : (tomb = g /\ tomb' # g /\ ~Forgettable(g))
        => \A d \in Devices : ~Forgets(d)]_vars

=============================================================================
