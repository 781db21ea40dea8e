---------------------------- MODULE JobRecovery ----------------------------
(***************************************************************************)
(* How a tab collects the answers of its model jobs: the live send that    *)
(* streams one, the discovery pass that slots finished jobs into the chat, *)
(* and the poll loops that wait for running ones                           *)
(* (src/src/ts/process/request/jobRecovery.ts, jobFetch.ts,                *)
(* process/generationState.ts).  One tab and one chat: the server runs one *)
(* main job per chat, and generations of other chats share nothing.        *)
(* A job stands for its generation as well; user turns are left out.       *)
(***************************************************************************)
EXTENDS Naturals, FiniteSets, Sequences

CONSTANTS
    MaxJobs,      \* model bound: generations over the whole behaviour
    MaxDeaths     \* model bound: reloads and killed tabs

ASSUME JobRecoveryAssumption == MaxJobs \in Nat /\ MaxDeaths \in Nat

Jobs == 1..MaxJobs
Discovery == 0
Workers == {Discovery} \cup Jobs    \* the discovery pass, and one poll loop per job

\* How much of an answer a message holds: a push before the first byte, a part
\* (or the error shown instead), the whole journal.
Texts == 0..2
Partial == 1
Whole == 2

VARIABLES
    status,     \* model_jobs rows, see Ended
    claimed,    \* jobs that are marked as collected
    chat,       \* the messages of the chat in the tab, by generation
    saved,      \* the messages the server has
    entry,      \* generationStates: who owns the chat
    live,       \* the send pipeline of this tab
    poller,     \* jobs with a poll loop: attachedJobs
    scan,       \* the discovery in flight
    rec,        \* the recoverTerminalJob call of each worker
    deaths,
    home        \* the chat in the character's list of chats: listed, deleted by
                \* this tab, or gone from the server's list as well

serverVars == <<status, claimed>>
tabVars == <<chat, saved, entry, live>>
vars == <<status, claimed, chat, saved, entry, live, poller, scan, rec, deaths, home>>

\* Terminal states; refused is "done" with an upstream error for an answer.
Ended == {"done", "refused", "failed"}
Running == {"running", "answering"}

Messages == [gen : Jobs, text : Texts]
NoEntry == [kind |-> "none", gen |-> 0]
NoSend == [at |-> "none", gen |-> 0]
NoScan == [at |-> "none", todo |-> <<>>, active |-> {}]
Idle == [at |-> "idle", job |-> 0, idx |-> 0]

TypeOK ==
    /\ status \in [Jobs -> {"none", "running", "answering", "gone"} \cup Ended]
    /\ claimed \subseteq Jobs
    /\ chat \in Seq(Messages) /\ saved \in Seq(Messages)
    /\ entry \in [kind : {"none", "live", "background"}, gen : Workers]
    /\ live \in [at : {"none", "waiting", "streaming"}, gen : Workers]
    /\ poller \subseteq Jobs
    /\ scan \in [at : {"none", "both", "unclaimed", "active", "jobs"},
                todo : Seq(Jobs), active : SUBSET Jobs]
    /\ rec \in [Workers -> [at : {"idle", "read", "save", "claim"},
                            job : Workers, idx : 0..Len(chat)]]
    /\ deaths \in 0..MaxDeaths
    /\ home \in {"listed", "deleted", "gone"}

Init ==
    /\ status = [j \in Jobs |-> "none"]
    /\ claimed = {}
    /\ chat = <<>> /\ saved = <<>>
    /\ entry = NoEntry /\ live = NoSend
    /\ poller = {}
    /\ scan = NoScan
    /\ rec = [w \in Workers |-> Idle]
    /\ deaths = 0
    /\ home = "listed"

---------------------------------------------------------------------------
(* Messages.                                                               *)

\* The first message of a generation, 0 when there is none.
IndexOf(j) ==
    IF \E i \in 1..Len(chat) : chat[i].gen = j
    THEN CHOOSE i \in 1..Len(chat) :
            chat[i].gen = j /\ \A k \in 1..(i - 1) : chat[k].gen # j
    ELSE 0

\* A message is never overwritten by a text that is not longer.
SlotIn(j, idx) ==
    IF idx = 0 THEN Append(chat, [gen |-> j, text |-> Whole])
    ELSE IF chat[idx].text < Whole THEN [chat EXCEPT ![idx].text = Whole] ELSE chat

\* Mutated ShowError: not used by the specification.
AlwaysShowError(j, idx) == Append(chat, [gen |-> j, text |-> Partial])

ShowError(j, idx) ==
    IF idx = 0 THEN Append(chat, [gen |-> j, text |-> Partial]) ELSE chat

SetText(j, text) == [chat EXCEPT ![IndexOf(j)].text = text]

---------------------------------------------------------------------------
(* The server.                                                             *)

Busy == \E j \in Jobs : status[j] \in Running

\* The upstream's headers arrive, or its answer ends, or the request fails.
Upstream(j) ==
    /\ \/ status[j] = "running"
            /\ \E s \in {"answering", "refused", "failed"} : status' = [status EXCEPT ![j] = s]
       \/ status[j] = "answering"
            /\ \E s \in {"done", "failed"} : status' = [status EXCEPT ![j] = s]
    /\ UNCHANGED <<claimed, tabVars, poller, scan, rec, deaths, home>>

\* A running job is aborted, a finished one is deleted with its journal.
Delete(j) == status' = [status EXCEPT ![j] = "gone"]

\* A claim is sent and forgotten, and may not arrive.
TryClaim(j) == claimed' = claimed \/ claimed' = claimed \cup {j}

---------------------------------------------------------------------------
(* The chat itself, which the user may delete at any time.                 *)

Here == home = "listed"

DeleteChat ==
    /\ Here
    /\ home' = "deleted"
    /\ UNCHANGED <<serverVars, tabVars, poller, scan, rec, deaths>>

---------------------------------------------------------------------------
(* The live send.                                                          *)

\* The chat must not be generating, nor have a running job on the server.
StartSend(j) ==
    /\ Here /\ entry = NoEntry /\ live = NoSend
    /\ status[j] = "none" /\ \A i \in Jobs : i < j => status[i] # "none"
    /\ ~Busy
    /\ status' = [status EXCEPT ![j] = "running"]
    /\ entry' = [kind |-> "live", gen |-> j]
    /\ live' = [at |-> "waiting", gen |-> j]
    /\ UNCHANGED <<claimed, chat, saved, poller, scan, rec, deaths, home>>

\* The message is pushed before the first byte.
Push ==
    /\ Here /\ live.at = "waiting" /\ status[live.gen] \in {"answering", "done"}
    /\ chat' = Append(chat, [gen |-> live.gen, text |-> 0])
    /\ live' = [live EXCEPT !.at = "streaming"]
    /\ UNCHANGED <<serverVars, saved, entry, poller, scan, rec, deaths, home>>

Chunk ==
    /\ Here /\ live.at = "streaming" /\ status[live.gen] \in {"answering", "done"}
    /\ chat[IndexOf(live.gen)].text = 0
    /\ chat' = SetText(live.gen, Partial)
    /\ UNCHANGED <<serverVars, saved, entry, live, poller, scan, rec, deaths, home>>

EndSend ==
    /\ live' = NoSend
    /\ entry' = IF entry.gen = live.gen THEN NoEntry ELSE entry
    /\ UNCHANGED <<saved, poller, scan, rec, deaths, home>>

\* The stream ended and the record says done: claimed at once, while the text
\* reaches the chat and its save only afterwards.
Collect ==
    /\ Here /\ live.at = "streaming" /\ status[live.gen] = "done"
    /\ chat' = SetText(live.gen, Whole)
    /\ TryClaim(live.gen)
    /\ UNCHANGED status
    /\ EndSend

\* The send writes by the chat's index: once its chat is deleted, into the chat
\* that took the place. It claims the job all the same.
Stray ==
    /\ ~Here /\ live.at # "none" /\ status[live.gen] = "done"
    /\ TryClaim(live.gen)
    /\ UNCHANGED <<status, chat>>
    /\ EndSend

\* An upstream error, or a job that failed or is gone, is shown live and claimed.
FailSend ==
    /\ live.at # "none" /\ status[live.gen] \in {"refused", "failed", "gone"}
    /\ \/ chat' = chat
       \/ Here /\ live.at = "waiting" /\ chat' = ShowError(live.gen, 0)
    /\ IF status[live.gen] = "gone" THEN UNCHANGED claimed ELSE TryClaim(live.gen)
    /\ UNCHANGED status
    /\ EndSend

\* Reattaching was given up: recovery owns the job from here on.
LoseStream ==
    /\ live.at # "none"
    /\ \/ chat' = chat
       \/ Here /\ live.at = "waiting" /\ chat' = ShowError(live.gen, 0)
    /\ UNCHANGED serverVars
    /\ EndSend

\* The DELETE is sent and forgotten.
StopSend ==
    /\ live.at # "none"
    /\ UNCHANGED status \/ Delete(live.gen)
    /\ UNCHANGED <<claimed, chat>>
    /\ EndSend

\* Save loop, when the chat is the one on the screen.
AutoSave ==
    /\ Here /\ saved # chat
    /\ saved' = chat
    /\ UNCHANGED <<serverVars, chat, entry, live, poller, scan, rec, deaths, home>>

\* The save loop may or may not have written a deletion by then.
Die ==
    /\ deaths < MaxDeaths
    /\ deaths' = deaths + 1
    /\ chat' = saved
    /\ entry' = NoEntry /\ live' = NoSend
    /\ poller' = {}
    /\ scan' = NoScan
    /\ rec' = [w \in Workers |-> Idle]
    /\ IF home = "deleted" THEN home' \in {"listed", "gone"} ELSE UNCHANGED home
    /\ UNCHANGED <<serverVars, saved>>

---------------------------------------------------------------------------
(* Recovery of one finished job, by the discovery pass or by a poll loop.  *)

\* Mutated Release: not used by the specification.
ReleaseAny(j) == NoEntry

\* finish: a poll loop ends with its recovery, and releases the chat only if
\* the entry is still its own.
Release(j) == IF entry.gen = j THEN NoEntry ELSE entry

\* Mutated Leave: not used by the specification.
LeaveGuarded(w) ==
    /\ rec' = [rec EXCEPT ![w] = Idle]
    /\ IF w = Discovery THEN UNCHANGED <<entry, poller>>
       ELSE /\ entry' = IF status[w] \in Ended THEN Release(w) ELSE entry
            /\ poller' = poller \ {w}

Leave(w) ==
    /\ rec' = [rec EXCEPT ![w] = Idle]
    /\ IF w = Discovery THEN UNCHANGED <<entry, poller>>
       ELSE /\ entry' = Release(w)
            /\ poller' = poller \ {w}

\* A job whose chat is not there is claimed and dropped.  A chat of which only
\* the placeholder is there may fail to load.  The message is looked for here, and
\* a done job's journal read afterwards; a failed job is shown in the chat or as a
\* toast.  A job deleted since it was listed is still taken for what it was then.
Begin(w, j) ==
    LET idx == IndexOf(j)
        To(at) == rec' = [rec EXCEPT ![w] =
                            [at |-> at, job |-> j, idx |-> IF at = "read" THEN idx ELSE 0]]
    IN
    \/ /\ entry.kind = "live" \/ Here
       /\ Leave(w) /\ UNCHANGED chat
    \/ /\ entry.kind # "live" /\ ~Here /\ status[j] \in Ended \cup {"gone"}
       /\ To("claim") /\ UNCHANGED <<chat, entry, poller>>
    \/ /\ entry.kind # "live" /\ Here
       /\ UNCHANGED <<entry, poller>>
       /\ \/ status[j] \in {"done", "refused", "gone"} /\ To("read") /\ UNCHANGED chat
          \/ status[j] \in {"failed", "gone"} /\ To("save") /\ chat' = ShowError(j, idx)
          \/ status[j] \in {"failed", "gone"} /\ UNCHANGED chat
                /\ To(IF idx = 0 THEN "claim" ELSE "save")

\* The message that was found matters no more.
Then(w, at) == rec' = [rec EXCEPT ![w] = [at |-> at, job |-> rec[w].job, idx |-> 0]]

\* Mutated Read: not used by the specification.
ReadAndClaim(w) ==
    LET j == rec[w].job IN
    /\ rec[w].at = "read" /\ status[j] = "done"
    /\ chat' = SlotIn(j, rec[w].idx)
    /\ Then(w, IF chat' # chat THEN "save" ELSE "claim")
    /\ UNCHANGED <<serverVars, saved, entry, live, poller, scan, deaths, home>>

\* The journal's text or its error goes where the message was, or was not.
Read(w) ==
    LET j == rec[w].job idx == rec[w].idx IN
    /\ rec[w].at = "read"
    /\ \/ /\ status[j] = "done"
          /\ chat' = SlotIn(j, idx)
          /\ Then(w, "save")
       \/ /\ status[j] = "refused"
          /\ chat' = ShowError(j, idx)
          /\ Then(w, "save")
       \/ /\ status[j] = "refused" /\ UNCHANGED chat
          /\ Then(w, IF idx = 0 THEN "claim" ELSE "save")
    /\ UNCHANGED <<serverVars, saved, entry, live, poller, scan, deaths, home>>

\* The journal is not reachable, or gone: the job stays unclaimed.
ReadThrows(w) ==
    /\ rec[w].at = "read"
    /\ Leave(w)
    /\ UNCHANGED <<serverVars, chat, saved, live, scan, deaths, home>>

\* Saves of a chat run one at a time, each with the chat as it is by then; there
\* is nothing to save of a chat deleted since.
Save(w) ==
    /\ Here /\ rec[w].at = "save"
    /\ saved' = chat
    /\ rec' = [rec EXCEPT ![w].at = "claim"]
    /\ UNCHANGED <<serverVars, chat, entry, live, poller, scan, deaths, home>>

SaveFails(w) ==
    /\ rec[w].at = "save"
    /\ Leave(w)
    /\ UNCHANGED <<serverVars, chat, saved, live, scan, deaths, home>>

Claim(w) ==
    /\ rec[w].at = "claim"
    /\ TryClaim(rec[w].job)
    /\ Leave(w)
    /\ UNCHANGED <<status, chat, saved, live, scan, deaths, home>>

---------------------------------------------------------------------------
(* The discovery pass: one at a time.                                      *)

Unclaimed == {j \in Jobs : status[j] \in Ended /\ j \notin claimed}

\* Oldest first.
InOrder(S) ==
    {s \in [1..Cardinality(S) -> S] :
        \A i, k \in 1..Cardinality(S) : i < k => s[i] < s[k]}

\* Two requests, sent at once: the server may answer either first.
StartDiscovery ==
    /\ scan = NoScan
    /\ scan' = [scan EXCEPT !.at = "both"]
    /\ UNCHANGED <<serverVars, tabVars, poller, rec, deaths, home>>

ListUnclaimed ==
    /\ scan.at \in {"both", "unclaimed"}
    /\ \E s \in InOrder(Unclaimed) :
        scan' = [scan EXCEPT !.at = IF @ = "both" THEN "active" ELSE "jobs", !.todo = s]
    /\ UNCHANGED <<serverVars, tabVars, poller, rec, deaths, home>>

ListActive ==
    /\ scan.at \in {"both", "active"}
    /\ scan' = [scan EXCEPT !.at = IF @ = "both" THEN "unclaimed" ELSE "jobs",
                            !.active = {j \in Jobs : status[j] \in Running}]
    /\ UNCHANGED <<serverVars, tabVars, poller, rec, deaths, home>>

RecoverNext ==
    /\ scan.at = "jobs" /\ scan.todo # <<>>
    /\ rec[Discovery].at = "idle"
    /\ Begin(Discovery, Head(scan.todo))
    /\ scan' = [scan EXCEPT !.todo = Tail(@)]
    /\ UNCHANGED <<serverVars, saved, live, deaths, home>>

\* attachRunningJob: not twice, and not while a live send owns the chat.
Attachable == {j \in scan.active \ poller : entry.kind # "live"}

AttachRunning ==
    /\ scan.at = "jobs" /\ scan.todo = <<>> /\ rec[Discovery].at = "idle"
    /\ poller' = poller \cup Attachable
    /\ entry' = IF entry = NoEntry /\ Attachable # {}
                THEN [kind |-> "background", gen |-> CHOOSE j \in Attachable : TRUE]
                ELSE entry
    /\ scan' = NoScan
    /\ UNCHANGED <<serverVars, chat, saved, live, rec, deaths, home>>

---------------------------------------------------------------------------
(* A poll loop.                                                            *)

\* The record is terminal, or the job was aborted or deleted elsewhere.
Poll(j) ==
    /\ j \in poller /\ rec[j].at = "idle"
    /\ \/ /\ status[j] \in Ended
          /\ Begin(j, j)
       \/ /\ status[j] = "gone"
          /\ Leave(j) /\ UNCHANGED chat
    /\ UNCHANGED <<serverVars, saved, live, scan, deaths, home>>

\* The stop was pressed and the loop woke, or the deadline passed while the
\* server could not be reached.
PollEnds(j) ==
    /\ j \in poller /\ rec[j].at = "idle"
    /\ Leave(j)
    /\ UNCHANGED <<serverVars, chat, saved, live, scan, deaths, home>>

\* Stop on a background entry: the chat is free at once, the loop ends when it
\* next wakes; the DELETE may not arrive.
StopBackground ==
    LET j == entry.gen IN
    /\ entry.kind = "background"
    /\ UNCHANGED status \/ Delete(j)
    /\ entry' = NoEntry
    /\ UNCHANGED <<claimed, chat, saved, live, poller, scan, rec, deaths, home>>

---------------------------------------------------------------------------

LiveStep ==
    \/ Push \/ Chunk \/ Collect \/ Stray \/ FailSend \/ LoseStream \/ StopSend
    \/ \E j \in Jobs : StartSend(j)

RecoveryStep ==
    \/ StartDiscovery \/ ListUnclaimed \/ ListActive \/ RecoverNext \/ AttachRunning
    \/ \E j \in Jobs : Poll(j) \/ PollEnds(j)
    \/ \E w \in Workers : Read(w) \/ ReadThrows(w) \/ Save(w) \/ SaveFails(w) \/ Claim(w)

Next ==
    \/ LiveStep \/ RecoveryStep
    \/ StopBackground \/ AutoSave \/ Die \/ DeleteChat
    \/ \E j \in Jobs : Upstream(j)

Spec == Init /\ [][Next]_vars

---------------------------------------------------------------------------

\* A poll loop that outlives its registration must not end the live send that
\* took the chat meanwhile, nor may a discovery take the chat over from it
\* (jobRecovery.ts:562, 592-596): while a send runs, the entry is its own.
LiveKeepsEntry ==
    live.at # "none" => entry = [kind |-> "live", gen |-> live.gen]

\* A background entry blocks the chat's send button: it always has the poll
\* loop that will release it (jobRecovery.ts:565-574).
GuardHasPoller == entry.kind = "background" => entry.gen \in poller

\* Recovery claims a done job only when the server has its whole text, also
\* when an earlier pass put it into the chat and failed to save it; or when the
\* chat is deleted in this tab, be it that the deletion is lost with the tab and
\* the chat comes back without the answer (jobRecovery.ts:230-237, 471-478).
RecoveryClaimsSaved ==
    \A w \in Workers : (rec[w].at = "claim" /\ status[rec[w].job] = "done" /\ Here)
        => \E i \in 1..Len(saved) : saved[i] = [gen |-> rec[w].job, text |-> Whole]

Copies(j) == {i \in 1..Len(chat) : chat[i].gen = j}

\* The error of a failed job is shown once, by the live send or by one of the
\* recoveries that may run for it at the same time (jobRecovery.ts:488-492).
FailureShownOnce ==
    \A j \in Jobs : status[j] = "failed" => Cardinality(Copies(j)) <= 1

=============================================================================
