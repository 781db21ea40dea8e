------------------------------ MODULE JobStore ------------------------------
(***************************************************************************)
(* What the recorder of model requests promises its clients, whatever its  *)
(* buffers, callbacks and crashes do: an answer grows only while its job   *)
(* runs, 'done' means the whole answer unless a write of it failed, a chat *)
(* has one running generation, and a stream that ends has delivered all    *)
(* there will ever be.  ModelJobs implements it.                           *)
(***************************************************************************)
EXTENDS Naturals

CONSTANTS Jobs, ChatOf, MainJobs, AnswerLen, Readers, NoJob

VARIABLES
    status,    \* where each job stands; "unused" before it, "gone" after it
    claimed,   \* jobs whose answer a client has taken
    text,      \* bytes of the answer that are on disk
    cut,       \* answers a write of which failed
    reads,     \* the job a reader streams
    got,       \* bytes a reader has
    over       \* whether the reader was told that this is all

vars == <<status, claimed, text, cut, reads, got, over>>

Terminal == {"done", "failed", "aborted"}

Init ==
    /\ status = [j \in Jobs |-> "unused"]
    /\ claimed = [j \in Jobs |-> FALSE]
    /\ text = [j \in Jobs |-> 0]
    /\ cut = [j \in Jobs |-> FALSE]
    /\ reads = [r \in Readers |-> NoJob]
    /\ got = [r \in Readers |-> 0]
    /\ over = [r \in Readers |-> FALSE]

jobVars == <<status, claimed, text, cut>>
readerVars == <<reads, got, over>>

Start(j) ==
    /\ status[j] = "unused"
    /\ j \in MainJobs =>
            \A k \in MainJobs : ChatOf[k] = ChatOf[j] => status[k] # "running"
    /\ status' = [status EXCEPT ![j] = "running"]
    /\ UNCHANGED <<claimed, text, cut, readerVars>>

Record(j) ==
    /\ status[j] = "running"
    /\ text[j] < AnswerLen[j] /\ ~cut[j]
    /\ text' = [text EXCEPT ![j] = @ + 1]
    /\ UNCHANGED <<status, claimed, cut, readerVars>>

\* What was recorded stays, and nothing is recorded after it.
Cut(j) ==
    /\ status[j] = "running"
    /\ cut' = [cut EXCEPT ![j] = TRUE]
    /\ UNCHANGED <<status, claimed, text, readerVars>>

Finish(j, s) ==
    /\ status[j] = "running"
    /\ s = "done" => text[j] = AnswerLen[j] \/ cut[j]
    /\ status' = [status EXCEPT ![j] = s]
    /\ UNCHANGED <<claimed, text, cut, readerVars>>

Claim(j) ==
    /\ status[j] \in Terminal
    /\ claimed' = [claimed EXCEPT ![j] = TRUE]
    /\ UNCHANGED <<status, text, cut, readerVars>>

Failing(st) == [j \in Jobs |-> IF st[j] = "running" THEN "failed" ELSE st[j]]

Without(st, removed) == [j \in Jobs |-> IF j \in removed THEN "gone" ELSE st[j]]

Finished(st) == {j \in Jobs : st[j] \in Terminal}

Remove ==
    /\ \E removed \in SUBSET Finished(status) : status' = Without(status, removed)
    /\ UNCHANGED <<claimed, text, cut, readerVars>>

Crash ==
    /\ \E removed \in SUBSET Finished(Failing(status)) :
            status' = Without(Failing(status), removed)
    /\ reads' = [r \in Readers |-> NoJob]
    /\ got' = [r \in Readers |-> 0]
    /\ over' = [r \in Readers |-> FALSE]
    /\ UNCHANGED <<claimed, text, cut>>

Open(r, j) ==
    /\ reads[r] = NoJob
    /\ status[j] \notin {"unused", "gone"}
    /\ reads' = [reads EXCEPT ![r] = j]
    /\ UNCHANGED <<jobVars, got, over>>

Read(r) ==
    /\ reads[r] \in Jobs /\ ~over[r]
    /\ got' = [got EXCEPT ![r] = text[reads[r]]]
    /\ UNCHANGED <<jobVars, reads, over>>

End(r) ==
    /\ reads[r] \in Jobs
    /\ status[reads[r]] # "running"
    /\ got[r] = text[reads[r]]
    /\ over' = [over EXCEPT ![r] = TRUE]
    /\ UNCHANGED <<jobVars, reads, got>>

Leave(r) ==
    /\ reads' = [reads EXCEPT ![r] = NoJob]
    /\ got' = [got EXCEPT ![r] = 0]
    /\ over' = [over EXCEPT ![r] = FALSE]
    /\ UNCHANGED jobVars

Next ==
    \/ \E j \in Jobs :
        \/ Start(j) \/ Record(j) \/ Cut(j) \/ Claim(j)
        \/ \E s \in Terminal : Finish(j, s)
    \/ \E r \in Readers :
        \/ \E j \in Jobs : Open(r, j)
        \/ Read(r) \/ End(r) \/ Leave(r)
    \/ Remove
    \/ Crash

Spec == Init /\ [][Next]_vars
=============================================================================
