--------------------------- MODULE ChatDeltaSync ---------------------------
(***************************************************************************)
(* Chat delta sync of one chat between a tab and the server: saves and     *)
(* loads transfer the messages after a prefix both sides are believed to   *)
(* hold (src/src/ts/storage/chatDeltaSync.ts, server.cjs /api/chat-content,*)
(* chatFingerprint).  Fingerprints are taken to be injective, so a prefix  *)
(* stands for its fingerprint.  Other devices write the whole chat.        *)
(***************************************************************************)
EXTENDS Naturals, Sequences, FiniteSets

CONSTANTS
    Messages,
    Nothing,
    MaxLen,     \* model bound: messages of a chat
    MaxCalls    \* model bound: saveChat calls that wait for one another

ASSUME ChatDeltaSyncAssumption ==
    /\ MaxLen \in Nat /\ MaxCalls \in Nat
    /\ Nothing \notin Seq(Messages)

Chats == UNION {[1..n -> Messages] : n \in 0..MaxLen}

VARIABLES
    chat,       \* the chat in the tab, Nothing while it is a placeholder
    known,      \* serverFingerprints: what the last sync left on the server
    copy,       \* the browser's copy of the chat, in IndexedDB
    stored,     \* fullChatStore
    calls,      \* saveQueues: the save under way and those behind it
    answer      \* the answer to a load under way

vars == <<chat, known, copy, stored, calls, answer>>

Queued == [at |-> "queued", known |-> <<>>, base |-> 0, body |-> <<>>]
Calls == [at : {"queued", "delta", "full", "ok", "mismatch"},
          known : Chats, base : 0..MaxLen, body : Chats]
NoAnswer == [base |-> 0, rest |-> Nothing]
Answers == [base : 0..MaxLen, rest : Chats]

TypeOK ==
    /\ chat \in Chats \cup {Nothing}
    /\ known \in Chats \cup {Nothing}
    /\ copy \in Chats \cup {Nothing}
    /\ stored \in Chats
    /\ calls \in Seq(Calls) /\ Len(calls) <= MaxCalls
    /\ answer \in Answers \cup {NoAnswer}

Init ==
    /\ chat = Nothing /\ known = Nothing
    /\ copy \in Chats \cup {Nothing}
    /\ stored \in Chats
    /\ calls = <<>>
    /\ answer = NoAnswer

---------------------------------------------------------------------------
(* Prefixes.                                                               *)

Prefix(s, n) == SubSeq(s, 1, n)
Rest(s, n) == SubSeq(s, n + 1, Len(s))

\* Mutated PrefixMatches: not used by the specification.
CountMatches(s, t, n) == n <= Len(s)

\* chatPrefixMatches: the first n messages are the same.
PrefixMatches(s, t, n) == n <= Len(s) /\ Prefix(s, n) = Prefix(t, n)

\* How many leading messages the two have in common: the lengths of the prefixes
\* they share are 1, 2 and so on.  0 when nothing is known.
Shared(k, s) ==
    IF k = Nothing THEN 0
    ELSE Cardinality({n \in 1..Len(s) : n <= Len(k) /\ \A i \in 1..n : k[i] = s[i]})

---------------------------------------------------------------------------
(* Saving.                                                                 *)

\* Fingerprints, base and body are taken together.
Started ==
    LET n == Shared(known, chat) IN
    [at |-> IF n > 0 THEN "delta" ELSE "full", known |-> chat, base |-> n, body |-> chat]

\* With nothing in flight a save starts at once, else it waits for its turn.
SaveChat ==
    /\ chat # Nothing
    /\ Len(calls) < MaxCalls
    /\ calls' = Append(calls, IF calls = <<>> THEN Started ELSE Queued)
    /\ UNCHANGED <<chat, known, copy, stored, answer>>

StartNext ==
    /\ calls # <<>> /\ calls[1].at = "queued"
    /\ calls' = [calls EXCEPT ![1] = Started]
    /\ UNCHANGED <<chat, known, copy, stored, answer>>

Now(at) == calls' = [calls EXCEPT ![1].at = at]

\* The server splices the rest onto its prefix, once it has verified it.
ServeDelta ==
    /\ calls # <<>> /\ calls[1].at = "delta"
    /\ LET c == calls[1] IN
       \/ /\ PrefixMatches(stored, c.body, c.base)
          /\ stored' = Prefix(stored, c.base) \o Rest(c.body, c.base)
          /\ Now("ok")
       \/ /\ ~PrefixMatches(stored, c.body, c.base)
          /\ Now("mismatch")
          /\ UNCHANGED stored
    /\ UNCHANGED <<chat, known, copy, answer>>

ServeFull ==
    /\ calls # <<>> /\ calls[1].at = "full"
    /\ stored' = calls[1].body
    /\ Now("ok")
    /\ UNCHANGED <<chat, known, copy, answer>>

\* Mutated Retry: not used by the specification.
RetryDelta ==
    /\ calls # <<>> /\ calls[1].at = "mismatch"
    /\ calls' = [calls EXCEPT ![1].at = "delta"]
    /\ UNCHANGED <<chat, known, copy, stored, answer>>

\* The full save encodes the chat as it is by now; the fingerprints to remember
\* stay those of the start.
Retry ==
    /\ calls # <<>> /\ calls[1].at = "mismatch"
    /\ calls' = [calls EXCEPT ![1].at = "full", ![1].body = chat]
    /\ UNCHANGED <<chat, known, copy, stored, answer>>

Settle ==
    /\ calls # <<>> /\ calls[1].at = "ok"
    /\ known' = calls[1].known
    /\ calls' = Tail(calls)
    /\ UNCHANGED <<chat, copy, stored, answer>>

\* The request or its answer is lost, or the server answers an error.
SaveFails ==
    /\ calls # <<>> /\ calls[1].at # "queued"
    /\ calls' = Tail(calls)
    /\ UNCHANGED <<chat, known, copy, stored, answer>>

---------------------------------------------------------------------------
(* Loading.                                                                *)

\* The load names the browser's copy; the server leaves out what it covers.
Serve ==
    /\ chat = Nothing
    /\ LET n == IF copy # Nothing /\ Len(copy) > 0 /\ PrefixMatches(stored, copy, Len(copy))
                THEN Len(copy) ELSE 0 IN
       answer' = [base |-> n, rest |-> Rest(stored, n)]
    /\ UNCHANGED <<chat, known, copy, stored, calls>>

Assembled ==
    IF answer.base = 0 THEN answer.rest ELSE copy \o answer.rest

\* The chat is applied, and a long one put into the browser's copy.
Apply ==
    /\ answer # NoAnswer
    /\ chat' = Assembled
    /\ known' = Assembled
    /\ copy' = copy \/ copy' = Assembled
    /\ answer' = NoAnswer
    /\ UNCHANGED <<stored, calls>>

---------------------------------------------------------------------------

\* The user, a stream, or recovery.
Edit ==
    /\ chat # Nothing
    /\ chat' \in Chats
    /\ UNCHANGED <<known, copy, stored, calls, answer>>

OtherDevice ==
    /\ stored' \in Chats
    /\ UNCHANGED <<chat, known, copy, calls, answer>>

\* The browser's copies survive a reload.
Reload ==
    /\ chat' = Nothing /\ known' = Nothing
    /\ calls' = <<>>
    /\ answer' = NoAnswer
    /\ UNCHANGED <<copy, stored>>

SaveStep == StartNext \/ ServeDelta \/ ServeFull \/ Retry \/ Settle \/ SaveFails

Next ==
    \/ SaveChat \/ SaveStep
    \/ Serve \/ Apply
    \/ Edit \/ OtherDevice \/ Reload

Spec == Init /\ [][Next]_vars

\* Requests are answered or fail, and the chain of promises runs.
FairSpec == Spec /\ WF_vars(SaveStep)

---------------------------------------------------------------------------

InFlight == calls # <<>> /\ calls[1].at \in {"delta", "full"}

Whole == INSTANCE WholeChatSync WITH
    offered <- IF InFlight THEN calls[1].body ELSE Nothing,
    fetched <- IF answer = NoAnswer THEN Nothing ELSE Assembled

\* "Saves of one chat run one at a time, in call order": only the first call of
\* the queue has a request under way (chatDeltaSync.ts:88-92).
OneInFlight == \A i \in 2..Len(calls) : calls[i].at = "queued"

\* Deltas cannot be told from whole chats: "the stored result always equals the
\* client's chat, exactly like a full save", and a loaded chat is one the server
\* held (chatDeltaSync.ts:16-23).
ImplementsWholeSync == Whole!Spec

\* A save that another device forces to start over does not start over for
\* ever: the queue of a chat moves on (chatDeltaSync.ts:122-135).
QueueMoves == Len(calls) = MaxCalls ~> Len(calls) < MaxCalls
=============================================================================
