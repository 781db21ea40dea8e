------------------------ MODULE ChatDeltaSyncProofs ------------------------
(***************************************************************************)
(* Proofs about ChatDeltaSync: for any messages, chat length and number of *)
(* waiting saves, delta transfers implement whole transfers.               *)
(***************************************************************************)
EXTENDS ChatDeltaSync, SequenceTheorems, FiniteSetTheorems, TLAPS

\* A delta request's base is a length of its body, and a save under way belongs
\* to a chat that is loaded.
CallsFit ==
    /\ \A i \in 1..Len(calls) :
        calls[i].at = "delta" => calls[i].base <= Len(calls[i].body)
    /\ calls # <<>> => chat # Nothing

\* An answer together with the copy it was made for is a chat.
AnswerFits == answer # NoAnswer => Assembled \in Chats

IInv == TypeOK /\ OneInFlight /\ CallsFit /\ AnswerFits

---------------------------------------------------------------------------

\* Chats are the sequences of messages within the bound.
LEMMA ChatsAreSeqs ==
    \A s : s \in Chats <=> (s \in Seq(Messages) /\ Len(s) <= MaxLen)
<1>1. ASSUME NEW s \in Chats PROVE s \in Seq(Messages) /\ Len(s) <= MaxLen
    <2>1. PICK n \in 0..MaxLen : s \in [1..n -> Messages]
        BY <1>1 DEF Chats
    <2> QED
        BY <2>1, ChatDeltaSyncAssumption, SeqDef DEF ChatDeltaSyncAssumption
<1>2. ASSUME NEW s \in Seq(Messages), Len(s) <= MaxLen PROVE s \in Chats
    <2>1. Len(s) \in 0..MaxLen /\ s \in [1..Len(s) -> Messages]
        BY <1>2, LenProperties, ChatDeltaSyncAssumption DEF ChatDeltaSyncAssumption
    <2> QED
        BY <2>1 DEF Chats
<1> QED
    BY <1>1, <1>2

LEMMA NothingIsNoChat == Nothing \notin Chats
BY ChatsAreSeqs, ChatDeltaSyncAssumption DEF ChatDeltaSyncAssumption

\* The common prefix is no longer than the chat.
LEMMA SharedFits ==
    ASSUME NEW k, NEW s \in Chats
    PROVE Shared(k, s) \in 0..Len(s)
<1> DEFINE T == {n \in 1..Len(s) : n <= Len(k) /\ \A i \in 1..n : k[i] = s[i]}
<1>1. Len(s) \in Nat
    BY ChatsAreSeqs, LenProperties
<1>2. IsFiniteSet(1..Len(s)) /\ Cardinality(1..Len(s)) = Len(s)
    BY <1>1, FS_Interval
<1>3. IsFiniteSet(T) /\ Cardinality(T) <= Len(s)
    BY <1>2, FS_Subset
<1>4. Cardinality(T) \in Nat
    BY <1>3, FS_CardinalityType
<1> QED
    BY <1>1, <1>3, <1>4 DEF Shared

\* A verified prefix and the rest behind it are the whole (chatPrefixMatches and
\* the splice of the save).
LEMMA SpliceIsWhole ==
    ASSUME NEW s \in Chats, NEW t \in Chats, NEW n \in 0..Len(t),
           PrefixMatches(s, t, n)
    PROVE Prefix(s, n) \o Rest(t, n) = t
<1>1. t \in Seq(Messages) /\ Len(t) \in Nat
    BY ChatsAreSeqs, LenProperties
<1>2. SubSeq(t, 1, n) \o SubSeq(t, n + 1, Len(t)) = SubSeq(t, 1, Len(t))
    <2>1. 1 \in 1..(Len(t) + 1) /\ n \in (1 - 1)..Len(t) /\ Len(t) \in n..Len(t)
        BY <1>1
    <2> QED
        BY <1>1, <2>1, ConcatAdjacentSubSeq
<1>3. SubSeq(t, 1, Len(t)) = t
    BY <1>1, SubSeqFull
<1> QED
    BY <1>2, <1>3 DEF PrefixMatches, Prefix, Rest

\* The rest of a chat is a chat.
LEMMA RestIsChat ==
    ASSUME NEW s \in Chats, NEW n \in 0..Len(s)
    PROVE Rest(s, n) \in Chats /\ Len(Rest(s, n)) = Len(s) - n
<1>1. s \in Seq(Messages) /\ Len(s) \in Nat /\ Len(s) <= MaxLen
    BY ChatsAreSeqs, LenProperties
<1>2. \A i \in (n + 1)..Len(s) : s[i] \in Messages
    BY <1>1, ElementOfSeq
<1>3. /\ SubSeq(s, n + 1, Len(s)) \in Seq(Messages)
      /\ Len(SubSeq(s, n + 1, Len(s))) = IF n + 1 <= Len(s) THEN Len(s) - (n + 1) + 1 ELSE 0
    BY <1>1, <1>2, SubSeqProperties
<1>4. Len(SubSeq(s, n + 1, Len(s))) = Len(s) - n
    BY <1>1, <1>3
<1>5. Len(Rest(s, n)) = Len(s) - n /\ Rest(s, n) \in Seq(Messages)
    BY <1>3, <1>4 DEF Rest
<1>6. Len(Rest(s, n)) <= MaxLen
    BY <1>1, <1>5, ChatDeltaSyncAssumption DEF ChatDeltaSyncAssumption
<1> QED
    BY <1>5, <1>6, ChatsAreSeqs

LEMMA StartedFits ==
    ASSUME chat \in Chats
    PROVE /\ Started \in Calls
          /\ Started.base <= Len(Started.body)
          /\ Started.at \in {"delta", "full"}
          /\ Started.body = chat
<1>1. Shared(known, chat) \in 0..Len(chat)
    BY SharedFits
<1>2. Len(chat) \in Nat /\ Len(chat) <= MaxLen
    BY ChatsAreSeqs, LenProperties
<1>3. Shared(known, chat) \in 0..MaxLen
    BY <1>1, <1>2, ChatDeltaSyncAssumption DEF ChatDeltaSyncAssumption
<1> QED
    BY <1>1, <1>2, <1>3 DEF Started, Calls

LEMMA QueuedFits == Queued \in Calls
<1>1. <<>> \in Chats
    <2>1. <<>> \in Seq(Messages) /\ Len(<<>>) = 0
        BY EmptySeq
    <2>2. Len(<<>>) <= MaxLen
        BY <2>1, ChatDeltaSyncAssumption DEF ChatDeltaSyncAssumption
    <2> QED
        BY <2>1, <2>2, ChatsAreSeqs, Zenon
<1> QED
    BY <1>1, ChatDeltaSyncAssumption DEF Queued, Calls, ChatDeltaSyncAssumption

---------------------------------------------------------------------------
(* The queue of saves: what each step leaves of it.                        *)

LEMMA QueueAppend ==
    ASSUME NEW q \in Seq(Calls), NEW c \in Calls
    PROVE /\ Append(q, c) \in Seq(Calls)
          /\ Len(Append(q, c)) = Len(q) + 1
          /\ \A i \in 1..Len(q) : Append(q, c)[i] = q[i]
          /\ Append(q, c)[Len(q) + 1] = c
    OBVIOUS

\* The first call is changed, the others wait.
LEMMA QueueHead ==
    ASSUME NEW q \in Seq(Calls), q # <<>>, NEW c \in Calls
    PROVE /\ [q EXCEPT ![1] = c] \in Seq(Calls)
          /\ Len([q EXCEPT ![1] = c]) = Len(q)
          /\ [q EXCEPT ![1] = c][1] = c
          /\ \A i \in 2..Len(q) : [q EXCEPT ![1] = c][i] = q[i]
<1>1. Len(q) \in Nat \ {0}
    BY EmptySeq
<1>2. 1 \in 1..Len(q)
    BY <1>1
<1> QED
    BY <1>1, <1>2, ExceptSeq

LEMMA QueueTail ==
    ASSUME NEW q \in Seq(Calls), q # <<>>
    PROVE /\ Tail(q) \in Seq(Calls)
          /\ Len(Tail(q)) = Len(q) - 1
          /\ \A i \in 1..Len(Tail(q)) : Tail(q)[i] = q[i + 1]
BY HeadTailProperties

---------------------------------------------------------------------------
(* The three ways a step changes the queue.                                *)

QueueOK ==
    /\ calls \in Seq(Calls) /\ Len(calls) <= MaxCalls
    /\ OneInFlight /\ CallsFit

LEMMA NewCall ==
    ASSUME QueueOK, chat # Nothing, chat' = chat, Len(calls) < MaxCalls,
           NEW c \in Calls, calls' = Append(calls, c),
           c.at = "delta" => c.base <= Len(c.body),
           calls # <<>> => c.at = "queued"
    PROVE QueueOK' /\ calls' # <<>> /\ (IF calls = <<>> THEN calls'[1] = c ELSE calls'[1] = calls[1])
<1>1. Len(calls) \in Nat /\ (calls # <<>> => Len(calls) # 0)
    BY LenProperties, EmptySeq DEF QueueOK
<1>2. /\ calls' \in Seq(Calls) /\ Len(calls') = Len(calls) + 1
      /\ \A i \in 1..Len(calls) : calls'[i] = calls[i]
      /\ calls'[Len(calls) + 1] = c
    BY QueueAppend DEF QueueOK
<1>3. Len(calls') <= MaxCalls
    BY <1>1, <1>2, ChatDeltaSyncAssumption DEF ChatDeltaSyncAssumption
<1>4. calls' # <<>>
    BY <1>1, <1>2
<1>5. calls = <<>> => Len(calls) = 0
    OBVIOUS
<1>6. OneInFlight'
    BY <1>1, <1>2, <1>5 DEF QueueOK, OneInFlight
<1>7. CallsFit'
    BY <1>1, <1>2 DEF QueueOK, CallsFit
<1> QED
    BY <1>1, <1>2, <1>3, <1>4, <1>5, <1>6, <1>7 DEF QueueOK

LEMMA HeadChanges ==
    ASSUME QueueOK, calls # <<>>, chat' = chat,
           NEW c \in Calls, calls' = [calls EXCEPT ![1] = c],
           c.at = "delta" => c.base <= Len(c.body)
    PROVE QueueOK' /\ calls' # <<>> /\ calls'[1] = c
<1>1. Len(calls) \in Nat \ {0}
    BY EmptySeq DEF QueueOK
<1>2. /\ calls' \in Seq(Calls) /\ Len(calls') = Len(calls) /\ calls'[1] = c
      /\ \A i \in 2..Len(calls) : calls'[i] = calls[i]
    BY QueueHead DEF QueueOK
<1>3. calls' # <<>>
    BY <1>1, <1>2
<1>4. OneInFlight'
    BY <1>1, <1>2 DEF QueueOK, OneInFlight
<1>5. CallsFit'
    BY <1>1, <1>2, <1>3 DEF QueueOK, CallsFit
<1> QED
    BY <1>2, <1>3, <1>4, <1>5 DEF QueueOK

LEMMA CallEnds ==
    ASSUME QueueOK, calls # <<>>, chat' = chat, calls' = Tail(calls)
    PROVE QueueOK' /\ (calls' # <<>> => calls'[1].at = "queued")
<1>1. Len(calls) \in Nat \ {0}
    BY EmptySeq DEF QueueOK
<1>2. /\ calls' \in Seq(Calls) /\ Len(calls') = Len(calls) - 1
      /\ \A i \in 1..Len(calls') : calls'[i] = calls[i + 1]
    BY QueueTail DEF QueueOK
<1>3. \A i \in 1..Len(calls') : calls'[i].at = "queued"
    BY <1>1, <1>2 DEF QueueOK, OneInFlight
<1>4. calls' # <<>> => Len(calls') \in Nat \ {0}
    BY <1>2, EmptySeq
<1>5. Len(calls') <= MaxCalls
    BY <1>1, <1>2, ChatDeltaSyncAssumption DEF QueueOK, ChatDeltaSyncAssumption
<1>6. OneInFlight' /\ CallsFit'
    BY <1>1, <1>2, <1>3 DEF OneInFlight, CallsFit, QueueOK
<1> QED
    BY <1>2, <1>3, <1>4, <1>5, <1>6 DEF QueueOK

---------------------------------------------------------------------------
(* What each step preserves, and which step of whole-chat sync it is.      *)

LEMMA InitIInv == Init => IInv
<1> SUFFICES ASSUME Init PROVE IInv
    OBVIOUS
<1>1. TypeOK
    BY EmptySeq, ChatDeltaSyncAssumption DEF Init, TypeOK, ChatDeltaSyncAssumption
<1>2. OneInFlight /\ CallsFit /\ AnswerFits
    BY DEF Init, OneInFlight, CallsFit, AnswerFits
<1> QED
    BY <1>1, <1>2 DEF IInv

\* The state a load answer is in, when neither it nor the copy changes.
LEMMA AnswerKept ==
    ASSUME AnswerFits, UNCHANGED <<copy, answer>>
    PROVE AnswerFits' /\ Assembled' = Assembled
BY DEF AnswerFits, Assembled

\* The invariant after a step that leaves the load under way alone.
LEMMA QueueStep ==
    ASSUME IInv, QueueOK', UNCHANGED <<copy, answer>>,
           chat' \in Chats \cup {Nothing}, known' \in Chats \cup {Nothing}, stored' \in Chats
    PROVE IInv'
<1>1. AnswerFits'
    BY AnswerKept DEF IInv
<1>2. TypeOK'
    BY DEF IInv, TypeOK, QueueOK
<1> QED
    BY <1>1, <1>2 DEF IInv, QueueOK

LEMMA QueueFromIInv ==
    ASSUME IInv
    PROVE /\ QueueOK
          /\ calls # <<>> => calls[1] \in Calls /\ chat \in Chats
          /\ calls # <<>> /\ calls[1].at = "delta" => calls[1].base \in 0..Len(calls[1].body)
<1>1. QueueOK
    BY DEF IInv, TypeOK, QueueOK
<1>2. ASSUME calls # <<>> PROVE calls[1] \in Calls /\ 1 \in 1..Len(calls)
    BY <1>1, <1>2, EmptySeq, ElementOfSeq DEF QueueOK
<1>3. ASSUME calls # <<>> PROVE chat \in Chats
    BY <1>3 DEF IInv, TypeOK, CallsFit
<1>4. ASSUME calls # <<>>, calls[1].at = "delta" PROVE calls[1].base \in 0..Len(calls[1].body)
    <2>1. calls[1].base <= Len(calls[1].body)
        BY <1>1, <1>2, <1>4 DEF QueueOK, CallsFit
    <2>2. calls[1].base \in 0..MaxLen /\ Len(calls[1].body) \in Nat
        BY <1>2, <1>4, ChatsAreSeqs, LenProperties DEF Calls
    <2> QED
        BY <2>1, <2>2, ChatDeltaSyncAssumption DEF ChatDeltaSyncAssumption
<1> QED
    BY <1>1, <1>2, <1>3, <1>4

\* An answered request: the head of the queue is marked, and carries nothing more.
LEMMA Answered ==
    ASSUME IInv, calls # <<>>, NEW at \in {"ok", "mismatch"}, Now(at), chat' = chat
    PROVE QueueOK' /\ ~InFlight'
<1> DEFINE c == [calls[1] EXCEPT !.at = at]
<1>1. c \in Calls /\ c.at = at
    BY QueueFromIInv DEF Calls
<1>2. calls' = [calls EXCEPT ![1] = c]
    BY DEF Now
<1> HIDE DEF c
<1>3. QueueOK' /\ calls' # <<>> /\ calls'[1] = c
    BY <1>1, <1>2, QueueFromIInv, HeadChanges
<1> QED
    BY <1>1, <1>3 DEF InFlight

---------------------------------------------------------------------------
(* Saving.                                                                 *)

LEMMA SaveChatStep ==
    ASSUME IInv, SaveChat
    PROVE IInv' /\ [Whole!Next]_(Whole!vars)
<1> DEFINE c == IF calls = <<>> THEN Started ELSE Queued
<1>1. chat \in Chats
    BY DEF SaveChat, IInv, TypeOK
<1>2. c \in Calls /\ (c.at = "delta" => c.base <= Len(c.body)) /\ (calls # <<>> => c.at = "queued")
    BY <1>1, StartedFits, QueuedFits DEF Queued
<1>3. QueueOK' /\ calls' # <<>> /\ (IF calls = <<>> THEN calls'[1] = c ELSE calls'[1] = calls[1])
    BY <1>2, QueueFromIInv, NewCall DEF SaveChat
<1>4. IInv'
    BY <1>3, QueueStep DEF SaveChat, IInv, TypeOK
<1>5. ASSUME calls = <<>> PROVE Whole!Offer
    BY <1>1, <1>3, <1>5, StartedFits, NothingIsNoChat, AnswerKept
    DEF SaveChat, InFlight, Whole!Offer, IInv
<1>6. ASSUME calls # <<>> PROVE UNCHANGED Whole!vars
    BY <1>3, <1>6, AnswerKept DEF SaveChat, InFlight, Whole!vars, IInv
<1> QED
    BY <1>4, <1>5, <1>6 DEF Whole!Next

LEMMA StartNextStep ==
    ASSUME IInv, StartNext
    PROVE IInv' /\ [Whole!Next]_(Whole!vars)
<1>1. chat \in Chats
    BY QueueFromIInv DEF StartNext
<1>2. QueueOK' /\ calls' # <<>> /\ calls'[1] = Started
    BY <1>1, StartedFits, QueueFromIInv, HeadChanges DEF StartNext
<1>3. IInv'
    BY <1>2, QueueStep DEF StartNext, IInv, TypeOK
<1>4. Whole!Offer
    BY <1>1, <1>2, StartedFits, AnswerKept, NothingIsNoChat
    DEF StartNext, InFlight, Whole!Offer, IInv
<1> QED
    BY <1>3, <1>4 DEF Whole!Next

\* The heart of it: a delta accepted by the server stores the chat it was made of.
LEMMA ServeDeltaStep ==
    ASSUME IInv, ServeDelta
    PROVE IInv' /\ [Whole!Next]_(Whole!vars)
<1> DEFINE b == calls[1].body
           n == calls[1].base
<1>1. calls # <<>> /\ calls[1].at = "delta" /\ UNCHANGED <<chat, known, copy, answer>>
    BY DEF ServeDelta
<1>2. b \in Chats /\ n \in 0..Len(b) /\ stored \in Chats
    BY <1>1, QueueFromIInv DEF Calls, IInv, TypeOK
<1>3. InFlight /\ b # Nothing
    BY <1>1, <1>2, NothingIsNoChat DEF InFlight
<1>4. CASE PrefixMatches(stored, b, n)
    <2>1. Now("ok") /\ stored' = Prefix(stored, n) \o Rest(b, n)
        BY <1>4 DEF ServeDelta
    <2>2. stored' = b
        BY <1>2, <1>4, <2>1, SpliceIsWhole
    <2>3. QueueOK' /\ ~InFlight'
        BY <1>1, <2>1, Answered
    <2>4. IInv'
        BY <1>1, <1>2, <2>2, <2>3, QueueStep DEF IInv, TypeOK
    <2>5. Whole!Store
        BY <1>1, <1>3, <2>2, <2>3, AnswerKept DEF Whole!Store, IInv
    <2> QED
        BY <2>4, <2>5 DEF Whole!Next
<1>5. CASE ~PrefixMatches(stored, b, n)
    <2>1. Now("mismatch") /\ stored' = stored
        BY <1>5 DEF ServeDelta
    <2>2. QueueOK' /\ ~InFlight'
        BY <1>1, <2>1, Answered
    <2>3. IInv'
        BY <1>1, <2>1, <2>2, QueueStep DEF IInv, TypeOK
    <2>4. Whole!Withdraw
        BY <1>1, <2>1, <2>2, AnswerKept DEF Whole!Withdraw, IInv
    <2> QED
        BY <2>3, <2>4 DEF Whole!Next
<1> QED
    BY <1>4, <1>5

LEMMA ServeFullStep ==
    ASSUME IInv, ServeFull
    PROVE IInv' /\ [Whole!Next]_(Whole!vars)
<1>1. /\ calls # <<>> /\ calls[1].at = "full" /\ UNCHANGED <<chat, known, copy, answer>>
      /\ stored' = calls[1].body /\ Now("ok")
    BY DEF ServeFull
<1>2. calls[1].body \in Chats
    BY <1>1, QueueFromIInv DEF Calls
<1>3. QueueOK' /\ ~InFlight'
    BY <1>1, Answered
<1>4. IInv'
    BY <1>1, <1>2, <1>3, QueueStep DEF IInv, TypeOK
<1>5. Whole!Store
    BY <1>1, <1>2, <1>3, AnswerKept, NothingIsNoChat DEF Whole!Store, InFlight, IInv
<1> QED
    BY <1>4, <1>5 DEF Whole!Next

LEMMA RetryStep ==
    ASSUME IInv, Retry
    PROVE IInv' /\ [Whole!Next]_(Whole!vars)
<1> DEFINE c == [calls[1] EXCEPT !.at = "full", !.body = chat]
<1>1. calls # <<>> /\ UNCHANGED <<chat, known, copy, stored, answer>>
    BY DEF Retry
<1>2. chat \in Chats /\ calls[1] \in Calls
    BY <1>1, QueueFromIInv
<1>3. c \in Calls /\ c.at = "full" /\ c.body = chat
    BY <1>2 DEF Calls
<1>4. calls' = [calls EXCEPT ![1] = c]
    BY DEF Retry
<1> HIDE DEF c
<1>5. QueueOK' /\ calls' # <<>> /\ calls'[1] = c
    BY <1>1, <1>3, <1>4, QueueFromIInv, HeadChanges
<1>6. IInv'
    BY <1>1, <1>5, QueueStep DEF IInv, TypeOK
<1>7. Whole!Offer
    BY <1>1, <1>2, <1>3, <1>5, AnswerKept, NothingIsNoChat DEF Whole!Offer, InFlight, IInv
<1> QED
    BY <1>6, <1>7 DEF Whole!Next

\* A save ends, whether it succeeded or not; the next one has not started.
LEMMA SaveEndsStep ==
    ASSUME IInv, Settle \/ SaveFails
    PROVE IInv' /\ [Whole!Next]_(Whole!vars)
<1>1. calls # <<>> /\ calls' = Tail(calls) /\ UNCHANGED <<chat, copy, stored, answer>>
    BY DEF Settle, SaveFails
<1>2. known' \in Chats \cup {Nothing}
    BY <1>1, QueueFromIInv DEF Settle, SaveFails, Calls, IInv, TypeOK
<1>3. QueueOK' /\ ~InFlight'
    BY <1>1, QueueFromIInv, CallEnds DEF InFlight
<1>4. IInv'
    BY <1>1, <1>2, <1>3, QueueStep DEF IInv, TypeOK
<1>5. Whole!Withdraw
    BY <1>1, <1>3, AnswerKept DEF Whole!Withdraw, IInv
<1> QED
    BY <1>4, <1>5 DEF Whole!Next

---------------------------------------------------------------------------
(* Loading, and the rest.                                                  *)

\* An answer and the copy it was made for assemble to what the server holds.
LEMMA AssembledIsStored ==
    ASSUME IInv, Serve
    PROVE /\ answer'.base \in 0..MaxLen /\ answer'.rest \in Chats /\ answer' \in Answers
          /\ Assembled' = stored
<1> DEFINE n == IF copy # Nothing /\ Len(copy) > 0 /\ PrefixMatches(stored, copy, Len(copy))
                THEN Len(copy) ELSE 0
<1>1. answer' = [base |-> n, rest |-> Rest(stored, n)] /\ copy' = copy
    BY DEF Serve
<1>2. stored \in Chats /\ stored \in Seq(Messages) /\ Len(stored) \in Nat /\ Len(stored) <= MaxLen
    BY ChatsAreSeqs, LenProperties DEF IInv, TypeOK
<1>3. CASE n = 0
    <2>1. Rest(stored, 0) = stored
        BY <1>2, SubSeqFull DEF Rest
    <2>2. 0 \in 0..MaxLen
        BY ChatDeltaSyncAssumption DEF ChatDeltaSyncAssumption
    <2> QED
        BY <1>1, <1>2, <1>3, <2>1, <2>2 DEF Assembled, Answers
<1>4. CASE n # 0
    <2>1. copy \in Chats /\ n = Len(copy) /\ PrefixMatches(stored, copy, n)
        BY <1>4 DEF IInv, TypeOK
    <2>2. copy \in Seq(Messages) /\ Len(copy) \in Nat /\ Len(copy) <= MaxLen
        BY <2>1, ChatsAreSeqs, LenProperties
    <2>3. n \in 0..Len(stored) /\ n \in 0..MaxLen
        BY <1>2, <2>1, <2>2, ChatDeltaSyncAssumption DEF PrefixMatches, ChatDeltaSyncAssumption
    <2>4. PrefixMatches(copy, stored, n)
        BY <2>1, <2>2 DEF PrefixMatches
    <2>5. Prefix(copy, n) \o Rest(stored, n) = stored
        BY <1>2, <2>1, <2>3, <2>4, SpliceIsWhole
    <2>6. Prefix(copy, n) = copy
        BY <2>1, <2>2, SubSeqFull DEF Prefix
    <2>7. Rest(stored, n) \in Chats
        BY <1>2, <2>3, RestIsChat
    <2> HIDE DEF n
    <2> QED
        BY <1>1, <1>4, <2>3, <2>5, <2>6, <2>7 DEF Assembled, Answers
<1> QED
    BY <1>3, <1>4

LEMMA ServeStep ==
    ASSUME IInv, Serve
    PROVE IInv' /\ [Whole!Next]_(Whole!vars)
<1>1. chat = Nothing /\ UNCHANGED <<chat, known, copy, stored, calls>>
    BY DEF Serve
<1>2. answer' \in Answers /\ answer'.rest \in Chats /\ Assembled' = stored
    BY AssembledIsStored
<1>3. stored \in Chats /\ answer' # NoAnswer
    BY <1>2, NothingIsNoChat DEF IInv, TypeOK, NoAnswer
<1>4. TypeOK'
    BY <1>1, <1>2 DEF IInv, TypeOK
<1>5. OneInFlight' /\ CallsFit' /\ AnswerFits'
    BY <1>1, <1>2, <1>3 DEF IInv, OneInFlight, CallsFit, AnswerFits
<1>6. Whole!Answer
    BY <1>1, <1>2, <1>3 DEF Whole!Answer, InFlight
<1> QED
    BY <1>4, <1>5, <1>6 DEF Whole!Next, IInv

LEMMA ApplyStep ==
    ASSUME IInv, Apply
    PROVE IInv' /\ [Whole!Next]_(Whole!vars)
<1>1. /\ answer # NoAnswer /\ answer' = NoAnswer
      /\ chat' = Assembled /\ known' = Assembled /\ copy' \in {copy, Assembled}
      /\ UNCHANGED <<stored, calls>>
    BY DEF Apply
<1>2. Assembled \in Chats /\ Assembled # Nothing
    BY <1>1, NothingIsNoChat DEF IInv, AnswerFits
<1>3. TypeOK'
    BY <1>1, <1>2 DEF IInv, TypeOK
<1>4. OneInFlight' /\ CallsFit' /\ AnswerFits'
    BY <1>1, <1>2 DEF IInv, OneInFlight, CallsFit, AnswerFits
<1>5. Whole!Open
    BY <1>1, <1>2 DEF Whole!Open, InFlight
<1> QED
    BY <1>3, <1>4, <1>5 DEF Whole!Next, IInv

LEMMA OutsideStep ==
    ASSUME IInv, Edit \/ OtherDevice \/ UNCHANGED vars
    PROVE IInv' /\ [Whole!Next]_(Whole!vars)
<1>1. UNCHANGED <<known, copy, calls, answer>>
    BY DEF Edit, OtherDevice, vars
<1>2. chat' \in Chats \cup {Nothing} /\ stored' \in Chats /\ (chat # Nothing => chat' # Nothing)
    BY NothingIsNoChat DEF Edit, OtherDevice, vars, IInv, TypeOK
<1>3. QueueOK'
    BY <1>1, <1>2, QueueFromIInv DEF QueueOK, OneInFlight, CallsFit
<1>4. IInv'
    BY <1>1, <1>2, <1>3, QueueStep DEF IInv, TypeOK
<1>5. Assembled' = Assembled /\ InFlight' = InFlight
    BY <1>1 DEF Assembled, InFlight
<1>6. chat' \in Chats => chat' \in Whole!Chats
    BY ChatsAreSeqs DEF Whole!Chats
<1>7. stored' \in Whole!Chats
    BY <1>2, ChatsAreSeqs DEF Whole!Chats
<1>8. CASE Edit
    BY <1>1, <1>4, <1>5, <1>6, <1>8 DEF Edit, Whole!Edit, Whole!Next
<1>9. CASE OtherDevice
    BY <1>1, <1>4, <1>5, <1>7, <1>9 DEF OtherDevice, Whole!OtherDevice, Whole!Next
<1>10. CASE UNCHANGED vars
    BY <1>1, <1>4, <1>5, <1>10 DEF vars, Whole!vars
<1> QED
    BY <1>4, <1>8, <1>9, <1>10

LEMMA ReloadStep ==
    ASSUME IInv, Reload
    PROVE IInv' /\ [Whole!Next]_(Whole!vars)
<1>1. calls' \in Seq(Calls) /\ Len(calls') = 0 /\ calls' = <<>>
    BY EmptySeq DEF Reload
<1>2. TypeOK'
    BY <1>1, ChatDeltaSyncAssumption DEF Reload, IInv, TypeOK, ChatDeltaSyncAssumption
<1>3. OneInFlight' /\ CallsFit' /\ AnswerFits'
    BY <1>1 DEF Reload, OneInFlight, CallsFit, AnswerFits
<1>4. Whole!Leave
    BY DEF Reload, Whole!Leave, InFlight
<1> QED
    BY <1>2, <1>3, <1>4 DEF Whole!Next, IInv

---------------------------------------------------------------------------
(* The theorems.                                                           *)

\* Every step preserves the invariant and is a step of whole-chat sync.
LEMMA NextStep ==
    ASSUME IInv, [Next]_vars
    PROVE IInv' /\ [Whole!Next]_(Whole!vars)
BY SaveChatStep, StartNextStep, ServeDeltaStep, ServeFullStep, RetryStep, SaveEndsStep,
   ServeStep, ApplyStep, OutsideStep, ReloadStep, Zenon
DEF Next, SaveStep

LEMMA SpecIInv == Spec => []IInv
BY InitIInv, NextStep, PTL DEF Spec

\* The type invariant, for any messages and bounds.
THEOREM SpecTypeOK == Spec => []TypeOK
<1>1. IInv => TypeOK
    BY DEF IInv
<1> QED
    BY <1>1, SpecIInv, PTL

\* Saves of one chat run one at a time, whatever the queue's length
\* (chatDeltaSync.ts:88-92).
THEOREM SpecOneInFlight == Spec => []OneInFlight
<1>1. IInv => OneInFlight
    BY DEF IInv
<1> QED
    BY <1>1, SpecIInv, PTL

\* Delta sync implements whole-chat sync: no save stores and no load yields a
\* chat that was never whole (chatDeltaSync.ts:16-23).
THEOREM SpecImplementsWholeSync == Spec => ImplementsWholeSync
<1>1. Init => Whole!Init
    <2> SUFFICES ASSUME Init PROVE Whole!Init
        OBVIOUS
    <2>1. stored \in Seq(Messages)
        BY ChatsAreSeqs DEF Init
    <2> QED
        BY <2>1 DEF Init, Whole!Init, Whole!Chats, InFlight
<1> QED
    BY <1>1, SpecIInv, NextStep, PTL DEF Spec, ImplementsWholeSync, Whole!Spec
=============================================================================
