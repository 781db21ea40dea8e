--------------------------- MODULE WholeChatSync ---------------------------
(***************************************************************************)
(* What chat synchronisation promises, as if every transfer carried the    *)
(* whole chat: a save stores what the tab's chat was at one moment, and    *)
(* opening a chat yields what the server held at one moment.               *)
(***************************************************************************)
EXTENDS Sequences

CONSTANTS Messages, Nothing

VARIABLES
    chat,       \* the chat in the tab, Nothing while it is a placeholder
    stored,     \* the chat on the server
    offered,    \* the chat a save under way carries
    fetched     \* the chat an answer under way carries

vars == <<chat, stored, offered, fetched>>

Chats == Seq(Messages)

Init ==
    /\ chat = Nothing /\ stored \in Chats
    /\ offered = Nothing /\ fetched = Nothing

Edit == chat # Nothing /\ chat' \in Chats /\ UNCHANGED <<stored, offered, fetched>>
Offer == chat # Nothing /\ offered' = chat /\ UNCHANGED <<chat, stored, fetched>>
Store == offered # Nothing /\ stored' = offered /\ offered' = Nothing /\ UNCHANGED <<chat, fetched>>
Withdraw == offered' = Nothing /\ UNCHANGED <<chat, stored, fetched>>
OtherDevice == stored' \in Chats /\ UNCHANGED <<chat, offered, fetched>>
Answer == chat = Nothing /\ fetched' = stored /\ UNCHANGED <<chat, stored, offered>>
Open == fetched # Nothing /\ chat' = fetched /\ fetched' = Nothing /\ UNCHANGED <<stored, offered>>
Leave == chat' = Nothing /\ offered' = Nothing /\ fetched' = Nothing /\ UNCHANGED stored

Next == Edit \/ Offer \/ Store \/ Withdraw \/ OtherDevice \/ Answer \/ Open \/ Leave

Spec == Init /\ [][Next]_vars
=============================================================================
