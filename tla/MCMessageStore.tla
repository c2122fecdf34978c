--------------------------- MODULE MCMessageStore ---------------------------
(* MessageStore for TLC: at most MaxCalls events and user actions.          *)
EXTENDS MessageStore, TLC

CONSTANTS MaxCalls, lid, pn, m1, m2, m3

VARIABLES called

mcVars == <<storeVars, called>>

\* The first two messages are sent in the same second.
MCTs == [i \in Ids |-> IF i = m3 THEN 1 ELSE 0]

MCPn == [c \in Chats |-> pn]

\* The app starts.
MCInit == StoreInit /\ called = 0

\* The app has started with an empty cache.
MCBooted ==
    /\ msgs = [k \in Keys |-> None] /\ chatRow = [c \in Chats |-> None]
    /\ account = None /\ wiped = 0
    /\ pending = NoOps /\ msgTimer = FALSE /\ chatsTimer = FALSE
    /\ enabled = TRUE /\ open = TRUE /\ epoch = 0
    /\ job = [j \in Jobs |-> Idle] /\ txq = <<>>
    /\ mem = [k \in Keys |-> None] /\ exhausted = {} /\ loadingOlder = {}
    /\ active = None /\ shown = None
    /\ known = {} /\ heard = {} /\ removed = {}
    /\ called = 0

Counted(event) == called < MaxCalls /\ event /\ called' = called + 1
Uncounted(step) == step /\ UNCHANGED called

MCNext ==
    \/ Counted(Deliver \/ DeliverHistory \/ Change \/ User \/ Unify \/ Reset)
    \/ Uncounted(Boot \/ StoreStep)

\* One account: no merges and no resets.
MCPagingNext ==
    \/ Counted(Deliver \/ DeliverHistory \/ Change \/ User)
    \/ Uncounted(StoreStep)

MCSpec == MCInit /\ [][MCNext]_mcVars

MCPagingSpec == MCBooted /\ [][MCPagingNext]_mcVars

Symmetry == Permutations(Jobs)
=============================================================================
