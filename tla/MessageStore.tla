---------------------------- MODULE MessageStore ----------------------------
(***************************************************************************)
(* The per-chat message lists of stores/messages.svelte.ts: a bounded      *)
(* in-memory window over the write-behind cache (module Persist), driven   *)
(* by the events of stores/events.ts, the chat the user has open           *)
(* (MessageList.svelte) and the LID->PN merges of stores/lid.ts.           *)
(*                                                                         *)
(* The unread flag is not part of a message here: a step that may change   *)
(* flags may persist any of the incoming messages it looks at.             *)
(***************************************************************************)
EXTENDS Persist

CONSTANTS
    ResidentTail,  \* RESIDENT_TAIL: messages kept for a chat that is not open
    Page,          \* PAGE: messages paged in per scroll-up or on open
    Keep,          \* what trimChat keeps of the open chat
    Pn,            \* the server's LID -> PN mapping (identity on a PN chat)
    Incoming,      \* ids of messages from others: the ones with an unread flag
    Media,         \* the update that stands for media filled in later
    Revoke         \* the update that deletes a message for everyone

ASSUME IdsAssumption == IsFiniteSet(Ids)

ASSUME WindowAssumption ==
    {ResidentTail, Page, Keep} \subseteq Nat \ {0} /\ ResidentTail <= Keep

ASSUME PnAssumption == Pn \in [Chats -> Chats] /\ \A c \in Chats : Pn[Pn[c]] = Pn[c]

VARIABLES
    mem,           \* messagesByChat
    active,        \* chatUi.activeJid
    shown,         \* the chat MessageList has open
    exhausted,     \* chats with nothing older to page in
    loadingOlder,  \* chats with a loadOlder under way
    known,         \* LIDs whose mapping has been learned (lidToPn)
    heard,         \* history: ids accepted since the last reset was complete
    removed        \* history: ids deleted for me since the last reset

window == <<mem, exhausted, loadingOlder>>
ui == <<active, shown>>
history == <<heard, removed>>
storeVars == <<persistVars, window, ui, known, history>>

\* Well-typedness of the store; a chat that pages is one of the chats.
StoreTypeOK ==
    /\ PersistTypeOK
    /\ mem \in [Keys -> Message \cup {None}]
    /\ active \in Chats \cup {None}
    /\ shown \in Chats \cup {None}
    /\ exhausted \subseteq Chats
    /\ loadingOlder \subseteq Chats
    /\ known \subseteq Chats
    /\ heard \subseteq Ids
    /\ removed \subseteq Ids

(***************************************************************************)
(* The resident window                                                     *)
(***************************************************************************)
ResidentIn(mm, c) == {i \in Ids : mm[<<c, i>>] # None}
Resident(c) == ResidentIn(mem, c)
ChatKeys(c, ids) == {c} \X ids

canonicalJid(c) == IF c \in known THEN Pn[c] ELSE c

\* What mm may be after chat c is cut down to its newest n messages.
Trimmed(mm, c, n) ==
    {[k \in Keys |-> IF k[1] = c /\ k[2] \notin t THEN None ELSE mm[k]]
        : t \in Newest(ResidentIn(mm, c), n)}

Trim(mm, ex, c, n) == mem' \in Trimmed(mm, c, n) /\ exhausted' = ex \ {c}

Overfull(mm, c) == active # c /\ Cardinality(ResidentIn(mm, c)) > ResidentTail

\* commit: sort and, unless the chat is open, trim to the resident tail.
Commit(mm, ex, c) ==
    IF Overfull(mm, c)
    THEN Trim(mm, ex, c, ResidentTail)
    ELSE mem' = mm /\ exhausted' = ex

\* persistMessage for every key of ks.
PersistAll(ks, mm) ==
    /\ pending' = [k \in Keys |-> IF k \in ks THEN [op |-> "put", m |-> mm[k]] ELSE pending[k]]
    /\ ScheduleFlushMessages

\* The user interface has caught up with activeJid.  Svelte runs its effects in
\* a microtask, before the next event, timer or transaction is handled.
Settled == shown = active

\* Until a wipe has committed the backend still runs the session being reset, and
\* what it delivers may be wiped too.
Accept(ids) == heard' = IF \E j \in Jobs : job[j].kind = "clear" THEN heard ELSE heard \cup ids

Quiet == Settled /\ UNCHANGED <<disk, switches, ui, known, removed>>

(***************************************************************************)
(* Messages arrive                                                         *)
(***************************************************************************)
Adopted(stored, fresh) == [stored EXCEPT !.upd = @ \cup fresh.upd]

\* addMessage for a message that is resident already: fill in missing media.
AddDuplicate(c, i, m) ==
    LET k == <<c, i>>
    IN  /\ mem[k] # None
        /\ Media \in m.upd \ mem[k].upd
        /\ PersistMessage(k, Adopted(mem[k], m))
        /\ Commit([mem EXCEPT ![k] = Adopted(@, m)], exhausted, c)
        /\ UNCHANGED <<calls, loadingOlder, heard>>
        /\ Quiet

\* addMessage for a message that looks new.  adoptStored, which runs unless the
\* chat is exhausted after the commit, finds a queued full write at once and
\* otherwise asks the database.
AddNew(j, c, i, m) ==
    LET k == <<c, i>>
        mm == [mem EXCEPT ![k] = m]
        queued == OpOf(pending[k]) = "put"
        adopts == c \notin exhausted \/ Overfull(mm, c)
        copy == IF queued /\ adopts THEN Adopted(pending[k].m, m) ELSE m
    IN  /\ mem[k] = None
        /\ Commit([mm EXCEPT ![k] = copy], exhausted, c)
        /\ IF queued /\ adopts /\ mem'[k] # None /\ copy # pending[k].m
           THEN PersistMessage(k, copy)
           ELSE PersistMessageInsert(k, m)
        /\ IF adopts /\ ~queued THEN GetPersistedMessage(j, k, m) ELSE UNCHANGED calls
        /\ Accept({i})
        /\ UNCHANGED loadingOlder
        /\ Quiet

\* Fault: the answer is applied even if the bubble has changed meanwhile.
AdoptStoredBlindly(j) ==
    /\ Running(j, "get")
    /\ LET k == job[j].key
           stored == msgs[k]
           next == Adopted(stored, job[j].fresh)
       IN  IF stored = None \/ mem[k] = None
           THEN UNCHANGED <<queue, mem, exhausted>>
           ELSE /\ Commit([mem EXCEPT ![k] = next], exhausted, k[1])
                /\ IF next # stored THEN PersistMessage(k, next) ELSE UNCHANGED queue
    /\ SetJob(j, Idle)
    /\ UNCHANGED <<loadingOlder, heard>>
    /\ Quiet

\* The database answers adoptStored: the bubble takes over the stored copy if it
\* has not changed since.
AdoptStored(j) ==
    /\ Running(j, "get")
    /\ LET k == job[j].key
           stored == msgs[k]
           next == Adopted(stored, job[j].fresh)
       IN  IF stored = None \/ mem[k] # job[j].fresh
           THEN UNCHANGED <<queue, mem, exhausted>>
           ELSE /\ Commit([mem EXCEPT ![k] = next], exhausted, k[1])
                /\ IF next # stored THEN PersistMessage(k, next) ELSE UNCHANGED queue
    /\ SetJob(j, Idle)
    /\ UNCHANGED <<loadingOlder, heard>>
    /\ Quiet

\* Fault: a history batch is trimmed to the resident tail without being saved.
AddHistoryUnsaved(c, batch, flagged) ==
    LET fresh == batch \ Resident(c)
        mm == [k \in Keys |-> IF k \in ChatKeys(c, fresh)
                              THEN [born |-> epoch, upd |-> {}] ELSE mem[k]]
    IN  /\ batch # {}
        /\ flagged \subseteq ResidentIn(mm, c) \cap Incoming
        /\ PersistAll(ChatKeys(c, flagged), mm)
        /\ Commit(mm, exhausted, c)
        /\ Accept(fresh)
        /\ UNCHANGED <<calls, loadingOlder>>
        /\ Quiet

\* addHistoryMessages for one chat of a history batch: messages that are not
\* resident are written in full, and so is any message whose unread flag changes.
AddHistory(c, batch, flagged) ==
    LET fresh == batch \ Resident(c)
        mm == [k \in Keys |-> IF k \in ChatKeys(c, fresh)
                              THEN [born |-> epoch, upd |-> {}] ELSE mem[k]]
    IN  /\ batch # {}
        /\ flagged \subseteq ResidentIn(mm, c) \cap Incoming
        /\ PersistAll(ChatKeys(c, fresh \cup flagged), mm)
        /\ Commit(mm, exhausted, c)
        /\ Accept(fresh)
        /\ UNCHANGED <<calls, loadingOlder>>
        /\ Quiet

(***************************************************************************)
(* Messages change                                                         *)
(***************************************************************************)
\* updateMessage (applyReceipt, applyEdit, applyReaction): in memory when the
\* message is resident, otherwise in the database.
UpdateMessage(j, c, i, u) ==
    LET k == <<c, i>>
    IN  /\ u \notin {Media, Revoke}
        /\ IF mem[k] # None
           THEN /\ mem' = [mem EXCEPT ![k] = Patched(@, u)]
                /\ PersistMessage(k, Patched(mem[k], u))
                /\ UNCHANGED <<calls, disk, switches>>
           ELSE PatchPersistedMessage(j, k, u) /\ UNCHANGED mem
        /\ UNCHANGED <<exhausted, loadingOlder, heard>>
        /\ Quiet

ApplyRevoke(j, c, i) ==
    LET k == <<c, i>>
    IN  /\ Revoke \in Updates
        /\ IF mem[k] # None
           THEN /\ Commit([mem EXCEPT ![k] = Patched(@, Revoke)], exhausted, c)
                /\ PersistMessage(k, Patched(mem[k], Revoke))
                /\ UNCHANGED calls
           ELSE PatchPersistedMessage(j, k, Revoke) /\ UNCHANGED <<mem, exhausted>>
        /\ UNCHANGED <<loadingOlder, heard>>
        /\ Quiet

\* The patch of a revoke found no message: applyRevoke leaves a tombstone.
Unseen(j) ==
    job[j].kind = "patch" /\ job[j].st = "done" /\ job[j].upd = Revoke /\ job[j].res = None

RevokeUnseen(j) ==
    LET k == job[j].key
        tombstone == [born |-> job[j].started, upd |-> {Revoke}]
    IN  /\ Unseen(j)
        /\ IF mem[k] # None
           THEN UNCHANGED <<queue, mem, exhausted, heard>>
           ELSE /\ PersistMessage(k, tombstone)
                /\ Commit([mem EXCEPT ![k] = tombstone], exhausted, k[1])
                /\ Accept({k[2]})
        /\ SetJob(j, Idle)
        /\ UNCHANGED <<txq, loadingOlder>>
        /\ Quiet

\* removeMessage: delete for me.
RemoveMessage(c, i) ==
    /\ Settled
    /\ PersistMessageDelete(<<c, i>>)
    /\ mem' = [mem EXCEPT ![<<c, i>>] = None]
    /\ removed' = removed \cup {i}
    /\ UNCHANGED <<disk, calls, switches, exhausted, loadingOlder, ui, known, heard>>

\* syncUnreadFlagForChat, markMessageRead and markMessagesRead: persist the
\* messages whose flag changed.
SyncFlags(c, flagged) ==
    /\ flagged \subseteq Resident(c) \cap Incoming /\ flagged # {}
    /\ PersistAll(ChatKeys(c, flagged), mem)
    /\ Commit(mem, exhausted, c)
    /\ UNCHANGED <<calls, loadingOlder, heard>>
    /\ Quiet

(***************************************************************************)
(* Paging                                                                  *)
(***************************************************************************)
OldestTs(c) ==
    IF Resident(c) = {} THEN None
    ELSE CHOOSE t \in {Ts[i] : i \in Resident(c)} : \A i \in Resident(c) : t <= Ts[i]

\* Resident messages of the oldest resident second.
SameSecond(c) == {i \in Resident(c) : Ts[i] = OldestTs(c)}

\* Fault: the read is not enlarged by the messages it will find again.
StartLoadExact(j, c, count, opening) ==
    /\ LoadLatestMessages(j, c, count, OldestTs(c), Resident(c), opening)
    /\ loadingOlder' = loadingOlder \cup {c}

StartLoad(j, c, count, opening) ==
    /\ LoadLatestMessages(j, c, count + Cardinality(SameSecond(c)), OldestTs(c),
                          Resident(c), opening)
    /\ loadingOlder' = loadingOlder \cup {c}

\* loadOlder when the user scrolls up in the open chat (also loadUntil's step).
LoadOlder(j) ==
    /\ active # None
    /\ active \notin loadingOlder \cup exhausted
    /\ StartLoad(j, active, Page, FALSE)
    /\ UNCHANGED <<queue, mem, exhausted, heard>>
    /\ Quiet

\* The rows of loadOlder arrive.  When openChat asked for them it goes on to
\* syncUnreadFlagForChat.
LoadTx(j) ==
    /\ Running(j, "load")
    /\ LET c == job[j].chat
       IN  \E rows \in LoadedIds(c, job[j].limit, job[j].before), flagged \in SUBSET Ids :
              LET ex == IF Cardinality(rows) < job[j].limit THEN exhausted \cup {c} ELSE exhausted
                  mm == [k \in Keys |-> IF mem[k] = None /\ k \in ChatKeys(c, rows)
                                        THEN LoadedMessage(k) ELSE mem[k]]
              IN  /\ flagged \subseteq (IF job[j].opening THEN ResidentIn(mm, c) \cap Incoming ELSE {})
                  /\ IF flagged = {}
                     THEN mem' = mm /\ exhausted' = ex /\ UNCHANGED queue
                     ELSE Commit(mm, ex, c) /\ PersistAll(ChatKeys(c, flagged), mm)
                  /\ loadingOlder' = loadingOlder \ {c}
    /\ SetJob(j, Idle)
    /\ UNCHANGED heard
    /\ Quiet

\* The user selects a chat, or leaves the list (None).
SelectChat(c) ==
    /\ Settled
    /\ c \notin known \cup {active}
    /\ \E j \in Jobs : job[j] = Idle
    /\ active' = c
    /\ UNCHANGED <<persistVars, window, shown, known, history>>

\* MessageList's effects: closeChat of the chat shown before, then openChat,
\* which pages in at least one page unless it is resident or nothing is older,
\* and joins a load that is already under way.
CloseChat(c) ==
    IF c # None /\ Cardinality(Resident(c)) > ResidentTail
    THEN Trim(mem, exhausted, c, ResidentTail)
    ELSE UNCHANGED <<mem, exhausted>>

\* The load in loadingOlder (a reset may have forgotten an earlier one).
LatestLoad(c) ==
    LET at == {n \in DOMAIN txq : job[txq[n]].kind = "load" /\ job[txq[n]].chat = c}
    IN  txq[CHOOSE n \in at : \A o \in at : o <= n]

OpenChat(j, c) ==
    LET have == Cardinality(Resident(c))
    IN  \/ /\ have >= Page \/ c \in exhausted
           /\ UNCHANGED <<calls, loadingOlder>>
           /\ \E flagged \in SUBSET (Resident(c) \cap Incoming) : PersistAll(ChatKeys(c, flagged), mem)
        \/ /\ have < Page /\ c \notin exhausted
           /\ IF c \in loadingOlder
              THEN /\ job' = [job EXCEPT ![LatestLoad(c)].opening = TRUE]
                   /\ UNCHANGED <<txq, loadingOlder>>
              ELSE StartLoad(j, c, Page - have, TRUE)
           /\ UNCHANGED queue

ShowChat(j) ==
    /\ ~Settled
    /\ shown' = active
    /\ CloseChat(shown)
    /\ IF active = None THEN UNCHANGED <<calls, queue, loadingOlder>> ELSE OpenChat(j, active)
    /\ UNCHANGED <<disk, switches, active, known, history>>

\* trimChat: the user is back at the bottom of the open chat.
TrimChat ==
    /\ active # None
    /\ Cardinality(Resident(active)) > Keep
    /\ Trim(mem, exhausted, active, Keep)
    /\ UNCHANGED <<queue, calls, loadingOlder, heard>>
    /\ Quiet

(***************************************************************************)
(* Merges and resets                                                       *)
(***************************************************************************)
\* unifyLid's mapping is learned, or a known LID's twin has re-appeared:
\* applyMerge moves the messages in memory, the queued writes and the rows.  (It
\* does so when the LID has a chat row or messages in memory; chat rows are not
\* part of the model, so it may always happen.)
UnifyLid(j, c) ==
    LET to == Pn[c]
        mm == [k \in Keys |-> IF k[1] = c THEN None
                              ELSE IF k[1] = to /\ mem[k] = None THEN mem[<<c, k[2]>>]
                              ELSE mem[k]]
    IN  /\ Settled
        /\ active = c => \E i \in Jobs \ {j} : job[i] = Idle
        /\ IF Resident(c) = {} THEN mem' = mem /\ exhausted' = exhausted \ {c}
                               ELSE Commit(mm, exhausted \ {c, to}, to)
        /\ active' = IF active = c THEN to ELSE active
        /\ known' = known \cup {c}
        /\ MovePersistedChat(j, c, to)
        /\ UNCHANGED <<shown, loadingOlder, history>>

\* The mapping is learned before anything has arrived under the LID.
LearnLid(c) ==
    /\ Settled
    /\ c \notin known \cup {active, Pn[c]}
    /\ \A k \in ChatKeys(c, Ids) : mem[k] = None /\ msgs[k] = None /\ ~IsWrite(pending[k])
    /\ \A j \in Jobs : job[j].kind = "flush" => \A i \in Ids : ~IsWrite(job[j].ops[<<c, i>>])
    /\ known' = known \cup {c}
    /\ UNCHANGED <<persistVars, window, ui, history>>

\* resetAll up to its wait for clearAll.
ResetAll(j) ==
    /\ Settled
    /\ ClearAll(j)
    /\ mem' = [k \in Keys |-> None]
    /\ exhausted' = {}
    /\ loadingOlder' = {}
    /\ active' = None
    /\ known' = {}
    /\ heard' = {}
    /\ removed' = {}
    /\ UNCHANGED shown

(***************************************************************************)
(* Specification                                                           *)
(***************************************************************************)
StoreInit ==
    /\ PersistInit
    /\ mem = [k \in Keys |-> None]
    /\ active = None
    /\ shown = None
    /\ exhausted = {}
    /\ loadingOlder = {}
    /\ known = {}
    /\ heard = {}
    /\ removed = {}

\* Messages as the server delivers them: bare or with their media.
Delivered == {[born |-> epoch, upd |-> us] : us \in SUBSET (Updates \cap {Media})}

Deliver ==
    \E j \in Jobs, c \in Chats, i \in Ids, m \in Delivered :
       AddDuplicate(canonicalJid(c), i, m) \/ AddNew(j, canonicalJid(c), i, m)

DeliverHistory ==
    \E c \in Chats : \E batch, flagged \in SUBSET Ids :
       AddHistory(canonicalJid(c), batch, flagged)

Change ==
    \E c \in Chats, i \in Ids :
       \/ \E j \in Jobs : \/ ApplyRevoke(j, canonicalJid(c), i)
                          \/ \E u \in Updates : UpdateMessage(j, canonicalJid(c), i, u)
       \/ RemoveMessage(canonicalJid(c), i)

User ==
    \/ \E c \in Chats \cup {None} : SelectChat(c)
    \/ \E j \in Jobs : LoadOlder(j)
    \/ \E c \in Chats, flagged \in SUBSET Ids : SyncFlags(c, flagged)
    \/ TrimChat

\* startEventBridge, which runs once, has hydrated the stores.
Boot == Settled /\ ~enabled /\ EnablePersistence /\ UNCHANGED <<window, ui, known, history>>

Unify == \E c \in Chats : LearnLid(c) \/ \E j \in Jobs : UnifyLid(j, c)

Reset == \E j \in Jobs : ResetAll(j)

StoreStep ==
    \/ \E j \in Jobs : AdoptStored(j) \/ RevokeUnseen(j) \/ LoadTx(j) \/ ShowChat(j)
    \/ /\ Settled
       /\ OpenDb \/ \E j \in Jobs : ~Unseen(j) /\ Step(j)
       /\ UNCHANGED <<window, ui, known, history>>

StoreNext ==
    Deliver \/ DeliverHistory \/ Change \/ User \/ Boot \/ Unify \/ Reset \/ StoreStep

StoreSpec == StoreInit /\ [][StoreNext]_storeVars

(***************************************************************************)
(* Properties                                                              *)
(***************************************************************************)
\* A message can be found again: stored, queued, or captured by a flush.
Recoverable(i) ==
    \E c \in Chats : \/ msgs[<<c, i>>] # None
                     \/ IsWrite(pending[<<c, i>>])
                     \/ \E j \in Jobs : job[j].kind = "flush" /\ IsWrite(job[j].ops[<<c, i>>])

\* IndexedDB is the system of record (persist.ts:14): trimming a message out of
\* memory, merging its chat, patching it or flushing in slices never loses a
\* message that was accepted and not deleted, even before persistence is on.
NothingLost == \A i \in heard \ removed : Recoverable(i)

\* A redelivery, a page of rows, a merge or a late answer of the database never
\* takes an update away from a message that stays on screen.  (restoreMessage, which
\* takes back a change the server has rejected, is not modelled.)
ResidentNeverDowngraded ==
    [][\A k \in Keys : mem[k] # None /\ mem'[k] # None => mem[k].upd \subseteq mem'[k].upd]_storeVars

\* loadOlder makes progress "even when many messages share one timestamp"
\* (messages.svelte.ts:389-391): in the open chat, a read that finds the window as
\* it was adds a message or learns that nothing is older.
LoadMakesProgress ==
    [][\A j \in Jobs, c \in Chats :
          /\ job[j].kind = "load" /\ job'[j] = Idle
          /\ job[j].chat = c /\ active = c /\ Resident(c) = job[j].had
          => c \in exhausted' \/ Resident(c)' # Resident(c)]_storeVars

=============================================================================
