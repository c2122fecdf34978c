------------------------------ MODULE Persist ------------------------------
(***************************************************************************)
(* The write-behind message cache of svelte-frontend/src/lib/persist.ts:   *)
(* a queue of pending per-message writes in front of IndexedDB, flushed by *)
(* a debounce timer, plus read-modify-write patches, LID->PN moves and the *)
(* wipe done on logout.                                                    *)
(*                                                                         *)
(* JavaScript runs one callback at a time, so every callback is one action *)
(* and interleaving happens only where the code awaits.  An asynchronous   *)
(* call in progress is a job; IndexedDB runs overlapping read-write        *)
(* transactions in the order they were created, which is the order of txq. *)
(* Before the database is open every caller awaits the same promise, whose *)
(* continuations run in call order, so txq also orders the waiting calls.  *)
(*                                                                         *)
(* A message is abstracted to the epoch it was received in (`born') and    *)
(* the set of updates (receipt, edit, reaction, revoke...) it reflects.    *)
(***************************************************************************)
EXTENDS Naturals, Sequences, FiniteSets

CONSTANTS
    Chats,       \* chat JIDs
    Ids,         \* message ids
    Ts,          \* Ids -> timestamp in seconds
    Updates,     \* updates a message can receive after its arrival
    Jobs,        \* slots for asynchronous calls in progress
    FlushSlice,  \* FLUSH_SLICE: records per write transaction
    None         \* `undefined': no row, no queued write

ASSUME FlushSliceAssumption == FlushSlice \in Nat \ {0}

ASSUME TsAssumption == Ts \in [Ids -> Nat]

Keys == Chats \X Ids

ASSUME KeysAssumption == IsFiniteSet(Keys)

Message == [born : Nat, upd : SUBSET Updates]

ASSUME NoneAssumption ==
    /\ None \notin Message
    /\ None \notin [op : {"put", "add"}, m : Message] \cup [op : {"del"}]
    /\ None \notin Nat

VARIABLES
    msgs,        \* object store "msgs": Keys -> stored message
    chatRow,     \* object store "chats": Chats -> epoch the row is from
    account,     \* META_ACCOUNT: the epoch setAccount was called in
    pending,     \* queued writes: Keys -> PendingOp
    enabled,     \* persistence switched on (boot hydration is over)
    open,        \* openDb's promise has resolved
    epoch,       \* bumped by clearAll
    msgTimer,    \* the message flush timer is armed
    chatsTimer,  \* the chat row flush timer is armed
    job,         \* asynchronous calls in progress
    txq,         \* transactions created and not yet run, oldest first
    wiped        \* epoch begun by the latest wipe that committed

disk == <<msgs, chatRow, account, wiped>>
queue == <<pending, msgTimer>>
calls == <<job, txq>>
switches == <<enabled, open, epoch, chatsTimer>>
persistVars == <<disk, queue, calls, switches>>

(***************************************************************************)
(* Types                                                                   *)
(***************************************************************************)
WriteOp == [op : {"put", "add"}, m : Message]
PendingOp == WriteOp \cup [op : {"del"}]

NoOps == [k \in Keys |-> None]

OpOf(p) == IF p = None THEN "none" ELSE p.op

Idle == [kind |-> "idle"]

FlushJob == [kind : {"flush"}, st : {"tx", "stale", "resume"}, started : Nat,
             ops : [Keys -> PendingOp \cup {None}], slice : SUBSET Keys]
PatchJob == [kind : {"patch"}, st : {"tx", "stale", "done"}, started : Nat, key : Keys,
             upd : Updates, queued : WriteOp \cup {None}, res : Message \cup {None}]
MoveJob == [kind : {"move"}, st : {"tx", "stale"}, started : Nat, from : Chats, to : Chats]
ChatsJob == [kind : {"chats"}, st : {"tx", "stale"}, started : Nat, rows : SUBSET Chats]
AccountJob == [kind : {"account"}, st : {"tx"}, started : Nat]
ClearJob == [kind : {"clear"}, st : {"settle", "tx"}, era : Nat, waits : SUBSET Jobs]
LoadJob == [kind : {"load"}, st : {"tx"}, chat : Chats, limit : Nat,
            before : Nat \cup {None}, had : SUBSET Ids, opening : BOOLEAN]
GetJob == [kind : {"get"}, st : {"tx"}, key : Keys, fresh : Message]

JobType == {Idle} \cup FlushJob \cup PatchJob \cup MoveJob \cup ChatsJob
                  \cup AccountJob \cup ClearJob \cup LoadJob \cup GetJob

\* Well-typedness of the module state of persist.ts and of the stored rows.
PersistTypeOK ==
    /\ msgs \in [Keys -> Message \cup {None}]
    /\ chatRow \in [Chats -> Nat \cup {None}]
    /\ account \in Nat \cup {None}
    /\ pending \in [Keys -> PendingOp \cup {None}]
    /\ enabled \in BOOLEAN
    /\ open \in BOOLEAN
    /\ epoch \in Nat
    /\ msgTimer \in BOOLEAN
    /\ chatsTimer \in BOOLEAN
    /\ job \in [Jobs -> JobType]
    /\ txq \in Seq(Jobs)
    /\ wiped \in Nat

(***************************************************************************)
(* Jobs                                                                    *)
(***************************************************************************)
\* The promises in `inflight': calls made through track().
Tracked == {"flush", "patch", "move", "chats"}
Inflight == {j \in Jobs : job[j].kind \in Tracked}

\* job[j] becomes b; once a call has returned no clearAll waits for it.
SetJob(j, b) ==
    job' = [i \in Jobs |->
              CASE i = j -> b
                [] i # j /\ b = Idle /\ job[i].kind = "clear"
                     -> [job[i] EXCEPT !.waits = @ \ {j}]
                [] OTHER -> job[i]]

\* A call that reaches its first await and will create a transaction.
Enqueue(j, b) ==
    /\ job[j] = Idle
    /\ job' = [job EXCEPT ![j] = b]
    /\ txq' = Append(txq, j)

\* The oldest transaction; it can run once the database is open.
Running(j, kind) ==
    /\ open
    /\ txq # <<>>
    /\ j = Head(txq)
    /\ job[j].kind = kind
    /\ job[j].st = "tx"
    /\ txq' = Tail(txq)

\* scheduleFlushMessages, called with the queue as it is after the step.
ScheduleFlushMessages ==
    msgTimer' = (msgTimer \/ (enabled /\ pending' # NoOps))

(***************************************************************************)
(* Calls made by the stores.  Each runs to its first await.                *)
(***************************************************************************)
\* Queue a write of one message (insert or update).
PersistMessage(k, m) ==
    /\ pending' = [pending EXCEPT ![k] = [op |-> "put", m |-> m]]
    /\ ScheduleFlushMessages

\* Queue an insert-only write, unless a full write is already queued.
PersistMessageInsert(k, m) ==
    IF OpOf(pending[k]) = "put"
    THEN UNCHANGED queue
    ELSE /\ pending' = [pending EXCEPT ![k] = [op |-> "add", m |-> m]]
         /\ ScheduleFlushMessages

\* Queue a delete of one message.
PersistMessageDelete(k) ==
    /\ pending' = [pending EXCEPT ![k] = [op |-> "del"]]
    /\ ScheduleFlushMessages

Patched(m, u) == [m EXCEPT !.upd = @ \cup {u}]

\* patchPersistedMessage: apply u to the queued full write if there is one,
\* give up on a queued delete, otherwise read-modify-write the stored row.
PatchPersistedMessage(j, k, u) ==
    LET op == OpOf(pending[k])
        call == [kind |-> "patch", st |-> "done", started |-> epoch, key |-> k,
                 upd |-> u, queued |-> None, res |-> None]
    IN  /\ job[j] = Idle
        /\ \/ /\ op = "put"
              /\ pending' = [pending EXCEPT ![k].m = Patched(@, u)]
              /\ job' = [job EXCEPT ![j] = [call EXCEPT !.res = pending'[k].m]]
              /\ UNCHANGED txq
           \/ /\ op = "del"
              /\ job' = [job EXCEPT ![j] = call]
              /\ UNCHANGED <<pending, txq>>
           \/ /\ op \in {"none", "add"}
              /\ Enqueue(j, [call EXCEPT !.st = "tx", !.queued = pending[k]])
              /\ UNCHANGED pending
        /\ UNCHANGED <<disk, switches, msgTimer>>

\* Chat `from' emptied, its rows (or queued writes) `moving' re-keyed to `to'.
Rekeyed(f, from, to, moving) ==
    [k \in Keys |->
        IF k[1] = from THEN None
        ELSE IF k[1] = to /\ k[2] \in moving THEN f[<<from, k[2]>>]
        ELSE f[k]]

IsWrite(p) == OpOf(p) \in {"put", "add"}

\* Fault: the writes queued under the old key are dropped, not re-keyed.
MoveDroppingQueue(j, from, to) ==
    /\ from # to
    /\ pending' = [k \in Keys |-> IF k[1] = from THEN None ELSE pending[k]]
    /\ Enqueue(j, [kind |-> "move", st |-> "tx", started |-> epoch, from |-> from, to |-> to])
    /\ UNCHANGED <<disk, switches, msgTimer>>

\* movePersistedChat: queued writes change key at once, rows when the
\* transaction runs.  A queued delete of the old key is dropped.
MovePersistedChat(j, from, to) ==
    /\ from # to
    /\ pending' = Rekeyed(pending, from, to, {i \in Ids : IsWrite(pending[<<from, i>>])})
    /\ Enqueue(j, [kind |-> "move", st |-> "tx", started |-> epoch, from |-> from, to |-> to])
    /\ UNCHANGED <<disk, switches, msgTimer>>

\* Fault: the reset forgets to empty the write queue.
ClearAllKeepingQueue(j) ==
    /\ job[j] = Idle
    /\ epoch' = epoch + 1
    /\ chatsTimer' = FALSE
    /\ job' = [job EXCEPT ![j] = [kind |-> "clear", st |-> "settle",
                                  era |-> epoch', waits |-> Inflight]]
    /\ UNCHANGED <<disk, queue, enabled, open, txq>>

\* clearAll up to the wait for the writes in flight.
ClearAll(j) ==
    /\ job[j] = Idle
    /\ epoch' = epoch + 1
    /\ pending' = NoOps
    /\ msgTimer' = FALSE
    /\ chatsTimer' = FALSE
    /\ job' = [job EXCEPT ![j] = [kind |-> "clear", st |-> "settle",
                                  era |-> epoch', waits |-> Inflight]]
    /\ UNCHANGED <<disk, enabled, open, txq>>

SetAccount(j) ==
    /\ Enqueue(j, [kind |-> "account", st |-> "tx", started |-> epoch])
    /\ UNCHANGED <<disk, queue, switches>>

\* Fault: writes queued during boot are not scheduled when it ends.
EnableWithoutFlush ==
    /\ enabled' = TRUE
    /\ chatsTimer' = TRUE
    /\ UNCHANGED <<disk, calls, queue, open, epoch>>

EnablePersistence ==
    /\ enabled' = TRUE
    /\ chatsTimer' = TRUE
    /\ msgTimer' = (msgTimer \/ pending # NoOps)
    /\ UNCHANGED <<disk, calls, pending, open, epoch>>

DiscardPending ==
    /\ pending' = NoOps
    /\ msgTimer' = FALSE
    /\ UNCHANGED <<disk, calls, switches>>

SchedulePersistChats ==
    /\ chatsTimer' = (chatsTimer \/ enabled)
    /\ UNCHANGED <<disk, queue, calls, enabled, open, epoch>>

(***************************************************************************)
(* flushMessages: capture and clear the queue, then write it in slices of  *)
(* FlushSlice records, one transaction each.  The Map's insertion order    *)
(* decides which records share a slice; here any choice is possible.       *)
(***************************************************************************)
Queued(ops) == {k \in Keys : ops[k] # None}

Slices(ks) ==
    {s \in SUBSET ks : \/ s = ks /\ Cardinality(ks) <= FlushSlice
                       \/ Cardinality(s) = FlushSlice}

FlushMessages(j) ==
    LET call == [kind |-> "flush", st |-> "resume", started |-> epoch,
                 ops |-> pending, slice |-> {}]
    IN  /\ job[j] = Idle
        /\ pending' = NoOps
        /\ msgTimer' = FALSE
        /\ \/ /\ pending = NoOps
              /\ job' = [job EXCEPT ![j] = call]
              /\ UNCHANGED txq
           \/ /\ pending # NoOps
              /\ \E s \in Slices(Queued(pending)) :
                    Enqueue(j, [call EXCEPT !.st = "tx", !.slice = s])
        /\ UNCHANGED <<disk, switches>>

\* The debounce timer expires.
FlushTimer(j) == msgTimer /\ FlushMessages(j)

\* flushPendingWrites: flush now instead of waiting for the timer.
FlushPendingWrites(j) == FlushMessages(j)

\* The debounce timer of the chat rows expires: flushChats puts a row for
\* every chat in memory, whichever those are.
FlushChats(j) ==
    /\ chatsTimer
    /\ chatsTimer' = FALSE
    /\ \E rows \in SUBSET Chats :
          Enqueue(j, [kind |-> "chats", st |-> "tx", started |-> epoch, rows |-> rows])
    /\ UNCHANGED <<disk, queue, enabled, open, epoch>>

(***************************************************************************)
(* Reads.  They wait their turn in txq but are neither tracked nor subject *)
(* to the epoch.  What is done with the answer is up to the store that     *)
(* asked (module MessageStore).                                            *)
(***************************************************************************)
\* Ids that may be the newest n of `ids': messages of the same second tie.
Newest(ids, n) ==
    {t \in SUBSET ids : /\ \/ t = ids /\ Cardinality(ids) <= n
                          \/ Cardinality(t) = n
                       /\ \A i \in t, o \in ids \ t : Ts[i] >= Ts[o]}

NotAfter(i, before) == before = None \/ Ts[i] <= before

\* pendingFor: unflushed writes of the chat (a queued delete is skipped).
PendingFor(c, before) == {i \in Ids : IsWrite(pending[<<c, i>>]) /\ NotAfter(i, before)}

\* loadLatestMessages: the newest `limit' rows, then the queue as it is when
\* they have been read, pending writes winning over rows.
LoadedIds(c, limit, before) ==
    LET stored == {i \in Ids : msgs[<<c, i>>] # None /\ NotAfter(i, before)}
        extra == PendingFor(c, before)
    IN  UNION {IF extra = {} THEN {rows} ELSE Newest(rows \cup extra, limit)
                  : rows \in Newest(stored, limit)}

LoadedMessage(k) == IF IsWrite(pending[k]) THEN pending[k].m ELSE msgs[k]

LoadLatestMessages(j, c, limit, before, had, opening) ==
    Enqueue(j, [kind |-> "load", st |-> "tx", chat |-> c, limit |-> limit,
                before |-> before, had |-> had, opening |-> opening])

\* getPersistedMessage, when it has to read the row.
GetPersistedMessage(j, k, fresh) ==
    Enqueue(j, [kind |-> "get", st |-> "tx", key |-> k, fresh |-> fresh])

(***************************************************************************)
(* Steps of calls in progress                                              *)
(***************************************************************************)
\* openDb resolves: every waiting call resumes in call order, and a call
\* that checks the epoch and finds it bumped gives up.
OpenDb ==
    /\ ~open
    /\ open' = TRUE
    /\ job' = [j \in Jobs |->
                 IF job[j].kind \in Tracked /\ job[j].st = "tx" /\ job[j].started # epoch
                 THEN [job[j] EXCEPT !.st = "stale"]
                 ELSE job[j]]
    /\ UNCHANGED <<disk, queue, enabled, epoch, chatsTimer, txq>>

\* A call that gave up returns without creating a transaction.
StaleReturn(j) ==
    /\ txq # <<>>
    /\ j = Head(txq)
    /\ job[j].kind \in Tracked
    /\ job[j].st = "stale"
    /\ txq' = Tail(txq)
    /\ SetJob(j, IF job[j].kind = "patch" THEN [job[j] EXCEPT !.st = "done"] ELSE Idle)
    /\ UNCHANGED <<disk, queue, switches>>

\* The effect on a row of one queued write.
Written(op, row) ==
    CASE OpOf(op) = "put" -> op.m
      [] OpOf(op) = "add" -> IF row = None THEN op.m ELSE row
      [] OpOf(op) = "del" -> None
      [] OTHER -> row

\* One slice of a flush commits.
FlushTx(j) ==
    /\ Running(j, "flush")
    /\ LET f == job[j]
       IN  /\ msgs' = [k \in Keys |-> IF k \in f.slice THEN Written(f.ops[k], msgs[k])
                                                       ELSE msgs[k]]
           /\ job' = [job EXCEPT ![j].st = "resume", ![j].slice = {},
                        ![j].ops = [k \in Keys |-> IF k \in f.slice THEN None ELSE f.ops[k]]]
    /\ UNCHANGED <<chatRow, account, wiped, queue, switches>>

\* Fault: a flush overtaken by a reset never settles its promise.
FlushResumeHanging(j) ==
    /\ open
    /\ job[j].kind = "flush"
    /\ job[j].st = "resume"
    /\ LET left == Queued(job[j].ops)
       IN  \/ /\ left # {}
              /\ job[j].started = epoch
              /\ \E s \in Slices(left) :
                    job' = [job EXCEPT ![j].st = "tx", ![j].slice = s]
              /\ txq' = Append(txq, j)
              /\ UNCHANGED queue
           \/ /\ left = {}
              /\ SetJob(j, Idle)
              /\ UNCHANGED <<pending, txq>>
              /\ ScheduleFlushMessages
    /\ UNCHANGED <<disk, switches>>

\* The flush goes on after `await txDone': next slice, stop after a reset, or
\* finish and arm the timer for what was queued meanwhile.
FlushResume(j) ==
    /\ open
    /\ job[j].kind = "flush"
    /\ job[j].st = "resume"
    /\ LET left == Queued(job[j].ops)
       IN  \/ /\ left # {}
              /\ job[j].started = epoch
              /\ \E s \in Slices(left) :
                    job' = [job EXCEPT ![j].st = "tx", ![j].slice = s]
              /\ txq' = Append(txq, j)
              /\ UNCHANGED queue
           \/ /\ left # {}
              /\ job[j].started # epoch
              /\ SetJob(j, Idle)
              /\ UNCHANGED <<queue, txq>>
           \/ /\ left = {}
              /\ SetJob(j, Idle)
              /\ UNCHANGED <<pending, txq>>
              /\ ScheduleFlushMessages
    /\ UNCHANGED <<disk, switches>>

\* The message a patch works on: the stored row, else the insert that was
\* queued when the patch was called.
Current(p) == IF msgs[p.key] # None THEN msgs[p.key]
              ELSE IF p.queued # None THEN p.queued.m
              ELSE None

\* The patch's get answers: drop the queued insert a stored row makes moot,
\* whatever is queued under the key by now, and put the patched message.
PatchUnqueue(p) ==
    pending' = IF msgs[p.key] # None /\ p.queued # None
               THEN [pending EXCEPT ![p.key] = None]
               ELSE pending

PatchTx(j) ==
    /\ Running(j, "patch")
    /\ LET p == job[j]
           cur == Current(p)
           next == IF cur = None THEN None ELSE Patched(cur, p.upd)
       IN  /\ PatchUnqueue(p)
           /\ msgs' = [msgs EXCEPT ![p.key] = next]
           /\ job' = [job EXCEPT ![j].st = "done", ![j].res = next]
    /\ UNCHANGED <<chatRow, account, wiped, msgTimer, switches>>

\* The patch's promise resolves.
PatchReturn(j) ==
    /\ job[j].kind = "patch"
    /\ job[j].st = "done"
    /\ SetJob(j, Idle)
    /\ UNCHANGED <<disk, queue, switches, txq>>

MoveTx(j) ==
    /\ Running(j, "move")
    /\ LET f == job[j].from
       IN  msgs' = Rekeyed(msgs, f, job[j].to, {i \in Ids : msgs[<<f, i>>] # None})
    /\ chatRow' = [chatRow EXCEPT ![job[j].from] = None]
    /\ SetJob(j, Idle)
    /\ UNCHANGED <<account, wiped, queue, switches>>

ChatsTx(j) ==
    /\ Running(j, "chats")
    /\ chatRow' = [c \in Chats |-> IF c \in job[j].rows THEN job[j].started ELSE chatRow[c]]
    /\ SetJob(j, Idle)
    /\ UNCHANGED <<msgs, account, wiped, queue, switches>>

AccountTx(j) ==
    /\ Running(j, "account")
    /\ account' = job[j].started
    /\ SetJob(j, Idle)
    /\ UNCHANGED <<msgs, chatRow, wiped, queue, switches>>

\* Every write clearAll waited for has returned: create its transaction.
ClearSettled(j) ==
    /\ job[j].kind = "clear"
    /\ job[j].st = "settle"
    /\ job[j].waits = {}
    /\ job' = [job EXCEPT ![j].st = "tx"]
    /\ txq' = Append(txq, j)
    /\ UNCHANGED <<disk, queue, switches>>

\* Fault: the wipe leaves the meta store alone.
ClearTxKeepingMeta(j) ==
    /\ Running(j, "clear")
    /\ msgs' = [k \in Keys |-> None]
    /\ chatRow' = [c \in Chats |-> None]
    /\ wiped' = IF job[j].era > wiped THEN job[j].era ELSE wiped
    /\ SetJob(j, Idle)
    /\ UNCHANGED <<account, queue, switches>>

ClearTx(j) ==
    /\ Running(j, "clear")
    /\ msgs' = [k \in Keys |-> None]
    /\ chatRow' = [c \in Chats |-> None]
    /\ account' = None
    /\ wiped' = IF job[j].era > wiped THEN job[j].era ELSE wiped
    /\ SetJob(j, Idle)
    /\ UNCHANGED <<queue, switches>>

(***************************************************************************)
(* Failures                                                                *)
(***************************************************************************)
\* A transaction aborts (quota, disk error) and nothing of it is stored.  The
\* catch blocks only log: a flush forgets every record it had captured.
TxAbort(j) ==
    /\ \E kind \in Tracked \cup {"account", "clear", "load", "get"} : Running(j, kind)
    /\ SetJob(j, IF job[j].kind = "patch" THEN [job[j] EXCEPT !.st = "done"] ELSE Idle)
    /\ IF job[j].kind = "patch"
       THEN PatchUnqueue(job[j]) \/ UNCHANGED pending
       ELSE UNCHANGED pending
    /\ IF job[j].kind = "flush" THEN ScheduleFlushMessages ELSE UNCHANGED msgTimer
    /\ UNCHANGED <<disk, switches>>

\* The app is closed or crashes and starts again: only the disk survives.
\* (The code's epoch restarts at 0; no call survives to compare with it, so
\* the model lets it run on.)
Restart ==
    /\ pending' = NoOps
    /\ enabled' = FALSE
    /\ open' = FALSE
    /\ msgTimer' = FALSE
    /\ chatsTimer' = FALSE
    /\ job' = [j \in Jobs |-> Idle]
    /\ txq' = <<>>
    /\ UNCHANGED <<disk, epoch>>

(***************************************************************************)
(* Specification                                                           *)
(***************************************************************************)
PersistInit ==
    /\ msgs = [k \in Keys |-> None]
    /\ chatRow = [c \in Chats |-> None]
    /\ account = None
    /\ pending = NoOps
    /\ enabled = FALSE
    /\ open = FALSE
    /\ epoch = 0
    /\ msgTimer = FALSE
    /\ chatsTimer = FALSE
    /\ job = [j \in Jobs |-> Idle]
    /\ txq = <<>>
    /\ wiped = 0

\* What the stores may call, with messages received in the current epoch.
Call ==
    \/ /\ \E k \in Keys : \/ \E us \in SUBSET Updates :
                              LET m == [born |-> epoch, upd |-> us]
                              IN  PersistMessage(k, m) \/ PersistMessageInsert(k, m)
                        \/ PersistMessageDelete(k)
       /\ UNCHANGED <<disk, calls, switches>>
    \/ \E j \in Jobs, k \in Keys, u \in Updates : PatchPersistedMessage(j, k, u)
    \/ \E j \in Jobs, from, to \in Chats : MovePersistedChat(j, from, to)
    \/ \E j \in Jobs : ClearAll(j) \/ SetAccount(j) \/ FlushPendingWrites(j)
    \/ EnablePersistence
    \/ DiscardPending
    \/ SchedulePersistChats

Step(j) ==
    \/ FlushTimer(j) \/ FlushTx(j) \/ FlushResume(j)
    \/ FlushChats(j) \/ ChatsTx(j)
    \/ PatchTx(j) \/ PatchReturn(j)
    \/ MoveTx(j) \/ AccountTx(j)
    \/ ClearSettled(j) \/ ClearTx(j)
    \/ StaleReturn(j)

Failure == Restart \/ \E j \in Jobs : TxAbort(j)

PersistNext == Call \/ OpenDb \/ (\E j \in Jobs : Step(j)) \/ Failure

PersistSpec == PersistInit /\ [][PersistNext]_persistVars

\* IndexedDB opens and runs every transaction it has accepted, the event loop
\* runs every continuation, and timers expire.
PersistFairness ==
    /\ WF_persistVars(OpenDb)
    /\ WF_persistVars(\E j \in Jobs : FlushTimer(j))
    /\ WF_persistVars(\E j \in Jobs : FlushChats(j))
    /\ \A j \in Jobs :
          /\ WF_persistVars(FlushTx(j) \/ FlushResume(j))
          /\ WF_persistVars(PatchTx(j) \/ PatchReturn(j) \/ StaleReturn(j))
          /\ WF_persistVars(ChatsTx(j) \/ MoveTx(j) \/ AccountTx(j))
          /\ WF_persistVars(ClearSettled(j) \/ ClearTx(j))

(***************************************************************************)
(* Properties                                                              *)
(***************************************************************************)
\* clearAll's promise (persist.ts:316-318): once a wipe has committed, no row
\* of a message, of a chat or of the account that stems from before the wipe is
\* stored: not by a flush or patch under way during the reset, not by a queued
\* write, a slice of a longer flush, or a call that waited for the database.
NothingLandsAfterWipe ==
    /\ \A k \in Keys : msgs[k] # None => msgs[k].born >= wiped
    /\ \A c \in Chats : chatRow[c] # None => chatRow[c] >= wiped

\* setAccount takes no part in the epoch or in `inflight'; only the order of
\* the transactions keeps a marker written by an old call off a wiped cache.
AccountMarkerWiped == account # None => account >= wiped

\* No write is stranded: while persistence is on, a queued write always has an
\* armed timer behind it (scheduleFlushMessages is called wherever needed).
QueuedWritesHaveTimer == enabled /\ pending # NoOps => msgTimer

\* A reset gets through: clearAll waits for promises of calls that themselves
\* stop only when they notice the reset (`await Promise.allSettled'), so each of
\* them has to settle for the wipe to commit, or to fail with the disk.
WipeSettles == \A j \in Jobs : job[j].kind = "clear" ~> job[j].kind # "clear"

\* When the stores fall silent the write-behind queue drains: nothing stays
\* queued and no call stays in progress, whatever overtook whatever.
QueueDrains == <>[](enabled => pending = NoOps /\ \A j \in Jobs : job[j] = Idle)

=============================================================================
