--------------------------- MODULE PersistProofs ---------------------------
(***************************************************************************)
(* Proofs about the write-behind cache of module Persist: its type         *)
(* invariant, that nothing of an old session lands after a wipe, that the  *)
(* mark of its account does not outlive it, that no queued write is left   *)
(* without a timer and no call, a wipe least of all, without a way on.     *)
(***************************************************************************)
EXTENDS Persist, TLAPS, FiniteSetTheorems

\* A job of a given kind has the fields of that kind.
LEMMA JobKinds ==
    ASSUME NEW b \in JobType
    PROVE  /\ b.kind = "flush" => b \in FlushJob
           /\ b.kind = "patch" => b \in PatchJob
           /\ b.kind = "move" => b \in MoveJob
           /\ b.kind = "chats" => b \in ChatsJob
           /\ b.kind = "account" => b \in AccountJob
           /\ b.kind = "clear" => b \in ClearJob
           /\ b.kind = "load" => b \in LoadJob
           /\ b.kind = "get" => b \in GetJob
BY DEF JobType, Idle, FlushJob, PatchJob, MoveJob, ChatsJob, AccountJob, ClearJob, LoadJob, GetJob

\* SetJob keeps every slot well typed.
LEMMA SetJobType ==
    ASSUME PersistTypeOK, NEW j \in Jobs, NEW b \in JobType, SetJob(j, b)
    PROVE  job' \in [Jobs -> JobType]
<1> SUFFICES ASSUME NEW i \in Jobs
             PROVE  (CASE i = j -> b
                       [] i # j /\ b = Idle /\ job[i].kind = "clear"
                            -> [job[i] EXCEPT !.waits = @ \ {j}]
                       [] OTHER -> job[i]) \in JobType
  BY Zenon DEF SetJob
<1>1. job[i] \in JobType
  BY Zenon DEF PersistTypeOK
<1>2. CASE i # j /\ b = Idle /\ job[i].kind = "clear"
  <2>1. job[i] \in ClearJob
    BY <1>1, <1>2, JobKinds, Zenon
  <2>2. [job[i] EXCEPT !.waits = @ \ {j}] \in ClearJob
    BY <2>1, Zenon DEF ClearJob
  <2> QED BY <1>2, <2>2, Zenon DEF JobType
<1>3. CASE ~(i # j /\ b = Idle /\ job[i].kind = "clear")
  BY <1>1, <1>3, Zenon
<1> QED BY <1>2, <1>3, Zenon

\* Putting a well-typed job in a slot keeps every slot well typed.
LEMMA SlotType ==
    ASSUME PersistTypeOK, NEW j \in Jobs, NEW b \in JobType,
           job' = [job EXCEPT ![j] = b]
    PROVE  job' \in [Jobs -> JobType]
BY Zenon DEF PersistTypeOK

\* Starting a call keeps the slots and the transaction queue well typed.
LEMMA EnqueueType ==
    ASSUME PersistTypeOK, NEW j \in Jobs, NEW b \in JobType, Enqueue(j, b)
    PROVE  job' \in [Jobs -> JobType] /\ txq' \in Seq(Jobs)
BY DEF Enqueue, PersistTypeOK

\* Running the oldest transaction leaves a sequence of slots.
LEMMA RunningType ==
    ASSUME PersistTypeOK, NEW j \in Jobs, NEW kind, Running(j, kind)
    PROVE  txq' \in Seq(Jobs)
BY DEF Running, PersistTypeOK

\* An idle slot is a job, and NoOps an empty queue.
LEMMA Constants ==
    /\ Idle \in JobType
    /\ NoOps \in [Keys -> PendingOp \cup {None}]
BY Zenon DEF JobType, NoOps

\* Capturing the queue for a flush.
LEMMA FlushMessagesType ==
    ASSUME PersistTypeOK, NEW j \in Jobs, FlushMessages(j)
    PROVE  PersistTypeOK'
<1> DEFINE call == [kind |-> "flush", st |-> "resume", started |-> epoch,
                    ops |-> pending, slice |-> {}]
<1>1. call \in FlushJob
  BY Zenon DEF FlushJob, PersistTypeOK
<1>2. pending' \in [Keys -> PendingOp \cup {None}] /\ msgTimer' \in BOOLEAN
      /\ UNCHANGED <<disk, switches>>
  BY Constants, Zenon DEF FlushMessages
<1>3. CASE pending = NoOps
  <2>1. job' = [job EXCEPT ![j] = call] /\ UNCHANGED txq
    BY <1>3, Zenon DEF FlushMessages
  <2>2. job' \in [Jobs -> JobType]
    BY <1>1, <2>1, SlotType, Zenon DEF JobType
  <2> QED BY <1>2, <2>1, <2>2, Zenon DEF PersistTypeOK, disk, switches
<1>4. CASE pending # NoOps
  <2>1. PICK s \in Slices(Queued(pending)) : Enqueue(j, [call EXCEPT !.st = "tx", !.slice = s])
    BY <1>4, Zenon DEF FlushMessages
  <2>2. s \in SUBSET Keys
    BY Zenon DEF Slices, Queued
  <2>3. [call EXCEPT !.st = "tx", !.slice = s] \in JobType
    BY <1>1, <2>2, Zenon DEF FlushJob, JobType
  <2>4. job' \in [Jobs -> JobType] /\ txq' \in Seq(Jobs)
    BY <2>1, <2>3, EnqueueType, Zenon
  <2> QED BY <1>2, <2>4, Zenon DEF PersistTypeOK, disk, switches
<1> QED BY <1>3, <1>4, Zenon

\* Every call the stores make keeps the state well typed.
LEMMA CallType == PersistTypeOK /\ Call => PersistTypeOK'
<1> SUFFICES ASSUME PersistTypeOK, Call PROVE PersistTypeOK'
  BY Zenon
<1>1. ASSUME NEW k \in Keys, NEW us \in SUBSET Updates,
             \/ PersistMessage(k, [born |-> epoch, upd |-> us])
             \/ PersistMessageInsert(k, [born |-> epoch, upd |-> us]),
             UNCHANGED <<disk, calls, switches>>
      PROVE  PersistTypeOK'
  <2>1. [born |-> epoch, upd |-> us] \in Message
    BY Zenon DEF PersistTypeOK, Message
  <2>2. pending' \in [Keys -> PendingOp \cup {None}] /\ msgTimer' \in BOOLEAN
    BY <1>1, <2>1 DEF PersistTypeOK, PersistMessage, PersistMessageInsert, PendingOp, WriteOp,
                      ScheduleFlushMessages, queue
  <2> QED BY <1>1, <2>2, Zenon DEF PersistTypeOK, disk, calls, switches
<1>2. ASSUME NEW k \in Keys, PersistMessageDelete(k), UNCHANGED <<disk, calls, switches>>
      PROVE  PersistTypeOK'
  BY <1>2, Zenon DEF PersistTypeOK, PersistMessageDelete, PendingOp, ScheduleFlushMessages,
              disk, calls, switches
<1>3. ASSUME NEW j \in Jobs, NEW k \in Keys, NEW u \in Updates, PatchPersistedMessage(j, k, u)
      PROVE  PersistTypeOK'
  <2> DEFINE call == [kind |-> "patch", st |-> "done", started |-> epoch, key |-> k,
                      upd |-> u, queued |-> None, res |-> None]
  <2>1. call \in PatchJob
    BY Zenon DEF PatchJob, PersistTypeOK
  <2>2. UNCHANGED <<disk, switches, msgTimer>>
    BY <1>3, Zenon DEF PatchPersistedMessage
  <2>3. CASE OpOf(pending[k]) = "put"
    <3>1. pending[k] \in WriteOp
      BY <2>3, Zenon DEF OpOf, PersistTypeOK, PendingOp, WriteOp
    <3>2. pending' = [pending EXCEPT ![k].m = Patched(@, u)] /\ UNCHANGED txq
          /\ job' = [job EXCEPT ![j] = [call EXCEPT !.res = pending'[k].m]]
      BY <1>3, <2>3, Zenon DEF PatchPersistedMessage
    <3>3. Patched(pending[k].m, u) \in Message
      BY <3>1, Zenon DEF WriteOp, Message, Patched
    <3>4. [pending[k] EXCEPT !.m = Patched(@, u)] \in WriteOp
      BY <3>1, <3>3, Zenon DEF WriteOp
    <3>5. pending' \in [Keys -> PendingOp \cup {None}] /\ pending'[k].m \in Message
      BY <3>1, <3>2, <3>3, <3>4, Zenon DEF PersistTypeOK, PendingOp, WriteOp
    <3>6. [call EXCEPT !.res = pending'[k].m] \in JobType
      BY <2>1, <3>5, Zenon DEF PatchJob, JobType
    <3>7. job' \in [Jobs -> JobType]
      BY <3>2, <3>6, SlotType, Zenon
    <3> QED BY <2>2, <3>2, <3>5, <3>7, Zenon DEF PersistTypeOK, disk, switches
  <2>4. CASE OpOf(pending[k]) = "del"
    <3>1. UNCHANGED <<pending, txq>> /\ job' = [job EXCEPT ![j] = call]
      BY <1>3, <2>4, Zenon DEF PatchPersistedMessage
    <3>2. job' \in [Jobs -> JobType]
      BY <2>1, <3>1, SlotType, Zenon DEF JobType
    <3> QED BY <2>2, <3>1, <3>2, Zenon DEF PersistTypeOK, disk, switches
  <2>5. CASE OpOf(pending[k]) \in {"none", "add"}
    <3>1. UNCHANGED pending /\ Enqueue(j, [call EXCEPT !.st = "tx", !.queued = pending[k]])
      BY <1>3, <2>5, Zenon DEF PatchPersistedMessage
    <3>2. pending[k] \in WriteOp \cup {None}
      BY <2>5, Zenon DEF OpOf, PersistTypeOK, PendingOp, WriteOp
    <3>3. [call EXCEPT !.st = "tx", !.queued = pending[k]] \in JobType
      BY <2>1, <3>2, Zenon DEF PatchJob, JobType
    <3>4. job' \in [Jobs -> JobType] /\ txq' \in Seq(Jobs)
      BY <3>1, <3>3, EnqueueType, Zenon
    <3> QED BY <2>2, <3>1, <3>4, Zenon DEF PersistTypeOK, disk, switches
  <2> QED BY <1>3, <2>3, <2>4, <2>5, Zenon DEF PatchPersistedMessage
<1>4. ASSUME NEW j \in Jobs, NEW from \in Chats, NEW to \in Chats, MovePersistedChat(j, from, to)
      PROVE  PersistTypeOK'
  <2>1. pending' \in [Keys -> PendingOp \cup {None}]
    BY <1>4, Zenon DEF MovePersistedChat, Rekeyed, PersistTypeOK, Keys
  <2>2. [kind |-> "move", st |-> "tx", started |-> epoch, from |-> from, to |-> to] \in JobType
    BY Zenon DEF JobType, MoveJob, PersistTypeOK
  <2>3. job' \in [Jobs -> JobType] /\ txq' \in Seq(Jobs)
    BY <1>4, <2>2, EnqueueType, Zenon DEF MovePersistedChat
  <2> QED BY <1>4, <2>1, <2>3, Zenon DEF MovePersistedChat, PersistTypeOK, disk, switches
<1>5. ASSUME NEW j \in Jobs, ClearAll(j)
      PROVE  PersistTypeOK'
  <2>1. [kind |-> "clear", st |-> "settle", era |-> epoch', waits |-> Inflight] \in JobType
    BY <1>5 DEF ClearAll, JobType, ClearJob, Inflight, PersistTypeOK
  <2>2. job' \in [Jobs -> JobType]
    BY <1>5, <2>1, SlotType, Zenon DEF ClearAll
  <2>3. pending' \in [Keys -> PendingOp \cup {None}] /\ epoch' \in Nat
    BY <1>5, Constants DEF ClearAll, PersistTypeOK
  <2> QED BY <1>5, <2>2, <2>3, Zenon DEF ClearAll, PersistTypeOK, disk
<1>6. ASSUME NEW j \in Jobs, SetAccount(j)
      PROVE  PersistTypeOK'
  <2>1. [kind |-> "account", st |-> "tx", started |-> epoch] \in JobType
    BY Zenon DEF JobType, AccountJob, PersistTypeOK
  <2>2. job' \in [Jobs -> JobType] /\ txq' \in Seq(Jobs)
    BY <1>6, <2>1, EnqueueType, Zenon DEF SetAccount
  <2> QED BY <1>6, <2>2, Zenon DEF SetAccount, PersistTypeOK, disk, queue, switches
<1>7. ASSUME NEW j \in Jobs, FlushPendingWrites(j)
      PROVE  PersistTypeOK'
  BY <1>7, FlushMessagesType, Zenon DEF FlushPendingWrites
<1>8. ASSUME EnablePersistence \/ DiscardPending \/ SchedulePersistChats
      PROVE  PersistTypeOK'
  BY <1>8, Constants, Zenon DEF EnablePersistence, DiscardPending, SchedulePersistChats, PersistTypeOK,
                         disk, calls, switches, queue
<1> QED BY <1>1, <1>2, <1>3, <1>4, <1>5, <1>6, <1>7, <1>8, Zenon DEF Call

\* A transaction that leaves the queue and the switches alone and ends its
\* call keeps the state well typed if it writes well-typed rows.
LEMMA ReturnType ==
    ASSUME PersistTypeOK, NEW j \in Jobs, SetJob(j, Idle),
           UNCHANGED <<queue, switches>>,
           txq' \in Seq(Jobs),
           msgs' \in [Keys -> Message \cup {None}],
           chatRow' \in [Chats -> Nat \cup {None}],
           account' \in Nat \cup {None},
           wiped' \in Nat
    PROVE  PersistTypeOK'
<1>1. job' \in [Jobs -> JobType]
  BY SetJobType, Constants, Zenon
<1> QED BY <1>1, Zenon DEF PersistTypeOK, queue, switches

\* The queue after a patch has dropped an insert.
LEMMA PatchUnqueueType ==
    ASSUME PersistTypeOK, NEW p \in PatchJob, PatchUnqueue(p)
    PROVE  pending' \in [Keys -> PendingOp \cup {None}]
BY Zenon DEF PatchUnqueue, PersistTypeOK

\* The message a patch works on, and the patched one, are messages.
LEMMA CurrentType ==
    ASSUME PersistTypeOK, NEW p \in PatchJob
    PROVE  /\ Current(p) \in Message \cup {None}
           /\ Current(p) # None => Patched(Current(p), p.upd) \in Message
<1>1. Current(p) \in Message \cup {None}
  BY Zenon DEF Current, PersistTypeOK, PatchJob, WriteOp
<1>2. ASSUME Current(p) # None PROVE Patched(Current(p), p.upd) \in Message
  BY <1>1, <1>2, Zenon DEF Patched, Message, PatchJob
<1> QED BY <1>1, <1>2, Zenon

\* Every step of a call in progress keeps the state well typed.
LEMMA StepType ==
    ASSUME PersistTypeOK, NEW j \in Jobs, Step(j)
    PROVE  PersistTypeOK'
<1>a. job[j] \in JobType
  BY Zenon DEF PersistTypeOK
<1>1. CASE FlushTimer(j)
  BY <1>1, FlushMessagesType, Zenon DEF FlushTimer
<1>2. CASE FlushTx(j)
  <2>1. job[j] \in FlushJob
    BY <1>2, <1>a, JobKinds, Zenon DEF FlushTx, Running
  <2>2. txq' \in Seq(Jobs)
    BY <1>2, RunningType, Zenon DEF FlushTx
  <2>3. ASSUME NEW k \in Keys PROVE Written(job[j].ops[k], msgs[k]) \in Message \cup {None}
    BY <2>1, Zenon DEF FlushJob, Written, OpOf, PendingOp, WriteOp, PersistTypeOK
  <2>4. msgs' \in [Keys -> Message \cup {None}]
    BY <1>2, <2>3, Zenon DEF FlushTx, PersistTypeOK
  <2>5. [job[j] EXCEPT !.st = "resume", !.slice = {},
           !.ops = [k \in Keys |-> IF k \in job[j].slice THEN None ELSE job[j].ops[k]]]
          \in JobType
    BY <2>1, Zenon DEF FlushJob, JobType
  <2>6. job' \in [Jobs -> JobType]
    BY <1>2, <2>5, Zenon DEF FlushTx, PersistTypeOK
  <2> QED BY <1>2, <2>2, <2>4, <2>6, Zenon DEF FlushTx, PersistTypeOK, queue, switches
<1>3. CASE FlushResume(j)
  <2>1. job[j] \in FlushJob
    BY <1>3, <1>a, JobKinds, Zenon DEF FlushResume
  <2>2. UNCHANGED <<disk, switches>>
    BY <1>3, Zenon DEF FlushResume
  <2>3. CASE Queued(job[j].ops) # {} /\ job[j].started = epoch
    <3>1. PICK s \in Slices(Queued(job[j].ops)) :
             job' = [job EXCEPT ![j].st = "tx", ![j].slice = s]
      BY <1>3, <2>3, Zenon DEF FlushResume
    <3>2. [job[j] EXCEPT !.st = "tx", !.slice = s] \in JobType
      BY <2>1, Zenon DEF FlushJob, JobType, Slices, Queued
    <3>3. job' \in [Jobs -> JobType]
      BY <3>1, <3>2, Zenon DEF PersistTypeOK
    <3>4. txq' = Append(txq, j) /\ UNCHANGED queue
      BY <1>3, <2>3, Zenon DEF FlushResume
    <3> QED BY <2>2, <3>3, <3>4 DEF PersistTypeOK, disk, queue, switches
  <2>4. CASE ~(Queued(job[j].ops) # {} /\ job[j].started = epoch)
    <3>1. SetJob(j, Idle) /\ UNCHANGED <<pending, txq>> /\ msgTimer' \in BOOLEAN
      BY <1>3, <2>4, Zenon DEF FlushResume, ScheduleFlushMessages, PersistTypeOK, queue
    <3>2. job' \in [Jobs -> JobType]
      BY <3>1, SetJobType, Constants, Zenon
    <3> QED BY <2>2, <3>1, <3>2, Zenon DEF PersistTypeOK, disk, switches
  <2> QED BY <2>3, <2>4, Zenon
<1>4. CASE FlushChats(j)
  <2>1. PICK rows \in SUBSET Chats :
           Enqueue(j, [kind |-> "chats", st |-> "tx", started |-> epoch, rows |-> rows])
    BY <1>4, Zenon DEF FlushChats
  <2>2. [kind |-> "chats", st |-> "tx", started |-> epoch, rows |-> rows] \in JobType
    BY Zenon DEF JobType, ChatsJob, PersistTypeOK
  <2>3. job' \in [Jobs -> JobType] /\ txq' \in Seq(Jobs)
    BY <2>1, <2>2, EnqueueType, Zenon
  <2> QED BY <1>4, <2>3, Zenon DEF FlushChats, PersistTypeOK, disk, queue
<1>5. CASE ChatsTx(j)
  <2>1. job[j] \in ChatsJob
    BY <1>5, <1>a, JobKinds, Zenon DEF ChatsTx, Running
  <2>2. txq' \in Seq(Jobs)
    BY <1>5, RunningType, Zenon DEF ChatsTx
  <2>3. chatRow' \in [Chats -> Nat \cup {None}]
    BY <1>5, <2>1, Zenon DEF ChatsTx, ChatsJob, PersistTypeOK
  <2> QED BY <1>5, <2>2, <2>3, ReturnType, Zenon DEF ChatsTx, PersistTypeOK
<1>6. CASE PatchTx(j)
  <2>1. job[j] \in PatchJob
    BY <1>6, <1>a, JobKinds, Zenon DEF PatchTx, Running
  <2>2. txq' \in Seq(Jobs)
    BY <1>6, RunningType, Zenon DEF PatchTx
  <2> DEFINE next == IF Current(job[j]) = None THEN None
                     ELSE Patched(Current(job[j]), job[j].upd)
  <2>3. next \in Message \cup {None}
    BY <2>1, CurrentType, Zenon
  <2>4. pending' \in [Keys -> PendingOp \cup {None}]
    BY <1>6, <2>1, PatchUnqueueType, Zenon DEF PatchTx
  <2>5. msgs' \in [Keys -> Message \cup {None}]
    BY <1>6, <2>3, Zenon DEF PatchTx, PersistTypeOK
  <2>6. [job[j] EXCEPT !.st = "done", !.res = next] \in JobType
    BY <2>1, <2>3, Zenon DEF PatchJob, JobType
  <2>7. job' = [job EXCEPT ![j].st = "done", ![j].res = next]
    BY <1>6, Zenon DEF PatchTx
  <2>8. job' \in [Jobs -> JobType]
    BY <2>6, <2>7, Zenon DEF PersistTypeOK
  <2> QED BY <1>6, <2>2, <2>4, <2>5, <2>8, Zenon DEF PatchTx, PersistTypeOK, switches
<1>7. CASE PatchReturn(j)
  BY <1>7, ReturnType, Zenon DEF PatchReturn, PersistTypeOK, disk
<1>8. CASE MoveTx(j)
  <2>1. job[j] \in MoveJob
    BY <1>8, <1>a, JobKinds, Zenon DEF MoveTx, Running
  <2>2. txq' \in Seq(Jobs)
    BY <1>8, RunningType, Zenon DEF MoveTx
  <2>3. msgs' \in [Keys -> Message \cup {None}]
    BY <1>8, <2>1, Zenon DEF MoveTx, MoveJob, Rekeyed, PersistTypeOK, Keys
  <2>4. chatRow' \in [Chats -> Nat \cup {None}]
    BY <1>8, <2>1, Zenon DEF MoveTx, MoveJob, PersistTypeOK
  <2> QED BY <1>8, <2>2, <2>3, <2>4, ReturnType, Zenon DEF MoveTx, PersistTypeOK
<1>9. CASE AccountTx(j)
  <2>1. job[j] \in AccountJob
    BY <1>9, <1>a, JobKinds, Zenon DEF AccountTx, Running
  <2>2. txq' \in Seq(Jobs)
    BY <1>9, RunningType, Zenon DEF AccountTx
  <2>3. account' \in Nat \cup {None}
    BY <1>9, <2>1, Zenon DEF AccountTx, AccountJob
  <2> QED BY <1>9, <2>2, <2>3, ReturnType, Zenon DEF AccountTx, PersistTypeOK
<1>10. CASE ClearSettled(j)
  <2>1. job[j] \in ClearJob
    BY <1>10, <1>a, JobKinds, Zenon DEF ClearSettled
  <2>2. [job[j] EXCEPT !.st = "tx"] \in JobType
    BY <2>1, Zenon DEF ClearJob, JobType
  <2>3. job' \in [Jobs -> JobType]
    BY <1>10, <2>2, Zenon DEF ClearSettled, PersistTypeOK
  <2> QED BY <1>10, <2>3 DEF ClearSettled, PersistTypeOK, disk, queue, switches
<1>11. CASE ClearTx(j)
  <2>1. job[j] \in ClearJob
    BY <1>11, <1>a, JobKinds, Zenon DEF ClearTx, Running
  <2>2. txq' \in Seq(Jobs)
    BY <1>11, RunningType, Zenon DEF ClearTx
  <2>3. wiped' \in Nat /\ account' \in Nat \cup {None}
    BY <1>11, <2>1, Zenon DEF ClearTx, ClearJob, PersistTypeOK
  <2>4. msgs' \in [Keys -> Message \cup {None}] /\ chatRow' \in [Chats -> Nat \cup {None}]
    BY <1>11, Zenon DEF ClearTx
  <2> QED BY <1>11, <2>2, <2>3, <2>4, ReturnType, Zenon DEF ClearTx
<1>12. CASE StaleReturn(j)
  <2>1. txq' \in Seq(Jobs)
    BY <1>12 DEF StaleReturn, PersistTypeOK
  <2>2. (IF job[j].kind = "patch" THEN [job[j] EXCEPT !.st = "done"] ELSE Idle) \in JobType
    BY <1>a, JobKinds, Constants DEF PatchJob, JobType
  <2>3. job' \in [Jobs -> JobType]
    BY <1>12, <2>2, SetJobType, Zenon DEF StaleReturn
  <2> QED BY <1>12, <2>1, <2>3, Zenon DEF StaleReturn, PersistTypeOK, disk, queue, switches
<1> QED BY <1>1, <1>2, <1>3, <1>4, <1>5, <1>6, <1>7, <1>8, <1>9, <1>10, <1>11, <1>12, Zenon DEF Step

\* So do the database opening and the failures.
LEMMA OpenDbType == PersistTypeOK /\ OpenDb => PersistTypeOK'
<1> SUFFICES ASSUME PersistTypeOK, OpenDb PROVE PersistTypeOK'
  OBVIOUS
<1>1. ASSUME NEW j \in Jobs, job[j].kind \in Tracked
      PROVE  [job[j] EXCEPT !.st = "stale"] \in JobType
  <2>1. job[j] \in FlushJob \cup PatchJob \cup MoveJob \cup ChatsJob
    BY <1>1, JobKinds, Zenon DEF Tracked, PersistTypeOK
  <2>2. [job[j] EXCEPT !.st = "stale"] \in FlushJob \cup PatchJob \cup MoveJob \cup ChatsJob
    <3>1. ASSUME job[j] \in FlushJob PROVE [job[j] EXCEPT !.st = "stale"] \in FlushJob
      BY <3>1, Zenon DEF FlushJob
    <3>2. ASSUME job[j] \in PatchJob PROVE [job[j] EXCEPT !.st = "stale"] \in PatchJob
      BY <3>2, Zenon DEF PatchJob
    <3>3. ASSUME job[j] \in MoveJob PROVE [job[j] EXCEPT !.st = "stale"] \in MoveJob
      BY <3>3, Zenon DEF MoveJob
    <3>4. ASSUME job[j] \in ChatsJob PROVE [job[j] EXCEPT !.st = "stale"] \in ChatsJob
      BY <3>4, Zenon DEF ChatsJob
    <3> QED BY <2>1, <3>1, <3>2, <3>3, <3>4, Zenon
  <2> QED BY <2>2, Zenon DEF JobType
<1>2. job' \in [Jobs -> JobType]
  BY <1>1, Zenon DEF OpenDb, PersistTypeOK
<1> QED BY <1>2, Zenon DEF OpenDb, PersistTypeOK, disk, queue

\* An aborted transaction and a restart keep the state well typed.
LEMMA FailureType == PersistTypeOK /\ Failure => PersistTypeOK'
<1> SUFFICES ASSUME PersistTypeOK, Failure PROVE PersistTypeOK'
  OBVIOUS
<1>1. CASE Restart
  <2>1. job' \in [Jobs -> JobType] /\ pending' \in [Keys -> PendingOp \cup {None}]
    BY <1>1, Constants, Zenon DEF Restart
  <2>2. txq' \in Seq(Jobs)
    BY <1>1 DEF Restart
  <2> QED BY <1>1, <2>1, <2>2, Zenon DEF Restart, PersistTypeOK, disk
<1>2. ASSUME NEW j \in Jobs, TxAbort(j) PROVE PersistTypeOK'
  <2>1. job[j] \in JobType
    BY Zenon DEF PersistTypeOK
  <2>2. (IF job[j].kind = "patch" THEN [job[j] EXCEPT !.st = "done"] ELSE Idle) \in JobType
    BY <2>1, JobKinds, Constants DEF PatchJob, JobType
  <2>3. job' \in [Jobs -> JobType]
    BY <1>2, <2>2, SetJobType, Zenon DEF TxAbort
  <2>4. txq' \in Seq(Jobs)
    BY <1>2, RunningType, Zenon DEF TxAbort
  <2>5. pending' \in [Keys -> PendingOp \cup {None}]
    BY <1>2, <2>1, JobKinds, PatchUnqueueType, Zenon DEF TxAbort, PersistTypeOK
  <2>6. msgTimer' \in BOOLEAN
    BY <1>2, Zenon DEF TxAbort, ScheduleFlushMessages, PersistTypeOK
  <2> QED BY <1>2, <2>3, <2>4, <2>5, <2>6, Zenon DEF TxAbort, PersistTypeOK, disk, switches
<1> QED BY <1>1, <1>2, Zenon DEF Failure

\* The state the module is loaded in is well typed.
LEMMA InitType == PersistInit => PersistTypeOK
<1> SUFFICES ASSUME PersistInit PROVE PersistTypeOK
  BY Zenon
<1>1. job \in [Jobs -> JobType] /\ pending \in [Keys -> PendingOp \cup {None}]
  BY Constants, Zenon DEF PersistInit
<1>2. txq \in Seq(Jobs)
  BY DEF PersistInit
<1> QED BY <1>1, <1>2, Zenon DEF PersistInit, PersistTypeOK

\* Every step, stuttering included, keeps the state well typed.
LEMMA TypeStep == PersistTypeOK /\ [PersistNext]_persistVars => PersistTypeOK'
<1> SUFFICES ASSUME PersistTypeOK, [PersistNext]_persistVars PROVE PersistTypeOK'
  BY Zenon
<1>1. CASE UNCHANGED persistVars
  BY <1>1, Zenon DEF PersistTypeOK, persistVars, disk, queue, calls, switches
<1> QED BY <1>1, CallType, OpenDbType, StepType, FailureType, Zenon DEF PersistNext

\* The module state of persist.ts and the stored rows stay well typed,
\* whatever the stores call and whatever fails.
THEOREM TypeCorrect == PersistSpec => []PersistTypeOK
<1>1. PersistInit => PersistTypeOK
  BY InitType, Zenon
<1> QED BY <1>1, TypeStep, PTL DEF PersistSpec

(***************************************************************************)
(* Nothing lands after a wipe.  A row is as recent as the call that wrote  *)
(* it, so the argument is about calls in progress: a call begun before a   *)
(* clearAll is one that clearAll is still waiting for, hence every call    *)
(* in progress when the wipe commits belongs to the new epoch.             *)
(***************************************************************************)
\* Queued writes were queued in the current epoch.
QueueIsCurrent == \A k \in Keys : IsWrite(pending[k]) => pending[k].m.born = epoch

\* What a call in progress may write dates from when the call started...
CarriesOwnEpoch(b) ==
    /\ b.kind = "flush" => \A k \in Keys : IsWrite(b.ops[k]) => b.ops[k].m.born = b.started
    /\ b.kind = "patch" /\ b.queued # None => b.queued.m.born = b.started

\* ... which is neither before the last wipe nor in the future.
CallsSinceWipe ==
    \A j \in Inflight : /\ CarriesOwnEpoch(job[j])
                        /\ wiped <= job[j].started
                        /\ job[j].started <= epoch

\* clearAll waits for every write begun before it.
ClearWaitsForOlder ==
    \A c \in Jobs : job[c].kind = "clear" =>
        /\ job[c].era <= epoch
        /\ \A j \in Inflight : job[j].started < job[c].era =>
              job[c].st = "settle" /\ j \in job[c].waits

CallInv == wiped <= epoch /\ CallsSinceWipe /\ ClearWaitsForOlder

WipeInv == PersistTypeOK /\ QueueIsCurrent /\ CallInv /\ NothingLandsAfterWipe

\* The start of a call in progress is a number.
LEMMA StartedType ==
    ASSUME PersistTypeOK, NEW j \in Inflight
    PROVE  j \in Jobs /\ job[j].started \in Nat
BY JobKinds DEF PersistTypeOK, Inflight, Tracked, FlushJob, PatchJob, MoveJob, ChatsJob

\* The epoch a clearAll has begun is a number.
LEMMA EraType ==
    ASSUME PersistTypeOK, NEW c \in Jobs, job[c].kind = "clear"
    PROVE  job[c].era \in Nat /\ job[c].waits \subseteq Jobs /\ job[c] \in ClearJob
BY JobKinds DEF PersistTypeOK, ClearJob

\* A call that returns is waited for no longer; nothing else changes.
LEMMA ReturnKeeps ==
    ASSUME PersistTypeOK, CallInv, NEW j \in Jobs, SetJob(j, Idle), UNCHANGED <<epoch, wiped>>
    PROVE  CallInv'
<1>1. \A i \in Jobs : i # j /\ job[i].kind # "clear" => job'[i] = job[i]
  BY Zenon DEF SetJob, Idle
<1>2. job'[j] = Idle
  BY Zenon DEF SetJob
<1>3. \A i \in Jobs : i # j /\ job[i].kind = "clear" =>
         job'[i] = [job[i] EXCEPT !.waits = @ \ {j}]
  BY Zenon DEF SetJob
<1>4. \A i \in Jobs : i # j /\ job[i].kind = "clear" =>
         /\ job'[i].kind = "clear" /\ job'[i].era = job[i].era /\ job'[i].st = job[i].st
         /\ job'[i].waits = job[i].waits \ {j}
  BY <1>3, EraType, Zenon DEF ClearJob
<1>5. \A i \in Inflight' : i \in Inflight /\ i # j /\ job'[i] = job[i]
  BY <1>1, <1>2, <1>4 DEF Inflight, Tracked, Idle
<1>6. CallsSinceWipe'
  BY <1>5, Zenon DEF CallInv, CallsSinceWipe, CarriesOwnEpoch
<1>7. ClearWaitsForOlder'
  BY <1>1, <1>2, <1>4, <1>5 DEF CallInv, ClearWaitsForOlder, Idle
<1> QED BY <1>6, <1>7, Zenon DEF CallInv

\* A call in progress may move on as long as it keeps its start.
LEMMA AdvanceKeeps ==
    ASSUME PersistTypeOK, CallInv, NEW j \in Jobs, NEW b,
           job' = [job EXCEPT ![j] = b],
           job[j].kind \in Tracked, b.kind = job[j].kind, b.started = job[j].started,
           CarriesOwnEpoch(b), UNCHANGED <<epoch, wiped>>
    PROVE  CallInv'
<1>1. job'[j] = b /\ \A i \in Jobs : i # j => job'[i] = job[i]
  BY Zenon DEF PersistTypeOK
<1>2. Inflight' = Inflight /\ j \in Inflight
  BY <1>1, Zenon DEF Inflight
<1>3. CallsSinceWipe'
  BY <1>1, <1>2 DEF CallInv, CallsSinceWipe, CarriesOwnEpoch, Inflight
<1>4. ClearWaitsForOlder'
  BY <1>1, <1>2 DEF CallInv, ClearWaitsForOlder, Inflight, Tracked
<1> QED BY <1>3, <1>4, Zenon DEF CallInv

\* A write that starts now belongs to the current epoch.
LEMMA StartKeeps ==
    ASSUME PersistTypeOK, CallInv, NEW j \in Jobs, NEW b,
           job[j] = Idle, job' = [job EXCEPT ![j] = b],
           b.kind \in Tracked, b.started = epoch,
           CarriesOwnEpoch(b), UNCHANGED <<epoch, wiped>>
    PROVE  CallInv'
<1>1. job'[j] = b /\ \A i \in Jobs : i # j => job'[i] = job[i]
  BY Zenon DEF PersistTypeOK
<1>2. Inflight' = Inflight \cup {j}
  BY <1>1, Zenon DEF Inflight
<1>3. CallsSinceWipe'
  BY <1>1, <1>2 DEF CallInv, CallsSinceWipe, CarriesOwnEpoch, Inflight, PersistTypeOK
<1>4. ASSUME NEW c \in Jobs, job'[c].kind = "clear"
      PROVE  /\ job'[c].era <= epoch'
             /\ \A i \in Inflight' : job'[i].started < job'[c].era =>
                   job'[c].st = "settle" /\ i \in job'[c].waits
  <2>1. c # j /\ job'[c] = job[c]
    BY <1>1, <1>4, Zenon DEF Tracked
  <2>2. job[c].era \in Nat /\ job[c].era <= epoch /\ ~(b.started < job[c].era)
    BY <1>4, <2>1, EraType DEF CallInv, ClearWaitsForOlder, PersistTypeOK
  <2> QED BY <1>1, <1>2, <1>4, <2>1, <2>2, Zenon DEF CallInv, ClearWaitsForOlder, Inflight
<1>5. ClearWaitsForOlder'
  BY <1>4, Zenon DEF ClearWaitsForOlder
<1> QED BY <1>3, <1>5, Zenon DEF CallInv

\* A call that writes no messages or chats plays no part.
LEMMA UntrackedKeeps ==
    ASSUME PersistTypeOK, CallInv, NEW j \in Jobs, NEW b,
           job[j] = Idle, job' = [job EXCEPT ![j] = b],
           b.kind \notin Tracked, b.kind # "clear", UNCHANGED <<epoch, wiped>>
    PROVE  CallInv'
<1>1. job'[j] = b /\ \A i \in Jobs : i # j => job'[i] = job[i]
  BY Zenon DEF PersistTypeOK
<1>2. Inflight' = Inflight /\ j \notin Inflight
  BY <1>1 DEF Inflight, Idle, Tracked
<1> QED BY <1>1, <1>2 DEF CallInv, CallsSinceWipe, ClearWaitsForOlder, CarriesOwnEpoch, Inflight

\* Capturing the queue for a flush.
LEMMA FlushMessagesKeeps ==
    ASSUME WipeInv, NEW j \in Jobs, FlushMessages(j)
    PROVE  QueueIsCurrent' /\ CallInv' /\ NothingLandsAfterWipe'
<1> DEFINE call == [kind |-> "flush", st |-> "resume", started |-> epoch,
                    ops |-> pending, slice |-> {}]
<1>1. UNCHANGED <<msgs, chatRow, wiped, epoch>> /\ pending' = NoOps /\ job[j] = Idle
  BY Zenon DEF FlushMessages, disk, switches
<1>2. NothingLandsAfterWipe'
  BY <1>1, Zenon DEF WipeInv, NothingLandsAfterWipe
<1>3. QueueIsCurrent'
  BY <1>1, Zenon DEF QueueIsCurrent, NoOps, IsWrite, OpOf
<1>4. PICK b : /\ job' = [job EXCEPT ![j] = b]
               /\ b.kind = "flush" /\ b.started = epoch /\ b.ops = pending
  <2>1. CASE pending = NoOps
    <3>1. job' = [job EXCEPT ![j] = call]
      BY <2>1, Zenon DEF FlushMessages
    <3>2. call.kind = "flush" /\ call.started = epoch /\ call.ops = pending
      BY Zenon
    <3> HIDE DEF call
    <3> QED BY <3>1, <3>2, Zenon
  <2>2. CASE pending # NoOps
    <3>1. PICK s \in Slices(Queued(pending)) : Enqueue(j, [call EXCEPT !.st = "tx", !.slice = s])
      BY <2>2, Zenon DEF FlushMessages
    <3>2. /\ [call EXCEPT !.st = "tx", !.slice = s].kind = "flush"
          /\ [call EXCEPT !.st = "tx", !.slice = s].started = epoch
          /\ [call EXCEPT !.st = "tx", !.slice = s].ops = pending
      BY Zenon
    <3> QED BY <3>1, <3>2, Zenon DEF Enqueue
  <2> QED BY <2>1, <2>2, Zenon
<1>5. CarriesOwnEpoch(b) /\ b.kind \in Tracked
  BY <1>4, Zenon DEF CarriesOwnEpoch, WipeInv, QueueIsCurrent, Tracked
<1>6. CallInv'
  BY <1>1, <1>4, <1>5, StartKeeps, Zenon DEF WipeInv
<1> QED BY <1>2, <1>3, <1>6, Zenon

\* Every call of the stores preserves the invariant.
LEMMA CallKeeps ==
    ASSUME WipeInv, Call
    PROVE  QueueIsCurrent' /\ CallInv' /\ NothingLandsAfterWipe'
<1> USE DEF WipeInv
<1>1. ASSUME NEW k \in Keys, NEW us \in SUBSET Updates,
             \/ PersistMessage(k, [born |-> epoch, upd |-> us])
             \/ PersistMessageInsert(k, [born |-> epoch, upd |-> us]),
             UNCHANGED <<disk, calls, switches>>
      PROVE  QueueIsCurrent' /\ CallInv' /\ NothingLandsAfterWipe'
  <2>1. QueueIsCurrent'
    BY <1>1 DEF QueueIsCurrent, PersistMessage, PersistMessageInsert, IsWrite, OpOf, switches,
                queue, PersistTypeOK
  <2>2. UNCHANGED <<msgs, chatRow, wiped, epoch, job>>
    BY <1>1, Zenon DEF disk, calls, switches
  <2> QED BY <2>1, <2>2, Zenon DEF CallInv, CallsSinceWipe, ClearWaitsForOlder, CarriesOwnEpoch,
                            Inflight, NothingLandsAfterWipe
<1>2. ASSUME NEW k \in Keys, PersistMessageDelete(k), UNCHANGED <<disk, calls, switches>>
      PROVE  QueueIsCurrent' /\ CallInv' /\ NothingLandsAfterWipe'
  <2>1. QueueIsCurrent'
    BY <1>2, Zenon DEF QueueIsCurrent, PersistMessageDelete, IsWrite, OpOf, switches, PersistTypeOK
  <2>2. UNCHANGED <<msgs, chatRow, wiped, epoch, job>>
    BY <1>2, Zenon DEF disk, calls, switches
  <2> QED BY <2>1, <2>2, Zenon DEF CallInv, CallsSinceWipe, ClearWaitsForOlder, CarriesOwnEpoch,
                            Inflight, NothingLandsAfterWipe
<1>3. ASSUME NEW j \in Jobs, NEW k \in Keys, NEW u \in Updates, PatchPersistedMessage(j, k, u)
      PROVE  QueueIsCurrent' /\ CallInv' /\ NothingLandsAfterWipe'
  <2> DEFINE call == [kind |-> "patch", st |-> "done", started |-> epoch, key |-> k,
                      upd |-> u, queued |-> None, res |-> None]
  <2>1. UNCHANGED <<msgs, chatRow, wiped, epoch>> /\ job[j] = Idle
    BY <1>3, Zenon DEF PatchPersistedMessage, disk, switches
  <2>2. NothingLandsAfterWipe'
    BY <2>1, Zenon DEF NothingLandsAfterWipe
  <2>3. QueueIsCurrent'
    <3>1. CASE OpOf(pending[k]) = "put"
      <4>1. pending[k] \in WriteOp
        BY <3>1, Zenon DEF OpOf, PersistTypeOK, PendingOp, WriteOp
      <4>2. pending' = [pending EXCEPT ![k].m = Patched(@, u)]
        BY <1>3, <3>1, Zenon DEF PatchPersistedMessage
      <4>3. pending'[k].m = Patched(pending[k].m, u) /\ \A i \in Keys : i # k => pending'[i] = pending[i]
        BY <4>1, <4>2, Zenon DEF PersistTypeOK, WriteOp
      <4>4. Patched(pending[k].m, u).born = pending[k].m.born
        BY <4>1, Zenon DEF Patched, WriteOp, Message
      <4>5. pending[k].m.born = epoch
        BY <3>1, Zenon DEF QueueIsCurrent, IsWrite
      <4> QED BY <2>1, <4>3, <4>4, <4>5, Zenon DEF QueueIsCurrent
    <3>2. CASE OpOf(pending[k]) # "put"
      BY <1>3, <2>1, <3>2, Zenon DEF PatchPersistedMessage, QueueIsCurrent
    <3> QED BY <3>1, <3>2, Zenon
  <2>4. PICK b : /\ job' = [job EXCEPT ![j] = b]
                 /\ b.kind = "patch" /\ b.started = epoch
                 /\ b.queued # None => b.queued.m.born = epoch
    <3>1. CASE OpOf(pending[k]) = "put"
      <4>1. job' = [job EXCEPT ![j] = [call EXCEPT !.res = pending'[k].m]]
        BY <1>3, <3>1, Zenon DEF PatchPersistedMessage
      <4> DEFINE b == [call EXCEPT !.res = pending'[k].m]
      <4>2. b.kind = "patch" /\ b.started = epoch /\ b.queued = None
        BY Zenon
      <4>3. job' = [job EXCEPT ![j] = b]
        BY <4>1, Zenon
      <4> HIDE DEF b
      <4> QED BY <4>2, <4>3, Zenon
    <3>2. CASE OpOf(pending[k]) = "del"
      <4>1. job' = [job EXCEPT ![j] = call]
        BY <1>3, <3>2, Zenon DEF PatchPersistedMessage
      <4>2. call.kind = "patch" /\ call.started = epoch /\ call.queued = None
        BY Zenon
      <4> HIDE DEF call
      <4> QED BY <4>1, <4>2, Zenon
    <3>3. CASE OpOf(pending[k]) \in {"none", "add"}
      <4>1. job' = [job EXCEPT ![j] = [call EXCEPT !.st = "tx", !.queued = pending[k]]]
        BY <1>3, <3>3, Zenon DEF PatchPersistedMessage, Enqueue
      <4>2. pending[k] # None => pending[k].m.born = epoch
        <5> SUFFICES ASSUME pending[k] # None PROVE pending[k].m.born = epoch
          BY Zenon
        <5>1. OpOf(pending[k]) = "add"
          BY <3>3, Zenon DEF OpOf, PersistTypeOK, PendingOp, WriteOp
        <5> QED BY <5>1, Zenon DEF QueueIsCurrent, IsWrite
      <4> DEFINE b == [call EXCEPT !.st = "tx", !.queued = pending[k]]
      <4>3. b.kind = "patch" /\ b.started = epoch /\ b.queued = pending[k]
        BY Zenon
      <4>4. job' = [job EXCEPT ![j] = b]
        BY <4>1, Zenon
      <4> HIDE DEF b
      <4> QED BY <4>2, <4>3, <4>4, Zenon
    <3> QED BY <1>3, <3>1, <3>2, <3>3, Zenon DEF PatchPersistedMessage
  <2>5. CarriesOwnEpoch(b) /\ b.kind \in Tracked
    BY <2>4, Zenon DEF CarriesOwnEpoch, Tracked
  <2>6. CallInv'
    BY <2>1, <2>4, <2>5, StartKeeps, Zenon
  <2> QED BY <2>2, <2>3, <2>6, Zenon
<1>4. ASSUME NEW j \in Jobs, NEW from \in Chats, NEW to \in Chats, MovePersistedChat(j, from, to)
      PROVE  QueueIsCurrent' /\ CallInv' /\ NothingLandsAfterWipe'
  <2> DEFINE call == [kind |-> "move", st |-> "tx", started |-> epoch, from |-> from, to |-> to]
  <2>1. UNCHANGED <<msgs, chatRow, wiped, epoch>> /\ job[j] = Idle /\ job' = [job EXCEPT ![j] = call]
    BY <1>4, Zenon DEF MovePersistedChat, Enqueue, disk, switches
  <2>2. \A k \in Keys : pending'[k] = None \/ \E i \in Keys : pending'[k] = pending[i]
    BY <1>4, Zenon DEF MovePersistedChat, Rekeyed, Keys
  <2>3. QueueIsCurrent'
    BY <2>1, <2>2 DEF QueueIsCurrent, IsWrite, OpOf
  <2>4. CarriesOwnEpoch(call) /\ call.kind \in Tracked
    BY Zenon DEF CarriesOwnEpoch, Tracked
  <2>5. CallInv'
    BY <2>1, <2>4, StartKeeps, Zenon
  <2> QED BY <2>1, <2>3, <2>5, Zenon DEF NothingLandsAfterWipe
<1>5. ASSUME NEW j \in Jobs, ClearAll(j)
      PROVE  QueueIsCurrent' /\ CallInv' /\ NothingLandsAfterWipe'
  <2> DEFINE call == [kind |-> "clear", st |-> "settle", era |-> epoch', waits |-> Inflight]
  <2>1. UNCHANGED <<msgs, chatRow, wiped>> /\ epoch' = epoch + 1 /\ pending' = NoOps
        /\ job[j] = Idle /\ job' = [job EXCEPT ![j] = call]
    BY <1>5, Zenon DEF ClearAll, disk
  <2>2. QueueIsCurrent'
    BY <2>1, Zenon DEF QueueIsCurrent, NoOps, IsWrite, OpOf
  <2>3. job'[j] = call /\ \A i \in Jobs : i # j => job'[i] = job[i]
    BY <2>1, Zenon DEF PersistTypeOK
  <2>4. Inflight' = Inflight /\ j \notin Inflight
    BY <2>1, <2>3 DEF Inflight, Idle, Tracked
  <2>5. epoch \in Nat /\ wiped \in Nat /\ wiped <= epoch
    BY Zenon DEF PersistTypeOK, CallInv
  <2>6. CallsSinceWipe'
    BY <2>1, <2>3, <2>4, <2>5, StartedType DEF CallInv, CallsSinceWipe, CarriesOwnEpoch
  <2>7. ASSUME NEW c \in Jobs, job'[c].kind = "clear"
        PROVE  /\ job'[c].era <= epoch'
               /\ \A i \in Inflight' : job'[i].started < job'[c].era =>
                     job'[c].st = "settle" /\ i \in job'[c].waits
    <3>1. CASE c = j
      BY <2>1, <2>3, <2>4, <2>5, <3>1
    <3>2. CASE c # j
      <4>1. job[c].era \in Nat /\ job[c].era <= epoch /\ job'[c] = job[c]
        BY <2>3, <2>7, <3>2, EraType, Zenon DEF CallInv, ClearWaitsForOlder
      <4>2. \A i \in Inflight : job'[i] = job[i]
        BY <2>3, <2>4, Zenon DEF Inflight
      <4> QED BY <2>1, <2>4, <2>5, <2>7, <4>1, <4>2 DEF CallInv, ClearWaitsForOlder
    <3> QED BY <3>1, <3>2, Zenon
  <2>8. CallInv'
    BY <2>1, <2>5, <2>6, <2>7 DEF CallInv, ClearWaitsForOlder
  <2> QED BY <2>1, <2>2, <2>8, Zenon DEF NothingLandsAfterWipe
<1>6. ASSUME NEW j \in Jobs, SetAccount(j)
      PROVE  QueueIsCurrent' /\ CallInv' /\ NothingLandsAfterWipe'
  <2> DEFINE call == [kind |-> "account", st |-> "tx", started |-> epoch]
  <2>1. UNCHANGED <<msgs, chatRow, wiped, epoch, pending>> /\ job[j] = Idle
        /\ job' = [job EXCEPT ![j] = call]
    BY <1>6, Zenon DEF SetAccount, Enqueue, disk, queue, switches
  <2>2. call.kind \notin Tracked /\ call.kind # "clear"
    BY Zenon DEF Tracked
  <2> HIDE DEF call
  <2>3. CallInv'
    BY <2>1, <2>2, UntrackedKeeps, Zenon
  <2> QED BY <2>1, <2>3, Zenon DEF QueueIsCurrent, NothingLandsAfterWipe
<1>7. ASSUME NEW j \in Jobs, FlushPendingWrites(j)
      PROVE  QueueIsCurrent' /\ CallInv' /\ NothingLandsAfterWipe'
  BY <1>7, FlushMessagesKeeps, Zenon DEF FlushPendingWrites
<1>8. ASSUME EnablePersistence \/ DiscardPending \/ SchedulePersistChats
      PROVE  QueueIsCurrent' /\ CallInv' /\ NothingLandsAfterWipe'
  <2>1. UNCHANGED <<msgs, chatRow, wiped, epoch, job>> /\ (UNCHANGED pending \/ pending' = NoOps)
    BY <1>8, Zenon DEF EnablePersistence, DiscardPending, SchedulePersistChats, disk, calls, switches, queue
  <2>2. QueueIsCurrent'
    BY <2>1, Zenon DEF QueueIsCurrent, NoOps, IsWrite, OpOf
  <2> QED BY <2>1, <2>2, Zenon DEF CallInv, CallsSinceWipe, ClearWaitsForOlder, CarriesOwnEpoch,
                            Inflight, NothingLandsAfterWipe
<1> QED BY <1>1, <1>2, <1>3, <1>4, <1>5, <1>6, <1>7, <1>8, Zenon DEF Call

\* A row stems from after the wipe if it is unchanged or written by a message
\* that does.
LEMMA RowsKeep ==
    ASSUME WipeInv, UNCHANGED <<chatRow, wiped>>,
           \A k \in Keys : \/ msgs'[k] = None
                           \/ msgs'[k].born >= wiped
                           \/ \E i \in Keys : msgs'[k] = msgs[i]
    PROVE  NothingLandsAfterWipe'
BY Zenon DEF WipeInv, NothingLandsAfterWipe

\* A patch only ever drops a queued write.
LEMMA UnqueueKeeps ==
    ASSUME WipeInv, NEW p \in PatchJob, PatchUnqueue(p), UNCHANGED epoch
    PROVE  QueueIsCurrent'
BY Zenon DEF WipeInv, QueueIsCurrent, PatchUnqueue, PersistTypeOK, IsWrite, OpOf, PatchJob

\* Every step of a call in progress preserves the invariant.
LEMMA StepKeeps ==
    ASSUME WipeInv, NEW j \in Jobs, Step(j)
    PROVE  QueueIsCurrent' /\ CallInv' /\ NothingLandsAfterWipe'
<1> USE DEF WipeInv
<1>a. job[j] \in JobType
  BY Zenon DEF PersistTypeOK
<1>b. ASSUME job[j].kind \in Tracked
      PROVE  /\ CarriesOwnEpoch(job[j])
             /\ job[j].started \in Nat /\ wiped <= job[j].started /\ job[j].started <= epoch
  BY <1>b, StartedType, Zenon DEF CallInv, CallsSinceWipe, Inflight
<1>c. ASSUME UNCHANGED <<pending, epoch>> PROVE QueueIsCurrent'
  BY <1>c, Zenon DEF QueueIsCurrent
<1>d. ASSUME UNCHANGED <<msgs, chatRow, wiped>> PROVE NothingLandsAfterWipe'
  BY <1>d, Zenon DEF NothingLandsAfterWipe
<1>1. CASE FlushTimer(j)
  BY <1>1, FlushMessagesKeeps, Zenon DEF FlushTimer
<1>2. CASE FlushTx(j)
  <2> DEFINE b == [job[j] EXCEPT !.st = "resume", !.slice = {},
                     !.ops = [k \in Keys |-> IF k \in job[j].slice THEN None ELSE job[j].ops[k]]]
  <2>1. job[j] \in FlushJob /\ job[j].kind = "flush"
    BY <1>2, <1>a, JobKinds, Zenon DEF FlushTx, Running
  <2>2. UNCHANGED <<chatRow, wiped, epoch, pending>> /\ job' = [job EXCEPT ![j] = b]
    BY <1>2, Zenon DEF FlushTx, queue, switches
  <2>3. b.kind = "flush" /\ b.started = job[j].started
        /\ b.ops = [k \in Keys |-> IF k \in job[j].slice THEN None ELSE job[j].ops[k]]
    BY <2>1, Zenon DEF FlushJob
  <2>4. CarriesOwnEpoch(b)
    BY <1>b, <2>1, <2>3 DEF CarriesOwnEpoch, Tracked, IsWrite, OpOf
  <2> HIDE DEF b
  <2>5. CallInv'
    BY <2>1, <2>2, <2>3, <2>4, AdvanceKeeps, Zenon DEF Tracked
  <2>6. ASSUME NEW k \in Keys
        PROVE  \/ msgs'[k] = None
               \/ msgs'[k].born >= wiped
               \/ \E i \in Keys : msgs'[k] = msgs[i]
    <3>1. msgs'[k] = IF k \in job[j].slice THEN Written(job[j].ops[k], msgs[k]) ELSE msgs[k]
      BY <1>2, Zenon DEF FlushTx
    <3>2. IsWrite(job[j].ops[k]) => job[j].ops[k].m.born >= wiped
      BY <1>b, <2>1, Zenon DEF CarriesOwnEpoch, Tracked, PersistTypeOK
    <3>3. CASE IsWrite(job[j].ops[k])
      BY <3>1, <3>2, <3>3, Zenon DEF Written, IsWrite
    <3>4. CASE ~IsWrite(job[j].ops[k])
      BY <3>1, <3>4, SMTT(30) DEF Written, IsWrite
    <3> QED BY <3>3, <3>4, Zenon
  <2>7. NothingLandsAfterWipe'
    BY <2>2, <2>6, RowsKeep, Zenon
  <2> QED BY <1>c, <2>2, <2>5, <2>7, Zenon
<1>3. CASE FlushResume(j)
  <2>1. job[j] \in FlushJob /\ job[j].kind = "flush"
    BY <1>3, <1>a, JobKinds, Zenon DEF FlushResume
  <2>2. UNCHANGED <<msgs, chatRow, wiped, epoch, pending>>
    BY <1>3, Zenon DEF FlushResume, disk, switches, queue
  <2>3. CASE Queued(job[j].ops) # {} /\ job[j].started = epoch
    <3>1. PICK s \in Slices(Queued(job[j].ops)) :
             job' = [job EXCEPT ![j].st = "tx", ![j].slice = s]
      BY <1>3, <2>3, Zenon DEF FlushResume
    <3> DEFINE b == [job[j] EXCEPT !.st = "tx", !.slice = s]
    <3>2. b.kind = "flush" /\ b.started = job[j].started /\ b.ops = job[j].ops
      BY <2>1, Zenon DEF FlushJob
    <3>3. job' = [job EXCEPT ![j] = b]
      BY <3>1, Zenon
    <3>4. CarriesOwnEpoch(b)
      BY <1>b, <2>1, <3>2, Zenon DEF CarriesOwnEpoch, Tracked
    <3> HIDE DEF b
    <3>5. CallInv'
      BY <2>1, <2>2, <3>2, <3>3, <3>4, AdvanceKeeps, Zenon DEF Tracked
    <3> QED BY <1>c, <1>d, <2>2, <3>5, Zenon
  <2>4. CASE ~(Queued(job[j].ops) # {} /\ job[j].started = epoch)
    <3>1. SetJob(j, Idle)
      BY <1>3, <2>4, Zenon DEF FlushResume
    <3> QED BY <1>c, <1>d, <2>2, <3>1, ReturnKeeps, Zenon
  <2> QED BY <2>3, <2>4, Zenon
<1>4. CASE FlushChats(j)
  <2>1. PICK rows \in SUBSET Chats :
           Enqueue(j, [kind |-> "chats", st |-> "tx", started |-> epoch, rows |-> rows])
    BY <1>4, Zenon DEF FlushChats
  <2> DEFINE b == [kind |-> "chats", st |-> "tx", started |-> epoch, rows |-> rows]
  <2>2. UNCHANGED <<msgs, chatRow, wiped, epoch, pending>> /\ job[j] = Idle
        /\ job' = [job EXCEPT ![j] = b]
    BY <1>4, <2>1, Zenon DEF FlushChats, Enqueue, disk, queue
  <2>3. b.kind \in Tracked /\ b.started = epoch /\ CarriesOwnEpoch(b)
    BY Zenon DEF Tracked, CarriesOwnEpoch
  <2> HIDE DEF b
  <2>4. CallInv'
    BY <2>2, <2>3, StartKeeps, Zenon
  <2> QED BY <1>c, <1>d, <2>2, <2>4, Zenon
<1>5. CASE ChatsTx(j)
  <2>1. job[j] \in ChatsJob /\ job[j].kind = "chats"
    BY <1>5, <1>a, JobKinds, Zenon DEF ChatsTx, Running
  <2>2. UNCHANGED <<msgs, wiped, epoch, pending>> /\ SetJob(j, Idle)
    BY <1>5, Zenon DEF ChatsTx, queue, switches
  <2>3. NothingLandsAfterWipe'
    BY <1>5, <1>b, <2>1, <2>2, Zenon DEF ChatsTx, NothingLandsAfterWipe, Tracked, PersistTypeOK
  <2> QED BY <1>c, <2>2, <2>3, ReturnKeeps, Zenon
<1>6. CASE PatchTx(j)
  <2>1. job[j] \in PatchJob /\ job[j].kind = "patch"
    BY <1>6, <1>a, JobKinds, Zenon DEF PatchTx, Running
  <2> DEFINE next == IF Current(job[j]) = None THEN None
                     ELSE Patched(Current(job[j]), job[j].upd)
             b == [job[j] EXCEPT !.st = "done", !.res = next]
  <2>2. UNCHANGED <<chatRow, wiped, epoch>> /\ PatchUnqueue(job[j])
        /\ msgs' = [msgs EXCEPT ![job[j].key] = next]
        /\ job' = [job EXCEPT ![j] = b]
    BY <1>6, Zenon DEF PatchTx, switches
  <2>3. b.kind = "patch" /\ b.started = job[j].started /\ b.queued = job[j].queued
    BY <2>1, Zenon DEF PatchJob
  <2>4. CarriesOwnEpoch(b)
    BY <1>b, <2>1, <2>3, Zenon DEF CarriesOwnEpoch, Tracked
  <2>5. next = None \/ next.born >= wiped
    <3> SUFFICES ASSUME Current(job[j]) # None PROVE next.born >= wiped
      BY Zenon
    <3>1. Current(job[j]).born >= wiped
      <4>1. CASE msgs[job[j].key] # None
        BY <2>1, <4>1, Zenon DEF Current, PatchJob, NothingLandsAfterWipe
      <4>2. CASE msgs[job[j].key] = None
        <5>1. job[j].queued # None /\ Current(job[j]) = job[j].queued.m
          BY <4>2, Zenon DEF Current
        <5>2. job[j].queued.m.born = job[j].started
          BY <1>b, <2>1, <5>1, Zenon DEF CarriesOwnEpoch, Tracked
        <5> QED BY <1>b, <2>1, <5>1, <5>2, Zenon DEF Tracked, PersistTypeOK
      <4> QED BY <4>1, <4>2, Zenon
    <3>2. Current(job[j]) \in Message
      BY <2>1, CurrentType, Zenon
    <3>3. Patched(Current(job[j]), job[j].upd).born = Current(job[j]).born
      BY <3>2, Zenon DEF Patched, Message
    <3> QED BY <3>1, <3>3, Zenon
  <2> HIDE DEF b, next
  <2>6. CallInv'
    BY <2>1, <2>2, <2>3, <2>4, AdvanceKeeps, Zenon DEF Tracked
  <2>7. NothingLandsAfterWipe'
    BY <2>2, <2>5, Zenon DEF NothingLandsAfterWipe, PersistTypeOK
  <2>8. QueueIsCurrent'
    BY <2>1, <2>2, UnqueueKeeps, Zenon
  <2> QED BY <2>6, <2>7, <2>8, Zenon
<1>7. CASE PatchReturn(j)
  BY <1>7, <1>c, <1>d, ReturnKeeps, Zenon DEF PatchReturn, disk, queue, switches
<1>8. CASE MoveTx(j)
  <2>1. job[j] \in MoveJob
    BY <1>8, <1>a, JobKinds, Zenon DEF MoveTx, Running
  <2>2. UNCHANGED <<wiped, epoch, pending>> /\ SetJob(j, Idle)
    BY <1>8, Zenon DEF MoveTx, queue, switches
  <2>3. \A k \in Keys : msgs'[k] = None \/ \E i \in Keys : msgs'[k] = msgs[i]
    BY <1>8, <2>1, Zenon DEF MoveTx, Rekeyed, Keys, MoveJob
  <2>4. \A c \in Chats : chatRow'[c] = None \/ chatRow'[c] = chatRow[c]
    BY <1>8, Zenon DEF MoveTx, PersistTypeOK
  <2>5. NothingLandsAfterWipe'
    BY <2>2, <2>3, <2>4, Zenon DEF NothingLandsAfterWipe
  <2> QED BY <1>c, <2>2, <2>5, ReturnKeeps, Zenon
<1>9. CASE AccountTx(j)
  BY <1>9, <1>c, <1>d, ReturnKeeps, Zenon DEF AccountTx, queue, switches
<1>10. CASE ClearSettled(j)
  <2>1. job[j] \in ClearJob /\ job[j].kind = "clear" /\ job[j].waits = {}
    BY <1>10, <1>a, JobKinds, Zenon DEF ClearSettled
  <2>2. UNCHANGED <<msgs, chatRow, wiped, epoch, pending>> /\ job' = [job EXCEPT ![j].st = "tx"]
    BY <1>10, Zenon DEF ClearSettled, disk, queue, switches
  <2>3. /\ job'[j].kind = "clear" /\ job'[j].era = job[j].era
        /\ \A i \in Jobs : i # j => job'[i] = job[i]
    BY <2>1, <2>2, Zenon DEF ClearJob, PersistTypeOK
  <2>4. Inflight' = Inflight /\ j \notin Inflight
    BY <2>1, <2>3, Zenon DEF Inflight, Tracked
  <2>5. \A i \in Inflight : ~(job[i].started < job[j].era)
    BY <2>1, Zenon DEF CallInv, ClearWaitsForOlder
  <2>6. CallsSinceWipe'
    BY <2>2, <2>3, <2>4 DEF CallInv, CallsSinceWipe, CarriesOwnEpoch, Inflight
  <2>7. ClearWaitsForOlder'
    BY <2>1, <2>2, <2>3, <2>4, <2>5 DEF CallInv, ClearWaitsForOlder, Inflight
  <2> QED BY <1>c, <1>d, <2>2, <2>6, <2>7, Zenon DEF CallInv
<1>11. CASE ClearTx(j)
  <2>1. job[j] \in ClearJob /\ job[j].kind = "clear" /\ job[j].st = "tx"
    BY <1>11, <1>a, JobKinds, Zenon DEF ClearTx, Running
  <2>2. UNCHANGED <<epoch, pending>> /\ SetJob(j, Idle)
    BY <1>11, Zenon DEF ClearTx, queue, switches
  <2>3. NothingLandsAfterWipe'
    BY <1>11, Zenon DEF ClearTx, NothingLandsAfterWipe
  <2>4. /\ job[j].era \in Nat /\ job[j].era <= epoch
        /\ \A i \in Inflight : ~(job[i].started < job[j].era)
    BY <2>1, Zenon DEF CallInv, ClearWaitsForOlder, ClearJob
  <2>5. wiped' = wiped \/ wiped' = job[j].era
    BY <1>11, Zenon DEF ClearTx
  <2>6. wiped' <= epoch /\ \A i \in Inflight : wiped' <= job[i].started
    BY <2>4, <2>5, StartedType DEF CallInv, CallsSinceWipe
  <2>7. \A i \in Jobs : i # j /\ job[i].kind # "clear" => job'[i] = job[i]
    BY <2>2, Zenon DEF SetJob
  <2>8. job'[j] = Idle
    BY <2>2, Zenon DEF SetJob
  <2>9. \A i \in Jobs : i # j /\ job[i].kind = "clear" =>
           /\ job'[i].kind = "clear" /\ job'[i].era = job[i].era /\ job'[i].st = job[i].st
           /\ job'[i].waits = job[i].waits \ {j}
    BY <2>2, EraType, Zenon DEF SetJob, ClearJob
  <2>10. \A i \in Inflight' : i \in Inflight /\ i # j /\ job'[i] = job[i]
    BY <2>1, <2>7, <2>8, <2>9 DEF Inflight, Tracked, Idle
  <2>11. CallsSinceWipe'
    BY <2>2, <2>6, <2>10, Zenon DEF CallInv, CallsSinceWipe, CarriesOwnEpoch
  <2>12. ClearWaitsForOlder'
    BY <2>2, <2>7, <2>8, <2>9, <2>10 DEF CallInv, ClearWaitsForOlder, Idle
  <2> QED BY <1>c, <2>2, <2>3, <2>6, <2>11, <2>12, Zenon DEF CallInv
<1>12. CASE StaleReturn(j)
  <2>1. UNCHANGED <<msgs, chatRow, wiped, epoch, pending>> /\ job[j].kind \in Tracked
    BY <1>12, Zenon DEF StaleReturn, disk, queue, switches
  <2>2. CASE job[j].kind = "patch"
    <3> DEFINE b == [job[j] EXCEPT !.st = "done"]
    <3>1. job[j] \in PatchJob
      BY <1>a, <2>2, JobKinds, Zenon
    <3>2. b.kind = "patch" /\ b.started = job[j].started /\ b.queued = job[j].queued /\ b # Idle
      BY <3>1, Zenon DEF PatchJob, Idle
    <3>3. job' = [job EXCEPT ![j] = b]
      BY <1>12, <2>2, <3>2, Zenon DEF StaleReturn, SetJob, PersistTypeOK
    <3>4. CarriesOwnEpoch(b)
      BY <1>b, <2>1, <2>2, <3>2, Zenon DEF CarriesOwnEpoch
    <3> HIDE DEF b
    <3>5. CallInv'
      BY <2>1, <2>2, <3>2, <3>3, <3>4, AdvanceKeeps, Zenon
    <3> QED BY <1>c, <1>d, <2>1, <3>5, Zenon
  <2>3. CASE job[j].kind # "patch"
    <3>1. SetJob(j, Idle)
      BY <1>12, <2>3, Zenon DEF StaleReturn
    <3> QED BY <1>c, <1>d, <2>1, <3>1, ReturnKeeps, Zenon
  <2> QED BY <2>2, <2>3, Zenon
<1> QED BY <1>1, <1>2, <1>3, <1>4, <1>5, <1>6, <1>7, <1>8, <1>9, <1>10, <1>11, <1>12, Zenon DEF Step

\* Opening the database only marks calls that the epoch has overtaken.
LEMMA OpenDbKeeps ==
    ASSUME WipeInv, OpenDb
    PROVE  QueueIsCurrent' /\ CallInv' /\ NothingLandsAfterWipe'
<1> USE DEF WipeInv
<1>1. UNCHANGED <<msgs, chatRow, wiped, epoch, pending>>
  BY Zenon DEF OpenDb, disk, queue
<1>2. ASSUME NEW i \in Jobs
      PROVE  \/ job'[i] = job[i]
             \/ i \in Inflight /\ job'[i] = [job[i] EXCEPT !.st = "stale"]
  BY Zenon DEF OpenDb, Inflight
<1>3. ASSUME NEW i \in Inflight, job'[i] = [job[i] EXCEPT !.st = "stale"]
      PROVE  /\ job'[i].kind = job[i].kind /\ job'[i].started = job[i].started
             /\ job[i].kind = "flush" => job'[i].ops = job[i].ops
             /\ job[i].kind = "patch" => job'[i].queued = job[i].queued
  <2>1. job[i] \in FlushJob \cup PatchJob \cup MoveJob \cup ChatsJob
    BY JobKinds, Zenon DEF PersistTypeOK, Inflight, Tracked
  <2>2. CASE job[i] \in FlushJob
    BY <1>3, <2>2, Zenon DEF FlushJob
  <2>3. CASE job[i] \in PatchJob
    BY <1>3, <2>3, Zenon DEF PatchJob
  <2>4. CASE job[i] \in MoveJob
    BY <1>3, <2>4, Zenon DEF MoveJob
  <2>5. CASE job[i] \in ChatsJob
    BY <1>3, <2>5, Zenon DEF ChatsJob
  <2> QED BY <2>1, <2>2, <2>3, <2>4, <2>5, Zenon
<1>4. /\ Inflight' = Inflight
      /\ \A i \in Inflight : job'[i].started = job[i].started
      /\ \A i \in Jobs : job[i].kind = "clear" \/ job'[i].kind = "clear" => job'[i] = job[i]
  BY <1>2, <1>3, Zenon DEF Inflight, Tracked
<1>5. \A i \in Inflight : CarriesOwnEpoch(job[i]) => CarriesOwnEpoch(job'[i])
  BY <1>2, <1>3, ZenonT(30) DEF CarriesOwnEpoch, Inflight
<1>6. CallsSinceWipe'
  BY <1>1, <1>4, <1>5, Zenon DEF CallInv, CallsSinceWipe, CarriesOwnEpoch
<1>7. ClearWaitsForOlder'
  BY <1>1, <1>4, Zenon DEF CallInv, ClearWaitsForOlder, Inflight
<1> QED BY <1>1, <1>6, <1>7, Zenon DEF CallInv, QueueIsCurrent, NothingLandsAfterWipe

\* An aborted transaction and a restart write nothing.
LEMMA FailureKeeps ==
    ASSUME WipeInv, Failure
    PROVE  QueueIsCurrent' /\ CallInv' /\ NothingLandsAfterWipe'
<1> USE DEF WipeInv
<1>1. CASE Restart
  <2>1. UNCHANGED <<msgs, chatRow, wiped, epoch>> /\ \A i \in Jobs : job'[i] = Idle
    BY <1>1, Zenon DEF Restart, disk
  <2>2. QueueIsCurrent'
    BY <1>1, Zenon DEF Restart, QueueIsCurrent, NoOps, IsWrite, OpOf
  <2>3. Inflight' = {}
    BY <2>1 DEF Inflight, Tracked, Idle
  <2>4. CallsSinceWipe' /\ ClearWaitsForOlder'
    BY <2>1, <2>3 DEF CallsSinceWipe, ClearWaitsForOlder, Idle
  <2> QED BY <2>1, <2>2, <2>4, Zenon DEF CallInv, NothingLandsAfterWipe
<1>2. ASSUME NEW j \in Jobs, TxAbort(j)
      PROVE  QueueIsCurrent' /\ CallInv' /\ NothingLandsAfterWipe'
  <2>1. UNCHANGED <<msgs, chatRow, wiped, epoch>>
    BY <1>2, Zenon DEF TxAbort, disk, switches
  <2>2. NothingLandsAfterWipe'
    BY <2>1, Zenon DEF NothingLandsAfterWipe
  <2>3. CASE job[j].kind = "patch"
    <3> DEFINE b == [job[j] EXCEPT !.st = "done"]
    <3>1. job[j] \in PatchJob
      BY <2>3, JobKinds, Zenon DEF PersistTypeOK
    <3>2. b.kind = "patch" /\ b.started = job[j].started /\ b.queued = job[j].queued /\ b # Idle
      BY <3>1, Zenon DEF PatchJob, Idle
    <3>3. job' = [job EXCEPT ![j] = b]
      BY <1>2, <2>3, <3>2, Zenon DEF TxAbort, SetJob, PersistTypeOK
    <3>4. CarriesOwnEpoch(b)
      BY <2>3, <3>2, Zenon DEF CallInv, CallsSinceWipe, CarriesOwnEpoch, Inflight, Tracked
    <3> HIDE DEF b
    <3>5. CallInv'
      BY <2>1, <2>3, <3>2, <3>3, <3>4, AdvanceKeeps, Zenon DEF Tracked
    <3>6. PatchUnqueue(job[j]) \/ UNCHANGED pending
      BY <1>2, <2>3, Zenon DEF TxAbort
    <3>7. QueueIsCurrent'
      BY <2>1, <3>1, <3>6, UnqueueKeeps, Zenon DEF QueueIsCurrent
    <3> QED BY <2>2, <3>5, <3>7, Zenon
  <2>4. CASE job[j].kind # "patch"
    <3>1. SetJob(j, Idle) /\ UNCHANGED pending
      BY <1>2, <2>4, Zenon DEF TxAbort
    <3> QED BY <2>1, <2>2, <3>1, ReturnKeeps, Zenon DEF QueueIsCurrent
  <2> QED BY <2>3, <2>4, Zenon
<1> QED BY <1>1, <1>2, Zenon DEF Failure

\* The calls in progress, the queue and the rows stay on their side of a wipe.
THEOREM WipeInvariant == PersistSpec => []WipeInv
<1>1. PersistInit => WipeInv
  <2> SUFFICES ASSUME PersistInit PROVE WipeInv
    BY Zenon
  <2>1. PersistTypeOK
    BY InitType, Zenon
  <2>2. Inflight = {}
    BY Zenon DEF PersistInit, Inflight, Tracked, Idle
  <2>3. CallInv
    BY <2>2 DEF PersistInit, CallInv, CallsSinceWipe, ClearWaitsForOlder, Idle
  <2>4. QueueIsCurrent /\ NothingLandsAfterWipe
    BY Zenon DEF PersistInit, QueueIsCurrent, NothingLandsAfterWipe, NoOps, IsWrite, OpOf
  <2> QED BY <2>1, <2>3, <2>4, Zenon DEF WipeInv
<1>2. WipeInv /\ [PersistNext]_persistVars => WipeInv'
  <2> SUFFICES ASSUME WipeInv, [PersistNext]_persistVars PROVE WipeInv'
    BY Zenon
  <2>1. PersistTypeOK'
    BY TypeStep, Zenon DEF WipeInv
  <2>2. CASE Call
    BY <2>1, <2>2, CallKeeps, Zenon DEF WipeInv
  <2>3. CASE OpenDb
    BY <2>1, <2>3, OpenDbKeeps, Zenon DEF WipeInv
  <2>4. CASE \E j \in Jobs : Step(j)
    BY <2>1, <2>4, StepKeeps, SMTT(30) DEF WipeInv
  <2>5. CASE Failure
    BY <2>1, <2>5, FailureKeeps DEF WipeInv
  <2>6. CASE UNCHANGED persistVars
    BY <2>1, <2>6, Zenon DEF WipeInv, QueueIsCurrent, CallInv, CallsSinceWipe, ClearWaitsForOlder,
       CarriesOwnEpoch, Inflight, NothingLandsAfterWipe, persistVars, disk, queue, calls, switches
  <2> QED BY <2>2, <2>3, <2>4, <2>5, <2>6, Zenon DEF PersistNext
<1> QED BY <1>1, <1>2, PTL DEF PersistSpec

\* The wipe is final (clearAll, persist.ts:314-318): whatever was queued, being
\* flushed, patched, moved or waiting for the database when a reset began, no
\* row older than the last committed wipe is ever found in the cache.
THEOREM WipeIsFinal == PersistSpec => []NothingLandsAfterWipe
<1>1. WipeInv => NothingLandsAfterWipe
  BY Zenon DEF WipeInv
<1> QED BY <1>1, WipeInvariant, PTL

(***************************************************************************)
(* No queued write is stranded                                             *)
(***************************************************************************)
\* The queue stays empty if it was and no write is added.
LEMMA QueueShrinks ==
    ASSUME PersistTypeOK, PersistTypeOK', pending = NoOps,
           \A k \in Keys : pending'[k] = None \/ \E i \in Keys : pending'[k] = pending[i]
    PROVE  pending' = NoOps
BY Zenon DEF PersistTypeOK, NoOps

\* A step that adds nothing to the queue and leaves the timer alone (or arms it)
\* strands nothing.
LEMMA ShrinkKeeps ==
    ASSUME PersistTypeOK, PersistTypeOK', QueuedWritesHaveTimer, enabled' => enabled,
           msgTimer => msgTimer',
           \A k \in Keys : pending'[k] = None \/ \E i \in Keys : pending'[k] = pending[i]
    PROVE  QueuedWritesHaveTimer'
BY QueueShrinks, Zenon DEF QueuedWritesHaveTimer

\* Neither do scheduling and emptying the queue.
LEMMA ScheduleKeeps ==
    ASSUME PersistTypeOK, UNCHANGED enabled, ScheduleFlushMessages \/ pending' = NoOps
    PROVE  QueuedWritesHaveTimer'
BY Zenon DEF ScheduleFlushMessages, QueuedWritesHaveTimer, PersistTypeOK

\* A patch drops at most one queued write.
LEMMA UnqueueShrinks ==
    ASSUME PersistTypeOK, NEW p \in PatchJob, PatchUnqueue(p)
    PROVE  \A k \in Keys : pending'[k] = None \/ \E i \in Keys : pending'[k] = pending[i]
BY Zenon DEF PatchUnqueue, PersistTypeOK, PatchJob

\* scheduleFlushMessages is called wherever a step queues a write.
LEMMA TimerStep ==
    ASSUME PersistTypeOK, PersistTypeOK', QueuedWritesHaveTimer, [PersistNext]_persistVars
    PROVE  QueuedWritesHaveTimer'
<1>a. ASSUME enabled' => enabled, UNCHANGED queue PROVE QueuedWritesHaveTimer'
  BY <1>a, Zenon DEF queue, QueuedWritesHaveTimer
<1>1. CASE Call
  <2>1. ASSUME NEW k \in Keys, NEW us \in SUBSET Updates, UNCHANGED switches,
               \/ PersistMessage(k, [born |-> epoch, upd |-> us])
               \/ PersistMessageInsert(k, [born |-> epoch, upd |-> us])
               \/ PersistMessageDelete(k)
        PROVE  QueuedWritesHaveTimer'
    BY <2>1, <1>a, ScheduleKeeps, Zenon
       DEF PersistMessage, PersistMessageInsert, PersistMessageDelete, switches
  <2>2. ASSUME NEW j \in Jobs, NEW k \in Keys, NEW u \in Updates,
               PatchPersistedMessage(j, k, u)
        PROVE  QueuedWritesHaveTimer'
    <3>1. UNCHANGED <<enabled, msgTimer>>
      BY <2>2, Zenon DEF PatchPersistedMessage, switches
    <3>2. CASE UNCHANGED pending
      BY <1>a, <3>1, <3>2, Zenon DEF queue
    <3>3. CASE OpOf(pending[k]) = "put"
      <4>1. pending # NoOps
        BY <3>3, Zenon DEF NoOps, OpOf
      <4> QED BY <3>1, <4>1, Zenon DEF QueuedWritesHaveTimer
    <3> QED BY <2>2, <3>2, <3>3, Zenon DEF PatchPersistedMessage
  <2>3. ASSUME NEW j \in Jobs, NEW from \in Chats, NEW to \in Chats,
               MovePersistedChat(j, from, to)
        PROVE  QueuedWritesHaveTimer'
    <3>1. UNCHANGED <<enabled, msgTimer>>
      BY <2>3, Zenon DEF MovePersistedChat, switches
    <3>2. \A k \in Keys : pending'[k] = None \/ \E i \in Keys : pending'[k] = pending[i]
      BY <2>3, Zenon DEF MovePersistedChat, Rekeyed, Keys
    <3> QED BY <3>1, <3>2, ShrinkKeeps, Zenon
  <2>4. ASSUME NEW j \in Jobs, ClearAll(j) \/ SetAccount(j) \/ FlushPendingWrites(j)
        PROVE  QueuedWritesHaveTimer'
    <3>1. UNCHANGED enabled /\ (UNCHANGED queue \/ pending' = NoOps)
      BY <2>4, Zenon DEF ClearAll, SetAccount, FlushPendingWrites, FlushMessages, switches
    <3> QED BY <3>1, <1>a, ScheduleKeeps, Zenon
  <2>5. CASE EnablePersistence
    <3>1. UNCHANGED pending /\ (pending # NoOps => msgTimer')
      BY <2>5, Zenon DEF EnablePersistence, PersistTypeOK
    <3> QED BY <3>1, Zenon DEF QueuedWritesHaveTimer
  <2>6. CASE DiscardPending
    BY <2>6, ScheduleKeeps, Zenon DEF DiscardPending, switches
  <2>7. CASE SchedulePersistChats
    BY <2>7, <1>a, Zenon DEF SchedulePersistChats
  <2> QED BY <1>1, <2>1, <2>2, <2>3, <2>4, <2>5, <2>6, <2>7, Zenon DEF Call
<1>2. CASE OpenDb
  BY <1>2, <1>a, Zenon DEF OpenDb
<1>3. ASSUME NEW j \in Jobs, Step(j) PROVE QueuedWritesHaveTimer'
  <2>1. CASE FlushTimer(j)
    BY <2>1, ScheduleKeeps, Zenon DEF FlushTimer, FlushMessages, switches
  <2>2. CASE FlushResume(j)
    BY <2>2, <1>a, ScheduleKeeps, Zenon DEF FlushResume, switches
  <2>3. CASE PatchTx(j)
    <3>1. job[j] \in PatchJob
      BY <2>3, JobKinds, Zenon DEF PatchTx, Running, PersistTypeOK
    <3> QED BY <2>3, <3>1, UnqueueShrinks, ShrinkKeeps, Zenon DEF PatchTx, switches
  <2>4. CASE FlushTx(j) \/ ChatsTx(j) \/ MoveTx(j) \/ AccountTx(j) \/ ClearTx(j)
    BY <2>4, <1>a DEF FlushTx, ChatsTx, MoveTx, AccountTx, ClearTx, switches
  <2>5. CASE FlushChats(j) \/ PatchReturn(j) \/ ClearSettled(j) \/ StaleReturn(j)
    BY <2>5, <1>a DEF FlushChats, PatchReturn, ClearSettled, StaleReturn, switches
  <2> QED BY <1>3, <2>1, <2>2, <2>3, <2>4, <2>5, Zenon DEF Step
<1>4. CASE Restart
  BY <1>4, Zenon DEF Restart, QueuedWritesHaveTimer
<1>5. ASSUME NEW j \in Jobs, TxAbort(j) PROVE QueuedWritesHaveTimer'
  <2>1. UNCHANGED enabled
    BY <1>5, Zenon DEF TxAbort, switches
  <2>2. CASE job[j].kind = "flush"
    BY <1>5, <2>1, <2>2, ScheduleKeeps, Zenon DEF TxAbort
  <2>3. CASE job[j].kind = "patch"
    <3>1. job[j] \in PatchJob
      BY <2>3, JobKinds, Zenon DEF PersistTypeOK
    <3> QED BY <1>5, <2>1, <2>3, <3>1, UnqueueShrinks, ShrinkKeeps, Zenon DEF TxAbort
  <2>4. CASE job[j].kind \notin {"flush", "patch"}
    BY <1>5, <1>a, <2>1, <2>4, Zenon DEF TxAbort, queue
  <2> QED BY <2>2, <2>3, <2>4, Zenon
<1>6. CASE UNCHANGED persistVars
  BY <1>6, <1>a, Zenon DEF persistVars, switches
<1> QED BY <1>1, <1>2, <1>3, <1>4, <1>5, <1>6, Zenon DEF PersistNext, Failure

\* scheduleFlushMessages is called wherever it is needed: whatever the calls,
\* the failures and their order, a queued write has an armed timer behind it
\* while persistence is on.
THEOREM NoWriteStranded == PersistSpec => []QueuedWritesHaveTimer
<1> DEFINE Inv == PersistTypeOK /\ QueuedWritesHaveTimer
<1>1. PersistInit => Inv
  BY InitType, Zenon DEF PersistInit, QueuedWritesHaveTimer
<1>2. Inv /\ [PersistNext]_persistVars => Inv'
  BY TypeStep, TimerStep, Zenon
<1>3. Inv => QueuedWritesHaveTimer
  BY Zenon
<1> QED BY <1>1, <1>2, <1>3, PTL DEF PersistSpec

(***************************************************************************)
(* The account marker.  setAccount has no epoch and clearAll does not wait *)
(* for it; a marker of an old session is kept off a wiped cache only by    *)
(* the order of the transactions.                                          *)
(***************************************************************************)
Waiting == {"tx", "stale"}

\* The queue holds every call at most once, and only calls that wait in it.
QueueShape ==
    /\ \A m, n \in 1 .. Len(txq) : txq[m] = txq[n] => m = n
    /\ \A n \in 1 .. Len(txq) : job[txq[n]].kind # "idle" /\ job[txq[n]].st \in Waiting

\* No wipe that began after a setAccount is before it in the queue.
MarkersFirst ==
    \A j \in Jobs : job[j].kind = "account" =>
        /\ wiped <= job[j].started
        /\ \E n \in 1 .. Len(txq) :
              /\ txq[n] = j
              /\ \A m \in 1 .. n :
                    job[txq[m]].kind = "clear" => job[txq[m]].era <= job[j].started

MarkerInv == QueueShape /\ MarkersFirst /\ AccountMarkerWiped

\* What the argument reads of a call stays as it is.
Kept(i) ==
    /\ job'[i].kind = job[i].kind
    /\ job[i].kind = "account" => job'[i].started = job[i].started
    /\ job[i].kind = "clear" => job'[i].era = job[i].era
    /\ job[i].kind # "idle" => (job[i].st \in Waiting <=> job'[i].st \in Waiting)

\* A call that is not in the queue, and that is not a setAccount.
Apart(b) == b.kind # "account" /\ (b.kind = "idle" \/ b.st \notin Waiting)

InQueue(i) == \E n \in 1 .. Len(txq) : txq[n] = i

\* The three things a step does to the queue: nothing, one call joins it at its
\* end, or its head leaves it.
Stays ==
    /\ txq' = txq /\ wiped' = wiped
    /\ \A i \in Jobs : Kept(i) \/ (Apart(job'[i]) /\ ~InQueue(i))

Joins(j) ==
    /\ ~InQueue(j)
    /\ txq' = Append(txq, j) /\ wiped' = wiped
    /\ \A i \in Jobs \ {j} : Kept(i)
    /\ job'[j].kind # "idle" /\ job'[j].st \in Waiting
    /\ job'[j].kind = "account" => job'[j].started = epoch

Leaves(j) ==
    /\ txq # <<>> /\ j = Head(txq)
    /\ txq' = Tail(txq)
    /\ wiped' = wiped \/ (job[j].kind = "clear" /\ wiped' = job[j].era)
    /\ \A i \in Jobs \ {j} : Kept(i)
    /\ Apart(job'[j])

\* A queue that nobody joins or leaves keeps its order.
LEMMA StaysKeeps ==
    ASSUME PersistTypeOK, QueueShape, MarkersFirst, Stays
    PROVE  QueueShape' /\ MarkersFirst'
<1>1. \A n \in 1 .. Len(txq) : txq[n] \in Jobs /\ Kept(txq[n])
  BY DEF PersistTypeOK, Stays, InQueue
<1>2. QueueShape'
  BY <1>1, Zenon DEF QueueShape, Stays, Kept
<1>3. ASSUME NEW j \in Jobs, job'[j].kind = "account"
      PROVE  /\ wiped' <= job'[j].started
             /\ \E n \in 1 .. Len(txq') :
                   /\ txq'[n] = j
                   /\ \A m \in 1 .. n :
                         job'[txq'[m]].kind = "clear" => job'[txq'[m]].era <= job'[j].started
  <2>1. Kept(j) /\ job[j].kind = "account" /\ job'[j].started = job[j].started
    BY <1>3, Zenon DEF Stays, Kept, Apart
  <2>2. PICK n \in 1 .. Len(txq) :
               /\ txq[n] = j
               /\ \A m \in 1 .. n :
                     job[txq[m]].kind = "clear" => job[txq[m]].era <= job[j].started
    BY <2>1, Zenon DEF MarkersFirst
  <2>3. \A m \in 1 .. n : job'[txq'[m]].kind = "clear" => job'[txq'[m]].era <= job'[j].started
    BY <1>1, <2>1, <2>2 DEF Stays, Kept, PersistTypeOK
  <2>4. wiped' <= job'[j].started
    BY <2>1, Zenon DEF Stays, MarkersFirst
  <2> QED
    BY <2>2, <2>3, <2>4, Zenon DEF Stays
<1> QED
  BY <1>2, <1>3, Zenon DEF MarkersFirst

\* A call that joins the queue is behind everything that waits in it.
LEMMA JoinsKeeps ==
    ASSUME PersistTypeOK, CallInv, QueueShape, MarkersFirst, NEW j \in Jobs, Joins(j)
    PROVE  QueueShape' /\ MarkersFirst'
<1> DEFINE N == Len(txq)
<1>1. /\ N \in Nat /\ Len(txq') = N + 1 /\ txq'[N + 1] = j
      /\ \A n \in 1 .. N : txq[n] \in Jobs /\ txq'[n] = txq[n] /\ txq[n] # j
  BY DEF PersistTypeOK, Joins, InQueue
<1>2. \A n \in 1 .. N : Kept(txq[n])
  BY <1>1, Zenon DEF Joins
<1> HIDE DEF N
<1>3. QueueShape'
  <2>1. \A n \in 1 .. N + 1 : n = N + 1 \/ n \in 1 .. N
    BY <1>1
  <2>2. \A n \in 1 .. N + 1 : job'[txq'[n]].kind # "idle" /\ job'[txq'[n]].st \in Waiting
    BY <1>1, <1>2, <2>1 DEF QueueShape, Joins, Kept, N
  <2>3. \A m, n \in 1 .. N + 1 : txq'[m] = txq'[n] => m = n
    BY <1>1, <2>1, Zenon DEF QueueShape, N
  <2> QED
    BY <1>1, <2>2, <2>3, Zenon DEF QueueShape
<1>4. ASSUME NEW i \in Jobs, job'[i].kind = "account"
      PROVE  /\ wiped' <= job'[i].started
             /\ \E n \in 1 .. Len(txq') :
                   /\ txq'[n] = i
                   /\ \A m \in 1 .. n :
                         job'[txq'[m]].kind = "clear" => job'[txq'[m]].era <= job'[i].started
  <2>1. CASE i = j
    <3>1. job'[i].started = epoch /\ wiped' <= epoch
      BY <1>4, <2>1, Zenon DEF Joins, CallInv
    <3>2. ASSUME NEW m \in 1 .. N + 1, job'[txq'[m]].kind = "clear"
          PROVE  job'[txq'[m]].era <= epoch
      <4>1. m \in 1 .. N
        BY <1>1, <1>4, <2>1, <3>2
      <4>2. job[txq[m]].kind = "clear" /\ job'[txq'[m]].era = job[txq[m]].era
        BY <1>1, <1>2, <3>2, <4>1 DEF Kept
      <4> QED
        BY <1>1, <4>1, <4>2, Zenon DEF CallInv, ClearWaitsForOlder
    <3> QED
      BY <1>1, <2>1, <3>1, <3>2
  <2>2. CASE i # j
    <3>1. job[i].kind = "account" /\ job'[i].started = job[i].started
      BY <1>4, <2>2, Zenon DEF Joins, Kept
    <3>2. PICK n \in 1 .. N :
                 /\ txq[n] = i
                 /\ \A m \in 1 .. n :
                       job[txq[m]].kind = "clear" => job[txq[m]].era <= job[i].started
      BY <3>1, Zenon DEF MarkersFirst, N
    <3>3. \A m \in 1 .. n : m \in 1 .. N
      BY <1>1
    <3>4. \A m \in 1 .. n : job'[txq'[m]].kind = "clear" => job'[txq'[m]].era <= job'[i].started
      BY <1>1, <1>2, <3>1, <3>2, <3>3 DEF Kept
    <3>5. n \in 1 .. Len(txq') /\ txq'[n] = i
      BY <1>1, <3>2
    <3>6. wiped' <= job'[i].started
      BY <3>1, Zenon DEF Joins, MarkersFirst
    <3> QED
      BY <3>4, <3>5, <3>6, Zenon
  <2> QED
    BY <2>1, <2>2, Zenon
<1> QED
  BY <1>3, <1>4, Zenon DEF MarkersFirst

\* Whoever leaves the queue was before the rest of it; a wipe that runs is as old
\* as every setAccount that still waits.
LEMMA LeavesKeeps ==
    ASSUME PersistTypeOK, QueueShape, MarkersFirst, NEW j \in Jobs, Leaves(j)
    PROVE  QueueShape' /\ MarkersFirst'
<1> DEFINE N == Len(txq)
<1>1. /\ N \in Nat /\ N > 0 /\ txq[1] = j /\ Len(txq') = N - 1
      /\ \A n \in 1 .. N : txq[n] \in Jobs
      /\ \A n \in 1 .. N - 1 : txq'[n] = txq[n + 1]
  BY DEF PersistTypeOK, Leaves
<1>2. \A n \in 2 .. N : Kept(txq[n]) /\ txq[n] # j
  BY <1>1 DEF Leaves, QueueShape
<1> HIDE DEF N
<1>3. QueueShape'
  <2>1. \A n \in 1 .. N - 1 : n + 1 \in 2 .. N /\ n + 1 \in 1 .. N
    BY <1>1
  <2>2. \A n \in 1 .. N - 1 : job'[txq'[n]].kind # "idle" /\ job'[txq'[n]].st \in Waiting
    BY <1>1, <1>2, <2>1 DEF QueueShape, Kept, N
  <2>3. \A m, n \in 1 .. N - 1 : txq'[m] = txq'[n] => m = n
    BY <1>1, <2>1 DEF QueueShape, N
  <2> QED
    BY <1>1, <2>2, <2>3, Zenon DEF QueueShape
<1>4. ASSUME NEW i \in Jobs, job'[i].kind = "account"
      PROVE  /\ wiped' <= job'[i].started
             /\ \E n \in 1 .. Len(txq') :
                   /\ txq'[n] = i
                   /\ \A m \in 1 .. n :
                         job'[txq'[m]].kind = "clear" => job'[txq'[m]].era <= job'[i].started
  <2>1. i # j /\ job[i].kind = "account" /\ job'[i].started = job[i].started
    BY <1>4, Zenon DEF Leaves, Kept, Apart
  <2>2. PICK n \in 1 .. N :
               /\ txq[n] = i
               /\ \A m \in 1 .. n :
                     job[txq[m]].kind = "clear" => job[txq[m]].era <= job[i].started
    BY <2>1, Zenon DEF MarkersFirst, N
  <2>3. n \in Nat /\ n > 1 /\ n - 1 \in 1 .. N - 1 /\ 1 \in 1 .. n
    BY <1>1, <2>1, <2>2
  <2>4. wiped' <= job'[i].started
    BY <1>1, <2>1, <2>2, <2>3 DEF Leaves, MarkersFirst
  <2>5. txq'[n - 1] = i
    BY <1>1, <2>2, <2>3
  <2>6. ASSUME NEW m \in 1 .. n - 1, job'[txq'[m]].kind = "clear"
        PROVE  job'[txq'[m]].era <= job'[i].started
    <3>1. m + 1 \in 1 .. n /\ m + 1 \in 2 .. N /\ txq'[m] = txq[m + 1]
      BY <1>1, <2>3
    <3> QED
      BY <1>2, <2>1, <2>2, <2>6, <3>1 DEF Kept
  <2> QED
    BY <1>1, <2>3, <2>4, <2>5, <2>6, Zenon
<1> QED
  BY <1>3, <1>4, Zenon DEF MarkersFirst

\* A step on one call keeps the others, up to what a clearAll waits for.
LEMMA OthersKept ==
    ASSUME PersistTypeOK, NEW j \in Jobs, NEW b,
           SetJob(j, b) \/ job' = [job EXCEPT ![j] = b]
    PROVE  job'[j] = b /\ \A i \in Jobs \ {j} : Kept(i)
<1>1. job'[j] = b
  BY Zenon DEF SetJob, PersistTypeOK
<1>2. ASSUME NEW i \in Jobs \ {j} PROVE Kept(i)
  <2>1. job'[i] = job[i] \/ (job[i].kind = "clear" /\ job'[i] = [job[i] EXCEPT !.waits = @ \ {j}])
    BY Zenon DEF SetJob, PersistTypeOK
  <2>2. CASE job'[i] = job[i]
    BY <2>2, Zenon DEF Kept
  <2>3. CASE job[i].kind = "clear" /\ job'[i] = [job[i] EXCEPT !.waits = @ \ {j}]
    <3>1. job[i] \in ClearJob
      BY <2>3, EraType, Zenon
    <3>2. job'[i].kind = "clear" /\ job'[i].era = job[i].era /\ job'[i].st = job[i].st
      BY <2>3, <3>1, Zenon DEF ClearJob
    <3> QED
      BY <2>3, <3>2, Zenon DEF Kept
  <2> QED
    BY <2>1, <2>2, <2>3, Zenon
<1> QED
  BY <1>1, <1>2, Zenon

\* A call that is idle, or not waiting, is not in the queue.
LEMMA NotQueued ==
    ASSUME QueueShape, NEW i \in Jobs, job[i].kind = "idle" \/ job[i].st \notin Waiting
    PROVE  ~InQueue(i)
BY Zenon DEF QueueShape, InQueue

\* A new call joins the queue.
LEMMA EnqueueJoins ==
    ASSUME PersistTypeOK, QueueShape, NEW j \in Jobs, NEW b, Enqueue(j, b), wiped' = wiped,
           b.kind # "idle", b.st \in Waiting, b.kind = "account" => b.started = epoch
    PROVE  Joins(j)
<1>1. ~InQueue(j)
  BY NotQueued DEF Enqueue, Idle
<1>2. job'[j] = b /\ \A i \in Jobs \ {j} : Kept(i)
  BY OthersKept, Zenon DEF Enqueue
<1> QED
  BY <1>1, <1>2, Zenon DEF Joins, Enqueue

\* A call that is not in the queue goes on without it.
LEMMA AsideStays ==
    ASSUME PersistTypeOK, QueueShape, NEW j \in Jobs, NEW b,
           SetJob(j, b) \/ job' = [job EXCEPT ![j] = b],
           job[j].kind = "idle" \/ job[j].st \notin Waiting,
           Apart(b), UNCHANGED <<txq, wiped>>
    PROVE  Stays
<1>1. ~InQueue(j)
  BY NotQueued, Zenon
<1>2. job'[j] = b /\ \A i \in Jobs \ {j} : Kept(i)
  BY OthersKept, Zenon
<1> QED
  BY <1>1, <1>2, Zenon DEF Stays

\* A transaction that has run has left the queue.
LEMMA RunLeaves ==
    ASSUME PersistTypeOK, NEW j \in Jobs, NEW b,
           SetJob(j, b) \/ job' = [job EXCEPT ![j] = b],
           txq # <<>>, j = Head(txq), txq' = Tail(txq), Apart(b),
           wiped' = wiped \/ (job[j].kind = "clear" /\ wiped' = job[j].era)
    PROVE  Leaves(j)
<1>1. job'[j] = b /\ \A i \in Jobs \ {j} : Kept(i)
  BY OthersKept, Zenon
<1> QED
  BY <1>1, Zenon DEF Leaves

Moves == Stays \/ \E j \in Jobs : Joins(j) \/ Leaves(j)

\* flushMessages starts a call that waits in the queue or, with nothing to
\* write, does not.
LEMMA FlushMoves ==
    ASSUME PersistTypeOK, QueueShape, NEW j \in Jobs, FlushMessages(j)
    PROVE  Moves /\ UNCHANGED <<account, wiped>>
<1> DEFINE call == [kind |-> "flush", st |-> "resume", started |-> epoch,
                    ops |-> pending, slice |-> {}]
<1>0. UNCHANGED <<account, wiped>> /\ job[j] = Idle
  BY Zenon DEF FlushMessages, disk
<1>1. UNCHANGED <<account, wiped>> /\ job[j].kind = "idle"
  BY <1>0 DEF Idle
<1>2. CASE pending = NoOps
  <2>1. job' = [job EXCEPT ![j] = call] /\ txq' = txq /\ Apart(call)
    BY <1>2, Zenon DEF FlushMessages, Apart, Waiting
  <2> HIDE DEF call
  <2> QED
    BY <1>1, <2>1, AsideStays, Zenon DEF Moves
<1>3. CASE pending # NoOps
  <2>1. PICK s \in Slices(Queued(pending)) : Enqueue(j, [call EXCEPT !.st = "tx", !.slice = s])
    BY <1>3, Zenon DEF FlushMessages
  <2> DEFINE b == [call EXCEPT !.st = "tx", !.slice = s]
  <2>2. b.kind = "flush" /\ b.st \in Waiting /\ Enqueue(j, b)
    BY <2>1, Zenon DEF Waiting
  <2> HIDE DEF b, call
  <2> QED
    BY <1>1, <2>2, EnqueueJoins, Zenon DEF Moves
<1> QED
  BY <1>2, <1>3, Zenon

\* What the stores call starts a call at the end of the queue, or none.
LEMMA CallMoves ==
    ASSUME PersistTypeOK, QueueShape, Call
    PROVE  Moves /\ UNCHANGED <<account, wiped>>
<1>0. ASSUME UNCHANGED <<job, txq, wiped>> PROVE Stays
  BY <1>0, Zenon DEF Stays, Kept
<1>1. CASE UNCHANGED <<disk, calls>>
  BY <1>0, <1>1, Zenon DEF disk, calls, Moves
<1>2. ASSUME NEW j \in Jobs, NEW k \in Keys, NEW u \in Updates, PatchPersistedMessage(j, k, u)
      PROVE  Moves /\ UNCHANGED <<account, wiped>>
  <2> DEFINE call == [kind |-> "patch", st |-> "done", started |-> epoch, key |-> k,
                      upd |-> u, queued |-> None, res |-> None]
             asked == [call EXCEPT !.st = "tx", !.queued = pending[k]]
  <2>1. UNCHANGED <<account, wiped>> /\ job[j] = Idle /\ job[j].kind = "idle"
    BY <1>2 DEF PatchPersistedMessage, disk, Idle
  <2>2. ASSUME NEW b, b = call \/ b = [call EXCEPT !.res = pending'[k].m],
               job' = [job EXCEPT ![j] = b], txq' = txq
        PROVE  Moves
    <3>1. b.kind = "patch" /\ b.st = "done"
      BY <2>2
    <3>2. Apart(b)
      BY <3>1, Zenon DEF Apart, Waiting
    <3> HIDE DEF call, asked
    <3> QED
      BY <2>1, <2>2, <3>2, AsideStays, Zenon DEF Moves
  <2>3. ASSUME Enqueue(j, asked) PROVE Moves
    <3>1. asked.kind = "patch" /\ asked.st \in Waiting
      BY Zenon DEF Waiting
    <3> HIDE DEF call, asked
    <3> QED
      BY <2>1, <2>3, <3>1, EnqueueJoins, Zenon DEF Moves
  <2> QED
    BY <1>2, <2>1, <2>2, <2>3, Zenon DEF PatchPersistedMessage
<1>3. ASSUME NEW j \in Jobs, NEW from \in Chats, NEW to \in Chats, MovePersistedChat(j, from, to)
      PROVE  Moves /\ UNCHANGED <<account, wiped>>
  <2> DEFINE b == [kind |-> "move", st |-> "tx", started |-> epoch, from |-> from, to |-> to]
  <2>1. Enqueue(j, b) /\ b.kind = "move" /\ b.st \in Waiting /\ UNCHANGED <<account, wiped>>
    BY <1>3, Zenon DEF MovePersistedChat, Waiting, disk
  <2> HIDE DEF b
  <2> QED
    BY <2>1, EnqueueJoins, Zenon DEF Moves
<1>4. ASSUME NEW j \in Jobs, ClearAll(j) PROVE Moves /\ UNCHANGED <<account, wiped>>
  <2> DEFINE b == [kind |-> "clear", st |-> "settle", era |-> epoch', waits |-> Inflight]
  <2>1. /\ job' = [job EXCEPT ![j] = b] /\ job[j].kind = "idle"
        /\ UNCHANGED <<account, wiped, txq>>
    BY <1>4 DEF ClearAll, disk, Idle
  <2>2. Apart(b)
    BY Zenon DEF Apart, Waiting
  <2> HIDE DEF b
  <2> QED
    BY <2>1, <2>2, AsideStays, Zenon DEF Moves
<1>5. ASSUME NEW j \in Jobs, SetAccount(j) PROVE Moves /\ UNCHANGED <<account, wiped>>
  <2> DEFINE b == [kind |-> "account", st |-> "tx", started |-> epoch]
  <2>1. /\ Enqueue(j, b) /\ b.kind = "account" /\ b.st \in Waiting /\ b.started = epoch
        /\ UNCHANGED <<account, wiped>>
    BY <1>5, Zenon DEF SetAccount, Waiting, disk
  <2> HIDE DEF b
  <2> QED
    BY <2>1, EnqueueJoins, Zenon DEF Moves
<1>6. ASSUME NEW j \in Jobs, FlushPendingWrites(j) PROVE Moves /\ UNCHANGED <<account, wiped>>
  BY <1>6, FlushMoves, Zenon DEF FlushPendingWrites
<1>7. CASE EnablePersistence \/ DiscardPending \/ SchedulePersistChats
  BY <1>1, <1>7, Zenon DEF EnablePersistence, DiscardPending, SchedulePersistChats
<1> QED
  BY <1>1, <1>2, <1>3, <1>4, <1>5, <1>6, <1>7, Zenon DEF Call

\* A transaction that runs leaves the queue, and a clearAll or the next slice of
\* a flush joins it; the marker that setAccount writes is no older than the wipe.
LEMMA StepMoves ==
    ASSUME PersistTypeOK, MarkerInv, NEW j \in Jobs, Step(j)
    PROVE  Moves /\ AccountMarkerWiped'
<1>0. QueueShape /\ AccountMarkerWiped /\ wiped \in Nat
  BY Zenon DEF MarkerInv, PersistTypeOK
<1>a. ASSUME Moves, UNCHANGED <<account, wiped>> PROVE Moves /\ AccountMarkerWiped'
  BY <1>0, <1>a, Zenon DEF AccountMarkerWiped
<1>b. ASSUME NEW kind, Running(j, kind) PROVE txq # <<>> /\ j = Head(txq) /\ txq' = Tail(txq)
  BY <1>b, Zenon DEF Running
<1>c. Apart(Idle)
  BY Zenon DEF Idle, Apart
<1>1. CASE FlushTimer(j)
  BY <1>0, <1>1, <1>a, FlushMoves, Zenon DEF FlushTimer
<1>2. CASE FlushTx(j)
  <2> DEFINE b == [job[j] EXCEPT !.st = "resume", !.slice = {},
                     !.ops = [k \in Keys |-> IF k \in job[j].slice THEN None ELSE job[j].ops[k]]]
  <2>1. job[j] \in FlushJob /\ UNCHANGED <<account, wiped>> /\ Running(j, "flush")
    BY <1>2, JobKinds, Zenon DEF FlushTx, Running, PersistTypeOK
  <2>2. Apart(b) /\ job' = [job EXCEPT ![j] = b]
    BY <1>2, <2>1, Zenon DEF FlushTx, FlushJob, Apart, Waiting
  <2> HIDE DEF b
  <2> QED
    BY <1>a, <1>b, <2>1, <2>2, RunLeaves, Zenon DEF Moves
<1>3. CASE FlushResume(j)
  <2>1. job[j] \in FlushJob /\ UNCHANGED <<account, wiped>> /\ job[j].st \notin Waiting
    BY <1>3, JobKinds, Zenon DEF FlushResume, disk, PersistTypeOK, Waiting
  <2>2. CASE SetJob(j, Idle) /\ UNCHANGED txq
    BY <1>0, <1>a, <1>c, <2>1, <2>2, AsideStays, Zenon DEF Moves
  <2>3. ASSUME NEW s, job' = [job EXCEPT ![j].st = "tx", ![j].slice = s], txq' = Append(txq, j)
        PROVE  Moves
    <3> DEFINE b == [job[j] EXCEPT !.st = "tx", !.slice = s]
    <3>1. b.kind = "flush" /\ b.st \in Waiting /\ job' = [job EXCEPT ![j] = b]
      BY <2>1, <2>3, Zenon DEF FlushJob, Waiting
    <3> HIDE DEF b
    <3>2. ~InQueue(j)
      BY <1>0, <2>1, NotQueued, Zenon
    <3>3. job'[j] = b /\ \A i \in Jobs \ {j} : Kept(i)
      BY <3>1, OthersKept, Zenon
    <3> QED
      BY <2>1, <2>3, <3>1, <3>2, <3>3, Zenon DEF Moves, Joins
  <2> QED
    BY <1>3, <1>a, <2>1, <2>2, <2>3, Zenon DEF FlushResume
<1>4. CASE FlushChats(j)
  <2>1. PICK rows \in SUBSET Chats :
               Enqueue(j, [kind |-> "chats", st |-> "tx", started |-> epoch, rows |-> rows])
    BY <1>4, Zenon DEF FlushChats
  <2> DEFINE b == [kind |-> "chats", st |-> "tx", started |-> epoch, rows |-> rows]
  <2>2. /\ Enqueue(j, b) /\ b.kind = "chats" /\ b.st \in Waiting
        /\ UNCHANGED <<account, wiped>>
    BY <1>4, <2>1, Zenon DEF FlushChats, Waiting, disk
  <2> HIDE DEF b
  <2> QED
    BY <1>0, <1>a, <2>2, EnqueueJoins, Zenon DEF Moves
<1>5. CASE ChatsTx(j)
  BY <1>5, <1>a, <1>b, <1>c, RunLeaves, Zenon DEF ChatsTx, Moves
<1>6. CASE PatchTx(j)
  <2>1. PICK next : job' = [job EXCEPT ![j].st = "done", ![j].res = next]
    BY <1>6, Zenon DEF PatchTx
  <2> DEFINE b == [job[j] EXCEPT !.st = "done", !.res = next]
  <2>2. UNCHANGED <<account, wiped>> /\ Running(j, "patch") /\ job[j].kind = "patch"
    BY <1>6, Zenon DEF PatchTx, Running
  <2>4. job[j] \in PatchJob
    BY <2>2, JobKinds, Zenon DEF PersistTypeOK
  <2>3. Apart(b) /\ job' = [job EXCEPT ![j] = b]
    BY <2>1, <2>4, Zenon DEF PatchJob, Apart, Waiting
  <2> HIDE DEF b
  <2> QED
    BY <1>a, <1>b, <2>2, <2>3, RunLeaves, Zenon DEF Moves
<1>7. CASE PatchReturn(j)
  <2>1. job[j].st \notin Waiting /\ SetJob(j, Idle) /\ UNCHANGED <<account, wiped, txq>>
    BY <1>7, Zenon DEF PatchReturn, Waiting, disk
  <2> QED
    BY <1>0, <1>a, <1>c, <2>1, AsideStays, Zenon DEF Moves
<1>8. CASE MoveTx(j)
  BY <1>8, <1>a, <1>b, <1>c, RunLeaves, Zenon DEF MoveTx, Moves
<1>9. CASE AccountTx(j)
  <2>1. job[j].kind = "account" /\ account' = job[j].started /\ wiped' = wiped
    BY <1>9, Zenon DEF AccountTx, Running
  <2>2. job[j].started \in Nat
    BY <2>1, JobKinds DEF PersistTypeOK, AccountJob
  <2>3. wiped <= job[j].started
    BY <2>1, Zenon DEF MarkerInv, MarkersFirst
  <2>4. AccountMarkerWiped'
    BY <1>0, <2>1, <2>2, <2>3, Zenon DEF AccountMarkerWiped
  <2> QED
    BY <1>9, <1>b, <1>c, <2>4, RunLeaves, Zenon DEF AccountTx, Moves
<1>10. CASE ClearSettled(j)
  <2> DEFINE b == [job[j] EXCEPT !.st = "tx"]
  <2>1. /\ job[j] \in ClearJob /\ UNCHANGED <<account, wiped>> /\ job[j].st \notin Waiting
        /\ txq' = Append(txq, j)
    BY <1>10, JobKinds, Zenon DEF ClearSettled, disk, PersistTypeOK, Waiting
  <2>2. b.kind = "clear" /\ b.st \in Waiting /\ job' = [job EXCEPT ![j] = b]
    BY <1>10, <2>1, Zenon DEF ClearSettled, ClearJob, Waiting
  <2> HIDE DEF b
  <2>3. ~InQueue(j)
    BY <1>0, <2>1, NotQueued, Zenon
  <2>4. job'[j] = b /\ \A i \in Jobs \ {j} : Kept(i)
    BY <2>2, OthersKept, Zenon
  <2> QED
    BY <1>a, <2>1, <2>2, <2>3, <2>4, Zenon DEF Moves, Joins
<1>11. CASE ClearTx(j)
  <2>1. account' = None /\ (wiped' = wiped \/ (job[j].kind = "clear" /\ wiped' = job[j].era))
    BY <1>11, Zenon DEF ClearTx, Running
  <2>2. Running(j, "clear") /\ SetJob(j, Idle)
    BY <1>11, Zenon DEF ClearTx
  <2> QED
    BY <1>b, <1>c, <2>1, <2>2, RunLeaves, Zenon DEF Moves, AccountMarkerWiped
<1>12. CASE StaleReturn(j)
  <2>1. UNCHANGED <<account, wiped>> /\ txq # <<>> /\ j = Head(txq) /\ txq' = Tail(txq)
    BY <1>12, Zenon DEF StaleReturn, disk
  <2>2. CASE job[j].kind = "patch"
    <3> DEFINE b == [job[j] EXCEPT !.st = "done"]
    <3>1. job[j] \in PatchJob
      BY <2>2, JobKinds, Zenon DEF PersistTypeOK
    <3>2. Apart(b) /\ SetJob(j, b)
      BY <1>12, <2>2, <3>1, Zenon DEF StaleReturn, PatchJob, Apart, Waiting
    <3> HIDE DEF b
    <3> QED
      BY <1>a, <2>1, <3>2, RunLeaves, Zenon DEF Moves
  <2>3. CASE job[j].kind # "patch"
    BY <1>12, <1>a, <1>c, <2>1, <2>3, RunLeaves, Zenon DEF StaleReturn, Moves
  <2> QED
    BY <2>2, <2>3, Zenon
<1> QED
  BY <1>1, <1>2, <1>3, <1>4, <1>5, <1>6, <1>7, <1>8, <1>9, <1>10, <1>11, <1>12, Zenon DEF Step

\* A transaction that aborts leaves the queue without writing.
LEMMA AbortMoves ==
    ASSUME PersistTypeOK, NEW j \in Jobs, TxAbort(j)
    PROVE  Moves /\ UNCHANGED <<account, wiped>>
<1>0. Apart(Idle)
  BY Zenon DEF Idle, Apart
<1>1. UNCHANGED <<account, wiped>> /\ txq # <<>> /\ j = Head(txq) /\ txq' = Tail(txq)
  BY Zenon DEF TxAbort, Running, disk
<1>2. CASE job[j].kind = "patch"
  <2> DEFINE b == [job[j] EXCEPT !.st = "done"]
  <2>1. job[j] \in PatchJob
    BY <1>2, JobKinds, Zenon DEF PersistTypeOK
  <2>2. Apart(b) /\ SetJob(j, b)
    BY <1>2, <2>1, Zenon DEF TxAbort, PatchJob, Apart, Waiting
  <2> HIDE DEF b
  <2> QED
    BY <1>1, <2>2, RunLeaves, Zenon DEF Moves
<1>3. CASE job[j].kind # "patch"
  BY <1>0, <1>1, <1>3, RunLeaves, Zenon DEF TxAbort, Moves
<1> QED
  BY <1>2, <1>3, Zenon

\* Opening the database keeps the queue and its order.
LEMMA OpenDbMoves ==
    ASSUME PersistTypeOK, OpenDb
    PROVE  Moves /\ UNCHANGED <<account, wiped>>
<1>1. UNCHANGED <<account, wiped, txq>>
  BY Zenon DEF OpenDb, disk
<1>2. ASSUME NEW i \in Jobs PROVE Kept(i)
  <2>1. \/ job'[i] = job[i]
        \/ /\ job[i].kind \in Tracked /\ job[i].st = "tx"
           /\ job'[i] = [job[i] EXCEPT !.st = "stale"]
    BY Zenon DEF OpenDb
  <2>2. CASE job'[i] = job[i]
    BY <2>2, Zenon DEF Kept
  <2>3. CASE /\ job[i].kind \in Tracked /\ job[i].st = "tx"
             /\ job'[i] = [job[i] EXCEPT !.st = "stale"]
    <3>1. job[i] \in FlushJob \cup PatchJob \cup MoveJob \cup ChatsJob
      BY <2>3, JobKinds, Zenon DEF PersistTypeOK, Tracked
    <3>2. job'[i].kind = job[i].kind /\ job'[i].st = "stale"
      BY <2>3, <3>1, Zenon DEF FlushJob, PatchJob, MoveJob, ChatsJob
    <3> QED
      BY <2>3, <3>2, Zenon DEF Kept, Tracked, Waiting
  <2> QED
    BY <2>1, <2>2, <2>3, Zenon
<1> QED
  BY <1>1, <1>2, Zenon DEF Moves, Stays

\* Every step keeps the order of the queue and the marker.
LEMMA MarkerStep ==
    ASSUME WipeInv, MarkerInv, [PersistNext]_persistVars PROVE MarkerInv'
<1>1. PersistTypeOK /\ CallInv /\ QueueShape /\ MarkersFirst /\ AccountMarkerWiped
  BY Zenon DEF WipeInv, MarkerInv
<1>2. ASSUME Moves, AccountMarkerWiped' PROVE MarkerInv'
  BY <1>1, <1>2, StaysKeeps, JoinsKeeps, LeavesKeeps, Zenon DEF Moves, MarkerInv
<1>3. ASSUME Moves, UNCHANGED <<account, wiped>> PROVE MarkerInv'
  BY <1>1, <1>2, <1>3, Zenon DEF AccountMarkerWiped
<1>4. CASE Call
  BY <1>1, <1>3, <1>4, CallMoves, Zenon
<1>5. CASE OpenDb
  BY <1>1, <1>3, <1>5, OpenDbMoves, Zenon
<1>6. CASE \E j \in Jobs : Step(j)
  BY <1>1, <1>2, <1>6, StepMoves, Zenon
<1>7. CASE Restart
  <2>1. /\ txq' = <<>> /\ UNCHANGED <<account, wiped>>
        /\ \A j \in Jobs : job'[j] = Idle
    BY <1>7, Zenon DEF Restart, disk
  <2>2. QueueShape' /\ MarkersFirst'
    BY <2>1 DEF QueueShape, MarkersFirst, Idle
  <2> QED
    BY <1>1, <2>1, <2>2, Zenon DEF MarkerInv, AccountMarkerWiped
<1>8. CASE \E j \in Jobs : TxAbort(j)
  BY <1>1, <1>3, <1>8, AbortMoves, Zenon
<1>9. CASE UNCHANGED persistVars
  <2>1. Stays /\ UNCHANGED <<account, wiped>>
    BY <1>9, Zenon DEF persistVars, calls, disk, Stays, Kept
  <2> QED
    BY <1>3, <2>1, Zenon DEF Moves
<1> QED
  BY <1>4, <1>5, <1>6, <1>7, <1>8, <1>9, Zenon DEF PersistNext, Failure

\* A marker written by an old call never lands on a wiped cache, although
\* setAccount takes no part in the epoch or in `inflight' (persist.ts): its
\* transaction was created before the wipe's, so it runs before it.
THEOREM AccountMarkerTheorem == PersistSpec => []AccountMarkerWiped
<1>1. PersistInit => MarkerInv
  BY DEF PersistInit, MarkerInv, QueueShape, MarkersFirst, AccountMarkerWiped, Idle
<1>2. WipeInv /\ MarkerInv /\ [PersistNext]_persistVars => MarkerInv'
  BY MarkerStep, Zenon
<1>3. MarkerInv => AccountMarkerWiped
  BY Zenon DEF MarkerInv
<1> QED
  BY <1>1, <1>2, <1>3, WipeInvariant, PTL DEF PersistSpec

----------------------------------------------------------------------------
(* Who waits for whom *)

\* The guard of the step that is next for a call in progress: its transaction is
\* the oldest one, it found the epoch bumped, it goes on after `await txDone', its
\* promise resolves, or every promise clearAll waits for has settled.
CanGoOn(j) ==
    \/ txq # <<>> /\ j = Head(txq) /\ job[j].st = "tx" /\ open
    \/ txq # <<>> /\ j = Head(txq) /\ job[j].st = "stale" /\ job[j].kind \in Tracked
    \/ /\ job[j].kind = "flush" /\ job[j].st = "resume" /\ open
       /\ Slices(Queued(job[j].ops)) # {}
    \/ job[j].kind = "patch" /\ job[j].st = "done"
    \/ job[j].kind = "clear" /\ job[j].st = "settle" /\ job[j].waits = {}

\* What a call that cannot go on waits for: the oldest transaction, or a promise.
Blocks(k, j) ==
    \/ InQueue(j) /\ k = Head(txq)
    \/ job[j].kind = "clear" /\ job[j].st = "settle" /\ k \in job[j].waits

\* Every call in progress can go on, or waits for one that can, or for one that
\* waits for one that can.
WaitsEnd ==
    open => \A j \in Jobs : job[j].kind # "idle" =>
        \/ CanGoOn(j)
        \/ \E k \in Jobs : Blocks(k, j) /\ CanGoOn(k)
        \/ \E k, l \in Jobs : Blocks(k, j) /\ Blocks(l, k) /\ CanGoOn(l)

\* A call that waits for its turn is in the queue.
AllQueued == \A j \in Jobs : job[j].kind # "idle" /\ job[j].st \in Waiting => InQueue(j)

\* clearAll waits only for calls that have not returned.
WaitsForCalls == \A c \in Jobs : job[c].kind = "clear" => job[c].waits \subseteq Inflight

\* A step that moves the queue leaves nobody outside it.
LEMMA MovesQueued ==
    ASSUME PersistTypeOK, AllQueued, Moves
    PROVE  AllQueued'
<1>1. CASE Stays
  BY <1>1, Zenon DEF Stays, AllQueued, Kept, Apart, InQueue
<1>2. ASSUME NEW j \in Jobs, Joins(j) PROVE AllQueued'
  <2>1. /\ \A n \in 1 .. Len(txq) : n \in 1 .. Len(txq') /\ txq'[n] = txq[n]
        /\ Len(txq') \in 1 .. Len(txq') /\ txq'[Len(txq')] = j
    BY <1>2 DEF Joins, PersistTypeOK
  <2>2. \A i \in Jobs : InQueue(i) \/ i = j => InQueue(i)'
    BY <2>1, Zenon DEF InQueue
  <2> QED
    BY <1>2, <2>2, Zenon DEF Joins, AllQueued, Kept
<1>3. ASSUME NEW j \in Jobs, Leaves(j) PROVE AllQueued'
  <2>1. \A n \in 1 .. Len(txq) : n = 1 \/ (n - 1 \in 1 .. Len(txq') /\ txq'[n - 1] = txq[n])
    BY <1>3 DEF Leaves, PersistTypeOK
  <2>2. txq[1] = j
    BY <1>3 DEF Leaves, PersistTypeOK
  <2>3. \A i \in Jobs : InQueue(i) /\ i # j => InQueue(i)'
    BY <2>1, <2>2, Zenon DEF InQueue
  <2> QED
    BY <1>3, <2>3, Zenon DEF Leaves, AllQueued, Kept, Apart
<1> QED
  BY <1>1, <1>2, <1>3, Zenon DEF Moves

\* A tracked call that returns is waited for no longer, and a clearAll waits for
\* what it waited for, or for the calls in flight when it begins.
Settles ==
    /\ \A i \in Inflight : \/ job'[i].kind \in Tracked
                           \/ \A c \in Jobs : job'[c].kind = "clear" => i \notin job'[c].waits
    /\ \A c \in Jobs : job'[c].kind = "clear" =>
          \/ job[c].kind = "clear" /\ job'[c].waits \subseteq job[c].waits
          \/ job'[c].waits \subseteq Inflight

LEMMA SettlesKeeps ==
    ASSUME PersistTypeOK, WaitsForCalls, Settles
    PROVE  WaitsForCalls'
<1>1. ASSUME NEW c \in Jobs, job'[c].kind = "clear", NEW i \in job'[c].waits
      PROVE  i \in Inflight'
  <2>1. i \in Inflight
    BY <1>1, Zenon DEF Settles, WaitsForCalls
  <2> QED
    BY <1>1, <2>1, Zenon DEF Settles, Inflight
<1> QED
  BY <1>1, Zenon DEF WaitsForCalls

\* A call returns.
LEMMA ReturnSettles ==
    ASSUME PersistTypeOK, NEW j \in Jobs, SetJob(j, Idle)
    PROVE  Settles
<1>1. job'[j].kind = "idle"
  BY Zenon DEF SetJob, Idle
<1>2. ASSUME NEW i \in Jobs, i # j
      PROVE  /\ job'[i].kind = job[i].kind
             /\ job[i].kind = "clear" => job'[i].waits = job[i].waits \ {j}
  <2>1. CASE job[i].kind = "clear"
    <3>1. job'[i] = [job[i] EXCEPT !.waits = @ \ {j}] /\ job[i] \in ClearJob
      BY <1>2, <2>1, EraType, Zenon DEF SetJob
    <3> QED
      BY <2>1, <3>1, Zenon DEF ClearJob
  <2>2. CASE job[i].kind # "clear"
    BY <1>2, <2>2, Zenon DEF SetJob
  <2> QED
    BY <2>1, <2>2, Zenon
<1> QED
  BY <1>1, <1>2, Zenon DEF Settles, Inflight

\* A call begins, or goes on as what it is.
LEMMA GoesOnSettles ==
    ASSUME PersistTypeOK, NEW j \in Jobs, NEW b,
           job' = [job EXCEPT ![j] = b] \/ (SetJob(j, b) /\ b # Idle),
           \/ job[j].kind = b.kind /\ (b.kind = "clear" => b.waits \subseteq job[j].waits)
           \/ job[j].kind = "idle" /\ (b.kind = "clear" => b.waits \subseteq Inflight)
    PROVE  Settles
<1>1. job'[j] = b /\ \A i \in Jobs : i # j => job'[i] = job[i]
  BY Zenon DEF PersistTypeOK, SetJob
<1>2. "idle" \notin Tracked
  BY Zenon DEF Tracked
<1> QED
  BY <1>1, <1>2, Zenon DEF Settles, Inflight

\* A call that joins the queue as it begins.
LEMMA EnqueueSettles ==
    ASSUME PersistTypeOK, NEW j \in Jobs, NEW b, Enqueue(j, b), b.kind # "clear"
    PROVE  Settles
<1>1. job[j].kind = "idle"
  BY DEF Enqueue, Idle
<1> QED
  BY <1>1, GoesOnSettles, Zenon DEF Enqueue

LEMMA FlushSettles ==
    ASSUME PersistTypeOK, NEW j \in Jobs, FlushMessages(j)
    PROVE  Settles
<1> DEFINE call == [kind |-> "flush", st |-> "resume", started |-> epoch,
                    ops |-> pending, slice |-> {}]
<1>1. job[j].kind = "idle" /\ call.kind = "flush"
  <2>1. job[j] = Idle
    BY Zenon DEF FlushMessages
  <2> QED
    BY <2>1 DEF Idle
<1>2. ASSUME NEW s PROVE [call EXCEPT !.st = "tx", !.slice = s].kind = "flush"
  BY Zenon
<1>3. \/ job' = [job EXCEPT ![j] = call]
      \/ \E s \in Slices(Queued(pending)) : Enqueue(j, [call EXCEPT !.st = "tx", !.slice = s])
  BY Zenon DEF FlushMessages
<1> HIDE DEF call
<1> QED
  BY <1>1, <1>2, <1>3, GoesOnSettles, EnqueueSettles, Zenon

LEMMA CallSettles ==
    ASSUME PersistTypeOK, Call PROVE Settles
<1>1. ASSUME UNCHANGED job PROVE Settles
  BY <1>1, Zenon DEF Settles, Inflight
<1>2. ASSUME NEW j \in Jobs, NEW k \in Keys, NEW u \in Updates, PatchPersistedMessage(j, k, u)
      PROVE  Settles
  <2> DEFINE call == [kind |-> "patch", st |-> "done", started |-> epoch, key |-> k,
                      upd |-> u, queued |-> None, res |-> None]
  <2>1. PICK b : job' = [job EXCEPT ![j] = b] /\ b.kind = "patch"
    <3>1. /\ call.kind = "patch"
          /\ [call EXCEPT !.st = "tx", !.queued = pending[k]].kind = "patch"
          /\ [call EXCEPT !.res = pending'[k].m].kind = "patch"
      BY Zenon
    <3> HIDE DEF call
    <3>2. \/ job' = [job EXCEPT ![j] = call]
          \/ job' = [job EXCEPT ![j] = [call EXCEPT !.res = pending'[k].m]]
          \/ job' = [job EXCEPT ![j] = [call EXCEPT !.st = "tx", !.queued = pending[k]]]
      BY <1>2, Zenon DEF PatchPersistedMessage, Enqueue, call
    <3> QED
      BY <3>1, <3>2, Zenon
  <2>2. job[j].kind = "idle"
    BY <1>2 DEF PatchPersistedMessage, Idle
  <2> QED
    BY <2>1, <2>2, GoesOnSettles, Zenon
<1>3. ASSUME NEW j \in Jobs, NEW from \in Chats, NEW to \in Chats, MovePersistedChat(j, from, to)
      PROVE  Settles
  <2> DEFINE b == [kind |-> "move", st |-> "tx", started |-> epoch, from |-> from, to |-> to]
  <2>1. Enqueue(j, b) /\ b.kind = "move"
    BY <1>3, Zenon DEF MovePersistedChat
  <2> HIDE DEF b
  <2> QED
    BY <2>1, EnqueueSettles, Zenon
<1>4. ASSUME NEW j \in Jobs, ClearAll(j) PROVE Settles
  <2> DEFINE b == [kind |-> "clear", st |-> "settle", era |-> epoch', waits |-> Inflight]
  <2>1. job' = [job EXCEPT ![j] = b] /\ b.waits = Inflight /\ job[j].kind = "idle"
    BY <1>4 DEF ClearAll, Idle
  <2> HIDE DEF b
  <2> QED
    BY <2>1, GoesOnSettles, Zenon
<1>5. ASSUME NEW j \in Jobs, SetAccount(j) PROVE Settles
  <2> DEFINE b == [kind |-> "account", st |-> "tx", started |-> epoch]
  <2>1. Enqueue(j, b) /\ b.kind = "account"
    BY <1>5, Zenon DEF SetAccount
  <2> HIDE DEF b
  <2> QED
    BY <2>1, EnqueueSettles, Zenon
<1>6. ASSUME NEW j \in Jobs, FlushPendingWrites(j) PROVE Settles
  BY <1>6, FlushSettles, Zenon DEF FlushPendingWrites
<1>7. CASE EnablePersistence \/ DiscardPending \/ SchedulePersistChats
  BY <1>1, <1>7, Zenon DEF EnablePersistence, DiscardPending, SchedulePersistChats, calls
<1> QED
  BY <1>1, <1>2, <1>3, <1>4, <1>5, <1>6, <1>7, Zenon DEF Call, calls

LEMMA StepSettles ==
    ASSUME PersistTypeOK, NEW j \in Jobs, Step(j) \/ TxAbort(j)
    PROVE  Settles
<1>1. CASE FlushTimer(j)
  BY <1>1, FlushSettles, Zenon DEF FlushTimer
<1>2. ASSUME FlushTx(j) \/ FlushResume(j), ~SetJob(j, Idle) PROVE Settles
  <2>1. job[j] \in FlushJob
    BY <1>2, JobKinds, Zenon DEF FlushTx, FlushResume, Running, PersistTypeOK
  <2>2. PICK x, s, o : job' = [job EXCEPT ![j] = [job[j] EXCEPT !.st = x, !.slice = s, !.ops = o]]
    <3>1. CASE FlushTx(j)
      BY <3>1, Zenon DEF FlushTx
    <3>2. CASE FlushResume(j)
      <4>1. PICK y : job' = [job EXCEPT ![j].st = "tx", ![j].slice = y]
        BY <1>2, <3>2, Zenon DEF FlushResume
      <4>2. job' = [job EXCEPT ![j] = [job[j] EXCEPT !.st = "tx", !.slice = y, !.ops = job[j].ops]]
        BY <2>1, <4>1 DEF FlushJob
      <4> QED
        BY <4>2, Zenon
    <3> QED
      BY <1>2, <3>1, <3>2, Zenon
  <2> DEFINE b == [job[j] EXCEPT !.st = x, !.slice = s, !.ops = o]
  <2>3. b.kind = "flush" /\ job[j].kind = "flush"
    BY <2>1, Zenon DEF FlushJob
  <2> HIDE DEF b
  <2> QED
    BY <2>2, <2>3, GoesOnSettles, Zenon DEF b
<1>3. CASE FlushChats(j)
  <2>1. PICK rows \in SUBSET Chats :
               Enqueue(j, [kind |-> "chats", st |-> "tx", started |-> epoch, rows |-> rows])
    BY <1>3, Zenon DEF FlushChats
  <2> DEFINE b == [kind |-> "chats", st |-> "tx", started |-> epoch, rows |-> rows]
  <2>2. Enqueue(j, b) /\ b.kind = "chats"
    BY <2>1, Zenon
  <2> HIDE DEF b
  <2> QED
    BY <2>2, EnqueueSettles, Zenon
<1>4. CASE PatchTx(j)
  <2>1. PICK next : job' = [job EXCEPT ![j].st = "done", ![j].res = next]
    BY <1>4, Zenon DEF PatchTx
  <2> DEFINE b == [job[j] EXCEPT !.st = "done", !.res = next]
  <2>2. job[j] \in PatchJob
    BY <1>4, JobKinds, Zenon DEF PatchTx, Running, PersistTypeOK
  <2>3. b.kind = "patch" /\ job[j].kind = "patch" /\ job' = [job EXCEPT ![j] = b]
    BY <2>1, <2>2, Zenon DEF PatchJob
  <2> HIDE DEF b
  <2> QED
    BY <2>3, GoesOnSettles, Zenon
<1>5. CASE ClearSettled(j)
  <2> DEFINE b == [job[j] EXCEPT !.st = "tx"]
  <2>1. job[j] \in ClearJob /\ job' = [job EXCEPT ![j] = b]
    BY <1>5, JobKinds, Zenon DEF ClearSettled, PersistTypeOK
  <2>2. b.kind = "clear" /\ job[j].kind = "clear" /\ b.waits = job[j].waits
    BY <2>1, Zenon DEF ClearJob
  <2> HIDE DEF b
  <2> QED
    BY <2>1, <2>2, GoesOnSettles, Zenon
<1>6. ASSUME StaleReturn(j) \/ TxAbort(j), job[j].kind = "patch" PROVE Settles
  <2> DEFINE b == [job[j] EXCEPT !.st = "done"]
  <2>1. job[j] \in PatchJob
    BY <1>6, JobKinds, Zenon DEF PersistTypeOK
  <2>2. b.kind = "patch" /\ SetJob(j, b) /\ Idle.kind # b.kind
    BY <1>6, <2>1, Zenon DEF StaleReturn, TxAbort, PatchJob, Idle
  <2> HIDE DEF b
  <2> QED
    BY <1>6, <2>2, GoesOnSettles, Zenon
<1>7. CASE SetJob(j, Idle)
  BY <1>7, ReturnSettles, Zenon
<1>8. \/ FlushTimer(j) \/ FlushTx(j) \/ FlushResume(j) \/ FlushChats(j) \/ PatchTx(j) \/ ClearSettled(j)
      \/ SetJob(j, Idle)
      \/ (StaleReturn(j) \/ TxAbort(j)) /\ job[j].kind = "patch"
  BY Zenon DEF Step, ChatsTx, PatchReturn, MoveTx, AccountTx, ClearTx, StaleReturn, TxAbort
<1> QED
  BY <1>1, <1>2, <1>3, <1>4, <1>5, <1>6, <1>7, <1>8, Zenon

LEMMA OpenSettles ==
    ASSUME PersistTypeOK, OpenDb PROVE Settles
<1>1. ASSUME NEW i \in Jobs
      PROVE  job'[i].kind = job[i].kind /\ (job[i].kind = "clear" => job'[i] = job[i])
  <2>1. \/ job'[i] = job[i]
        \/ job[i].kind \in Tracked /\ job'[i] = [job[i] EXCEPT !.st = "stale"]
    BY Zenon DEF OpenDb
  <2>2. CASE job[i].kind \in Tracked /\ job'[i] = [job[i] EXCEPT !.st = "stale"]
    <3>1. job[i] \in FlushJob \cup PatchJob \cup MoveJob \cup ChatsJob
      BY <2>2, JobKinds, Zenon DEF PersistTypeOK, Tracked
    <3>2. job'[i].kind = job[i].kind
      BY <2>2, <3>1, Zenon DEF FlushJob, PatchJob, MoveJob, ChatsJob
    <3> QED
      BY <2>2, <3>2, Zenon DEF Tracked
  <2> QED
    BY <2>1, <2>2, Zenon
<1> QED
  BY <1>1, Zenon DEF Settles, Inflight

\* A finite set has a subset of every smaller size.
LEMMA SubsetOfSize ==
    ASSUME NEW S, IsFiniteSet(S), NEW n \in Nat, n <= Cardinality(S)
    PROVE  \E T \in SUBSET S : Cardinality(T) = n
<1> DEFINE N == Cardinality(S)
<1>1. PICK f : N \in Nat /\ f \in Bijection(1..N, S)
  BY FS_CardinalityType, Zenon DEF ExistsBijection
<1> DEFINE T == {f[i] : i \in 1..n}
           g == [i \in 1..n |-> f[i]]
<1> HIDE DEF N
<1>2. 1..n \subseteq 1..N
  BY <1>1 DEF N
<1>3. T \in SUBSET S
  BY <1>1, <1>2 DEF Bijection, Injection, Surjection
<1>4. g \in Bijection(1..n, T)
  <2>1. g \in [1..n -> T] /\ \A i \in 1..n : g[i] = f[i]
    BY Zenon
  <2>2. \A i, k \in 1..n : f[i] = f[k] => i = k
    BY <1>1, <1>2 DEF Bijection, Injection, Surjection, IsInjective
  <2>3. \A t \in T : \E i \in 1..n : f[i] = t
    BY Zenon
  <2> HIDE DEF g, T
  <2> QED
    BY <2>1, <2>2, <2>3, Zenon DEF Bijection, Injection, Surjection, IsInjective
<1>5. Cardinality(T) = n
  BY <1>4, FS_CountingElements, Zenon DEF ExistsBijection
<1> QED
  BY <1>3, <1>5, Zenon

\* There is always a next slice of FLUSH_SLICE records, or fewer.
LEMMA SlicePossible ==
    ASSUME NEW ks \in SUBSET Keys
    PROVE  Slices(ks) # {}
<1>1. IsFiniteSet(ks) /\ Cardinality(ks) \in Nat
  BY KeysAssumption, FS_Subset, FS_CardinalityType, Zenon
<1>2. CASE Cardinality(ks) <= FlushSlice
  BY <1>2, Zenon DEF Slices
<1>3. CASE FlushSlice <= Cardinality(ks)
  <2>1. FlushSlice \in Nat
    BY FlushSliceAssumption
  <2>2. PICK s \in SUBSET ks : Cardinality(s) = FlushSlice
    BY <1>1, <1>3, <2>1, SubsetOfSize, Zenon
  <2> QED
    BY <2>2, Zenon DEF Slices
<1> QED
  BY <1>1, <1>2, <1>3, FlushSliceAssumption

\* The oldest transaction can run, so a queue that is not empty moves; with an
\* empty queue a call in flight waits for nobody, and so does then a clearAll.
LEMMA WaitersEnd ==
    ASSUME PersistTypeOK, QueueShape, AllQueued, WaitsForCalls PROVE WaitsEnd
<1>0. SUFFICES ASSUME open, NEW j \in Jobs, job[j].kind # "idle"
               PROVE  \/ CanGoOn(j)
                      \/ \E k \in Jobs : Blocks(k, j) /\ CanGoOn(k)
                      \/ \E k, l \in Jobs : Blocks(k, j) /\ Blocks(l, k) /\ CanGoOn(l)
  BY Zenon DEF WaitsEnd
<1>1. ASSUME NEW i \in Jobs, InQueue(i)
      PROVE  txq # <<>> /\ Head(txq) \in Jobs /\ CanGoOn(Head(txq))
  <2>1. txq # <<>> /\ 1 \in 1 .. Len(txq) /\ Head(txq) = txq[1] /\ txq[1] \in Jobs
    BY <1>1 DEF InQueue, PersistTypeOK
  <2>2. job[txq[1]].kind # "idle" /\ job[txq[1]].st \in Waiting
    BY <2>1, Zenon DEF QueueShape
  <2>3. job[txq[1]].st = "stale" => job[txq[1]].kind \in Tracked
    <3>1. job[txq[1]] \in JobType
      BY <2>1, Zenon DEF PersistTypeOK
    <3> QED
      BY <2>2, <3>1 DEF JobType, Idle, FlushJob, PatchJob, MoveJob, ChatsJob, AccountJob, ClearJob,
                        LoadJob, GetJob, Tracked
  <2> QED
    BY <1>0, <2>1, <2>2, <2>3, Zenon DEF CanGoOn, Waiting
<1>2. ASSUME NEW i \in Jobs, job[i].kind # "idle"
      PROVE  \/ InQueue(i)
             \/ job[i].kind = "flush" /\ job[i].st = "resume"
             \/ job[i].kind = "patch" /\ job[i].st = "done"
             \/ job[i].kind = "clear" /\ job[i].st = "settle"
  <2>1. \/ job[i].st \in Waiting
        \/ job[i].kind = "flush" /\ job[i].st = "resume"
        \/ job[i].kind = "patch" /\ job[i].st = "done"
        \/ job[i].kind = "clear" /\ job[i].st = "settle"
    <3>1. job[i] \in JobType
      BY Zenon DEF PersistTypeOK
    <3> QED
      BY <1>2, <3>1 DEF JobType, Idle, FlushJob, PatchJob, MoveJob, ChatsJob, AccountJob, ClearJob,
                        LoadJob, GetJob, Waiting
  <2> QED
    BY <1>2, <2>1, Zenon DEF AllQueued
<1>a. \A i \in Jobs : Slices(Queued(job[i].ops)) # {}
  <2>1. \A i \in Jobs : Queued(job[i].ops) \in SUBSET Keys
    BY Zenon DEF Queued
  <2> QED
    BY <2>1, SlicePossible, Zenon
<1>3. ASSUME NEW i \in Inflight PROVE CanGoOn(i) \/ (InQueue(i) /\ i \in Jobs)
  <2>1. i \in Jobs /\ job[i].kind # "idle" /\ job[i].kind # "clear"
    BY Zenon DEF Inflight, Tracked
  <2> QED
    BY <1>0, <1>2, <1>a, <2>1, Zenon DEF CanGoOn
<1>4. CASE InQueue(j)
  BY <1>1, <1>4, Zenon DEF Blocks
<1>5. CASE job[j].kind = "clear" /\ job[j].st = "settle" /\ job[j].waits # {}
  <2>1. PICK k \in job[j].waits : k \in Inflight /\ k \in Jobs
    BY <1>5, Zenon DEF WaitsForCalls, Inflight
  <2>2. Blocks(k, j)
    BY <1>5, <2>1, Zenon DEF Blocks
  <2>3. CASE InQueue(k)
    BY <1>1, <2>1, <2>2, <2>3, Zenon DEF Blocks
  <2> QED
    BY <1>3, <2>1, <2>2, <2>3, Zenon
<1> QED
  BY <1>0, <1>2, <1>4, <1>5, <1>a, Zenon DEF CanGoOn

\* No call of persist.ts waits in vain: once the database is open, every flush,
\* patch, move, chat flush, setAccount and clearAll in progress can go on, or the
\* oldest transaction can, or a promise clearAll waits for (Promise.allSettled)
\* belongs to a call that can, or that is behind that transaction.
THEOREM WaitTheorem == PersistSpec => []WaitsEnd
<1> DEFINE Inv == MarkerInv /\ AllQueued /\ WaitsForCalls
<1>1. PersistInit => Inv
  BY DEF PersistInit, MarkerInv, QueueShape, MarkersFirst, AccountMarkerWiped, Idle, AllQueued, WaitsForCalls
<1>2. WipeInv /\ MarkerInv' /\ Inv /\ [PersistNext]_persistVars => Inv'
  <2> SUFFICES ASSUME WipeInv, MarkerInv', Inv, [PersistNext]_persistVars PROVE Inv'
    BY Zenon
  <2>1. PersistTypeOK /\ MarkerInv /\ QueueShape /\ AllQueued /\ WaitsForCalls
    BY Zenon DEF WipeInv, MarkerInv
  <2>2. ASSUME Moves, Settles PROVE Inv'
    BY <2>1, <2>2, MovesQueued, SettlesKeeps, Zenon
  <2>3. CASE Restart
    <3>1. \A j \in Jobs : job'[j].kind = "idle"
      BY <2>3 DEF Restart, Idle
    <3> QED
      BY <3>1, Zenon DEF AllQueued, WaitsForCalls
  <2>4. CASE Call
    BY <2>1, <2>2, <2>4, CallMoves, CallSettles, Zenon
  <2>5. CASE OpenDb
    BY <2>1, <2>2, <2>5, OpenDbMoves, OpenSettles, Zenon
  <2>6. CASE \E j \in Jobs : Step(j)
    BY <2>1, <2>2, <2>6, StepMoves, StepSettles, Zenon
  <2>7. CASE \E j \in Jobs : TxAbort(j)
    BY <2>1, <2>2, <2>7, AbortMoves, StepSettles, Zenon
  <2>8. CASE UNCHANGED persistVars
    <3>1. job' = job /\ txq' = txq
      BY <2>8, Zenon DEF persistVars, calls
    <3> QED
      BY <2>1, <3>1, Zenon DEF AllQueued, WaitsForCalls, InQueue, Inflight
  <2> QED
    BY <2>3, <2>4, <2>5, <2>6, <2>7, <2>8, Zenon DEF PersistNext, Failure
<1>3. WipeInv /\ Inv => WaitsEnd
  BY WaitersEnd, Zenon DEF WipeInv, MarkerInv
<1>4. WipeInv /\ MarkerInv /\ [PersistNext]_persistVars => MarkerInv'
  BY MarkerStep, Zenon
<1> HIDE DEF Inv
<1>5. Inv => MarkerInv
  BY DEF Inv
<1> QED
  BY <1>1, <1>2, <1>3, <1>4, <1>5, WipeInvariant, PTL DEF PersistSpec

============================================================================
