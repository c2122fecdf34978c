---------------------------- MODULE StoreProofs ----------------------------
(***************************************************************************)
(* Proofs about MessageStore over the write-behind cache: no accepted      *)
(* message is lost, a message on screen is never downgraded, paging makes  *)
(* progress and what the stores queue has a timer, for any chats,          *)
(* messages, calls, windows and timestamps.                                *)
(***************************************************************************)
EXTENDS MessageStore, PersistProofs, WellFoundedInduction

----------------------------------------------------------------------------
(* The inductive invariant *)

\* The messages in memory when a read began that the read will find again.
Again(b) == {i \in b.had : NotAfter(i, b.before)}

\* A read asks for more rows than it will find again.
WideEnough(b) == b.limit > Cardinality(Again(b))

\* A call began no later than now; it gives up only when a reset has overtaken
\* it; a flush of this session deletes only what the user deleted; a move leaves
\* the chat; a read is wide enough.
CallOK(b) ==
    /\ b.kind \in Tracked => /\ b.started <= epoch
                             /\ b.st = "stale" => b.started # epoch
    /\ b.kind = "flush" /\ b.started = epoch
          => \A k \in Keys : OpOf(b.ops[k]) = "del" => k[2] \in removed
    /\ b.kind = "move" => b.from # b.to
    /\ b.kind = "load" => WideEnough(b)

\* A write of an earlier session, and a reset that waits for it.
Outdated(j) == job[j].kind \in Tracked /\ job[j].started # epoch
Awaited(j) ==
    \E c \in Jobs : job[c].kind = "clear" /\ job[c].st = "settle" /\ j \in job[c].waits

\* Every write of an earlier session is waited for by a reset...
CallsInv == \A j \in Jobs : CallOK(job[j]) /\ (Outdated(j) => Awaited(j))

\* ... and until the reset is complete nothing counts as accepted.
ClearsInv == (\E c \in Jobs : job[c].kind = "clear") => heard = {}

\* Only what the user deleted has a queued delete.
QueueInv == \A k \in Keys : OpOf(pending[k]) = "del" => k[2] \in removed

LostInv == StoreTypeOK /\ CallsInv /\ ClearsInv /\ QueueInv /\ NothingLost

----------------------------------------------------------------------------
(* What a step of the store does to the window, the queue and the calls *)

\* No message on screen loses an update.
NoDowngrade ==
    \A k \in Keys : mem[k] # None /\ mem'[k] # None => mem[k].upd \subseteq mem'[k].upd

\* The same of a list that is about to be committed.
Upgrade(mm) ==
    \A k \in Keys : mem[k] # None /\ mm[k] # None => mem[k].upd \subseteq mm[k].upd

\* Writes are queued and none is dropped; no delete is queued.
QueueGrows ==
    /\ pending' \in [Keys -> PendingOp \cup {None}]
    /\ msgTimer' \in BOOLEAN
    /\ \A k \in Keys : IsWrite(pending[k]) => IsWrite(pending'[k])
    /\ \A k \in Keys : OpOf(pending'[k]) = "del" => OpOf(pending[k]) = "del"

\* Reads begin and end, and patches return.
ReadsOnly ==
    /\ job' \in [Jobs -> JobType]
    /\ \A i \in Jobs : job'[i].kind \in Tracked => job'[i] = job[i]
    /\ \A i \in Jobs : job[i].kind = "flush" => job'[i] = job[i]
    /\ \A i \in Jobs : job'[i].kind = "clear" <=> job[i].kind = "clear"
    /\ \A c, i \in Jobs : job[c].kind = "clear" /\ i \in job[c].waits /\ job'[i].kind \in Tracked
          => i \in job'[c].waits
    /\ \A c \in Jobs : job[c].kind = "clear" => job'[c].st = job[c].st
    /\ \A i \in Jobs : job'[i].kind = "load" => WideEnough(job'[i])

\* Reads in progress stay in progress.
LoadsStay == \A i \in Jobs : job[i].kind = "load" => job'[i].kind = "load"

\* A step of the stores, the events or the user, persist.ts only queueing.
FrontStep ==
    /\ ReadsOnly /\ QueueGrows
    /\ UNCHANGED <<msgs, epoch, removed>>
    /\ heard' \subseteq heard \cup {i \in Ids : \E c \in Chats : IsWrite(pending'[<<c, i>>])}
    /\ (\E c \in Jobs : job[c].kind = "clear") => heard' = heard

\* Such a step keeps the calls, the queue and the messages as they should be.
LEMMA FrontKeeps ==
    ASSUME LostInv, FrontStep
    PROVE  CallsInv' /\ ClearsInv' /\ QueueInv' /\ NothingLost'
<1>1. CallsInv'
  <2> SUFFICES ASSUME NEW i \in Jobs
               PROVE  CallOK(job[i])' /\ (Outdated(i) => Awaited(i))'
    BY Zenon DEF CallsInv
  <2>1. CallOK(job[i])'
    BY Zenon DEF FrontStep, ReadsOnly, CallOK, LostInv, CallsInv, Tracked, WideEnough, Again, NotAfter
  <2>2. ASSUME Outdated(i)' PROVE Awaited(i)'
    <3>1. job'[i] = job[i] /\ job'[i].kind \in Tracked /\ Outdated(i)
      BY <2>2, Zenon DEF Outdated, FrontStep, ReadsOnly
    <3>2. PICK c \in Jobs : job[c].kind = "clear" /\ job[c].st = "settle" /\ i \in job[c].waits
      BY <3>1, Zenon DEF LostInv, CallsInv, Awaited
    <3>3. job'[c].kind = "clear" /\ job'[c].st = "settle" /\ i \in job'[c].waits
      BY <3>1, <3>2, Zenon DEF FrontStep, ReadsOnly
    <3> QED BY <3>3, Zenon DEF Awaited
  <2> QED BY <2>1, <2>2, Zenon
<1>2. ClearsInv'
  BY Zenon DEF ClearsInv, LostInv, FrontStep, ReadsOnly
<1>3. QueueInv'
  BY Zenon DEF QueueInv, LostInv, FrontStep, QueueGrows
<1>4. NothingLost'
  <2> SUFFICES ASSUME NEW i \in heard' \ removed' PROVE Recoverable(i)'
    BY Zenon DEF NothingLost
  <2>1. CASE i \notin heard
    BY <2>1, Zenon DEF FrontStep, Recoverable
  <2>2. CASE i \in heard
    <3>1. Recoverable(i) /\ i \in Ids
      BY <2>2, Zenon DEF LostInv, NothingLost, FrontStep, StoreTypeOK
    <3>2. PICK c \in Chats : \/ msgs[<<c, i>>] # None
                             \/ IsWrite(pending[<<c, i>>])
                             \/ \E j \in Jobs : job[j].kind = "flush" /\ IsWrite(job[j].ops[<<c, i>>])
      BY <3>1, Zenon DEF Recoverable
    <3>3. <<c, i>> \in Keys
      BY <3>1, Zenon DEF Keys
    <3> QED BY <3>2, <3>3, Zenon DEF Recoverable, FrontStep, ReadsOnly, QueueGrows
  <2> QED BY <2>1, <2>2, Zenon
<1> QED BY <1>1, <1>2, <1>3, <1>4, Zenon

----------------------------------------------------------------------------
(* Messages, lists, queued writes and calls *)

\* Adopting a stored copy and patching a message give messages and lose nothing.
LEMMA AdoptedType ==
    ASSUME NEW s \in Message, NEW m \in Message
    PROVE  Adopted(s, m) \in Message /\ s.upd \subseteq Adopted(s, m).upd
           /\ m.upd \subseteq Adopted(s, m).upd
BY DEF Adopted, Message

LEMMA PatchedType ==
    ASSUME NEW m \in Message, NEW u \in Updates
    PROVE  Patched(m, u) \in Message /\ m.upd \subseteq Patched(m, u).upd
BY DEF Patched, Message

\* A message is not undefined.
LEMMA MessageIsSome == \A m \in Message : m # None
BY NoneAssumption, Zenon

\* What is left of a list is what was in it.
LEMMA TrimType ==
    ASSUME NEW mm \in [Keys -> Message \cup {None}], NEW ex \in SUBSET Chats, NEW c, NEW n,
           Trim(mm, ex, c, n)
    PROVE  /\ mem' \in [Keys -> Message \cup {None}]
           /\ exhausted' \subseteq Chats
           /\ \A k \in Keys : mem'[k] = None \/ mem'[k] = mm[k]
<1>1. PICK t : mem' = [k \in Keys |-> IF k[1] = c /\ k[2] \notin t THEN None ELSE mm[k]]
  BY Zenon DEF Trim, Trimmed
<1>2. exhausted' \subseteq Chats
  BY Zenon DEF Trim
<1> QED BY <1>1, <1>2, Zenon

\* Committing a list, trimmed or not, takes no update away from what stays.
LEMMA Committed ==
    ASSUME NEW mm \in [Keys -> Message \cup {None}], NEW ex \in SUBSET Chats, NEW c,
           Upgrade(mm), Commit(mm, ex, c)
    PROVE  /\ mem' \in [Keys -> Message \cup {None}]
           /\ exhausted' \subseteq Chats
           /\ NoDowngrade
           /\ \A k \in Keys : mem'[k] = None \/ mem'[k] = mm[k]
<1>1. /\ mem' \in [Keys -> Message \cup {None}] /\ exhausted' \subseteq Chats
      /\ \A k \in Keys : mem'[k] = None \/ mem'[k] = mm[k]
  BY TrimType, Zenon DEF Commit
<1>2. NoDowngrade
  BY <1>1, Zenon DEF NoDowngrade, Upgrade
<1> QED BY <1>1, <1>2, Zenon

\* Replacing one message by one with more updates.
LEMMA UpgradeOne ==
    ASSUME StoreTypeOK, NEW k \in Keys, NEW m \in Message,
           mem[k] = None \/ mem[k].upd \subseteq m.upd
    PROVE  [mem EXCEPT ![k] = m] \in [Keys -> Message \cup {None}] /\ Upgrade([mem EXCEPT ![k] = m])
<1>1. [mem EXCEPT ![k] = m] \in [Keys -> Message \cup {None}]
  BY Zenon DEF StoreTypeOK
<1>2. \A l \in Keys : [mem EXCEPT ![k] = m][l] = IF l = k THEN m ELSE mem[l]
  BY Zenon DEF StoreTypeOK
<1> QED BY <1>1, <1>2, Zenon DEF Upgrade

\* The timer is a flag.
LEMMA TimerType == PersistTypeOK /\ ScheduleFlushMessages => msgTimer' \in BOOLEAN
BY Zenon DEF PersistTypeOK, ScheduleFlushMessages

\* A queued write is a write and not undefined.
LEMMA WriteType ==
    ASSUME NEW m \in Message, NEW op \in {"put", "add"}
    PROVE  [op |-> op, m |-> m] \in PendingOp /\ [op |-> op, m |-> m] # None
<1>1. [op |-> op, m |-> m] \in [op : {"put", "add"}, m : Message]
  OBVIOUS
<1>2. [op |-> op, m |-> m] # None
  BY <1>1, NoneAssumption, Zenon
<1>3. [op |-> op, m |-> m] \in PendingOp
  BY <1>1, Zenon DEF PendingOp, WriteOp
<1> QED BY <1>2, <1>3, Zenon

\* Queueing a full write.
LEMMA PutGrows ==
    ASSUME PersistTypeOK, NEW k \in Keys, NEW m \in Message, PersistMessage(k, m)
    PROVE  QueueGrows /\ IsWrite(pending'[k])
<1>1. [op |-> "put", m |-> m] \in PendingOp /\ [op |-> "put", m |-> m] # None
  BY WriteType, Zenon
<1>2. \A l \in Keys : pending'[l] = IF l = k THEN [op |-> "put", m |-> m] ELSE pending[l]
  BY Zenon DEF PersistMessage, PersistTypeOK
<1>3. OpOf([op |-> "put", m |-> m]) = "put"
  BY <1>1, Zenon DEF OpOf
<1>4. pending' \in [Keys -> PendingOp \cup {None}] /\ msgTimer' \in BOOLEAN
  BY <1>1, TimerType, Zenon DEF PersistMessage, PersistTypeOK
<1> HIDE DEF PersistMessage
<1>5. IsWrite(pending'[k]) /\ OpOf(pending'[k]) # "del"
  BY <1>2, <1>3 DEF IsWrite
<1>6. \A l \in Keys : l # k => pending'[l] = pending[l]
  BY <1>2, Zenon
<1> QED BY <1>4, <1>5, <1>6, Zenon DEF QueueGrows

\* Queueing an insert.
LEMMA InsertGrows ==
    ASSUME PersistTypeOK, NEW k \in Keys, NEW m \in Message, PersistMessageInsert(k, m)
    PROVE  QueueGrows /\ IsWrite(pending'[k])
<1>0. CASE OpOf(pending[k]) = "put"
  <2>1. UNCHANGED <<pending, msgTimer>>
    BY <1>0, Zenon DEF PersistMessageInsert, queue
  <2> QED BY <1>0, <2>1, Zenon DEF QueueGrows, IsWrite, PersistTypeOK
<1>e. CASE OpOf(pending[k]) # "put"
  <2>0. pending' = [pending EXCEPT ![k] = [op |-> "add", m |-> m]] /\ ScheduleFlushMessages
    BY <1>e, Zenon DEF PersistMessageInsert
  <2>1. [op |-> "add", m |-> m] \in PendingOp /\ [op |-> "add", m |-> m] # None
    BY WriteType, Zenon
  <2>2. \A l \in Keys : pending'[l] = IF l = k THEN [op |-> "add", m |-> m] ELSE pending[l]
    BY <2>0, Zenon DEF PersistTypeOK
  <2>3. OpOf([op |-> "add", m |-> m]) = "add"
    BY <2>1, Zenon DEF OpOf
  <2>4. pending' \in [Keys -> PendingOp \cup {None}] /\ msgTimer' \in BOOLEAN
    BY <2>0, <2>1, TimerType, Zenon DEF PersistTypeOK
  <2>5. IsWrite(pending'[k]) /\ OpOf(pending'[k]) # "del"
    BY <2>2, <2>3 DEF IsWrite
  <2>6. \A l \in Keys : l # k => pending'[l] = pending[l]
    BY <2>2, Zenon
  <2> QED BY <2>4, <2>5, <2>6, Zenon DEF QueueGrows
<1> QED BY <1>0, <1>e, Zenon

\* Queueing full writes of several messages.
LEMMA AllGrow ==
    ASSUME PersistTypeOK, NEW ks \in SUBSET Keys, NEW mm, \A k \in ks : mm[k] \in Message,
           PersistAll(ks, mm)
    PROVE  QueueGrows /\ \A k \in ks : IsWrite(pending'[k])
<1>1. \A k \in ks : [op |-> "put", m |-> mm[k]] \in PendingOp /\ [op |-> "put", m |-> mm[k]] # None
  BY WriteType, Zenon
<1>2. /\ \A l \in ks : pending'[l] = [op |-> "put", m |-> mm[l]]
      /\ \A l \in Keys \ ks : pending'[l] = pending[l]
  BY Zenon DEF PersistAll
<1>3. \A k \in ks : OpOf([op |-> "put", m |-> mm[k]]) = "put"
  BY <1>1, Zenon DEF OpOf
<1>4. pending' \in [Keys -> PendingOp \cup {None}] /\ msgTimer' \in BOOLEAN
  BY <1>1, TimerType, Zenon DEF PersistAll, PersistTypeOK
<1>5. \A k \in ks : IsWrite(pending'[k]) /\ OpOf(pending'[k]) # "del"
  BY <1>2, <1>3, Zenon DEF IsWrite
<1> QED BY <1>2, <1>4, <1>5, Zenon DEF QueueGrows

\* A queue nobody touches.
LEMMA QueueStays == PersistTypeOK /\ UNCHANGED queue => QueueGrows
BY Zenon DEF PersistTypeOK, queue, QueueGrows

\* No call begins or ends.
LEMMA CallsStay == LostInv /\ UNCHANGED calls => ReadsOnly /\ LoadsStay /\ txq' \in Seq(Jobs)
<1> SUFFICES ASSUME LostInv, UNCHANGED calls PROVE ReadsOnly /\ LoadsStay /\ txq' \in Seq(Jobs)
  BY Zenon
<1>1. job' = job /\ txq' = txq
  BY Zenon DEF calls
<1>2. job \in [Jobs -> JobType] /\ txq \in Seq(Jobs)
  BY Zenon DEF LostInv, StoreTypeOK, PersistTypeOK
<1>3. \A i \in Jobs : job'[i].kind = "load" => WideEnough(job'[i])
  BY <1>1, Zenon DEF LostInv, CallsInv, CallOK
<1> QED BY <1>1, <1>2, <1>3, Zenon DEF ReadsOnly, LoadsStay

\* A read begins.
LEMMA ReadBegins ==
    ASSUME LostInv, NEW j \in Jobs, NEW b \in LoadJob \cup GetJob, b.kind = "load" => WideEnough(b),
           Enqueue(j, b)
    PROVE  ReadsOnly /\ LoadsStay /\ txq' \in Seq(Jobs)
<1>0. PersistTypeOK
  BY Zenon DEF LostInv, StoreTypeOK
<1>1. /\ job' \in [Jobs -> JobType] /\ txq' \in Seq(Jobs)
      /\ job[j] = Idle /\ job'[j] = b /\ \A i \in Jobs : i # j => job'[i] = job[i]
  <2>1. b \in JobType
    BY Zenon DEF JobType
  <2>2. job' \in [Jobs -> JobType] /\ txq' \in Seq(Jobs)
    BY <1>0, <2>1, EnqueueType, Zenon
  <2> QED BY <1>0, <2>2, Zenon DEF Enqueue, PersistTypeOK
<1>2. job[j].kind = "idle" /\ b.kind \in {"load", "get"}
  BY <1>1 DEF Idle, LoadJob, GetJob
<1>3. \A i \in Jobs : job'[i].kind = "load" => WideEnough(job'[i])
  BY <1>1, Zenon DEF LostInv, CallsInv, CallOK
<1>4. job'[j].kind \notin Tracked /\ job'[j].kind # "clear" /\ job[j].kind \notin {"clear", "flush", "load"}
  BY <1>1, <1>2 DEF Tracked
<1> QED BY <1>1, <1>3, <1>4, Zenon DEF ReadsOnly, LoadsStay

\* A read or a patch returns.
LEMMA ReadEnds ==
    ASSUME LostInv, NEW j \in Jobs, job[j].kind \in {"load", "get", "patch"}, SetJob(j, Idle)
    PROVE  ReadsOnly /\ \A i \in Jobs \ {j} : job[i].kind = "load" => job'[i].kind = "load"
<1>0. PersistTypeOK
  BY Zenon DEF LostInv, StoreTypeOK
<1>1. job' \in [Jobs -> JobType]
  BY <1>0, SetJobType, Constants, Zenon
<1>2. job'[j] = Idle /\ job'[j].kind = "idle"
  BY DEF SetJob, Idle
<1>3. \A i \in Jobs : i # j /\ job[i].kind # "clear" => job'[i] = job[i]
  BY Zenon DEF SetJob, Idle
<1>4. \A i \in Jobs : i # j /\ job[i].kind = "clear" =>
         job'[i] = [job[i] EXCEPT !.waits = @ \ {j}]
  BY Zenon DEF SetJob
<1>5. \A i \in Jobs : i # j /\ job[i].kind = "clear" =>
         job'[i].kind = "clear" /\ job'[i].st = job[i].st /\ job'[i].waits = job[i].waits \ {j}
  BY <1>0, <1>4, EraType, Zenon DEF ClearJob
<1>6. job'[j].kind \notin Tracked /\ job'[j].kind \notin {"clear", "load"} /\ "clear" \notin Tracked
      /\ job[j].kind # "clear" /\ job[j].kind # "flush"
  BY <1>2 DEF Tracked
<1>7. \A i \in Jobs : job'[i].kind = "load" => WideEnough(job'[i])
  <2> SUFFICES ASSUME NEW i \in Jobs, job'[i].kind = "load" PROVE WideEnough(job'[i])
    BY Zenon
  <2>1. i # j /\ job[i].kind # "clear"
    BY <1>5, <1>6, Zenon
  <2>2. job'[i] = job[i]
    BY <1>3, <2>1, Zenon
  <2> QED BY <2>2, Zenon DEF LostInv, CallsInv, CallOK
<1>8. \A i \in Jobs : job'[i].kind \in Tracked => job'[i] = job[i]
  BY <1>3, <1>5, <1>6, Zenon
<1>9. \A i \in Jobs : job'[i].kind = "clear" <=> job[i].kind = "clear"
  BY <1>3, <1>5, <1>6, Zenon
<1>10. \A c, i \in Jobs : job[c].kind = "clear" /\ i \in job[c].waits /\ job'[i].kind \in Tracked
          => i \in job'[c].waits
  BY <1>5, <1>6, Zenon
<1>11. \A c \in Jobs : job[c].kind = "clear" => job'[c].st = job[c].st
  BY <1>5, <1>6, Zenon
<1>12. \A i \in Jobs : job[i].kind = "flush" => job'[i] = job[i]
  BY <1>3, <1>6, Zenon
<1> QED BY <1>1, <1>3, <1>7, <1>8, <1>9, <1>10, <1>11, <1>12, Zenon DEF ReadsOnly

\* Setting the flag `opening' leaves a call without the flag as it is.
LEMMA OpeningType ==
    ASSUME NEW b \in JobType
    PROVE  /\ [b EXCEPT !.opening = TRUE] \in JobType
           /\ b.kind # "load" => [b EXCEPT !.opening = TRUE] = b
           /\ b.kind = "load" => /\ [b EXCEPT !.opening = TRUE].kind = "load"
                                 /\ [b EXCEPT !.opening = TRUE].limit = b.limit
                                 /\ [b EXCEPT !.opening = TRUE].had = b.had
                                 /\ [b EXCEPT !.opening = TRUE].before = b.before
<1>1. CASE b \in LoadJob
  <2>1. [b EXCEPT !.opening = TRUE] \in LoadJob
    BY <1>1, Zenon DEF LoadJob
  <2>2. /\ b.kind = "load" /\ [b EXCEPT !.opening = TRUE].kind = b.kind
        /\ [b EXCEPT !.opening = TRUE].limit = b.limit
        /\ [b EXCEPT !.opening = TRUE].had = b.had
        /\ [b EXCEPT !.opening = TRUE].before = b.before
    BY <1>1 DEF LoadJob
  <2> QED BY <2>1, <2>2, Zenon DEF JobType
<1>2. CASE b \notin LoadJob
  <2>1. b.kind # "load"
    BY <1>2, JobKinds, Zenon
  <2>2. [b EXCEPT !.opening = TRUE] = b
    <3>1. ASSUME b = Idle PROVE [b EXCEPT !.opening = TRUE] = b
      BY <3>1 DEF Idle
    <3>2. ASSUME b \in FlushJob PROVE [b EXCEPT !.opening = TRUE] = b
      BY <3>2 DEF FlushJob
    <3>3. ASSUME b \in PatchJob PROVE [b EXCEPT !.opening = TRUE] = b
      BY <3>3 DEF PatchJob
    <3>4. ASSUME b \in MoveJob PROVE [b EXCEPT !.opening = TRUE] = b
      BY <3>4 DEF MoveJob
    <3>5. ASSUME b \in ChatsJob PROVE [b EXCEPT !.opening = TRUE] = b
      BY <3>5 DEF ChatsJob
    <3>6. ASSUME b \in AccountJob PROVE [b EXCEPT !.opening = TRUE] = b
      BY <3>6 DEF AccountJob
    <3>7. ASSUME b \in ClearJob PROVE [b EXCEPT !.opening = TRUE] = b
      BY <3>7 DEF ClearJob
    <3>8. ASSUME b \in GetJob PROVE [b EXCEPT !.opening = TRUE] = b
      BY <3>8 DEF GetJob
    <3> QED BY <1>2, <3>1, <3>2, <3>3, <3>4, <3>5, <3>6, <3>7, <3>8, Zenon DEF JobType
  <2> QED BY <2>1, <2>2, Zenon
<1> QED BY <1>1, <1>2, Zenon

\* openChat joins a read that is under way.
LEMMA ReadJoined ==
    ASSUME LostInv, NEW x, job' = [job EXCEPT ![x].opening = TRUE], UNCHANGED txq
    PROVE  ReadsOnly /\ LoadsStay /\ txq' \in Seq(Jobs)
<1>0. job \in [Jobs -> JobType] /\ txq' \in Seq(Jobs)
  BY Zenon DEF LostInv, StoreTypeOK, PersistTypeOK
<1>1. \A i \in Jobs : job'[i] = job[i] \/ job'[i] = [job[i] EXCEPT !.opening = TRUE]
  BY <1>0, Zenon
<1>2. \A i \in Jobs : /\ job'[i] \in JobType
                      /\ job[i].kind # "load" => job'[i] = job[i]
                      /\ job[i].kind = "load" => job'[i].kind = "load" /\ job'[i].limit = job[i].limit
                            /\ job'[i].had = job[i].had /\ job'[i].before = job[i].before
  BY <1>0, <1>1, OpeningType, Zenon
<1>3. job' \in [Jobs -> JobType]
  BY <1>0, <1>2, Zenon
<1>4. \A i \in Jobs : job'[i].kind = "load" => WideEnough(job'[i])
  <2> SUFFICES ASSUME NEW i \in Jobs, job'[i].kind = "load" PROVE WideEnough(job'[i])
    BY Zenon
  <2>1. job[i].kind = "load" /\ WideEnough(job[i])
    BY <1>2, Zenon DEF LostInv, CallsInv, CallOK
  <2>2. Again(job'[i]) = Again(job[i]) /\ job'[i].limit = job[i].limit
    BY <1>2, <2>1, Zenon DEF Again
  <2> QED BY <2>1, <2>2, Zenon DEF WideEnough
<1>5. "load" \notin Tracked
  BY DEF Tracked
<1> QED BY <1>0, <1>2, <1>3, <1>4, <1>5, Zenon DEF ReadsOnly, LoadsStay

----------------------------------------------------------------------------
(* Where a page of older messages begins *)

\* A set of naturals has a least element.
LEMMA LeastNat ==
    ASSUME NEW S \in SUBSET Nat, S # {}
    PROVE  \E n \in S : \A m \in S : n <= m
<1> DEFINE Before == {p \in Nat \X Nat : p[1] < p[2]}
<1>1. IsWellFoundedOn(Before, Nat)
  BY NatLessThanWellFounded DEF OpToRel
<1>2. PICK n \in S : \A m \in S : <<m, n>> \notin Before
  BY <1>1, WFMin, Zenon
<1>3. \A m \in S : ~(m < n)
  BY <1>2, Zenon
<1> QED BY <1>3

\* Of the resident messages a read finds again those of the oldest second.
LEMMA Edge ==
    ASSUME NEW c \in Chats
    PROVE  /\ Resident(c) \subseteq Ids /\ IsFiniteSet(Resident(c))
           /\ Cardinality(Resident(c)) \in Nat
           /\ Cardinality(SameSecond(c)) \in Nat
           /\ OldestTs(c) \in Nat \cup {None}
           /\ {i \in Resident(c) : NotAfter(i, OldestTs(c))} = SameSecond(c)
<1>1. Resident(c) \subseteq Ids /\ SameSecond(c) \subseteq Ids
  BY Zenon DEF Resident, ResidentIn, SameSecond
<1>2. IsFiniteSet(Resident(c)) /\ IsFiniteSet(SameSecond(c))
  BY <1>1, IdsAssumption, FS_Subset, Zenon
<1>3. Cardinality(Resident(c)) \in Nat /\ Cardinality(SameSecond(c)) \in Nat
  BY <1>2, FS_CardinalityType, Zenon
<1>4. CASE Resident(c) = {}
  <2>1. OldestTs(c) = None
    BY <1>4, Zenon DEF OldestTs
  <2> QED BY <1>1, <1>2, <1>3, <1>4, <2>1, Zenon DEF SameSecond
<1>5. CASE Resident(c) # {}
  <2> DEFINE S == {Ts[i] : i \in Resident(c)}
  <2>1. S \in SUBSET Nat /\ S # {}
    BY <1>1, <1>5, TsAssumption, Zenon
  <2>2. \E t \in S : \A i \in Resident(c) : t <= Ts[i]
    <3>1. \A i \in Resident(c) : Ts[i] \in S
      BY Zenon
    <3> HIDE DEF S
    <3>2. \E t \in S : \A m \in S : t <= m
      BY <2>1, LeastNat, Zenon
    <3> QED BY <3>1, <3>2, Zenon
  <2>3. OldestTs(c) = CHOOSE t \in S : \A i \in Resident(c) : t <= Ts[i]
    BY <1>5, Zenon DEF OldestTs
  <2>4. OldestTs(c) \in S /\ \A i \in Resident(c) : OldestTs(c) <= Ts[i]
    BY <2>2, <2>3, Zenon
  <2>5. OldestTs(c) \in Nat /\ OldestTs(c) # None
    BY <2>1, <2>4, NoneAssumption, Zenon
  <2>6. \A i \in Resident(c) : NotAfter(i, OldestTs(c)) <=> Ts[i] = OldestTs(c)
    <3> HIDE DEF S
    <3> SUFFICES ASSUME NEW i \in Resident(c)
                 PROVE  NotAfter(i, OldestTs(c)) <=> Ts[i] = OldestTs(c)
      BY Zenon
    <3>1. Ts[i] \in Nat
      BY <1>1, TsAssumption, Zenon
    <3> QED BY <2>4, <2>5, <3>1 DEF NotAfter
  <2> QED BY <1>1, <1>2, <1>3, <2>5, <2>6, Zenon DEF SameSecond
<1> QED BY <1>4, <1>5, Zenon

\* loadOlder asks for more than it will find again.
LEMMA LoadBegins ==
    ASSUME LostInv, NEW j \in Jobs, NEW c \in Chats, NEW n \in Nat \ {0}, NEW o \in BOOLEAN,
           StartLoad(j, c, n, o)
    PROVE  ReadsOnly /\ LoadsStay /\ txq' \in Seq(Jobs) /\ loadingOlder' = loadingOlder \cup {c}
<1> DEFINE b == [kind |-> "load", st |-> "tx", chat |-> c,
                 limit |-> n + Cardinality(SameSecond(c)),
                 before |-> OldestTs(c), had |-> Resident(c), opening |-> o]
<1>1. Enqueue(j, b) /\ loadingOlder' = loadingOlder \cup {c}
  BY Zenon DEF StartLoad, LoadLatestMessages
<1>2. n + Cardinality(SameSecond(c)) \in Nat /\ n + Cardinality(SameSecond(c)) > Cardinality(SameSecond(c))
  BY Edge
<1>3. b \in LoadJob
  BY <1>2, Edge, Zenon DEF LoadJob
<1>4. b.limit = n + Cardinality(SameSecond(c)) /\ b.had = Resident(c) /\ b.before = OldestTs(c)
  BY Zenon
<1> HIDE DEF b
<1>5. WideEnough(b)
  BY <1>2, <1>4, Edge, Zenon DEF WideEnough, Again
<1> QED BY <1>1, <1>3, <1>5, ReadBegins, Zenon

----------------------------------------------------------------------------
(* Messages arrive and change in memory *)

\* What a step that leaves the disk, the switches and the user alone comes to.
LEMMA QuietFront ==
    ASSUME LostInv, Quiet, QueueGrows, ReadsOnly, txq' \in Seq(Jobs),
           mem' \in [Keys -> Message \cup {None}], exhausted' \subseteq Chats,
           loadingOlder' \subseteq Chats,
           NEW ids \in SUBSET Ids, heard' = heard \/ Accept(ids),
           \A i \in ids : \E c \in Chats : IsWrite(pending'[<<c, i>>])
    PROVE  StoreTypeOK' /\ FrontStep
<1>1. /\ UNCHANGED <<msgs, chatRow, account, wiped, enabled, open, epoch, chatsTimer>>
      /\ UNCHANGED <<active, shown, known, removed>>
  BY Zenon DEF Quiet, disk, switches, ui
<1>2. StoreTypeOK /\ PersistTypeOK
  BY Zenon DEF LostInv, StoreTypeOK
<1>3. /\ heard' \subseteq heard \cup ids
      /\ (\E c \in Jobs : job[c].kind = "clear") => heard' = heard
  BY Zenon DEF Accept
<1>4. PersistTypeOK'
  BY <1>1, <1>2, Zenon DEF PersistTypeOK, QueueGrows, ReadsOnly
<1>5. StoreTypeOK'
  BY <1>1, <1>2, <1>3, <1>4, Zenon DEF StoreTypeOK
<1>6. heard' \subseteq heard \cup {i \in Ids : \E c \in Chats : IsWrite(pending'[<<c, i>>])}
  BY <1>3, Zenon
<1> QED BY <1>1, <1>3, <1>5, <1>6, Zenon DEF FrontStep

\* The same of a step in which no message is accepted.
LEMMA SilentFront ==
    ASSUME LostInv, Quiet, QueueGrows, ReadsOnly, txq' \in Seq(Jobs),
           mem' \in [Keys -> Message \cup {None}], exhausted' \subseteq Chats,
           loadingOlder' \subseteq Chats, heard' = heard
    PROVE  StoreTypeOK' /\ FrontStep
<1>1. {} \in SUBSET Ids /\ \A i \in {} : \E c \in Chats : IsWrite(pending'[<<c, i>>])
  BY Zenon
<1> QED BY <1>1, QuietFront, Zenon

\* The keys of messages of one chat.
LEMMA KeysOfChat ==
    ASSUME NEW c \in Chats, NEW ids \in SUBSET Ids
    PROVE  /\ ChatKeys(c, ids) \in SUBSET Keys
           /\ \A k \in ChatKeys(c, ids) : \E i \in ids : k = <<c, i>>
           /\ \A i \in ids : <<c, i>> \in ChatKeys(c, ids)
BY DEF ChatKeys, Keys

\* Resident messages of a chat are messages.
LEMMA ResidentMessages ==
    ASSUME NEW mm \in [Keys -> Message \cup {None}], NEW c \in Chats, NEW ids,
           ids \subseteq ResidentIn(mm, c)
    PROVE  /\ ids \in SUBSET Ids /\ ChatKeys(c, ids) \in SUBSET Keys
           /\ \A k \in ChatKeys(c, ids) : mm[k] \in Message
<1>1. ids \in SUBSET Ids /\ \A i \in ids : mm[<<c, i>>] # None
  BY Zenon DEF ResidentIn
<1>2. ChatKeys(c, ids) \in SUBSET Keys
  BY <1>1, KeysOfChat, Zenon
<1>3. ASSUME NEW k \in ChatKeys(c, ids) PROVE mm[k] \in Message
  <2>1. k \in Keys /\ \E i \in ids : k = <<c, i>>
    BY <1>1, KeysOfChat, Zenon
  <2>2. mm[k] # None
    BY <1>1, <2>1, Zenon
  <2> QED BY <2>1, <2>2, Zenon
<1> QED BY <1>1, <1>2, <1>3, Zenon

\* A message filed under its canonical chat has a key.
LEMMA CanonicalKey ==
    ASSUME NEW c \in Chats, NEW i \in Ids
    PROVE  canonicalJid(c) \in Chats /\ <<canonicalJid(c), i>> \in Keys
<1>1. canonicalJid(c) \in Chats
  BY PnAssumption, Zenon DEF canonicalJid
<1> QED BY <1>1, Zenon DEF Keys

\* What a message delivered in this session is.
LEMMA DeliveredType == StoreTypeOK => Delivered \subseteq Message
BY DEF StoreTypeOK, PersistTypeOK, Delivered, Message

\* addMessage: a duplicate.
LEMMA AddDuplicateFront ==
    ASSUME LostInv, NEW c \in Chats, NEW i \in Ids, NEW m \in Message, AddDuplicate(c, i, m)
    PROVE  StoreTypeOK' /\ FrontStep /\ NoDowngrade /\ LoadsStay
<1> DEFINE k == <<c, i>>
<1>1. k \in Keys /\ StoreTypeOK /\ PersistTypeOK /\ exhausted \in SUBSET Chats /\ loadingOlder \subseteq Chats
  BY Zenon DEF Keys, LostInv, StoreTypeOK
<1>2. /\ mem[k] # None /\ PersistMessage(k, Adopted(mem[k], m))
      /\ Commit([mem EXCEPT ![k] = Adopted(@, m)], exhausted, c)
      /\ UNCHANGED <<calls, loadingOlder, heard>> /\ Quiet
  BY Zenon DEF AddDuplicate
<1>3. mem[k] \in Message
  BY <1>1, <1>2, Zenon DEF StoreTypeOK
<1>a. [mem EXCEPT ![k] = Adopted(@, m)] = [mem EXCEPT ![k] = Adopted(mem[k], m)]
  BY <1>1, Zenon DEF StoreTypeOK
<1> HIDE DEF k
<1>4. Adopted(mem[k], m) \in Message /\ mem[k].upd \subseteq Adopted(mem[k], m).upd
  BY <1>3, AdoptedType, Zenon
<1>5. QueueGrows
  BY <1>1, <1>2, <1>4, PutGrows, Zenon
<1>6. mem' \in [Keys -> Message \cup {None}] /\ exhausted' \subseteq Chats /\ NoDowngrade
  BY <1>1, <1>2, <1>4, <1>a, UpgradeOne, Committed, Zenon
<1>7. ReadsOnly /\ LoadsStay /\ txq' \in Seq(Jobs)
  BY <1>2, CallsStay, Zenon
<1>8. StoreTypeOK' /\ FrontStep
  BY <1>1, <1>2, <1>5, <1>6, <1>7, SilentFront, Zenon
<1> QED BY <1>6, <1>7, <1>8, Zenon

\* addMessage: a message that looks new.
LEMMA AddNewFront ==
    ASSUME LostInv, NEW j \in Jobs, NEW c \in Chats, NEW i \in Ids, NEW m \in Message, AddNew(j, c, i, m)
    PROVE  StoreTypeOK' /\ FrontStep /\ NoDowngrade /\ LoadsStay
<1> DEFINE k == <<c, i>>
           mm == [mem EXCEPT ![k] = m]
           queued == OpOf(pending[k]) = "put"
           adopts == c \notin exhausted \/ Overfull(mm, c)
           copy == IF queued /\ adopts THEN Adopted(pending[k].m, m) ELSE m
<1>1. k \in Keys /\ StoreTypeOK /\ PersistTypeOK /\ exhausted \in SUBSET Chats /\ loadingOlder \subseteq Chats
  BY Zenon DEF Keys, LostInv, StoreTypeOK
<1>2. /\ mem[k] = None
      /\ Commit([mm EXCEPT ![k] = copy], exhausted, c)
      /\ PersistMessage(k, copy) \/ PersistMessageInsert(k, m)
      /\ GetPersistedMessage(j, k, m) \/ UNCHANGED calls
      /\ Accept({i}) /\ UNCHANGED loadingOlder /\ Quiet
  BY Zenon DEF AddNew
<1>3. copy \in Message
  <2>1. CASE queued /\ adopts
    <3>1. pending[k] \in WriteOp
      BY <1>1, <2>1, Zenon DEF OpOf, PersistTypeOK, PendingOp, WriteOp
    <3>2. pending[k].m \in Message
      BY <3>1, Zenon DEF WriteOp
    <3> QED BY <2>1, <3>2, AdoptedType, Zenon
  <2> QED BY <2>1, Zenon
<1>4. [mm EXCEPT ![k] = copy] = [mem EXCEPT ![k] = copy]
  BY <1>1, Zenon DEF StoreTypeOK
<1>b. {i} \in SUBSET Ids /\ \A h \in {i} : k = <<c, h>>
  BY Zenon
<1> HIDE DEF k, mm, queued, adopts, copy
<1>5. QueueGrows /\ IsWrite(pending'[k])
  BY <1>1, <1>2, <1>3, PutGrows, InsertGrows, Zenon
<1>6. mem' \in [Keys -> Message \cup {None}] /\ exhausted' \subseteq Chats /\ NoDowngrade
  BY <1>1, <1>2, <1>3, <1>4, UpgradeOne, Committed, Zenon
<1>7. ReadsOnly /\ LoadsStay /\ txq' \in Seq(Jobs)
  <2>1. CASE UNCHANGED calls
    BY <2>1, CallsStay, Zenon
  <2>2. CASE GetPersistedMessage(j, k, m)
    <3> DEFINE b == [kind |-> "get", st |-> "tx", key |-> k, fresh |-> m]
    <3>1. Enqueue(j, b)
      BY <2>2, Zenon DEF GetPersistedMessage
    <3>2. b \in GetJob /\ b.kind # "load"
      BY <1>1 DEF GetJob
    <3> HIDE DEF b
    <3> QED BY <3>1, <3>2, ReadBegins, Zenon
  <2> QED BY <1>2, <2>1, <2>2, Zenon
<1>8. StoreTypeOK' /\ FrontStep
  <2>1. \A h \in {i} : \E d \in Chats : IsWrite(pending'[<<d, h>>])
    BY <1>5, <1>b, Zenon
  <2> QED BY <1>1, <1>2, <1>5, <1>6, <1>7, <1>b, <2>1, QuietFront, Zenon
<1> QED BY <1>6, <1>7, <1>8, Zenon

\* The database answers adoptStored.
LEMMA AdoptStoredFront ==
    ASSUME LostInv, NEW j \in Jobs, AdoptStored(j)
    PROVE  StoreTypeOK' /\ FrontStep /\ NoDowngrade /\ LoadsStay
<1> DEFINE k == job[j].key
           stored == msgs[k]
           fresh == job[j].fresh
           next == Adopted(stored, fresh)
<1>1. StoreTypeOK /\ PersistTypeOK /\ exhausted \in SUBSET Chats /\ loadingOlder \subseteq Chats
  BY Zenon DEF LostInv, StoreTypeOK
<1>2. /\ Running(j, "get") /\ SetJob(j, Idle) /\ UNCHANGED <<loadingOlder, heard>> /\ Quiet
      /\ \/ UNCHANGED <<queue, mem, exhausted>>
         \/ /\ stored # None /\ mem[k] = fresh
            /\ Commit([mem EXCEPT ![k] = next], exhausted, k[1])
            /\ PersistMessage(k, next) \/ UNCHANGED queue
  BY Zenon DEF AdoptStored
<1>3. job[j] \in GetJob /\ job[j].kind = "get"
  BY <1>1, <1>2, JobKinds, Zenon DEF Running, PersistTypeOK
<1>4. k \in Keys /\ fresh \in Message
  BY <1>3, Zenon DEF GetJob
<1> HIDE DEF k, fresh
<1>5. stored \in Message \cup {None}
  BY <1>1, <1>4, Zenon DEF PersistTypeOK
<1> HIDE DEF stored
<1>6. stored # None => next \in Message /\ fresh.upd \subseteq next.upd
  BY <1>4, <1>5, AdoptedType, Zenon
<1> HIDE DEF next
<1>7. QueueGrows
  BY <1>1, <1>2, <1>4, <1>6, PutGrows, QueueStays, Zenon
<1>8. mem' \in [Keys -> Message \cup {None}] /\ exhausted' \subseteq Chats /\ NoDowngrade
  <2>1. CASE UNCHANGED <<queue, mem, exhausted>>
    BY <1>1, <2>1, Zenon DEF StoreTypeOK, NoDowngrade
  <2>2. CASE stored # None /\ mem[k] = fresh /\ Commit([mem EXCEPT ![k] = next], exhausted, k[1])
    <3>1. mem[k] = None \/ mem[k].upd \subseteq next.upd
      BY <1>6, <2>2, Zenon
    <3> QED BY <1>1, <1>4, <1>6, <2>2, <3>1, UpgradeOne, Committed, Zenon
  <2> QED BY <1>2, <2>1, <2>2, Zenon
<1>9. ReadsOnly /\ \A i \in Jobs \ {j} : job[i].kind = "load" => job'[i].kind = "load"
  BY <1>2, <1>3, ReadEnds, Zenon
<1>10. LoadsStay
  BY <1>3, <1>9, Zenon DEF LoadsStay
<1>11. txq' \in Seq(Jobs)
  BY <1>1, <1>2, RunningType, Zenon
<1>12. StoreTypeOK' /\ FrontStep
  BY <1>1, <1>2, <1>7, <1>8, <1>9, <1>11, SilentFront, Zenon
<1> QED BY <1>8, <1>10, <1>12, Zenon

\* addHistoryMessages for one chat.
LEMMA AddHistoryFront ==
    ASSUME LostInv, NEW c \in Chats, NEW batch \in SUBSET Ids, NEW flagged \in SUBSET Ids,
           AddHistory(c, batch, flagged)
    PROVE  StoreTypeOK' /\ FrontStep /\ NoDowngrade /\ LoadsStay
<1> DEFINE fresh == batch \ Resident(c)
           bare == [born |-> epoch, upd |-> {}]
           mm == [k \in Keys |-> IF k \in ChatKeys(c, fresh) THEN bare ELSE mem[k]]
<1>1. StoreTypeOK /\ PersistTypeOK /\ exhausted \in SUBSET Chats /\ loadingOlder \subseteq Chats
  BY Zenon DEF LostInv, StoreTypeOK
<1>2. /\ flagged \subseteq ResidentIn(mm, c) \cap Incoming
      /\ PersistAll(ChatKeys(c, fresh \cup flagged), mm)
      /\ Commit(mm, exhausted, c) /\ Accept(fresh)
      /\ UNCHANGED <<calls, loadingOlder>> /\ Quiet
  BY Zenon DEF AddHistory
<1>3. bare \in Message
  BY <1>1, Zenon DEF Message, PersistTypeOK
<1>4. fresh \in SUBSET Ids /\ \A i \in fresh : mem[<<c, i>>] = None
  BY Zenon DEF Resident, ResidentIn
<1>5. \A k \in ChatKeys(c, fresh) : k \in Keys /\ mem[k] = None
  <2> HIDE DEF fresh
  <2> SUFFICES ASSUME NEW k \in ChatKeys(c, fresh) PROVE k \in Keys /\ mem[k] = None
    BY Zenon
  <2>1. k \in Keys /\ \E i \in fresh : k = <<c, i>>
    BY <1>4, KeysOfChat, Zenon
  <2> QED BY <1>4, <2>1, Zenon
<1> HIDE DEF fresh, bare
<1>6. mm \in [Keys -> Message \cup {None}]
  BY <1>1, <1>3, Zenon DEF StoreTypeOK
<1>7. Upgrade(mm)
  BY <1>5, Zenon DEF Upgrade
<1>8. ChatKeys(c, fresh \cup flagged) \in SUBSET Keys
  BY <1>4, Zenon DEF ChatKeys, Keys
<1>9. \A k \in ChatKeys(c, fresh) : mm[k] \in Message
  BY <1>3, <1>5, Zenon
<1>10. \A k \in ChatKeys(c, flagged) : mm[k] \in Message
  <2> HIDE DEF mm
  <2> QED BY <1>2, <1>6, ResidentMessages, Zenon
<1> HIDE DEF mm
<1>11. \A k \in ChatKeys(c, fresh \cup flagged) : mm[k] \in Message
  BY <1>9, <1>10, Zenon DEF ChatKeys
<1>12. QueueGrows /\ \A k \in ChatKeys(c, fresh \cup flagged) : IsWrite(pending'[k])
  BY <1>1, <1>2, <1>8, <1>11, AllGrow, Zenon
<1>13. \A i \in fresh : \E d \in Chats : IsWrite(pending'[<<d, i>>])
  BY <1>12, Zenon DEF ChatKeys
<1>14. mem' \in [Keys -> Message \cup {None}] /\ exhausted' \subseteq Chats /\ NoDowngrade
  BY <1>1, <1>2, <1>6, <1>7, Committed, Zenon
<1>15. ReadsOnly /\ LoadsStay /\ txq' \in Seq(Jobs)
  BY <1>2, CallsStay, Zenon
<1>16. StoreTypeOK' /\ FrontStep
  BY <1>1, <1>2, <1>4, <1>12, <1>13, <1>14, <1>15, QuietFront, Zenon
<1> QED BY <1>14, <1>15, <1>16, Zenon

\* A resident message is updated, in memory and in the queue.
LEMMA UpdateFront ==
    ASSUME LostInv, NEW k \in Keys, NEW u \in Updates, mem[k] # None,
           \/ mem' = [mem EXCEPT ![k] = Patched(@, u)] /\ UNCHANGED exhausted
           \/ Commit([mem EXCEPT ![k] = Patched(@, u)], exhausted, k[1]),
           PersistMessage(k, Patched(mem[k], u)),
           UNCHANGED <<calls, loadingOlder, heard>>, Quiet
    PROVE  StoreTypeOK' /\ FrontStep /\ NoDowngrade /\ LoadsStay
<1>1. StoreTypeOK /\ PersistTypeOK /\ exhausted \in SUBSET Chats /\ loadingOlder \subseteq Chats
  BY Zenon DEF LostInv, StoreTypeOK
<1>2. mem[k] \in Message
  BY <1>1, Zenon DEF StoreTypeOK
<1>3. [mem EXCEPT ![k] = Patched(@, u)] = [mem EXCEPT ![k] = Patched(mem[k], u)]
  BY <1>1, Zenon DEF StoreTypeOK
<1>4. Patched(mem[k], u) \in Message /\ mem[k].upd \subseteq Patched(mem[k], u).upd
  BY <1>2, PatchedType, Zenon
<1>5. QueueGrows
  BY <1>1, <1>4, PutGrows, Zenon
<1>6. mem' \in [Keys -> Message \cup {None}] /\ exhausted' \subseteq Chats /\ NoDowngrade
  <2> DEFINE mm == [mem EXCEPT ![k] = Patched(mem[k], u)]
  <2>1. mm \in [Keys -> Message \cup {None}] /\ Upgrade(mm)
    BY <1>1, <1>4, UpgradeOne, Zenon
  <2>2. (mem' = mm /\ UNCHANGED exhausted) \/ Commit(mm, exhausted, k[1])
    BY <1>3, Zenon
  <2> HIDE DEF mm
  <2>3. CASE mem' = mm /\ UNCHANGED exhausted
    BY <1>1, <2>1, <2>3, Zenon DEF Upgrade, NoDowngrade
  <2> QED BY <1>1, <2>1, <2>2, <2>3, Committed, Zenon
<1>7. ReadsOnly /\ LoadsStay /\ txq' \in Seq(Jobs)
  BY CallsStay, Zenon
<1>8. StoreTypeOK' /\ FrontStep
  BY <1>1, <1>5, <1>6, <1>7, SilentFront, Zenon
<1> QED BY <1>6, <1>7, <1>8, Zenon

\* The patch of a revoke found no message.
LEMMA RevokeUnseenFront ==
    ASSUME LostInv, NEW j \in Jobs, RevokeUnseen(j)
    PROVE  StoreTypeOK' /\ FrontStep /\ NoDowngrade /\ LoadsStay
<1> DEFINE k == job[j].key
           tombstone == [born |-> job[j].started, upd |-> {Revoke}]
<1>1. StoreTypeOK /\ PersistTypeOK /\ exhausted \in SUBSET Chats /\ loadingOlder \subseteq Chats
  BY Zenon DEF LostInv, StoreTypeOK
<1>2. /\ Unseen(j) /\ SetJob(j, Idle) /\ UNCHANGED <<txq, loadingOlder>> /\ Quiet
      /\ \/ UNCHANGED <<queue, mem, exhausted, heard>>
         \/ /\ mem[k] = None /\ PersistMessage(k, tombstone)
            /\ Commit([mem EXCEPT ![k] = tombstone], exhausted, k[1])
            /\ Accept({k[2]})
  BY Zenon DEF RevokeUnseen
<1>3. job[j] \in PatchJob /\ job[j].kind = "patch" /\ job[j].upd = Revoke
  BY <1>1, <1>2, JobKinds, Zenon DEF Unseen, PersistTypeOK
<1>4. k \in Keys /\ Revoke \in Updates /\ job[j].started \in Nat
  BY <1>3, Zenon DEF PatchJob
<1>5. tombstone \in Message
  BY <1>4 DEF Message
<1> HIDE DEF k, tombstone
<1>6. k[1] \in Chats /\ {k[2]} \in SUBSET Ids /\ k = <<k[1], k[2]>>
  BY <1>4 DEF Keys
<1>7. ReadsOnly /\ \A i \in Jobs \ {j} : job[i].kind = "load" => job'[i].kind = "load"
  BY <1>2, <1>3, ReadEnds, Zenon
<1>8. LoadsStay /\ txq' \in Seq(Jobs)
  BY <1>1, <1>2, <1>3, <1>7, Zenon DEF LoadsStay, PersistTypeOK
<1>9. CASE UNCHANGED <<queue, mem, exhausted, heard>>
  <2>1. QueueGrows /\ NoDowngrade /\ mem' \in [Keys -> Message \cup {None}] /\ exhausted' \subseteq Chats
    BY <1>1, <1>9, QueueStays, Zenon DEF StoreTypeOK, NoDowngrade
  <2>2. StoreTypeOK' /\ FrontStep
    BY <1>1, <1>2, <1>7, <1>8, <1>9, <2>1, SilentFront, Zenon
  <2> QED BY <1>8, <2>1, <2>2, Zenon
<1>10. CASE /\ mem[k] = None /\ PersistMessage(k, tombstone)
            /\ Commit([mem EXCEPT ![k] = tombstone], exhausted, k[1])
            /\ Accept({k[2]})
  <2>1. QueueGrows /\ IsWrite(pending'[k])
    BY <1>1, <1>4, <1>5, <1>10, PutGrows, Zenon
  <2>2. mem' \in [Keys -> Message \cup {None}] /\ exhausted' \subseteq Chats /\ NoDowngrade
    BY <1>1, <1>4, <1>5, <1>10, UpgradeOne, Committed, Zenon
  <2>3. \A i \in {k[2]} : \E c \in Chats : IsWrite(pending'[<<c, i>>])
    BY <1>6, <2>1, Zenon
  <2>4. StoreTypeOK' /\ FrontStep
    BY <1>1, <1>2, <1>6, <1>7, <1>8, <1>10, <2>1, <2>2, <2>3, QuietFront, Zenon
  <2> QED BY <1>8, <2>2, <2>4, Zenon
<1> QED BY <1>2, <1>9, <1>10, Zenon

\* removeMessage queues a delete of a message the user has deleted.
LEMMA RemoveKeeps ==
    ASSUME LostInv, NEW c \in Chats, NEW i \in Ids, RemoveMessage(c, i)
    PROVE  LostInv' /\ NoDowngrade /\ LoadsStay
<1> DEFINE k == <<c, i>>
           del == [op |-> "del"]
<1>1. k \in Keys /\ StoreTypeOK /\ PersistTypeOK
  BY Zenon DEF Keys, LostInv, StoreTypeOK
<1>2. /\ UNCHANGED <<msgs, chatRow, account, wiped, job, txq, enabled, open, epoch, chatsTimer>>
      /\ UNCHANGED <<exhausted, loadingOlder, active, shown, known, heard>>
      /\ mem' = [mem EXCEPT ![k] = None] /\ removed' = removed \cup {i}
      /\ pending' = [pending EXCEPT ![k] = del] /\ ScheduleFlushMessages
  BY Zenon DEF RemoveMessage, PersistMessageDelete, disk, calls, switches, ui
<1>3. del \in PendingOp
  BY Zenon DEF PendingOp
<1> HIDE DEF del
<1>4. /\ pending' \in [Keys -> PendingOp \cup {None}] /\ msgTimer' \in BOOLEAN
      /\ \A l \in Keys : l # k => pending'[l] = pending[l]
      /\ mem' \in [Keys -> Message \cup {None}] /\ mem'[k] = None
      /\ \A l \in Keys : l # k => mem'[l] = mem[l]
  BY <1>1, <1>2, <1>3, TimerType, Zenon DEF PersistTypeOK, StoreTypeOK
<1>5. PersistTypeOK'
  BY <1>1, <1>2, <1>4, Zenon DEF PersistTypeOK
<1>6. StoreTypeOK'
  BY <1>1, <1>2, <1>4, <1>5, Zenon DEF StoreTypeOK
<1>7. NoDowngrade /\ LoadsStay
  BY <1>2, <1>4, Zenon DEF NoDowngrade, LoadsStay
<1>8. QueueInv'
  <2>1. k[2] \in removed' /\ removed \subseteq removed'
    BY <1>2
  <2> HIDE DEF k
  <2> QED BY <1>2, <1>4, <2>1, Zenon DEF QueueInv, LostInv
<1>9. CallsInv' /\ ClearsInv'
  BY <1>2, Zenon DEF CallsInv, ClearsInv, LostInv, CallOK, Outdated, Awaited, WideEnough, Again, NotAfter
<1>10. NothingLost'
  <2> SUFFICES ASSUME NEW h \in heard' \ removed' PROVE Recoverable(h)'
    BY Zenon DEF NothingLost
  <2>1. h \in Ids /\ h # i /\ Recoverable(h)
    BY <1>1, <1>2, Zenon DEF LostInv, NothingLost, StoreTypeOK
  <2>2. \A d \in Chats : <<d, h>> \in Keys /\ <<d, h>> # k
    BY <2>1 DEF Keys
  <2> HIDE DEF k
  <2> QED BY <1>2, <1>4, <2>1, <2>2, Zenon DEF Recoverable
<1> QED BY <1>6, <1>7, <1>8, <1>9, <1>10, Zenon DEF LostInv

\* Unread flags are persisted.
LEMMA SyncFlagsFront ==
    ASSUME LostInv, NEW c \in Chats, NEW flagged \in SUBSET Ids, SyncFlags(c, flagged)
    PROVE  StoreTypeOK' /\ FrontStep /\ NoDowngrade /\ LoadsStay
<1>1. StoreTypeOK /\ PersistTypeOK /\ exhausted \in SUBSET Chats /\ loadingOlder \subseteq Chats
      /\ mem \in [Keys -> Message \cup {None}]
  BY Zenon DEF LostInv, StoreTypeOK
<1>2. /\ flagged \subseteq Resident(c) /\ PersistAll(ChatKeys(c, flagged), mem)
      /\ Commit(mem, exhausted, c) /\ UNCHANGED <<calls, loadingOlder, heard>> /\ Quiet
  BY Zenon DEF SyncFlags
<1>3. \A k \in ChatKeys(c, flagged) : mem[k] \in Message
  BY <1>1, <1>2, ResidentMessages, Zenon DEF Resident
<1>4. ChatKeys(c, flagged) \in SUBSET Keys
  BY KeysOfChat, Zenon
<1>5. QueueGrows
  BY <1>1, <1>2, <1>3, <1>4, AllGrow, Zenon
<1>6. Upgrade(mem)
  BY Zenon DEF Upgrade
<1>7. mem' \in [Keys -> Message \cup {None}] /\ exhausted' \subseteq Chats /\ NoDowngrade
  BY <1>1, <1>2, <1>6, Committed, Zenon
<1>8. ReadsOnly /\ LoadsStay /\ txq' \in Seq(Jobs)
  BY <1>2, CallsStay, Zenon
<1>9. StoreTypeOK' /\ FrontStep
  BY <1>1, <1>2, <1>5, <1>7, <1>8, SilentFront, Zenon
<1> QED BY <1>7, <1>8, <1>9, Zenon

\* trimChat.
LEMMA TrimChatFront ==
    ASSUME LostInv, TrimChat
    PROVE  StoreTypeOK' /\ FrontStep /\ NoDowngrade /\ LoadsStay
<1>1. StoreTypeOK /\ PersistTypeOK /\ exhausted \in SUBSET Chats /\ loadingOlder \subseteq Chats
      /\ mem \in [Keys -> Message \cup {None}]
  BY Zenon DEF LostInv, StoreTypeOK
<1>2. /\ Trim(mem, exhausted, active, Keep)
      /\ UNCHANGED <<queue, calls, loadingOlder, heard>> /\ Quiet
  BY Zenon DEF TrimChat
<1>3. /\ mem' \in [Keys -> Message \cup {None}] /\ exhausted' \subseteq Chats
      /\ \A k \in Keys : mem'[k] = None \/ mem'[k] = mem[k]
  BY <1>1, <1>2, TrimType, Zenon
<1>4. NoDowngrade
  BY <1>3, Zenon DEF NoDowngrade
<1>5. ReadsOnly /\ LoadsStay /\ txq' \in Seq(Jobs) /\ QueueGrows
  BY <1>1, <1>2, CallsStay, QueueStays, Zenon
<1>6. StoreTypeOK' /\ FrontStep
  BY <1>1, <1>2, <1>3, <1>5, SilentFront, Zenon
<1> QED BY <1>4, <1>5, <1>6, Zenon

----------------------------------------------------------------------------
(* Chats open and close *)

\* loadOlder begins.
LEMMA LoadOlderFront ==
    ASSUME LostInv, NEW j \in Jobs, LoadOlder(j)
    PROVE  StoreTypeOK' /\ FrontStep /\ NoDowngrade /\ LoadsStay
<1>1. StoreTypeOK /\ PersistTypeOK /\ active \in Chats /\ Page \in Nat \ {0} /\ FALSE \in BOOLEAN
  BY WindowAssumption, Zenon DEF LostInv, StoreTypeOK, LoadOlder
<1>2. StartLoad(j, active, Page, FALSE) /\ UNCHANGED <<queue, mem, exhausted, heard>> /\ Quiet
  BY Zenon DEF LoadOlder
<1>3. ReadsOnly /\ LoadsStay /\ txq' \in Seq(Jobs) /\ loadingOlder' = loadingOlder \cup {active}
  BY <1>1, <1>2, LoadBegins, Zenon
<1>4. /\ QueueGrows /\ NoDowngrade /\ mem' \in [Keys -> Message \cup {None}]
      /\ exhausted' \subseteq Chats /\ loadingOlder' \subseteq Chats
  BY <1>1, <1>2, <1>3, QueueStays, Zenon DEF NoDowngrade, StoreTypeOK
<1>5. StoreTypeOK' /\ FrontStep
  BY <1>1, <1>2, <1>3, <1>4, SilentFront, Zenon
<1> QED BY <1>3, <1>4, <1>5, Zenon

\* What a read returns: messages of the chat, stored or queued, not after `before'.
LEMMA LoadedRows ==
    ASSUME PersistTypeOK, NEW c \in Chats, NEW limit, NEW before, NEW rows \in LoadedIds(c, limit, before)
    PROVE  /\ rows \in SUBSET Ids
           /\ \A i \in rows : NotAfter(i, before)
           /\ \A i \in rows : LoadedMessage(<<c, i>>) \in Message
<1> DEFINE stored == {i \in Ids : msgs[<<c, i>>] # None /\ NotAfter(i, before)}
           extra == PendingFor(c, before)
<1>1. PICK r \in Newest(stored, limit) : rows \in (IF extra = {} THEN {r} ELSE Newest(r \cup extra, limit))
  BY Zenon DEF LoadedIds
<1>2. r \subseteq stored
  BY Zenon DEF Newest
<1>3. rows \subseteq stored \cup extra
  <2> HIDE DEF stored, extra
  <2>1. CASE extra = {}
    BY <1>1, <1>2, <2>1, Zenon
  <2>2. CASE extra # {}
    <3>1. rows \in Newest(r \cup extra, limit)
      BY <1>1, <2>2, Zenon
    <3>2. rows \subseteq r \cup extra
      BY <3>1, Zenon DEF Newest
    <3> QED BY <1>2, <3>2, Zenon
  <2> QED BY <2>1, <2>2, Zenon
<1>4. \A i \in stored \cup extra : /\ i \in Ids /\ NotAfter(i, before)
                                   /\ msgs[<<c, i>>] # None \/ IsWrite(pending[<<c, i>>])
  BY Zenon DEF PendingFor
<1> HIDE DEF stored, extra
<1>5. ASSUME NEW i \in rows PROVE LoadedMessage(<<c, i>>) \in Message
  <2> DEFINE k == <<c, i>>
  <2>1. k \in Keys /\ (msgs[k] # None \/ IsWrite(pending[k]))
    BY <1>3, <1>4, Zenon DEF Keys
  <2> HIDE DEF k
  <2>2. CASE IsWrite(pending[k])
    <3>1. pending[k] \in PendingOp /\ pending[k].op \in {"put", "add"}
      BY <2>1, <2>2 DEF IsWrite, OpOf, PersistTypeOK
    <3>2. pending[k] \in WriteOp
      BY <3>1 DEF PendingOp, WriteOp
    <3> QED BY <2>2, <3>2, Zenon DEF LoadedMessage, WriteOp, k
  <2>3. CASE ~IsWrite(pending[k])
    BY <2>1, <2>3, Zenon DEF LoadedMessage, PersistTypeOK, k
  <2> QED BY <2>2, <2>3, Zenon
<1> QED BY <1>3, <1>4, <1>5, Zenon

\* A page of rows arrives.  In the open chat, with the window as it was when the
\* read began, it brings a message or the news that nothing is older.
LEMMA LoadTxFront ==
    ASSUME LostInv, NEW j \in Jobs, LoadTx(j)
    PROVE  /\ StoreTypeOK' /\ FrontStep /\ NoDowngrade
           /\ \A i \in Jobs \ {j} : job[i].kind = "load" => job'[i].kind = "load"
           /\ \A c \in Chats : c = job[j].chat /\ active = c /\ Resident(c) = job[j].had
                 => c \in exhausted' \/ Resident(c)' # Resident(c)
<1> DEFINE limit == job[j].limit
           before == job[j].before
<1>1. StoreTypeOK /\ PersistTypeOK /\ exhausted \in SUBSET Chats /\ loadingOlder \subseteq Chats
      /\ mem \in [Keys -> Message \cup {None}]
  BY Zenon DEF LostInv, StoreTypeOK
<1>2. Running(j, "load") /\ SetJob(j, Idle) /\ UNCHANGED heard /\ Quiet
  BY Zenon DEF LoadTx
<1>3. job[j] \in LoadJob /\ job[j].kind = "load"
  BY <1>1, <1>2, JobKinds, Zenon DEF Running, PersistTypeOK
<1>4. job[j].chat \in Chats /\ limit \in Nat /\ job[j].had \in SUBSET Ids
  BY <1>3, Zenon DEF LoadJob
<1>c. PICK c \in Chats : c = job[j].chat
  BY <1>4, Zenon
<1>5. PICK rows \in LoadedIds(c, limit, before) : \E flagged \in SUBSET Ids :
         LET ex == IF Cardinality(rows) < limit THEN exhausted \cup {c} ELSE exhausted
             mm == [k \in Keys |-> IF mem[k] = None /\ k \in ChatKeys(c, rows)
                                   THEN LoadedMessage(k) ELSE mem[k]]
         IN  /\ flagged \subseteq (IF job[j].opening THEN ResidentIn(mm, c) \cap Incoming ELSE {})
             /\ IF flagged = {}
                THEN mem' = mm /\ exhausted' = ex /\ UNCHANGED queue
                ELSE Commit(mm, ex, c) /\ PersistAll(ChatKeys(c, flagged), mm)
             /\ loadingOlder' = loadingOlder \ {c}
  BY <1>c, Zenon DEF LoadTx
<1> DEFINE ex == IF Cardinality(rows) < limit THEN exhausted \cup {c} ELSE exhausted
           mm == [k \in Keys |-> IF mem[k] = None /\ k \in ChatKeys(c, rows)
                                 THEN LoadedMessage(k) ELSE mem[k]]
<1>6. PICK flagged \in SUBSET Ids :
             /\ flagged \subseteq (IF job[j].opening THEN ResidentIn(mm, c) \cap Incoming ELSE {})
             /\ IF flagged = {}
                THEN mem' = mm /\ exhausted' = ex /\ UNCHANGED queue
                ELSE Commit(mm, ex, c) /\ PersistAll(ChatKeys(c, flagged), mm)
             /\ loadingOlder' = loadingOlder \ {c}
  BY <1>5, Zenon
<1> HIDE DEF limit, before
<1>7. /\ rows \in SUBSET Ids /\ \A i \in rows : NotAfter(i, before)
      /\ \A i \in rows : LoadedMessage(<<c, i>>) \in Message
  BY <1>1, <1>4, LoadedRows, Zenon
<1>8. \A k \in ChatKeys(c, rows) : LoadedMessage(k) \in Message
  <2> SUFFICES ASSUME NEW k \in ChatKeys(c, rows) PROVE LoadedMessage(k) \in Message
    BY Zenon
  <2>1. \E i \in rows : k = <<c, i>>
    BY <1>4, <1>7, KeysOfChat, Zenon
  <2> QED BY <1>7, <2>1, Zenon
<1>9. mm \in [Keys -> Message \cup {None}] /\ Upgrade(mm)
  BY <1>1, <1>8, Zenon DEF Upgrade
<1>10. ex \in SUBSET Chats
  BY <1>1, <1>4, Zenon
<1>11. \A i \in rows : mem[<<c, i>>] = None => mm[<<c, i>>] # None
  <2> SUFFICES ASSUME NEW i \in rows, mem[<<c, i>>] = None PROVE mm[<<c, i>>] # None
    BY Zenon
  <2>1. <<c, i>> \in ChatKeys(c, rows) /\ <<c, i>> \in Keys
    BY <1>4, <1>7, KeysOfChat, Zenon DEF Keys
  <2>2. LoadedMessage(<<c, i>>) # None
    BY <1>7, MessageIsSome, Zenon
  <2> QED BY <2>1, <2>2, Zenon
<1>12. (Cardinality(rows) < limit => c \in ex)
  BY Zenon
<1> HIDE DEF ex, mm
<1>13. flagged \subseteq ResidentIn(mm, c)
  BY <1>6, Zenon
<1>14. QueueGrows
  <2>1. CASE flagged = {}
    BY <1>1, <1>6, <2>1, QueueStays, Zenon
  <2>2. CASE flagged # {}
    <3>1. PersistAll(ChatKeys(c, flagged), mm)
      BY <1>6, <2>2, Zenon
    <3>2. ChatKeys(c, flagged) \in SUBSET Keys /\ \A k \in ChatKeys(c, flagged) : mm[k] \in Message
      BY <1>4, <1>9, <1>13, ResidentMessages, Zenon
    <3> QED BY <1>1, <3>1, <3>2, AllGrow, Zenon
  <2> QED BY <2>1, <2>2, Zenon
<1>15. mem' \in [Keys -> Message \cup {None}] /\ exhausted' \subseteq Chats /\ NoDowngrade
  <2>1. CASE flagged = {}
    BY <1>6, <1>9, <1>10, <2>1, Zenon DEF Upgrade, NoDowngrade
  <2>2. CASE flagged # {}
    BY <1>6, <1>9, <1>10, <2>2, Committed, Zenon
  <2> QED BY <2>1, <2>2, Zenon
<1>16. ReadsOnly /\ \A i \in Jobs \ {j} : job[i].kind = "load" => job'[i].kind = "load"
  BY <1>2, <1>3, ReadEnds, Zenon
<1>17. txq' \in Seq(Jobs) /\ loadingOlder' \subseteq Chats
  BY <1>1, <1>2, <1>6, RunningType, Zenon
<1>18. StoreTypeOK' /\ FrontStep
  BY <1>1, <1>2, <1>14, <1>15, <1>16, <1>17, SilentFront, Zenon
<1>19. ASSUME active = c, Resident(c) = job[j].had, c \notin exhausted'
       PROVE  Resident(c)' # Resident(c)
  <2>1. mem' = mm /\ exhausted' = ex
    BY <1>6, <1>19, Zenon DEF Commit, Overfull
  <2>2. ~(Cardinality(rows) < limit)
    BY <1>12, <1>19, <2>1, Zenon
  <2>3. limit > Cardinality(Again(job[j])) /\ Again(job[j]) \in SUBSET Ids
    BY <1>3, <1>4, Zenon DEF LostInv, CallsInv, CallOK, WideEnough, Again, limit
  <2>4. IsFiniteSet(Again(job[j])) /\ IsFiniteSet(rows)
    BY <1>7, <2>3, IdsAssumption, FS_Subset, Zenon
  <2>5. Cardinality(rows) \in Nat /\ Cardinality(Again(job[j])) \in Nat
    BY <2>4, FS_CardinalityType, Zenon
  <2>6. ~(rows \subseteq Again(job[j]))
    <3>1. ~(Cardinality(rows) <= Cardinality(Again(job[j])))
      BY <1>4, <2>2, <2>3, <2>5
    <3> QED BY <2>4, <3>1, FS_Subset, Zenon
  <2>7. PICK i \in rows : i \notin job[j].had
    BY <1>7, <2>6, Zenon DEF Again, before
  <2>8. i \in Ids /\ mem[<<c, i>>] = None
    BY <1>7, <1>19, <2>7, Zenon DEF Resident, ResidentIn
  <2>9. mem'[<<c, i>>] # None
    BY <1>11, <2>1, <2>8, Zenon
  <2> QED BY <2>8, <2>9, Zenon DEF Resident, ResidentIn
<1> QED BY <1>15, <1>16, <1>18, <1>19, <1>c, Zenon

\* The user selects a chat, boot ends, or a mapping is learned early: nothing of
\* the messages changes.
LEMMA IdleFront ==
    ASSUME LostInv, \/ \E c \in Chats \cup {None} : SelectChat(c)
                    \/ Boot
                    \/ \E c \in Chats : LearnLid(c)
    PROVE  StoreTypeOK' /\ FrontStep /\ NoDowngrade /\ LoadsStay
<1>1. StoreTypeOK /\ PersistTypeOK
  BY Zenon DEF LostInv, StoreTypeOK
<1>2. /\ UNCHANGED <<msgs, chatRow, account, wiped, pending, job, txq, open, epoch>>
      /\ UNCHANGED <<mem, exhausted, loadingOlder, shown, heard, removed>>
      /\ msgTimer' = (msgTimer \/ pending # NoOps) \/ msgTimer' = msgTimer
      /\ enabled' \in {TRUE, enabled} /\ chatsTimer' \in {TRUE, chatsTimer}
      /\ active' \in Chats \cup {None} /\ known' \subseteq Chats
  <2>1. CASE \E c \in Chats \cup {None} : SelectChat(c)
    BY <1>1, <2>1, Zenon DEF SelectChat, persistVars, disk, queue, calls, switches, window, history, StoreTypeOK
  <2>2. CASE Boot
    BY <1>1, <2>2, Zenon DEF Boot, EnablePersistence, disk, calls, window, ui, history, StoreTypeOK
  <2>3. CASE \E c \in Chats : LearnLid(c)
    BY <1>1, <2>3, Zenon DEF LearnLid, persistVars, disk, queue, calls, switches, window, ui, history, StoreTypeOK
  <2> QED BY <2>1, <2>2, <2>3, Zenon
<1>3. ReadsOnly /\ LoadsStay
  BY <1>2, CallsStay, Zenon DEF calls
<1>4. msgTimer' \in BOOLEAN /\ enabled' \in BOOLEAN /\ chatsTimer' \in BOOLEAN
  BY <1>1, <1>2, Zenon DEF PersistTypeOK
<1>5. PersistTypeOK'
  BY <1>1, <1>2, <1>4, Zenon DEF PersistTypeOK
<1>6. StoreTypeOK' /\ QueueGrows /\ NoDowngrade
  BY <1>1, <1>2, <1>4, <1>5, Zenon DEF PersistTypeOK, StoreTypeOK, QueueGrows, NoDowngrade
<1> QED BY <1>2, <1>3, <1>6, Zenon DEF FrontStep

\* MessageList's effects.
LEMMA ShowChatFront ==
    ASSUME LostInv, NEW j \in Jobs, ShowChat(j)
    PROVE  StoreTypeOK' /\ FrontStep /\ NoDowngrade /\ LoadsStay
<1>1. StoreTypeOK /\ PersistTypeOK /\ exhausted \in SUBSET Chats /\ loadingOlder \subseteq Chats
      /\ mem \in [Keys -> Message \cup {None}] /\ active \in Chats \cup {None}
  BY Zenon DEF LostInv, StoreTypeOK
<1>2. /\ UNCHANGED <<msgs, chatRow, account, wiped, enabled, open, epoch, chatsTimer>>
      /\ UNCHANGED <<active, known, heard, removed>> /\ shown' = active
      /\ CloseChat(shown)
      /\ active = None => UNCHANGED <<calls, queue, loadingOlder>>
      /\ active # None => OpenChat(j, active)
  BY Zenon DEF ShowChat, disk, switches, history
<1>3. /\ mem' \in [Keys -> Message \cup {None}] /\ exhausted' \subseteq Chats
      /\ \A k \in Keys : mem'[k] = None \/ mem'[k] = mem[k]
  BY <1>1, <1>2, TrimType, Zenon DEF CloseChat
<1>4. NoDowngrade
  BY <1>3, Zenon DEF NoDowngrade
<1>5. ReadsOnly /\ LoadsStay /\ txq' \in Seq(Jobs) /\ QueueGrows /\ loadingOlder' \subseteq Chats
  <2>1. CASE UNCHANGED <<calls, queue, loadingOlder>>
    BY <1>1, <2>1, CallsStay, QueueStays, Zenon
  <2>2. CASE active # None
    <3> DEFINE have == Cardinality(Resident(active))
    <3>0. active \in Chats /\ OpenChat(j, active)
      BY <1>1, <1>2, <2>2, Zenon
    <3>1. CASE /\ UNCHANGED <<calls, loadingOlder>>
               /\ \E flagged \in SUBSET (Resident(active) \cap Incoming) :
                     PersistAll(ChatKeys(active, flagged), mem)
      <4>1. PICK flagged \in SUBSET (Resident(active) \cap Incoming) :
                     PersistAll(ChatKeys(active, flagged), mem)
        BY <3>1, Zenon
      <4>2. /\ ChatKeys(active, flagged) \in SUBSET Keys
            /\ \A k \in ChatKeys(active, flagged) : mem[k] \in Message
        BY <1>1, <3>0, ResidentMessages, Zenon DEF Resident
      <4>3. QueueGrows
        BY <1>1, <4>1, <4>2, AllGrow, Zenon
      <4> QED BY <1>1, <3>1, <4>3, CallsStay, Zenon
    <3>2. CASE /\ job' = [job EXCEPT ![LatestLoad(active)].opening = TRUE]
               /\ UNCHANGED <<txq, loadingOlder>> /\ UNCHANGED queue
      BY <1>1, <3>2, ReadJoined, QueueStays, Zenon
    <3>3. CASE have < Page /\ StartLoad(j, active, Page - have, TRUE) /\ UNCHANGED queue
      <4>1. Page - have \in Nat \ {0} /\ TRUE \in BOOLEAN
        <5>1. have \in Nat /\ Page \in Nat
          BY <3>0, Edge, WindowAssumption, Zenon
        <5> HIDE DEF have
        <5> QED BY <3>3, <5>1
      <4> HIDE DEF have
      <4>2. ReadsOnly /\ LoadsStay /\ txq' \in Seq(Jobs) /\ loadingOlder' = loadingOlder \cup {active}
        BY <3>0, <3>3, <4>1, LoadBegins, Zenon
      <4> QED BY <1>1, <3>0, <3>3, <4>2, QueueStays, Zenon
    <3> QED BY <3>0, <3>1, <3>2, <3>3, Zenon DEF OpenChat
  <2> QED BY <1>2, <2>1, <2>2, Zenon
<1>6. PersistTypeOK'
  BY <1>1, <1>2, <1>5, Zenon DEF PersistTypeOK, QueueGrows, ReadsOnly
<1>7. StoreTypeOK'
  BY <1>1, <1>2, <1>3, <1>5, <1>6, Zenon DEF StoreTypeOK
<1> QED BY <1>2, <1>4, <1>5, <1>7, Zenon DEF FrontStep

----------------------------------------------------------------------------
(* Calls of persist.ts *)

\* A tracked call that has not returned and still has its start stays awaited.
LEMMA SlotCalls ==
    ASSUME LostInv, NEW j \in Jobs, NEW b, job' = [job EXCEPT ![j] = b], CallOK(b)',
           job[j].kind # "clear", b.kind # "clear",
           b.kind \in Tracked => \/ b.started = epoch
                                 \/ job[j].kind \in Tracked /\ b.started = job[j].started,
           epoch' = epoch, removed' = removed
    PROVE  CallsInv'
<1>1. job'[j] = b /\ \A i \in Jobs : i # j => job'[i] = job[i]
  BY Zenon DEF LostInv, StoreTypeOK, PersistTypeOK
<1>2. \A i \in Jobs : Awaited(i) => Awaited(i)'
  BY <1>1, Zenon DEF Awaited
<1>3. \A i \in Jobs : Outdated(i)' => Outdated(i)
  BY <1>1, Zenon DEF Outdated
<1>4. \A i \in Jobs : CallOK(job[i])'
  <2> SUFFICES ASSUME NEW i \in Jobs PROVE CallOK(job[i])'
    BY Zenon
  <2>1. CASE i = j
    BY <1>1, <2>1, Zenon DEF CallOK, WideEnough, Again, NotAfter
  <2>2. CASE i # j
    BY <1>1, <2>2, Zenon DEF CallOK, WideEnough, Again, NotAfter, LostInv, CallsInv
  <2> QED BY <2>1, <2>2, Zenon
<1> QED BY <1>2, <1>3, <1>4, Zenon DEF LostInv, CallsInv

\* A call returns: no reset waits for it any longer.
LEMMA ReturnCalls ==
    ASSUME LostInv, NEW j \in Jobs, SetJob(j, Idle),
           job[j].kind = "clear" => job[j].st = "tx",
           epoch' = epoch, removed' = removed
    PROVE  /\ CallsInv'
           /\ job'[j] = Idle
           /\ \A i \in Jobs : i # j /\ job[i].kind # "clear" => job'[i] = job[i]
           /\ \A i \in Jobs : job'[i].kind = "clear" => job[i].kind = "clear"
<1>0. PersistTypeOK
  BY Zenon DEF LostInv, StoreTypeOK
<1>1. job'[j] = Idle /\ job'[j].kind = "idle"
  BY DEF SetJob, Idle
<1>2. \A i \in Jobs : i # j /\ job[i].kind # "clear" => job'[i] = job[i]
  BY Zenon DEF SetJob, Idle
<1>3. \A i \in Jobs : i # j /\ job[i].kind = "clear" =>
         job'[i] = [job[i] EXCEPT !.waits = @ \ {j}]
  BY Zenon DEF SetJob
<1>4. \A i \in Jobs : i # j /\ job[i].kind = "clear" =>
         job'[i].kind = "clear" /\ job'[i].st = job[i].st /\ job'[i].waits = job[i].waits \ {j}
  BY <1>0, <1>3, EraType, Zenon DEF ClearJob
<1>5. "clear" \notin Tracked /\ "idle" \notin Tracked /\ "settle" # "tx"
  BY DEF Tracked
<1>6. \A i \in Jobs : i # j /\ Awaited(i) => Awaited(i)'
  BY <1>4, <1>5, Zenon DEF Awaited
<1>7. \A i \in Jobs : Outdated(i)' => i # j /\ Outdated(i)
  BY <1>1, <1>2, <1>4, <1>5, Zenon DEF Outdated
<1>8. \A i \in Jobs : CallOK(job[i])'
  <2> SUFFICES ASSUME NEW i \in Jobs PROVE CallOK(job[i])'
    BY Zenon
  <2>1. CASE i = j
    BY <1>1, <2>1 DEF CallOK, Tracked
  <2>2. CASE i # j /\ job[i].kind = "clear"
    BY <1>4, <2>2 DEF CallOK, Tracked
  <2>3. CASE i # j /\ job[i].kind # "clear"
    BY <1>2, <2>3, Zenon DEF CallOK, WideEnough, Again, NotAfter, LostInv, CallsInv
  <2> QED BY <2>1, <2>2, <2>3, Zenon
<1>9. CallsInv'
  BY <1>6, <1>7, <1>8, Zenon DEF LostInv, CallsInv
<1> QED BY <1>1, <1>2, <1>4, <1>5, <1>9, Zenon

\* While messages count as accepted no write of an earlier session is under way
\* and no reset either.
LEMMA HeardIsCurrent ==
    ASSUME LostInv, heard # {}
    PROVE  /\ \A j \in Jobs : job[j].kind # "clear"
           /\ \A j \in Jobs : job[j].kind \in Tracked => job[j].started = epoch /\ job[j].st # "stale"
<1>1. \A j \in Jobs : job[j].kind # "clear"
  BY Zenon DEF LostInv, ClearsInv
<1>2. \A j \in Jobs : ~Outdated(j)
  BY <1>1, Zenon DEF LostInv, CallsInv, Awaited
<1> QED BY <1>1, <1>2, Zenon DEF LostInv, CallsInv, CallOK, Outdated

\* A step that ends or begins no reset, accepts nothing and deletes nothing.
LEMMA ClearsKept ==
    ASSUME LostInv, heard' = heard, \A i \in Jobs : job'[i].kind = "clear" => job[i].kind = "clear"
    PROVE  ClearsInv'
BY Zenon DEF LostInv, ClearsInv

\* Messages stay recoverable if each place that holds one hands it on.
LEMMA KeptLost ==
    ASSUME LostInv, heard' = heard, removed' = removed,
           \A k \in Keys : k[2] \in heard \ removed /\ msgs[k] # None =>
              \E l \in Keys : l[2] = k[2] /\ msgs'[l] # None,
           \A k \in Keys : k[2] \in heard \ removed /\ IsWrite(pending[k]) =>
              \E l \in Keys : l[2] = k[2] /\ \/ msgs'[l] # None
                                             \/ IsWrite(pending'[l])
                                             \/ \E j \in Jobs : job'[j].kind = "flush"
                                                                /\ IsWrite(job'[j].ops[l]),
           \A j \in Jobs, k \in Keys : k[2] \in heard \ removed /\ job[j].kind = "flush" /\ IsWrite(job[j].ops[k]) =>
              msgs'[k] # None \/ (job'[j].kind = "flush" /\ IsWrite(job'[j].ops[k]))
    PROVE  NothingLost'
<1> SUFFICES ASSUME NEW i \in heard \ removed PROVE Recoverable(i)'
  BY Zenon DEF NothingLost
<1>1. i \in Ids /\ Recoverable(i)
  BY Zenon DEF LostInv, StoreTypeOK, NothingLost
<1>2. PICK c \in Chats : \/ msgs[<<c, i>>] # None
                         \/ IsWrite(pending[<<c, i>>])
                         \/ \E j \in Jobs : job[j].kind = "flush" /\ IsWrite(job[j].ops[<<c, i>>])
  BY <1>1, Zenon DEF Recoverable
<1>3. PICK k \in Keys : k = <<c, i>> /\ k[2] = i
  <2>1. <<c, i>> \in Keys /\ <<c, i>>[2] = i
    BY <1>1, Zenon DEF Keys
  <2> QED BY <2>1, Zenon
<1>4. \E l \in Keys : l[2] = i /\ \/ msgs'[l] # None
                                  \/ IsWrite(pending'[l])
                                  \/ \E j \in Jobs : job'[j].kind = "flush" /\ IsWrite(job'[j].ops[l])
  <2>0. k[2] \in heard \ removed
    BY <1>3, Zenon
  <2>1. CASE msgs[k] # None
    <3>1. PICK l \in Keys : l[2] = k[2] /\ msgs'[l] # None
      BY <2>0, <2>1, Zenon
    <3> QED BY <1>3, <3>1, Zenon
  <2>2. CASE IsWrite(pending[k])
    BY <1>3, <2>0, <2>2, Zenon
  <2>3. ASSUME NEW j \in Jobs, job[j].kind = "flush", IsWrite(job[j].ops[k])
        PROVE  msgs'[k] # None \/ (job'[j].kind = "flush" /\ IsWrite(job'[j].ops[k]))
    BY <1>3, <2>3, Zenon
  <2> QED BY <1>2, <1>3, <2>1, <2>2, <2>3, Zenon
<1>5. PICK l \in Keys : l[2] = i /\ \/ msgs'[l] # None
                                    \/ IsWrite(pending'[l])
                                    \/ \E j \in Jobs : job'[j].kind = "flush" /\ IsWrite(job'[j].ops[l])
  BY <1>4, Zenon
<1>6. \E d \in Chats : l = <<d, i>>
  <2>1. l \in Chats \X Ids /\ l[2] = i
    BY <1>5, Zenon DEF Keys
  <2> QED BY <2>1
<1> QED BY <1>5, <1>6, ZenonT(40) DEF Recoverable

\* A step that leaves every message where it is.
LEMMA SameLost ==
    ASSUME LostInv, UNCHANGED <<heard, removed, msgs, pending>>,
           \A i \in Jobs : job[i].kind = "flush" => job'[i].kind = "flush" /\ job'[i].ops = job[i].ops,
           \A i \in Jobs : job'[i].kind = "clear" => job[i].kind = "clear"
    PROVE  ClearsInv' /\ QueueInv' /\ NothingLost'
<1>1. ClearsInv' /\ QueueInv'
  BY ClearsKept, Zenon DEF LostInv, QueueInv
<1>2. NothingLost'
  BY Zenon DEF LostInv, NothingLost, Recoverable
<1> QED BY <1>1, <1>2, Zenon

\* patchPersistedMessage begins.
LEMMA PatchKeeps ==
    ASSUME LostInv, NEW j \in Jobs, NEW k \in Keys, NEW u \in Updates, PatchPersistedMessage(j, k, u),
           UNCHANGED <<heard, removed>>
    PROVE  CallsInv' /\ ClearsInv' /\ QueueInv' /\ NothingLost' /\ LoadsStay
<1> DEFINE call == [kind |-> "patch", st |-> "done", started |-> epoch, key |-> k,
                    upd |-> u, queued |-> None, res |-> None]
<1>0. PersistTypeOK /\ job \in [Jobs -> JobType] /\ pending \in [Keys -> PendingOp \cup {None}]
      /\ epoch \in Nat
  BY Zenon DEF LostInv, StoreTypeOK, PersistTypeOK
<1>1. job[j] = Idle /\ UNCHANGED <<msgs, epoch>>
  BY Zenon DEF PatchPersistedMessage, disk, switches
<1>2. PICK b : /\ job' = [job EXCEPT ![j] = b]
               /\ b.kind = "patch" /\ b.started = epoch /\ b.st # "stale"
  <2>1. /\ call.kind = "patch" /\ call.started = epoch /\ call.st # "stale"
        /\ \A r : LET b == [call EXCEPT !.res = r]
                  IN  b.kind = "patch" /\ b.started = epoch /\ b.st # "stale"
        /\ \A q : LET b == [call EXCEPT !.st = "tx", !.queued = q]
                  IN  b.kind = "patch" /\ b.started = epoch /\ b.st # "stale"
    OBVIOUS
  <2>2. \/ job' = [job EXCEPT ![j] = [call EXCEPT !.res = pending'[k].m]]
        \/ job' = [job EXCEPT ![j] = call]
        \/ job' = [job EXCEPT ![j] = [call EXCEPT !.st = "tx", !.queued = pending[k]]]
    BY Zenon DEF PatchPersistedMessage, Enqueue
  <2> HIDE DEF call
  <2>3. ASSUME NEW x, job' = [job EXCEPT ![j] = x],
               x.kind = "patch" /\ x.started = epoch /\ x.st # "stale"
        PROVE  \E b : /\ job' = [job EXCEPT ![j] = b]
                      /\ b.kind = "patch" /\ b.started = epoch /\ b.st # "stale"
    BY <2>3, Zenon
  <2>4. CASE job' = [job EXCEPT ![j] = [call EXCEPT !.res = pending'[k].m]]
    BY <2>1, <2>3, <2>4, Zenon
  <2>5. CASE job' = [job EXCEPT ![j] = call]
    BY <2>1, <2>3, <2>5, Zenon
  <2>6. CASE job' = [job EXCEPT ![j] = [call EXCEPT !.st = "tx", !.queued = pending[k]]]
    BY <2>1, <2>3, <2>6, Zenon
  <2> QED BY <2>2, <2>4, <2>5, <2>6, Zenon
<1>3. job'[j] = b /\ \A i \in Jobs : i # j => job'[i] = job[i]
  BY <1>0, <1>2, Zenon
<1>4. job[j].kind = "idle" /\ b.kind \in Tracked /\ b.kind \notin {"clear", "flush", "move", "load"}
  BY <1>1, <1>2 DEF Idle, Tracked
<1>5. CallOK(b)'
  <2>1. b.started <= epoch
    BY <1>0, <1>2
  <2> QED BY <1>1, <1>2, <1>4, <2>1, Zenon DEF CallOK
<1>6. CallsInv'
  BY <1>1, <1>2, <1>4, <1>5, SlotCalls, Zenon
<1>7. /\ \A i \in Jobs : job[i].kind = "flush" => job'[i].kind = "flush" /\ job'[i].ops = job[i].ops
      /\ \A i \in Jobs : job'[i].kind = "clear" => job[i].kind = "clear"
      /\ LoadsStay
  BY <1>3, <1>4, Zenon DEF LoadsStay
<1>8. \A l \in Keys : OpOf(pending'[l]) = OpOf(pending[l])
  <2>1. CASE UNCHANGED pending
    BY <2>1, Zenon
  <2>2. CASE OpOf(pending[k]) = "put" /\ pending' = [pending EXCEPT ![k].m = Patched(@, u)]
    <3>1. pending[k] \in WriteOp /\ pending[k].op = "put"
      BY <1>0, <2>2, Zenon DEF OpOf, PersistTypeOK, PendingOp, WriteOp
    <3>3. Patched(pending[k].m, u) \in Message
      BY <3>1, PatchedType, Zenon DEF WriteOp
    <3>4. [pending[k] EXCEPT !.m = Patched(@, u)] \in WriteOp
          /\ [pending[k] EXCEPT !.m = Patched(@, u)].op = "put"
      BY <3>1, <3>3 DEF WriteOp
    <3>5. pending'[k] = [pending[k] EXCEPT !.m = Patched(@, u)] /\ \A l \in Keys : l # k => pending'[l] = pending[l]
      BY <1>0, <2>2, Zenon
    <3>6. pending'[k] # None
      BY <3>4, <3>5, NoneAssumption, Zenon DEF WriteOp
    <3>7. OpOf(pending'[k]) = "put"
      BY <3>4, <3>5, <3>6, Zenon DEF OpOf
    <3> QED BY <2>2, <3>5, <3>7, Zenon
  <2> QED BY <2>1, <2>2, Zenon DEF PatchPersistedMessage
<1>9. ClearsInv' /\ QueueInv'
  BY <1>7, <1>8, ClearsKept, Zenon DEF LostInv, QueueInv
<1>10. \A c \in Chats, i \in Ids : IsWrite(pending[<<c, i>>]) => IsWrite(pending'[<<c, i>>])
  BY <1>8, Zenon DEF IsWrite, Keys
<1>11. NothingLost'
  <2> SUFFICES ASSUME NEW i \in heard \ removed PROVE Recoverable(i)'
    BY Zenon DEF NothingLost
  <2>1. i \in Ids /\ Recoverable(i)
    BY Zenon DEF LostInv, NothingLost, StoreTypeOK
  <2> QED BY <1>1, <1>7, <1>10, <2>1, Zenon DEF Recoverable
<1> QED BY <1>6, <1>7, <1>9, <1>11, Zenon

\* A reset begins: nothing is accepted and every write under way is awaited.
LEMMA ResetKeeps ==
    ASSUME LostInv, NEW j \in Jobs, ResetAll(j)
    PROVE  LostInv' /\ NoDowngrade /\ LoadsStay
<1> DEFINE b == [kind |-> "clear", st |-> "settle", era |-> epoch', waits |-> Inflight]
<1>0. StoreTypeOK /\ PersistTypeOK /\ job \in [Jobs -> JobType] /\ epoch \in Nat
  BY Zenon DEF LostInv, StoreTypeOK, PersistTypeOK
<1>1. /\ ClearAll(j) /\ job[j] = Idle /\ epoch' = epoch + 1 /\ pending' = NoOps
      /\ job' = [job EXCEPT ![j] = b]
      /\ mem' = [k \in Keys |-> None] /\ exhausted' = {} /\ loadingOlder' = {}
      /\ active' = None /\ known' = {} /\ heard' = {} /\ removed' = {} /\ shown' = shown
  BY Zenon DEF ResetAll, ClearAll
<1>2. PersistTypeOK'
  BY <1>0, <1>1, CallType, Zenon DEF Call
<1>3. StoreTypeOK'
  BY <1>0, <1>1, <1>2, Zenon DEF StoreTypeOK
<1>4. b.kind = "clear" /\ b.st = "settle" /\ b.waits = Inflight
  BY Zenon
<1> HIDE DEF b
<1>5. job'[j] = b /\ \A i \in Jobs : i # j => job'[i] = job[i]
  BY <1>0, <1>1, Zenon
<1>6. job[j].kind = "idle" /\ "clear" \notin Tracked
  BY <1>1 DEF Idle, Tracked
<1>7. NoDowngrade /\ LoadsStay
  BY <1>1, <1>4, <1>5, <1>6, Zenon DEF NoDowngrade, LoadsStay
<1>8. ASSUME NEW i \in Jobs PROVE CallOK(job[i])' /\ (Outdated(i) => Awaited(i))'
  <2>1. CASE i = j
    BY <1>4, <1>5, <1>6, <2>1 DEF CallOK, Outdated
  <2>2. CASE i # j
    <3>1. job'[i] = job[i] /\ CallOK(job[i])
      BY <1>5, <2>2, Zenon DEF LostInv, CallsInv
    <3>2. ASSUME job[i].kind \in Tracked
          PROVE  job[i].started <= epoch' /\ job[i].started # epoch' /\ Awaited(i)'
      <4>1. job[i].started \in Nat /\ job[i].started <= epoch /\ i \in Inflight
        BY <1>0, <3>1, <3>2, StartedType, Zenon DEF CallOK, Inflight
      <4>2. Awaited(i)'
        BY <1>4, <1>5, <4>1, Zenon DEF Awaited
      <4> QED BY <1>0, <1>1, <4>1, <4>2
    <3>3. "flush" \in Tracked
      BY DEF Tracked
    <3> QED BY <3>1, <3>2, <3>3, Zenon DEF CallOK, WideEnough, Again, NotAfter, Outdated
  <2> QED BY <2>1, <2>2, Zenon
<1>9. CallsInv' /\ ClearsInv' /\ NothingLost'
  BY <1>1, <1>8, Zenon DEF CallsInv, ClearsInv, NothingLost
<1>10. QueueInv'
  BY <1>1 DEF QueueInv, NoOps, OpOf
<1> QED BY <1>3, <1>7, <1>9, <1>10, Zenon DEF LostInv

\* A flush captures the queue.
LEMMA FlushBegins ==
    ASSUME LostInv, NEW j \in Jobs, FlushMessages(j), UNCHANGED <<heard, removed>>
    PROVE  CallsInv' /\ ClearsInv' /\ QueueInv' /\ NothingLost' /\ LoadsStay
<1> DEFINE call == [kind |-> "flush", st |-> "resume", started |-> epoch,
                    ops |-> pending, slice |-> {}]
<1>0. PersistTypeOK /\ job \in [Jobs -> JobType] /\ epoch \in Nat
  BY Zenon DEF LostInv, StoreTypeOK, PersistTypeOK
<1>1. job[j] = Idle /\ UNCHANGED <<msgs, epoch>> /\ pending' = NoOps
  BY Zenon DEF FlushMessages, disk, switches
<1>2. PICK b : /\ job' = [job EXCEPT ![j] = b]
               /\ b.kind = "flush" /\ b.started = epoch /\ b.st # "stale" /\ b.ops = pending
  <2>1. /\ call.kind = "flush" /\ call.started = epoch /\ call.st # "stale" /\ call.ops = pending
        /\ \A s : LET b == [call EXCEPT !.st = "tx", !.slice = s]
                  IN  b.kind = "flush" /\ b.started = epoch /\ b.st # "stale" /\ b.ops = pending
    OBVIOUS
  <2>2. \/ job' = [job EXCEPT ![j] = call]
        \/ \E s : job' = [job EXCEPT ![j] = [call EXCEPT !.st = "tx", !.slice = s]]
    BY Zenon DEF FlushMessages, Enqueue
  <2> HIDE DEF call
  <2>3. ASSUME NEW x, job' = [job EXCEPT ![j] = x],
               x.kind = "flush" /\ x.started = epoch /\ x.st # "stale" /\ x.ops = pending
        PROVE  \E b : /\ job' = [job EXCEPT ![j] = b]
                      /\ b.kind = "flush" /\ b.started = epoch /\ b.st # "stale" /\ b.ops = pending
    BY <2>3, Zenon
  <2>4. CASE job' = [job EXCEPT ![j] = call]
    BY <2>1, <2>3, <2>4, Zenon
  <2>5. ASSUME NEW s, job' = [job EXCEPT ![j] = [call EXCEPT !.st = "tx", !.slice = s]]
        PROVE  \E b : /\ job' = [job EXCEPT ![j] = b]
                      /\ b.kind = "flush" /\ b.started = epoch /\ b.st # "stale" /\ b.ops = pending
    BY <2>1, <2>3, <2>5, Zenon
  <2> QED BY <2>2, <2>4, <2>5, Zenon
<1>3. job'[j] = b /\ \A i \in Jobs : i # j => job'[i] = job[i]
  BY <1>0, <1>2, Zenon
<1>4. job[j].kind = "idle" /\ b.kind \in Tracked /\ b.kind \notin {"clear", "move", "load"}
  BY <1>1, <1>2 DEF Idle, Tracked
<1>5. CallOK(b)'
  <2>1. b.started <= epoch
    BY <1>0, <1>2
  <2> QED BY <1>1, <1>2, <1>4, <2>1, Zenon DEF CallOK, LostInv, QueueInv
<1>6. CallsInv'
  BY <1>1, <1>2, <1>4, <1>5, SlotCalls, Zenon
<1>7. /\ \A i \in Jobs : job'[i].kind = "clear" => job[i].kind = "clear"
      /\ \A i \in Jobs : job[i].kind = "flush" => job'[i] = job[i]
      /\ LoadsStay
  BY <1>3, <1>4, Zenon DEF LoadsStay
<1>8. ClearsInv'
  BY <1>7, ClearsKept, Zenon
<1>9. QueueInv'
  BY <1>1 DEF QueueInv, NoOps, OpOf
<1>10. NothingLost'
  <2> SUFFICES ASSUME NEW i \in heard \ removed PROVE Recoverable(i)'
    BY Zenon DEF NothingLost
  <2>1. PICK c \in Chats : \/ msgs[<<c, i>>] # None
                           \/ IsWrite(pending[<<c, i>>])
                           \/ \E h \in Jobs : job[h].kind = "flush" /\ IsWrite(job[h].ops[<<c, i>>])
    BY Zenon DEF LostInv, NothingLost, Recoverable
  <2> QED BY <1>1, <1>2, <1>3, <1>7, <2>1, Zenon DEF Recoverable
<1> QED BY <1>6, <1>7, <1>8, <1>9, <1>10, Zenon

\* What every step of a call of persist.ts has to keep.
Survives == CallsInv' /\ ClearsInv' /\ QueueInv' /\ NothingLost' /\ LoadsStay

\* A queued write carries a message.
LEMMA WriteMessage ==
    ASSUME NEW p \in PendingOp \cup {None}, IsWrite(p)
    PROVE  p.m \in Message /\ p.m # None
<1>1. p # None /\ p.op \in {"put", "add"}
  BY DEF IsWrite, OpOf
<1>2. p.m \in Message
  BY <1>1 DEF PendingOp, WriteOp
<1> QED BY <1>2, MessageIsSome, Zenon

\* A call that has done its work returns.
LEMMA ReturnSurvives ==
    ASSUME LostInv, NEW j \in Jobs, SetJob(j, Idle), job[j].kind \in {"patch", "chats", "account"},
           UNCHANGED <<heard, removed, msgs, pending, epoch>>
    PROVE  Survives
<1>1. /\ CallsInv'
      /\ \A i \in Jobs : i # j /\ job[i].kind # "clear" => job'[i] = job[i]
      /\ \A i \in Jobs : job'[i].kind = "clear" => job[i].kind = "clear"
  BY ReturnCalls, Zenon
<1>2. /\ \A i \in Jobs : job[i].kind = "flush" => job'[i].kind = "flush" /\ job'[i].ops = job[i].ops
      /\ LoadsStay
  BY <1>1, Zenon DEF LoadsStay
<1>3. ClearsInv' /\ QueueInv' /\ NothingLost'
  BY <1>1, <1>2, SameLost, Zenon
<1> QED BY <1>1, <1>2, <1>3, Zenon DEF Survives

\* A slice of a flush is written: what it held is stored or still held.
LEMMA FlushTxSurvives ==
    ASSUME LostInv, NEW j \in Jobs, FlushTx(j), UNCHANGED <<heard, removed>>
    PROVE  Survives
<1>0. PersistTypeOK /\ job[j] \in JobType
  BY Zenon DEF LostInv, StoreTypeOK, PersistTypeOK
<1>1. job[j] \in FlushJob /\ job[j].kind = "flush"
  BY <1>0, JobKinds, Zenon DEF FlushTx, Running
<1>2. UNCHANGED <<epoch, pending>>
  BY Zenon DEF FlushTx, queue, switches
<1>3. PICK b : /\ job' = [job EXCEPT ![j] = b]
               /\ b.kind = "flush" /\ b.started = job[j].started /\ b.st = "resume"
               /\ b.ops = [k \in Keys |-> IF k \in job[j].slice THEN None ELSE job[j].ops[k]]
  <2> DEFINE next == [job[j] EXCEPT !.st = "resume", !.slice = {},
                        !.ops = [k \in Keys |-> IF k \in job[j].slice THEN None ELSE job[j].ops[k]]]
  <2>1. next.kind = "flush" /\ next.started = job[j].started /\ next.st = "resume"
        /\ next.ops = [k \in Keys |-> IF k \in job[j].slice THEN None ELSE job[j].ops[k]]
    BY <1>1, Zenon DEF FlushJob
  <2>2. job' = [job EXCEPT ![j] = next]
    BY Zenon DEF FlushTx
  <2> HIDE DEF next
  <2> QED BY <2>1, <2>2, Zenon
<1>4. job'[j] = b /\ \A i \in Jobs : i # j => job'[i] = job[i]
  BY <1>0, <1>3, Zenon DEF PersistTypeOK
<1>5. CallOK(job[j]) /\ "flush" \in Tracked
  BY Zenon DEF LostInv, CallsInv, Tracked
<1>6. \A k \in Keys : OpOf(b.ops[k]) = "del" => OpOf(job[j].ops[k]) = "del"
  BY <1>3 DEF OpOf
<1>7. CallOK(b)'
  <2>1. b.st # "stale" /\ b.kind # "move" /\ b.kind # "load"
    BY <1>3
  <2> QED BY <1>1, <1>2, <1>3, <1>5, <1>6, <2>1, Zenon DEF CallOK
<1>8. CallsInv'
  <2>1. job[j].kind # "clear" /\ b.kind # "clear"
    BY <1>1, <1>3
  <2> QED BY <1>1, <1>2, <1>3, <1>5, <1>7, <2>1, SlotCalls, Zenon
<1>9. (\A i \in Jobs : job'[i].kind = "clear" => job[i].kind = "clear") /\ LoadsStay
  BY <1>1, <1>3, <1>4 DEF LoadsStay
<1>10. ClearsInv' /\ QueueInv'
  BY <1>2, <1>9, ClearsKept, Zenon DEF LostInv, QueueInv
<1>11. ASSUME NEW k \in Keys, k[2] \in heard \ removed
       PROVE  /\ msgs[k] # None => msgs'[k] # None
              /\ k \in job[j].slice /\ IsWrite(job[j].ops[k]) => msgs'[k] # None
  <2>1. msgs'[k] = IF k \in job[j].slice THEN Written(job[j].ops[k], msgs[k]) ELSE msgs[k]
    BY Zenon DEF FlushTx
  <2>2. job[j].started = epoch
    BY <1>1, <1>5, <1>11, HeardIsCurrent, Zenon
  <2>3. OpOf(job[j].ops[k]) # "del"
    BY <1>1, <1>5, <1>11, <2>2, Zenon DEF CallOK
  <2>4. job[j].ops[k] \in PendingOp \cup {None}
    BY <1>1, Zenon DEF FlushJob
  <2>5. CASE IsWrite(job[j].ops[k])
    <3>1. job[j].ops[k].m # None
      BY <2>4, <2>5, WriteMessage, Zenon
    <3> QED BY <2>1, <2>5, <3>1 DEF Written, IsWrite
  <2>6. CASE ~IsWrite(job[j].ops[k])
    <3>1. Written(job[j].ops[k], msgs[k]) = msgs[k]
      BY <2>3, <2>6 DEF Written, IsWrite
    <3> QED BY <2>1, <2>6, <3>1, Zenon
  <2> QED BY <2>5, <2>6, Zenon
<1>12. ASSUME NEW i \in Jobs, NEW k \in Keys, k[2] \in heard \ removed, job[i].kind = "flush",
              IsWrite(job[i].ops[k])
       PROVE  msgs'[k] # None \/ (job'[i].kind = "flush" /\ IsWrite(job'[i].ops[k]))
  <2>1. CASE i # j
    BY <1>4, <1>12, <2>1, Zenon
  <2>2. CASE i = j /\ k \in job[j].slice
    BY <1>11, <1>12, <2>2, Zenon
  <2>3. CASE i = j /\ k \notin job[j].slice
    <3>1. b.ops[k] = job[j].ops[k]
      BY <1>3, <2>3, Zenon
    <3> QED BY <1>3, <1>4, <1>12, <2>3, <3>1, Zenon
  <2> QED BY <2>1, <2>2, <2>3, Zenon
<1>13. NothingLost'
  BY <1>2, <1>11, <1>12, KeptLost, Zenon
<1> QED BY <1>8, <1>9, <1>10, <1>13, Zenon DEF Survives

\* A flush goes on, finishes with nothing left, or stops because of a reset.
LEMMA FlushResumeSurvives ==
    ASSUME LostInv, NEW j \in Jobs, FlushResume(j), UNCHANGED <<heard, removed>>
    PROVE  Survives
<1>0. PersistTypeOK /\ job[j] \in JobType
  BY Zenon DEF LostInv, StoreTypeOK, PersistTypeOK
<1>1. job[j] \in FlushJob /\ job[j].kind = "flush" /\ "flush" \in Tracked
  BY <1>0, JobKinds, Zenon DEF FlushResume, Tracked
<1>2. UNCHANGED <<msgs, epoch, pending>>
  BY Zenon DEF FlushResume, disk, switches, queue
<1>3. CASE Queued(job[j].ops) # {} /\ job[j].started = epoch
  <2>1. PICK s : job' = [job EXCEPT ![j].st = "tx", ![j].slice = s]
    BY <1>3, Zenon DEF FlushResume
  <2>2. PICK b : /\ job' = [job EXCEPT ![j] = b]
                 /\ b.kind = "flush" /\ b.started = job[j].started /\ b.ops = job[j].ops /\ b.st = "tx"
    <3> DEFINE next == [job[j] EXCEPT !.st = "tx", !.slice = s]
    <3>1. next.kind = "flush" /\ next.started = job[j].started /\ next.ops = job[j].ops /\ next.st = "tx"
      BY <1>1, Zenon DEF FlushJob
    <3>2. job' = [job EXCEPT ![j] = next]
      BY <2>1, Zenon
    <3> HIDE DEF next
    <3> QED BY <3>1, <3>2, Zenon
  <2>4. job'[j] = b /\ \A i \in Jobs : i # j => job'[i] = job[i]
    BY <1>0, <2>2, Zenon DEF PersistTypeOK
  <2>5. CallOK(b)'
    <3>1. b.st # "stale" /\ b.kind # "move" /\ b.kind # "load" /\ CallOK(job[j])
      BY <2>2 DEF LostInv, CallsInv
    <3> QED BY <1>1, <1>2, <2>2, <3>1, Zenon DEF CallOK
  <2>6. CallsInv'
    <3>1. job[j].kind # "clear" /\ b.kind # "clear"
      BY <1>1, <2>2
    <3> QED BY <1>1, <1>2, <2>2, <2>5, <3>1, SlotCalls, Zenon
  <2>7. /\ \A i \in Jobs : job[i].kind = "flush" => job'[i].kind = "flush" /\ job'[i].ops = job[i].ops
        /\ \A i \in Jobs : job'[i].kind = "clear" => job[i].kind = "clear"
        /\ LoadsStay
    BY <1>1, <2>2, <2>4 DEF LoadsStay
  <2>8. ClearsInv' /\ QueueInv' /\ NothingLost'
    BY <1>2, <2>7, SameLost, Zenon
  <2> QED BY <2>6, <2>7, <2>8, Zenon DEF Survives
<1>4. CASE ~(Queued(job[j].ops) # {} /\ job[j].started = epoch)
  <2>1. SetJob(j, Idle) /\ (Queued(job[j].ops) = {} \/ job[j].started # epoch)
    BY <1>4, Zenon DEF FlushResume
  <2>2. /\ CallsInv' /\ job'[j] = Idle
        /\ \A i \in Jobs : i # j /\ job[i].kind # "clear" => job'[i] = job[i]
        /\ \A i \in Jobs : job'[i].kind = "clear" => job[i].kind = "clear"
    <3>1. job[j].kind # "clear"
      BY <1>1
    <3> QED BY <1>2, <2>1, <3>1, ReturnCalls, Zenon
  <2>3. LoadsStay /\ \A i \in Jobs : i # j /\ job[i].kind = "flush" => job'[i] = job[i]
    BY <1>1, <2>2 DEF LoadsStay
  <2>4. ClearsInv' /\ QueueInv'
    BY <1>2, <2>2, ClearsKept, Zenon DEF LostInv, QueueInv
  <2>5. ASSUME NEW k \in Keys, k[2] \in heard \ removed PROVE ~IsWrite(job[j].ops[k])
    <3>1. Queued(job[j].ops) = {}
      BY <1>1, <2>1, <2>5, HeardIsCurrent, Zenon
    <3>2. job[j].ops[k] = None
      BY <3>1, Zenon DEF Queued
    <3> QED BY <3>2 DEF IsWrite, OpOf
  <2>6. NothingLost'
    BY <1>2, <2>3, <2>5, KeptLost, ZenonT(30)
  <2> QED BY <2>2, <2>3, <2>4, <2>6, Zenon DEF Survives
<1> QED BY <1>3, <1>4, Zenon

\* The chat rows are about to be written.
LEMMA FlushChatsSurvives ==
    ASSUME LostInv, NEW j \in Jobs, FlushChats(j), UNCHANGED <<heard, removed>>
    PROVE  Survives
<1>0. PersistTypeOK /\ epoch \in Nat
  BY Zenon DEF LostInv, StoreTypeOK, PersistTypeOK
<1>1. PICK rows \in SUBSET Chats :
         Enqueue(j, [kind |-> "chats", st |-> "tx", started |-> epoch, rows |-> rows])
  BY Zenon DEF FlushChats
<1>2. UNCHANGED <<msgs, epoch, pending>> /\ job[j] = Idle
  BY <1>1, Zenon DEF FlushChats, Enqueue, disk, queue
<1>3. PICK b : /\ job' = [job EXCEPT ![j] = b]
               /\ b.kind = "chats" /\ b.st = "tx" /\ b.started = epoch
  <2> DEFINE next == [kind |-> "chats", st |-> "tx", started |-> epoch, rows |-> rows]
  <2>1. next.kind = "chats" /\ next.st = "tx" /\ next.started = epoch
    OBVIOUS
  <2>2. job' = [job EXCEPT ![j] = next]
    BY <1>1, Zenon DEF Enqueue
  <2> HIDE DEF next
  <2> QED BY <2>1, <2>2, Zenon
<1>4. job'[j] = b /\ \A i \in Jobs : i # j => job'[i] = job[i]
  BY <1>0, <1>3, Zenon DEF PersistTypeOK
<1>5. job[j].kind = "idle" /\ job[j].kind # "clear" /\ b.kind \notin {"clear", "flush", "move", "load"}
      /\ b.st # "stale"
  BY <1>2, <1>3 DEF Idle
<1>6. CallOK(b)'
  <2>1. b.started <= epoch
    BY <1>0, <1>3
  <2> QED BY <1>2, <1>3, <1>5, <2>1, Zenon DEF CallOK
<1>7. CallsInv'
  BY <1>2, <1>3, <1>5, <1>6, SlotCalls, Zenon
<1>8. /\ \A i \in Jobs : job[i].kind = "flush" => job'[i].kind = "flush" /\ job'[i].ops = job[i].ops
      /\ \A i \in Jobs : job'[i].kind = "clear" => job[i].kind = "clear"
      /\ LoadsStay
  BY <1>4, <1>5, Zenon DEF LoadsStay
<1>9. ClearsInv' /\ QueueInv' /\ NothingLost'
  BY <1>2, <1>8, SameLost, Zenon
<1> QED BY <1>7, <1>8, <1>9, Zenon DEF Survives

\* A patch is written: it drops a queued insert only for a row that is stored.
LEMMA PatchTxSurvives ==
    ASSUME LostInv, NEW j \in Jobs, PatchTx(j), UNCHANGED <<heard, removed>>
    PROVE  Survives
<1> DEFINE next == IF Current(job[j]) = None THEN None
                   ELSE Patched(Current(job[j]), job[j].upd)
<1>0. PersistTypeOK /\ job[j] \in JobType /\ "patch" \in Tracked
  BY Zenon DEF LostInv, StoreTypeOK, PersistTypeOK, Tracked
<1>1. job[j] \in PatchJob /\ job[j].kind = "patch" /\ job[j].key \in Keys
  BY <1>0, JobKinds, Zenon DEF PatchTx, Running, PatchJob
<1>2. UNCHANGED epoch /\ PatchUnqueue(job[j]) /\ msgs' = [msgs EXCEPT ![job[j].key] = next]
  BY Zenon DEF PatchTx, switches
<1>3. PICK b : /\ job' = [job EXCEPT ![j] = b]
               /\ b.kind = "patch" /\ b.started = job[j].started /\ b.st = "done"
  <2> DEFINE r == [job[j] EXCEPT !.st = "done", !.res = next]
  <2>1. r.kind = "patch" /\ r.started = job[j].started /\ r.st = "done"
    BY <1>1, Zenon DEF PatchJob
  <2>2. job' = [job EXCEPT ![j] = r]
    BY Zenon DEF PatchTx
  <2> HIDE DEF r
  <2> QED BY <2>1, <2>2, Zenon
<1>4. job'[j] = b /\ \A i \in Jobs : i # j => job'[i] = job[i]
  BY <1>0, <1>3, Zenon DEF PersistTypeOK
<1>5. job[j].kind # "clear" /\ b.kind \notin {"clear", "flush", "move", "load"} /\ b.st # "stale"
      /\ job[j].kind \notin {"flush", "load"}
  BY <1>1, <1>3
<1>6. CallOK(b)'
  <2>1. job[j].started <= epoch
    BY <1>0, <1>1, Zenon DEF LostInv, CallsInv, CallOK
  <2> QED BY <1>2, <1>3, <1>5, <2>1, Zenon DEF CallOK
<1>7. CallsInv'
  BY <1>0, <1>1, <1>2, <1>3, <1>5, <1>6, SlotCalls, Zenon
<1>8. /\ \A i \in Jobs : job[i].kind = "flush" => job'[i] = job[i]
      /\ \A i \in Jobs : job'[i].kind = "clear" => job[i].kind = "clear"
      /\ LoadsStay
  BY <1>4, <1>5, Zenon DEF LoadsStay
<1>9. msgs[job[j].key] # None => next # None
  <2> SUFFICES ASSUME msgs[job[j].key] # None PROVE next # None
    BY Zenon
  <2>1. Current(job[j]) # None
    BY Zenon DEF Current
  <2>2. Patched(Current(job[j]), job[j].upd) \in Message
    BY <1>0, <1>1, <2>1, CurrentType, Zenon
  <2> QED BY <2>1, <2>2, MessageIsSome, Zenon
<1> HIDE DEF next
<1>10. msgs'[job[j].key] = next /\ \A k \in Keys : k # job[j].key => msgs'[k] = msgs[k]
  BY <1>0, <1>1, <1>2, Zenon DEF PersistTypeOK
<1>11. \A k \in Keys : \/ pending'[k] = pending[k]
                       \/ k = job[j].key /\ msgs[k] # None /\ pending'[k] = None
  BY <1>0, <1>1, <1>2, Zenon DEF PatchUnqueue, PersistTypeOK
<1>12. ClearsInv' /\ QueueInv'
  <2>1. OpOf(None) # "del"
    BY DEF OpOf
  <2> QED BY <1>8, <1>11, <2>1, ClearsKept, Zenon DEF LostInv, QueueInv
<1>13. NothingLost'
  BY <1>8, <1>9, <1>10, <1>11, KeptLost, ZenonT(30)
<1> QED BY <1>7, <1>8, <1>12, <1>13, Zenon DEF Survives

\* g holds the entries of f after chat `from' has handed the ones of `moving' on.
Handed(f, g, from, moving, k) ==
    /\ k[1] = from /\ k[2] \in moving => \E l \in Keys : l[2] = k[2] /\ g[l] = f[k]
    /\ k[1] # from => \/ g[k] = f[k]
                      \/ k[2] \in moving /\ g[k] = f[<<from, k[2]>>]
    /\ k[1] = from => g[k] = None

\* Re-keying a chat loses none of the entries that move or stay.
LEMMA RekeyedKeeps ==
    ASSUME NEW f, NEW g, NEW from \in Chats, NEW to \in Chats, from # to, NEW moving \in SUBSET Ids,
           NEW k \in Keys, g = Rekeyed(f, from, to, moving)
    PROVE  Handed(f, g, from, moving, k)
<1>1. k[2] \in Ids /\ k[1] \in Chats /\ k = <<k[1], k[2]>>
  BY DEF Keys
<1>2. ASSUME k[1] = from, k[2] \in moving
      PROVE  \E l \in Keys : l[2] = k[2] /\ g[l] = f[k]
  <2>1. PICK l \in Keys : l[1] = to /\ l[2] = k[2]
    <3>1. <<to, k[2]>> \in Keys /\ <<to, k[2]>>[1] = to /\ <<to, k[2]>>[2] = k[2]
      BY <1>1 DEF Keys
    <3> QED BY <3>1, Zenon
  <2>2. g[l] = f[<<from, l[2]>>]
    BY <1>2, <2>1, Zenon DEF Rekeyed
  <2>3. <<from, l[2]>> = k
    BY <1>1, <1>2, <2>1
  <2> QED BY <2>1, <2>2, <2>3, Zenon
<1>3. k[1] # from => \/ g[k] = f[k]
                     \/ k[2] \in moving /\ g[k] = f[<<from, k[2]>>]
  BY Zenon DEF Rekeyed
<1>4. k[1] = from => g[k] = None
  BY Zenon DEF Rekeyed
<1> QED BY <1>2, <1>3, <1>4, Zenon DEF Handed

\* The rows of a chat move to its other name.
LEMMA MoveTxSurvives ==
    ASSUME LostInv, NEW j \in Jobs, MoveTx(j), UNCHANGED <<heard, removed>>
    PROVE  Survives
<1> DEFINE from == job[j].from
           to == job[j].to
           moving == {i \in Ids : msgs[<<from, i>>] # None}
<1>0. PersistTypeOK /\ job[j] \in JobType
  BY Zenon DEF LostInv, StoreTypeOK, PersistTypeOK
<1>1. job[j].kind = "move" /\ from \in Chats /\ to \in Chats /\ from # to
  <2>1. job[j] \in MoveJob /\ job[j].kind = "move"
    BY <1>0, JobKinds, Zenon DEF MoveTx, Running
  <2> QED BY <2>1, Zenon DEF MoveJob, LostInv, CallsInv, CallOK
<1>2. UNCHANGED <<epoch, pending>> /\ SetJob(j, Idle) /\ msgs' = Rekeyed(msgs, from, to, moving)
  BY Zenon DEF MoveTx, queue, switches
<1>m. moving \in SUBSET Ids /\ \A i \in Ids : i \in moving <=> msgs[<<from, i>>] # None
  OBVIOUS
<1> HIDE DEF from, to, moving
<1>3. job[j].kind \notin {"clear", "flush", "load"}
  BY <1>1
<1>4. /\ CallsInv'
      /\ \A i \in Jobs : i # j /\ job[i].kind # "clear" => job'[i] = job[i]
      /\ \A i \in Jobs : job'[i].kind = "clear" => job[i].kind = "clear"
  BY <1>2, <1>3, ReturnCalls, Zenon
<1>5. /\ \A i \in Jobs : job[i].kind = "flush" => job'[i] = job[i]
      /\ LoadsStay
  BY <1>3, <1>4, Zenon DEF LoadsStay
<1>6. ClearsInv' /\ QueueInv'
  BY <1>2, <1>4, ClearsKept, Zenon DEF LostInv, QueueInv
<1>7. ASSUME NEW k \in Keys, msgs[k] # None
      PROVE  \E l \in Keys : l[2] = k[2] /\ msgs'[l] # None
  <2>0. k[2] \in Ids /\ k = <<k[1], k[2]>>
    BY DEF Keys
  <2>r. Handed(msgs, msgs', from, moving, k)
    BY <1>1, <1>2, <1>m, RekeyedKeeps, Zenon
  <2>1. CASE k[1] = from
    <3>1. k[2] \in moving
      BY <1>7, <1>m, <2>0, <2>1, Zenon
    <3>2. PICK l \in Keys : l[2] = k[2] /\ msgs'[l] = msgs[k]
      BY <2>1, <2>r, <3>1, Zenon DEF Handed
    <3> QED BY <1>7, <3>2, Zenon
  <2>2. CASE k[1] # from
    <3>2. \/ msgs'[k] = msgs[k]
          \/ k[2] \in moving /\ msgs'[k] = msgs[<<from, k[2]>>]
      BY <2>2, <2>r, Zenon DEF Handed
    <3> QED BY <1>7, <1>m, <2>0, <3>2, Zenon
  <2> QED BY <2>1, <2>2, Zenon
<1>8. NothingLost'
  BY <1>2, <1>5, <1>7, KeptLost, Zenon
<1> QED BY <1>4, <1>5, <1>6, <1>8, Zenon DEF Survives

\* A reset has waited for every write: it waits for none when it goes on.
LEMMA ClearSettledSurvives ==
    ASSUME LostInv, NEW j \in Jobs, ClearSettled(j), UNCHANGED <<heard, removed>>
    PROVE  Survives
<1>0. PersistTypeOK /\ job[j] \in JobType
  BY Zenon DEF LostInv, StoreTypeOK, PersistTypeOK
<1>1. job[j] \in ClearJob /\ job[j].kind = "clear" /\ job[j].waits = {}
  BY <1>0, JobKinds, Zenon DEF ClearSettled
<1>2. UNCHANGED <<msgs, epoch, pending>> /\ job' = [job EXCEPT ![j].st = "tx"]
  BY Zenon DEF ClearSettled, disk, queue, switches
<1>3. job'[j].kind = "clear" /\ \A i \in Jobs : i # j => job'[i] = job[i]
  BY <1>0, <1>1, <1>2, Zenon DEF ClearJob, PersistTypeOK
<1>4. "clear" \notin Tracked /\ "clear" \notin {"flush", "move", "load"}
  BY DEF Tracked
<1>5. ASSUME NEW i \in Jobs PROVE CallOK(job[i])' /\ (Outdated(i) => Awaited(i))'
  <2>1. CallOK(job[i])'
    <3>1. CASE i = j
      BY <1>3, <1>4, <3>1 DEF CallOK
    <3>2. CASE i # j
      BY <1>2, <1>3, <3>2, Zenon DEF CallOK, WideEnough, Again, NotAfter, LostInv, CallsInv
    <3> QED BY <3>1, <3>2, Zenon
  <2>2. ASSUME Outdated(i)' PROVE Awaited(i)'
    <3>1. Outdated(i)
      BY <1>2, <1>3, <1>4, <2>2, Zenon DEF Outdated
    <3>2. PICK c \in Jobs : job[c].kind = "clear" /\ job[c].st = "settle" /\ i \in job[c].waits
      BY <3>1, Zenon DEF LostInv, CallsInv, Awaited
    <3>3. c # j
      BY <1>1, <3>2, Zenon
    <3> QED BY <1>3, <3>2, <3>3, Zenon DEF Awaited
  <2> QED BY <2>1, <2>2, Zenon
<1>6. CallsInv'
  BY <1>5, Zenon DEF CallsInv
<1>7. /\ \A i \in Jobs : job[i].kind = "flush" => job'[i].kind = "flush" /\ job'[i].ops = job[i].ops
      /\ \A i \in Jobs : job'[i].kind = "clear" => job[i].kind = "clear"
      /\ LoadsStay
  BY <1>1, <1>3, <1>4 DEF LoadsStay
<1>8. ClearsInv' /\ QueueInv' /\ NothingLost'
  BY <1>2, <1>7, SameLost, Zenon
<1> QED BY <1>6, <1>7, <1>8, Zenon DEF Survives

\* A reset is complete: nothing was accepted while it ran.
LEMMA ClearTxSurvives ==
    ASSUME LostInv, NEW j \in Jobs, ClearTx(j), UNCHANGED <<heard, removed>>
    PROVE  Survives
<1>1. job[j].kind = "clear" /\ job[j].st = "tx" /\ heard = {}
  BY Zenon DEF ClearTx, Running, LostInv, ClearsInv
<1>2. UNCHANGED <<epoch, pending>> /\ SetJob(j, Idle)
  BY Zenon DEF ClearTx, queue, switches
<1>3. /\ CallsInv'
      /\ \A i \in Jobs : i # j /\ job[i].kind # "clear" => job'[i] = job[i]
  BY <1>1, <1>2, ReturnCalls, Zenon
<1>4. LoadsStay
  BY <1>1, <1>3 DEF LoadsStay
<1>5. ClearsInv' /\ QueueInv' /\ NothingLost'
  BY <1>1, <1>2, Zenon DEF ClearsInv, LostInv, QueueInv, NothingLost
<1> QED BY <1>3, <1>4, <1>5, Zenon DEF Survives

\* A write gives up: only after a reset, when nothing counts as accepted.
LEMMA StaleReturnSurvives ==
    ASSUME LostInv, NEW j \in Jobs, StaleReturn(j), UNCHANGED <<heard, removed>>
    PROVE  Survives
<1>0. PersistTypeOK /\ job[j] \in JobType
  BY Zenon DEF LostInv, StoreTypeOK, PersistTypeOK
<1>1. UNCHANGED <<msgs, epoch, pending>> /\ job[j].kind \in Tracked /\ job[j].st = "stale"
  BY Zenon DEF StaleReturn, disk, queue, switches
<1>2. heard = {}
  BY <1>1, HeardIsCurrent, Zenon
<1>3. ClearsInv' /\ QueueInv' /\ NothingLost'
  BY <1>1, <1>2, Zenon DEF ClearsInv, LostInv, QueueInv, NothingLost
<1>4. CASE job[j].kind = "patch"
  <2>1. job[j] \in PatchJob
    BY <1>0, <1>4, JobKinds, Zenon
  <2>2. PICK b : /\ job' = [job EXCEPT ![j] = b]
                 /\ b.kind = "patch" /\ b.started = job[j].started /\ b.st = "done"
    <3> DEFINE r == [job[j] EXCEPT !.st = "done"]
    <3>1. r.kind = "patch" /\ r.started = job[j].started /\ r.st = "done" /\ r # Idle
      BY <2>1, Zenon DEF PatchJob, Idle
    <3>2. job' = [job EXCEPT ![j] = r]
      BY <1>0, <1>4, <3>1, Zenon DEF StaleReturn, SetJob, PersistTypeOK
    <3> HIDE DEF r
    <3> QED BY <3>1, <3>2, Zenon
  <2>3. job'[j] = b /\ \A i \in Jobs : i # j => job'[i] = job[i]
    BY <1>0, <2>2, Zenon DEF PersistTypeOK
  <2>4. job[j].kind # "clear" /\ b.kind \notin {"clear", "flush", "move", "load"} /\ b.st # "stale"
        /\ job[j].kind # "load"
    BY <1>4, <2>2
  <2>5. CallOK(b)'
    <3>1. job[j].started <= epoch
      BY <1>1, Zenon DEF LostInv, CallsInv, CallOK
    <3> QED BY <1>1, <2>2, <2>4, <3>1, Zenon DEF CallOK
  <2>6. CallsInv'
    BY <1>1, <2>2, <2>4, <2>5, SlotCalls, Zenon
  <2>7. LoadsStay
    BY <2>3, <2>4, Zenon DEF LoadsStay
  <2> QED BY <1>3, <2>6, <2>7, Zenon DEF Survives
<1>5. CASE job[j].kind # "patch"
  <2>1. SetJob(j, Idle)
    BY <1>5, Zenon DEF StaleReturn
  <2>2. job[j].kind # "clear" /\ job[j].kind # "load"
    BY <1>1 DEF Tracked
  <2>3. /\ CallsInv'
        /\ \A i \in Jobs : i # j /\ job[i].kind # "clear" => job'[i] = job[i]
    BY <1>1, <2>1, <2>2, ReturnCalls, Zenon
  <2>4. LoadsStay
    BY <2>2, <2>3 DEF LoadsStay
  <2> QED BY <1>3, <2>3, <2>4, Zenon DEF Survives
<1> QED BY <1>4, <1>5, Zenon

\* The database opens: the calls that a reset has overtaken are marked.
LEMMA OpenDbSurvives ==
    ASSUME LostInv, OpenDb, UNCHANGED <<heard, removed>>
    PROVE  Survives
<1>0. PersistTypeOK
  BY Zenon DEF LostInv, StoreTypeOK
<1>1. UNCHANGED <<msgs, epoch, pending>>
  BY Zenon DEF OpenDb, disk, queue
<1>2. ASSUME NEW i \in Jobs
      PROVE  \/ job'[i] = job[i]
             \/ /\ job[i].kind \in Tracked /\ job[i].started # epoch
                /\ job'[i] = [job[i] EXCEPT !.st = "stale"]
  BY Zenon DEF OpenDb
<1>3. ASSUME NEW i \in Jobs, job[i].kind \in Tracked, job'[i] = [job[i] EXCEPT !.st = "stale"]
      PROVE  /\ job'[i].kind = job[i].kind /\ job'[i].started = job[i].started
             /\ job[i].kind = "flush" => job'[i].ops = job[i].ops
             /\ job[i].kind = "move" => job'[i].from = job[i].from /\ job'[i].to = job[i].to
  <2>1. job[i] \in FlushJob \cup PatchJob \cup MoveJob \cup ChatsJob
    BY <1>0, <1>3, JobKinds, Zenon DEF PersistTypeOK, Tracked
  <2>2. CASE job[i] \in FlushJob
    BY <1>3, <2>2 DEF FlushJob
  <2>3. CASE job[i] \in PatchJob
    BY <1>3, <2>3 DEF PatchJob
  <2>4. CASE job[i] \in MoveJob
    BY <1>3, <2>4 DEF MoveJob
  <2>5. CASE job[i] \in ChatsJob
    BY <1>3, <2>5 DEF ChatsJob
  <2> QED BY <2>1, <2>2, <2>3, <2>4, <2>5, Zenon
<1>4. "clear" \notin Tracked /\ "load" \notin Tracked
  BY DEF Tracked
<1>5. /\ \A i \in Jobs : job[i].kind = "flush" => job'[i].kind = "flush" /\ job'[i].ops = job[i].ops
      /\ \A i \in Jobs : job'[i].kind = "clear" => job[i].kind = "clear"
      /\ \A i \in Jobs : job[i].kind = "clear" => job'[i] = job[i]
      /\ LoadsStay
  BY <1>2, <1>3, <1>4, Zenon DEF LoadsStay
<1>6. ASSUME NEW i \in Jobs PROVE CallOK(job[i])' /\ (Outdated(i) => Awaited(i))'
  <2>0. CallOK(job[i]) /\ (Outdated(i) => Awaited(i))
    BY Zenon DEF LostInv, CallsInv
  <2>1. Outdated(i)' => Outdated(i)
    BY <1>1, <1>2, <1>3, Zenon DEF Outdated
  <2>2. Awaited(i) => Awaited(i)'
    BY <1>5, Zenon DEF Awaited
  <2>3. CASE job'[i] = job[i]
    BY <1>1, <2>0, <2>1, <2>2, <2>3, Zenon DEF CallOK, WideEnough, Again, NotAfter
  <2>4. CASE /\ job[i].kind \in Tracked /\ job[i].started # epoch
             /\ job'[i] = [job[i] EXCEPT !.st = "stale"]
    <3>1. /\ job'[i].kind = job[i].kind /\ job'[i].started = job[i].started
          /\ job[i].kind = "move" => job'[i].from = job[i].from /\ job'[i].to = job[i].to
      BY <1>3, <2>4, Zenon
    <3>2. CallOK(job[i])'
      BY <1>1, <1>4, <2>0, <2>4, <3>1, Zenon DEF CallOK
    <3> QED BY <2>0, <2>1, <2>2, <3>2, Zenon
  <2> QED BY <1>2, <2>3, <2>4, Zenon
<1>7. CallsInv'
  BY <1>6, Zenon DEF CallsInv
<1>8. ClearsInv' /\ QueueInv' /\ NothingLost'
  BY <1>1, <1>5, SameLost, Zenon
<1> QED BY <1>5, <1>7, <1>8, Zenon DEF Survives

\* movePersistedChat begins: the queued writes of the chat take its other name.
LEMMA MoveSurvives ==
    ASSUME LostInv, NEW j \in Jobs, NEW from \in Chats, NEW to \in Chats,
           MovePersistedChat(j, from, to), UNCHANGED <<heard, removed>>
    PROVE  Survives
<1> DEFINE moving == {i \in Ids : IsWrite(pending[<<from, i>>])}
<1>0. PersistTypeOK /\ epoch \in Nat
  BY Zenon DEF LostInv, StoreTypeOK, PersistTypeOK
<1>1. /\ from # to /\ pending' = Rekeyed(pending, from, to, moving)
      /\ UNCHANGED <<msgs, epoch>> /\ job[j] = Idle
  BY Zenon DEF MovePersistedChat, Enqueue, disk, switches
<1>m. moving \in SUBSET Ids /\ \A i \in Ids : i \in moving <=> IsWrite(pending[<<from, i>>])
  OBVIOUS
<1> HIDE DEF moving
<1>3. PICK b : /\ job' = [job EXCEPT ![j] = b]
               /\ b.kind = "move" /\ b.st = "tx" /\ b.started = epoch /\ b.from # b.to
  <2> DEFINE next == [kind |-> "move", st |-> "tx", started |-> epoch, from |-> from, to |-> to]
  <2>1. next.kind = "move" /\ next.st = "tx" /\ next.started = epoch /\ next.from # next.to
    BY <1>1
  <2>2. job' = [job EXCEPT ![j] = next]
    BY Zenon DEF MovePersistedChat, Enqueue
  <2> HIDE DEF next
  <2> QED BY <2>1, <2>2, Zenon
<1>4. job'[j] = b /\ \A i \in Jobs : i # j => job'[i] = job[i]
  BY <1>0, <1>3, Zenon DEF PersistTypeOK
<1>5. job[j].kind = "idle" /\ job[j].kind # "clear" /\ b.kind \notin {"clear", "flush", "load"}
      /\ b.st # "stale"
  BY <1>1, <1>3 DEF Idle
<1>6. CallOK(b)'
  <2>1. b.started <= epoch
    BY <1>0, <1>3
  <2> QED BY <1>1, <1>3, <1>5, <2>1, Zenon DEF CallOK
<1>7. CallsInv'
  BY <1>1, <1>3, <1>5, <1>6, SlotCalls, Zenon
<1>8. /\ \A i \in Jobs : job[i].kind = "flush" => job'[i] = job[i]
      /\ \A i \in Jobs : job'[i].kind = "clear" => job[i].kind = "clear"
      /\ LoadsStay
  BY <1>4, <1>5, Zenon DEF LoadsStay
<1>9. ASSUME NEW k \in Keys
      PROVE  /\ IsWrite(pending[k]) => \E l \in Keys : l[2] = k[2] /\ IsWrite(pending'[l])
             /\ OpOf(pending'[k]) = "del" => OpOf(pending[k]) = "del"
  <2>0. k[2] \in Ids /\ k = <<k[1], k[2]>>
    BY DEF Keys
  <2>r. Handed(pending, pending', from, moving, k)
    BY <1>1, <1>m, RekeyedKeeps, Zenon
  <2>n. OpOf(None) # "del" /\ \A p : IsWrite(p) => OpOf(p) # "del"
    BY DEF OpOf, IsWrite
  <2>1. CASE k[1] = from
    <3>1. ASSUME IsWrite(pending[k]) PROVE \E l \in Keys : l[2] = k[2] /\ IsWrite(pending'[l])
      <4>1. k[2] \in moving
        BY <1>m, <2>0, <2>1, <3>1, Zenon
      <4>2. PICK l \in Keys : l[2] = k[2] /\ pending'[l] = pending[k]
        BY <2>1, <2>r, <4>1, Zenon DEF Handed
      <4> QED BY <3>1, <4>2, Zenon
    <3> QED BY <2>1, <2>n, <2>r, <3>1, Zenon DEF Handed
  <2>2. CASE k[1] # from
    <3>2. \/ pending'[k] = pending[k]
          \/ k[2] \in moving /\ pending'[k] = pending[<<from, k[2]>>]
      BY <2>2, <2>r, Zenon DEF Handed
    <3>3. pending'[k] = pending[k] \/ IsWrite(pending'[k])
      BY <1>m, <2>0, <3>2, Zenon
    <3> QED BY <2>n, <3>3, Zenon
  <2> QED BY <2>1, <2>2, Zenon
<1>10. ClearsInv' /\ QueueInv'
  BY <1>8, <1>9, ClearsKept, Zenon DEF LostInv, QueueInv
<1>11. NothingLost'
  BY <1>1, <1>8, <1>9, KeptLost, ZenonT(30)
<1> QED BY <1>7, <1>8, <1>10, <1>11, Zenon DEF Survives

\* Two names of a chat are merged.
LEMMA UnifyKeeps ==
    ASSUME LostInv, NEW j \in Jobs, NEW c \in Chats, UnifyLid(j, c)
    PROVE  LostInv' /\ NoDowngrade /\ LoadsStay
<1> DEFINE to == Pn[c]
           mm == [k \in Keys |-> IF k[1] = c THEN None
                                 ELSE IF k[1] = to /\ mem[k] = None THEN mem[<<c, k[2]>>]
                                 ELSE mem[k]]
<1>0. StoreTypeOK /\ PersistTypeOK /\ to \in Chats
  BY PnAssumption, Zenon DEF LostInv, StoreTypeOK
<1>1. /\ MovePersistedChat(j, c, to) /\ known' = known \cup {c}
      /\ active' = IF active = c THEN to ELSE active
      /\ UNCHANGED <<shown, loadingOlder, heard, removed>>
      /\ \/ mem' = mem /\ exhausted' = exhausted \ {c}
         \/ Commit(mm, exhausted \ {c, to}, to)
  BY Zenon DEF UnifyLid, history
<1>2. Survives
  BY <1>0, <1>1, MoveSurvives, Zenon
<1>3. PersistTypeOK'
  BY <1>0, <1>1, CallType, Zenon DEF Call
<1>4. mm \in [Keys -> Message \cup {None}] /\ Upgrade(mm)
  <2>1. \A k \in Keys : <<c, k[2]>> \in Keys
    BY Zenon DEF Keys
  <2>2. mm \in [Keys -> Message \cup {None}]
    BY <1>0, <2>1, Zenon DEF StoreTypeOK
  <2>3. Upgrade(mm)
    BY Zenon DEF Upgrade
  <2> QED BY <2>2, <2>3, Zenon
<1> HIDE DEF mm, to
<1>5. mem' \in [Keys -> Message \cup {None}] /\ exhausted' \subseteq Chats /\ NoDowngrade
  <2>1. CASE mem' = mem /\ exhausted' = exhausted \ {c}
    BY <1>0, <2>1, Zenon DEF StoreTypeOK, NoDowngrade
  <2>2. CASE Commit(mm, exhausted \ {c, to}, to)
    <3>1. exhausted \ {c, to} \in SUBSET Chats
      BY <1>0, Zenon DEF StoreTypeOK
    <3> QED BY <1>4, <2>2, <3>1, Committed, Zenon
  <2> QED BY <1>1, <2>1, <2>2, Zenon
<1>6. StoreTypeOK'
  BY <1>0, <1>1, <1>3, <1>5, Zenon DEF StoreTypeOK
<1> QED BY <1>2, <1>5, <1>6, Zenon DEF LostInv, Survives

\* Every step of persist.ts by itself.
LEMMA StepSurvives ==
    ASSUME LostInv, NEW j \in Jobs, Step(j), UNCHANGED <<heard, removed>>
    PROVE  Survives
<1>1. CASE FlushTimer(j)
  BY <1>1, FlushBegins, Zenon DEF FlushTimer, Survives
<1>2. CASE ChatsTx(j)
  BY <1>2, ReturnSurvives, Zenon DEF ChatsTx, Running, queue, switches
<1>3. CASE AccountTx(j)
  BY <1>3, ReturnSurvives, Zenon DEF AccountTx, Running, queue, switches
<1>4. CASE PatchReturn(j)
  BY <1>4, ReturnSurvives, Zenon DEF PatchReturn, disk, queue, switches
<1> QED BY <1>1, <1>2, <1>3, <1>4, FlushTxSurvives, FlushResumeSurvives, FlushChatsSurvives,
           PatchTxSurvives, MoveTxSurvives, ClearSettledSurvives, ClearTxSurvives,
           StaleReturnSurvives, Zenon DEF Step

\* Such a step leaves the window alone.
LEMMA PersistKeeps ==
    ASSUME LostInv, OpenDb \/ \E j \in Jobs : Step(j), UNCHANGED <<window, ui, known, history>>
    PROVE  LostInv' /\ NoDowngrade /\ LoadsStay
<1>0. UNCHANGED <<mem, exhausted, loadingOlder, active, shown, known, heard, removed>>
  BY Zenon DEF window, ui, history
<1>1. PersistTypeOK'
  BY StepType, OpenDbType, Zenon DEF LostInv, StoreTypeOK
<1>2. Survives
  BY <1>0, StepSurvives, OpenDbSurvives, Zenon
<1>3. StoreTypeOK' /\ NoDowngrade
  BY <1>0, <1>1, Zenon DEF LostInv, StoreTypeOK, NoDowngrade
<1> QED BY <1>2, <1>3, Zenon DEF LostInv, Survives

\* A change of a message that is not resident goes to persist.ts.
LEMMA PatchedKeeps ==
    ASSUME LostInv, NEW j \in Jobs, NEW k \in Keys, NEW u \in Updates, PatchPersistedMessage(j, k, u),
           UNCHANGED <<mem, exhausted, loadingOlder, heard>>, Quiet
    PROVE  LostInv' /\ NoDowngrade /\ LoadsStay
<1>1. UNCHANGED <<active, shown, known, removed>>
  BY Zenon DEF Quiet, ui
<1>2. CallsInv' /\ ClearsInv' /\ QueueInv' /\ NothingLost' /\ LoadsStay
  BY <1>1, PatchKeeps, Zenon
<1>3. PersistTypeOK'
  BY CallType, Zenon DEF LostInv, StoreTypeOK, Call
<1>4. StoreTypeOK' /\ NoDowngrade
  BY <1>1, <1>3, Zenon DEF LostInv, StoreTypeOK, NoDowngrade
<1> QED BY <1>2, <1>4, Zenon DEF LostInv

\* A change to one message, resident or not.
LEMMA ChangeKeeps ==
    ASSUME LostInv, Change
    PROVE  LostInv' /\ NoDowngrade /\ LoadsStay
<1>1. PICK c \in Chats, i \in Ids :
         \/ \E j \in Jobs : \/ ApplyRevoke(j, c, i)
                            \/ \E u \in Updates : UpdateMessage(j, c, i, u)
         \/ RemoveMessage(c, i)
  BY CanonicalKey, Zenon DEF Change
<1>2. PICK k \in Keys : k = <<c, i>> /\ k[1] = c
  <2>1. <<c, i>> \in Keys /\ <<c, i>>[1] = c
    BY Zenon DEF Keys
  <2> QED BY <2>1, Zenon
<1>3. ASSUME StoreTypeOK', FrontStep PROVE LostInv'
  BY <1>3, FrontKeeps, Zenon DEF LostInv
<1>4. ASSUME NEW j \in Jobs, ApplyRevoke(j, c, i) PROVE LostInv' /\ NoDowngrade /\ LoadsStay
  <2>1. CASE mem[k] # None
    <3>1. StoreTypeOK' /\ FrontStep /\ NoDowngrade /\ LoadsStay
      <4>1. /\ Revoke \in Updates /\ Commit([mem EXCEPT ![k] = Patched(@, Revoke)], exhausted, k[1])
            /\ PersistMessage(k, Patched(mem[k], Revoke))
            /\ UNCHANGED <<calls, loadingOlder, heard>> /\ Quiet
        BY <1>2, <1>4, <2>1, Zenon DEF ApplyRevoke
      <4> QED BY <2>1, <4>1, UpdateFront, Zenon
    <3> QED BY <1>3, <3>1, Zenon
  <2>2. CASE mem[k] = None
    BY <1>2, <1>4, <2>2, PatchedKeeps, Zenon DEF ApplyRevoke
  <2> QED BY <2>1, <2>2, Zenon
<1>5. ASSUME NEW j \in Jobs, NEW u \in Updates, UpdateMessage(j, c, i, u)
      PROVE  LostInv' /\ NoDowngrade /\ LoadsStay
  <2>1. CASE mem[k] # None
    <3>1. StoreTypeOK' /\ FrontStep /\ NoDowngrade /\ LoadsStay
      <4>1. /\ mem' = [mem EXCEPT ![k] = Patched(@, u)] /\ UNCHANGED exhausted
            /\ PersistMessage(k, Patched(mem[k], u))
            /\ UNCHANGED <<calls, loadingOlder, heard>> /\ Quiet
        BY <1>2, <1>5, <2>1, Zenon DEF UpdateMessage
      <4> QED BY <2>1, <4>1, UpdateFront, Zenon
    <3> QED BY <1>3, <3>1, Zenon
  <2>2. CASE mem[k] = None
    BY <1>2, <1>5, <2>2, PatchedKeeps, Zenon DEF UpdateMessage
  <2> QED BY <2>1, <2>2, Zenon
<1> QED BY <1>1, <1>4, <1>5, RemoveKeeps, Zenon

----------------------------------------------------------------------------
(* The theorems *)

\* What the answer to a read does: it is the only way a read ends.
ReadAnswered ==
    \E j \in Jobs :
       /\ \A i \in Jobs \ {j} : job[i].kind = "load" => job'[i].kind = "load"
       /\ \A c \in Chats : c = job[j].chat /\ active = c /\ Resident(c) = job[j].had
             => c \in exhausted' \/ Resident(c)' # Resident(c)

\* A step of the stores that satisfies FrontStep keeps the whole invariant.
LEMMA FrontIsKept == LostInv /\ StoreTypeOK' /\ FrontStep => LostInv'
BY FrontKeeps, Zenon DEF LostInv

\* Every step keeps the invariant, downgrades nothing, and ends no read without
\* progress.
LEMMA StoreKeeps ==
    ASSUME LostInv, StoreNext
    PROVE  LostInv' /\ NoDowngrade /\ (LoadsStay \/ ReadAnswered)
<1>1. CASE Deliver
  <2>1. PICK j \in Jobs, c \in Chats, i \in Ids, m \in Message :
           AddDuplicate(c, i, m) \/ AddNew(j, c, i, m)
    <3>1. PICK j \in Jobs, d \in Chats, i \in Ids, m \in Delivered :
             AddDuplicate(canonicalJid(d), i, m) \/ AddNew(j, canonicalJid(d), i, m)
      BY <1>1, Zenon DEF Deliver
    <3>2. canonicalJid(d) \in Chats /\ m \in Message
      BY <3>1, CanonicalKey, DeliveredType, Zenon DEF LostInv
    <3> QED BY <3>1, <3>2, Zenon
  <2> QED BY <2>1, AddDuplicateFront, AddNewFront, FrontIsKept, Zenon
<1>2. CASE DeliverHistory
  <2>1. PICK d \in Chats : \E batch, flagged \in SUBSET Ids : AddHistory(canonicalJid(d), batch, flagged)
    BY <1>2, Zenon DEF DeliverHistory
  <2>2. PICK batch \in SUBSET Ids, flagged \in SUBSET Ids : AddHistory(canonicalJid(d), batch, flagged)
    BY <2>1, Zenon
  <2>3. canonicalJid(d) \in Chats
    BY PnAssumption, Zenon DEF canonicalJid
  <2> QED BY <2>2, <2>3, AddHistoryFront, FrontIsKept, Zenon
<1>3. CASE Change
  BY <1>3, ChangeKeeps, Zenon
<1>4. CASE User
  BY <1>4, IdleFront, LoadOlderFront, SyncFlagsFront, TrimChatFront, FrontIsKept, Zenon DEF User
<1>5. CASE Boot
  BY <1>5, IdleFront, FrontIsKept, Zenon
<1>6. CASE Unify
  BY <1>6, IdleFront, UnifyKeeps, FrontIsKept, Zenon DEF Unify
<1>7. CASE Reset
  BY <1>7, ResetKeeps, Zenon DEF Reset
<1>8. CASE StoreStep
  <2>1. ASSUME NEW j \in Jobs, AdoptStored(j) \/ RevokeUnseen(j) \/ ShowChat(j)
        PROVE  LostInv' /\ NoDowngrade /\ LoadsStay
    BY <2>1, AdoptStoredFront, RevokeUnseenFront, ShowChatFront, FrontIsKept, Zenon
  <2>2. ASSUME NEW j \in Jobs, LoadTx(j)
        PROVE  LostInv' /\ NoDowngrade /\ ReadAnswered
    BY <2>2, LoadTxFront, FrontIsKept, Zenon DEF ReadAnswered
  <2> QED BY <1>8, <2>1, <2>2, PersistKeeps, Zenon DEF StoreStep
<1> QED BY <1>1, <1>2, <1>3, <1>4, <1>5, <1>6, <1>7, <1>8, Zenon DEF StoreNext

\* Nothing changes when no variable does.
LEMMA StoreStutters == LostInv /\ UNCHANGED storeVars => LostInv'
<1> SUFFICES ASSUME LostInv, UNCHANGED storeVars PROVE LostInv'
  BY Zenon
<1>1. UNCHANGED <<msgs, chatRow, account, wiped, pending, msgTimer, job, txq, enabled, open, epoch,
                  chatsTimer, mem, exhausted, loadingOlder, active, shown, known, heard, removed>>
  BY Zenon DEF storeVars, persistVars, disk, queue, calls, switches, window, ui, history
<1>2. StoreTypeOK'
  BY <1>1, Zenon DEF LostInv, StoreTypeOK, PersistTypeOK
<1>3. ReadsOnly
  BY <1>1, CallsStay, Zenon DEF calls
<1>4. FrontStep
  BY <1>1, <1>3, QueueStays, Zenon DEF FrontStep, LostInv, StoreTypeOK, queue
<1> QED BY <1>2, <1>4, FrontIsKept, Zenon

\* The stores start empty.
LEMMA StoreStarts == StoreInit => LostInv
<1> SUFFICES ASSUME StoreInit PROVE LostInv
  BY Zenon
<1>0. PersistInit /\ heard = {} /\ \A j \in Jobs : job[j] = Idle
  BY Zenon DEF StoreInit, PersistInit
<1>1. StoreTypeOK
  BY <1>0, InitType, Zenon DEF StoreInit, StoreTypeOK
<1>2. \A j \in Jobs : job[j].kind = "idle"
  BY <1>0 DEF Idle
<1>3. CallsInv /\ ClearsInv /\ NothingLost
  BY <1>0, <1>2 DEF CallsInv, ClearsInv, NothingLost, CallOK, Outdated, Tracked
<1>4. QueueInv
  BY <1>0 DEF PersistInit, QueueInv, NoOps, OpOf
<1> QED BY <1>1, <1>3, <1>4, Zenon DEF LostInv

\* The invariant holds throughout.
THEOREM StoreInvariant == StoreSpec => []LostInv
<1>1. LostInv /\ [StoreNext]_storeVars => LostInv'
  BY StoreKeeps, StoreStutters, Zenon
<1> QED BY <1>1, StoreStarts, PTL DEF StoreSpec

\* Well-typedness of the stores and the cache under them, for any chats and messages.
THEOREM StoreTypes == StoreSpec => []StoreTypeOK
<1>1. LostInv => StoreTypeOK
  BY Zenon DEF LostInv
<1> QED BY <1>1, StoreInvariant, PTL

\* No message that was accepted and not deleted is ever lost by trimming, merging,
\* patching, flushing in slices or opening the database late (persist.ts:14).
THEOREM NothingLostTheorem == StoreSpec => []NothingLost
<1>1. LostInv => NothingLost
  BY Zenon DEF LostInv
<1> QED BY <1>1, StoreInvariant, PTL

\* No redelivery, page, merge or late answer takes an update away from a message
\* that stays on screen.
THEOREM NeverDowngradedTheorem == StoreSpec => ResidentNeverDowngraded
<1>1. LostInv /\ [StoreNext]_storeVars =>
         [\A k \in Keys : mem[k] # None /\ mem'[k] # None => mem[k].upd \subseteq mem'[k].upd]_storeVars
  BY StoreKeeps, Zenon DEF NoDowngrade
<1> QED BY <1>1, StoreInvariant, PTL DEF StoreSpec, ResidentNeverDowngraded

\* A read of the open chat that finds the window as it was adds a message or learns
\* that nothing is older, however many messages share a second.
THEOREM ProgressTheorem == StoreSpec => LoadMakesProgress
<1>1. LostInv /\ [StoreNext]_storeVars =>
         [\A j \in Jobs, c \in Chats :
            /\ job[j].kind = "load" /\ job'[j] = Idle
            /\ job[j].chat = c /\ active = c /\ Resident(c) = job[j].had
            => c \in exhausted' \/ Resident(c)' # Resident(c)]_storeVars
  <2> SUFFICES ASSUME LostInv, StoreNext, NEW j \in Jobs, NEW c \in Chats,
                      job[j].kind = "load", job'[j] = Idle,
                      job[j].chat = c, active = c, Resident(c) = job[j].had
               PROVE  c \in exhausted' \/ Resident(c)' # Resident(c)
    BY Zenon
  <2>1. job'[j].kind # "load"
    BY DEF Idle
  <2>2. ReadAnswered
    BY <2>1, StoreKeeps, Zenon DEF LoadsStay
  <2>3. PICK i \in Jobs :
           /\ \A h \in Jobs \ {i} : job[h].kind = "load" => job'[h].kind = "load"
           /\ \A d \in Chats : d = job[i].chat /\ active = d /\ Resident(d) = job[i].had
                 => d \in exhausted' \/ Resident(d)' # Resident(d)
    BY <2>2, Zenon DEF ReadAnswered
  <2>4. i = j
    BY <2>1, <2>3, Zenon
  <2> QED BY <2>3, <2>4, Zenon
<1> QED BY <1>1, StoreInvariant, PTL DEF StoreSpec, LoadMakesProgress

\* A step of the store leaves the queue alone, or schedules what it queues, or is
\* a step of persist.ts.
LEMMA StoreTimerStep ==
    ASSUME StoreTypeOK, StoreTypeOK', QueuedWritesHaveTimer, [StoreNext]_storeVars
    PROVE  QueuedWritesHaveTimer'
<1>1. PersistTypeOK /\ PersistTypeOK'
  BY Zenon DEF StoreTypeOK
<1>2. ASSUME enabled' = enabled, UNCHANGED queue \/ ScheduleFlushMessages
      PROVE  QueuedWritesHaveTimer'
  BY <1>1, <1>2, ScheduleKeeps, Zenon DEF queue, QueuedWritesHaveTimer
<1>3. ASSUME Call \/ OpenDb \/ \E j \in Jobs : Step(j) PROVE QueuedWritesHaveTimer'
  BY <1>1, <1>3, TimerStep, Zenon DEF PersistNext
<1>4. ASSUME Quiet, UNCHANGED queue \/ ScheduleFlushMessages PROVE QueuedWritesHaveTimer'
  BY <1>2, <1>4, Zenon DEF Quiet, switches
<1>5. ASSUME NEW k, NEW m,
             PersistMessage(k, m) \/ PersistMessageInsert(k, m) \/ PersistMessageDelete(k)
      PROVE  UNCHANGED queue \/ ScheduleFlushMessages
  BY <1>5, Zenon DEF PersistMessage, PersistMessageInsert, PersistMessageDelete
<1>6. ASSUME NEW ks, NEW mm, PersistAll(ks, mm) PROVE ScheduleFlushMessages
  BY <1>6, Zenon DEF PersistAll
<1>7. ASSUME NEW j \in Jobs, NEW c \in Chats, NEW i \in Ids, NEW u \in Updates,
             PatchPersistedMessage(j, <<c, i>>, u)
      PROVE  QueuedWritesHaveTimer'
  <2>1. <<c, i>> \in Keys
    BY Zenon DEF Keys
  <2> QED
    BY <1>3, <1>7, <2>1, Zenon DEF Call
<1>8. \A c \in Chats : canonicalJid(c) \in Chats
  BY PnAssumption, Zenon DEF canonicalJid
<1>9. CASE Deliver
  <2>1. ASSUME NEW c, NEW i, NEW m, AddDuplicate(c, i, m) PROVE QueuedWritesHaveTimer'
    BY <1>4, <1>5, <2>1, Zenon DEF AddDuplicate
  <2>2. ASSUME NEW j, NEW c, NEW i, NEW m, AddNew(j, c, i, m) PROVE QueuedWritesHaveTimer'
    <3>1. Quiet /\ \E x : PersistMessage(<<c, i>>, x) \/ PersistMessageInsert(<<c, i>>, x)
      BY <2>2, Zenon DEF AddNew
    <3> QED
      BY <1>4, <1>5, <3>1, Zenon
  <2> QED
    BY <1>9, <2>1, <2>2, Zenon DEF Deliver
<1>10. CASE DeliverHistory
  BY <1>4, <1>6, <1>10, Zenon DEF DeliverHistory, AddHistory
<1>11. CASE Change
  <2>1. ASSUME NEW c \in Chats, NEW i \in Ids, NEW j \in Jobs, NEW u \in Updates, UpdateMessage(j, c, i, u)
        PROVE  QueuedWritesHaveTimer'
    BY <1>4, <1>5, <1>7, <2>1, Zenon DEF UpdateMessage
  <2>2. ASSUME NEW c \in Chats, NEW i \in Ids, NEW j \in Jobs, ApplyRevoke(j, c, i)
        PROVE  QueuedWritesHaveTimer'
    BY <1>4, <1>5, <1>7, <2>2, Zenon DEF ApplyRevoke
  <2>3. ASSUME NEW c \in Chats, NEW i \in Ids, RemoveMessage(c, i)
        PROVE  QueuedWritesHaveTimer'
    BY <1>2, <1>5, <2>3, Zenon DEF RemoveMessage, switches
  <2> QED
    BY <1>8, <1>11, <2>1, <2>2, <2>3, Zenon DEF Change
<1>12. CASE User
  <2>1. CASE \E c \in Chats \cup {None} : SelectChat(c)
    BY <1>2, <2>1, Zenon DEF SelectChat, persistVars, switches
  <2>2. CASE TrimChat \/ \E j \in Jobs : LoadOlder(j)
    BY <1>4, <2>2, Zenon DEF TrimChat, LoadOlder
  <2>3. CASE \E c \in Chats, flagged \in SUBSET Ids : SyncFlags(c, flagged)
    BY <1>4, <1>6, <2>3, Zenon DEF SyncFlags
  <2> QED
    BY <1>12, <2>1, <2>2, <2>3, Zenon DEF User
<1>13. CASE Boot
  BY <1>3, <1>13, Zenon DEF Boot, Call
<1>14. CASE Unify
  <2>1. CASE \E c \in Chats : LearnLid(c)
    BY <1>2, <2>1, Zenon DEF LearnLid, persistVars, switches
  <2>2. ASSUME NEW c \in Chats, NEW j \in Jobs, UnifyLid(j, c) PROVE QueuedWritesHaveTimer'
    <3>1. MovePersistedChat(j, c, Pn[c]) /\ Pn[c] \in Chats
      BY <2>2, PnAssumption, Zenon DEF UnifyLid
    <3> QED
      BY <1>3, <3>1, Zenon DEF Call
  <2> QED
    BY <1>14, <2>1, <2>2, Zenon DEF Unify
<1>15. CASE Reset
  BY <1>3, <1>15, Zenon DEF Reset, ResetAll, Call
<1>16. CASE StoreStep
  <2>1. ASSUME NEW j \in Jobs, AdoptStored(j) \/ RevokeUnseen(j) \/ LoadTx(j)
        PROVE  QueuedWritesHaveTimer'
    BY <1>4, <1>5, <1>6, <2>1, Zenon DEF AdoptStored, RevokeUnseen, LoadTx
  <2>2. ASSUME NEW j \in Jobs, ShowChat(j) PROVE QueuedWritesHaveTimer'
    <3>1. UNCHANGED switches /\ (UNCHANGED queue \/ ScheduleFlushMessages)
      BY <1>6, <2>2, Zenon DEF ShowChat, OpenChat
    <3> QED
      BY <1>2, <3>1, Zenon DEF switches
  <2> QED
    BY <1>3, <1>16, <2>1, <2>2, Zenon DEF StoreStep
<1>17. CASE UNCHANGED storeVars
  BY <1>2, <1>17, Zenon DEF storeVars, persistVars, switches
<1> QED
  BY <1>9, <1>10, <1>11, <1>12, <1>13, <1>14, <1>15, <1>16, <1>17, Zenon DEF StoreNext

\* No write is stranded when the message store drives the cache either: whatever
\* the store queues, from a delivery to a late answer of the database, has an armed
\* timer behind it while persistence is on (messages.svelte.ts over persist.ts).
THEOREM StoreTimerTheorem == StoreSpec => []QueuedWritesHaveTimer
<1>1. StoreInit => QueuedWritesHaveTimer
  BY Zenon DEF StoreInit, PersistInit, QueuedWritesHaveTimer
<1>2. StoreTypeOK /\ StoreTypeOK' /\ QueuedWritesHaveTimer /\ [StoreNext]_storeVars
         => QueuedWritesHaveTimer'
  BY StoreTimerStep, Zenon
<1> QED
  BY <1>1, <1>2, StoreTypes, PTL DEF StoreSpec

============================================================================
