--------------------------- MODULE PreKeysProofs ---------------------------
(***************************************************************************)
(* Proofs about the saver of the device row (DeviceSaver) and about the    *)
(* one-time prekeys that are kept with it (PreKeys), for every id range,   *)
(* batch size and number of failures and crashes.                          *)
(***************************************************************************)
EXTENDS PreKeys, TLAPS

----------------------------------------------------------------------------
(* The saver: no modification of the device is forgotten *)

InFlight == {s \in Savers : saving[s].at = "write"}

\* What a task is about to write is the device as of some edit.
SnapshotsDated ==
    \A s \in InFlight : /\ saving[s].edit <= edits
                        /\ saving[s].edit = edits => saving[s].value = device

\* The row is as new as any write unless an older one landed last.
RowDated ==
    /\ newest <= edits
    /\ newest = edits => disk = device \/ late

\* The last edit is flagged, taken, in flight, or was written.
EditTracked ==
    \/ dirty \/ newest = edits
    \/ \E s \in Savers : saving[s].at = "read"
    \/ \E s \in InFlight : saving[s].edit = edits

SaverInv == SaverTypeOK /\ SnapshotsDated /\ RowDated /\ EditTracked

\* A fresh process has nothing to save.
LEMMA SaverInitInv == SaverInit => SaverInv
<1> SUFFICES ASSUME SaverInit PROVE SaverInv
  BY Zenon
<1>1. Idle \in [at: Stages, value: Devices, edit: Nat]
  BY SaverAssumption, Zenon DEF Idle, Stages
<1>2. SaverTypeOK
  BY <1>1, SaverAssumption, Zenon DEF SaverInit, SaverTypeOK
<1>3. SnapshotsDated
  BY Zenon DEF SaverInit, SnapshotsDated, InFlight, Idle
<1>4. RowDated /\ EditTracked
  BY SaverAssumption DEF SaverInit, RowDated, EditTracked
<1> QED
  BY <1>2, <1>3, <1>4, Zenon DEF SaverInv

\* modify_device, the three steps of save_to_disk, its failure, and a
\* restart keep the four facts.
LEMMA SaverStepInv == SaverInv /\ [SaverNext]_saverVars => SaverInv'
<1> SUFFICES ASSUME SaverInv, [SaverNext]_saverVars PROVE SaverInv'
  BY Zenon
<1> USE SaverAssumption DEF SaverInv, SaverTypeOK, SnapshotsDated, RowDated,
        EditTracked, InFlight, Stages, Savers
<1>1. ASSUME NEW d \in Devices, modify_device(d) PROVE SaverInv'
  BY <1>1 DEF modify_device
<1>2. ASSUME NEW s \in Savers, TakeFlag(s) PROVE SaverInv'
  BY <1>2, Zenon DEF TakeFlag, At
<1>3. ASSUME NEW s \in Savers, NotDirty(s) PROVE SaverInv'
  BY <1>3, Zenon DEF NotDirty, At
<1>4. ASSUME NEW s \in Savers, Serialize(s) PROVE SaverInv'
  BY <1>4 DEF Serialize
<1>5. ASSUME NEW s \in Savers, Save(s) PROVE SaverInv'
  <2> USE <1>5 DEF Save, At
  <2>1. SaverTypeOK'
    OBVIOUS
  <2>2. SnapshotsDated'
    BY Zenon
  <2>3. RowDated'
    BY Zenon
  <2>4. EditTracked'
    OBVIOUS
  <2> QED
    BY <2>1, <2>2, <2>3, <2>4, Zenon
<1>6. ASSUME NEW s \in Savers, SaveFails(s) PROVE SaverInv'
  BY <1>6 DEF SaveFails, At
<1>7. CASE EndIteration
  BY <1>7 DEF EndIteration, Idle
<1>8. ASSUME NEW s \in Savers, FlushReturns(s) PROVE SaverInv'
  BY <1>8, Zenon DEF FlushReturns, Idle
<1>9. CASE IdleTick
  BY <1>9, Zenon DEF IdleTick
<1>10. CASE Restart
  <2>1. Idle \in [at: Stages, value: Devices, edit: Nat]
    BY Zenon DEF Idle
  <2>2. SaverTypeOK'
    BY <1>10, <2>1, Zenon DEF Restart
  <2>3. SnapshotsDated'
    BY <1>10, Zenon DEF Restart, Idle
  <2>4. RowDated' /\ EditTracked'
    BY <1>10 DEF Restart
  <2> QED
    BY <2>2, <2>3, <2>4, Zenon
<1>11. CASE UNCHANGED saverVars
  BY <1>11, Zenon DEF saverVars
<1> QED
  BY <1>1, <1>2, <1>3, <1>4, <1>5, <1>6, <1>7, <1>8, <1>9, <1>10, <1>11, Zenon
     DEF SaverNext, BackgroundStep, SaveStep

\* The four facts are inductive.
THEOREM SaverInvariant == SaverSpec => []SaverInv
BY SaverInitInv, SaverStepInv, PTL DEF SaverSpec

\* What is serialised or written is the device of some moment.
LEMMA SaverMoves ==
    ASSUME SaverTypeOK, [SaverNext]_saverVars
    PROVE  /\ disk' = disk \/ \E s \in Savers : disk' = saving[s].value
           /\ \A s \in Savers :
                 saving'[s].value \in {saving[s].value, device, InitialDevice}
<1> USE DEF SaverTypeOK, Savers
<1>1. ASSUME NEW d \in Devices, modify_device(d)
      PROVE  disk' = disk /\ saving' = saving
  BY <1>1, Zenon DEF modify_device
<1>2. ASSUME NEW s \in Savers,
             TakeFlag(s) \/ NotDirty(s) \/ Serialize(s) \/ SaveFails(s) \/ FlushReturns(s)
      PROVE  /\ disk' = disk
             /\ \A t \in Savers :
                   saving'[t].value \in {saving[t].value, device, InitialDevice}
  BY <1>2 DEF TakeFlag, NotDirty, Serialize, SaveFails, FlushReturns, At, Idle
<1>3. ASSUME NEW s \in Savers, Save(s)
      PROVE  /\ disk' = saving[s].value
             /\ \A t \in Savers : saving'[t].value = saving[t].value
  BY <1>3, Zenon DEF Save, At
<1>4. CASE EndIteration \/ IdleTick \/ Restart \/ UNCHANGED saverVars
  BY <1>4 DEF EndIteration, IdleTick, Restart, saverVars, Idle
<1> QED
  BY <1>1, <1>2, <1>3, <1>4, Zenon DEF SaverNext, BackgroundStep, SaveStep

\* SavedOrPending for every set of tasks and of device values.
THEOREM SavedOrPendingTheorem == SaverSpec => []SavedOrPending
<1>1. SaverInv => SavedOrPending
  BY Zenon DEF SaverInv, SnapshotsDated, RowDated, EditTracked, InFlight, SavedOrPending
<1> QED
  BY <1>1, SaverInvariant, PTL

----------------------------------------------------------------------------
(* The prekeys *)

\* The pass is between its plan and the watermarks, or past them.
Planned == pc \in {"generate", "mark"}
Marked == pc \in {"flush", "window", "abandon"}
Given == pc \in {"flush2", "send", "done"}
Target == IF op = "single" THEN 1 ELSE Wanted

HistoryTyped ==
    /\ sent \subseteq Keys /\ ahead \subseteq Keys
    /\ \A k \in rows \cup pool \cup given \cup used \cup sent :
          1 <= k[2] /\ k[2] <= passes
    /\ \A i \in Ids : store[i] <= passes

\* FIRST <= NEXT in memory, on disk and in every write in flight.
Ordered(d) == d.first <= d.next
AllOrdered ==
    /\ Ordered(device) /\ Ordered(disk)
    /\ \A s \in Savers : Ordered(saving[s].value)

\* The plan in use covers a window of stored and fresh keys that continues
\* the one of the watermarks.
PlanShape ==
    /\ Planned \/ Marked \/ Given =>
          /\ op # "none" /\ 1 <= plan.window /\ plan.window + Target <= plan.next
          /\ plan.gen > 0 =>
                /\ plan.window <= plan.start /\ plan.start < plan.window + Target
                /\ plan.next = plan.start + plan.gen
    /\ Planned =>
          /\ plan.gen = 0 => plan.window = device.first /\ plan.next = device.next
          /\ plan.gen > 0 => \/ plan.window = plan.start
                             \/ /\ plan.window = device.first
                                /\ plan.start = device.next
    /\ Marked => device.first = plan.window /\ device.next = plan.next
    /\ Given => device.next = plan.next /\ \A k \in rows : k[1] < device.first
    /\ pc \in {"mark", "flush"} /\ op = "single" => plan.gen > 0
    /\ pc \in {"window", "abandon", "flush2", "send", "done"} => op # "single"

\* Keys that were handed out lie below NEXT, or may be overwritten.
Live == (pool \cup given) \ (recycled \cup unmarked)
LiveBelowNext ==
    /\ \A k \in Live : k[1] < device.next
    /\ Planned /\ plan.gen > 0 => \A k \in Live : k[1] < plan.start

\* Fresh keys are stored and nobody has them yet.
FreshUnknown ==
    pc \in {"mark", "flush", "window"} =>
        /\ \A i \in Ids : i \in Fresh => store[i] = passes
        /\ plan.gen > 0 => passes > 0
        /\ plan.gen > 0 => \A k \in pool \cup given \cup used \cup sent : k[2] < passes

\* The loaded rows are below NEXT and stored, unless used since.
RowsStored ==
    /\ \A k \in rows : store[k[1]] = k[2] \/ k \in used
    /\ rows # {} => pc \in {"abandon", "flush2", "send", "done"}
    /\ \A k \in rows : plan.window <= k[1] /\ k[1] < device.next

\* A key that was sent is not in the window again.
SentOutside ==
    /\ \A k \in sent \ ahead : store[k[1]] = k[2] =>
          k[1] < device.first \/ k[1] >= device.next
    /\ pc \in {"abandon", "flush2", "send"} => \A k \in rows : k \in sent => k \in ahead

\* A rerun has a collapsed window before it and generates.
RerunGenerates ==
    /\ pc = "plan" /\ ~rerun => device.first = device.next /\ op # "single"
    /\ pc \in {"plan", "generate", "mark", "flush", "window"} => op # "none"
    /\ (Planned \/ pc \in {"flush", "window"}) /\ ~rerun => plan.gen > 0

IInv ==
    /\ SaverInv /\ PreKeysTypeOK /\ HistoryTyped /\ AllOrdered /\ PlanShape /\ LiveBelowNext
    /\ FreshUnknown /\ RowsStored /\ OfferedKeyIsStored /\ UsedStaysDeleted
    /\ SentOutside /\ SentOnce /\ RerunGenerates

----------------------------------------------------------------------------
(* The watermark arithmetic *)

\* The id after the last one, or 1 after 2^24 - 1.
LEMMA StartId ==
    ASSUME NEW next \in 0..MAX_PREKEY_ID + 1, NEW stored \in 0..MAX_PREKEY_ID
    PROVE  LET raw == IF next > 0 /\ next > stored THEN next ELSE stored + 1
           IN  start_prekey_id(next, stored) =
                  IF raw > MAX_PREKEY_ID THEN 1 ELSE raw
<1> DEFINE raw == IF next > 0 /\ next > stored THEN next ELSE stored + 1
<1>1. raw \in 1..MAX_PREKEY_ID + 1 /\ MAX_PREKEY_ID \in Nat \ {0}
  BY PreKeysAssumption
<1>2. (raw - 1) % MAX_PREKEY_ID = IF raw > MAX_PREKEY_ID THEN 0 ELSE raw - 1
  BY <1>1
<1> QED
  BY <1>1, <1>2 DEF start_prekey_id

\* A plan lies in the id range, its window holds "wanted" ids that end at the
\* new NEXT, and it generates from NEXT on unless the ids start over.
LEMMA PlanFacts ==
    ASSUME NEW first \in 0..MAX_PREKEY_ID + 1, NEW next \in 0..MAX_PREKEY_ID + 1,
           NEW stored \in 0..MAX_PREKEY_ID, NEW wanted \in 1..Wanted,
           first <= next
    PROVE  LET p == plan_prekey_upload(first, next, stored, wanted)
           IN  /\ p \in Plans
               /\ 1 <= p.window /\ p.window + wanted <= p.next
               /\ p.gen > 0 =>
                     /\ p.window <= p.start /\ p.start < p.window + wanted
                     /\ p.next = p.start + p.gen
                     /\ \/ p.window = p.start
                        \/ p.window = first /\ p.start = next
                     /\ \/ p.start >= next
                        \/ p.start = 1 /\ (next > 1 \/ stored > 0)
               /\ p.gen = 0 => p.window = first /\ p.next = next
               /\ first = next => p.gen > 0
<1> DEFINE p == plan_prekey_upload(first, next, stored, wanted)
           sid == start_prekey_id(next, stored)
<1>1. MAX_PREKEY_ID \in Nat \ {0} /\ Wanted \in 1..MAX_PREKEY_ID
  BY PreKeysAssumption
<1>2. /\ sid \in 1..MAX_PREKEY_ID
      /\ sid >= next \/ (sid = 1 /\ (next > 1 \/ stored > 0))
      /\ sid > 1 => next > 1 \/ stored > 0
  BY <1>1, StartId
<1>3. CASE first = 0 \/ first > next
  <2>1. p = FreshWindow(sid, wanted)
    BY <1>3, Zenon DEF plan_prekey_upload
  <2> HIDE DEF p, sid
  <2>2. PICK start \in 1..MAX_PREKEY_ID :
          /\ p = [window |-> start, gen |-> wanted, start |-> start, next |-> start + wanted]
          /\ start + wanted <= MAX_PREKEY_ID + 1
          /\ start >= next \/ (start = 1 /\ (next > 1 \/ stored > 0))
    <3>1. CASE sid + wanted - 1 > MAX_PREKEY_ID
      BY <1>1, <1>2, <2>1, <3>1 DEF FreshWindow
    <3>2. CASE ~(sid + wanted - 1 > MAX_PREKEY_ID)
      BY <1>1, <1>2, <2>1, <3>2 DEF FreshWindow
    <3> QED BY <3>1, <3>2, Zenon
  <2>3. p \in Plans
    BY <1>1, <2>2 DEF Plans
  <2>4. /\ p.window = start /\ p.start = start /\ p.gen = wanted
        /\ p.next = start + wanted
    BY <2>2, Zenon
  <2> QED
    BY <1>1, <2>2, <2>3, <2>4 DEF p
<1>4. CASE ~(first = 0 \/ first > next)
  <2> DEFINE gen == wanted - (IF next - first < wanted THEN next - first ELSE wanted)
  <2>1. CASE first + wanted - 1 > MAX_PREKEY_ID
             \/ (gen > 0 /\ next + gen - 1 > MAX_PREKEY_ID)
    <3>1. p = FreshWindow(1, wanted)
      BY <1>1, <1>4, <2>1, Zenon DEF plan_prekey_upload
    <3>2. next > 1
      BY <1>1, <1>4, <2>1
    <3> QED
      BY <1>1, <3>1, <3>2 DEF FreshWindow, Plans
  <2>2. CASE ~(first + wanted - 1 > MAX_PREKEY_ID
               \/ (gen > 0 /\ next + gen - 1 > MAX_PREKEY_ID))
    <3>1. p = [window |-> first, gen |-> gen, start |-> next, next |-> next + gen]
      BY <1>1, <1>4, <2>2, Zenon DEF plan_prekey_upload
    <3> QED
      BY <1>1, <1>4, <2>2, <3>1 DEF Plans
  <2> QED
    BY <2>1, <2>2, Zenon
<1> QED
  BY <1>3, <1>4, Zenon

----------------------------------------------------------------------------
(* What a step may be *)

\* Steps that leave the watermarks, the pass and the keys alone.
Same == UNCHANGED <<device, passVars, keyVars, history>>

\* The actions, with the saver's steps and stuttering as Same.
LEMMA NextCases ==
    ASSUME [Next]_preKeyVars
    PROVE  \/ \E caller \in {"login", "low", "refresh", "single"} : Begin(caller)
           \/ PrekeyLow \/ Plan \/ Generate \/ ReuseSingle \/ CollapseSingle
           \/ Mark \/ AwaitFlush \/ Window \/ Abandon \/ Send \/ Done
           \/ BackendFails \/ (\E k \in pool \cup given : Use(k)) \/ Crash
           \/ Same
<1>1. CASE SaverStep
  <2>1. device' = device
    BY <1>1, Zenon DEF SaverStep, UploaderFlush, BackgroundStep, SaveStep, TakeFlag,
       NotDirty, Serialize, Save, SaveFails, EndIteration, IdleTick
  <2> QED
    BY <1>1, <2>1, Zenon DEF SaverStep, Same
<1>2. CASE UNCHANGED preKeyVars
  BY <1>2, Zenon DEF preKeyVars, saverVars, Same
<1> QED
  BY <1>1, <1>2, Zenon DEF Next, PassStep

\* The edits of the device that the passes make are devices.
LEMMA Edits ==
    ASSUME device \in Devices,
           NEW f \in 0..MAX_PREKEY_ID + 1, NEW n \in 0..MAX_PREKEY_ID + 1
    PROVE  /\ [device EXCEPT !.first = f, !.next = n] \in Devices
           /\ [device EXCEPT !.first = f] \in Devices
           /\ [device EXCEPT !.has = FALSE] \in Devices
           /\ [device EXCEPT !.has = TRUE] \in Devices
           /\ device.first \in 0..MAX_PREKEY_ID + 1
           /\ device.next \in 0..MAX_PREKEY_ID + 1
BY PreKeysAssumption, Zenon

\* Every step of the prekeys is a step of the device saver.
LEMMA SaverStepOf ==
    ASSUME IInv, [Next]_preKeyVars
    PROVE  [SaverNext]_saverVars
<1>1. device \in Devices /\ plan \in Plans /\ rows \subseteq Keys /\ Uploader \in Flushers
  BY PreKeysAssumption, Zenon DEF IInv, PreKeysTypeOK, SaverTypeOK
<1>2. MAX_PREKEY_ID \in Nat
  BY PreKeysAssumption, Zenon
<1>3. ASSUME NEW d \in Devices, modify_device(d) PROVE SaverNext
  BY <1>3 DEF SaverNext
<1>a. 0 \in 0..MAX_PREKEY_ID + 1
  BY <1>2
<1>b. [device EXCEPT !.has = FALSE] \in Devices /\ [device EXCEPT !.has = TRUE] \in Devices
  BY <1>1, <1>a, Edits, Zenon
<1>4. CASE PrekeyLow
  BY <1>3, <1>4, <1>b, Zenon DEF PrekeyLow
<1>5. CASE ReuseSingle
  <2>1. PICK id \in Leftover : \/ modify_device([device EXCEPT !.first = id])
                               \/ UNCHANGED saverVars
    BY <1>5, Zenon DEF ReuseSingle
  <2>2. id \in 0..MAX_PREKEY_ID + 1
    BY <1>2 DEF Leftover, Stored, Ids
  <2> QED
    BY <1>1, <1>2, <1>3, <2>1, <2>2, Edits, Zenon
<1>6. CASE Mark
  BY <1>1, <1>2, <1>3, <1>6, Edits, Zenon DEF Mark, SetWatermarks, Plans
<1>7. CASE AwaitFlush
  BY <1>1, <1>7, Zenon DEF AwaitFlush, SaverNext
<1>8. CASE Window
  BY <1>1, <1>2, <1>3, <1>8, Edits, Zenon DEF Window, SetWatermarks, Plans
<1>9. CASE Abandon
  <2>1. PICK last \in rows : modify_device([device EXCEPT !.first = last[1] + 1,
                                                          !.next = plan.next])
    BY <1>9, Zenon DEF Abandon, SetWatermarks
  <2>2. last[1] + 1 \in 0..MAX_PREKEY_ID + 1 /\ plan.next \in 0..MAX_PREKEY_ID + 1
    BY <1>1, <1>2 DEF Keys, Ids, Plans
  <2> QED
    BY <1>1, <1>3, <2>1, <2>2, Edits, Zenon
<1>10. CASE Done
  BY <1>3, <1>10, <1>b, Zenon DEF Done
<1>11. CASE Crash
  BY <1>11, Zenon DEF Crash, SaverNext
<1>12. CASE SaverStep
  BY <1>1, <1>12, Zenon DEF SaverStep, UploaderFlush, SaverNext
<1>13. CASE UNCHANGED preKeyVars
  BY <1>13, Zenon DEF preKeyVars
<1>14. CASE \/ \E caller \in {"login", "low", "refresh", "single"} : Begin(caller)
            \/ Plan \/ Generate \/ CollapseSingle \/ Send \/ BackendFails
            \/ \E k \in pool \cup given : Use(k)
  BY <1>14, Zenon DEF Begin, Plan, Generate, CollapseSingle, Send, BackendFails, Use
<1> QED
  BY <1>4, <1>5, <1>6, <1>7, <1>8, <1>9, <1>10, <1>11, <1>12, <1>13, <1>14, Zenon
     DEF Next, PassStep

\* What each step does to the watermarks in memory.
LEMMA Watermarks ==
    ASSUME IInv
    PROVE  /\ \A caller : Begin(caller) => device' = device
           /\ Plan \/ Generate \/ CollapseSingle \/ AwaitFlush \/ Send
                 \/ BackendFails \/ Same => device' = device
           /\ \A k : Use(k) => device' = device
           /\ PrekeyLow \/ Done =>
                 device'.first = device.first /\ device'.next = device.next
           /\ Mark => device'.first = plan.window /\ device'.next = plan.next
           /\ Window => \/ InWindow # {} /\ device' = device
                        \/ /\ InWindow = {}
                           /\ device'.first = plan.next /\ device'.next = plan.next
           /\ Crash => device' = disk
<1>1. device \in [next: 0..MAX_PREKEY_ID + 1, first: 0..MAX_PREKEY_ID + 1, has: BOOLEAN]
  BY PreKeysAssumption, Zenon DEF IInv, PreKeysTypeOK, SaverTypeOK
<1>2. /\ \A caller : Begin(caller) => device' = device
      /\ Plan \/ Generate \/ CollapseSingle \/ AwaitFlush \/ Send
            \/ BackendFails \/ Same => device' = device
      /\ \A k : Use(k) => device' = device
  BY Zenon DEF Begin, Plan, Generate, CollapseSingle, AwaitFlush, FlushReturns, Send,
     BackendFails, Same, Use, saverVars
<1>3. PrekeyLow \/ Done => device'.first = device.first /\ device'.next = device.next
  BY <1>1, Zenon DEF PrekeyLow, Done, modify_device
<1>4. Mark => device'.first = plan.window /\ device'.next = plan.next
  BY <1>1, Zenon DEF Mark, SetWatermarks, modify_device
<1>5. Window => \/ InWindow # {} /\ device' = device
                \/ /\ InWindow = {}
                   /\ device'.first = plan.next /\ device'.next = plan.next
  BY <1>1, Zenon DEF Window, SetWatermarks, modify_device, saverVars
<1>6. Crash => device' = disk
  BY Zenon DEF Crash, Restart
<1> QED
  BY <1>2, <1>3, <1>4, <1>5, <1>6, Zenon

\* A leftover key for a retry receipt moves FIRST up to it.
LEMMA WatermarksReuse ==
    ASSUME IInv, ReuseSingle
    PROVE  \E id \in Leftover :
              /\ \A i \in Leftover : id <= i
              /\ given' = given \cup {<<id, store[id]>>}
              /\ device'.first = id /\ device'.next = device.next
<1>1. device \in [next: 0..MAX_PREKEY_ID + 1, first: 0..MAX_PREKEY_ID + 1, has: BOOLEAN]
  BY PreKeysAssumption, Zenon DEF IInv, PreKeysTypeOK, SaverTypeOK
<1>2. plan.window = device.first
  BY Zenon DEF IInv, PlanShape, Planned, ReuseSingle
<1> QED
  BY <1>1, <1>2, Zenon DEF ReuseSingle, modify_device, saverVars

\* Abandoning moves FIRST past the last loaded row.
LEMMA WatermarksAbandon ==
    ASSUME IInv, Abandon
    PROVE  \E last \in rows :
              /\ \A k \in rows : k[1] <= last[1]
              /\ device'.first = last[1] + 1 /\ device'.next = plan.next
<1>1. device \in [next: 0..MAX_PREKEY_ID + 1, first: 0..MAX_PREKEY_ID + 1, has: BOOLEAN]
  BY PreKeysAssumption DEF IInv, PreKeysTypeOK, SaverTypeOK
<1> QED
  BY <1>1, Zenon DEF Abandon, SetWatermarks, modify_device

\* Types are kept.
LEMMA TypeStep ==
    ASSUME IInv, [Next]_preKeyVars
    PROVE  SaverInv' /\ PreKeysTypeOK'
<1>1. SaverInv'
  BY SaverStepOf, SaverStepInv, Zenon DEF IInv
<1>2. SaverTypeOK'
  BY <1>1, Zenon DEF SaverInv
<1> SUFFICES PreKeysTypeOK'
  BY <1>1, Zenon
<1> USE <1>2 DEF PreKeysTypeOK
<1>3. PreKeysTypeOK /\ MAX_PREKEY_ID \in Nat \ {0} /\ Wanted \in 1..MAX_PREKEY_ID
  BY PreKeysAssumption DEF IInv
<1>4. NoPlan \in Plans
  BY <1>3 DEF NoPlan, Plans
<1>5. ASSUME NEW caller \in {"login", "low", "refresh", "single"}, Begin(caller)
      PROVE  PreKeysTypeOK'
  BY <1>3, <1>5, Zenon DEF Begin, Quiet, keyVars, history
<1>6. CASE PrekeyLow
  BY <1>3, <1>6 DEF PrekeyLow, keyVars
<1>7. CASE Plan
  <2>1. PICK highest \in Stored \cup {0} :
            plan' = plan_prekey_upload(device.first, device.next, highest,
                                       IF op = "single" THEN 1 ELSE Wanted)
    BY <1>7, Zenon DEF Plan
  <2>2. highest \in 0..MAX_PREKEY_ID /\ (IF op = "single" THEN 1 ELSE Wanted) \in 1..Wanted
    BY <1>3, <2>1 DEF Stored, Ids
  <2>3. /\ device.first \in 0..MAX_PREKEY_ID + 1 /\ device.next \in 0..MAX_PREKEY_ID + 1
        /\ device.first <= device.next
    BY PreKeysAssumption, Zenon DEF IInv, SaverTypeOK, AllOrdered, Ordered
  <2>4. plan' \in Plans
    BY <2>1, <2>2, <2>3, PlanFacts, Zenon
  <2> QED
    BY <1>3, <1>7, <2>4, Zenon DEF Plan, keyVars
<1>8. CASE Generate
  BY <1>3, <1>8 DEF Generate, history
<1>9. CASE ReuseSingle
  <2>1. PICK id \in Leftover : given' = given \cup {<<id, store[id]>>}
    BY <1>9, Zenon DEF ReuseSingle
  <2>2. <<id, store[id]>> \in Keys
    BY <1>3, <2>1, Zenon DEF Leftover, Stored, Keys
  <2> QED
    BY <1>3, <1>4, <1>9, <2>1, <2>2, Zenon DEF ReuseSingle, Finish, history
<1>10. CASE CollapseSingle
  <2>1. device.next \in 0..MAX_PREKEY_ID + 1
    BY PreKeysAssumption, Zenon DEF IInv, SaverTypeOK
  <2>2. plan' \in Plans
    BY <1>3, <1>10, <2>1 DEF CollapseSingle, Plans
  <2> QED
    BY <1>3, <1>10, <2>2, Zenon DEF CollapseSingle, keyVars
<1>11. CASE Mark
  BY <1>3, <1>11, SMTT(30) DEF Mark, Quiet, keyVars, history
<1>12. CASE AwaitFlush
  <2>1. CASE pc = "flush" /\ op = "single" /\ saving[Uploader].at = "ok"
    <3>1. plan.start \in Ids
      BY <1>3, <2>1 DEF IInv, PlanShape, Marked, Target, Plans, Ids
    <3>2. <<plan.start, store[plan.start]>> \in Keys
      BY <1>3, <3>1, Zenon DEF Keys
    <3> QED
      BY <1>3, <1>4, <1>12, <2>1, <3>2, Zenon DEF AwaitFlush, Finish, Abort, history
  <2>2. CASE ~(pc = "flush" /\ op = "single" /\ saving[Uploader].at = "ok")
    BY <1>3, <1>4, <1>12, <2>2, Zenon DEF AwaitFlush, Finish, Abort, history
  <2> QED
    BY <2>1, <2>2, Zenon
<1>13. CASE Window
  <2>1. \A i \in InWindow : <<i, store[i]>> \in Keys
    BY <1>3, Zenon DEF InWindow, Stored, Keys
  <2>2. rows' \subseteq Keys
    BY <1>13, <2>1, Zenon DEF Window
  <2> QED
    BY <1>3, <1>4, <1>13, <2>2, Zenon DEF Window, Quiet, keyVars, history
<1>14. CASE Abandon
  BY <1>3, <1>14, Zenon DEF Abandon, Quiet, keyVars, history
<1>15. CASE Send
  BY <1>3, <1>4, <1>15, Zenon DEF Send, Abort, Finish
<1>16. CASE Done
  BY <1>3, <1>4, <1>16, Zenon DEF Done, Finish, keyVars, history
<1>17. CASE BackendFails
  BY <1>3, <1>4, <1>17, Zenon DEF BackendFails, Abort, Finish, keyVars, history
<1>18. ASSUME NEW k \in pool \cup given, Use(k) PROVE PreKeysTypeOK'
  BY <1>3, <1>18, Zenon DEF Use, passVars, history
<1>19. CASE Crash
  <2>1. rerun' \in BOOLEAN /\ low' \in BOOLEAN
    BY <1>19, Zenon DEF Crash
  <2>2. /\ store' = store /\ pool' = pool /\ given' = given /\ used' = used
        /\ passes' = passes /\ crashes' \in Nat /\ lows' = lows
    BY <1>3, <1>19 DEF Crash, keyVars
  <2>3. op' = "none" /\ pc' = "idle" /\ plan' = NoPlan /\ rows' = {}
    BY <1>19, Zenon DEF Crash, Finish
  <2> QED
    BY <1>3, <1>4, <2>1, <2>2, <2>3, Zenon
<1>20. CASE Same
  BY <1>3, <1>20, Zenon DEF Same, passVars, keyVars, history
<1> QED
  BY NextCases, <1>5, <1>6, <1>7, <1>8, <1>9, <1>10, <1>11, <1>12, <1>13, <1>14,
     <1>15, <1>16, <1>17, <1>18, <1>19, <1>20, Zenon

\* FIRST <= NEXT is kept in memory, and so in what is saved.
LEMMA OrderedStep ==
    ASSUME IInv, [Next]_preKeyVars
    PROVE  AllOrdered'
<1>1. /\ AllOrdered /\ PlanShape /\ SaverTypeOK /\ PreKeysTypeOK
      /\ MAX_PREKEY_ID \in Nat /\ Wanted \in Nat \ {0}
  BY PreKeysAssumption DEF IInv, SaverInv
<1>2. Ordered(device)'
  <2>1. device.next \in Nat /\ device.first \in Nat /\ plan.window \in Nat
        /\ plan.next \in Nat /\ plan.window + Target >= plan.window
    BY <1>1, PreKeysAssumption DEF SaverTypeOK, PreKeysTypeOK, Plans, Target
  <2>2. CASE ReuseSingle
    <3>1. PICK id \in Leftover : device'.first = id /\ device'.next = device.next
      BY <2>2, WatermarksReuse, Zenon
    <3> QED
      BY <2>1, <3>1 DEF Leftover, Stored, Ids, Ordered
  <2>3. CASE Abandon
    <3>1. PICK last \in rows : device'.first = last[1] + 1 /\ device'.next = plan.next
      BY <2>3, WatermarksAbandon, Zenon
    <3>2. last[1] < plan.next /\ last[1] \in Nat
      BY <1>1, <2>3, <3>1 DEF IInv, RowsStored, PlanShape, Marked, Abandon,
         PreKeysTypeOK, Keys, Ids
    <3> QED
      BY <2>1, <3>1, <3>2 DEF Ordered
  <2>4. CASE Mark
    <3>1. device'.first = plan.window /\ device'.next = plan.next
      BY <2>4, Watermarks, Zenon
    <3> QED
      BY <1>1, <2>1, <2>4, <3>1 DEF Mark, PlanShape, Planned, Target, Ordered
  <2>5. CASE Window
    <3>1. device' = device \/ (device'.first = plan.next /\ device'.next = plan.next)
      BY <2>5, Watermarks, Zenon
    <3> QED
      BY <1>1, <2>1, <3>1 DEF AllOrdered, Ordered
  <2>6. CASE Crash
    <3>1. device' = disk
      BY <2>6, Watermarks, Zenon
    <3> QED
      BY <1>1, <3>1, Zenon DEF AllOrdered, Ordered
  <2>7. CASE PrekeyLow \/ Done
    <3>1. device'.first = device.first /\ device'.next = device.next
      BY <2>7, Watermarks, Zenon
    <3> QED
      BY <1>1, <3>1, Zenon DEF AllOrdered, Ordered
  <2>8. CASE device' = device
    BY <1>1, <2>8, Zenon DEF AllOrdered, Ordered
  <2> QED
    BY <2>2, <2>3, <2>4, <2>5, <2>6, <2>7, <2>8, NextCases, Watermarks, Zenon
<1>3. /\ disk' = disk \/ \E s \in Savers : disk' = saving[s].value
      /\ \A s \in Savers : saving'[s].value \in {saving[s].value, device, InitialDevice}
  BY <1>1, SaverStepOf, SaverMoves, Zenon
<1>4. Ordered(InitialDevice)
  BY PreKeysAssumption DEF Ordered
<1> QED
  BY <1>1, <1>2, <1>3, <1>4, Zenon DEF AllOrdered, Ordered

\* What a pass generates are ids, the first of them plan.start.
LEMMA FreshIds ==
    ASSUME IInv, Planned \/ Marked \/ Given, plan.gen > 0
    PROVE  plan.start \in Ids /\ plan.start \in Fresh /\ Fresh \subseteq Ids
<1>1. /\ plan.gen \in Nat /\ plan.start \in Nat /\ plan.next \in Nat
      /\ plan.next <= MAX_PREKEY_ID + 1 /\ plan.window \in Nat
      /\ MAX_PREKEY_ID \in Nat
  BY PreKeysAssumption DEF IInv, PreKeysTypeOK, Plans
<1>2. /\ 1 <= plan.window /\ plan.window <= plan.start
      /\ plan.next = plan.start + plan.gen
  BY Zenon DEF IInv, PlanShape
<1> QED
  BY <1>1, <1>2 DEF Ids, Fresh

\* Keys are numbered by the pass that generated them.
LEMMA HistoryStep ==
    ASSUME IInv, [Next]_preKeyVars
    PROVE  HistoryTyped'
<1> USE DEF HistoryTyped
<1>1. /\ PreKeysTypeOK /\ HistoryTyped /\ store \in [Ids -> Nat] /\ passes \in Nat
      /\ rows \subseteq Keys /\ pool \subseteq Keys /\ given \subseteq Keys
      /\ used \subseteq Keys
  BY Zenon DEF IInv, PreKeysTypeOK
<1>2. \A k \in Keys : k[1] \in Ids /\ k[2] \in Nat
  BY Zenon DEF Keys
<1>3. CASE Generate
  BY <1>1, <1>2, <1>3 DEF Generate, history
<1>4. CASE ReuseSingle
  <2>1. PICK id \in Leftover : given' = given \cup {<<id, store[id]>>}
    BY <1>4, Zenon DEF ReuseSingle
  <2>2. 1 <= store[id] /\ store[id] <= passes
    BY <1>1, <2>1 DEF Leftover, Stored
  <2> QED
    BY <1>1, <1>4, <2>1, <2>2 DEF ReuseSingle, Finish, history
<1>5. CASE AwaitFlush
  <2>1. CASE pc = "flush" /\ op = "single" /\ saving[Uploader].at = "ok"
    <3>1. plan.gen > 0 /\ plan.start \in Ids /\ plan.start \in Fresh
      BY <2>1, FreshIds, Zenon DEF IInv, PlanShape, Marked
    <3>2. store[plan.start] = passes /\ passes > 0
      BY <2>1, <3>1, SMTT(30) DEF IInv, FreshUnknown
    <3> QED
      BY <1>1, <1>5, <2>1, <3>2 DEF AwaitFlush, Finish, Abort, history
  <2>2. CASE ~(pc = "flush" /\ op = "single" /\ saving[Uploader].at = "ok")
    BY <1>1, <1>5, <2>2, Zenon DEF AwaitFlush, Finish, Abort, history
  <2> QED
    BY <2>1, <2>2, Zenon
<1>6. CASE Window
  <2>1. \A i \in InWindow : 1 <= store[i] /\ store[i] <= passes
    BY <1>1 DEF InWindow, Stored
  <2>2. \A k \in rows' : 1 <= k[2] /\ k[2] <= passes
    BY <1>6, <2>1 DEF Window
  <2> QED
    BY <1>1, <1>6, <2>2, Zenon DEF Window, Quiet, keyVars, history
<1>7. CASE Send
  BY <1>1, <1>7, Zenon DEF Send, Abort, Finish
<1>8. ASSUME NEW k \in pool \cup given, Use(k) PROVE HistoryTyped'
  BY <1>1, <1>2, <1>8 DEF Use, passVars, history
<1>9. CASE Crash
  BY <1>1, <1>9, Zenon DEF Crash, Finish, keyVars
<1>10. CASE \/ \E caller \in {"login", "low", "refresh", "single"} : Begin(caller)
            \/ PrekeyLow \/ Plan \/ CollapseSingle \/ Mark \/ Abandon \/ Done
            \/ BackendFails \/ Same
  BY <1>1, <1>10, Zenon DEF Begin, PrekeyLow, Plan, CollapseSingle, Mark, Abandon, Done,
     BackendFails, Same, Finish, Abort, Quiet, passVars, keyVars, history
<1> QED
  BY NextCases, <1>3, <1>4, <1>5, <1>6, <1>7, <1>8, <1>9, <1>10, Zenon

\* The plan stays in line with the watermarks until the upload is done.
LEMMA PlanStep ==
    ASSUME IInv, [Next]_preKeyVars
    PROVE  PlanShape'
<1> USE DEF Planned, Marked, Given
<1>1. /\ PlanShape /\ PreKeysTypeOK /\ RerunGenerates
      /\ MAX_PREKEY_ID \in Nat /\ Wanted \in 1..MAX_PREKEY_ID
      /\ device.first \in 0..MAX_PREKEY_ID + 1 /\ device.next \in 0..MAX_PREKEY_ID + 1
      /\ device.first <= device.next
  BY PreKeysAssumption, Zenon DEF IInv, PreKeysTypeOK, SaverTypeOK, AllOrdered, Ordered
<1>2. ASSUME pc' \in {"idle", "plan"} PROVE PlanShape'
  BY <1>2, Zenon DEF PlanShape
<1>3. ASSUME NEW caller \in {"login", "low", "refresh", "single"}, Begin(caller)
      PROVE  PlanShape'
  BY <1>2, <1>3, Zenon DEF Begin
<1>4. CASE PrekeyLow \/ Same \/ (\E k \in pool \cup given : Use(k))
  <2>1. /\ op' = op /\ pc' = pc /\ plan' = plan /\ rows' = rows
    BY <1>4, Zenon DEF PrekeyLow, Same, Use, passVars
  <2>2. device'.first = device.first /\ device'.next = device.next
    BY <1>4, Watermarks, Zenon
  <2> QED
    BY <1>1, <2>1, <2>2, Zenon DEF PlanShape, Target
<1>5. CASE Plan
  <2>1. PICK highest \in Stored \cup {0} :
            plan' = plan_prekey_upload(device.first, device.next, highest,
                                       IF op = "single" THEN 1 ELSE Wanted)
    BY <1>5, Zenon DEF Plan
  <2>2. highest \in 0..MAX_PREKEY_ID /\ Target \in 1..Wanted
    BY <1>1, <2>1 DEF Stored, Ids, Target
  <2>3. plan' = plan_prekey_upload(device.first, device.next, highest, Target)
    BY <2>1, SMTT(30) DEF Target
  <2>4. /\ 1 <= plan'.window /\ plan'.window + Target <= plan'.next
        /\ plan'.gen > 0 =>
              /\ plan'.window <= plan'.start /\ plan'.start < plan'.window + Target
              /\ plan'.next = plan'.start + plan'.gen
              /\ \/ plan'.window = plan'.start
                 \/ plan'.window = device.first /\ plan'.start = device.next
        /\ plan'.gen = 0 => plan'.window = device.first /\ plan'.next = device.next
    BY <1>1, <2>2, <2>3, PlanFacts, SMTT(30)
  <2>5. op' = op /\ pc' = "generate" /\ device' = device /\ op # "none"
    BY <1>1, <1>5, Watermarks, Zenon DEF Plan, RerunGenerates
  <2> QED
    BY <2>4, <2>5, Zenon DEF PlanShape, Target
<1>6. CASE Generate
  <2>1. /\ op' = op /\ pc' = "mark" /\ plan' = plan /\ device' = device
        /\ pc = "generate" /\ (op = "single" => plan.gen > 0)
    BY <1>6, Watermarks, Zenon DEF Generate
  <2> QED
    BY <1>1, <2>1, Zenon DEF PlanShape, Target
<1>7. CASE CollapseSingle
  <2>1. /\ op' = op /\ pc' = "generate" /\ device' = device /\ op = "single"
        /\ pc = "generate"
    BY <1>7, Watermarks, Zenon DEF CollapseSingle
  <2>2. PICK id \in Nat : plan' = [window |-> id, gen |-> 1, start |-> id, next |-> id + 1]
                          /\ id >= 1
    <3>1. 1 <= plan.window /\ plan.window \in Nat
      BY <1>1, <2>1 DEF PlanShape, PreKeysTypeOK, Plans
    <3> QED
      BY <1>1, <1>7, <3>1 DEF CollapseSingle
  <2> QED
    BY <2>1, <2>2, SMTT(30) DEF PlanShape, Target
<1>8. CASE Mark
  <2>1. /\ op' = op /\ pc' = "flush" /\ plan' = plan /\ pc = "mark"
        /\ device'.first = plan.window /\ device'.next = plan.next
    BY <1>8, Watermarks, ZenonT(30) DEF Mark
  <2> QED
    BY <1>1, <2>1, Zenon DEF PlanShape, Target
<1>9. CASE AwaitFlush
  <2>1. device' = device
    BY <1>9, Watermarks, SMTT(30)
  <2>2. \/ pc' \in {"idle", "plan"}
        \/ /\ op' = op /\ plan' = plan /\ rows' = rows
           /\ \/ pc = "flush" /\ pc' = "window" /\ op # "single"
              \/ pc = "flush2" /\ pc' = "send"
    BY <1>9, SMTT(30) DEF AwaitFlush, Finish, Abort
  <2> QED
    BY <1>1, <1>2, <2>1, <2>2, Zenon DEF PlanShape, Target
<1>10. CASE Window
  <2>1. \/ pc' \in {"idle", "plan"}
        \/ /\ op' = op /\ plan' = plan /\ device' = device
           /\ pc = "window" /\ pc' = "abandon"
    BY <1>10, Zenon DEF Window, saverVars
  <2> QED
    BY <1>1, <1>2, <2>1, Zenon DEF PlanShape, Target
<1>11. CASE Abandon
  <2>1. PICK last \in rows :
            /\ \A k \in rows : k[1] <= last[1]
            /\ device'.first = last[1] + 1 /\ device'.next = plan.next
    BY <1>11, WatermarksAbandon, Zenon
  <2>2. /\ op' = op /\ pc' = "flush2" /\ plan' = plan /\ rows' = rows /\ pc = "abandon"
    BY <1>11, Zenon DEF Abandon
  <2>3. \A k \in rows : k[1] \in Nat
    BY <1>1, SMTT(30) DEF PreKeysTypeOK, Keys, Ids
  <2>4. \A k \in rows : k[1] < device'.first
    BY <2>1, <2>3, SMTT(30)
  <2> QED
    BY <1>1, <2>1, <2>2, <2>4, Zenon DEF PlanShape, Target
<1>12. CASE Send
  <2>1. \/ pc' \in {"idle", "plan"}
        \/ /\ op' = op /\ plan' = plan /\ rows' = rows
           /\ pc = "send" /\ pc' = "done"
    BY <1>12, Zenon DEF Send, Abort, Finish
  <2>2. device' = device
    BY <1>12, Watermarks, Zenon
  <2> QED
    BY <1>1, <1>2, <2>1, <2>2, Zenon DEF PlanShape, Target
<1>13. CASE ReuseSingle \/ Done \/ BackendFails \/ Crash
  BY <1>2, <1>13, Zenon DEF ReuseSingle, Done, BackendFails, Crash, Abort, Finish
<1> QED
  BY NextCases, <1>3, <1>4, <1>5, <1>6, <1>7, <1>8, <1>9, <1>10, <1>11, <1>12, <1>13, Zenon

\* A rerun starts from the collapsed window, so it generates.
LEMMA RerunStep ==
    ASSUME IInv, [Next]_preKeyVars
    PROVE  RerunGenerates'
<1> USE DEF Planned
<1>1. RerunGenerates /\ PreKeysTypeOK /\ PlanShape
  BY Zenon DEF IInv
<1>2. ASSUME NEW caller \in {"login", "low", "refresh", "single"}, Begin(caller)
      PROVE  RerunGenerates'
  BY <1>1, <1>2, Zenon DEF Begin, RerunGenerates
<1>3. CASE PrekeyLow \/ Same \/ (\E k \in pool \cup given : Use(k))
  <2>1. /\ op' = op /\ pc' = pc /\ plan' = plan /\ rerun' = rerun
    BY <1>3, Zenon DEF PrekeyLow, Same, Use, passVars
  <2>2. device'.first = device.first /\ device'.next = device.next
    BY <1>3, Watermarks
  <2> QED
    BY <1>1, <2>1, <2>2, Zenon DEF RerunGenerates
<1>4. CASE Plan
  <2>1. PICK highest \in Stored \cup {0} :
            plan' = plan_prekey_upload(device.first, device.next, highest, Target)
    BY <1>4, Zenon DEF Plan, Target
  <2>2. highest \in 0..MAX_PREKEY_ID /\ Target \in 1..Wanted
    BY <2>1, PreKeysAssumption DEF Stored, Ids, Target
  <2>3. /\ device.first \in 0..MAX_PREKEY_ID + 1 /\ device.next \in 0..MAX_PREKEY_ID + 1
        /\ device.first <= device.next
    BY <1>1, PreKeysAssumption, SMTT(30) DEF IInv, PreKeysTypeOK, SaverTypeOK, AllOrdered, Ordered
  <2>4. device.first = device.next => plan'.gen > 0
    BY <2>1, <2>2, <2>3, PlanFacts, Zenon
  <2>5. op' = op /\ rerun' = rerun /\ pc' = "generate" /\ pc = "plan"
    BY <1>4, Zenon DEF Plan
  <2> QED
    BY <1>1, <2>4, <2>5, Zenon DEF RerunGenerates
<1>5. CASE Generate \/ Mark
  BY <1>1, <1>5, Zenon DEF Generate, Mark, RerunGenerates
<1>6. CASE CollapseSingle
  <2>1. op' = op /\ pc' = "generate" /\ plan'.gen = 1 /\ op = "single"
    BY <1>6, SMTT(30) DEF CollapseSingle
  <2> QED
    BY <2>1 DEF RerunGenerates
<1>7. CASE AwaitFlush
  BY <1>1, <1>7 DEF AwaitFlush, Finish, Abort, RerunGenerates
<1>8. CASE Window
  <2>1. \/ pc' = "abandon"
        \/ /\ pc = "window" /\ pc' = "plan" /\ op' = op
           /\ device'.first = plan.next /\ device'.next = plan.next
    BY <1>8, Watermarks, Zenon DEF Window
  <2> QED
    BY <1>1, <2>1, Zenon DEF RerunGenerates, PlanShape
<1>9. CASE Abandon \/ ReuseSingle \/ Send \/ Done \/ BackendFails \/ Crash
  BY <1>1, <1>9, Zenon DEF Abandon, ReuseSingle, Send, Done, BackendFails, Crash, Abort,
     Finish, RerunGenerates
<1> QED
  BY NextCases, <1>2, <1>3, <1>4, <1>5, <1>6, <1>7, <1>8, <1>9, Zenon

\* The steps that touch neither the keys nor who has them.
LEMMA KeysKept ==
    ASSUME [Next]_preKeyVars
    PROVE  /\ \A caller : Begin(caller) => UNCHANGED <<keyVars, history>>
           /\ PrekeyLow \/ Mark \/ Window \/ Abandon \/ Done \/ BackendFails \/ Same
                 => UNCHANGED <<keyVars, sent, resent, ahead, unmarked, recycled>>
           /\ Plan \/ CollapseSingle => UNCHANGED <<keyVars, sent, resent, ahead, unmarked>>
           /\ Crash => UNCHANGED <<keyVars, sent, resent, recycled>>
           /\ ReuseSingle \/ AwaitFlush => UNCHANGED <<store, pool, used, passes, history>>
BY Zenon DEF Begin, PrekeyLow, Mark, Window, Abandon, Done, BackendFails, Same, Plan,
   CollapseSingle, Crash, ReuseSingle, AwaitFlush, Quiet, keyVars, history

\* Rows are loaded once and stay as loaded until they are dropped.
LEMMA RowsStep ==
    ASSUME IInv, [Next]_preKeyVars
    PROVE  RowsStored'
<1>1. /\ RowsStored /\ PreKeysTypeOK /\ PlanShape /\ store \in [Ids -> Nat]
      /\ rows \subseteq Keys
  BY Zenon DEF IInv, PreKeysTypeOK
<1>2. ASSUME rows' = {} PROVE RowsStored'
  BY <1>2, Zenon DEF RowsStored
<1>3. ASSUME rows' = rows, UNCHANGED <<store, used, plan>>, device'.next = device.next,
             rows # {} => pc' \in {"abandon", "flush2", "send", "done"}
      PROVE  RowsStored'
  BY <1>1, <1>3, Zenon DEF RowsStored
<1>4. ASSUME NEW caller \in {"login", "low", "refresh", "single"}, Begin(caller)
      PROVE  RowsStored'
  <2>1. rows' = rows /\ pc = "idle"
    BY <1>4, Zenon DEF Begin
  <2> QED
    BY <1>1, <1>2, <2>1, Zenon DEF RowsStored
<1>5. CASE PrekeyLow \/ Same
  <2>1. rows' = rows /\ pc' = pc /\ plan' = plan /\ UNCHANGED <<store, used>>
    BY <1>5, KeysKept, Zenon DEF PrekeyLow, Same, passVars, keyVars
  <2>2. device'.next = device.next
    BY <1>5, Watermarks, Zenon
  <2> QED
    BY <1>1, <1>3, <2>1, <2>2, Zenon DEF RowsStored
<1>6. CASE Plan \/ Generate \/ CollapseSingle \/ Mark
  <2>1. rows' = rows /\ pc \in {"plan", "generate", "mark"}
    BY <1>6, Zenon DEF Plan, Generate, CollapseSingle, Mark
  <2> QED
    BY <1>1, <1>2, <2>1, SMTT(30) DEF RowsStored
<1>7. CASE AwaitFlush
  <2>1. UNCHANGED <<store, used>> /\ device' = device
    BY <1>7, KeysKept, Watermarks, Zenon
  <2>2. \/ rows' = {}
        \/ rows' = rows /\ plan' = plan /\ pc = "flush"
        \/ rows' = rows /\ plan' = plan /\ pc' = "send"
    BY <1>7, Zenon DEF AwaitFlush, Finish, Abort
  <2> QED
    BY <1>1, <1>2, <1>3, <2>1, <2>2, Zenon DEF RowsStored
<1>8. CASE Window
  <2>1. CASE rows' = {}
    BY <1>2, <2>1, SMTT(30)
  <2>2. CASE rows' # {}
    <3>1. /\ pc = "window" /\ pc' = "abandon" /\ plan' = plan /\ device' = device
          /\ rows' = {<<i, store[i]>> : i \in InWindow} /\ store' = store
      BY <1>8, <2>2, KeysKept, ZenonT(30) DEF Window, saverVars, keyVars
    <3>2. /\ plan.window + Wanted <= plan.next /\ device.next = plan.next
          /\ plan.window \in Nat /\ plan.next \in Nat /\ Wanted \in Nat
      BY <1>1, <3>1, PreKeysAssumption, SMTT(30)
         DEF PlanShape, Marked, Target, PreKeysTypeOK, Plans
    <3>3. \A i \in InWindow : plan.window <= i /\ i < device.next
      BY <3>2, SMTT(30) DEF InWindow, Stored, Ids
    <3>4. \A k \in rows' : store[k[1]] = k[2] /\ plan.window <= k[1] /\ k[1] < device.next
      BY <3>1, <3>3
    <3> QED
      BY <3>1, <3>4, Zenon DEF RowsStored
  <2> QED
    BY <2>1, <2>2, Zenon
<1>9. CASE Abandon
  <2>1. /\ rows' = rows /\ plan' = plan /\ pc' = "flush2" /\ pc = "abandon"
        /\ UNCHANGED <<store, used>>
    BY <1>9, KeysKept, Zenon DEF Abandon, keyVars
  <2>2. device'.next = device.next
    BY <1>1, <1>9, <2>1, WatermarksAbandon, Zenon DEF PlanShape, Marked
  <2> QED
    BY <1>3, <2>1, <2>2, Zenon
<1>10. CASE Send
  <2>1. UNCHANGED <<store, used>> /\ device' = device
    BY <1>10, Watermarks, Zenon DEF Send
  <2>2. \/ rows' = {}
        \/ rows' = rows /\ plan' = plan /\ pc' = "done"
    BY <1>10, Zenon DEF Send, Finish, Abort
  <2> QED
    BY <1>2, <1>3, <2>1, <2>2, Zenon
<1>11. CASE ReuseSingle \/ Done \/ BackendFails \/ Crash
  BY <1>2, <1>11, Zenon DEF ReuseSingle, Done, BackendFails, Crash, Abort, Finish
<1>12. ASSUME NEW k \in pool \cup given, Use(k) PROVE RowsStored'
  <2>1. /\ store[k[1]] = k[2] /\ store' = [store EXCEPT ![k[1]] = 0]
        /\ used' = used \cup {k} /\ rows' = rows /\ pc' = pc /\ plan' = plan
        /\ device' = device
    BY <1>12, Watermarks, Zenon DEF Use, passVars
  <2>2. k \in Keys
    BY <1>1, Zenon DEF PreKeysTypeOK
  <2>3. ASSUME NEW r \in rows PROVE store'[r[1]] = r[2] \/ r \in used'
    <3>1. CASE r[1] = k[1] /\ r \notin used
      <4>1. r[2] = k[2]
        BY <1>1, <2>1, <3>1, Zenon DEF RowsStored
      <4>2. r = k
        BY <1>1, <2>2, <3>1, <4>1 DEF Keys
      <4> QED
        BY <2>1, <4>2, Zenon
    <3>2. CASE r[1] # k[1] \/ r \in used
      <4>1. r[1] \in Ids
        BY <1>1, Zenon DEF Keys
      <4> QED
        BY <1>1, <2>1, <3>2, <4>1, Zenon DEF RowsStored
    <3> QED
      BY <3>1, <3>2, Zenon
  <2> QED
    BY <1>1, <2>1, <2>3, Zenon DEF RowsStored
<1> QED
  BY NextCases, <1>4, <1>5, <1>6, <1>7, <1>8, <1>9, <1>10, <1>11, <1>12, Zenon

\* Between generation and upload nobody has the fresh keys.
LEMMA FreshStep ==
    ASSUME IInv, [Next]_preKeyVars
    PROVE  FreshUnknown'
<1>1. /\ FreshUnknown /\ PreKeysTypeOK /\ HistoryTyped /\ store \in [Ids -> Nat]
      /\ passes \in Nat
  BY Zenon DEF IInv, PreKeysTypeOK
<1>2. ASSUME pc' \notin {"mark", "flush", "window"} PROVE FreshUnknown'
  BY <1>2, Zenon DEF FreshUnknown
<1>3. ASSUME pc \in {"mark", "flush", "window"}, plan' = plan,
             UNCHANGED <<store, pool, given, used, sent, passes>>
      PROVE  FreshUnknown'
  BY <1>1, <1>3, Zenon DEF FreshUnknown, Fresh
<1>4. CASE Generate
  <2>1. /\ store' = [i \in Ids |-> IF i \in Fresh THEN passes + 1 ELSE store[i]]
        /\ passes' = passes + 1 /\ plan' = plan
        /\ UNCHANGED <<pool, given, used, sent>>
    BY <1>4, Zenon DEF Generate, history
  <2>2. Fresh' = Fresh
    BY <2>1, Zenon DEF Fresh
  <2>3. \A k \in pool' \cup given' \cup used' \cup sent' : k[2] < passes'
    <3>1. \A k \in pool \cup given \cup used \cup sent : k \in Keys /\ k[2] <= passes
      BY <1>1, Zenon DEF HistoryTyped, PreKeysTypeOK
    <3>2. \A k \in Keys : k[2] \in Nat
      BY Zenon DEF Keys
    <3> QED
      BY <1>1, <2>1, <3>1, <3>2
  <2> QED
    BY <1>1, <2>1, <2>2, <2>3 DEF FreshUnknown
<1>5. CASE Mark
  BY <1>3, <1>5, KeysKept, Zenon DEF Mark, keyVars
<1>6. CASE AwaitFlush
  <2>1. \/ pc' \notin {"mark", "flush", "window"}
        \/ pc = "flush" /\ plan' = plan /\ given' = given
    BY <1>6, Zenon DEF AwaitFlush, Finish, Abort
  <2>2. UNCHANGED <<store, pool, used, sent, passes>>
    BY <1>6, Zenon DEF AwaitFlush, history
  <2> QED
    BY <1>2, <1>3, <2>1, <2>2, SMTT(30)
<1>7. CASE PrekeyLow \/ Same
  <2>1. pc' = pc /\ plan' = plan /\ UNCHANGED <<store, pool, given, used, sent, passes>>
    BY <1>7, KeysKept, Zenon DEF PrekeyLow, Same, passVars, keyVars
  <2> QED
    BY <1>2, <1>3, <2>1, Zenon
<1>8. ASSUME NEW k \in pool \cup given, Use(k) PROVE FreshUnknown'
  <2>1. /\ store[k[1]] = k[2] /\ store' = [store EXCEPT ![k[1]] = 0]
        /\ used' = used \cup {k} /\ pool' \subseteq pool /\ given' \subseteq given
        /\ plan' = plan /\ pc' = pc /\ passes' = passes /\ sent' = sent
    BY <1>8, Zenon DEF Use, passVars, history
  <2>2. Fresh' = Fresh /\ (plan.gen = 0 => Fresh = {})
    BY <1>1, <2>1 DEF Fresh, PreKeysTypeOK, Plans
  <2>3. plan.gen \in Nat
    BY <1>1 DEF PreKeysTypeOK, Plans
  <2>4. ASSUME pc \in {"mark", "flush", "window"} PROVE FreshUnknown'
    <3>1. k[1] \notin Fresh
      <4> SUFFICES ASSUME k[1] \in Fresh PROVE FALSE
        BY Zenon
      <4>1. plan.gen > 0 /\ k[1] \in Ids /\ k[2] \in Nat
        BY <1>1, <2>2, <2>3 DEF PreKeysTypeOK, Keys
      <4> QED
        BY <1>1, <2>1, <2>4, <4>1 DEF FreshUnknown
    <3> QED
      BY <1>1, <2>1, <2>2, <2>4, <3>1, Zenon DEF FreshUnknown
  <2> QED
    BY <1>2, <2>1, <2>4, Zenon
<1>9. CASE \/ \E caller \in {"login", "low", "refresh", "single"} : Begin(caller)
           \/ Plan \/ ReuseSingle \/ CollapseSingle \/ Window \/ Abandon \/ Send
           \/ Done \/ BackendFails \/ Crash
  BY <1>2, <1>9, Zenon DEF Begin, Plan, ReuseSingle, CollapseSingle, Window, Abandon, Send,
     Done, BackendFails, Crash, Abort, Finish
<1> QED
  BY NextCases, <1>4, <1>5, <1>6, <1>7, <1>8, <1>9, Zenon

\* New ids start above the keys that are out, unless they start over.
LEMMA LiveStep ==
    ASSUME IInv, [Next]_preKeyVars
    PROVE  LiveBelowNext'
<1> USE DEF Planned
<1>1. /\ LiveBelowNext /\ PreKeysTypeOK /\ PlanShape /\ RowsStored
      /\ MAX_PREKEY_ID \in Nat /\ Wanted \in 1..MAX_PREKEY_ID
      /\ device.first \in 0..MAX_PREKEY_ID + 1 /\ device.next \in 0..MAX_PREKEY_ID + 1
      /\ device.first <= device.next
      /\ plan \in Plans
  BY PreKeysAssumption, Zenon DEF IInv, PreKeysTypeOK, SaverTypeOK, AllOrdered, Ordered
<1>2. \A k \in pool \cup given \cup rows : k[1] \in Nat
  BY <1>1 DEF PreKeysTypeOK, Keys, Ids
<1>3. ASSUME Live' \subseteq Live, device'.next = device.next,
             pc' \in {"generate", "mark"} /\ plan'.gen > 0 =>
                 pc \in {"generate", "mark"} /\ plan' = plan
      PROVE  LiveBelowNext'
  BY <1>1, <1>3, Zenon DEF LiveBelowNext
<1>4. ASSUME NEW caller \in {"login", "low", "refresh", "single"}, Begin(caller)
      PROVE  LiveBelowNext'
  <2>1. Live' = Live /\ device' = device /\ pc' \notin {"generate", "mark"}
    BY <1>4, Watermarks, KeysKept, Zenon DEF Begin, Live, keyVars, history
  <2> QED
    BY <1>3, <2>1, Zenon
<1>5. CASE PrekeyLow \/ Done \/ Same \/ BackendFails
  <2>1. Live' = Live
    BY <1>5, KeysKept, SMTT(30) DEF Live, keyVars
  <2>2. device'.next = device.next
    BY <1>5, Watermarks, Zenon
  <2>3. pc' \in {"generate", "mark"} => pc' = pc /\ plan' = plan
    BY <1>5, Zenon DEF PrekeyLow, Done, Same, BackendFails, Abort, Finish, passVars
  <2> QED
    BY <1>3, <2>1, <2>2, <2>3, Zenon
<1>6. CASE Plan
  <2>1. PICK highest \in Stored \cup {0} :
            /\ plan' = plan_prekey_upload(device.first, device.next, highest, Target)
            /\ Recycle(plan'.gen > 0 /\ plan'.start = 1
                       /\ (device.next > 1 \/ highest > 0))
    BY <1>6, Zenon DEF Plan, Target
  <2>2. highest \in 0..MAX_PREKEY_ID /\ Target \in 1..Wanted
    BY <1>1, <2>1, SMTT(30) DEF Stored, Ids, Target
  <2>3. plan'.gen > 0 => \/ plan'.start >= device.next
                         \/ plan'.start = 1 /\ (device.next > 1 \/ highest > 0)
    BY <1>1, <2>1, <2>2, PlanFacts, SMTT(30)
  <2>4. UNCHANGED <<pool, given, unmarked>> /\ device' = device
        /\ plan' \in Plans
    BY <1>6, KeysKept, Watermarks, TypeStep, Zenon DEF keyVars, PreKeysTypeOK
  <2>5. CASE plan'.gen > 0 /\ plan'.start = 1 /\ (device.next > 1 \/ highest > 0)
    <3>1. Live' = {}
      BY <2>1, <2>4, <2>5, Zenon DEF Recycle, Live
    <3> QED
      BY <3>1, Zenon DEF LiveBelowNext
  <2>6. CASE ~(plan'.gen > 0 /\ plan'.start = 1 /\ (device.next > 1 \/ highest > 0))
    <3>1. Live' = Live
      BY <2>1, <2>4, <2>6, Zenon DEF Recycle, Live
    <3>2. plan'.gen > 0 => \A k \in Live : k[1] < plan'.start
      <4>1. plan'.gen > 0 => plan'.start >= device.next
        BY <2>3, <2>6, Zenon
      <4>2. \A k \in Live : k[1] \in Nat /\ k[1] < device.next
        BY <1>1, <1>2, Zenon DEF LiveBelowNext, Live
      <4> QED
        BY <1>1, <2>4, <4>1, <4>2 DEF Plans
    <3> QED
      BY <1>1, <2>4, <3>1, <3>2, Zenon DEF LiveBelowNext
  <2> QED
    BY <2>5, <2>6, Zenon
<1>7. CASE Generate
  <2>1. Live' = Live /\ device' = device /\ plan' = plan /\ pc = "generate"
    BY <1>7, Watermarks, Zenon DEF Generate, Live, history
  <2> QED
    BY <1>3, <2>1, SMTT(30)
<1>8. CASE CollapseSingle
  <2>1. /\ pc = "generate" /\ op = "single" /\ plan.gen = 0
        /\ UNCHANGED <<pool, given, unmarked>> /\ device' = device
    BY <1>8, KeysKept, Watermarks, Zenon DEF CollapseSingle, keyVars
  <2>2. device.next > plan.window
    BY <1>1, <2>1 DEF PlanShape, Target, Plans
  <2>3. PICK id : /\ id = IF device.next > MAX_PREKEY_ID THEN 1 ELSE device.next
                  /\ plan'.start = id /\ Recycle(id < device.next)
    BY <1>1, <1>8, <2>2, Zenon DEF CollapseSingle
  <2>4. CASE id < device.next
    <3>1. Live' = {}
      BY <2>1, <2>3, <2>4, Zenon DEF Recycle, Live
    <3> QED
      BY <3>1, Zenon DEF LiveBelowNext
  <2>5. CASE ~(id < device.next)
    <3>1. Live' = Live /\ id = device.next
      BY <1>1, <2>1, <2>2, <2>3, <2>5 DEF Recycle, Live, Plans
    <3> QED
      BY <1>1, <2>1, <2>3, <3>1, Zenon DEF LiveBelowNext
  <2> QED
    BY <2>4, <2>5, Zenon
<1>9. CASE Mark
  <2>1. Live' = Live /\ device'.next = plan.next /\ pc = "mark" /\ pc' = "flush"
    BY <1>9, KeysKept, Watermarks, Zenon DEF Mark, Live, keyVars
  <2>2. \A k \in Live : k[1] < plan.next
    <3>1. \A k \in Live : k[1] \in Nat
      BY <1>2, Zenon DEF Live
    <3>2. CASE plan.gen = 0
      BY <1>1, <2>1, <3>2, Zenon DEF PlanShape, LiveBelowNext
    <3>3. CASE plan.gen > 0
      <4>1. plan.next = plan.start + plan.gen
        BY <1>1, <2>1, <3>3, SMTT(30) DEF PlanShape
      <4>2. \A k \in Live : k[1] < plan.start
        BY <1>1, <2>1, <3>3, Zenon DEF LiveBelowNext
      <4> QED
        BY <1>1, <3>1, <3>3, <4>1, <4>2, SMTT(30) DEF Plans
    <3> QED
      BY <1>1, <3>2, <3>3 DEF Plans
  <2> QED
    BY <2>1, <2>2, Zenon DEF LiveBelowNext
<1>10. CASE ReuseSingle
  <2>1. PICK id \in Leftover : /\ given' = given \cup {<<id, store[id]>>}
                               /\ device'.next = device.next
    BY <1>10, WatermarksReuse, Zenon
  <2>2. pc' = "idle" /\ UNCHANGED <<pool, unmarked, recycled>>
    BY <1>10, KeysKept, Zenon DEF ReuseSingle, Finish, history
  <2>3. Live' \subseteq Live \cup {<<id, store[id]>>} /\ id < device.next
    BY <2>1, <2>2, Zenon DEF Live, Leftover
  <2> QED
    BY <1>1, <2>1, <2>2, <2>3 DEF LiveBelowNext
<1>11. CASE AwaitFlush
  <2>1. /\ pc' \notin {"generate", "mark"} /\ device' = device
        /\ UNCHANGED <<pool, unmarked, recycled>>
    BY <1>11, Watermarks, KeysKept, Zenon DEF AwaitFlush, Finish, Abort, history
  <2>2. CASE given' = given
    BY <1>3, <2>1, <2>2, Zenon DEF Live
  <2>3. CASE given' # given
    <3>1. pc = "flush" /\ op = "single" /\ given' = given \cup {<<plan.start, store[plan.start]>>}
      BY <1>11, <2>3, Zenon DEF AwaitFlush
    <3>2. plan.start < device.next
      BY <1>1, <3>1, SMTT(30) DEF PlanShape, Marked, Plans
    <3>3. Live' \subseteq Live \cup {<<plan.start, store[plan.start]>>}
      BY <2>1, <3>1, Zenon DEF Live
    <3> QED
      BY <1>1, <2>1, <3>2, <3>3, SMTT(30) DEF LiveBelowNext
  <2> QED
    BY <2>2, <2>3, Zenon
<1>12. CASE Window \/ Abandon
  <2>1. Live' = Live
    BY <1>12, KeysKept, Zenon DEF Live, keyVars
  <2>2. pc' \notin {"generate", "mark"} /\ pc \in {"window", "abandon"}
    BY <1>12, ZenonT(30) DEF Window, Abandon
  <2>3. device'.next = device.next
    BY <1>1, <1>12, <2>2, Watermarks, WatermarksAbandon, Zenon DEF PlanShape, Marked
  <2> QED
    BY <1>3, <2>1, <2>2, <2>3, Zenon
<1>13. CASE Send
  <2>1. /\ device' = device /\ pool' \subseteq pool \cup rows
        /\ UNCHANGED <<given, unmarked, recycled>> /\ pc' \notin {"generate", "mark"}
    BY <1>13, Watermarks, Zenon DEF Send, Abort, Finish
  <2>2. Live' \subseteq Live \cup rows
    BY <2>1, Zenon DEF Live
  <2> QED
    BY <1>1, <2>1, <2>2, Zenon DEF LiveBelowNext, RowsStored
<1>14. ASSUME NEW k \in pool \cup given, Use(k) PROVE LiveBelowNext'
  <2>1. /\ pool' \subseteq pool /\ given' \subseteq given /\ device' = device
        /\ UNCHANGED <<unmarked, recycled, pc, plan>>
    BY <1>14, Watermarks, Zenon DEF Use, passVars, history
  <2>2. Live' \subseteq Live
    BY <2>1, Zenon DEF Live
  <2> QED
    BY <1>3, <2>1, <2>2, Zenon
<1>15. CASE Crash
  <2>1. /\ device' = disk /\ pc' = "idle" /\ UNCHANGED <<pool, given, recycled>>
        /\ unmarked' = unmarked \cup {k \in pool \cup given : k[1] >= disk.next}
    BY <1>15, Watermarks, KeysKept, ZenonT(30) DEF Crash, Finish, keyVars
  <2>2. disk.next \in Nat
    BY <1>1, PreKeysAssumption DEF PreKeysTypeOK, SaverTypeOK
  <2>3. \A k \in Live' : k[1] < disk.next
    BY <1>2, <2>1, <2>2 DEF Live
  <2> QED
    BY <2>1, <2>3, Zenon DEF LiveBelowNext
<1> QED
  BY NextCases, <1>4, <1>5, <1>6, <1>7, <1>8, <1>9, <1>10, <1>11, <1>12, <1>13,
     <1>14, <1>15, SMTT(30)

\* A key that is out is overwritten by no generation.
LEMMA OfferedStep ==
    ASSUME IInv, [Next]_preKeyVars
    PROVE  OfferedKeyIsStored'
<1> DEFINE Offered == (pool \cup given) \ (used \cup recycled \cup unmarked)
<1>1. /\ OfferedKeyIsStored /\ PreKeysTypeOK /\ LiveBelowNext /\ RowsStored
      /\ store \in [Ids -> Nat] /\ plan \in Plans
      /\ pool \subseteq Keys /\ given \subseteq Keys
  BY Zenon DEF IInv, PreKeysTypeOK
<1>2. ASSUME Offered' \subseteq Offered, store' = store PROVE OfferedKeyIsStored'
  BY <1>1, <1>2, Zenon DEF OfferedKeyIsStored
<1>3. CASE \/ \E caller \in {"login", "low", "refresh", "single"} : Begin(caller)
           \/ PrekeyLow \/ Mark \/ Window \/ Abandon \/ Done \/ BackendFails \/ Same
  BY <1>2, <1>3, KeysKept, Zenon DEF keyVars, history
<1>4. CASE Plan \/ CollapseSingle \/ Crash
  <2>1. /\ UNCHANGED <<store, pool, given, used>>
        /\ recycled \subseteq recycled' /\ unmarked \subseteq unmarked'
    BY <1>4, KeysKept, Zenon DEF Plan, CollapseSingle, Crash, Recycle, keyVars
  <2> QED
    BY <1>2, <2>1, Zenon
<1>5. CASE Generate
  <2>1. /\ store' = [i \in Ids |-> IF i \in Fresh THEN passes + 1 ELSE store[i]]
        /\ UNCHANGED <<pool, given, used, recycled, unmarked>> /\ pc = "generate"
    BY <1>5, Zenon DEF Generate, history
  <2>2. ASSUME NEW k \in Offered PROVE k[1] \in Ids \ Fresh
    <3>1. k[1] \in Ids /\ k[1] \in Nat
      BY <1>1 DEF Keys, Ids
    <3>2. plan.gen > 0 => k[1] < plan.start
      BY <1>1, <2>1, Zenon DEF LiveBelowNext, Live, Planned
    <3> QED
      BY <1>1, <3>1, <3>2 DEF Fresh, Plans
  <2>3. \A k \in Offered : store'[k[1]] = store[k[1]]
    BY <2>1, <2>2, Zenon
  <2> QED
    BY <1>1, <2>1, <2>3, Zenon DEF OfferedKeyIsStored
<1>6. CASE ReuseSingle \/ AwaitFlush
  <2>1. UNCHANGED <<store, pool, used, recycled, unmarked>>
    BY <1>6, KeysKept, Zenon DEF history
  <2>2. given' = given \/ \E i : given' = given \cup {<<i, store[i]>>}
    BY <1>6, Zenon DEF ReuseSingle, AwaitFlush
  <2> QED
    BY <1>1, <2>1, <2>2 DEF OfferedKeyIsStored
<1>7. CASE Send
  <2>1. UNCHANGED <<store, given, used, recycled, unmarked>> /\ pool' \subseteq pool \cup rows
    BY <1>7, Zenon DEF Send
  <2> QED
    BY <1>1, <2>1, Zenon DEF OfferedKeyIsStored, RowsStored
<1>8. ASSUME NEW k \in pool \cup given, Use(k) PROVE OfferedKeyIsStored'
  <2>1. /\ store[k[1]] = k[2] /\ store' = [store EXCEPT ![k[1]] = 0]
        /\ used' = used \cup {k} /\ pool' \subseteq pool /\ given' \subseteq given
        /\ UNCHANGED <<recycled, unmarked>>
    BY <1>8, Zenon DEF Use, history
  <2>2. ASSUME NEW r \in Offered' PROVE store'[r[1]] = r[2]
    <3>1. r \in Offered /\ r # k /\ r \in Keys /\ k \in Keys
      BY <1>1, <2>1, Zenon
    <3>2. store[r[1]] = r[2]
      BY <1>1, <3>1, Zenon DEF OfferedKeyIsStored
    <3>3. r[1] # k[1]
      BY <2>1, <3>1, <3>2 DEF Keys
    <3>4. r[1] \in Ids
      BY <3>1, Zenon DEF Keys
    <3> QED
      BY <1>1, <2>1, <3>2, <3>3, <3>4, Zenon
  <2> QED
    BY <2>2, Zenon DEF OfferedKeyIsStored
<1> QED
  BY NextCases, <1>3, <1>4, <1>5, <1>6, <1>7, <1>8, Zenon

\* A used key stays deleted: its id may get a new key, never the old one.
LEMMA UsedStep ==
    ASSUME IInv, [Next]_preKeyVars
    PROVE  UsedStaysDeleted'
<1>1. /\ UsedStaysDeleted /\ HistoryTyped /\ store \in [Ids -> Nat] /\ passes \in Nat
      /\ used \subseteq Keys /\ pool \subseteq Keys /\ given \subseteq Keys
  BY Zenon DEF IInv, PreKeysTypeOK
<1>2. \A k \in used : k[1] \in Ids /\ k[2] \in Nat /\ k[2] <= passes
  BY <1>1, Zenon DEF HistoryTyped, Keys
<1>3. CASE Generate
  <2>1. /\ store' = [i \in Ids |-> IF i \in Fresh THEN passes + 1 ELSE store[i]]
        /\ used' = used
    BY <1>3, Zenon DEF Generate
  <2> QED
    BY <1>1, <1>2, <2>1 DEF UsedStaysDeleted
<1>4. ASSUME NEW k \in pool \cup given, Use(k) PROVE UsedStaysDeleted'
  <2>1. store' = [store EXCEPT ![k[1]] = 0] /\ used' = used \cup {k}
    BY <1>4, Zenon DEF Use
  <2>2. \A r \in used \cup {k} : r[1] \in Ids /\ 1 <= r[2] /\ r[2] \in Nat
    BY <1>1, Zenon DEF HistoryTyped, Keys
  <2> QED
    BY <1>1, <2>1, <2>2 DEF UsedStaysDeleted
<1>5. CASE store' = store /\ used' = used
  BY <1>1, <1>5, Zenon DEF UsedStaysDeleted
<1>6. CASE Send
  BY <1>5, <1>6, Zenon DEF Send
<1> QED
  BY NextCases, KeysKept, <1>3, <1>4, <1>5, <1>6, Zenon DEF keyVars

\* What was sent is outside the window again before the next send.
LEMMA SentStep ==
    ASSUME IInv, [Next]_preKeyVars
    PROVE  SentOutside' /\ SentOnce'
<1>1. /\ SentOutside /\ SentOnce /\ PreKeysTypeOK /\ PlanShape /\ RowsStored
      /\ HistoryTyped /\ FreshUnknown
      /\ store \in [Ids -> Nat] /\ plan \in Plans /\ passes \in Nat
      /\ MAX_PREKEY_ID \in Nat /\ Wanted \in 1..MAX_PREKEY_ID
      /\ device.first \in Nat /\ device.next \in Nat /\ device.first <= device.next
  BY PreKeysAssumption DEF IInv, PreKeysTypeOK, SaverTypeOK, AllOrdered, Ordered
<1>2. \A k \in sent \cup rows : k \in Keys /\ k[1] \in Ids /\ k[1] \in Nat /\ k[2] \in Nat
  BY <1>1 DEF HistoryTyped, PreKeysTypeOK, Keys, Ids
<1>3. \A k \in sent : 1 <= k[2] /\ k[2] <= passes
  BY <1>1, SMTT(30) DEF HistoryTyped
<1>4. ASSUME UNCHANGED <<store, sent, resent, ahead>>,
             device'.first = device.first /\ device'.next = device.next,
             \/ pc' \notin {"abandon", "flush2", "send"}
             \/ pc \in {"abandon", "flush2", "send"} /\ rows' = rows
      PROVE  SentOutside' /\ SentOnce'
  BY <1>1, <1>4, Zenon DEF SentOutside, SentOnce
<1>5. ASSUME NEW caller \in {"login", "low", "refresh", "single"}, Begin(caller)
      PROVE  SentOutside' /\ SentOnce'
  <2>1. UNCHANGED <<store, sent, resent, ahead>> /\ device' = device
    BY <1>5, KeysKept, Watermarks, Zenon DEF keyVars, history
  <2>2. pc' \notin {"abandon", "flush2", "send"}
    BY <1>5, SMTT(30) DEF Begin
  <2> QED
    BY <1>4, <2>1, <2>2, Zenon
<1>6. CASE PrekeyLow \/ Done \/ BackendFails \/ Same \/ Plan \/ CollapseSingle
  <2>1. UNCHANGED <<store, sent, resent, ahead>>
    BY <1>6, KeysKept, Zenon DEF keyVars
  <2>2. device'.first = device.first /\ device'.next = device.next
    BY <1>6, Watermarks, Zenon
  <2>3. \/ pc' \notin {"abandon", "flush2", "send"}
        \/ pc' = pc /\ rows' = rows
    BY <1>6, SMTT(30) DEF PrekeyLow, Done, BackendFails, Same, Plan, CollapseSingle, Abort, Finish,
       passVars
  <2> QED
    BY <1>4, <2>1, <2>2, <2>3, Zenon
<1>7. CASE Generate
  <2>1. /\ store' = [i \in Ids |-> IF i \in Fresh THEN passes + 1 ELSE store[i]]
        /\ UNCHANGED <<sent, resent, ahead>> /\ pc' = "mark" /\ device' = device
    BY <1>7, Watermarks, Zenon DEF Generate, history
  <2>2. \A k \in sent : store'[k[1]] = k[2] => store[k[1]] = k[2]
    BY <1>1, <1>2, <1>3, <2>1, SMTT(30)
  <2> QED
    BY <1>1, <2>1, <2>2, Zenon DEF SentOutside, SentOnce
<1>8. CASE ReuseSingle
  <2>1. PICK id \in Leftover : device'.first = id /\ device'.next = device.next
    BY <1>8, WatermarksReuse
  <2>2. device.first <= id /\ id \in Nat
    BY <1>1, <1>8, <2>1 DEF Leftover, Stored, Ids, PlanShape, Planned, ReuseSingle
  <2>3. UNCHANGED <<store, sent, resent, ahead>> /\ pc' = "idle"
    BY <1>8, KeysKept, Zenon DEF ReuseSingle, Finish, history
  <2>4. \A k \in sent : k[1] < device.first => k[1] < id
    BY <1>1, <1>2, <2>2, SMTT(30)
  <2> QED
    BY <1>1, <2>1, <2>3, <2>4, Zenon DEF SentOutside, SentOnce
<1>9. CASE Mark
  <2>1. /\ UNCHANGED <<store, sent, resent, ahead>> /\ pc' = "flush" /\ pc = "mark"
        /\ device'.first = plan.window /\ device'.next = plan.next
    BY <1>9, KeysKept, Watermarks, Zenon DEF Mark, keyVars
  <2>2. ASSUME NEW k \in sent \ ahead, store[k[1]] = k[2]
        PROVE  k[1] < plan.window \/ k[1] >= plan.next
    <3>1. k[1] < device.first \/ k[1] >= device.next
      BY <1>1, <2>2, SMTT(30) DEF SentOutside
    <3>2. CASE plan.gen = 0
      BY <1>1, <2>1, <3>1, <3>2, Zenon DEF PlanShape, Planned
    <3>3. CASE plan.gen > 0
      <4>1. k[1] \notin Fresh
        <5>1. k[2] < passes
          BY <1>1, <2>1, <2>2, <3>3, ZenonT(30) DEF FreshUnknown
        <5>2. \A i \in Ids : i \in Fresh => store[i] = passes
          BY <1>1, <2>1, Zenon DEF FreshUnknown
        <5>3. k[1] \in Ids /\ k[2] \in Nat /\ passes \in Nat
          BY <1>1, <1>2, <2>2, Zenon DEF Keys
        <5>4. k[2] # passes
          BY <5>1, <5>3
        <5> QED
          BY <2>2, <5>2, <5>3, <5>4, Zenon
      <4>2. k[1] < plan.start \/ k[1] >= plan.next
        <5>1. plan.next = plan.start + plan.gen
          BY <1>1, <2>1, <3>3, SMTT(30) DEF PlanShape, Planned
        <5> QED
          BY <1>1, <1>2, <4>1, <5>1, SMTT(30) DEF Fresh, Plans
      <4>3. \/ plan.window = plan.start
            \/ plan.window = device.first /\ plan.start = device.next
        BY <1>1, <2>1, <3>3, Zenon DEF PlanShape, Planned
      <4> QED
        BY <1>1, <1>2, <3>1, <4>2, <4>3 DEF Plans
    <3> QED
      BY <1>1, <3>2, <3>3 DEF Plans
  <2> QED
    BY <1>1, <2>1, <2>2, Zenon DEF SentOutside, SentOnce
<1>10. CASE AwaitFlush
  <2>1. UNCHANGED <<store, sent, resent, ahead>> /\ device' = device
    BY <1>10, KeysKept, Watermarks, Zenon DEF history
  <2>2. \/ pc' \notin {"abandon", "flush2", "send"}
        \/ pc = "flush2" /\ rows' = rows
    BY <1>10, Zenon DEF AwaitFlush, Finish, Abort
  <2> QED
    BY <1>4, <2>1, <2>2, Zenon
<1>11. CASE Window
  <2>1. UNCHANGED <<store, sent, resent, ahead>>
    BY <1>11, KeysKept, SMTT(30) DEF keyVars
  <2>2. CASE InWindow = {}
    <3>1. pc' = "plan" /\ device'.first = plan.next /\ device'.next = plan.next
      BY <1>11, <2>2, Watermarks, Zenon DEF Window
    <3>2. \A k \in sent : k[1] < plan.next \/ k[1] >= plan.next
      BY <1>1, <1>2, SMTT(30) DEF Plans
    <3> QED
      BY <1>1, <2>1, <3>1, <3>2, Zenon DEF SentOutside, SentOnce
  <2>3. CASE InWindow # {}
    <3>1. /\ pc = "window" /\ rows' = {<<i, store[i]>> : i \in InWindow}
          /\ device' = device
      BY <1>11, <2>3, Watermarks, Zenon DEF Window
    <3>2. /\ plan.window + Wanted <= device.next /\ device.first = plan.window
      BY <1>1, <3>1, Zenon DEF PlanShape, Marked, Target
    <3>3. \A i \in InWindow : device.first <= i /\ i < device.next /\ i \in Nat
      BY <1>1, <3>2, SMTT(30) DEF InWindow, Stored, Ids, Plans
    <3>4. ASSUME NEW k \in rows', k \in sent PROVE k \in ahead
      <4>1. PICK i \in InWindow : k = <<i, store[i]>>
        BY <3>1, <3>4, SMTT(30)
      <4>2. k[1] = i /\ k[2] = store[i]
        BY <4>1, SMTT(30)
      <4> QED
        BY <1>1, <3>3, <3>4, <4>2, SMTT(30) DEF SentOutside
    <3> QED
      BY <1>1, <2>1, <3>1, <3>4, Zenon DEF SentOutside, SentOnce
  <2> QED
    BY <2>2, <2>3, SMTT(30)
<1>12. CASE Abandon
  <2>1. PICK last \in rows : device'.first = last[1] + 1 /\ device'.next = plan.next
    BY <1>12, WatermarksAbandon
  <2>2. /\ UNCHANGED <<store, sent, resent, ahead>> /\ pc = "abandon" /\ rows' = rows
    BY <1>12, KeysKept, SMTT(30) DEF Abandon, keyVars
  <2>3. device.next = plan.next /\ device.first <= last[1] /\ last[1] \in Nat
    BY <1>1, <1>2, <2>1, <2>2, Zenon DEF PlanShape, Marked, RowsStored
  <2>4. \A k \in sent : k[1] < device.first => k[1] < last[1] + 1
    BY <1>1, <1>2, <2>3, SMTT(30)
  <2> QED
    BY <1>1, <2>1, <2>2, <2>3, <2>4, SMTT(30) DEF SentOutside, SentOnce
<1>13. CASE Send
  <2>1. /\ pc = "send" /\ sent' = sent \cup rows /\ resent' = resent \cup (sent \cap rows)
        /\ UNCHANGED <<store, ahead>> /\ device' = device
        /\ pc' \notin {"abandon", "flush2", "send"}
    BY <1>13, Watermarks, ZenonT(30) DEF Send, Abort, Finish
  <2>2. \A k \in rows : k[1] < device.first /\ (k \in sent => k \in ahead)
    BY <1>1, <2>1, SMTT(30) DEF PlanShape, Given, SentOutside
  <2> QED
    BY <1>1, <2>1, <2>2, Zenon DEF SentOutside, SentOnce
<1>14. ASSUME NEW k \in pool \cup given, Use(k) PROVE SentOutside' /\ SentOnce'
  <2>1. /\ store' = [store EXCEPT ![k[1]] = 0] /\ device' = device
        /\ UNCHANGED <<sent, resent, ahead, pc, rows>>
    BY <1>14, Watermarks, ZenonT(30) DEF Use, passVars, history
  <2>2. \A r \in sent : store'[r[1]] = r[2] => store[r[1]] = r[2]
    BY <1>1, <1>2, <1>3, <2>1, SMTT(30)
  <2> QED
    BY <1>1, <2>1, <2>2, Zenon DEF SentOutside, SentOnce
<1>15. CASE Crash
  <2>1. /\ device' = disk /\ pc' = "idle" /\ UNCHANGED <<store, sent, resent>>
        /\ ahead' = ahead \cup {k \in sent : k[1] >= disk.first}
    BY <1>15, Watermarks, KeysKept, ZenonT(30) DEF Crash, Finish, keyVars
  <2>2. disk.first \in Nat
    BY <1>1, PreKeysAssumption DEF PreKeysTypeOK, SaverTypeOK
  <2>3. \A k \in sent \ ahead' : k[1] < disk.first
    BY <1>2, <2>1, <2>2
  <2> QED
    BY <1>1, <2>1, <2>3, Zenon DEF SentOutside, SentOnce
<1> QED
  BY NextCases, <1>5, <1>6, <1>7, <1>8, <1>9, <1>10, <1>11, <1>12, <1>13, <1>14, <1>15, SMTT(30)

\* The initial state satisfies the invariant.
LEMMA InitIInv ==
    ASSUME Init
    PROVE  IInv
<1> USE DEF Init
<1>1. SaverInv /\ SaverTypeOK
  BY SaverInitInv, SMTT(30) DEF SaverInv
<1>2. /\ device = InitialDevice /\ disk = InitialDevice
      /\ \A s \in Savers : saving[s].value = InitialDevice
  BY SMTT(30) DEF SaverInit, Idle
<1>3. InitialDevice = [next |-> 1, first |-> 0, has |-> FALSE]
      /\ MAX_PREKEY_ID \in Nat /\ Wanted \in Nat
  BY PreKeysAssumption
<1>4. PreKeysTypeOK
  <2>1. plan \in Plans
    BY <1>3 DEF NoPlan, Plans
  <2>2. store \in [Ids -> Nat] /\ passes \in Nat /\ crashes \in Nat /\ lows \in Nat
    BY Zenon
  <2>3. rerun \in BOOLEAN /\ low \in BOOLEAN
    BY Zenon
  <2>4. /\ op \in {"none", "login", "low", "refresh", "single"}
        /\ pc \in {"idle", "plan", "generate", "mark", "flush", "window", "abandon",
                   "flush2", "send", "done"}
        /\ rows \subseteq Keys /\ pool \subseteq Keys /\ given \subseteq Keys
        /\ used \subseteq Keys
    BY Zenon
  <2> QED
    BY <1>1, <2>1, <2>2, <2>3, <2>4, SMTT(30) DEF PreKeysTypeOK
<1>5. AllOrdered
  <2>1. Ordered(InitialDevice)
    BY <1>3, SMTT(30) DEF Ordered
  <2> QED
    BY <1>2, <2>1, Zenon DEF AllOrdered
<1>6. HistoryTyped
  BY <1>3, SMTT(30) DEF HistoryTyped
<1>7. PlanShape /\ LiveBelowNext /\ FreshUnknown /\ RerunGenerates
  BY SMTT(30) DEF PlanShape, LiveBelowNext, FreshUnknown, RerunGenerates, Planned, Marked, Given, Live
<1>8. RowsStored /\ OfferedKeyIsStored /\ UsedStaysDeleted /\ SentOutside /\ SentOnce
  BY Zenon DEF RowsStored, OfferedKeyIsStored, UsedStaysDeleted, SentOutside, SentOnce
<1> QED
  BY <1>1, <1>4, <1>5, <1>6, <1>7, <1>8, Zenon DEF IInv

----------------------------------------------------------------------------
(* Theorems *)

\* The inductive invariant of the prekeys, and with it their type invariant.
THEOREM PreKeysInvariant == Spec => []IInv
<1>1. IInv /\ [Next]_preKeyVars => IInv'
  <2> SUFFICES ASSUME IInv, [Next]_preKeyVars PROVE IInv'
    OBVIOUS
  <2>1. SaverInv' /\ PreKeysTypeOK' /\ HistoryTyped' /\ AllOrdered'
    BY TypeStep, HistoryStep, OrderedStep, Zenon
  <2>2. PlanShape' /\ LiveBelowNext' /\ FreshUnknown' /\ RowsStored'
    BY PlanStep, LiveStep, FreshStep, RowsStep, Zenon
  <2>3. OfferedKeyIsStored' /\ UsedStaysDeleted' /\ SentOutside' /\ SentOnce'
        /\ RerunGenerates'
    BY OfferedStep, UsedStep, SentStep, RerunStep, Zenon
  <2> QED
    BY <2>1, <2>2, <2>3, Zenon DEF IInv
<1> QED
  BY <1>1, InitIInv, PTL DEF Spec

\* Every behaviour of the prekeys is one of the device saver: the passes use
\* modify_device and flush and change the device in no other way.
THEOREM ImplementsSaver == Spec => SaverSpec
<1>1. Init => SaverInit
  BY Zenon DEF Init
<1>2. IInv /\ [Next]_preKeyVars => [SaverNext]_saverVars
  BY SaverStepOf, Zenon
<1>3. Spec => []IInv
  BY PreKeysInvariant, Zenon
<1> QED
  BY <1>1, <1>2, <1>3, PTL DEF Spec, SaverSpec

\* SavedOrPending with the passes of prekeys.rs as the saver's clients.
THEOREM PreKeysSavedTheorem == Spec => []SavedOrPending
BY ImplementsSaver, SavedOrPendingTheorem, PTL

\* OfferedKeyIsStored for every id range, batch size and number of crashes.
THEOREM OfferedTheorem == Spec => []OfferedKeyIsStored
<1>1. IInv => OfferedKeyIsStored
  BY Zenon DEF IInv
<1> QED
  BY <1>1, PreKeysInvariant, PTL

\* SentOnce for every id range, batch size and number of crashes.
THEOREM SentOnceTheorem == Spec => []SentOnce
<1>1. IInv => SentOnce
  BY Zenon DEF IInv
<1> QED
  BY <1>1, PreKeysInvariant, PTL

\* UsedStaysDeleted for every id range, batch size and number of crashes.
THEOREM UsedTheorem == Spec => []UsedStaysDeleted
<1>1. IInv => UsedStaysDeleted
  BY Zenon DEF IInv
<1> QED
  BY <1>1, PreKeysInvariant, PTL

\* WatermarksOrdered for every id range and every order of the saves.
THEOREM WatermarksTheorem == Spec => []WatermarksOrdered
<1>1. IInv => WatermarksOrdered
  BY Zenon DEF IInv, AllOrdered, Ordered, WatermarksOrdered
<1> QED
  BY <1>1, PreKeysInvariant, PTL

\* RerunFindsKeys: a generated window holds its fresh keys, and a rerun
\* generates.
THEOREM RerunTheorem == Spec => []RerunFindsKeys
<1>1. IInv => RerunFindsKeys
  <2> SUFFICES ASSUME IInv, pc = "window", InWindow = {}
               PROVE  rerun /\ plan.gen = 0
    BY Zenon DEF RerunFindsKeys
  <2>1. /\ plan.gen \in Nat /\ plan.start \in Nat /\ plan.window \in Nat
        /\ rerun \in BOOLEAN
    BY DEF IInv, PreKeysTypeOK, Plans
  <2>2. ASSUME plan.gen > 0 PROVE FALSE
    <3>1. plan.start \in Ids /\ plan.start \in Fresh
      BY <2>2, FreshIds, SMTT(30) DEF Marked
    <3>2. store[plan.start] = passes /\ passes > 0
      BY <2>2, <3>1, SMTT(30) DEF IInv, FreshUnknown
    <3>3. plan.window <= plan.start /\ plan.start < plan.window + Wanted
      BY <2>2, Zenon DEF IInv, PlanShape, Marked, Target
    <3> QED
      BY <3>1, <3>2, <3>3 DEF InWindow, Stored
  <2>3. plan.gen = 0
    BY <2>1, <2>2
  <2>4. rerun
    BY <2>1, <2>3 DEF IInv, RerunGenerates
  <2> QED
    BY <2>3, <2>4, Zenon
<1> QED
  BY <1>1, PreKeysInvariant, PTL

============================================================================
