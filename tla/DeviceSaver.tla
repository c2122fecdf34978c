---------------------------- MODULE DeviceSaver ----------------------------
(***************************************************************************)
(* PersistenceManager (persistence_manager.rs): the device state in memory,*)
(* its dirty flag, the background saver, and the callers of flush.         *)
(*                                                                         *)
(* save_to_disk is three steps that other threads interleave with: swap    *)
(* the flag, serialise the device, write the row.  Everything else happens *)
(* under the device's write guard and is one step.                         *)
(***************************************************************************)
EXTENDS Naturals

CONSTANTS Devices,       \* values of the device row
          InitialDevice,
          Flushers,      \* tasks that call flush()
          Background,    \* the background saver
          MaxConsecutive,  \* MAX_CONSECUTIVE_FAILURES
          MaxFailures    \* bound on failing writes

Savers == Flushers \cup {Background}

ASSUME SaverAssumption ==
    /\ InitialDevice \in Devices /\ Background \notin Flushers
    /\ MaxConsecutive \in Nat \ {0} /\ MaxFailures \in Nat

VARIABLES device,    \* the device in memory
          dirty,
          disk,      \* the row of the backend
          saving,    \* save_to_disk of each task
          halted,    \* saver_halted: the background saver has given up
          streak,    \* consecutive_failures
          edits,     \* modifications so far
          newest,    \* of those, how many the newest write included
          late,      \* an older write landed after a newer one
          failures   \* failing writes so far

saverVars == <<device, dirty, disk, saving, halted, streak, edits, newest, late,
               failures>>

Idle == [at |-> "idle", value |-> InitialDevice, edit |-> 0]
Stages == {"idle", "read", "write", "ok", "failed"}

\* Types of PersistenceManager and of its saves.
SaverTypeOK ==
    /\ device \in Devices /\ disk \in Devices
    /\ dirty \in BOOLEAN /\ halted \in BOOLEAN /\ late \in BOOLEAN
    /\ saving \in [Savers -> [at: Stages, value: Devices, edit: Nat]]
    /\ streak \in Nat /\ edits \in Nat /\ newest \in Nat /\ failures \in Nat

SaverInit ==
    /\ device = InitialDevice /\ disk = InitialDevice /\ dirty = FALSE
    /\ saving = [s \in Savers |-> Idle]
    /\ halted = FALSE /\ streak = 0
    /\ edits = 0 /\ newest = 0 /\ late = FALSE /\ failures = 0

At(s, stage) == saving' = [saving EXCEPT ![s].at = stage]

\* modify_device, under the write guard.
modify_device(d) ==
    /\ device' = d /\ dirty' = TRUE /\ edits' = edits + 1
    /\ UNCHANGED <<disk, saving, halted, streak, newest, late, failures>>

\* save_to_disk begins by taking the flag; without it there is nothing to do,
\* also when another task has taken it and not written yet.
TakeFlag(s) ==
    /\ saving[s].at = "idle" /\ dirty
    /\ dirty' = FALSE /\ At(s, "read")
    /\ UNCHANGED <<device, disk, halted, streak, edits, newest, late, failures>>

NotDirty(s) ==
    /\ saving[s].at = "idle" /\ ~dirty
    /\ At(s, "ok")
    /\ UNCHANGED <<device, dirty, disk, halted, streak, edits, newest, late, failures>>

\* to_serializable under the read guard.
Serialize(s) ==
    /\ saving[s].at = "read"
    /\ saving' = [saving EXCEPT ![s] =
                     [at |-> "write", value |-> device, edit |-> edits]]
    /\ UNCHANGED <<device, dirty, disk, halted, streak, edits, newest, late, failures>>

\* backend.save succeeds: the row is replaced as a whole.
Save(s) ==
    /\ saving[s].at = "write"
    /\ disk' = saving[s].value
    /\ late' = (saving[s].edit < newest)
    /\ newest' = IF saving[s].edit < newest THEN newest ELSE saving[s].edit
    /\ At(s, "ok")
    /\ UNCHANGED <<device, dirty, halted, streak, edits, failures>>

\* Fault: the flag is not restored after an error.
SaveFailsClean(s) ==
    /\ saving[s].at = "write" /\ failures < MaxFailures
    /\ failures' = failures + 1
    /\ At(s, "failed")
    /\ UNCHANGED <<device, dirty, disk, halted, streak, edits, newest, late>>

\* backend.save fails: the flag is restored.
SaveFails(s) ==
    /\ saving[s].at = "write" /\ failures < MaxFailures
    /\ failures' = failures + 1
    /\ dirty' = TRUE
    /\ At(s, "failed")
    /\ UNCHANGED <<device, disk, halted, streak, edits, newest, late>>

\* The end of one iteration of the background saver.
EndIteration ==
    /\ saving[Background].at \in {"ok", "failed"}
    /\ saving' = [saving EXCEPT ![Background] = Idle]
    /\ streak' = IF saving[Background].at = "ok" THEN 0 ELSE streak + 1
    /\ halted' = (streak' >= MaxConsecutive)
    /\ UNCHANGED <<device, dirty, disk, edits, newest, late, failures>>

\* flush() returns to its caller.
FlushReturns(s) ==
    /\ saving[s].at \in {"ok", "failed"}
    /\ saving' = [saving EXCEPT ![s] = Idle]
    /\ UNCHANGED <<device, dirty, disk, halted, streak, edits, newest, late, failures>>

\* The process dies; PersistenceManager::new loads the row.
Restart ==
    /\ device' = disk /\ dirty' = FALSE
    /\ saving' = [s \in Savers |-> Idle]
    /\ halted' = FALSE /\ streak' = 0
    /\ newest' = edits /\ late' = FALSE
    /\ UNCHANGED <<disk, edits, failures>>

SaveStep(s) == Serialize(s) \/ Save(s)

\* A wake-up with nothing to do counts as a success.
IdleTick ==
    /\ ~halted /\ ~dirty /\ saving[Background].at = "idle" /\ streak > 0
    /\ streak' = 0
    /\ UNCHANGED <<device, dirty, disk, saving, halted, edits, newest, late, failures>>

BackgroundStep ==
    \/ ~halted /\ TakeFlag(Background)
    \/ SaveStep(Background) \/ EndIteration \/ IdleTick

SaverNext ==
    \/ \E d \in Devices : modify_device(d)
    \/ BackgroundStep
    \/ \E s \in Flushers : TakeFlag(s) \/ NotDirty(s) \/ SaveStep(s) \/ FlushReturns(s)
    \/ \E s \in Savers : SaveFails(s)
    \/ Restart

SaverSpec == SaverInit /\ [][SaverNext]_saverVars

----------------------------------------------------------------------------
(* Properties *)

\* "Dirty BEFORE the snapshot rebuild ... or it would exit clean and drop
\* the committed mutation": a modification is on disk, or flagged, or in the
\* hands of a task that will write exactly it or restore the flag; the one
\* exception is an older write that landed after a newer one.
SavedOrPending ==
    \/ dirty \/ disk = device \/ late
    \/ \E s \in Savers : \/ saving[s].at = "read"
                         \/ saving[s].at = "write" /\ saving[s].value = device

============================================================================
