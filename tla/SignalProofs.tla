---------------------------- MODULE SignalProofs ----------------------------
(***************************************************************************)
(* Proofs about SignalCache: a crash never loses both a prekey and the     *)
(* session it promoted, a session that is checked out comes back, the      *)
(* cache is a register under the session lock, its clean entries are       *)
(* bounded and no two tasks wait for each other, for any number of         *)
(* addresses, prekeys, tasks, jobs, evictions, failures and crashes.       *)
(***************************************************************************)
EXTENDS SignalCache, TLAPS, FiniteSetTheorems

----------------------------------------------------------------------------
(* The inductive invariant: the slots, the prekeys, and the tasks *)

\* What the marks say about a slot.
Slots ==
    \A a \in Addrs :
        /\ a \in dirty => entry[a].tag \in {"present", "out"}
        /\ a \in dirty /\ entry[a].tag = "present" => entry[a] = last[a]
        /\ a \in deleted => entry[a].tag = "absent" /\ last[a] = None

\* What is cached is what was stored last.
SlotsFresh ==
    \A a \in Addrs \ stale : ~InUse(a) =>
        /\ entry[a].tag = "present" => entry[a] = last[a]
        /\ entry[a].tag = "absent" => last[a] = None

\* A prekey whose session was given up: deleted, moved, dropped or overwritten.
Given == waived \cup dropped

\* The backend is behind the last store, and only by what is marked.
DiskIsOld ==
    \A a \in Addrs, p \in PreKeys :
        p \in disk[a].has => p \in last[a].has \/ p \in Given
CleanIsKept ==
    \A a \in Addrs, p \in PreKeys :
        a \notin dirty /\ a \notin deleted /\ p \in last[a].has
            => p \in disk[a].has \/ p \in Given

\* A consumed prekey is part of the session it is buffered with.
RemovedIsStored ==
    \A p \in PreKeys : removed[p] # NoAddr => p \in last[removed[p]].has \/ p \in Given

Working == {"lock2", "load", "read", "fill", "crypt", "store", "delete", "buffer"}
Loading == {"load", "read", "fill", "crypt"}

\* What a task at a place is doing.
JobAt(t) ==
    /\ pc[t] \in Working => t \in Workers /\ job[t].addr \in Addrs
    /\ pc[t] = "lock2" => job[t].op = "migrate"
    /\ pc[t] \in {"crypt", "store", "buffer"} => Takes(t)
    /\ pc[t] = "store" => job[t].rec \in Records
    /\ pc[t] \in Working /\ job[t].op = "migrate" => job[t].addr = Pn
    /\ pc[t] \in Loading /\ job[t].op = "pkmsg" => job[t].mark \in PreKeys
    /\ pc[t] \in Loading /\ job[t].op \in {"ratchet", "bundle"} => job[t].mark \in Steps
    /\ pc[t] = "store" /\ job[t].op = "pkmsg" /\ job[t].mark # NoAddr
          => job[t].mark \in PreKeys /\ job[t].mark \in job[t].rec.has
    /\ pc[t] = "buffer" => job[t].mark \in PreKeys

\* A job that takes session locks holds them while it works.
LocksAt(t) ==
    pc[t] \in Working /\ Takes(t) =>
        /\ lock[job[t].addr] = t
        /\ job[t].op = "migrate" /\ pc[t] # "lock2" => lock[Lid] = t

\* A flush holds the sessions mutex, and has done what its place says.
FlushAt(t) ==
    /\ pc[t] \in {"deletes", "prekeys"} => sessions = t
    /\ pc[t] = "deletes" =>
          /\ job[t].todo \subseteq deleted
          /\ \A a \in dirty : entry[a].tag = "present" => disk[a] = entry[a]
          /\ \A a \in deleted \ job[t].todo : disk[a] = None
    /\ pc[t] = "prekeys" =>
          \A p \in job[t].todo : /\ p \in PreKeys
                                 /\ p \in Given \/ \E a \in Addrs : p \in disk[a].has

\* What a reader brings is what was stored last.
ReaderAt(t) ==
    t \in Workers /\ t \notin gap =>
        /\ pc[t] = "fill" /\ entry[job[t].addr].tag = "none" /\ ~InUse(job[t].addr)
              => job[t].rec = last[job[t].addr]
        /\ pc[t] \in {"read", "fill"} /\ Takes(t)
              => job[t].addr \notin dirty /\ job[t].addr \notin deleted
        /\ pc[t] = "fill" /\ Takes(t) => job[t].rec = last[job[t].addr]

\* A fresh load has the prekeys of the session, a stored one the prekey it is for.
KeysAt(t) ==
    /\ pc[t] \in {"crypt", "store"} /\ job[t].op # "migrate" /\ job[t].fresh =>
          \A p \in PreKeys : p \in last[job[t].addr].has => p \in job[t].rec.has \/ p \in Given
    /\ pc[t] = "buffer" => job[t].mark \in last[job[t].addr].has \/ job[t].mark \in Given

TaskOK(t) == JobAt(t) /\ LocksAt(t) /\ FlushAt(t) /\ ReaderAt(t) /\ KeysAt(t)

IInv ==
    /\ SignalTypeOK /\ Slots /\ OutIsHeld /\ CleanIsDurable /\ SlotsFresh
    /\ DiskIsOld /\ CleanIsKept /\ RemovedIsStored /\ PrekeyOrSession
    /\ \A t \in Tasks : TaskOK(t)

----------------------------------------------------------------------------
(* Values *)

Entries == Records \cup {None, Absent, Out}
JobRecord == [op: Ops \cup {"none", "cleanup"}, addr: Addrs \cup {NoAddr},
              mark: Marks \cup {NoAddr}, rec: Records \cup {None}, fresh: BOOLEAN,
              todo: SUBSET (Addrs \cup PreKeys)]

\* The tags tell the entries apart.
LEMMA Values ==
    /\ None.tag = "none" /\ None.has = {} /\ Absent.tag = "absent" /\ Out.tag = "out"
    /\ \A r \in Records : r.tag = "present" /\ r.has \subseteq Marks
    /\ \A marks \in SUBSET Marks : /\ Present(marks) \in Records
                                   /\ Present(marks).has = marks
<1>1. \A marks \in SUBSET Marks : Present(marks).tag = "present" /\ Present(marks).has = marks
  BY Zenon DEF Present
<1>2. \A r \in Records : \E marks \in SUBSET Marks : r = Present(marks)
  BY Zenon DEF Records
<1> QED
  BY <1>1, <1>2 DEF Records, None, Absent, Out

LEMMA Tags ==
    ASSUME NEW e \in Entries
    PROVE  /\ e.tag = "none" <=> e = None
           /\ e.tag = "absent" <=> e = Absent
           /\ e.tag = "out" <=> e = Out
           /\ e.tag = "present" <=> e \in Records
           /\ e.tag \in {"none", "absent", "out", "present"}
BY Values, Zenon DEF Entries

\* What an eviction removes is neither marked nor in use.
LEMMA VictimFacts ==
    ASSUME NEW map, NEW dirt, NEW del, NEW victims \in Victims(map, dirt, del)
    PROVE  \A a \in victims : /\ a \in Addrs /\ a \notin dirt /\ a \notin del
                              /\ map[a].tag # "none" /\ map[a].tag # "out"
<1> DEFINE clean == {a \in Cached(map) \ (dirt \cup del) : map[a].tag # "out"}
<1>1. victims \subseteq clean
  BY Zenon DEF Victims
<1> QED
  BY <1>1, Zenon DEF Cached

\* The map after an eviction.
LEMMA Trimmed ==
    ASSUME NEW map \in [Addrs -> Entries], NEW dirt, NEW del, SetMap(map, dirt, del),
           gap \subseteq Tasks
    PROVE  /\ entry' \in [Addrs -> Entries] /\ dirty' = dirt /\ deleted' = del
           /\ gap \subseteq gap' /\ gap' \subseteq Tasks
           /\ \A a \in Addrs :
                 \/ entry'[a] = map[a]
                 \/ /\ entry'[a] = None /\ a \notin dirt /\ a \notin del
                    /\ map[a].tag # "none" /\ map[a].tag # "out"
                    /\ \A t \in Tasks : pc[t] = "fill" /\ job[t].addr = a => t \in gap'
<1>1. PICK victims \in Victims(map, dirt, del) :
        /\ entry' = [a \in Addrs |-> IF a \in victims THEN None ELSE map[a]]
        /\ gap' = gap \cup Readers(victims, {"fill"})
        /\ dirty' = dirt /\ deleted' = del
  BY Zenon DEF SetMap
<1>2. \A a \in victims : /\ a \in Addrs /\ a \notin dirt /\ a \notin del
                         /\ map[a].tag # "none" /\ map[a].tag # "out"
  BY VictimFacts
<1>3. None \in Entries
  BY Zenon DEF Entries
<1>4. entry' \in [Addrs -> Entries]
  BY <1>1, <1>3, Zenon
<1>5. gap \subseteq gap' /\ gap' \subseteq Tasks
  BY <1>1, Zenon DEF Readers
<1>6. \A a \in victims, t \in Tasks : pc[t] = "fill" /\ job[t].addr = a => t \in gap'
  BY <1>1, Zenon DEF Readers
<1> QED
  BY <1>1, <1>2, <1>4, <1>5, <1>6, Zenon

----------------------------------------------------------------------------
(* Steps of one task *)

\* The other tasks and their locks are left alone.
Alone(t) ==
    /\ job' \in [Tasks -> JobRecord] /\ pc' \in [Tasks -> PcStates]
    /\ \A u \in Tasks : u # t => pc'[u] = pc[u] /\ job'[u] = job[u]
    /\ lock' \in [Addrs -> Tasks \cup {NoOne}]
    /\ \A a \in Addrs, u \in Tasks : u # t => (lock'[a] = u <=> lock[a] = u)

\* The task has loaded the session of its address.
Holds(t) ==
    /\ lock[job[t].addr] = t /\ job[t].rec # None
    /\ pc[t] \in {"crypt", "store", "delete"}
HoldsOn(t) == Holds(t) => Holds(t)' /\ job'[t].addr = job[t].addr

\* Nothing but the task changes.
Still == UNCHANGED <<entry, dirty, deleted, removed, disk, keys, sessions, last, stale,
                     waived, dropped>>

\* A load sets two fields.
LEMMA JobLoaded ==
    ASSUME job \in [Tasks -> JobRecord], NEW t \in Tasks,
           NEW x \in Records \cup {None}, NEW y \in BOOLEAN,
           job' = [job EXCEPT ![t].rec = x, ![t].fresh = y]
    PROVE  /\ job' \in [Tasks -> JobRecord]
           /\ job'[t].op = job[t].op /\ job'[t].addr = job[t].addr /\ job'[t].mark = job[t].mark
           /\ job'[t].rec = x /\ job'[t].fresh = y /\ job'[t].todo = job[t].todo
           /\ \A u \in Tasks : u # t => job'[u] = job[u]
<1> DEFINE g == [job EXCEPT ![t].rec = x]
           h == [g EXCEPT ![t].fresh = y]
<1>1. job' = h
  BY Zenon
<1>2. /\ g \in [Tasks -> JobRecord]
      /\ g[t].op = job[t].op /\ g[t].addr = job[t].addr /\ g[t].mark = job[t].mark
      /\ g[t].rec = x /\ g[t].todo = job[t].todo
      /\ \A u \in Tasks : u # t => g[u] = job[u]
  BY Zenon DEF JobRecord
<1> HIDE DEF g
<1>3. /\ h \in [Tasks -> JobRecord]
      /\ h[t].op = g[t].op /\ h[t].addr = g[t].addr /\ h[t].mark = g[t].mark
      /\ h[t].rec = g[t].rec /\ h[t].fresh = y /\ h[t].todo = g[t].todo
      /\ \A u \in Tasks : u # t => h[u] = g[u]
  BY <1>2, ZenonT(30) DEF JobRecord
<1> HIDE DEF h
<1> QED
  BY <1>1, <1>2, <1>3, Zenon

\* The types as the proofs use them.
LEMMA Types ==
    ASSUME IInv
    PROVE  /\ entry \in [Addrs -> Entries]
           /\ disk \in [Addrs -> Records \cup {None}] /\ last \in [Addrs -> Records \cup {None}]
           /\ dirty \subseteq Addrs /\ deleted \subseteq Addrs /\ stale \subseteq Addrs
           /\ removed \in [PreKeys -> Addrs \cup {NoAddr}]
           /\ keys \subseteq PreKeys /\ waived \subseteq PreKeys /\ dropped \subseteq PreKeys
           /\ lock \in [Addrs -> Tasks \cup {NoOne}] /\ sessions \in Tasks \cup {NoOne}
           /\ pc \in [Tasks -> PcStates] /\ job \in [Tasks -> JobRecord]
           /\ gap \subseteq Tasks
           /\ count \in [jobs: 0..MaxJobs, cleanups: 0..MaxCleanups, faults: 0..MaxFaults]
BY Zenon DEF IInv, SignalTypeOK, Entries, JobRecord

CountRecord == [jobs: 0..MaxJobs, cleanups: 0..MaxCleanups, faults: 0..MaxFaults]

\* Jobs, cleanups and faults stay within their bounds.
LEMMA CountKept ==
    ASSUME count \in CountRecord,
           \/ count' = count
           \/ count.jobs < MaxJobs /\ count' = [count EXCEPT !.jobs = @ + 1]
           \/ count.cleanups < MaxCleanups /\ count' = [count EXCEPT !.cleanups = @ + 1]
           \/ Failure
    PROVE  count' \in CountRecord
<1>1. /\ count.jobs \in 0..MaxJobs /\ count.cleanups \in 0..MaxCleanups
      /\ count.faults \in 0..MaxFaults
      /\ MaxJobs \in Nat /\ MaxCleanups \in Nat /\ MaxFaults \in Nat
  BY SignalAssumption, Zenon DEF CountRecord
<1>2. /\ count.jobs < MaxJobs => count.jobs + 1 \in 0..MaxJobs
      /\ count.cleanups < MaxCleanups => count.cleanups + 1 \in 0..MaxCleanups
      /\ count.faults < MaxFaults => count.faults + 1 \in 0..MaxFaults
  BY <1>1
<1> QED
  BY <1>2, Zenon DEF CountRecord, Failure

\* A task that holds on to its session keeps every session in use.
LEMMA InUseKept ==
    ASSUME NEW t \in Tasks, Alone(t), HoldsOn(t)
    PROVE  \A a \in Addrs : InUse(a) => InUse(a)'
<1> SUFFICES ASSUME NEW a \in Addrs, InUse(a) PROVE InUse(a)'
  BY Zenon
<1>1. PICK u \in Workers : /\ lock[a] = u /\ job[u].addr = a /\ job[u].rec # None
                           /\ pc[u] \in {"crypt", "store", "delete"}
  BY Zenon DEF InUse
<1>2. u \in Tasks
  BY Zenon DEF Tasks
<1>3. CASE u = t
  <2>1. Holds(t)
    BY <1>1, <1>3, Zenon DEF Holds
  <2> QED
    BY <1>1, <1>3, <2>1, Zenon DEF HoldsOn, Holds, InUse
<1>4. CASE u # t
  <2>1. pc'[u] = pc[u] /\ job'[u] = job[u] /\ lock'[a] = u
    BY <1>1, <1>2, <1>4, Zenon DEF Alone
  <2> QED
    BY <1>1, <2>1, Zenon DEF InUse
<1> QED
  BY <1>3, <1>4, Zenon

\* The step of a task that changes nothing but itself.
LEMMA PlainStep ==
    ASSUME IInv, NEW t \in Tasks, Alone(t), HoldsOn(t), Still, count' \in CountRecord,
           gap' \subseteq Tasks, \A u \in Tasks : u # t /\ u \in gap => u \in gap',
           TaskOK(t)'
    PROVE  IInv'
<1>1. \A a \in Addrs : InUse(a) => InUse(a)'
  BY InUseKept, Zenon
<1>2. SignalTypeOK'
  BY Types, Zenon DEF Still, Alone, SignalTypeOK, Entries, JobRecord, CountRecord
<1>3. Slots' /\ DiskIsOld' /\ CleanIsKept' /\ RemovedIsStored' /\ PrekeyOrSession'
  BY Zenon DEF IInv, Still, Slots, DiskIsOld, CleanIsKept, RemovedIsStored, PrekeyOrSession, Given
<1>4. OutIsHeld' /\ CleanIsDurable' /\ SlotsFresh'
  BY <1>1, Zenon DEF IInv, Still, OutIsHeld, CleanIsDurable, SlotsFresh
<1>5. ASSUME NEW u \in Tasks, u # t PROVE TaskOK(u)'
  <2>1. TaskOK(u) /\ pc'[u] = pc[u] /\ job'[u] = job[u]
    BY <1>5, Zenon DEF IInv, Alone
  <2>2. JobAt(u)' /\ FlushAt(u)' /\ KeysAt(u)'
    BY <2>1 DEF TaskOK, JobAt, FlushAt, KeysAt, Still, Given, Takes
  <2>3. LocksAt(u)'
    <3>1. pc[u] \in Working => job[u].addr \in Addrs
      BY <2>1, Zenon DEF TaskOK, JobAt
    <3>2. Lid \in Addrs
      BY SignalAssumption, Zenon
    <3> QED
      BY <1>5, <2>1, <3>1, <3>2 DEF TaskOK, LocksAt, Alone, Takes
  <2>4. ReaderAt(u)'
    <3>1. pc[u] \in {"read", "fill"} => job[u].addr \in Addrs
      BY <2>1, Zenon DEF TaskOK, JobAt, Working
    <3> QED
      BY <1>1, <1>5, <2>1, <3>1, Zenon DEF TaskOK, ReaderAt, Still, Takes
  <2> QED
    BY <2>2, <2>3, <2>4, Zenon DEF TaskOK
<1>6. \A u \in Tasks : TaskOK(u)'
  BY <1>5, Zenon
<1> QED
  BY <1>2, <1>3, <1>4, <1>6, Zenon DEF IInv

\* A task moves.
LEMMA Goes ==
    ASSUME IInv, NEW t \in Tasks, NEW label \in PcStates, Goto(t, label)
    PROVE  /\ pc' \in [Tasks -> PcStates] /\ pc'[t] = label
           /\ \A u \in Tasks : u # t => pc'[u] = pc[u]
BY Types, Zenon DEF Goto

LEMMA LockSame ==
    ASSUME IInv, NEW t \in Tasks, lock' = lock
    PROVE  /\ lock' \in [Addrs -> Tasks \cup {NoOne}]
           /\ \A a \in Addrs, u \in Tasks : u # t => (lock'[a] = u <=> lock[a] = u)
BY Types, Zenon

\* A task lets its locks go.
LEMMA Unlocks ==
    ASSUME IInv, NEW t \in Tasks, NEW label \in PcStates, Unlock(t, label)
    PROVE  /\ pc' \in [Tasks -> PcStates] /\ pc'[t] = label
           /\ \A u \in Tasks : u # t => pc'[u] = pc[u]
           /\ lock' \in [Addrs -> Tasks \cup {NoOne}]
           /\ \A a \in Addrs, u \in Tasks : u # t => (lock'[a] = u <=> lock[a] = u)
<1>1. Goto(t, label) /\ lock' = [a \in Addrs |-> IF lock[a] = t THEN NoOne ELSE lock[a]]
  BY Zenon DEF Unlock
<1>2. lock \in [Addrs -> Tasks \cup {NoOne}] /\ NoOne \notin Tasks
  BY Types, SignalAssumption, Zenon
<1> QED
  BY <1>1, <1>2, Goes

LEMMA NoJobFacts ==
    /\ NoJob \in JobRecord /\ NoJob.op = "none" /\ NoJob.rec = None
    /\ NoJob.todo = {} /\ NoJob.fresh = TRUE
BY Zenon DEF NoJob, JobRecord

\* The job is over.
LEMMA JobOver ==
    ASSUME IInv, NEW t \in Tasks, job' = [job EXCEPT ![t] = NoJob]
    PROVE  /\ job' \in [Tasks -> JobRecord] /\ job'[t] = NoJob
           /\ \A u \in Tasks : u # t => job'[u] = job[u]
BY Types, NoJobFacts, Zenon

Resting == {"idle", "flush", "clear", "clear2"}

LEMMA RestOK ==
    ASSUME NEW t \in Tasks, pc'[t] \in Resting
    PROVE  TaskOK(t)'
BY Zenon DEF Resting, TaskOK, JobAt, LocksAt, FlushAt, ReaderAt, KeysAt, Working, Loading

\* A task that holds no session comes to rest.
LEMMA RestStep ==
    ASSUME IInv, NEW t \in Tasks, Alone(t), ~Holds(t), Still, count' \in CountRecord,
           gap' = gap, pc'[t] \in Resting
    PROVE  IInv'
<1>1. TaskOK(t)' /\ HoldsOn(t)
  BY RestOK, Zenon DEF HoldsOn
<1>2. gap' \subseteq Tasks /\ \A u \in Tasks : u # t /\ u \in gap => u \in gap'
  BY Types, Zenon
<1> QED
  BY <1>1, <1>2, PlainStep, Zenon

LEMMA CleanupStarts ==
    ASSUME IInv, StartCleanup
    PROVE  IInv'
<1>1. /\ pc[Cleanup] = "idle" /\ Goto(Cleanup, "flush") /\ gap' = gap /\ lock' = lock
      /\ job' = job /\ Still
  BY Zenon DEF StartCleanup, Still, cacheVars, diskVars, ghosts
<1>2. count' \in CountRecord
  BY Types, CountKept, Zenon DEF StartCleanup, CountRecord
<1>3. Cleanup \in Tasks /\ "flush" \in PcStates
  BY Zenon DEF Tasks, PcStates
<1>4. Alone(Cleanup) /\ pc'[Cleanup] = "flush"
  BY <1>1, <1>3, Goes, LockSame, Types DEF Alone
<1>5. ~Holds(Cleanup)
  BY <1>1, Zenon DEF Holds
<1> QED
  BY <1>1, <1>2, <1>3, <1>4, <1>5, RestStep, Zenon DEF Resting

\* A caller starts.
LEMMA JobStarts ==
    ASSUME IInv, NEW t \in Workers, NEW op \in Ops, NEW a \in Addrs, NEW m \in Marks \cup {NoAddr},
           op = "pkmsg" => m \in PreKeys, op \in {"ratchet", "bundle"} => m \in Steps,
           op = "migrate" => a = Pn, StartJob(t, op, a, m)
    PROVE  IInv'
<1>1. /\ pc[t] = "idle" /\ gap' = gap \ {t} /\ Still /\ t \in Tasks
      /\ job' = [job EXCEPT ![t] = [NoJob EXCEPT !.op = op, !.addr = a, !.mark = m]]
  BY Zenon DEF StartJob, Still, cacheVars, diskVars, Tasks
<1>2. count' \in CountRecord
  BY Types, CountKept, Zenon DEF StartJob, CountRecord
<1>3. /\ job' \in [Tasks -> JobRecord]
      /\ job'[t].op = op /\ job'[t].addr = a /\ job'[t].mark = m /\ job'[t].rec = None
      /\ \A u \in Tasks : u # t => job'[u] = job[u]
  <2> DEFINE r == [NoJob EXCEPT !.op = op, !.addr = a, !.mark = m]
  <2>1. /\ r \in JobRecord /\ r.op = op /\ r.addr = a /\ r.mark = m /\ r.rec = None
    BY NoJobFacts, Zenon DEF JobRecord
  <2>2. job' = [job EXCEPT ![t] = r]
    BY <1>1, Zenon
  <2>3. job \in [Tasks -> JobRecord] /\ t \in Tasks
    BY <1>1, Types, Zenon
  <2> HIDE DEF r
  <2> QED
    BY <2>1, <2>2, <2>3, Zenon
<1>4. CASE op \in Locked /\ lock[a] = NoOne /\ lock' = [lock EXCEPT ![a] = t]
           /\ Goto(t, CASE op = "recreate" -> "delete"
                        [] op = "migrate" -> "lock2"
                        [] OTHER -> "load")
  <2> DEFINE label == CASE op = "recreate" -> "delete"
                        [] op = "migrate" -> "lock2"
                        [] OTHER -> "load"
  <2>1. /\ label \in {"delete", "lock2", "load"} /\ label \in PcStates
        /\ op = "migrate" => label = "lock2"
        /\ label = "lock2" => op = "migrate"
    BY Zenon DEF PcStates
  <2>2. Goto(t, label)
    BY <1>4, Zenon
  <2> HIDE DEF label
  <2>3. /\ pc' \in [Tasks -> PcStates] /\ pc'[t] = label
        /\ \A u \in Tasks : u # t => pc'[u] = pc[u]
    BY <1>1, <2>1, <2>2, Goes, Zenon
  <2>4. /\ lock' \in [Addrs -> Tasks \cup {NoOne}] /\ lock'[a] = t
        /\ \A b \in Addrs, u \in Tasks : u # t => (lock'[b] = u <=> lock[b] = u)
    BY <1>1, <1>4, Types, SignalAssumption, Zenon
  <2>5. Alone(t)
    BY <1>3, <2>3, <2>4, Zenon DEF Alone
  <2>6. JobAt(t)' /\ LocksAt(t)'
    BY <1>3, <1>4, <2>1, <2>3, <2>4, Zenon DEF JobAt, LocksAt, Takes, Working, Loading
  <2>7. FlushAt(t)' /\ ReaderAt(t)' /\ KeysAt(t)'
    BY <2>1, <2>3, Zenon DEF FlushAt, ReaderAt, KeysAt
  <2>8. HoldsOn(t)
    BY <1>1, Zenon DEF HoldsOn, Holds
  <2>9. gap' \subseteq Tasks /\ \A u \in Tasks : u # t /\ u \in gap => u \in gap'
    BY <1>1, Types, Zenon
  <2> QED
    BY <1>1, <1>2, <2>5, <2>6, <2>7, <2>8, <2>9, PlainStep, Zenon DEF TaskOK
<1>5. CASE op \notin Locked /\ lock' = lock
           /\ Goto(t, IF op = "purge" THEN "delete" ELSE "load")
  <2> DEFINE label == IF op = "purge" THEN "delete" ELSE "load"
  <2>1. label \in {"delete", "load"} /\ label \in PcStates
    BY Zenon DEF PcStates
  <2>2. Goto(t, label)
    BY <1>5, Zenon
  <2> HIDE DEF label
  <2>3. /\ pc' \in [Tasks -> PcStates] /\ pc'[t] = label
        /\ \A u \in Tasks : u # t => pc'[u] = pc[u]
    BY <1>1, <2>1, <2>2, Goes, Zenon
  <2>4. /\ lock' \in [Addrs -> Tasks \cup {NoOne}]
        /\ \A b \in Addrs, u \in Tasks : u # t => (lock'[b] = u <=> lock[b] = u)
    BY <1>1, <1>5, LockSame, Zenon
  <2>5. Alone(t)
    BY <1>3, <2>3, <2>4, Zenon DEF Alone
  <2>6. JobAt(t)' /\ LocksAt(t)'
    BY <1>3, <1>5, <2>1, <2>3, Zenon DEF JobAt, LocksAt, Takes, Working, Loading
  <2>7. FlushAt(t)' /\ ReaderAt(t)' /\ KeysAt(t)'
    BY <2>1, <2>3, Zenon DEF FlushAt, ReaderAt, KeysAt
  <2>8. HoldsOn(t)
    BY <1>1 DEF HoldsOn, Holds
  <2>9. gap' \subseteq Tasks /\ \A u \in Tasks : u # t /\ u \in gap => u \in gap'
    BY <1>1, Types
  <2> QED
    BY <1>1, <1>2, <2>5, <2>6, <2>7, <2>8, <2>9, PlainStep DEF TaskOK
<1> QED
  BY <1>4, <1>5, Zenon DEF StartJob

\* The migration takes its second lock.
LEMMA LidLocks ==
    ASSUME IInv, NEW t \in Workers, LockLid(t)
    PROVE  IInv'
<1>1. /\ pc[t] = "lock2" /\ lock[Lid] = NoOne /\ lock' = [lock EXCEPT ![Lid] = t]
      /\ Goto(t, "load") /\ job' = job /\ gap' = gap /\ Still
      /\ t \in Tasks /\ "load" \in PcStates /\ count' = count
  BY Zenon DEF LockLid, Still, cacheVars, diskVars, ghosts, Tasks, PcStates
<1>2. /\ TaskOK(t) /\ lock \in [Addrs -> Tasks \cup {NoOne}] /\ job \in [Tasks -> JobRecord]
      /\ count' \in CountRecord
  BY <1>1, Types, Zenon DEF IInv, CountRecord
<1>3. /\ pc' \in [Tasks -> PcStates] /\ pc'[t] = "load"
      /\ \A u \in Tasks : u # t => pc'[u] = pc[u]
  BY <1>1, Goes, Zenon
<1>4. /\ lock' \in [Addrs -> Tasks \cup {NoOne}] /\ lock'[Lid] = t /\ lock'[Pn] = lock[Pn]
      /\ \A b \in Addrs, u \in Tasks : u # t => (lock'[b] = u <=> lock[b] = u)
  BY <1>1, <1>2, SignalAssumption, Zenon
<1>5. Alone(t)
  BY <1>1, <1>2, <1>3, <1>4, Zenon DEF Alone
<1>6. job[t].op = "migrate" /\ job[t].addr = Pn /\ Takes(t) /\ lock[Pn] = t
  BY <1>1, <1>2, Zenon DEF TaskOK, JobAt, LocksAt, Working, Takes, Locked
<1>7. JobAt(t)' /\ LocksAt(t)'
  BY <1>1, <1>3, <1>4, <1>6, SignalAssumption, Zenon DEF JobAt, LocksAt, Takes, Working, Loading
<1>8. FlushAt(t)' /\ ReaderAt(t)' /\ KeysAt(t)'
  BY <1>3, Zenon DEF FlushAt, ReaderAt, KeysAt
<1>9. HoldsOn(t)
  BY <1>1, Zenon DEF HoldsOn, Holds
<1> QED
  BY <1>1, <1>2, <1>5, <1>7, <1>8, <1>9, Types, PlainStep, Zenon DEF TaskOK

\* The end of a job that holds no session, and of its locks.
LEMMA EndStep ==
    ASSUME IInv, NEW t \in Tasks, EndJob(t), ~Holds(t), Still, count' \in CountRecord, gap' = gap
    PROVE  IInv'
<1>1. job' = [job EXCEPT ![t] = NoJob] /\ Unlock(t, "idle") /\ "idle" \in PcStates
  BY Zenon DEF EndJob, PcStates
<1>2. Alone(t) /\ pc'[t] = "idle"
  BY <1>1, JobOver, Unlocks, ZenonT(30) DEF Alone
<1> QED
  BY <1>2, RestStep, Zenon DEF Resting

\* The same, on the way to the flush.
LEMMA ToFlush ==
    ASSUME IInv, NEW t \in Tasks, Unlock(t, "flush"), ~Holds(t), Still, count' \in CountRecord,
           gap' = gap, job' \in [Tasks -> JobRecord],
           \A u \in Tasks : u # t => job'[u] = job[u]
    PROVE  IInv'
<1>1. "flush" \in PcStates
  BY Zenon DEF PcStates
<1>2. Alone(t) /\ pc'[t] = "flush"
  BY <1>1, Unlocks DEF Alone
<1> QED
  BY <1>2, RestStep, Zenon DEF Resting

\* The backend is read.
LEMMA Reads ==
    ASSUME IInv, NEW t \in Workers, Read(t)
    PROVE  IInv'
<1>1. /\ pc[t] = "read" /\ Still /\ gap' = gap /\ count' = count /\ t \in Tasks
      /\ ~Holds(t)
  BY Zenon DEF Read, Still, cacheVars, diskVars, ghosts, Tasks, Holds
<1>2. TaskOK(t) /\ count' \in CountRecord /\ job[t].addr \in Addrs
  BY <1>1, Types, Zenon DEF IInv, CountRecord, TaskOK, JobAt, Working
<1>3. CASE EndJob(t)
  BY <1>1, <1>2, <1>3, EndStep, Zenon
<1>4. CASE /\ job' = [job EXCEPT ![t].rec = disk[job[t].addr]]
           /\ Goto(t, "fill") /\ lock' = lock
  <2> DEFINE x == disk[job[t].addr]
  <2>1. x \in Records \cup {None} /\ "fill" \in PcStates
    BY <1>2, Types, Zenon DEF PcStates
  <2>2. job \in [Tasks -> JobRecord] /\ job' = [job EXCEPT ![t].rec = x]
    BY <1>4, Types, Zenon
  <2> HIDE DEF x
  <2>3. /\ job' \in [Tasks -> JobRecord]
        /\ job'[t].op = job[t].op /\ job'[t].addr = job[t].addr /\ job'[t].mark = job[t].mark
        /\ job'[t].rec = x
        /\ \A u \in Tasks : u # t => job'[u] = job[u]
    BY <1>1, <2>1, <2>2 DEF JobRecord
  <2>4. /\ pc' \in [Tasks -> PcStates] /\ pc'[t] = "fill"
        /\ \A u \in Tasks : u # t => pc'[u] = pc[u]
    BY <1>1, <1>4, <2>1, Goes, Zenon
  <2>5. Alone(t)
    BY <1>1, <1>4, <2>3, <2>4, LockSame, Zenon DEF Alone
  <2>6. HoldsOn(t)
    BY <1>1, Zenon DEF HoldsOn
  <2>7. JobAt(t)' /\ LocksAt(t)'
    BY <1>1, <1>2, <1>4, <2>3, <2>4, Zenon DEF TaskOK, JobAt, LocksAt, Takes, Working, Loading
  <2>8. FlushAt(t)' /\ KeysAt(t)'
    BY <2>4, Zenon DEF FlushAt, KeysAt
  <2>9. ReaderAt(t)'
    <3> SUFFICES ASSUME t \notin gap PROVE ReaderAt(t)'
      BY <1>1, Zenon DEF ReaderAt
    <3> PICK a \in Addrs : a = job[t].addr
      BY <1>2, Zenon
    <3>1. ~InUse(a)' => ~InUse(a)
      BY <1>1, <1>2, <2>5, <2>6, InUseKept, Zenon
    <3>2. Takes(t) => ~InUse(a)
      <4>1. Takes(t) => lock[a] = t
        BY <1>1, <1>2, Zenon DEF TaskOK, LocksAt, Working
      <4> QED
        BY <1>1, <4>1, Zenon DEF InUse
    <3>3. entry[a].tag = "none" => a \notin dirty /\ a \notin deleted
      BY <1>2, Zenon DEF IInv, Slots
    <3>4. Takes(t) => a \notin dirty /\ a \notin deleted
      BY <1>1, <1>2, Zenon DEF TaskOK, ReaderAt
    <3>5. a \notin dirty /\ a \notin deleted /\ ~InUse(a) => x = last[a]
      BY <1>2, Zenon DEF IInv, CleanIsDurable, x
    <3>6. Takes(t)' = Takes(t)
      BY <2>3, Zenon DEF Takes
    <3> QED
      BY <1>1, <2>3, <2>4, <3>1, <3>2, <3>3, <3>4, <3>5, <3>6, Zenon DEF ReaderAt, Still
  <2> QED
    BY <1>1, <1>2, <2>5, <2>6, <2>7, <2>8, <2>9, Types, PlainStep, Zenon DEF TaskOK
<1> QED
  BY <1>3, <1>4, Zenon DEF Read

\* The read fails.
LEMMA ReadsFail ==
    ASSUME IInv, NEW t \in Workers, ReadFails(t)
    PROVE  IInv'
<1>1. /\ pc[t] = "read" /\ Still /\ gap' = gap /\ Failure /\ t \in Tasks /\ ~Holds(t)
  BY Zenon DEF ReadFails, Still, cacheVars, diskVars, ghosts, Tasks, Holds
<1>2. count' \in CountRecord
  BY <1>1, Types, CountKept, Zenon DEF CountRecord
<1>3. EndJob(t) \/ (Unlock(t, "flush") /\ job' = job)
  BY Zenon DEF ReadFails
<1> QED
  BY <1>1, <1>2, <1>3, EndStep, ToFlush, Types, Zenon

\* The cipher is done, and the session goes back.
LEMMA ToStore ==
    ASSUME IInv, NEW t \in Workers, pc[t] = "crypt", Goto(t, "store"), lock' = lock,
           Still, gap' = gap, count' = count,
           job' \in [Tasks -> JobRecord], \A u \in Tasks : u # t => job'[u] = job[u],
           job'[t].op = job[t].op, job'[t].addr = job[t].addr, job'[t].fresh = job[t].fresh,
           job'[t].rec \in Records, job[t].rec.has \subseteq job'[t].rec.has,
           job[t].op = "pkmsg" /\ job'[t].mark # NoAddr =>
               job'[t].mark \in PreKeys /\ job'[t].mark \in job'[t].rec.has
    PROVE  IInv'
<1>1. t \in Tasks /\ "store" \in PcStates /\ TaskOK(t) /\ count' \in CountRecord
  BY Types, Zenon DEF Tasks, PcStates, IInv, CountRecord
<1>2. /\ pc' \in [Tasks -> PcStates] /\ pc'[t] = "store"
      /\ \A u \in Tasks : u # t => pc'[u] = pc[u]
  BY <1>1, Goes, Zenon
<1>3. Alone(t)
  BY <1>1, <1>2, LockSame, Zenon DEF Alone
<1>4. HoldsOn(t)
  <2>1. job'[t].rec # None
    BY Values, Zenon
  <2> QED
    BY <1>2, <2>1, Zenon DEF HoldsOn, Holds
<1>5. JobAt(t)' /\ LocksAt(t)'
  BY <1>1, <1>2, Zenon DEF TaskOK, JobAt, LocksAt, Takes, Working, Loading
<1>6. FlushAt(t)' /\ ReaderAt(t)'
  BY <1>2, Zenon DEF FlushAt, ReaderAt
<1>7. KeysAt(t)'
  BY <1>1, <1>2, Zenon DEF TaskOK, KeysAt, Still, Given
<1> QED
  BY <1>1, <1>3, <1>4, <1>5, <1>6, <1>7, Types, PlainStep, Zenon DEF TaskOK

\* Decryption of a pkmsg.
LEMMA Decrypts ==
    ASSUME IInv, NEW t \in Workers, Decrypt(t)
    PROVE  IInv'
<1> DEFINE p == job[t].mark
           rec == job[t].rec
<1>1. /\ pc[t] = "crypt" /\ job[t].op = "pkmsg" /\ Still /\ gap' = gap /\ count' = count
      /\ t \in Tasks
  BY Zenon DEF Decrypt, Still, cacheVars, diskVars, ghosts, Tasks
<1>2. /\ job \in [Tasks -> JobRecord] /\ rec \in Records \cup {None} /\ p \in PreKeys
      /\ count' \in CountRecord
  <2>1. TaskOK(t) /\ job \in [Tasks -> JobRecord] /\ count' \in CountRecord
    BY <1>1, Types, Zenon DEF IInv, CountRecord
  <2> QED
    BY <1>1, <2>1, Zenon DEF JobRecord, TaskOK, JobAt, Loading
<1>3. CASE /\ p \in rec.has \/ rec # None
           /\ job' = [job EXCEPT ![t].mark = NoAddr] /\ Goto(t, "store") /\ lock' = lock
  <2>1. rec \in Records
    BY <1>2, <1>3, Values, Zenon
  <2>2. /\ job' \in [Tasks -> JobRecord]
        /\ job'[t].op = job[t].op /\ job'[t].addr = job[t].addr /\ job'[t].mark = NoAddr
        /\ job'[t].rec = rec /\ job'[t].fresh = job[t].fresh
        /\ \A u \in Tasks : u # t => job'[u] = job[u]
    BY <1>1, <1>2, <1>3 DEF JobRecord
  <2> QED
    BY <1>1, <1>3, <2>1, <2>2, ToStore, Zenon
<1>4. CASE /\ job' = [job EXCEPT ![t].rec = Present(rec.has \cup {p})]
           /\ Goto(t, "store") /\ lock' = lock
  <2> DEFINE x == Present(rec.has \cup {p})
  <2>1. x \in Records /\ x.has = rec.has \cup {p}
    <3>1. rec.has \cup {p} \in SUBSET Marks
      BY <1>2, Values, Zenon DEF Marks
    <3> QED
      BY <3>1, Values, Zenon
  <2>2. job' = [job EXCEPT ![t].rec = x]
    BY <1>4, Zenon
  <2> HIDE DEF x
  <2>3. /\ job' \in [Tasks -> JobRecord]
        /\ job'[t].op = job[t].op /\ job'[t].addr = job[t].addr /\ job'[t].mark = p
        /\ job'[t].rec = x /\ job'[t].fresh = job[t].fresh
        /\ \A u \in Tasks : u # t => job'[u] = job[u]
    BY <1>1, <1>2, <2>1, <2>2 DEF JobRecord
  <2> QED
    BY <1>1, <1>2, <1>4, <2>1, <2>3, ToStore, Zenon
<1>5. CASE /\ rec = None /\ job' = [job EXCEPT ![t].mark = NoAddr] /\ Unlock(t, "flush")
  <2>1. job' \in [Tasks -> JobRecord] /\ \A u \in Tasks : u # t => job'[u] = job[u]
    BY <1>1, <1>2, <1>5 DEF JobRecord
  <2>2. ~Holds(t)
    BY <1>5, Zenon DEF Holds
  <2> QED
    BY <1>1, <1>2, <1>5, <2>1, <2>2, ToFlush, Zenon
<1> QED
  BY <1>3, <1>4, <1>5, Zenon DEF Decrypt

\* Encryption, and decryption of a msg.
LEMMA Ratchets ==
    ASSUME IInv, NEW t \in Workers, Ratchet(t)
    PROVE  IInv'
<1> DEFINE rec == job[t].rec
<1>1. /\ pc[t] = "crypt" /\ job[t].op \in {"ratchet", "bundle"} /\ Still /\ gap' = gap
      /\ count' = count /\ t \in Tasks
  BY Zenon DEF Ratchet, Still, cacheVars, diskVars, ghosts, Tasks
<1>2. /\ job \in [Tasks -> JobRecord] /\ rec \in Records \cup {None} /\ job[t].mark \in Steps
      /\ count' \in CountRecord
  <2>1. TaskOK(t) /\ job \in [Tasks -> JobRecord] /\ count' \in CountRecord
    BY <1>1, Types, Zenon DEF IInv, CountRecord
  <2> QED
    BY <1>1, <2>1, Zenon DEF JobRecord, TaskOK, JobAt, Loading
<1>3. CASE rec = None /\ (EndJob(t) \/ (Unlock(t, "flush") /\ job' = job))
  <2>1. ~Holds(t)
    BY <1>3, Zenon DEF Holds
  <2> QED
    BY <1>1, <1>2, <1>3, <2>1, EndStep, ToFlush, Zenon
<1>4. CASE /\ \E marks \in {rec.has \cup {job[t].mark}} \cup (IF rec = None THEN {} ELSE {rec.has}) :
                 job' = [job EXCEPT ![t].rec = Present(marks)]
           /\ Goto(t, "store") /\ lock' = lock
  <2>1. PICK marks : /\ marks = rec.has \cup {job[t].mark} \/ marks = rec.has
                     /\ job' = [job EXCEPT ![t].rec = Present(marks)]
    BY <1>4, Zenon
  <2>2. marks \in SUBSET Marks /\ rec.has \subseteq marks
    BY <1>2, <2>1, Values, Zenon DEF Marks
  <2> DEFINE x == Present(marks)
  <2>3. x \in Records /\ x.has = marks /\ job' = [job EXCEPT ![t].rec = x]
    BY <2>1, <2>2, Values, Zenon
  <2> HIDE DEF x
  <2>4. /\ job' \in [Tasks -> JobRecord]
        /\ job'[t].op = job[t].op /\ job'[t].addr = job[t].addr
        /\ job'[t].rec = x /\ job'[t].fresh = job[t].fresh
        /\ \A u \in Tasks : u # t => job'[u] = job[u]
    BY <1>1, <1>2, <2>3 DEF JobRecord
  <2> QED
    BY <1>1, <1>4, <2>2, <2>3, <2>4, ToStore
<1> QED
  BY <1>3, <1>4, Zenon DEF Ratchet

\* The migration found a session, or none.
LEMMA Migrates ==
    ASSUME IInv, NEW t \in Workers, Migrate(t)
    PROVE  IInv'
<1>1. /\ pc[t] = "crypt" /\ job[t].op = "migrate" /\ Still /\ gap' = gap
      /\ count' = count /\ t \in Tasks /\ job' = job
  BY Zenon DEF Migrate, Still, cacheVars, diskVars, ghosts, Tasks
<1>2. /\ job \in [Tasks -> JobRecord] /\ job[t].rec \in Records \cup {None}
      /\ count' \in CountRecord
  BY <1>1, Types, Zenon DEF JobRecord, CountRecord
<1>3. CASE job[t].rec = None /\ Unlock(t, "flush")
  <2>1. ~Holds(t)
    BY <1>3, Zenon DEF Holds
  <2> QED
    BY <1>1, <1>2, <1>3, <2>1, ToFlush, Zenon
<1>4. CASE job[t].rec # None /\ Goto(t, "store") /\ lock' = lock
  BY <1>1, <1>2, <1>4, ToStore, Zenon
<1> QED
  BY <1>3, <1>4, Zenon DEF Migrate

----------------------------------------------------------------------------
(* Loads *)

\* The other tasks are not in a flush while the mutex is free.
LEMMA NoFlush ==
    ASSUME IInv, sessions = NoOne
    PROVE  \A u \in Tasks : pc[u] # "deletes" /\ pc[u] # "prekeys"
BY SignalAssumption, Zenon DEF IInv, TaskOK, FlushAt

\* Slots are evicted, taken or filled; what was stored stays as it is.
LEMMA MapStep ==
    ASSUME IInv, NEW t \in Tasks, Alone(t), HoldsOn(t), TaskOK(t)', sessions = NoOne,
           UNCHANGED <<dirty, deleted, removed, disk, keys, sessions, last, waived, dropped, count>>,
           entry' \in [Addrs -> Entries], stale' \subseteq Addrs, stale \subseteq stale',
           gap' \subseteq Tasks, gap \subseteq gap',
           \A a \in Addrs :
              \/ entry'[a] = entry[a]
              \/ /\ entry'[a].tag = "none" /\ a \notin dirty /\ a \notin deleted
                 /\ \A u \in Tasks : pc[u] = "fill" /\ job[u].addr = a => u \in gap'
              \/ entry'[a].tag = "out" /\ InUse(a)' /\ a \notin deleted
              \/ /\ entry'[a].tag \in {"present", "absent"} /\ a \notin dirty /\ a \notin deleted
                 /\ \/ a \in stale' \/ InUse(a)'
                    \/ /\ entry'[a].tag = "present" => entry'[a] = last[a]
                       /\ entry'[a].tag = "absent" => last[a] = None
    PROVE  IInv'
<1>1. \A a \in Addrs : InUse(a) => InUse(a)'
  BY InUseKept, Zenon
<1>2. SignalTypeOK'
  BY Types, Zenon DEF Alone, SignalTypeOK, Entries, JobRecord
<1>3. DiskIsOld' /\ CleanIsKept' /\ RemovedIsStored' /\ PrekeyOrSession'
  BY Zenon DEF IInv, DiskIsOld, CleanIsKept, RemovedIsStored, PrekeyOrSession, Given
<1>4. Slots'
  BY Zenon DEF IInv, Slots
<1>5. OutIsHeld' /\ CleanIsDurable'
  BY <1>1, Zenon DEF IInv, OutIsHeld, CleanIsDurable
<1>6. SlotsFresh'
  BY <1>1, Zenon DEF IInv, SlotsFresh
<1>7. ASSUME NEW u \in Tasks, u # t PROVE TaskOK(u)'
  <2>1. TaskOK(u) /\ pc'[u] = pc[u] /\ job'[u] = job[u]
    BY <1>7, Zenon DEF IInv, Alone
  <2>2. FlushAt(u)'
    BY <2>1, NoFlush, Zenon DEF FlushAt
  <2>3. JobAt(u)' /\ KeysAt(u)'
    BY <2>1, Zenon DEF TaskOK, JobAt, KeysAt, Given, Takes
  <2>4. LocksAt(u)'
    <3>1. pc[u] \in Working => job[u].addr \in Addrs
      BY <2>1, Zenon DEF TaskOK, JobAt
    <3>2. Lid \in Addrs
      BY SignalAssumption, Zenon
    <3> QED
      BY <1>7, <2>1, <3>1, <3>2 DEF TaskOK, LocksAt, Alone, Takes
  <2>5. ReaderAt(u)'
    <3> SUFFICES ASSUME u \in Workers, u \notin gap', pc[u] \in {"read", "fill"}
                 PROVE  ReaderAt(u)'
      BY <2>1, Zenon DEF ReaderAt
    <3>1. PICK a \in Addrs : a = job[u].addr
      BY <2>1, Zenon DEF TaskOK, JobAt, Working
    <3>2. ReaderAt(u) /\ u \notin gap
      BY <2>1, Zenon DEF TaskOK
    <3>3. pc[u] = "fill" /\ entry'[a].tag = "none" => entry[a].tag = "none"
      BY <3>1, Zenon
    <3> QED
      BY <1>1, <2>1, <3>1, <3>2, <3>3, Zenon DEF ReaderAt, Takes
  <2> QED
    BY <2>2, <2>3, <2>4, <2>5, Zenon DEF TaskOK
<1>8. \A u \in Tasks : TaskOK(u)'
  BY <1>7, Zenon
<1> QED
  BY <1>2, <1>3, <1>4, <1>5, <1>6, <1>8, Zenon DEF IInv

\* Under the session lock nobody else has the session in use.
LEMMA MineAlone ==
    ASSUME IInv, NEW t \in Workers, Takes(t), pc[t] \in {"load", "read", "fill"}
    PROVE  job[t].addr \in Addrs /\ lock[job[t].addr] = t /\ ~InUse(job[t].addr)
<1>1. TaskOK(t)
  BY Zenon DEF IInv, Tasks
<1>2. job[t].addr \in Addrs /\ lock[job[t].addr] = t
  BY <1>1, Zenon DEF TaskOK, JobAt, LocksAt, Working
<1> QED
  BY <1>2, Zenon DEF InUse

\* What a load finds under the session lock was stored last.
Fresh(t) == pc'[t] = "crypt" => job'[t].fresh \/ job[t].addr \in stale \/ t \in gap

\* The first lock scope of a load.
LEMMA Loads ==
    ASSUME IInv, NEW t \in Workers, Load(t)
    PROVE  IInv' /\ Fresh(t)
<1>1. /\ pc[t] = "load" /\ sessions = NoOne /\ t \in Tasks /\ ~Holds(t) /\ gap' = gap
      /\ UNCHANGED <<dirty, deleted, removed, disk, keys, sessions, last, stale, waived,
                     dropped, count>>
  BY Zenon DEF Load, diskVars, ghosts, Tasks, Holds
<1>2. /\ TaskOK(t) /\ count' \in CountRecord /\ job[t].addr \in Addrs
      /\ job \in [Tasks -> JobRecord] /\ entry \in [Addrs -> Entries]
      /\ last \in [Addrs -> Records \cup {None}]
      /\ gap \subseteq Tasks /\ stale \subseteq Addrs
  BY <1>1, Types, Zenon DEF IInv, CountRecord, TaskOK, JobAt, Working
<1>3. PICK a \in Addrs : a = job[t].addr
  BY <1>2, Zenon
<1>4. CASE /\ entry[a].tag = "none" /\ Goto(t, "read") /\ UNCHANGED <<entry, job, lock>>
  <2>1. "read" \in PcStates /\ Still
    BY <1>1, <1>4, Zenon DEF PcStates, Still
  <2>2. /\ pc' \in [Tasks -> PcStates] /\ pc'[t] = "read"
        /\ \A u \in Tasks : u # t => pc'[u] = pc[u]
    BY <1>1, <1>4, <2>1, Goes, Zenon
  <2>3. Alone(t)
    BY <1>1, <1>2, <1>4, <2>2, LockSame, Zenon DEF Alone
  <2>4. HoldsOn(t)
    BY <1>1, Zenon DEF HoldsOn
  <2>5. JobAt(t)' /\ LocksAt(t)'
    BY <1>1, <1>2, <1>4, <2>2, Zenon DEF TaskOK, JobAt, LocksAt, Takes, Working, Loading
  <2>6. FlushAt(t)' /\ KeysAt(t)'
    BY <2>2, Zenon DEF FlushAt, KeysAt
  <2>7. a \notin dirty /\ a \notin deleted
    BY <1>4, Zenon DEF IInv, Slots
  <2>8. ReaderAt(t)'
    BY <1>1, <1>3, <1>4, <2>2, <2>7, Zenon DEF ReaderAt
  <2> QED
    BY <1>1, <1>2, <2>1, <2>2, <2>3, <2>4, <2>5, <2>6, <2>8, PlainStep, Zenon DEF TaskOK, Fresh
<1>5. CASE EndJob(t) /\ UNCHANGED entry
  <2>1. Still /\ pc'[t] # "crypt"
    BY <1>1, <1>5, Unlocks, Zenon DEF Still, EndJob, PcStates
  <2> QED
    BY <1>1, <1>2, <1>5, <2>1, EndStep, Zenon DEF Fresh
<1>6. CASE /\ entry[a].tag # "none" /\ Takes(t) /\ Goto(t, "crypt") /\ lock' = lock
           /\ entry' = [entry EXCEPT ![a] = IF @.tag = "present" THEN Out ELSE @]
           /\ job' = [job EXCEPT ![t].rec = IF entry[a].tag = "present" THEN entry[a] ELSE None,
                                 ![t].fresh = ((IF entry[a].tag = "present" THEN entry[a] ELSE None)
                                                   = last[a])]
  <2> DEFINE x == IF entry[a].tag = "present" THEN entry[a] ELSE None
             y == (x = last[a])
  <2>1. /\ x \in Records \cup {None} /\ y \in BOOLEAN /\ "crypt" \in PcStates
        /\ entry[a].tag = "present" => x \in Records /\ x # None
    BY <1>2, Tags, Values, Zenon DEF PcStates
  <2>2. job' = [job EXCEPT ![t].rec = x, ![t].fresh = y]
    BY <1>6, Zenon
  <2>3. ~InUse(a) /\ lock[a] = t
    BY <1>1, <1>3, <1>6, MineAlone, Zenon
  <2>4. y \/ a \in stale
    <3>1. entry[a].tag # "out"
      BY <2>3, Zenon DEF IInv, OutIsHeld
    <3>2. entry[a].tag \in {"absent", "present"}
      BY <1>2, <1>6, <3>1, Tags, Zenon
    <3> QED
      BY <2>3, <3>2, Zenon DEF IInv, SlotsFresh
  <2>5. y => x = last[a]
    BY Zenon
  <2> HIDE DEF x, y
  <2>6. /\ job' \in [Tasks -> JobRecord]
        /\ job'[t].op = job[t].op /\ job'[t].addr = job[t].addr /\ job'[t].mark = job[t].mark
        /\ job'[t].rec = x /\ job'[t].fresh = y
        /\ \A u \in Tasks : u # t => job'[u] = job[u]
    BY <1>1, <1>2, <2>1, <2>2, JobLoaded, Zenon
  <2>7. /\ pc' \in [Tasks -> PcStates] /\ pc'[t] = "crypt"
        /\ \A u \in Tasks : u # t => pc'[u] = pc[u]
    BY <1>1, <1>6, <2>1, Goes, Zenon
  <2>8. Alone(t) /\ HoldsOn(t)
    BY <1>1, <1>2, <1>6, <2>6, <2>7, LockSame, Zenon DEF Alone, HoldsOn
  <2>9. JobAt(t)' /\ LocksAt(t)'
    BY <1>1, <1>2, <1>6, <2>6, <2>7, Zenon DEF TaskOK, JobAt, LocksAt, Takes, Working, Loading
  <2>10. FlushAt(t)' /\ ReaderAt(t)'
    BY <2>7, Zenon DEF FlushAt, ReaderAt
  <2>11. KeysAt(t)'
    BY <1>1, <1>3, <2>5, <2>6, <2>7, Zenon DEF KeysAt
  <2>12. entry[a].tag = "present" => InUse(a)'
    BY <1>3, <1>6, <2>1, <2>3, <2>6, <2>7, Zenon DEF InUse
  <2>13. /\ entry' \in [Addrs -> Entries]
         /\ \A b \in Addrs : \/ entry'[b] = entry[b]
                             \/ entry'[b].tag = "out" /\ InUse(b)' /\ b \notin deleted
    <3>1. Out \in Entries /\ Out.tag = "out"
      BY Values, Zenon DEF Entries
    <3>2. entry[a].tag = "present" => a \notin deleted
      BY Zenon DEF IInv, Slots
    <3> QED
      BY <1>2, <1>6, <2>12, <3>1, <3>2, Zenon
  <2>14. IInv'
    BY <1>1, <1>2, <2>8, <2>9, <2>10, <2>11, <2>13, MapStep, Zenon DEF TaskOK
  <2> QED
    BY <1>3, <2>4, <2>6, <2>14, Zenon DEF Fresh
<1> QED
  BY <1>3, <1>4, <1>5, <1>6, Zenon DEF Load

\* What the second lock scope puts into the slot, and what becomes of it.
LEMMA Fills ==
    ASSUME IInv, NEW t \in Workers, Fill(t)
    PROVE  IInv' /\ Fresh(t)
<1>1. /\ pc[t] = "fill" /\ sessions = NoOne /\ t \in Tasks /\ ~Holds(t)
      /\ UNCHANGED <<removed, disk, keys, sessions, last, waived, dropped, count>>
  BY Zenon DEF Fill, diskVars, Tasks, Holds
<1>2. /\ TaskOK(t) /\ count' \in CountRecord /\ job[t].addr \in Addrs
      /\ job \in [Tasks -> JobRecord] /\ entry \in [Addrs -> Entries]
      /\ job[t].rec \in Records \cup {None}
      /\ last \in [Addrs -> Records \cup {None}]
      /\ gap \subseteq Tasks /\ stale \subseteq Addrs
  BY <1>1, Types, Zenon DEF IInv, CountRecord, TaskOK, JobAt, Working, JobRecord
<1>3. PICK a \in Addrs : a = job[t].addr
  BY <1>2, Zenon
<1>4. /\ "crypt" \in PcStates /\ "idle" \in PcStates
      /\ Takes(t) => ~InUse(a) /\ lock[a] = t
  BY <1>1, <1>3, MineAlone, Zenon DEF PcStates
\* What becomes of the task.
<1>5. /\ Alone(t) /\ HoldsOn(t)
      /\ \/ /\ Takes(t) /\ pc'[t] = "crypt" /\ lock' = lock
            /\ job'[t].op = job[t].op /\ job'[t].addr = a /\ job'[t].mark = job[t].mark
            /\ job'[t].rec = job[t].rec /\ job'[t].fresh = (job[t].rec = last[a])
         \/ ~Takes(t) /\ pc'[t] = "idle"
  <2>1. HoldsOn(t)
    BY <1>1, Zenon DEF HoldsOn
  <2>2. CASE /\ Takes(t) /\ Goto(t, "crypt") /\ lock' = lock
             /\ job' = [job EXCEPT ![t].fresh = (job[t].rec = last[a])]
    <3> DEFINE y == (job[t].rec = last[a])
    <3>1. y \in BOOLEAN /\ job' = [job EXCEPT ![t].fresh = y]
      BY <2>2, Zenon
    <3> HIDE DEF y
    <3>2. /\ job' \in [Tasks -> JobRecord]
          /\ job'[t].op = job[t].op /\ job'[t].addr = job[t].addr /\ job'[t].mark = job[t].mark
          /\ job'[t].rec = job[t].rec /\ job'[t].fresh = y
          /\ \A u \in Tasks : u # t => job'[u] = job[u]
      BY <1>1, <1>2, <3>1 DEF JobRecord
    <3>3. /\ pc' \in [Tasks -> PcStates] /\ pc'[t] = "crypt"
          /\ \A u \in Tasks : u # t => pc'[u] = pc[u]
      BY <1>1, <1>4, <2>2, Goes, Zenon
    <3>4. Alone(t)
      BY <1>1, <2>2, <3>2, <3>3, LockSame, Zenon DEF Alone
    <3> QED
      BY <1>3, <2>1, <2>2, <3>2, <3>3, <3>4, Zenon DEF y
  <2>3. CASE ~Takes(t) /\ EndJob(t)
    <3>1. job' = [job EXCEPT ![t] = NoJob] /\ Unlock(t, "idle")
      BY <2>3, Zenon DEF EndJob
    <3>2. Alone(t) /\ pc'[t] = "idle"
      BY <1>1, <1>4, <3>1, JobOver, Unlocks, ZenonT(30) DEF Alone
    <3> QED
      BY <2>1, <2>3, <3>2, Zenon
  <2> QED
    BY <1>3, <2>2, <2>3, Zenon DEF Fill
\* A fill brings what was stored last, unless the reader missed something.
<1>6. Takes(t) /\ t \notin gap => job[t].rec = last[a]
  BY <1>1, <1>2, <1>3, Zenon DEF TaskOK, ReaderAt
<1>7. Fresh(t)
  BY <1>5, <1>6, Zenon DEF Fresh
<1>8. TaskOK(t)'
  <2>1. CASE pc'[t] = "idle"
    BY <1>1, <2>1, RestOK, Zenon DEF Resting
  <2>2. CASE /\ Takes(t) /\ pc'[t] = "crypt" /\ lock' = lock
             /\ job'[t].op = job[t].op /\ job'[t].addr = a /\ job'[t].mark = job[t].mark
             /\ job'[t].rec = job[t].rec /\ job'[t].fresh = (job[t].rec = last[a])
    <3>1. JobAt(t)' /\ LocksAt(t)'
      BY <1>1, <1>2, <1>3, <2>2, Zenon DEF TaskOK, JobAt, LocksAt, Takes, Working, Loading
    <3>2. FlushAt(t)' /\ ReaderAt(t)'
      BY <2>2, Zenon DEF FlushAt, ReaderAt
    <3>3. KeysAt(t)'
      BY <1>1, <2>2, ZenonT(30) DEF KeysAt
    <3> QED
      BY <3>1, <3>2, <3>3, Zenon DEF TaskOK
  <2> QED
    BY <1>5, <2>1, <2>2, Zenon
<1>9. CASE entry[a].tag # "none" /\ UNCHANGED <<entry, dirty, deleted, gap, stale>>
  BY <1>1, <1>2, <1>5, <1>7, <1>8, <1>9, PlainStep, Zenon DEF Still
<1>10. CASE /\ entry[a].tag = "none"
            /\ SetMap([entry EXCEPT ![a] = Filled(t)], dirty, deleted)
            /\ stale' = IF t \in gap THEN stale \cup {a} ELSE stale
  <2> DEFINE map == [entry EXCEPT ![a] = Filled(t)]
  <2>1. /\ Filled(t) \in Entries /\ Filled(t).tag # "none"
        /\ Filled(t).tag = "out" => Takes(t) /\ job[t].rec # None
        /\ Filled(t).tag = "present" => Filled(t) = job[t].rec
        /\ Filled(t).tag = "absent" => job[t].rec = None
    <3>1. \/ job[t].rec = None /\ Filled(t) = Absent
          \/ job[t].rec # None /\ Takes(t) /\ Filled(t) = Out
          \/ job[t].rec # None /\ ~Takes(t) /\ Filled(t) = job[t].rec
      BY Zenon DEF Filled, Takes
    <3> QED
      BY <1>2, <3>1, Values, Zenon DEF Entries
  <2>2. /\ map \in [Addrs -> Entries] /\ map[a] = Filled(t)
        /\ \A b \in Addrs : b # a => map[b] = entry[b]
    BY <1>2, <2>1, Zenon
  <2>3. SetMap(map, dirty, deleted)
    BY <1>10, Zenon
  <2> HIDE DEF map
  <2>4. /\ entry' \in [Addrs -> Entries] /\ dirty' = dirty /\ deleted' = deleted
        /\ gap \subseteq gap' /\ gap' \subseteq Tasks
        /\ \A b \in Addrs :
              \/ entry'[b] = map[b]
              \/ /\ entry'[b] = None /\ b \notin dirty /\ b \notin deleted
                 /\ map[b].tag # "none" /\ map[b].tag # "out"
                 /\ \A u \in Tasks : pc[u] = "fill" /\ job[u].addr = b => u \in gap'
    BY <1>2, <2>2, <2>3, Trimmed
  <2>5. a \notin dirty /\ a \notin deleted
    BY <1>10, Zenon DEF IInv, Slots
  <2>6. Filled(t).tag = "out" => InUse(a)'
    BY <1>4, <1>5, <2>1, Zenon DEF InUse
  <2>7. \/ a \in stale' \/ InUse(a)' \/ job[t].rec = last[a]
    <3>1. InUse(a) => InUse(a)'
      BY <1>1, <1>5, InUseKept, Zenon
    <3>2. t \notin gap /\ ~InUse(a) => job[t].rec = last[a]
      BY <1>1, <1>2, <1>3, <1>10, Zenon DEF TaskOK, ReaderAt
    <3> QED
      BY <1>10, <3>1, <3>2, Zenon
  <2>8. ASSUME NEW b \in Addrs
        PROVE  \/ entry'[b] = entry[b]
               \/ /\ entry'[b].tag = "none" /\ b \notin dirty /\ b \notin deleted
                  /\ \A u \in Tasks : pc[u] = "fill" /\ job[u].addr = b => u \in gap'
               \/ entry'[b].tag = "out" /\ InUse(b)' /\ b \notin deleted
               \/ /\ entry'[b].tag \in {"present", "absent"} /\ b \notin dirty /\ b \notin deleted
                  /\ \/ b \in stale' \/ InUse(b)'
                     \/ /\ entry'[b].tag = "present" => entry'[b] = last[b]
                        /\ entry'[b].tag = "absent" => last[b] = None
    <3>1. CASE entry'[b] = None
      <4>1. entry[a] = None /\ None.tag = "none"
        BY <1>2, <1>10, Tags, Values, Zenon
      <4> QED
        BY <2>2, <2>4, <3>1, <4>1, Zenon
    <3>2. CASE entry'[b] # None /\ b # a
      BY <2>2, <2>4, <3>2, Zenon
    <3>3. CASE entry'[b] # None /\ b = a
      <4>1. entry'[a] = Filled(t)
        BY <2>2, <2>4, <3>3, Zenon
      <4>2. Filled(t).tag \in {"out", "present", "absent"}
        BY <2>1, Tags, Zenon
      <4> QED
        BY <2>1, <2>5, <2>6, <2>7, <3>3, <4>1, <4>2, Zenon
    <3> QED
      BY <3>1, <3>2, <3>3, Zenon
  <2>9. stale \subseteq stale' /\ stale' \subseteq Addrs
    BY <1>2, <1>10, Zenon
  <2> QED
    BY <1>1, <1>5, <1>7, <1>8, <2>4, <2>8, <2>9, MapStep, Zenon
<1> QED
  BY <1>3, <1>9, <1>10, Zenon DEF Fill


----------------------------------------------------------------------------
(* Stores *)

\* What becomes of the task that stores, and of the sessions in use.
LEMMA StoreMoves ==
    ASSUME IInv, NEW t \in Workers, put_session(t), NEW a \in Addrs, a = Target(t)
    PROVE  /\ Alone(t) /\ JobAt(t)' /\ LocksAt(t)' /\ FlushAt(t)' /\ ReaderAt(t)'
           /\ pc'[t] = "buffer" => a = job[t].addr /\ job[t].mark \in job[t].rec.has
           /\ pc'[t] \in {"buffer", "delete", "flush"}
           /\ \A b \in Addrs : b # a /\ InUse(b) => InUse(b)'
<1>1. /\ pc[t] = "store" /\ job' = job /\ t \in Tasks
      /\ "buffer" \in PcStates /\ "delete" \in PcStates /\ "flush" \in PcStates
  BY Zenon DEF put_session, Tasks, PcStates
<1>2. TaskOK(t) /\ job \in [Tasks -> JobRecord]
  BY <1>1, Types, Zenon DEF IInv
<1>3. /\ Takes(t) /\ job[t].addr \in Addrs /\ lock[job[t].addr] = t
      /\ job[t].op = "migrate" => lock[Lid] = t /\ job[t].addr = Pn
      /\ job[t].op = "pkmsg" /\ job[t].mark # NoAddr
            => job[t].mark \in PreKeys /\ job[t].mark \in job[t].rec.has
  BY <1>1, <1>2, Zenon DEF TaskOK, JobAt, LocksAt, Working
<1>4. /\ \/ /\ job[t].op = "pkmsg" /\ job[t].mark # NoAddr
            /\ Goto(t, "buffer") /\ lock' = lock
         \/ /\ job[t].op = "migrate"
            /\ Goto(t, "delete") /\ lock' = lock
         \/ job[t].op # "migrate" /\ Unlock(t, "flush")
  BY Zenon DEF put_session
<1>5. /\ Alone(t)
      /\ \/ job[t].op = "pkmsg" /\ job[t].mark # NoAddr /\ pc'[t] = "buffer" /\ lock' = lock
         \/ job[t].op = "migrate" /\ pc'[t] = "delete" /\ lock' = lock
         \/ job[t].op # "migrate" /\ pc'[t] = "flush"
  BY <1>1, <1>2, <1>4, Goes, LockSame, Unlocks DEF Alone
<1>6. JobAt(t)' /\ LocksAt(t)'
  BY <1>1, <1>3, <1>5, Zenon DEF JobAt, LocksAt, Takes, Working, Loading
<1>7. FlushAt(t)' /\ ReaderAt(t)'
  BY <1>5, Zenon DEF FlushAt, ReaderAt
<1>8. job[t].op # "migrate" => a = job[t].addr
  BY Zenon DEF Target
<1>9. ASSUME NEW b \in Addrs, b # a, InUse(b) PROVE InUse(b)'
  <2>1. PICK u \in Workers : /\ lock[b] = u /\ job[u].addr = b /\ job[u].rec # None
                             /\ pc[u] \in {"crypt", "store", "delete"}
    BY <1>9, Zenon DEF InUse
  <2>2. CASE u = t
    <3>1. pc'[t] = "delete" /\ lock' = lock
      BY <1>5, <1>8, <1>9, <2>1, <2>2, Zenon
    <3> QED
      BY <1>1, <2>1, <2>2, <3>1, Zenon DEF InUse
  <2>3. CASE u # t
    <3>1. pc'[u] = pc[u] /\ lock'[b] = u
      BY <1>5, <2>1, <2>3, Zenon DEF Alone, Tasks
    <3> QED
      BY <1>1, <2>1, <3>1, Zenon DEF InUse
  <2> QED
    BY <2>2, <2>3, Zenon
<1> QED
  BY <1>3, <1>5, <1>6, <1>7, <1>8, <1>9, Zenon

\* A session is stored.
LEMMA Stores ==
    ASSUME IInv, NEW t \in Workers, put_session(t)
    PROVE  IInv'
<1>1. /\ pc[t] = "store" /\ sessions = NoOne /\ t \in Tasks /\ job' = job
      /\ UNCHANGED <<removed, disk, keys, sessions, count>>
  BY Zenon DEF put_session, diskVars, Tasks
<1>2. /\ TaskOK(t) /\ entry \in [Addrs -> Entries] /\ last \in [Addrs -> Records \cup {None}]
      /\ gap \subseteq Tasks /\ job \in [Tasks -> JobRecord]
      /\ waived \subseteq PreKeys /\ dropped \subseteq PreKeys
      /\ dirty \subseteq Addrs /\ deleted \subseteq Addrs /\ stale \subseteq Addrs
  BY <1>1, Types, Zenon DEF IInv
<1>3. PICK a \in Addrs : a = Target(t)
  BY <1>1, <1>2, SignalAssumption, Zenon DEF Target, TaskOK, JobAt, Working
<1>4. /\ lock[a] = t /\ job[t].rec \in Records
      /\ job[t].op # "migrate" => a = job[t].addr
  BY <1>1, <1>2, <1>3, Zenon DEF Target, TaskOK, JobAt, LocksAt, Working
<1> DEFINE rec == job[t].rec
           lost == PreKeys \cap (last[a].has \ rec.has)
           map == [entry EXCEPT ![a] = rec]
<1>5. /\ SetMap(map, dirty \cup {a}, deleted \ {a})
      /\ last' = [last EXCEPT ![a] = rec] /\ stale' = stale \ {a}
      /\ waived' = IF job[t].op = "migrate" THEN waived \cup lost ELSE waived
      /\ dropped' = IF ~job[t].fresh THEN dropped \cup lost ELSE dropped
  BY <1>3, Zenon DEF put_session
<1>6. /\ last' \in [Addrs -> Records \cup {None}] /\ last'[a] = rec
      /\ \A b \in Addrs : b # a => last'[b] = last[b]
  BY <1>2, <1>4, <1>5, Zenon
<1>7. /\ entry' \in [Addrs -> Entries] /\ dirty' = dirty \cup {a} /\ deleted' = deleted \ {a}
      /\ gap \subseteq gap' /\ gap' \subseteq Tasks /\ entry'[a] = rec
      /\ \A b \in Addrs : b # a =>
            \/ entry'[b] = entry[b]
            \/ /\ entry'[b].tag = "none" /\ b \notin dirty /\ b \notin deleted
               /\ \A u \in Tasks : pc[u] = "fill" /\ job[u].addr = b => u \in gap'
  <2>1. /\ map \in [Addrs -> Entries] /\ map[a] = rec
        /\ \A b \in Addrs : b # a => map[b] = entry[b]
    BY <1>2, <1>4, Zenon DEF Entries
  <2>2. SetMap(map, dirty \cup {a}, deleted \ {a})
    BY <1>5, Zenon
  <2> HIDE DEF map
  <2>3. /\ entry' \in [Addrs -> Entries] /\ dirty' = dirty \cup {a} /\ deleted' = deleted \ {a}
        /\ gap \subseteq gap' /\ gap' \subseteq Tasks
        /\ \A b \in Addrs :
              \/ entry'[b] = map[b]
              \/ /\ entry'[b] = None /\ b \notin dirty \cup {a} /\ b \notin deleted \ {a}
                 /\ map[b].tag # "none" /\ map[b].tag # "out"
                 /\ \A u \in Tasks : pc[u] = "fill" /\ job[u].addr = b => u \in gap'
    BY <1>2, <2>1, <2>2, Trimmed
  <2> QED
    BY <2>1, <2>3, Values
<1>8. /\ waived' \subseteq PreKeys /\ dropped' \subseteq PreKeys
      /\ \A p \in Given : p \in Given'
  BY <1>2, <1>5, Zenon DEF Given
\* No prekey gets lost silently.
<1>9. \A p \in PreKeys : p \in last[a].has => p \in rec.has \/ p \in Given'
  <2> SUFFICES ASSUME NEW p \in PreKeys, p \in last[a].has, p \notin rec.has PROVE p \in Given'
    BY Zenon
  <2>1. p \in lost
    BY Zenon
  <2>2. job[t].op # "migrate" /\ job[t].fresh => p \in Given
    BY <1>1, <1>2, <1>4, Zenon DEF TaskOK, KeysAt
  <2> QED
    BY <1>5, <1>8, <2>1, <2>2, Zenon DEF Given
<1> HIDE DEF rec, lost, map
<1>10. /\ Alone(t) /\ JobAt(t)' /\ LocksAt(t)' /\ FlushAt(t)' /\ ReaderAt(t)'
       /\ pc'[t] = "buffer" => a = job[t].addr /\ job[t].mark \in rec.has
       /\ pc'[t] \in {"buffer", "delete", "flush"}
       /\ \A b \in Addrs : b # a /\ InUse(b) => InUse(b)'
  BY <1>3, StoreMoves, Zenon DEF rec
<1>11. rec.tag = "present"
  BY <1>4, Values, Zenon DEF rec
<1>12. SignalTypeOK'
  <2>1. stale' \subseteq Addrs /\ dirty' \subseteq Addrs /\ deleted' \subseteq Addrs
    BY <1>2, <1>5, <1>7, Zenon
  <2> QED
    BY <1>1, <1>6, <1>7, <1>8, <1>10, <2>1, Types, Zenon DEF SignalTypeOK, Alone, Entries, JobRecord
<1>13. Slots'
  BY <1>6, <1>7, <1>11, Zenon DEF IInv, Slots
<1>14. OutIsHeld' /\ CleanIsDurable'
  BY <1>1, <1>6, <1>7, <1>10, <1>11, Zenon DEF IInv, OutIsHeld, CleanIsDurable
<1>15. SlotsFresh'
  BY <1>5, <1>6, <1>7, <1>10, <1>11 DEF IInv, SlotsFresh
<1>16. DiskIsOld' /\ CleanIsKept'
  BY <1>1, <1>6, <1>7, <1>8, <1>9, Zenon DEF IInv, DiskIsOld, CleanIsKept
<1>17. RemovedIsStored' /\ PrekeyOrSession'
  <2>1. removed \in [PreKeys -> Addrs \cup {NoAddr}]
    BY Types, Zenon
  <2>2. RemovedIsStored'
    BY <1>1, <1>6, <1>8, <1>9, <2>1, Zenon DEF IInv, RemovedIsStored
  <2>3. PrekeyOrSession'
    BY <1>1, <1>8, Zenon DEF IInv, PrekeyOrSession, Given
  <2> QED
    BY <2>2, <2>3, Zenon
<1>18. TaskOK(t)'
  <2>1. KeysAt(t)'
    BY <1>1, <1>6, <1>10, Zenon DEF KeysAt
  <2> QED
    BY <1>10, <2>1, Zenon DEF TaskOK
<1>19. ASSUME NEW u \in Tasks, u # t PROVE TaskOK(u)'
  <2>1. TaskOK(u) /\ pc'[u] = pc[u] /\ job'[u] = job[u]
    BY <1>10, <1>19, Zenon DEF IInv, Alone
  <2>2. FlushAt(u)'
    BY <1>1, <2>1, NoFlush, Zenon DEF FlushAt
  <2>3. JobAt(u)'
    BY <2>1, Zenon DEF TaskOK, JobAt, Takes
  <2>4. LocksAt(u)'
    <3>1. pc[u] \in Working => job[u].addr \in Addrs
      BY <2>1, Zenon DEF TaskOK, JobAt
    <3>2. Lid \in Addrs
      BY SignalAssumption, Zenon
    <3> QED
      BY <1>10, <1>19, <2>1, <3>1, <3>2 DEF TaskOK, LocksAt, Alone, Takes
  <2>5. pc[u] \in Working /\ Takes(u) => job[u].addr \in Addrs /\ job[u].addr # a
    BY <1>4, <1>19, <2>1, Zenon DEF TaskOK, JobAt, LocksAt
  <2>6. KeysAt(u)'
    <3>1. pc[u] \in {"crypt", "store", "buffer"} => job[u].addr \in Addrs /\ job[u].addr # a
      BY <2>1, <2>5, Zenon DEF TaskOK, JobAt, Working
    <3> QED
      BY <1>6, <1>8, <2>1, <3>1, Zenon DEF TaskOK, KeysAt
  <2>7. ReaderAt(u)'
    <3> SUFFICES ASSUME u \in Workers, u \notin gap', pc[u] \in {"read", "fill"}
                 PROVE  ReaderAt(u)'
      BY <2>1, Zenon DEF ReaderAt
    <3>1. PICK b \in Addrs : b = job[u].addr
      BY <2>1, Zenon DEF TaskOK, JobAt, Working
    <3>2. ReaderAt(u) /\ u \notin gap
      BY <1>7, <2>1, Zenon DEF TaskOK
    <3>3. CASE b = a
      <4>1. ~Takes(u)
        BY <2>5, <3>1, <3>3, Zenon DEF Working
      <4> QED
        BY <1>7, <1>11, <2>1, <3>1, <3>3, <4>1, Zenon DEF ReaderAt, Takes
    <3>4. CASE b # a
      <4>1. /\ pc[u] = "fill" /\ entry'[b].tag = "none" => entry[b].tag = "none"
            /\ last'[b] = last[b] /\ (b \in dirty' <=> b \in dirty) /\ (b \in deleted' <=> b \in deleted)
            /\ ~InUse(b)' => ~InUse(b)
        BY <1>6, <1>7, <1>10, <3>1, <3>4, Zenon
      <4> QED
        BY <2>1, <3>1, <3>2, <4>1, Zenon DEF ReaderAt, Takes
    <3> QED
      BY <3>3, <3>4, Zenon
  <2> QED
    BY <2>2, <2>3, <2>4, <2>6, <2>7, Zenon DEF TaskOK
<1>20. \A u \in Tasks : TaskOK(u)'
  BY <1>18, <1>19, Zenon
<1> QED
  BY <1>12, <1>13, <1>14, <1>15, <1>16, <1>17, <1>20, Zenon DEF IInv

\* A session is deleted, under its lock or without it.
LEMMA Deletes ==
    ASSUME IInv, NEW t \in Workers, delete_session(t)
    PROVE  IInv'
<1>1. /\ pc[t] = "delete" /\ sessions = NoOne /\ t \in Tasks /\ job' = job
      /\ UNCHANGED <<removed, disk, keys, sessions, dropped, count>>
      /\ Unlock(t, "flush") /\ "flush" \in PcStates
  BY Zenon DEF delete_session, diskVars, Tasks, PcStates
<1>2. /\ TaskOK(t) /\ entry \in [Addrs -> Entries] /\ last \in [Addrs -> Records \cup {None}]
      /\ gap \subseteq Tasks /\ job \in [Tasks -> JobRecord] /\ waived \subseteq PreKeys
      /\ dirty \subseteq Addrs /\ deleted \subseteq Addrs /\ stale \subseteq Addrs
      /\ removed \in [PreKeys -> Addrs \cup {NoAddr}]
  BY <1>1, Types, Zenon DEF IInv
<1>3. PICK a \in Addrs : a = job[t].addr
  BY <1>1, <1>2, Zenon DEF TaskOK, JobAt, Working
<1>4. /\ entry' = [entry EXCEPT ![a] = Absent]
      /\ deleted' = deleted \cup {a} /\ dirty' = dirty \ {a}
      /\ last' = [last EXCEPT ![a] = None] /\ stale' = stale \ {a}
      /\ gap' = gap \cup Readers({a}, {"read", "fill"})
      /\ waived' = waived \cup (PreKeys \cap (last[a].has \cup job[t].rec.has))
  BY <1>3, Zenon DEF delete_session
<1>5. /\ entry' \in [Addrs -> Entries] /\ entry'[a].tag = "absent"
      /\ last' \in [Addrs -> Records \cup {None}] /\ last'[a] = None /\ last'[a].has = {}
      /\ \A b \in Addrs : b # a => last'[b] = last[b] /\ entry'[b] = entry[b]
  BY <1>2, <1>4, Values, Zenon DEF Entries
<1>6. /\ gap \subseteq gap' /\ gap' \subseteq Tasks
      /\ \A u \in Tasks : pc[u] \in {"read", "fill"} /\ job[u].addr = a => u \in gap'
  BY <1>2, <1>4, Zenon DEF Readers
<1>7. /\ waived' \subseteq PreKeys /\ \A p \in Given : p \in Given'
      /\ \A p \in PreKeys : p \in last[a].has => p \in Given'
  BY <1>1, <1>2, <1>4, Zenon DEF Given
<1>8. Alone(t) /\ pc'[t] = "flush"
  BY <1>1, <1>2, Unlocks, Zenon DEF Alone
<1>9. ASSUME NEW b \in Addrs, b # a, InUse(b) PROVE InUse(b)'
  <2>1. PICK u \in Workers : /\ lock[b] = u /\ job[u].addr = b /\ job[u].rec # None
                             /\ pc[u] \in {"crypt", "store", "delete"}
    BY <1>9, Zenon DEF InUse
  <2>2. pc'[u] = pc[u] /\ lock'[b] = u
    BY <1>3, <1>8, <1>9, <2>1, Zenon DEF Alone, Tasks
  <2> QED
    BY <1>1, <2>1, <2>2, Zenon DEF InUse
<1>10. SignalTypeOK'
  <2>1. stale' \subseteq Addrs /\ dirty' \subseteq Addrs /\ deleted' \subseteq Addrs
    BY <1>2, <1>4, Zenon
  <2> QED
    BY <1>1, <1>5, <1>6, <1>7, <1>8, <2>1, Types, Zenon DEF SignalTypeOK, Alone, Entries, JobRecord
<1>11. Slots'
  BY <1>4, <1>5, Zenon DEF IInv, Slots
<1>12. OutIsHeld' /\ CleanIsDurable' /\ SlotsFresh'
  BY <1>1, <1>4, <1>5, <1>9, Zenon DEF IInv, OutIsHeld, CleanIsDurable, SlotsFresh
<1>13. DiskIsOld' /\ CleanIsKept'
  BY <1>1, <1>4, <1>5, <1>7, Zenon DEF IInv, DiskIsOld, CleanIsKept
<1>14. RemovedIsStored'
  BY <1>1, <1>2, <1>5, <1>7, Zenon DEF IInv, RemovedIsStored
<1>15. PrekeyOrSession'
  BY <1>1, <1>7, Zenon DEF IInv, PrekeyOrSession, Given
<1>16. ASSUME NEW u \in Tasks, u # t PROVE TaskOK(u)'
  <2>1. TaskOK(u) /\ pc'[u] = pc[u] /\ job'[u] = job[u]
    BY <1>8, <1>16, Zenon DEF IInv, Alone
  <2>2. FlushAt(u)'
    BY <1>1, <2>1, NoFlush, Zenon DEF FlushAt
  <2>3. JobAt(u)'
    BY <2>1 DEF TaskOK, JobAt, Takes
  <2>4. pc[u] \in Working => job[u].addr \in Addrs
    BY <2>1 DEF TaskOK, JobAt
  <2>5. LocksAt(u)'
    <3>1. Lid \in Addrs
      BY SignalAssumption
    <3> QED
      BY <1>8, <1>16, <2>1, <2>4, <3>1 DEF TaskOK, LocksAt, Alone, Takes
  <2>6. KeysAt(u)'
    <3>1. pc[u] \in {"crypt", "store", "buffer"} => job[u].addr \in Addrs
      BY <2>4, Zenon DEF Working
    <3>2. pc[u] = "buffer" => job[u].mark \in PreKeys
      BY <2>1, Zenon DEF TaskOK, JobAt
    <3> QED
      BY <1>5, <1>7, <2>1, <3>1, <3>2 DEF TaskOK, KeysAt
  <2>7. ReaderAt(u)'
    <3> SUFFICES ASSUME u \in Workers, u \notin gap', pc[u] \in {"read", "fill"}
                 PROVE  ReaderAt(u)'
      BY <2>1 DEF ReaderAt
    <3>1. PICK b \in Addrs : b = job[u].addr
      BY <2>4, Zenon DEF Working
    <3>2. ReaderAt(u) /\ u \notin gap /\ b # a
      BY <1>6, <2>1, <3>1, Zenon DEF TaskOK
    <3>3. /\ entry'[b] = entry[b] /\ last'[b] = last[b]
          /\ (b \in dirty' <=> b \in dirty) /\ (b \in deleted' <=> b \in deleted)
          /\ ~InUse(b)' => ~InUse(b)
      BY <1>4, <1>5, <1>9, <3>2, Zenon
    <3> QED
      BY <2>1, <3>1, <3>2, <3>3, Zenon DEF ReaderAt, Takes
  <2> QED
    BY <2>2, <2>3, <2>5, <2>6, <2>7 DEF TaskOK
<1>17. \A u \in Tasks : TaskOK(u)'
  BY <1>8, <1>16, RestOK, Zenon DEF Resting
<1> QED
  BY <1>10, <1>11, <1>12, <1>13, <1>14, <1>15, <1>17, Zenon DEF IInv

\* A task comes to rest, and only the buffered prekeys change.
LEMMA BufferStep ==
    ASSUME IInv, NEW t \in Tasks, Alone(t), ~Holds(t), pc'[t] \in Resting,
           UNCHANGED <<entry, dirty, deleted, disk, keys, sessions, last, gap, stale, waived,
                       dropped, count>>,
           removed' \in [PreKeys -> Addrs \cup {NoAddr}], RemovedIsStored'
    PROVE  IInv'
<1>1. \A a \in Addrs : InUse(a) => InUse(a)'
  <2>1. HoldsOn(t)
    BY Zenon DEF HoldsOn
  <2> QED
    BY <2>1, InUseKept, Zenon
<1>2. SignalTypeOK'
  BY Types, Zenon DEF SignalTypeOK, Alone, Entries, JobRecord
<1>3. Slots' /\ DiskIsOld' /\ CleanIsKept' /\ PrekeyOrSession'
  BY Zenon DEF IInv, Slots, DiskIsOld, CleanIsKept, PrekeyOrSession, Given
<1>4. OutIsHeld' /\ CleanIsDurable' /\ SlotsFresh'
  BY <1>1, Zenon DEF IInv, OutIsHeld, CleanIsDurable, SlotsFresh
<1>5. ASSUME NEW u \in Tasks, u # t PROVE TaskOK(u)'
  <2>1. TaskOK(u) /\ pc'[u] = pc[u] /\ job'[u] = job[u]
    BY <1>5, Zenon DEF IInv, Alone
  <2>2. JobAt(u)' /\ FlushAt(u)' /\ KeysAt(u)'
    BY <2>1 DEF TaskOK, JobAt, FlushAt, KeysAt, Given, Takes
  <2>3. pc[u] \in Working => job[u].addr \in Addrs
    BY <2>1, Zenon DEF TaskOK, JobAt
  <2>4. LocksAt(u)'
    <3>1. Lid \in Addrs
      BY SignalAssumption, Zenon
    <3> QED
      BY <1>5, <2>1, <2>3, <3>1 DEF TaskOK, LocksAt, Alone, Takes
  <2>5. ReaderAt(u)'
    <3>1. pc[u] \in {"read", "fill"} => job[u].addr \in Addrs
      BY <2>3, Zenon DEF Working
    <3> QED
      BY <1>1, <2>1, <3>1, Zenon DEF TaskOK, ReaderAt, Takes
  <2> QED
    BY <2>2, <2>4, <2>5, Zenon DEF TaskOK
<1>6. \A u \in Tasks : TaskOK(u)'
  BY <1>5, RestOK, Zenon
<1> QED
  BY <1>2, <1>3, <1>4, <1>6, Zenon DEF IInv

\* A consumed prekey is buffered.
LEMMA Buffers ==
    ASSUME IInv, NEW t \in Workers, remove_prekey(t)
    PROVE  IInv'
<1>1. /\ pc[t] = "buffer" /\ t \in Tasks /\ job' = job
      /\ UNCHANGED <<entry, dirty, deleted, disk, keys, sessions, last, gap, stale, waived,
                     dropped, count>>
      /\ removed' = [removed EXCEPT ![job[t].mark] = job[t].addr]
      /\ Unlock(t, "flush") /\ "flush" \in PcStates
  BY Zenon DEF remove_prekey, diskVars, ghosts, Tasks, PcStates
<1>2. /\ TaskOK(t) /\ job \in [Tasks -> JobRecord]
      /\ removed \in [PreKeys -> Addrs \cup {NoAddr}]
  BY <1>1, Types, Zenon DEF IInv
<1>3. /\ job[t].mark \in PreKeys /\ job[t].addr \in Addrs
      /\ job[t].mark \in last[job[t].addr].has \/ job[t].mark \in Given
  BY <1>1, <1>2, Zenon DEF TaskOK, JobAt, KeysAt, Working
<1>4. Alone(t) /\ pc'[t] = "flush" /\ ~Holds(t)
  BY <1>1, <1>2, Unlocks DEF Alone, Holds
<1>5. removed' \in [PreKeys -> Addrs \cup {NoAddr}] /\ RemovedIsStored'
  <2>1. /\ removed' \in [PreKeys -> Addrs \cup {NoAddr}]
        /\ removed'[job[t].mark] = job[t].addr
        /\ \A p \in PreKeys : p # job[t].mark => removed'[p] = removed[p]
    BY <1>1, <1>2, <1>3, Zenon
  <2>2. Given' = Given
    BY <1>1, Zenon DEF Given
  <2> QED
    BY <1>1, <1>3, <2>1, <2>2, Zenon DEF IInv, RemovedIsStored
<1> QED
  BY <1>1, <1>4, <1>5, BufferStep, Zenon DEF Resting

----------------------------------------------------------------------------
(* The flush *)

\* A flush leaves the other tasks alone.
LEMMA FlushAlone ==
    ASSUME IInv, NEW t \in Tasks, Alone(t), lock' = lock, pc[t] \notin Working, pc'[t] \notin Working,
           \A u \in Tasks : u # t => pc[u] # "deletes" /\ pc[u] # "prekeys",
           UNCHANGED <<last, waived, dropped>>,
           gap \subseteq gap', dirty' \subseteq dirty, deleted' \subseteq deleted,
           \A a \in Addrs :
              \/ entry'[a] = entry[a]
              \/ /\ entry'[a].tag = "none"
                 /\ \A u \in Tasks : pc[u] = "fill" /\ job[u].addr = a => u \in gap'
    PROVE  /\ \A a \in Addrs : InUse(a) <=> InUse(a)'
           /\ \A u \in Tasks : u # t => TaskOK(u)'
<1>1. \A a \in Addrs : InUse(a) <=> InUse(a)'
  <2>1. \A u \in Workers : u # t => pc'[u] = pc[u] /\ job'[u] = job[u]
    BY Zenon DEF Alone, Tasks
  <2>2. /\ pc[t] \notin {"crypt", "store", "delete"}
        /\ pc'[t] \notin {"crypt", "store", "delete"}
    BY Zenon DEF Working
  <2> QED
    BY <2>1, <2>2, Zenon DEF InUse
<1>2. ASSUME NEW u \in Tasks, u # t PROVE TaskOK(u)'
  <2>1. TaskOK(u) /\ pc'[u] = pc[u] /\ job'[u] = job[u]
    BY <1>2, Zenon DEF IInv, Alone
  <2>2. FlushAt(u)'
    BY <1>2, <2>1, Zenon DEF FlushAt
  <2>3. JobAt(u)' /\ LocksAt(u)' /\ KeysAt(u)'
    BY <2>1 DEF TaskOK, JobAt, LocksAt, KeysAt, Given, Takes
  <2>4. ReaderAt(u)'
    <3> SUFFICES ASSUME u \in Workers, u \notin gap', pc[u] \in {"read", "fill"}
                 PROVE  ReaderAt(u)'
      BY <2>1, Zenon DEF ReaderAt
    <3>1. PICK b \in Addrs : b = job[u].addr
      BY <2>1, Zenon DEF TaskOK, JobAt, Working
    <3>2. ReaderAt(u) /\ u \notin gap
      BY <2>1, Zenon DEF TaskOK
    <3>3. pc[u] = "fill" /\ entry'[b].tag = "none" => entry[b].tag = "none"
      BY <3>1, Zenon
    <3> QED
      BY <1>1, <2>1, <3>1, <3>2, <3>3, Zenon DEF ReaderAt, Takes
  <2> QED
    BY <2>2, <2>3, <2>4, Zenon DEF TaskOK
<1> QED
  BY <1>1, <1>2, Zenon

\* The holder of the mutex is the only one in a flush.
LEMMA OneFlush ==
    ASSUME IInv, NEW t \in Tasks, pc[t] \in {"deletes", "prekeys"} \/ sessions = NoOne
    PROVE  \A u \in Tasks : u # t => pc[u] # "deletes" /\ pc[u] # "prekeys"
BY SignalAssumption, Zenon DEF IInv, TaskOK, FlushAt

\* The list of a flush is replaced.
LEMMA Todo ==
    ASSUME IInv, NEW t \in Tasks, NEW x \in SUBSET (Addrs \cup PreKeys),
           job' = [job EXCEPT ![t].todo = x]
    PROVE  /\ job' \in [Tasks -> JobRecord] /\ job'[t].todo = x
           /\ \A u \in Tasks : u # t => job'[u] = job[u]
<1>1. job \in [Tasks -> JobRecord]
  BY Types, Zenon
<1> QED
  BY <1>1 DEF JobRecord

\* The dirty sessions are written.
LEMMA Batches ==
    ASSUME IInv, NEW t \in Tasks, put_sessions_batch(t)
    PROVE  IInv'
<1>1. /\ pc[t] = "flush" /\ sessions = NoOne /\ sessions' = t /\ lock' = lock
      /\ UNCHANGED <<entry, dirty, deleted, removed, keys, last, gap, stale, waived, dropped, count>>
      /\ Goto(t, "deletes") /\ "deletes" \in PcStates
  BY Zenon DEF put_sessions_batch, cacheVars, ghosts, PcStates
<1>2. /\ entry \in [Addrs -> Entries] /\ disk \in [Addrs -> Records \cup {None}]
      /\ last \in [Addrs -> Records \cup {None}] /\ deleted \subseteq Addrs
      /\ dirty \subseteq Addrs
  BY Types, Zenon
<1>3. \A a \in Addrs : disk'[a] = IF a \in dirty /\ entry[a].tag = "present"
                                  THEN entry[a] ELSE disk[a]
  BY Zenon DEF put_sessions_batch
<1>4. disk' \in [Addrs -> Records \cup {None}]
  <2>1. \A a \in Addrs : entry[a].tag = "present" => entry[a] \in Records
    BY <1>2, Tags, Zenon
  <2> QED
    BY <1>2, <2>1, Zenon DEF put_sessions_batch
<1>5. \A a \in Addrs : disk'[a] = disk[a] \/ (a \in dirty /\ disk'[a] = last[a])
  BY <1>3, Zenon DEF IInv, Slots
<1>6. /\ job' \in [Tasks -> JobRecord] /\ job'[t].todo = deleted
      /\ \A u \in Tasks : u # t => job'[u] = job[u]
  <2>1. deleted \in SUBSET (Addrs \cup PreKeys)
    BY <1>2, Zenon
  <2> QED
    BY <2>1, Todo, Zenon DEF put_sessions_batch
<1>7. /\ pc' \in [Tasks -> PcStates] /\ pc'[t] = "deletes"
      /\ \A u \in Tasks : u # t => pc'[u] = pc[u]
  BY <1>1, Goes, Zenon
<1>8. Alone(t)
  BY <1>1, <1>6, <1>7, LockSame, Zenon DEF Alone
<1>9. /\ \A a \in Addrs : InUse(a) <=> InUse(a)'
      /\ \A u \in Tasks : u # t => TaskOK(u)'
  <2>1. /\ pc[t] \notin Working /\ pc'[t] \notin Working
        /\ \A u \in Tasks : u # t => pc[u] # "deletes" /\ pc[u] # "prekeys"
    BY <1>1, <1>7, OneFlush, Zenon DEF Working
  <2> QED
    BY <1>1, <1>8, <2>1, FlushAlone, Zenon
<1>10. TaskOK(t)'
  <2>1. FlushAt(t)'
    BY <1>1, <1>2, <1>3, <1>6, <1>7, Zenon DEF FlushAt
  <2>2. JobAt(t)' /\ LocksAt(t)' /\ ReaderAt(t)' /\ KeysAt(t)'
    BY <1>7, Zenon DEF JobAt, LocksAt, ReaderAt, KeysAt, Working, Loading
  <2> QED
    BY <2>1, <2>2, Zenon DEF TaskOK
<1>11. SignalTypeOK'
  BY <1>1, <1>4, <1>8, Types, Zenon DEF SignalTypeOK, Alone, Entries, JobRecord
<1>12. Slots' /\ RemovedIsStored'
  BY <1>1, Zenon DEF IInv, Slots, RemovedIsStored, Given
<1>13. OutIsHeld' /\ CleanIsDurable' /\ SlotsFresh'
  BY <1>1, <1>5, <1>9, Zenon DEF IInv, OutIsHeld, CleanIsDurable, SlotsFresh
<1>14. DiskIsOld' /\ CleanIsKept'
  BY <1>1, <1>5, Zenon DEF IInv, DiskIsOld, CleanIsKept, Given
<1>15. PrekeyOrSession'
  BY <1>1, <1>5, Zenon DEF IInv, PrekeyOrSession, DiskIsOld, Given
<1>16. \A u \in Tasks : TaskOK(u)'
  BY <1>9, <1>10, Zenon
<1> QED
  BY <1>11, <1>12, <1>13, <1>14, <1>15, <1>16, Zenon DEF IInv

\* A deleted session leaves the backend.
LEMMA DeletesDurably ==
    ASSUME IInv, NEW t \in Tasks, DeleteDurably(t)
    PROVE  IInv'
<1>1. /\ pc[t] = "deletes" /\ lock' = lock /\ pc' = pc
      /\ UNCHANGED <<entry, dirty, deleted, removed, keys, sessions, last, gap, stale, waived,
                     dropped, count>>
  BY Zenon DEF DeleteDurably, cacheVars, ghosts
<1>2. /\ disk \in [Addrs -> Records \cup {None}] /\ deleted \subseteq Addrs
      /\ dirty \subseteq Addrs /\ TaskOK(t) /\ pc \in [Tasks -> PcStates]
  BY Types, Zenon DEF IInv
<1>3. PICK a \in job[t].todo : /\ disk' = [disk EXCEPT ![a] = None]
                               /\ job' = [job EXCEPT ![t].todo = @ \ {a}]
  BY Zenon DEF DeleteDurably
<1>4. /\ sessions = t /\ job[t].todo \subseteq deleted
      /\ \A b \in dirty : entry[b].tag = "present" => disk[b] = entry[b]
      /\ \A b \in deleted \ job[t].todo : disk[b] = None
  BY <1>1, <1>2, Zenon DEF TaskOK, FlushAt
<1>5. /\ a \in Addrs /\ a \in deleted /\ last[a] = None /\ last[a].has = {}
      /\ entry[a].tag = "absent" /\ a \notin dirty
  BY <1>2, <1>3, <1>4, Values, Zenon DEF IInv, Slots
<1>6. /\ disk' \in [Addrs -> Records \cup {None}] /\ disk'[a] = None /\ disk'[a].has = {}
      /\ \A b \in Addrs : b # a => disk'[b] = disk[b]
  BY <1>2, <1>3, <1>5, Values, Zenon
<1>7. \A p \in PreKeys : p \in disk[a].has => p \in Given
  BY <1>5, Zenon DEF IInv, DiskIsOld
<1>8. /\ job' \in [Tasks -> JobRecord] /\ job'[t].todo = job[t].todo \ {a}
      /\ \A u \in Tasks : u # t => job'[u] = job[u]
  <2> DEFINE x == job[t].todo \ {a}
  <2>1. x \in SUBSET (Addrs \cup PreKeys) /\ job' = [job EXCEPT ![t].todo = x]
    BY <1>2, <1>3, <1>4, Zenon
  <2> HIDE DEF x
  <2>2. /\ job' \in [Tasks -> JobRecord] /\ job'[t].todo = x
        /\ \A u \in Tasks : u # t => job'[u] = job[u]
    BY <2>1, Todo, Zenon
  <2> QED
    BY <2>2, Zenon DEF x
<1>9. Alone(t)
  BY <1>1, <1>2, <1>8, LockSame, Zenon DEF Alone
<1>10. /\ \A b \in Addrs : InUse(b) <=> InUse(b)'
       /\ \A u \in Tasks : u # t => TaskOK(u)'
  <2>1. /\ pc[t] \notin Working /\ pc'[t] \notin Working
        /\ \A u \in Tasks : u # t => pc[u] # "deletes" /\ pc[u] # "prekeys"
    BY <1>1, OneFlush, Zenon DEF Working
  <2> QED
    BY <1>1, <1>9, <2>1, FlushAlone, Zenon
<1>11. TaskOK(t)'
  <2>1. FlushAt(t)'
    BY <1>1, <1>2, <1>4, <1>5, <1>6, <1>8, Zenon DEF FlushAt
  <2>2. JobAt(t)' /\ LocksAt(t)' /\ ReaderAt(t)' /\ KeysAt(t)'
    BY <1>1, Zenon DEF JobAt, LocksAt, ReaderAt, KeysAt, Working, Loading
  <2> QED
    BY <2>1, <2>2, Zenon DEF TaskOK
<1>12. SignalTypeOK'
  BY <1>1, <1>6, <1>9, Types, Zenon DEF SignalTypeOK, Alone, Entries, JobRecord
<1>13. Slots' /\ RemovedIsStored'
  BY <1>1, Zenon DEF IInv, Slots, RemovedIsStored, Given
<1>14. OutIsHeld' /\ CleanIsDurable' /\ SlotsFresh'
  BY <1>1, <1>5, <1>6, <1>10, Zenon DEF IInv, OutIsHeld, CleanIsDurable, SlotsFresh
<1>15. DiskIsOld' /\ CleanIsKept'
  BY <1>1, <1>5, <1>6, Zenon DEF IInv, DiskIsOld, CleanIsKept, Given
<1>16. PrekeyOrSession'
  BY <1>1, <1>5, <1>6, <1>7, Zenon DEF IInv, PrekeyOrSession, Given
<1>17. \A u \in Tasks : TaskOK(u)'
  BY <1>10, <1>11, Zenon
<1> QED
  BY <1>12, <1>13, <1>14, <1>15, <1>16, <1>17, Zenon DEF IInv

\* The writes succeeded: what the map no longer holds dirty is durable, and so
\* is the session of every prekey picked for deletion.
LEMMA Settles ==
    ASSUME IInv, NEW t \in Tasks, Settle(t)
    PROVE  IInv'
<1> DEFINE dirt == {a \in dirty : entry[a].tag = "out"}
           picked == {p \in PreKeys : removed[p] # NoAddr /\ IsDurable(entry', removed[p])}
<1>1. /\ pc[t] = "deletes" /\ job[t].todo = {} /\ lock' = lock
      /\ UNCHANGED <<removed, disk, keys, sessions, last, stale, waived, dropped, count>>
      /\ SetMap(entry, dirt, {}) /\ job' = [job EXCEPT ![t].todo = picked]
      /\ Goto(t, "prekeys") /\ "prekeys" \in PcStates
  BY Zenon DEF Settle, diskVars, PcStates
<1>2. /\ entry \in [Addrs -> Entries] /\ dirty \subseteq Addrs /\ TaskOK(t)
      /\ gap \subseteq Tasks /\ removed \in [PreKeys -> Addrs \cup {NoAddr}]
  BY Types, Zenon DEF IInv
<1>3. /\ sessions = t
      /\ \A a \in dirty : entry[a].tag = "present" => disk[a] = entry[a]
      /\ \A a \in deleted : disk[a] = None
  BY <1>1, <1>2, Zenon DEF TaskOK, FlushAt
<1>4. /\ entry' \in [Addrs -> Entries] /\ dirty' = dirt /\ deleted' = {}
      /\ gap \subseteq gap' /\ gap' \subseteq Tasks
      /\ \A a \in Addrs :
            \/ entry'[a] = entry[a]
            \/ /\ entry'[a].tag = "none" /\ a \notin dirt
               /\ \A u \in Tasks : pc[u] = "fill" /\ job[u].addr = a => u \in gap'
  <2> HIDE DEF dirt
  <2>1. /\ entry' \in [Addrs -> Entries] /\ dirty' = dirt /\ deleted' = {}
        /\ gap \subseteq gap' /\ gap' \subseteq Tasks
        /\ \A a \in Addrs :
              \/ entry'[a] = entry[a]
              \/ /\ entry'[a] = None /\ a \notin dirt /\ a \notin {}
                 /\ entry[a].tag # "none" /\ entry[a].tag # "out"
                 /\ \A u \in Tasks : pc[u] = "fill" /\ job[u].addr = a => u \in gap'
    BY <1>1, <1>2, Trimmed
  <2> QED
    BY <2>1, Values, Zenon
<1>5. /\ job' \in [Tasks -> JobRecord] /\ job'[t].todo = picked
      /\ \A u \in Tasks : u # t => job'[u] = job[u]
  <2>1. picked \in SUBSET (Addrs \cup PreKeys)
    BY Zenon
  <2> HIDE DEF picked
  <2> QED
    BY <1>1, <2>1, Todo, Zenon
<1>6. /\ pc' \in [Tasks -> PcStates] /\ pc'[t] = "prekeys"
      /\ \A u \in Tasks : u # t => pc'[u] = pc[u]
  BY <1>1, Goes, Zenon
<1>7. Alone(t)
  BY <1>1, <1>5, <1>6, LockSame, Zenon DEF Alone
<1>8. /\ \A a \in Addrs : InUse(a) <=> InUse(a)'
      /\ \A u \in Tasks : u # t => TaskOK(u)'
  <2>1. /\ pc[t] \notin Working /\ pc'[t] \notin Working
        /\ \A u \in Tasks : u # t => pc[u] # "deletes" /\ pc[u] # "prekeys"
    BY <1>1, <1>6, OneFlush, Zenon DEF Working
  <2>2. dirty' \subseteq dirty /\ deleted' \subseteq deleted
    BY <1>4, Zenon
  <2> HIDE DEF dirt, picked
  <2> QED
    BY <1>1, <1>4, <1>7, <2>1, <2>2, FlushAlone, Zenon
\* What was marked and is not out has been written.
<1>9. \A a \in Addrs : (a \in dirty \/ a \in deleted) /\ a \notin dirt => last[a] = disk[a]
  BY <1>3, Zenon DEF IInv, Slots
<1>10. CleanIsDurable' /\ CleanIsKept'
  BY <1>1, <1>4, <1>8, <1>9, Zenon DEF IInv, CleanIsDurable, CleanIsKept, Given
<1>11. \A p \in picked : p \in Given \/ \E a \in Addrs : p \in disk[a].has
  <2> SUFFICES ASSUME NEW p \in picked PROVE p \in Given \/ \E a \in Addrs : p \in disk[a].has
    BY Zenon
  <2>1. /\ p \in PreKeys /\ removed[p] \in Addrs /\ IsDurable(entry', removed[p])
    BY <1>2, Zenon
  <2>2. entry'[removed[p]].tag # "out"
    BY <2>1, Zenon DEF IsDurable
  <2>3. removed[p] \notin dirty' /\ removed[p] \notin deleted'
    BY <1>4, <2>1, <2>2, Zenon
  <2>4. p \in last[removed[p]].has \/ p \in Given
    BY <2>1, SignalAssumption, Zenon DEF IInv, RemovedIsStored
  <2> QED
    BY <1>1, <1>10, <2>1, <2>3, <2>4, Zenon DEF CleanIsKept, Given
<1>12. TaskOK(t)'
  <2>1. FlushAt(t)'
    BY <1>1, <1>3, <1>5, <1>6, <1>11, Zenon DEF FlushAt, Given
  <2>2. JobAt(t)' /\ LocksAt(t)' /\ ReaderAt(t)' /\ KeysAt(t)'
    BY <1>6, Zenon DEF JobAt, LocksAt, ReaderAt, KeysAt, Working, Loading
  <2> QED
    BY <2>1, <2>2 DEF TaskOK
<1>13. SignalTypeOK'
  <2>1. dirty' \subseteq Addrs /\ deleted' \subseteq Addrs
    BY <1>2, <1>4, Zenon
  <2> QED
    BY <1>1, <1>4, <1>7, <2>1, Types, Zenon DEF SignalTypeOK, Alone, Entries, JobRecord
<1>14. Slots'
  BY <1>4, Zenon DEF Slots
<1>15. OutIsHeld' /\ SlotsFresh'
  BY <1>1, <1>4, <1>8, Zenon DEF IInv, OutIsHeld, SlotsFresh
<1>16. DiskIsOld' /\ RemovedIsStored' /\ PrekeyOrSession'
  BY <1>1, Zenon DEF IInv, DiskIsOld, RemovedIsStored, PrekeyOrSession, Given
<1>17. \A u \in Tasks : TaskOK(u)'
  BY <1>8, <1>12
<1> QED
  BY <1>10, <1>13, <1>14, <1>15, <1>16, <1>17, Zenon DEF IInv

\* A prekey leaves the backend.
LEMMA RemovesDurably ==
    ASSUME IInv, NEW t \in Tasks, RemoveDurably(t)
    PROVE  IInv'
<1>1. /\ pc[t] = "prekeys" /\ lock' = lock /\ pc' = pc /\ job' = job
      /\ UNCHANGED <<entry, dirty, deleted, removed, disk, sessions, last, gap, stale, waived,
                     dropped, count>>
  BY Zenon DEF RemoveDurably, cacheVars, ghosts
<1>2. PICK p \in job[t].todo : keys' = keys \ {p}
  BY Zenon DEF RemoveDurably
<1>3. p \in Given \/ \E a \in Addrs : p \in disk[a].has
  BY <1>1, <1>2, Zenon DEF IInv, TaskOK, FlushAt
<1>4. PrekeyOrSession'
  BY <1>1, <1>2, <1>3, Zenon DEF IInv, PrekeyOrSession, Given
<1>5. SignalTypeOK'
  <2>1. keys' \subseteq PreKeys
    BY <1>2, Types, Zenon
  <2> QED
    BY <1>1, <2>1, Zenon DEF IInv, SignalTypeOK
<1>6. Slots' /\ DiskIsOld' /\ CleanIsKept' /\ RemovedIsStored'
  BY <1>1, Zenon DEF IInv, Slots, DiskIsOld, CleanIsKept, RemovedIsStored, Given
<1>7. \A a \in Addrs : InUse(a)' <=> InUse(a)
  BY <1>1, Zenon DEF InUse
<1>8. OutIsHeld' /\ CleanIsDurable' /\ SlotsFresh'
  BY <1>1, <1>7, Zenon DEF IInv, OutIsHeld, CleanIsDurable, SlotsFresh
<1>9. ASSUME NEW u \in Tasks PROVE TaskOK(u)'
  <2>1. TaskOK(u)
    BY Zenon DEF IInv
  <2>2. JobAt(u)' /\ KeysAt(u)'
    BY <1>1, <2>1, Zenon DEF TaskOK, JobAt, KeysAt, Given, Takes
  <2>3. LocksAt(u)' /\ FlushAt(u)'
    BY <1>1, <2>1, Zenon DEF TaskOK, LocksAt, FlushAt, Given, Takes
  <2>4. ReaderAt(u)'
    <3>1. pc[u] = "fill" => job[u].addr \in Addrs
      BY <2>1, Zenon DEF TaskOK, JobAt, Working
    <3> QED
      BY <1>1, <1>7, <2>1, <3>1, Zenon DEF TaskOK, ReaderAt, Takes
  <2> QED
    BY <2>2, <2>3, <2>4, Zenon DEF TaskOK
<1> QED
  BY <1>4, <1>5, <1>6, <1>8, <1>9, Zenon DEF IInv

\* A flush ends, with success or with an error.
LEMMA FlushEnds ==
    ASSUME IInv, NEW t \in Tasks, pc[t] \in {"flush", "deletes", "prekeys"},
           pc[t] \in {"deletes", "prekeys"} \/ sessions = NoOne,
           NEW label \in {"idle", "clear"}, Goto(t, label), job' = [job EXCEPT ![t] = NoJob],
           UNCHANGED <<entry, dirty, deleted, disk, keys, lock, last, gap, stale, waived, dropped>>,
           sessions' = NoOne, count' \in CountRecord,
           removed' \in [PreKeys -> Addrs \cup {NoAddr}],
           \A p \in PreKeys : removed'[p] \in {removed[p], NoAddr}
    PROVE  IInv'
<1>1. label \in PcStates
  BY Zenon DEF PcStates
<1>2. Alone(t) /\ pc'[t] = label
  BY <1>1, Goes, JobOver, LockSame, ZenonT(30) DEF Alone
<1>3. /\ \A a \in Addrs : InUse(a) <=> InUse(a)'
      /\ \A u \in Tasks : u # t => TaskOK(u)'
  <2>1. /\ pc[t] \notin Working /\ pc'[t] \notin Working
        /\ \A u \in Tasks : u # t => pc[u] # "deletes" /\ pc[u] # "prekeys"
    BY <1>2, OneFlush, Zenon DEF Working
  <2> QED
    BY <1>2, <2>1, FlushAlone, Zenon
<1>4. TaskOK(t)'
  BY <1>2, RestOK, Zenon DEF Resting
<1>5. SignalTypeOK'
  BY <1>2, Types, Zenon DEF SignalTypeOK, Alone, Entries, JobRecord, CountRecord
<1>6. Slots' /\ DiskIsOld' /\ CleanIsKept' /\ PrekeyOrSession'
  BY Zenon DEF IInv, Slots, DiskIsOld, CleanIsKept, PrekeyOrSession, Given
<1>7. RemovedIsStored'
  BY Zenon DEF IInv, RemovedIsStored, Given
<1>8. OutIsHeld' /\ CleanIsDurable' /\ SlotsFresh'
  BY <1>3, Zenon DEF IInv, OutIsHeld, CleanIsDurable, SlotsFresh
<1>9. \A u \in Tasks : TaskOK(u)'
  BY <1>3, <1>4, Zenon
<1> QED
  BY <1>5, <1>6, <1>7, <1>8, <1>9, Zenon DEF IInv

LEMMA FlushIsDone ==
    ASSUME IInv, NEW t \in Tasks, FlushDone(t)
    PROVE  IInv'
<1> DEFINE label == IF t = Cleanup THEN "clear" ELSE "idle"
<1>1. /\ pc[t] = "prekeys" /\ sessions' = NoOne /\ job' = [job EXCEPT ![t] = NoJob]
      /\ UNCHANGED <<entry, dirty, deleted, disk, keys, lock, last, gap, stale, waived, dropped>>
      /\ count' = count /\ Goto(t, label) /\ label \in {"idle", "clear"}
  BY Zenon DEF FlushDone, diskVars, ghosts
<1>2. count' \in CountRecord /\ removed \in [PreKeys -> Addrs \cup {NoAddr}]
  BY <1>1, Types, Zenon DEF CountRecord
<1>3. /\ removed' \in [PreKeys -> Addrs \cup {NoAddr}]
      /\ \A p \in PreKeys : removed'[p] \in {removed[p], NoAddr}
  BY <1>2, Zenon DEF FlushDone
<1> HIDE DEF label
<1> QED
  BY <1>1, <1>2, <1>3, FlushEnds, ZenonT(30)

LEMMA FlushFailed ==
    ASSUME IInv, NEW t \in Tasks, FlushFails(t)
    PROVE  IInv'
<1>1. /\ pc[t] \in {"flush", "deletes", "prekeys"}
      /\ pc[t] \in {"deletes", "prekeys"} \/ sessions = NoOne
      /\ sessions' = NoOne /\ job' = [job EXCEPT ![t] = NoJob]
      /\ UNCHANGED <<entry, dirty, deleted, disk, keys, lock, last, gap, stale, waived, dropped>>
      /\ removed' = removed /\ Goto(t, "idle") /\ Failure
  BY Zenon DEF FlushFails, cacheVars, diskVars, ghosts
<1>2. removed' \in [PreKeys -> Addrs \cup {NoAddr}] /\ count \in CountRecord
  BY <1>1, Types, Zenon DEF CountRecord
<1>3. count' \in CountRecord
  BY <1>1, <1>2, CountKept, Zenon
<1> QED
  BY <1>1, <1>2, <1>3, FlushEnds, Zenon

----------------------------------------------------------------------------
(* The cleanup and crashes *)

\* The map is cleared.
LEMMA ClearsSessions ==
    ASSUME IInv, ClearSessions
    PROVE  IInv'
<1>1. /\ pc[Cleanup] = "clear" /\ sessions = NoOne /\ Cleanup \in Tasks /\ "clear2" \in PcStates
      /\ UNCHANGED <<removed, disk, keys, lock, sessions, job, waived, count>>
      /\ Goto(Cleanup, "clear2") /\ dirty' = {} /\ deleted' = {} /\ stale' = {}
  BY Zenon DEF ClearSessions, diskVars, Tasks, PcStates
<1>2. /\ entry \in [Addrs -> Entries] /\ last \in [Addrs -> Records \cup {None}]
      /\ disk \in [Addrs -> Records \cup {None}] /\ gap \subseteq Tasks
      /\ dropped \subseteq PreKeys /\ job \in [Tasks -> JobRecord]
      /\ removed \in [PreKeys -> Addrs \cup {NoAddr}]
  BY Types, Zenon
<1>3. entry' \in [Addrs -> Entries] /\ \A a \in Addrs : entry'[a].tag = "none"
  BY Values, Zenon DEF ClearSessions, Entries
<1>4. /\ last' \in [Addrs -> Records \cup {None}]
      /\ \A a \in Addrs : last'[a] = IF entry[a].tag = "out" THEN last[a] ELSE disk[a]
  BY <1>2, Zenon DEF ClearSessions
<1>5. /\ dropped' \subseteq PreKeys /\ \A p \in Given : p \in Given'
      /\ \A a \in Addrs, p \in PreKeys : p \in last[a].has => p \in disk[a].has \/ p \in Given'
  BY <1>1, <1>2 DEF ClearSessions, Given
<1>6. /\ gap \subseteq gap' /\ gap' \subseteq Tasks
      /\ \A u \in Tasks : pc[u] = "fill" /\ job[u].addr \in Addrs /\ entry[job[u].addr].tag # "none"
                             => u \in gap'
  BY <1>2, Zenon DEF ClearSessions, Readers, Cached
<1>7. Alone(Cleanup) /\ pc'[Cleanup] = "clear2" /\ ~Holds(Cleanup)
  BY <1>1, <1>2, Goes, LockSame DEF Alone, Holds
<1>8. \A a \in Addrs : InUse(a) => InUse(a)'
  BY <1>1, <1>7, InUseKept, Zenon DEF HoldsOn
<1>9. SignalTypeOK'
  BY <1>1, <1>3, <1>4, <1>5, <1>6, <1>7, Types, Zenon DEF SignalTypeOK, Alone, Entries, JobRecord
<1>10. Slots' /\ OutIsHeld' /\ SlotsFresh'
  BY <1>1, <1>3, Zenon DEF Slots, OutIsHeld, SlotsFresh
<1>11. CleanIsDurable'
  BY <1>1, <1>4, <1>8, Zenon DEF IInv, OutIsHeld, CleanIsDurable
<1>12. DiskIsOld' /\ CleanIsKept'
  BY <1>1, <1>4, <1>5, Zenon DEF IInv, DiskIsOld, CleanIsKept
\* What was stored is still there, or is counted as dropped.
<1>13. \A a \in Addrs, p \in PreKeys :
          /\ p \in last[a].has => p \in last'[a].has \/ p \in Given'
          /\ p \in last'[a].has => p \in last[a].has \/ p \in Given'
  BY <1>4, <1>5, Zenon DEF IInv, DiskIsOld
<1>14. RemovedIsStored'
  BY <1>1, <1>2, <1>5, <1>13, Zenon DEF IInv, RemovedIsStored
<1>15. PrekeyOrSession'
  BY <1>1, <1>5, Zenon DEF IInv, PrekeyOrSession, Given
<1>16. ASSUME NEW u \in Tasks, u # Cleanup PROVE TaskOK(u)'
  <2>1. TaskOK(u) /\ pc'[u] = pc[u] /\ job'[u] = job[u]
    BY <1>7, <1>16, Zenon DEF IInv, Alone
  <2>2. FlushAt(u)'
    BY <1>1, <2>1, NoFlush, Zenon DEF FlushAt
  <2>3. JobAt(u)' /\ LocksAt(u)'
    BY <1>1, <2>1, Zenon DEF TaskOK, JobAt, LocksAt, Takes
  <2>4. pc[u] \in Working => u \in Workers /\ job[u].addr \in Addrs
    BY <2>1, Zenon DEF TaskOK, JobAt
  <2>5. KeysAt(u)'
    <3>1. pc[u] \in {"crypt", "store", "buffer"} => job[u].addr \in Addrs
      BY <2>4, Zenon DEF Working
    <3>2. pc[u] = "buffer" => job[u].mark \in PreKeys
      BY <2>1, Zenon DEF TaskOK, JobAt
    <3> QED
      BY <1>5, <1>13, <2>1, <3>1, <3>2, Zenon DEF TaskOK, KeysAt
  <2>6. ReaderAt(u)'
    <3> SUFFICES ASSUME u \in Workers, u \notin gap', pc[u] \in {"read", "fill"}
                 PROVE  ReaderAt(u)'
      BY <2>1, Zenon DEF ReaderAt
    <3>1. PICK b \in Addrs : b = job[u].addr
      BY <2>4, Zenon DEF Working
    <3>2. ReaderAt(u) /\ u \notin gap
      BY <1>6, <2>1, Zenon DEF TaskOK
    <3>3. pc[u] = "fill" => entry[b].tag = "none"
      BY <1>6, <3>1, Zenon
    <3>4. entry[b].tag = "none" /\ ~InUse(b) => last[b] = disk[b] /\ last'[b] = disk[b]
      BY <1>4, Zenon DEF IInv, Slots, CleanIsDurable
    <3>5. Takes(u) => ~InUse(b)
      BY <3>1, MineAlone, Zenon
    <3> QED
      BY <1>1, <1>8, <2>1, <3>1, <3>2, <3>3, <3>4, <3>5, Zenon DEF ReaderAt, Takes
  <2> QED
    BY <2>2, <2>3, <2>5, <2>6, Zenon DEF TaskOK
<1>17. \A u \in Tasks : TaskOK(u)'
  BY <1>7, <1>16, RestOK, Zenon DEF Resting
<1> QED
  BY <1>9, <1>10, <1>11, <1>12, <1>14, <1>15, <1>17, Zenon DEF IInv

\* The buffered prekeys are forgotten.
LEMMA ClearsPrekeys ==
    ASSUME IInv, ClearPrekeys
    PROVE  IInv'
<1>1. /\ pc[Cleanup] = "clear2" /\ Cleanup \in Tasks /\ "idle" \in PcStates
      /\ UNCHANGED <<entry, dirty, deleted, disk, keys, sessions, last, gap, stale, waived,
                     dropped, count>>
      /\ lock' = lock /\ job' = job /\ Goto(Cleanup, "idle")
      /\ removed' = [p \in PreKeys |-> NoAddr]
  BY Zenon DEF ClearPrekeys, diskVars, ghosts, Tasks, PcStates
<1>2. Alone(Cleanup) /\ pc'[Cleanup] = "idle" /\ ~Holds(Cleanup)
  BY <1>1, Goes, LockSame, Types DEF Alone, Holds
<1>3. removed' \in [PreKeys -> Addrs \cup {NoAddr}] /\ RemovedIsStored'
  BY <1>1, Zenon DEF RemovedIsStored
<1> QED
  BY <1>1, <1>2, <1>3, BufferStep, Zenon DEF Resting

\* The process dies and starts again.
LEMMA Crashes ==
    ASSUME IInv, Crash
    PROVE  IInv'
<1>1. /\ UNCHANGED <<disk, keys, waived, dropped>> /\ last' = disk /\ gap' = {} /\ stale' = {}
      /\ dirty' = {} /\ deleted' = {} /\ sessions' = NoOne
      /\ removed' = [p \in PreKeys |-> NoAddr] /\ lock' = [a \in Addrs |-> NoOne]
      /\ pc' = [t \in Tasks |-> "idle"] /\ job' = [t \in Tasks |-> NoJob]
      /\ entry' = [a \in Addrs |-> None]
  BY Zenon DEF Crash, diskVars
<1>2. count' \in CountRecord
  BY Types, CountKept, Zenon DEF Crash, Failure, CountRecord
<1>3. "idle" \in PcStates /\ None \in Entries /\ None.tag = "none" /\ NoJob \in JobRecord
  BY Values, NoJobFacts, Zenon DEF PcStates, Entries
<1>4. SignalTypeOK'
  BY <1>1, <1>2, <1>3, Types, Zenon DEF SignalTypeOK, Entries, JobRecord, CountRecord
<1>5. Slots' /\ OutIsHeld' /\ CleanIsDurable' /\ SlotsFresh'
  BY <1>1, <1>3, Zenon DEF Slots, OutIsHeld, CleanIsDurable, SlotsFresh
<1>6. DiskIsOld' /\ CleanIsKept' /\ RemovedIsStored'
  BY <1>1, Zenon DEF DiskIsOld, CleanIsKept, RemovedIsStored
<1>7. PrekeyOrSession'
  BY <1>1, Zenon DEF IInv, PrekeyOrSession
<1>8. \A u \in Tasks : TaskOK(u)'
  BY <1>1, RestOK, Zenon DEF Resting
<1> QED
  BY <1>4, <1>5, <1>6, <1>7, <1>8, Zenon DEF IInv

----------------------------------------------------------------------------
(* The theorems *)

LEMMA InitOK == Init => IInv
<1> SUFFICES ASSUME Init PROVE IInv
  BY Zenon
<1>1. /\ None.tag = "none" /\ None.has = {} /\ None \in Entries /\ NoJob \in JobRecord
      /\ "idle" \in PcStates
  BY Values, NoJobFacts, Zenon DEF PcStates, Entries
<1>2. count \in CountRecord
  BY SignalAssumption DEF Init, CountRecord
<1>3. SignalTypeOK
  BY <1>1, <1>2, Zenon DEF Init, SignalTypeOK, Entries, JobRecord, CountRecord
<1>4. Slots /\ OutIsHeld /\ CleanIsDurable /\ SlotsFresh
  BY <1>1, Zenon DEF Init, Slots, OutIsHeld, CleanIsDurable, SlotsFresh
<1>5. DiskIsOld /\ CleanIsKept /\ RemovedIsStored /\ PrekeyOrSession
  BY <1>1, Zenon DEF Init, DiskIsOld, CleanIsKept, RemovedIsStored, PrekeyOrSession
<1>6. \A t \in Tasks : TaskOK(t)
  BY Zenon DEF Init, TaskOK, JobAt, LocksAt, FlushAt, ReaderAt, KeysAt, Working, Loading
<1> QED
  BY <1>3, <1>4, <1>5, <1>6, Zenon DEF IInv

\* Stuttering.
LEMMA SameOK ==
    ASSUME IInv, UNCHANGED signalVars
    PROVE  IInv'
<1>1. UNCHANGED <<entry, dirty, deleted, removed, disk, keys, lock, sessions, pc, job, last,
                  gap, stale, waived, dropped, count>>
  BY Zenon DEF signalVars, cacheVars, diskVars, ghosts
<1>2. \A a \in Addrs : InUse(a)' <=> InUse(a)
  BY <1>1, Zenon DEF InUse
<1>3. SignalTypeOK' /\ Slots' /\ DiskIsOld' /\ CleanIsKept' /\ RemovedIsStored' /\ PrekeyOrSession'
  BY <1>1, Zenon DEF IInv, SignalTypeOK, Slots, DiskIsOld, CleanIsKept, RemovedIsStored, PrekeyOrSession, Given
<1>4. OutIsHeld' /\ CleanIsDurable' /\ SlotsFresh'
  BY <1>1, <1>2, Zenon DEF IInv, OutIsHeld, CleanIsDurable, SlotsFresh
<1>5. ASSUME NEW u \in Tasks PROVE TaskOK(u)'
  <2>1. TaskOK(u)
    BY Zenon DEF IInv
  <2>2. JobAt(u)' /\ KeysAt(u)'
    BY <1>1, <2>1, Zenon DEF TaskOK, JobAt, KeysAt, Given, Takes
  <2>3. LocksAt(u)' /\ FlushAt(u)'
    BY <1>1, <2>1, Zenon DEF TaskOK, LocksAt, FlushAt, Given, Takes
  <2>4. ReaderAt(u)'
    <3>1. pc[u] = "fill" => job[u].addr \in Addrs
      BY <2>1, Zenon DEF TaskOK, JobAt, Working
    <3> QED
      BY <1>1, <1>2, <2>1, <3>1, Zenon DEF TaskOK, ReaderAt, Takes
  <2> QED
    BY <2>2, <2>3, <2>4, Zenon DEF TaskOK
<1> QED
  BY <1>3, <1>4, <1>5, Zenon DEF IInv

\* What the loads of a step bring.
LoadsFresh ==
    \A t \in Workers : pc[t] # "crypt" /\ pc'[t] = "crypt" =>
        job'[t].fresh \/ job[t].addr \in stale \/ t \in gap

\* A step that is not a load.
NoLoad ==
    \/ pc' = pc
    \/ pc' = [t \in Tasks |-> "idle"]
    \/ \E t \in Tasks, label \in PcStates \ {"crypt"} : Goto(t, label)

LEMMA NoLoadFresh ==
    ASSUME IInv, NoLoad
    PROVE  LoadsFresh
<1> SUFFICES ASSUME NEW u \in Workers PROVE pc[u] # "crypt" /\ pc'[u] = "crypt" => FALSE
  BY Zenon DEF LoadsFresh
<1>1. u \in Tasks /\ pc \in [Tasks -> PcStates]
  BY Types, Zenon DEF Tasks
<1> QED
  BY <1>1, Zenon DEF NoLoad, Goto

LEMMA LoadFresh ==
    ASSUME IInv, NEW t \in Workers, Load(t) \/ Fill(t)
    PROVE  IInv' /\ LoadsFresh
<1>1. IInv' /\ Fresh(t)
  BY Loads, Fills, Zenon
<1>2. pc \in [Tasks -> PcStates]
  BY Types, Zenon
<1>3. \E label : Goto(t, label)
  BY Zenon DEF Load, Fill, EndJob, Unlock
<1>4. \A u \in Workers : u # t => pc'[u] = pc[u]
  BY <1>2, <1>3, Zenon DEF Goto, Tasks
<1> QED
  BY <1>1, <1>4, Zenon DEF Fresh, LoadsFresh

\* The steps that start a job.
LEMMA Starting ==
    ASSUME IInv, NEW t \in Workers, NEW a \in Addrs,
           \/ \E p \in PreKeys : StartJob(t, "pkmsg", a, p)
           \/ \E m \in Steps \ last[a].has, op \in {"ratchet", "bundle"} : StartJob(t, op, a, m)
           \/ \E op \in {"recreate", "probe", "peek", "purge"} : StartJob(t, op, a, NoAddr)
           \/ a = Pn /\ StartJob(t, "migrate", a, NoAddr)
    PROVE  IInv' /\ NoLoad
<1>1. PICK op \in Ops, m \in Marks \cup {NoAddr} :
        /\ op = "pkmsg" => m \in PreKeys
        /\ op \in {"ratchet", "bundle"} => m \in Steps
        /\ op = "migrate" => a = Pn
        /\ StartJob(t, op, a, m)
  <2>1. CASE \E p \in PreKeys : StartJob(t, "pkmsg", a, p)
    BY <2>1, Zenon DEF Ops, Locked, Marks
  <2>2. CASE \E m \in Steps \ last[a].has, op \in {"ratchet", "bundle"} : StartJob(t, op, a, m)
    <3>1. PICK m \in Steps, op \in {"ratchet", "bundle"} : StartJob(t, op, a, m)
      BY <2>2, Zenon
    <3>2. op \in Ops /\ m \in Marks /\ op # "pkmsg" /\ op # "migrate"
      BY Zenon DEF Ops, Locked, Marks
    <3> QED
      BY <3>1, <3>2, Zenon
  <2>3. CASE \E op \in {"recreate", "probe", "peek", "purge"} : StartJob(t, op, a, NoAddr)
    <3>1. PICK op \in {"recreate", "probe", "peek", "purge"} : StartJob(t, op, a, NoAddr)
      BY <2>3, Zenon
    <3>2. op \in Ops /\ op # "pkmsg" /\ op # "migrate" /\ op \notin {"ratchet", "bundle"}
      BY Zenon DEF Ops, Locked
    <3> QED
      BY <3>1, <3>2, Zenon
  <2>4. CASE a = Pn /\ StartJob(t, "migrate", a, NoAddr)
    BY <2>4, Zenon DEF Ops, Locked
  <2> QED
    BY <2>1, <2>2, <2>3, <2>4, Zenon
<1>2. IInv'
  BY <1>1, JobStarts, Zenon
<1>3. NoLoad
  <2> DEFINE x == CASE op = "recreate" -> "delete" [] op = "migrate" -> "lock2" [] OTHER -> "load"
             y == IF op = "purge" THEN "delete" ELSE "load"
  <2>1. x \in PcStates \ {"crypt"} /\ y \in PcStates \ {"crypt"} /\ t \in Tasks
    BY Zenon DEF PcStates, Tasks
  <2>2. Goto(t, x) \/ Goto(t, y)
    BY <1>1, Zenon DEF StartJob
  <2> HIDE DEF x, y
  <2> QED
    BY <2>1, <2>2, Zenon DEF NoLoad
<1> QED
  BY <1>2, <1>3, Zenon

\* The steps of a flush.
LEMMA Flushing ==
    ASSUME IInv, NEW t \in Tasks, FlushStep(t) \/ FlushFails(t)
    PROVE  IInv' /\ NoLoad
<1>1. IInv'
  BY Batches, DeletesDurably, Settles, RemovesDurably, FlushIsDone, FlushFailed, Zenon DEF FlushStep
<1>2. pc' = pc \/ \E label \in {"deletes", "prekeys", "clear", "idle"} : Goto(t, label)
  BY Zenon DEF FlushStep, put_sessions_batch, DeleteDurably, Settle, RemoveDurably, FlushDone, FlushFails
<1>3. {"deletes", "prekeys", "clear", "idle"} \subseteq PcStates \ {"crypt"}
  BY Zenon DEF PcStates
<1> QED
  BY <1>1, <1>2, <1>3, Zenon DEF NoLoad

\* The other steps of a caller.
LEMMA WorkerOK ==
    ASSUME IInv, NEW t \in Workers, WorkerStep(t) \/ ReadFails(t)
    PROVE  IInv' /\ LoadsFresh
<1>1. t \in Tasks
  BY Zenon DEF Tasks
<1>2. CASE Load(t) \/ Fill(t)
  BY <1>2, LoadFresh, Zenon
<1>3. CASE FlushStep(t)
  BY <1>1, <1>3, Flushing, NoLoadFresh, Zenon
<1>4. CASE \/ LockLid(t) \/ Read(t) \/ ReadFails(t) \/ Decrypt(t) \/ Ratchet(t) \/ Migrate(t)
           \/ put_session(t) \/ delete_session(t) \/ remove_prekey(t)
  <2>1. IInv'
    BY <1>4, LidLocks, Reads, ReadsFail, Decrypts, Ratchets, Migrates, Stores, Deletes, Buffers, Zenon
  <2>2. \E label \in {"load", "fill", "idle", "flush", "store", "buffer", "delete"} : Goto(t, label)
    BY <1>4, Zenon DEF LockLid, Read, ReadFails, Decrypt, Ratchet, Migrate, put_session, delete_session,
                remove_prekey, EndJob, Unlock
  <2>3. {"load", "fill", "idle", "flush", "store", "buffer", "delete"} \subseteq PcStates \ {"crypt"}
    BY Zenon DEF PcStates
  <2>4. NoLoad
    BY <1>1, <2>2, <2>3, Zenon DEF NoLoad
  <2> QED
    BY <2>1, <2>4, NoLoadFresh, Zenon
<1> QED
  BY <1>2, <1>3, <1>4, Zenon DEF WorkerStep

\* Every step keeps the invariant, and loads what was stored last.
LEMMA StepOK ==
    ASSUME IInv, [Next]_signalVars
    PROVE  IInv' /\ (LoadsFresh \/ UNCHANGED signalVars)
<1>1. CASE \E t \in Workers, a \in Addrs :
             \/ \E p \in PreKeys : StartJob(t, "pkmsg", a, p)
             \/ \E m \in Steps \ last[a].has, op \in {"ratchet", "bundle"} : StartJob(t, op, a, m)
             \/ \E op \in {"recreate", "probe", "peek", "purge"} : StartJob(t, op, a, NoAddr)
  BY <1>1, Starting, NoLoadFresh, Zenon
<1>2. CASE \E t \in Workers : StartJob(t, "migrate", Pn, NoAddr)
  BY <1>2, Starting, NoLoadFresh, SignalAssumption, Zenon
<1>3. CASE \E t \in Workers : WorkerStep(t) \/ ReadFails(t)
  BY <1>3, WorkerOK, Zenon
<1>4. CASE FlushStep(Cleanup) \/ \E t \in Tasks : FlushFails(t)
  <2>1. Cleanup \in Tasks
    BY Zenon DEF Tasks
  <2> QED
    BY <1>4, <2>1, Flushing, NoLoadFresh, Zenon
<1>5. CASE StartCleanup \/ ClearSessions \/ ClearPrekeys
  <2>1. IInv'
    BY <1>5, CleanupStarts, ClearsSessions, ClearsPrekeys, Zenon
  <2>2. \E label \in {"flush", "clear2", "idle"} : Goto(Cleanup, label)
    BY <1>5, Zenon DEF StartCleanup, ClearSessions, ClearPrekeys
  <2>3. Cleanup \in Tasks /\ {"flush", "clear2", "idle"} \subseteq PcStates \ {"crypt"}
    BY Zenon DEF Tasks, PcStates
  <2> QED
    BY <2>1, <2>2, <2>3, NoLoadFresh, Zenon DEF NoLoad
<1>6. CASE Crash
  BY <1>6, Crashes, NoLoadFresh, Zenon DEF Crash, NoLoad
<1>7. CASE UNCHANGED signalVars
  BY <1>7, SameOK, Zenon
<1> QED
  BY <1>1, <1>2, <1>3, <1>4, <1>5, <1>6, <1>7, Zenon DEF Next, CleanupStep

\* The inductive invariant: the marks of a slot, the prekeys and what every
\* task knows agree, whatever the cache evicts and wherever a flush, a load or
\* the process is interrupted (signal_cache.rs).
THEOREM SignalInvariant == Spec => []IInv
<1>1. IInv /\ [Next]_signalVars => IInv'
  BY StepOK, Zenon
<1> QED
  BY InitOK, <1>1, PTL DEF Spec

\* The cache, the backend and the tasks keep their types.
THEOREM SignalTypes == Spec => []SignalTypeOK
<1>1. IInv => SignalTypeOK
  BY Zenon DEF IInv
<1> QED
  BY <1>1, SignalInvariant, PTL

\* flush deletes a consumed prekey only after the session it promoted is in
\* the backend: no crash, backend error, eviction or interleaving of flushes
\* loses both, for any number of sessions, prekeys, callers and faults.
THEOREM PrekeyTheorem == Spec => []PrekeyOrSession
<1>1. IInv => PrekeyOrSession
  BY Zenon DEF IInv
<1> QED
  BY <1>1, SignalInvariant, PTL

\* A session that get_session checked out is always in the hands of a task
\* that will put it back or delete it.
THEOREM OutTheorem == Spec => []OutIsHeld
<1>1. IInv => OutIsHeld
  BY Zenon DEF IInv
<1> QED
  BY <1>1, SignalInvariant, PTL

\* What the map does not hold dirty is what the backend has: neither an
\* eviction nor a flush that fails half way loses a stored session.
THEOREM DurableTheorem == Spec => []CleanIsDurable
<1>1. IInv => CleanIsDurable
  BY Zenon DEF IInv
<1> QED
  BY <1>1, SignalInvariant, PTL

\* Under the session lock the cache is a register: get_session returns what
\* put_session stored last, unless a reader filled the slot after an eviction
\* or a delete that took place between its read and its fill.
THEOREM FreshTheorem == Spec => LoadsAreFresh
<1>1. IInv /\ [Next]_signalVars => [LoadsFresh]_signalVars
  BY StepOK, Zenon
<1>2. [][LoadsFresh]_signalVars => LoadsAreFresh
  BY PTL DEF LoadsAreFresh, LoadsFresh
<1> QED
  BY <1>1, <1>2, SignalInvariant, PTL DEF Spec

----------------------------------------------------------------------------
(* Who waits for whom *)

\* A lock is held by a task that works, the mutex by one that flushes.
LockInv ==
    /\ \A a \in Addrs : lock[a] # NoOne => pc[lock[a]] \in Working
    /\ lock[Lid] # NoOne => pc[lock[Lid]] # "lock2"
    /\ sessions # NoOne => pc[sessions] \in {"deletes", "prekeys"}
    /\ \A t \in Tasks : /\ pc[t] \in Loading => job[t].op # "recreate"
                        /\ pc[t] \in {"clear", "clear2"} => t = Cleanup

\* What a step of one task does to the locks.
LEMMA LockKept ==
    ASSUME IInv, LockInv, NEW t \in Tasks, NEW label \in PcStates, Goto(t, label),
           \A a \in Addrs : lock'[a] \in {lock[a], NoOne, t},
           \A a \in Addrs : lock'[a] = t => label \in Working /\ (a = Lid => label # "lock2"),
           sessions' \in {sessions, NoOne, t},
           sessions' = t => label \in {"deletes", "prekeys"},
           \A u \in Tasks : u # t => job'[u].op = job[u].op,
           label \in Loading => job'[t].op # "recreate",
           label \in {"clear", "clear2"} => t = Cleanup
    PROVE  LockInv'
<1>1. /\ pc'[t] = label /\ \A u \in Tasks : u # t => pc'[u] = pc[u]
  BY Goes, Zenon
<1>2. lock \in [Addrs -> Tasks \cup {NoOne}] /\ sessions \in Tasks \cup {NoOne} /\ Lid \in Addrs
  BY Types, SignalAssumption, Zenon
<1>3. \A a \in Addrs : lock'[a] # NoOne =>
        /\ pc'[lock'[a]] \in Working
        /\ a = Lid => pc'[lock'[a]] # "lock2"
  <2> SUFFICES ASSUME NEW a \in Addrs, lock'[a] # NoOne
               PROVE  pc'[lock'[a]] \in Working /\ (a = Lid => pc'[lock'[a]] # "lock2")
    BY Zenon
  <2>1. CASE lock'[a] = t
    BY <1>1, <2>1, Zenon
  <2>2. CASE lock'[a] # t
    <3>1. lock'[a] = lock[a] /\ lock[a] \in Tasks /\ lock[a] # t
      BY <1>2, <2>2, Zenon
    <3>2. pc[lock[a]] \in Working /\ (a = Lid => pc[lock[a]] # "lock2")
      BY <3>1, SignalAssumption, Zenon DEF LockInv
    <3> QED
      BY <1>1, <3>1, <3>2, Zenon
  <2> QED
    BY <2>1, <2>2, Zenon
<1>4. sessions' # NoOne => pc'[sessions'] \in {"deletes", "prekeys"}
  <2>1. CASE sessions' = t
    BY <1>1, <2>1, Zenon
  <2>2. CASE sessions' = sessions /\ sessions # t
    BY <1>1, <1>2, <2>2, Zenon DEF LockInv
  <2> QED
    BY <2>1, <2>2, Zenon
<1>5. \A u \in Tasks : /\ pc'[u] \in Loading => job'[u].op # "recreate"
                       /\ pc'[u] \in {"clear", "clear2"} => u = Cleanup
  BY <1>1, Zenon DEF LockInv
<1> QED
  BY <1>2, <1>3, <1>4, <1>5, Zenon DEF LockInv

\* A caller ends its job or goes on to the flush: its locks are free.
LEMMA UnlockKeeps ==
    ASSUME IInv, LockInv, NEW t \in Tasks, NEW label \in {"idle", "flush"}, Unlock(t, label),
           sessions' = sessions, sessions # t, \A u \in Tasks : u # t => job'[u].op = job[u].op
    PROVE  LockInv'
<1>1. label \in PcStates /\ Goto(t, label)
  BY Zenon DEF PcStates, Unlock
<1>2. \A a \in Addrs : lock'[a] \in {lock[a], NoOne} /\ lock'[a] # t
  BY SignalAssumption, Zenon DEF Unlock
<1>3. label \notin Loading /\ label \notin {"clear", "clear2"}
  BY Zenon DEF Loading
<1> QED
  BY <1>1, <1>2, <1>3, LockKept, Zenon

\* A caller goes on with the locks it has.
LEMMA WorkKeeps ==
    ASSUME IInv, LockInv, NEW t \in Tasks,
           NEW label \in {"read", "fill", "crypt", "store", "delete", "buffer"},
           Goto(t, label), lock' = lock, sessions' = sessions, sessions # t,
           \A u \in Tasks : u # t => job'[u].op = job[u].op,
           label \in Loading => job'[t].op # "recreate"
    PROVE  LockInv'
<1>1. label \in PcStates /\ label \in Working /\ label # "lock2" /\ label \notin {"clear", "clear2"}
  BY Zenon DEF PcStates, Working
<1> QED
  BY <1>1, LockKept, Zenon

\* A task that works does not hold the mutex.
LEMMA WorkersMutex ==
    ASSUME IInv, LockInv, NEW t \in Tasks, pc[t] \in Working
    PROVE  sessions # t
BY SignalAssumption, Zenon DEF LockInv, Working

\* A field of a job is replaced.
LEMMA JobField ==
    ASSUME IInv, NEW t \in Tasks, NEW x,
           \/ job' = [job EXCEPT ![t].rec = x]
           \/ job' = [job EXCEPT ![t].fresh = x]
           \/ job' = [job EXCEPT ![t].mark = x]
           \/ job' = [job EXCEPT ![t].todo = x]
    PROVE  \A u \in Tasks : job'[u].op = job[u].op
<1>1. job \in [Tasks -> JobRecord] /\ job[t] \in JobRecord
  BY Types, Zenon
<1>2. /\ [job[t] EXCEPT !.rec = x].op = job[t].op
      /\ [job[t] EXCEPT !.fresh = x].op = job[t].op
      /\ [job[t] EXCEPT !.mark = x].op = job[t].op
      /\ [job[t] EXCEPT !.todo = x].op = job[t].op
  BY <1>1, Zenon DEF JobRecord
<1>3. PICK r : job' = [job EXCEPT ![t] = r] /\ r.op = job[t].op
  BY <1>2, Zenon
<1> QED
  BY <1>1, <1>3, Zenon

\* A job starts with the lock of its address.
LEMMA StartLocks ==
    ASSUME IInv, LockInv, NEW t \in Workers, NEW op \in Ops, NEW a \in Addrs, NEW m,
           op = "migrate" => a = Pn, StartJob(t, op, a, m)
    PROVE  LockInv'
<1>1. /\ pc[t] = "idle" /\ sessions' = sessions /\ t \in Tasks
      /\ job' = [job EXCEPT ![t] = [NoJob EXCEPT !.op = op, !.addr = a, !.mark = m]]
  BY Zenon DEF StartJob, Tasks
<1>2. sessions # t /\ \A b \in Addrs : lock[b] # t
  BY <1>1, SignalAssumption, Zenon DEF LockInv, Working
<1>3. job'[t].op = op /\ \A u \in Tasks : u # t => job'[u].op = job[u].op
  <2> DEFINE r == [NoJob EXCEPT !.op = op, !.addr = a, !.mark = m]
  <2>1. r.op = op
    BY Zenon DEF NoJob
  <2>2. job \in [Tasks -> JobRecord] /\ job' = [job EXCEPT ![t] = r]
    BY <1>1, Types, Zenon
  <2> HIDE DEF r
  <2> QED
    BY <1>1, <2>1, <2>2, Zenon
<1>4. CASE /\ op \in Locked /\ lock[a] = NoOne
           /\ lock' = [lock EXCEPT ![a] = t]
           /\ Goto(t, CASE op = "recreate" -> "delete"
                        [] op = "migrate" -> "lock2"
                        [] OTHER -> "load")
  <2> DEFINE label == CASE op = "recreate" -> "delete"
                        [] op = "migrate" -> "lock2"
                        [] OTHER -> "load"
  <2>1. /\ label \in {"delete", "lock2", "load"} /\ label \in PcStates /\ label \in Working
        /\ label = "lock2" => op = "migrate"
        /\ label \in Loading => op # "recreate"
        /\ label \notin {"clear", "clear2"}
    BY Zenon DEF PcStates, Working, Loading
  <2>2. Goto(t, label)
    BY <1>4, Zenon
  <2> HIDE DEF label
  <2>3. \A b \in Addrs : lock'[b] = IF b = a THEN t ELSE lock[b]
    BY <1>4, Types, Zenon
  <2>4. \A b \in Addrs : lock'[b] \in {lock[b], NoOne, t}
    BY <2>3, Zenon
  <2>5. \A b \in Addrs : lock'[b] = t => label \in Working /\ (b = Lid => label # "lock2")
    BY <1>2, <2>1, <2>3, SignalAssumption, Zenon
  <2> QED
    BY <1>1, <1>2, <1>3, <2>1, <2>2, <2>4, <2>5, LockKept, Zenon
<1>5. CASE /\ op \notin Locked /\ lock' = lock
           /\ Goto(t, IF op = "purge" THEN "delete" ELSE "load")
  <2> DEFINE label == IF op = "purge" THEN "delete" ELSE "load"
  <2>1. /\ label \in PcStates /\ label \notin {"clear", "clear2"} /\ op # "recreate"
    BY <1>5, Zenon DEF PcStates, Locked
  <2>2. Goto(t, label)
    BY <1>5, Zenon
  <2> HIDE DEF label
  <2> QED
    BY <1>1, <1>2, <1>3, <1>5, <2>1, <2>2, LockKept, Zenon
<1> QED
  BY <1>4, <1>5, Zenon DEF StartJob

\* The steps of a caller before its flush.
LEMMA WorkerLocks ==
    ASSUME IInv, LockInv, NEW t \in Workers,
           \/ LockLid(t) \/ Load(t) \/ Read(t) \/ ReadFails(t) \/ Fill(t)
           \/ Decrypt(t) \/ Ratchet(t) \/ Migrate(t)
           \/ put_session(t) \/ delete_session(t) \/ remove_prekey(t)
    PROVE  LockInv'
<1>1. /\ pc[t] \in Working /\ sessions' = sessions /\ t \in Tasks
  BY Zenon DEF LockLid, Load, Read, ReadFails, Fill, Decrypt, Ratchet, Migrate, put_session,
               delete_session, remove_prekey, Working, Tasks
<1>2. sessions # t
  BY <1>1, WorkersMutex, Zenon
<1>3. job \in [Tasks -> JobRecord] /\ (pc[t] \in Loading => job[t].op # "recreate")
  BY <1>1, Types, Zenon DEF LockInv
<1>4. CASE LockLid(t)
  <2>1. /\ pc[t] = "lock2" /\ lock' = [lock EXCEPT ![Lid] = t] /\ Goto(t, "load") /\ job' = job
    BY <1>4, Zenon DEF LockLid
  <2>2. job[t].op = "migrate"
    BY <1>1, <2>1, Zenon DEF IInv, TaskOK, JobAt
  <2>3. \A a \in Addrs : lock'[a] \in {lock[a], NoOne, t}
    BY <2>1, Types, Zenon
  <2>4. "load" \in PcStates /\ "load" \in Working /\ "load" \notin {"lock2", "clear", "clear2"}
    BY Zenon DEF PcStates, Working
  <2>5. job'[t].op # "recreate" /\ \A u \in Tasks : u # t => job'[u].op = job[u].op
    BY <2>1, <2>2, Zenon
  <2>6. Goto(t, "load") /\ sessions' \in {sessions, NoOne, t} /\ sessions' # t
    BY <1>1, <1>2, <2>1, Zenon
  <2> QED
    BY <1>1, <2>3, <2>4, <2>5, <2>6, LockKept, Zenon
<1>5. CASE EndJob(t)
  <2>1. \A u \in Tasks : u # t => job'[u].op = job[u].op
    BY <1>1, <1>5, JobOver, Zenon DEF EndJob
  <2> QED
    BY <1>1, <1>2, <1>5, <2>1, UnlockKeeps, Zenon DEF EndJob
<1>6. CASE Unlock(t, "flush") /\ (job' = job \/ job' = [job EXCEPT ![t].mark = NoAddr])
  <2>1. \A u \in Tasks : u # t => job'[u].op = job[u].op
    BY <1>1, <1>6, JobField, Zenon
  <2> QED
    BY <1>1, <1>2, <1>6, <2>1, UnlockKeeps, Zenon
<1>7. CASE /\ lock' = lock /\ \A u \in Tasks : job'[u].op = job[u].op
           /\ \/ pc[t] \in Loading /\ \E label \in {"read", "fill", "crypt"} : Goto(t, label)
              \/ \E label \in {"store", "delete", "buffer"} : Goto(t, label)
  <2>1. {"store", "delete", "buffer"} \cap Loading = {}
    BY Zenon DEF Loading
  <2>2. PICK label \in {"read", "fill", "crypt", "store", "delete", "buffer"} :
           Goto(t, label) /\ (label \in Loading => job'[t].op # "recreate")
    BY <1>1, <1>3, <1>7, <2>1, Zenon
  <2> QED
    BY <1>1, <1>2, <1>7, <2>2, WorkKeeps, Zenon
<1>8. CASE Load(t)
  <2> DEFINE rec == IF entry[job[t].addr].tag = "present" THEN entry[job[t].addr] ELSE None
             known == (rec = last[job[t].addr])
  <2>1. CASE /\ job' = [job EXCEPT ![t].rec = rec, ![t].fresh = known]
             /\ Goto(t, "crypt") /\ lock' = lock
    <3>1. rec \in Records \cup {None} /\ known \in BOOLEAN
      <4>1. job[t].addr \in Addrs
        BY <1>1, Zenon DEF IInv, TaskOK, JobAt
      <4>2. entry[job[t].addr] \in Entries
        BY <4>1, Types, Zenon
      <4> QED
        BY <4>2, Tags, Zenon
    <3> HIDE DEF rec, known
    <3>2. \A u \in Tasks : job'[u].op = job[u].op
      BY <1>1, <1>3, <2>1, <3>1, JobLoaded, Zenon
    <3>3. pc[t] \in Loading
      BY <1>8, Zenon DEF Load, Loading
    <3> QED
      BY <1>7, <2>1, <3>2, <3>3, Zenon
  <2>2. CASE Goto(t, "read") /\ lock' = lock /\ job' = job
    <3>1. pc[t] \in Loading
      BY <1>8, Zenon DEF Load, Loading
    <3> QED
      BY <1>7, <2>2, <3>1, Zenon
  <2> QED
    BY <1>5, <1>8, <2>1, <2>2, Zenon DEF Load
<1>9. CASE Read(t)
  <2>1. CASE job' = [job EXCEPT ![t].rec = disk[job[t].addr]] /\ Goto(t, "fill") /\ lock' = lock
    <3>1. pc[t] \in Loading
      BY <1>9, Zenon DEF Read, Loading
    <3>2. \A u \in Tasks : job'[u].op = job[u].op
      BY <1>1, <2>1, JobField, Zenon
    <3> QED
      BY <1>7, <2>1, <3>1, <3>2, Zenon
  <2> QED
    BY <1>5, <1>9, <2>1, Zenon DEF Read
<1>10. CASE ReadFails(t)
  BY <1>5, <1>6, <1>10, Zenon DEF ReadFails
<1>11. CASE Fill(t)
  <2>1. CASE /\ job' = [job EXCEPT ![t].fresh = (job[t].rec = last[job[t].addr])]
             /\ Goto(t, "crypt") /\ lock' = lock
    <3>1. pc[t] \in Loading
      BY <1>11, Zenon DEF Fill, Loading
    <3>2. \A u \in Tasks : job'[u].op = job[u].op
      BY <1>1, <2>1, JobField, Zenon
    <3> QED
      BY <1>7, <2>1, <3>1, <3>2, Zenon
  <2> QED
    BY <1>5, <1>11, <2>1, Zenon DEF Fill
<1>12. CASE Decrypt(t)
  <2>1. \A x : (job' = [job EXCEPT ![t].mark = x] \/ job' = [job EXCEPT ![t].rec = x])
                  => \A u \in Tasks : job'[u].op = job[u].op
    BY <1>1, JobField, Zenon
  <2> QED
    BY <1>6, <1>7, <1>12, <2>1, Zenon DEF Decrypt
<1>13. CASE Ratchet(t)
  <2>1. \A x : job' = [job EXCEPT ![t].rec = x] => \A u \in Tasks : job'[u].op = job[u].op
    BY <1>1, JobField, Zenon
  <2> QED
    BY <1>5, <1>6, <1>7, <1>13, <2>1, Zenon DEF Ratchet
<1>14. CASE Migrate(t)
  BY <1>6, <1>7, <1>14, Zenon DEF Migrate
<1>15. CASE put_session(t)
  BY <1>6, <1>7, <1>15, Zenon DEF put_session
<1>16. CASE delete_session(t) \/ remove_prekey(t)
  BY <1>6, <1>16, Zenon DEF delete_session, remove_prekey
<1> QED
  BY <1>4, <1>8, <1>9, <1>10, <1>11, <1>12, <1>13, <1>14, <1>15, <1>16, Zenon

\* A flush and the cleanup hold no session lock.
LEMMA RestKeeps ==
    ASSUME IInv, LockInv, NEW t \in Tasks, pc[t] \notin Working,
           NEW label \in PcStates, label \notin Working, Goto(t, label), lock' = lock,
           sessions' \in {sessions, NoOne, t}, sessions' = t => label \in {"deletes", "prekeys"},
           \A u \in Tasks : u # t => job'[u].op = job[u].op,
           label \in {"clear", "clear2"} => t = Cleanup
    PROVE  LockInv'
<1>1. \A a \in Addrs : lock[a] # t
  BY SignalAssumption, Zenon DEF LockInv
<1>2. label \notin Loading
  BY Zenon DEF Working, Loading
<1> QED
  BY <1>1, <1>2, LockKept, Zenon

\* The steps of a flush.
LEMMA FlushLocks ==
    ASSUME IInv, LockInv, NEW t \in Tasks, FlushStep(t) \/ FlushFails(t)
    PROVE  LockInv'
<1>1. lock' = lock /\ pc[t] \in {"flush", "deletes", "prekeys"} /\ pc[t] \notin Working
  BY Zenon DEF FlushStep, put_sessions_batch, DeleteDurably, Settle, RemoveDurably, FlushDone,
               FlushFails, Working
<1>2. \A u \in Tasks : u # t => job'[u].op = job[u].op
  <2>1. \A x : job' = [job EXCEPT ![t].todo = x] => \A u \in Tasks : job'[u].op = job[u].op
    BY JobField, Zenon
  <2>2. \/ job' = job \/ job' = [job EXCEPT ![t] = NoJob]
        \/ \E x : job' = [job EXCEPT ![t].todo = x]
    BY Zenon DEF FlushStep, put_sessions_batch, DeleteDurably, Settle, RemoveDurably, FlushDone,
                 FlushFails
  <2> QED
    BY <2>1, <2>2, JobOver, Zenon
<1>3. {"deletes", "prekeys", "clear", "idle"} \subseteq PcStates \ Working
  BY Zenon DEF PcStates, Working
<1>4. CASE put_sessions_batch(t)
  BY <1>1, <1>2, <1>3, <1>4, RestKeeps, Zenon DEF put_sessions_batch
<1>5. CASE DeleteDurably(t) \/ RemoveDurably(t)
  <2>1. pc' = pc /\ sessions' = sessions
    BY <1>5, Zenon DEF DeleteDurably, RemoveDurably
  <2>2. pc[t] \in PcStates /\ Goto(t, pc[t]) /\ pc[t] \in {"deletes", "prekeys"}
    BY <1>5, <2>1, Types, Zenon DEF DeleteDurably, RemoveDurably, Goto
  <2> QED
    BY <1>1, <1>2, <2>1, <2>2, RestKeeps, Zenon
<1>6. CASE Settle(t)
  <2>1. Goto(t, "prekeys") /\ sessions' = sessions
    BY <1>6, Zenon DEF Settle
  <2> QED
    BY <1>1, <1>2, <1>3, <2>1, RestKeeps, Zenon
<1>7. CASE FlushDone(t) \/ FlushFails(t)
  <2>1. /\ sessions' = NoOne
        /\ Goto(t, "idle") \/ (Goto(t, "clear") /\ t = Cleanup)
    BY <1>7, Zenon DEF FlushDone, FlushFails
  <2>2. t # NoOne
    BY SignalAssumption, Zenon
  <2> QED
    BY <1>1, <1>2, <1>3, <2>1, <2>2, RestKeeps, Zenon
<1> QED
  BY <1>4, <1>5, <1>6, <1>7, Zenon DEF FlushStep

\* The cleanup of a closed connection.
LEMMA CleanupLocks ==
    ASSUME IInv, LockInv, StartCleanup \/ ClearSessions \/ ClearPrekeys
    PROVE  LockInv'
<1>1. /\ Cleanup \in Tasks /\ lock' = lock /\ sessions' = sessions /\ job' = job
      /\ pc[Cleanup] \in {"idle", "clear", "clear2"}
      /\ \E label \in {"flush", "clear2", "idle"} : Goto(Cleanup, label)
  BY Zenon DEF StartCleanup, ClearSessions, ClearPrekeys, Tasks
<1>2. pc[Cleanup] \notin Working /\ {"flush", "clear2", "idle"} \subseteq PcStates \ Working
  BY <1>1, Zenon DEF Working, PcStates
<1>3. sessions # Cleanup
  BY <1>1, SignalAssumption, Zenon DEF LockInv
<1> QED
  BY <1>1, <1>2, <1>3, RestKeeps, Zenon

\* Every step keeps the locks where they are accounted for.
LEMMA LockStep ==
    ASSUME IInv, LockInv, [Next]_signalVars
    PROVE  LockInv'
<1>1. CASE \E t \in Workers, a \in Addrs :
             \/ \E p \in PreKeys : StartJob(t, "pkmsg", a, p)
             \/ \E m \in Steps \ last[a].has, op \in {"ratchet", "bundle"} : StartJob(t, op, a, m)
             \/ \E op \in {"recreate", "probe", "peek", "purge"} : StartJob(t, op, a, NoAddr)
  <2>1. PICK t \in Workers, a \in Addrs, op \in Ops \ {"migrate"} : \E m : StartJob(t, op, a, m)
    <3>1. {"pkmsg", "ratchet", "bundle", "recreate", "probe", "peek", "purge"} \subseteq Ops \ {"migrate"}
      BY Zenon DEF Ops, Locked
    <3> QED
      BY <1>1, <3>1, Zenon
  <2> QED
    BY <2>1, StartLocks, Zenon
<1>2. CASE \E t \in Workers : StartJob(t, "migrate", Pn, NoAddr)
  <2>1. "migrate" \in Ops /\ Pn \in Addrs
    BY SignalAssumption, Zenon DEF Ops, Locked
  <2> QED
    BY <1>2, <2>1, StartLocks, Zenon
<1>3. CASE \E t \in Workers : WorkerStep(t) \/ ReadFails(t)
  BY <1>3, WorkerLocks, FlushLocks, Zenon DEF WorkerStep, Tasks
<1>4. CASE FlushStep(Cleanup) \/ \E t \in Tasks : FlushFails(t)
  BY <1>4, FlushLocks, Zenon DEF Tasks
<1>5. CASE StartCleanup \/ ClearSessions \/ ClearPrekeys
  BY <1>5, CleanupLocks, Zenon
<1>6. CASE Crash
  <2>1. /\ \A a \in Addrs : lock'[a] = NoOne
        /\ sessions' = NoOne /\ \A t \in Tasks : pc'[t] = "idle"
    BY <1>6, Zenon DEF Crash
  <2> QED
    BY <2>1, SignalAssumption, Zenon DEF LockInv, Loading
<1>7. CASE UNCHANGED signalVars
  BY <1>7, Zenon DEF LockInv, signalVars
<1> QED
  BY <1>1, <1>2, <1>3, <1>4, <1>5, <1>6, <1>7, Zenon DEF Next, CleanupStep

LEMMA LockInit ==
    ASSUME Init PROVE LockInv
<1>1. /\ \A a \in Addrs : lock[a] = NoOne
      /\ sessions = NoOne /\ \A t \in Tasks : pc[t] = "idle"
  BY Zenon DEF Init
<1> QED
  BY <1>1, SignalAssumption, Zenon DEF LockInv, Loading

\* The chain of waiting tasks ends: a migration waits for the holder of the LID's
\* lock, that one at most for a flush, and a flush for nobody.
LEMMA LocksEnd ==
    ASSUME IInv, LockInv PROVE WaitsEnd
<1> SUFFICES ASSUME NEW t \in Tasks, pc[t] # "idle"
             PROVE  \/ CanGoOn(t)
                    \/ \E u \in Tasks : /\ Blocks(u, t)
                                        /\ CanGoOn(u) \/ \E v \in Tasks : Blocks(v, u) /\ CanGoOn(v)
  BY Zenon DEF WaitsEnd
<1>1. /\ lock[Lid] \in Tasks \cup {NoOne} /\ sessions \in Tasks \cup {NoOne}
      /\ \A u \in Tasks : pc[u] \in PcStates
  BY Types, SignalAssumption, Zenon
<1>2. \A u \in Tasks : pc[u] \in {"deletes", "prekeys"} => CanGoOn(u)
  BY Zenon DEF CanGoOn
<1>3. ASSUME NEW u \in Tasks, pc[u] \in Working \ {"lock2"}
      PROVE  CanGoOn(u) \/ \E v \in Tasks : Blocks(v, u) /\ CanGoOn(v)
  <2>1. u \in Workers
    BY <1>3, Zenon DEF IInv, TaskOK, JobAt
  <2>2. CASE pc[u] \in {"load", "fill", "store", "delete"}
    <3>1. CASE sessions = NoOne
      BY <2>1, <2>2, <3>1, Zenon DEF CanGoOn
    <3>2. CASE sessions # NoOne
      <4>1. sessions \in Tasks /\ CanGoOn(sessions)
        BY <1>1, <1>2, <3>2, Zenon DEF LockInv
      <4>2. Blocks(sessions, u)
        BY <2>2, Zenon DEF Blocks, NeedsMutex
      <4> QED
        BY <4>1, <4>2, Zenon
    <3> QED
      BY <3>1, <3>2, Zenon
  <2>3. CASE pc[u] = "crypt"
    <3>1. job[u].op \in Locked /\ job[u].op # "recreate"
      BY <2>3, Zenon DEF IInv, TaskOK, JobAt, Takes, LockInv, Loading
    <3> QED
      BY <2>1, <2>3, <3>1, Zenon DEF CanGoOn, Locked
  <2>4. CASE pc[u] = "buffer"
    <3>1. CASE \A v \in Tasks : pc[v] # "prekeys"
      BY <2>1, <2>4, <3>1, Zenon DEF CanGoOn
    <3>2. CASE \E v \in Tasks : pc[v] = "prekeys"
      <4>1. PICK v \in Tasks : pc[v] = "prekeys"
        BY <3>2, Zenon
      <4> QED
        BY <1>2, <2>4, <4>1, Zenon DEF Blocks, NeedsPrekeys
    <3> QED
      BY <3>1, <3>2, Zenon
  <2>5. CASE pc[u] = "read"
    BY <2>1, <2>5, Zenon DEF CanGoOn
  <2> QED
    BY <1>3, <2>2, <2>3, <2>4, <2>5, Zenon DEF Working
<1>4. CASE pc[t] \in Working \ {"lock2"}
  BY <1>3, <1>4, Zenon
<1>5. CASE pc[t] = "lock2"
  <2>1. CASE lock[Lid] = NoOne
    <3>1. t \in Workers
      BY <1>5, Zenon DEF IInv, TaskOK, JobAt, Working
    <3> QED
      BY <1>5, <2>1, <3>1, Zenon DEF CanGoOn
  <2>2. CASE lock[Lid] # NoOne
    <3>1. lock[Lid] \in Tasks /\ pc[lock[Lid]] \in Working \ {"lock2"}
      BY <1>1, <2>2, SignalAssumption, Zenon DEF LockInv
    <3>2. Blocks(lock[Lid], t)
      BY <1>5, Zenon DEF Blocks
    <3> QED
      BY <1>3, <3>1, <3>2, Zenon
  <2> QED
    BY <2>1, <2>2, Zenon
<1>6. CASE pc[t] \in {"flush", "clear"}
  <2>1. CASE sessions = NoOne
    BY <1>6, <2>1, Zenon DEF CanGoOn, LockInv
  <2>2. CASE sessions # NoOne
    <3>1. sessions \in Tasks /\ CanGoOn(sessions)
      BY <1>1, <1>2, <2>2, Zenon DEF LockInv
    <3> QED
      BY <1>6, <3>1, Zenon DEF Blocks, NeedsMutex
  <2> QED
    BY <2>1, <2>2, Zenon
<1>7. CASE pc[t] = "clear2"
  <2>1. t = Cleanup
    BY <1>7, Zenon DEF LockInv
  <2>2. CASE \A v \in Tasks : pc[v] # "prekeys"
    BY <1>7, <2>1, <2>2, Zenon DEF CanGoOn
  <2>3. CASE \E v \in Tasks : pc[v] = "prekeys"
    <3>1. PICK v \in Tasks : pc[v] = "prekeys"
      BY <2>3, Zenon
    <3> QED
      BY <1>2, <1>7, <3>1, Zenon DEF Blocks, NeedsPrekeys
  <2> QED
    BY <2>2, <2>3, Zenon
<1>8. CASE pc[t] \in {"deletes", "prekeys"}
  BY <1>2, <1>8, Zenon
<1>9. pc[t] \in Working \cup {"flush", "clear", "clear2", "deletes", "prekeys"}
  BY <1>1, Zenon DEF PcStates, Working
<1> QED
  BY <1>4, <1>5, <1>6, <1>7, <1>8, <1>9, Zenon

\* No task waits for ever for a lock: whoever has work can go on, or waits, over
\* at most two locks, for a task that can.  (The session locks, the mutex that
\* flush keeps over its backend calls and the one of removed_prekeys.)
THEOREM WaitTheorem == Spec => []WaitsEnd
<1>1. IInv /\ LockInv /\ [Next]_signalVars => LockInv'
  BY LockStep, Zenon
<1>2. IInv /\ LockInv => WaitsEnd
  BY LocksEnd, Zenon
<1> QED
  BY LockInit, <1>1, <1>2, SignalInvariant, PTL DEF Spec

----------------------------------------------------------------------------
(* The size of the map *)

\* The entries evict_if_needed may remove.
Clean(map, dirt, del) == {a \in Cached(map) \ (dirt \cup del) : map[a].tag # "out"}

\* The entries that only repeat what the backend has are never more than the high
\* watermark: the rest of the map waits for a flush or is in use.
CleanBounded == Cardinality(Clean(entry, dirty, deleted)) <= HighWater

\* The smaller of two numbers.
LEMMA MinOfTwo ==
    ASSUME NEW x \in Int, NEW y \in Int
    PROVE  Min({x, y}) \in {x, y} /\ Min({x, y}) <= x /\ Min({x, y}) <= y
<1>1. \E z \in {x, y} : \A w \in {x, y} : z =< w
  <2>1. CASE x <= y
    BY <2>1
  <2>2. CASE ~(x <= y)
    BY <2>2
  <2> QED
    BY <2>1, <2>2
<1>2. Min({x, y}) \in {x, y} /\ \A w \in {x, y} : Min({x, y}) =< w
  BY <1>1, Zenon DEF Min
<1> QED
  BY <1>2

\* A finite set has a subset of every smaller size.
LEMMA SubsetOfSize ==
    ASSUME NEW S, IsFiniteSet(S), NEW n \in Nat, n <= Cardinality(S)
    PROVE  \E T \in SUBSET S : Cardinality(T) = n
<1> DEFINE N == Cardinality(S)
<1>1. PICK f : N \in Nat /\ f \in Bijection(1..N, S)
  BY FS_CardinalityType, Zenon DEF ExistsBijection
<1> DEFINE T == {f[i] : i \in 1..n}
           g == [i \in 1..n |-> f[i]]
<1> HIDE DEF N
<1>2. 1..n \subseteq 1..N
  BY <1>1 DEF N
<1>3. T \in SUBSET S
  BY <1>1, <1>2 DEF Bijection, Injection, Surjection
<1>4. g \in Bijection(1..n, T)
  <2>1. g \in [1..n -> T] /\ \A i \in 1..n : g[i] = f[i]
    BY Zenon
  <2>2. \A i, k \in 1..n : f[i] = f[k] => i = k
    BY <1>1, <1>2 DEF Bijection, Injection, Surjection, IsInjective
  <2>3. \A t \in T : \E i \in 1..n : f[i] = t
    BY Zenon
  <2> HIDE DEF g, T
  <2> QED
    BY <2>1, <2>2, <2>3, Zenon DEF Bijection, Injection, Surjection, IsInjective
<1>5. Cardinality(T) = n
  BY <1>4, FS_CountingElements, Zenon DEF ExistsBijection
<1> QED
  BY <1>3, <1>5, Zenon

\* evict_if_needed always has a choice, whatever is cached.
LEMMA EvictionPossible ==
    ASSUME NEW map, NEW dirt, NEW del
    PROVE  Victims(map, dirt, del) # {}
<1> DEFINE clean == {a \in Cached(map) \ (dirt \cup del) : map[a].tag # "out"}
           negative == {a \in clean : map[a].tag = "absent"}
           cached == Cached(map)
           n == Min({Cardinality(cached) - MaxEntries, Cardinality(clean)})
<1>1. cached \in SUBSET Addrs /\ clean \in SUBSET Addrs /\ negative \in SUBSET clean
  BY Zenon DEF Cached
<1>2. IsFiniteSet(cached) /\ IsFiniteSet(clean) /\ IsFiniteSet(negative)
      /\ Cardinality(cached) \in Nat /\ Cardinality(clean) \in Nat /\ Cardinality(negative) \in Nat
  BY <1>1, AddrsAssumption, FS_Subset, FS_CardinalityType, Zenon
<1>3. CASE Cardinality(cached) <= HighWater
  BY <1>3, Zenon DEF Victims
<1>4. CASE ~(Cardinality(cached) <= HighWater)
  <2>1. n \in Nat /\ n <= Cardinality(clean)
    <3>1. /\ Cardinality(cached) - MaxEntries \in Int /\ Cardinality(clean) \in Int
          /\ Cardinality(cached) - MaxEntries >= 0
      BY <1>2, <1>4, SignalAssumption
    <3>2. n \in {Cardinality(cached) - MaxEntries, Cardinality(clean)} /\ n <= Cardinality(clean)
      BY <3>1, MinOfTwo, Zenon
    <3> QED
      BY <1>2, <3>1, <3>2
  <2> HIDE DEF n, clean, negative, cached
  <2>2. \E T \in SUBSET clean : Cardinality(T) = n /\ (negative \subseteq T \/ T \subseteq negative)
    <3>1. CASE n <= Cardinality(negative)
      <4>1. PICK T \in SUBSET negative : Cardinality(T) = n
        BY <1>2, <2>1, <3>1, SubsetOfSize, Zenon
      <4> QED
        BY <1>1, <4>1, Zenon
    <3>2. CASE ~(n <= Cardinality(negative))
      <4> DEFINE rest == clean \ negative
                 m == n - Cardinality(negative)
      <4>1. IsFiniteSet(rest) /\ Cardinality(rest) = Cardinality(clean) - Cardinality(negative)
        <5>1. clean \cap negative = negative
          BY <1>1, Zenon
        <5> QED
          BY <1>2, <5>1, FS_Difference, Zenon
      <4> HIDE DEF rest
      <4>2. m \in Nat /\ m <= Cardinality(rest)
        BY <1>2, <2>1, <3>2, <4>1
      <4> HIDE DEF m
      <4>3. PICK T \in SUBSET rest : Cardinality(T) = m
        BY <4>1, <4>2, SubsetOfSize, Zenon
      <4>4. IsFiniteSet(T) /\ negative \cap T = {}
        BY <4>1, <4>3, FS_Subset, Zenon DEF rest
      <4>5. Cardinality(negative \cup T) = Cardinality(negative) + Cardinality(T) - Cardinality({})
        BY <1>2, <4>4, FS_Union, Zenon
      <4>6. Cardinality(negative \cup T) = n
        BY <1>2, <2>1, <4>3, <4>5, FS_EmptySet DEF m
      <4>7. negative \cup T \in SUBSET clean /\ negative \subseteq negative \cup T
        BY <1>1, <4>3, Zenon DEF rest
      <4> QED
        BY <4>6, <4>7, Zenon
    <3> QED
      BY <3>1, <3>2, Zenon
  <2> QED
    BY <1>4, <2>2, Zenon DEF Victims, n, clean, negative, cached
<1> QED
  BY <1>3, <1>4, Zenon

\* A map that has just been trimmed.
LEMMA TrimBounds ==
    ASSUME NEW map, NEW dirt, NEW del, SetMap(map, dirt, del)
    PROVE  CleanBounded'
<1> DEFINE clean == {a \in Cached(map) \ (dirt \cup del) : map[a].tag # "out"}
           cached == Cached(map)
           left == Clean(entry, dirty, deleted)'
           n == Min({Cardinality(cached) - MaxEntries, Cardinality(clean)})
<1>1. PICK victims \in Victims(map, dirt, del) :
         /\ entry' = [a \in Addrs |-> IF a \in victims THEN None ELSE map[a]]
         /\ dirty' = dirt /\ deleted' = del
  BY Zenon DEF SetMap
<1>2. \A a \in Addrs : entry'[a] = IF a \in victims THEN None ELSE map[a]
  BY <1>1, Zenon
<1>3. None.tag = "none"
  BY Zenon DEF None
<1>4. left \subseteq clean \ victims /\ left \subseteq cached \ victims
  BY <1>1, <1>2, <1>3, Zenon DEF Clean, Cached
<1>5. cached \in SUBSET Addrs /\ clean \in SUBSET cached
  BY Zenon DEF Cached
<1>6. IsFiniteSet(cached) /\ IsFiniteSet(clean) /\ Cardinality(cached) \in Nat /\ Cardinality(clean) \in Nat
  BY <1>5, AddrsAssumption, FS_Subset, FS_CardinalityType, Zenon
<1>7. ASSUME NEW S, left \subseteq S, IsFiniteSet(S), Cardinality(S) <= HighWater PROVE CleanBounded'
  <2>1. Cardinality(left) <= Cardinality(S) /\ Cardinality(left) \in Nat /\ Cardinality(S) \in Nat
    BY <1>7, FS_Subset, FS_CardinalityType, Zenon
  <2>2. Cardinality(left) <= HighWater
    BY <1>7, <2>1, SignalAssumption
  <2> QED
    BY <2>2, Zenon DEF CleanBounded
<1>8. CASE Cardinality(cached) <= HighWater
  BY <1>4, <1>6, <1>7, <1>8, Zenon
<1>9. CASE ~(Cardinality(cached) <= HighWater)
  <2>1. victims \in SUBSET clean /\ Cardinality(victims) = n
    BY <1>1, <1>9, Zenon DEF Victims
  <2>2. n \in {Cardinality(cached) - MaxEntries, Cardinality(clean)}
    <3>1. Cardinality(cached) - MaxEntries \in Int /\ Cardinality(clean) \in Int
      BY <1>6, SignalAssumption
    <3> QED
      BY <3>1, MinOfTwo, Zenon
  <2> HIDE DEF n
  <2>3. CASE n = Cardinality(clean)
    <3>1. victims = clean
      BY <1>6, <2>1, <2>3, FS_Subset, Zenon
    <3>2. left \subseteq {}
      BY <1>4, <3>1, Zenon
    <3>3. IsFiniteSet({}) /\ Cardinality({}) <= HighWater
      BY FS_EmptySet, SignalAssumption
    <3> QED
      BY <1>7, <3>2, <3>3, Zenon
  <2>4. CASE n = Cardinality(cached) - MaxEntries
    <3> DEFINE kept == cached \ victims
    <3>1. IsFiniteSet(kept) /\ Cardinality(kept) = Cardinality(cached) - n
      <4>1. cached \cap victims = victims
        BY <1>5, <2>1, Zenon
      <4> QED
        BY <1>6, <2>1, <4>1, FS_Difference, Zenon
    <3> HIDE DEF kept, cached
    <3>2. Cardinality(kept) <= HighWater
      BY <1>6, <2>4, <3>1, SignalAssumption
    <3> USE DEF kept
    <3> QED
      BY <1>4, <1>7, <3>1, <3>2, Zenon
  <2> QED
    BY <2>2, <2>3, <2>4, Zenon
<1> QED
  BY <1>8, <1>9, Zenon

\* A step that adds no clean entry.
LEMMA ShrinkBounds ==
    ASSUME CleanBounded, Clean(entry, dirty, deleted)' \subseteq Clean(entry, dirty, deleted)
    PROVE  CleanBounded'
<1> DEFINE S == Clean(entry, dirty, deleted)
           T == Clean(entry, dirty, deleted)'
<1>1. S \in SUBSET Addrs /\ T \in SUBSET S
  BY Zenon DEF Clean, Cached
<1>2. IsFiniteSet(S) /\ Cardinality(T) <= Cardinality(S) /\ Cardinality(S) \in Nat /\ IsFiniteSet(T)
  BY <1>1, AddrsAssumption, FS_Subset, FS_CardinalityType, Zenon
<1>3. Cardinality(T) \in Nat
  BY <1>2, FS_CardinalityType, Zenon
<1>4. Cardinality(S) <= HighWater
  BY Zenon DEF CleanBounded
<1> HIDE DEF S, T
<1>5. Cardinality(T) <= HighWater
  BY <1>2, <1>3, <1>4, SignalAssumption
<1> QED
  BY <1>5, Zenon DEF CleanBounded, T

LEMMA BoundStep ==
    ASSUME IInv, CleanBounded, [Next]_signalVars
    PROVE  CleanBounded'
<1>1. ASSUME UNCHANGED <<entry, dirty, deleted>> PROVE CleanBounded'
  BY <1>1, Zenon DEF CleanBounded, Clean, Cached
<1>2. ASSUME \A a \in Addrs : entry'[a].tag \in {entry[a].tag, "none", "out"},
             dirty' = dirty, deleted' = deleted
      PROVE  CleanBounded'
  <2>1. Clean(entry, dirty, deleted)' \subseteq Clean(entry, dirty, deleted)
    BY <1>2, Zenon DEF Clean, Cached
  <2> QED
    BY <2>1, ShrinkBounds, Zenon
<1>3. ASSUME \A a \in Addrs : entry'[a] = None PROVE CleanBounded'
  <2>1. None.tag = "none"
    BY Zenon DEF None
  <2>2. Clean(entry, dirty, deleted)' \subseteq Clean(entry, dirty, deleted)
    BY <1>3, <2>1, Zenon DEF Clean, Cached
  <2> QED
    BY <2>2, ShrinkBounds, Zenon
<1>4. ASSUME NEW t \in Workers, Load(t) PROVE CleanBounded'
  <2>1. dirty' = dirty /\ deleted' = deleted
    BY <1>4, Zenon DEF Load
  <2>2. \A a \in Addrs : entry'[a] \in {entry[a], Out}
    BY <1>4, Types, Zenon DEF Load
  <2>3. Out.tag = "out"
    BY Zenon DEF Out
  <2> QED
    BY <1>2, <2>1, <2>2, <2>3, Zenon
<1>5. ASSUME NEW t \in Workers, delete_session(t) PROVE CleanBounded'
  <2> DEFINE a == job[t].addr
  <2>1. /\ entry' = [entry EXCEPT ![a] = Absent]
        /\ deleted' = deleted \cup {a} /\ dirty' = dirty \ {a}
    BY <1>5, Zenon DEF delete_session
  <2>2. \A b \in Addrs : b # a => entry'[b] = entry[b]
    BY <2>1, Types, Zenon
  <2> HIDE DEF a
  <2>3. Clean(entry, dirty, deleted)' \subseteq Clean(entry, dirty, deleted)
    BY <2>1, <2>2, Zenon DEF Clean, Cached
  <2> QED
    BY <2>3, ShrinkBounds, Zenon
<1>6. ASSUME NEW t \in Tasks, Fill(t) \/ put_session(t) \/ Settle(t) PROVE CleanBounded'
  BY <1>1, <1>6, TrimBounds, Zenon DEF Fill, put_session, Settle
<1>7. CASE ClearSessions \/ Crash
  BY <1>3, <1>7, Zenon DEF ClearSessions, Crash
<1>8. ASSUME NEW t, \/ LockLid(t) \/ Read(t) \/ ReadFails(t) \/ Decrypt(t) \/ Ratchet(t) \/ Migrate(t)
                    \/ remove_prekey(t) \/ put_sessions_batch(t) \/ DeleteDurably(t)
                    \/ RemoveDurably(t) \/ FlushDone(t) \/ FlushFails(t)
                    \/ \E op, a, m : StartJob(t, op, a, m)
      PROVE  CleanBounded'
  BY <1>1, <1>8, Zenon DEF LockLid, Read, ReadFails, Decrypt, Ratchet, Migrate, remove_prekey,
     put_sessions_batch, DeleteDurably, RemoveDurably, FlushDone, FlushFails, StartJob, cacheVars
<1>9. CASE StartCleanup \/ ClearPrekeys \/ UNCHANGED signalVars
  BY <1>1, <1>9, Zenon DEF StartCleanup, ClearPrekeys, signalVars, cacheVars
<1>10. Workers \subseteq Tasks /\ Cleanup \in Tasks
  BY Zenon DEF Tasks
<1>11. ASSUME NEW t \in Tasks, FlushStep(t) PROVE CleanBounded'
  BY <1>6, <1>8, <1>11, Zenon DEF FlushStep
<1>12. ASSUME NEW t \in Workers, WorkerStep(t) PROVE CleanBounded'
  BY <1>4, <1>5, <1>6, <1>8, <1>10, <1>11, <1>12, Zenon DEF WorkerStep
<1> QED
  BY <1>7, <1>8, <1>9, <1>10, <1>11, <1>12, Zenon DEF Next, CleanupStep

\* The session cache stays bounded (MAX_ENTRIES and high_watermark in
\* signal_cache.rs) although only some operations trim it: delete_session and a
\* load do not, and a flush that fails leaves entries that cannot be evicted.
THEOREM BoundTheorem == Spec => []CleanBounded
<1>1. Init => CleanBounded
  <2> SUFFICES ASSUME Init PROVE CleanBounded
    BY Zenon
  <2>1. Clean(entry, dirty, deleted) = {}
    BY Zenon DEF Init, Clean, Cached, None
  <2>2. Cardinality({}) <= HighWater
    BY FS_EmptySet, SignalAssumption
  <2> QED
    BY <2>1, <2>2, Zenon DEF CleanBounded
<1>2. IInv /\ CleanBounded /\ [Next]_signalVars => CleanBounded'
  BY BoundStep, Zenon
<1> QED
  BY <1>1, <1>2, SignalInvariant, PTL DEF Spec

============================================================================
