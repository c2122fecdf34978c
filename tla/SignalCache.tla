---------------------------- MODULE SignalCache ----------------------------
(***************************************************************************)
(* The write-back cache of Signal sessions (wacore signal_cache.rs) with   *)
(* the tasks that use it: message decryption and encryption, session       *)
(* resets, the PN to LID migration, unlocked probes, and the cleanup of a  *)
(* closed connection.                                                      *)
(*                                                                         *)
(* A session record is the set of marks it carries: the one-time prekeys   *)
(* whose pkmsg it was promoted by, and the ratchet steps it has taken.     *)
(* The sessions mutex covers single steps, except that flush holds it over *)
(* its backend calls; each backend call is a step, may fail, and the       *)
(* process may crash between any two.                                      *)
(***************************************************************************)
EXTENDS Naturals, FiniteSets, FiniteSetsExt

CONSTANTS Addrs,        \* protocol addresses
          Pn, Lid,      \* two of them: the same peer before and after migration
          PreKeys,      \* one-time prekeys
          Steps,        \* ratchet steps
          Workers,      \* message lanes, senders and other callers
          Cleanup,      \* the task that runs cleanup_connection_state
          NoOne, NoAddr,
          MaxEntries, HighWater,           \* capacity of the session map
          MaxJobs, MaxCleanups,
          MaxFaults     \* backend errors and crashes

Tasks == Workers \cup {Cleanup}
Marks == PreKeys \cup Steps

ASSUME SignalAssumption ==
    /\ Pn \in Addrs /\ Lid \in Addrs /\ Pn # Lid /\ NoAddr \notin Addrs
    /\ PreKeys \cap Steps = {} /\ Cleanup \notin Workers /\ NoOne \notin Tasks
    /\ MaxEntries \in Nat /\ HighWater \in Nat /\ MaxEntries <= HighWater
    /\ MaxJobs \in Nat /\ MaxCleanups \in Nat /\ MaxFaults \in Nat

ASSUME AddrsAssumption == IsFiniteSet(Addrs)

VARIABLES entry,     \* the session map
          dirty, deleted,
          removed,   \* removed_prekeys: the session address of a consumed prekey
          disk,      \* the sessions of the backend
          keys,      \* the prekeys of the backend
          lock,      \* per-address session locks
          sessions,  \* holder of the sessions mutex while it spans several steps
          pc, job,   \* what each task is doing
          last,      \* the session last stored under an address, or reverted to
          gap,       \* readers whose slot was emptied or deleted under them
          stale,     \* addresses filled by such a reader
          waived,    \* prekeys whose session was deleted or moved on purpose
          dropped,   \* prekeys whose session was dropped by clear or overwritten
          count      \* jobs, cleanups, and backend errors and crashes so far

cacheVars == <<entry, dirty, deleted, removed>>
diskVars  == <<disk, keys>>
ghosts    == <<last, gap, stale, waived, dropped>>
signalVars == <<cacheVars, diskVars, lock, sessions, pc, job, ghosts, count>>

None    == [tag |-> "none", has |-> {}]
Absent  == [tag |-> "absent", has |-> {}]
Out     == [tag |-> "out", has |-> {}]
Present(marks) == [tag |-> "present", has |-> marks]

Records == {Present(marks) : marks \in SUBSET Marks}
NoJob == [op |-> "none", addr |-> NoAddr, mark |-> NoAddr, rec |-> None,
          fresh |-> TRUE, todo |-> {}]

Locked == {"pkmsg", "ratchet", "bundle", "recreate", "migrate"}
Ops == Locked \cup {"probe", "peek", "purge"}

PcStates == {"idle", "lock2", "load", "read", "fill", "crypt", "store",
             "delete", "buffer", "flush", "deletes", "prekeys",
             "clear", "clear2"}

\* Types of the cache, the backend and the tasks.
SignalTypeOK ==
    /\ entry \in [Addrs -> Records \cup {None, Absent, Out}]
    /\ disk \in [Addrs -> Records \cup {None}]
    /\ last \in [Addrs -> Records \cup {None}]
    /\ dirty \subseteq Addrs /\ deleted \subseteq Addrs /\ stale \subseteq Addrs
    /\ removed \in [PreKeys -> Addrs \cup {NoAddr}]
    /\ keys \subseteq PreKeys
    /\ waived \subseteq PreKeys /\ dropped \subseteq PreKeys
    /\ lock \in [Addrs -> Tasks \cup {NoOne}]
    /\ sessions \in Tasks \cup {NoOne}
    /\ pc \in [Tasks -> PcStates]
    /\ job \in [Tasks -> [op: Ops \cup {"none", "cleanup"},
                          addr: Addrs \cup {NoAddr},
                          mark: Marks \cup {NoAddr},
                          rec: Records \cup {None}, fresh: BOOLEAN,
                          todo: SUBSET (Addrs \cup PreKeys)]]
    /\ gap \subseteq Tasks
    /\ count \in [jobs: 0..MaxJobs, cleanups: 0..MaxCleanups, faults: 0..MaxFaults]

Init ==
    /\ entry = [a \in Addrs |-> None] /\ dirty = {} /\ deleted = {}
    /\ removed = [p \in PreKeys |-> NoAddr]
    /\ disk = [a \in Addrs |-> None] /\ keys = PreKeys
    /\ lock = [a \in Addrs |-> NoOne] /\ sessions = NoOne
    /\ pc = [t \in Tasks |-> "idle"] /\ job = [t \in Tasks |-> NoJob]
    /\ last = [a \in Addrs |-> None]
    /\ gap = {} /\ stale = {} /\ waived = {} /\ dropped = {}
    /\ count = [jobs |-> 0, cleanups |-> 0, faults |-> 0]

----------------------------------------------------------------------------
(* The session map *)

Cached(map) == {a \in Addrs : map[a].tag # "none"}

\* Fault: eviction takes entries that were not written yet.
VictimsDirtyToo(map, dirt, del) ==
    LET clean == {a \in Cached(map) \ del : map[a].tag # "out"}
    IN  IF Cardinality(Cached(map)) <= HighWater THEN {{}}
        ELSE {victims \in SUBSET clean :
                 Cardinality(victims) = Min({Cardinality(Cached(map)) - MaxEntries,
                                             Cardinality(clean)})}

\* What one call of evict_if_needed may remove: clean entries, those known
\* to be absent first, until MaxEntries are left.
Victims(map, dirt, del) ==
    LET clean == {a \in Cached(map) \ (dirt \cup del) : map[a].tag # "out"}
        negative == {a \in clean : map[a].tag = "absent"}
    IN  IF Cardinality(Cached(map)) <= HighWater THEN {{}}
        ELSE {victims \in SUBSET clean :
                 /\ Cardinality(victims) =
                        Min({Cardinality(Cached(map)) - MaxEntries,
                             Cardinality(clean)})
                 /\ negative \subseteq victims \/ victims \subseteq negative}

\* Tasks at one of these points of a load, for one of these slots.
Readers(slots, at) == {t \in Tasks : pc[t] \in at /\ job[t].addr \in slots}

\* The map becomes "map" and is then trimmed.
SetMap(map, dirt, del) ==
    \E victims \in Victims(map, dirt, del) :
        /\ entry' = [a \in Addrs |-> IF a \in victims THEN None ELSE map[a]]
        /\ gap' = gap \cup Readers(victims, {"fill"})
        /\ dirty' = dirt /\ deleted' = del

Goto(t, label) == pc' = [pc EXCEPT ![t] = label]

\* The task lets its session locks go and continues at "label".
Unlock(t, label) ==
    /\ lock' = [a \in Addrs |-> IF lock[a] = t THEN NoOne ELSE lock[a]]
    /\ Goto(t, label)

\* A backend call returns an error.
Failure ==
    /\ count.faults < MaxFaults
    /\ count' = [count EXCEPT !.faults = @ + 1]

----------------------------------------------------------------------------
(* Jobs *)

\* A caller starts; decrypt, encrypt, reset and migration take the lock of
\* the address first, the migration the other one next (in the order of
\* their names, which is fixed for a pair).
StartJob(t, op, a, m) ==
    /\ pc[t] = "idle" /\ count.jobs < MaxJobs
    /\ count' = [count EXCEPT !.jobs = @ + 1]
    /\ job' = [job EXCEPT ![t] = [NoJob EXCEPT !.op = op, !.addr = a, !.mark = m]]
    /\ \/ /\ op \in Locked /\ lock[a] = NoOne
          /\ lock' = [lock EXCEPT ![a] = t]
          /\ Goto(t, CASE op = "recreate" -> "delete"
                       [] op = "migrate" -> "lock2"
                       [] OTHER -> "load")
       \/ /\ op \notin Locked
          /\ UNCHANGED lock
          /\ Goto(t, IF op = "purge" THEN "delete" ELSE "load")
    /\ gap' = gap \ {t}
    /\ UNCHANGED <<cacheVars, diskVars, sessions, last, stale, waived, dropped>>

LockLid(t) ==
    /\ pc[t] = "lock2" /\ lock[Lid] = NoOne
    /\ lock' = [lock EXCEPT ![Lid] = t]
    /\ Goto(t, "load")
    /\ UNCHANGED <<cacheVars, diskVars, sessions, job, ghosts, count>>

EndJob(t) ==
    /\ job' = [job EXCEPT ![t] = NoJob]
    /\ Unlock(t, "idle")

Takes(t) == job[t].op \in Locked

\* The first lock scope of get_session, peek_session and has_session.
Load(t) ==
    LET a == job[t].addr
        found == entry[a]
        rec == IF found.tag = "present" THEN found ELSE None
    IN  /\ pc[t] = "load" /\ sessions = NoOne
        /\ \/ /\ found.tag = "none"
              /\ Goto(t, "read")
              /\ UNCHANGED <<entry, job, lock>>
           \/ /\ found.tag # "none" /\ Takes(t)
              /\ entry' = [entry EXCEPT ![a] = IF @.tag = "present" THEN Out ELSE @]
              /\ job' = [job EXCEPT ![t].rec = rec, ![t].fresh = (rec = last[a])]
              /\ Goto(t, "crypt")
              /\ UNCHANGED lock
           \/ /\ found.tag # "none" /\ ~Takes(t)
              /\ EndJob(t)
              /\ UNCHANGED entry
        /\ UNCHANGED <<dirty, deleted, removed, diskVars, sessions, ghosts, count>>

\* The backend read outside the lock; has_session does not cache a hit.
Read(t) ==
    LET answer == disk[job[t].addr]
    IN  /\ pc[t] = "read"
        /\ \/ /\ job[t].op = "probe" /\ answer # None
              /\ EndJob(t)
           \/ /\ job[t].op # "probe" \/ answer = None
              /\ job' = [job EXCEPT ![t].rec = answer]
              /\ Goto(t, "fill")
              /\ UNCHANGED lock
        /\ UNCHANGED <<cacheVars, diskVars, sessions, ghosts, count>>

\* The receive path (pkmsg and msg) and the migration flush after an error too.
ReadFails(t) ==
    /\ pc[t] = "read" /\ Failure
    /\ \/ /\ job[t].op \in {"pkmsg", "ratchet", "migrate"}
          /\ Unlock(t, "flush") /\ UNCHANGED job
       \/ job[t].op \notin {"pkmsg", "migrate"} /\ EndJob(t)
    /\ UNCHANGED <<cacheVars, diskVars, sessions, ghosts>>

\* What the second lock scope puts into an empty slot.
Filled(t) ==
    IF job[t].rec = None THEN Absent
    ELSE IF Takes(t) THEN Out ELSE job[t].rec

\* Fault: the answer is cached over what another task has put there.
FillBlindly(t) ==
    LET a == job[t].addr
    IN  /\ pc[t] = "fill" /\ sessions = NoOne
        /\ SetMap([entry EXCEPT ![a] = Filled(t)], dirty, deleted)
        /\ stale' = IF entry[a].tag = "none" /\ t \in gap THEN stale \cup {a}
                    ELSE stale
        /\ \/ /\ Takes(t)
              /\ job' = [job EXCEPT ![t].fresh = (job[t].rec = last[a])]
              /\ Goto(t, "crypt")
              /\ UNCHANGED lock
           \/ ~Takes(t) /\ EndJob(t)
        /\ UNCHANGED <<removed, diskVars, sessions, last, waived, dropped, count>>

Fill(t) ==
    LET a == job[t].addr
    IN  /\ pc[t] = "fill" /\ sessions = NoOne
        /\ \/ /\ entry[a].tag = "none"
              /\ SetMap([entry EXCEPT ![a] = Filled(t)], dirty, deleted)
              /\ stale' = IF t \in gap THEN stale \cup {a} ELSE stale
           \/ /\ entry[a].tag # "none"
              /\ UNCHANGED <<entry, dirty, deleted, gap, stale>>
        /\ \/ /\ Takes(t)
              /\ job' = [job EXCEPT ![t].fresh = (job[t].rec = last[a])]
              /\ Goto(t, "crypt")
              /\ UNCHANGED lock
           \/ ~Takes(t) /\ EndJob(t)
        /\ UNCHANGED <<removed, diskVars, sessions, last, waived, dropped, count>>

\* Fault: a failed decryption does not put the session back.
DecryptForgets(t) ==
    LET p == job[t].mark
        rec == job[t].rec
        known == p \in rec.has
    IN  /\ pc[t] = "crypt" /\ job[t].op = "pkmsg"
        /\ \/ /\ known
              /\ job' = [job EXCEPT ![t].mark = NoAddr]
              /\ Goto(t, "store")
              /\ UNCHANGED lock
           \/ /\ ~known /\ p \in keys
              /\ job' = [job EXCEPT ![t].rec = Present(rec.has \cup {p})]
              /\ Goto(t, "store")
              /\ UNCHANGED lock
           \/ /\ ~known
              /\ job' = [job EXCEPT ![t].mark = NoAddr]
              /\ Unlock(t, "flush")
        /\ UNCHANGED <<cacheVars, diskVars, sessions, ghosts, count>>

\* The cipher.  A pkmsg promotes a session unless the record already has
\* it; a failed decryption puts the loaded record back.
Decrypt(t) ==
    LET p == job[t].mark
        rec == job[t].rec
        known == p \in rec.has
    IN  /\ pc[t] = "crypt" /\ job[t].op = "pkmsg"
        /\ \/ /\ known \/ rec # None      \* a duplicate, or a failure
              /\ job' = [job EXCEPT ![t].mark = NoAddr]
              /\ Goto(t, "store")
              /\ UNCHANGED lock
           \/ /\ ~known /\ p \in keys
              /\ job' = [job EXCEPT ![t].rec = Present(rec.has \cup {p})]
              /\ Goto(t, "store")
              /\ UNCHANGED lock
           \/ /\ rec = None               \* a failure without a session
              /\ job' = [job EXCEPT ![t].mark = NoAddr]
              /\ Unlock(t, "flush")
        /\ UNCHANGED <<cacheVars, diskVars, sessions, ghosts, count>>

\* Encryption and msg decryption need a session and always store it; a
\* prekey bundle from the server makes one where there is none.  Without a
\* session an encryption ends and a msg goes on to the flush.
Ratchet(t) ==
    LET rec == job[t].rec
    IN  /\ pc[t] = "crypt" /\ job[t].op \in {"ratchet", "bundle"}
        /\ \/ rec = None /\ EndJob(t)
           \/ /\ rec = None /\ job[t].op = "ratchet"
              /\ Unlock(t, "flush") /\ UNCHANGED job
           \/ /\ rec # None \/ job[t].op = "bundle"
              /\ \E marks \in {rec.has \cup {job[t].mark}}
                           \cup (IF rec = None THEN {} ELSE {rec.has}) :
                    job' = [job EXCEPT ![t].rec = Present(marks)]
              /\ Goto(t, "store")
              /\ UNCHANGED lock
        /\ UNCHANGED <<cacheVars, diskVars, sessions, ghosts, count>>

Migrate(t) ==
    /\ pc[t] = "crypt" /\ job[t].op = "migrate"
    /\ \/ job[t].rec = None /\ Unlock(t, "flush")
       \/ job[t].rec # None /\ Goto(t, "store") /\ UNCHANGED lock
    /\ UNCHANGED <<cacheVars, diskVars, sessions, job, ghosts, count>>

\* Where put_session stores: the migration moves the PN session to the LID.
Target(t) == IF job[t].op = "migrate" THEN Lid ELSE job[t].addr

put_session(t) ==
    LET a == Target(t)
        lost == PreKeys \cap (last[a].has \ job[t].rec.has)
    IN  /\ pc[t] = "store" /\ sessions = NoOne
        /\ SetMap([entry EXCEPT ![a] = job[t].rec], dirty \cup {a}, deleted \ {a})
        /\ last' = [last EXCEPT ![a] = job[t].rec]
        /\ stale' = stale \ {a}
        /\ waived' = IF job[t].op = "migrate" THEN waived \cup lost ELSE waived
        /\ dropped' = IF ~job[t].fresh THEN dropped \cup lost ELSE dropped
        /\ \/ /\ job[t].op = "pkmsg" /\ job[t].mark # NoAddr
              /\ Goto(t, "buffer") /\ UNCHANGED lock
           \/ /\ job[t].op = "migrate"
              /\ Goto(t, "delete") /\ UNCHANGED lock
           \/ /\ job[t].op # "migrate"
              /\ job[t].op = "pkmsg" => job[t].mark = NoAddr
              /\ Unlock(t, "flush")
        /\ UNCHANGED <<removed, diskVars, sessions, job, count>>

\* A session reset, the end of a migration, and the purge of a removed
\* device's sessions, which takes no session lock.
delete_session(t) ==
    LET a == job[t].addr
    IN  /\ pc[t] = "delete" /\ sessions = NoOne
        /\ entry' = [entry EXCEPT ![a] = Absent]
        /\ deleted' = deleted \cup {a} /\ dirty' = dirty \ {a}
        /\ last' = [last EXCEPT ![a] = None]
        /\ stale' = stale \ {a}
        /\ gap' = gap \cup Readers({a}, {"read", "fill"})
        /\ waived' = waived \cup (PreKeys \cap (last[a].has \cup job[t].rec.has))
        /\ Unlock(t, "flush")
        /\ UNCHANGED <<removed, diskVars, sessions, job, dropped, count>>

\* buffer_consumed_prekey takes the mutex of removed_prekeys only, which a
\* flush holds while it deletes prekeys.
remove_prekey(t) ==
    /\ pc[t] = "buffer"
    /\ \A u \in Tasks : pc[u] # "prekeys"
    /\ removed' = [removed EXCEPT ![job[t].mark] = job[t].addr]
    /\ Unlock(t, "flush")
    /\ UNCHANGED <<entry, dirty, deleted, diskVars, sessions, job, ghosts, count>>

----------------------------------------------------------------------------
(* flush: the sessions mutex is held from the first step to the last *)

\* put_sessions_batch: one transaction for the dirty sessions at hand.
put_sessions_batch(t) ==
    /\ pc[t] = "flush" /\ sessions = NoOne
    /\ sessions' = t
    /\ disk' = [a \in Addrs |-> IF a \in dirty /\ entry[a].tag = "present"
                                THEN entry[a] ELSE disk[a]]
    /\ job' = [job EXCEPT ![t].todo = deleted]
    /\ Goto(t, "deletes")
    /\ UNCHANGED <<cacheVars, keys, lock, ghosts, count>>

\* Fault: with the mutex held, the flush takes the lock of each session that it
\* deletes; everybody else takes the two the other way round.
DeleteDurablyLocked(t) ==
    /\ pc[t] = "deletes"
    /\ \E a \in job[t].todo :
          /\ lock[a] = NoOne
          /\ disk' = [disk EXCEPT ![a] = None]
          /\ job' = [job EXCEPT ![t].todo = @ \ {a}]
    /\ UNCHANGED <<cacheVars, keys, lock, sessions, pc, ghosts, count>>

DeleteDurably(t) ==
    /\ pc[t] = "deletes"
    /\ \E a \in job[t].todo :
          /\ disk' = [disk EXCEPT ![a] = None]
          /\ job' = [job EXCEPT ![t].todo = @ \ {a}]
    /\ UNCHANGED <<cacheVars, keys, lock, sessions, pc, ghosts, count>>

\* Fault: any session of the address counts, the one in use included.
DurableIfAny(map, a) == map[a].tag # "absent" \/ disk[a] # None

\* Is the session that consumed a prekey durable?  A session in use is not;
\* for one that is not cached the backend is asked.
IsDurable(map, a) ==
    map[a].tag = "present" \/ (map[a].tag \in {"absent", "none"} /\ disk[a] # None)

\* The writes succeeded: clear the marks, trim the map, pick the prekeys.
Settle(t) ==
    /\ pc[t] = "deletes" /\ job[t].todo = {}
    /\ SetMap(entry, {a \in dirty : entry[a].tag = "out"}, {})
    /\ job' = [job EXCEPT ![t].todo =
                  {p \in PreKeys : /\ removed[p] # NoAddr
                                   /\ IsDurable(entry', removed[p])}]
    /\ Goto(t, "prekeys")
    /\ UNCHANGED <<removed, diskVars, lock, sessions, last, stale, waived,
                   dropped, count>>

RemoveDurably(t) ==
    /\ pc[t] = "prekeys"
    /\ \E p \in job[t].todo \cap keys : keys' = keys \ {p}
    /\ UNCHANGED <<cacheVars, disk, lock, sessions, pc, job, ghosts, count>>

\* A caller's flush ends its job; the cleanup goes on to clear the cache.
FlushDone(t) ==
    /\ pc[t] = "prekeys" /\ job[t].todo \cap keys = {}
    /\ removed' = [p \in PreKeys |-> IF p \in job[t].todo THEN NoAddr
                                                          ELSE removed[p]]
    /\ sessions' = NoOne
    /\ job' = [job EXCEPT ![t] = NoJob]
    /\ Goto(t, IF t = Cleanup THEN "clear" ELSE "idle")
    /\ UNCHANGED <<entry, dirty, deleted, diskVars, lock, ghosts, count>>

\* A backend error leaves flush early, with the marks it has not cleared.
FlushFails(t) ==
    /\ \/ pc[t] = "flush" /\ sessions = NoOne
       \/ pc[t] \in {"deletes", "prekeys"}
    /\ Failure
    /\ sessions' = NoOne
    /\ job' = [job EXCEPT ![t] = NoJob]
    /\ Goto(t, "idle")
    /\ UNCHANGED <<cacheVars, diskVars, lock, ghosts>>

----------------------------------------------------------------------------
(* cleanup_connection_state and crashes *)

StartCleanup ==
    /\ pc[Cleanup] = "idle" /\ count.cleanups < MaxCleanups
    /\ count' = [count EXCEPT !.cleanups = @ + 1]
    /\ Goto(Cleanup, "flush")
    /\ UNCHANGED <<cacheVars, diskVars, lock, sessions, job, ghosts>>

\* clear drops what was stored since the flush; a session in use is not in
\* the map and comes back when its holder stores it.
ClearSessions ==
    /\ pc[Cleanup] = "clear" /\ sessions = NoOne
    /\ entry' = [a \in Addrs |-> None] /\ dirty' = {} /\ deleted' = {}
    /\ last' = [a \in Addrs |-> IF entry[a].tag = "out" THEN last[a] ELSE disk[a]]
    /\ dropped' = dropped \cup
          (PreKeys \cap UNION {last[a].has \ disk[a].has : a \in Addrs})
    /\ gap' = gap \cup Readers(Cached(entry), {"fill"})
    /\ stale' = {}
    /\ Goto(Cleanup, "clear2")
    /\ UNCHANGED <<removed, diskVars, lock, sessions, job, waived, count>>

ClearPrekeys ==
    /\ pc[Cleanup] = "clear2"
    /\ \A u \in Tasks : pc[u] # "prekeys"
    /\ removed' = [p \in PreKeys |-> NoAddr]
    /\ Goto(Cleanup, "idle")
    /\ UNCHANGED <<entry, dirty, deleted, diskVars, lock, sessions, job, ghosts,
                   count>>

\* The process dies and starts again with what the backend has.
Crash ==
    /\ count.faults < MaxFaults
    /\ count' = [count EXCEPT !.faults = @ + 1]
    /\ entry' = [a \in Addrs |-> None] /\ dirty' = {} /\ deleted' = {}
    /\ removed' = [p \in PreKeys |-> NoAddr]
    /\ lock' = [a \in Addrs |-> NoOne] /\ sessions' = NoOne
    /\ pc' = [t \in Tasks |-> "idle"] /\ job' = [t \in Tasks |-> NoJob]
    /\ last' = disk /\ gap' = {} /\ stale' = {}
    /\ UNCHANGED <<diskVars, waived, dropped>>

----------------------------------------------------------------------------

FlushStep(t) ==
    \/ put_sessions_batch(t) \/ DeleteDurably(t) \/ Settle(t)
    \/ RemoveDurably(t) \/ FlushDone(t)

WorkerStep(t) ==
    \/ LockLid(t) \/ Load(t) \/ Read(t) \/ Fill(t)
    \/ Decrypt(t) \/ Ratchet(t) \/ Migrate(t)
    \/ put_session(t) \/ delete_session(t) \/ remove_prekey(t)
    \/ FlushStep(t)

CleanupStep == FlushStep(Cleanup) \/ ClearSessions \/ ClearPrekeys

Next ==
    \/ \E t \in Workers, a \in Addrs :
          \/ \E p \in PreKeys : StartJob(t, "pkmsg", a, p)
          \/ \E m \in Steps \ last[a].has, op \in {"ratchet", "bundle"} :
                StartJob(t, op, a, m)
          \/ \E op \in {"recreate", "probe", "peek", "purge"} :
                StartJob(t, op, a, NoAddr)
    \/ \E t \in Workers : StartJob(t, "migrate", Pn, NoAddr)
    \/ \E t \in Workers : WorkerStep(t) \/ ReadFails(t)
    \/ StartCleanup \/ CleanupStep \/ Crash
    \/ \E t \in Tasks : FlushFails(t)

Spec == Init /\ [][Next]_signalVars

----------------------------------------------------------------------------
(* Properties *)

\* A task has loaded the session of "a" and has not stored it yet.
InUse(a) ==
    \E t \in Workers : /\ lock[a] = t /\ job[t].addr = a /\ job[t].rec # None
                       /\ pc[t] \in {"crypt", "store", "delete"}

\* "The flush deletes a prekey only after that session is persisted, so a
\* crash can never lose both": whatever crashes and errors interrupt a flush,
\* a prekey leaves the backend only when the session it promoted is there,
\* unless that session was deleted, moved to the LID, or dropped by clear.
PrekeyOrSession ==
    \A p \in PreKeys \ (waived \cup dropped) :
        p \in keys \/ \E a \in Addrs : p \in disk[a].has

\* A CheckedOut marker always has a task that will put the session back:
\* otherwise the address would answer "no session" for ever.
OutIsHeld == \A a \in Addrs : entry[a].tag = "out" => InUse(a)

\* The cache is a register: under the session lock a load returns what was
\* stored last, through evictions, flushes that fail half way, and readers
\* that fill slots without the lock.  Only a reader whose slot was emptied
\* (or deleted without the lock) between its read and its fill breaks it.
LoadsAreFresh ==
    [][\A t \in Workers : pc[t] # "crypt" /\ pc'[t] = "crypt" =>
          job'[t].fresh \/ job[t].addr \in stale \/ t \in gap]_signalVars

\* No step of a flush, an eviction or a reader loses an unwritten session:
\* what the map does not hold dirty is what the backend has.
CleanIsDurable ==
    \A a \in Addrs \ (dirty \cup deleted) : ~InUse(a) => last[a] = disk[a]

NeedsMutex == {"load", "fill", "store", "delete", "flush", "clear"}
NeedsPrekeys == {"buffer", "clear2"}

\* Task t, at its next step, needs a lock that task u holds.
Blocks(u, t) ==
    \/ pc[t] = "lock2" /\ lock[Lid] = u
    \/ pc[t] \in NeedsMutex /\ sessions = u
    \/ pc[t] \in NeedsPrekeys /\ pc[u] = "prekeys"

\* The guard of the step that is next for a task.
CanGoOn(t) ==
    \/ t \in Workers /\ pc[t] = "lock2" /\ lock[Lid] = NoOne
    \/ t \in Workers /\ pc[t] \in {"load", "fill", "store", "delete"} /\ sessions = NoOne
    \/ t \in Workers /\ pc[t] = "read"
    \/ /\ t \in Workers /\ pc[t] = "crypt"
       /\ job[t].op \in {"pkmsg", "ratchet", "bundle", "migrate"}
    \/ t \in Workers /\ pc[t] = "buffer" /\ \A u \in Tasks : pc[u] # "prekeys"
    \/ pc[t] = "flush" /\ sessions = NoOne
    \/ pc[t] \in {"deletes", "prekeys"}
    \/ t = Cleanup /\ pc[t] = "clear" /\ sessions = NoOne
    \/ t = Cleanup /\ pc[t] = "clear2" /\ \A u \in Tasks : pc[u] # "prekeys"

\* Every task that has work can go on, or waits for one that can, or for one
\* that waits for one that can.
WaitsEnd ==
    \A t \in Tasks : pc[t] # "idle" =>
        \/ CanGoOn(t)
        \/ \E u \in Tasks : /\ Blocks(u, t)
                            /\ CanGoOn(u) \/ \E v \in Tasks : Blocks(v, u) /\ CanGoOn(v)

\* Nobody waits for ever: the session locks, the mutex a flush holds and the
\* one of the prekeys never block one another, also after a backend error; and
\* whoever has its guard can take its step.
NobodyStuck ==
    /\ WaitsEnd
    /\ \A t \in Workers : CanGoOn(t) => ENABLED WorkerStep(t)
    /\ CanGoOn(Cleanup) => ENABLED CleanupStep

============================================================================
