------------------------------ MODULE PreKeys ------------------------------
(***************************************************************************)
(* One-time prekeys (prekeys.rs): generation, upload, the key of a retry   *)
(* receipt, on top of the device saver.                                    *)
(*                                                                         *)
(* prekey_upload_lock admits one pass at a time, so there is one pass in   *)
(* flight and its caller "op"; the background saver, other modifications   *)
(* of the device, peers that use keys, and crashes interleave with it.     *)
(* A key is the pair of its id and the pass that generated it.             *)
(***************************************************************************)
EXTENDS DeviceSaver

CONSTANTS MAX_PREKEY_ID,
          Wanted,        \* wanted_pre_key_count, after clamping
          Uploader,      \* the task that holds prekey_upload_lock
          MaxPasses, MaxCrashes, MaxLows

Ids == 1..MAX_PREKEY_ID

ASSUME PreKeysAssumption ==
    /\ MAX_PREKEY_ID \in Nat /\ Wanted \in 1..MAX_PREKEY_ID
    /\ Flushers = {Uploader}
    /\ Devices = [next: 0..MAX_PREKEY_ID + 1, first: 0..MAX_PREKEY_ID + 1,
                  has: BOOLEAN]
    /\ InitialDevice = [next |-> 1, first |-> 0, has |-> FALSE]

VARIABLES store,     \* the pass that generated each stored key, 0 for no key
          op,        \* the caller of the pass in flight
          pc, plan, rows,
          rerun,     \* allow_collapse_retry
          low,       \* a prekey-low handler waits for the lock
          pool,      \* keys the server may hand out
          given,     \* keys sent to a peer in a retry receipt
          used,      \* keys a peer has used
          passes,    \* generations so far
          sent,      \* keys that were in an upload IQ
          resent,    \* keys that were in two
          ahead,     \* of those, the ones FIRST on disk was behind at a crash
          unmarked,  \* keys handed out that NEXT on disk was behind at a crash
          recycled,  \* keys handed out before the ids wrapped around
          crashes, lows

passVars == <<op, pc, plan, rows, rerun, low>>
keyVars  == <<store, pool, given, used, passes>>
history  == <<sent, resent, ahead, unmarked, recycled, crashes, lows>>
preKeyVars == <<saverVars, passVars, keyVars, history>>

Keys == Ids \X Nat
Plans == [window: 0..MAX_PREKEY_ID + 1, gen: 0..Wanted,
          start: 0..MAX_PREKEY_ID + 1, next: 0..MAX_PREKEY_ID + 1]
NoPlan == [window |-> 0, gen |-> 0, start |-> 0, next |-> 0]

\* Types of the saver and of the upload pass.
PreKeysTypeOK ==
    /\ SaverTypeOK
    /\ store \in [Ids -> Nat]
    /\ op \in {"none", "login", "low", "refresh", "single"}
    /\ pc \in {"idle", "plan", "generate", "mark", "flush", "window", "abandon",
               "flush2", "send", "done"}
    /\ plan \in Plans
    /\ rows \subseteq Keys
    /\ rerun \in BOOLEAN /\ low \in BOOLEAN
    /\ pool \subseteq Keys /\ given \subseteq Keys /\ used \subseteq Keys
    /\ passes \in Nat /\ crashes \in Nat /\ lows \in Nat

Init ==
    /\ SaverInit
    /\ store = [i \in Ids |-> 0]
    /\ op = "none" /\ pc = "idle" /\ plan = NoPlan /\ rows = {}
    /\ rerun = FALSE /\ low = FALSE
    /\ pool = {} /\ given = {} /\ used = {} /\ passes = 0
    /\ sent = {} /\ resent = {} /\ ahead = {} /\ unmarked = {} /\ recycled = {}
    /\ crashes = 0 /\ lows = 0

----------------------------------------------------------------------------
(* The watermark arithmetic *)

start_prekey_id(next, stored) ==
    LET raw == IF next > 0 /\ next > stored THEN next ELSE stored + 1
    IN  ((raw - 1) % MAX_PREKEY_ID) + 1

FreshWindow(first, wanted) ==
    LET start == IF first + wanted - 1 > MAX_PREKEY_ID THEN 1 ELSE first
    IN  [window |-> start, gen |-> wanted, start |-> start,
         next |-> start + wanted]

\* Fault: generation restarts at the head of the window.
PlanFromHead(first, next, stored, wanted) ==
    LET available == IF next - first < wanted THEN next - first ELSE wanted
        gen == wanted - available
    IN  IF first = 0 \/ first > next
        THEN FreshWindow(start_prekey_id(next, stored), wanted)
        ELSE IF first + wanted - 1 > MAX_PREKEY_ID
                \/ (gen > 0 /\ next + gen - 1 > MAX_PREKEY_ID)
        THEN FreshWindow(1, wanted)
        ELSE [window |-> first, gen |-> gen, start |-> first,
              next |-> next + gen]

\* The window [first, next) holds generated keys that were not uploaded;
\* new ids continue at "next", or start over at 1 at the 24-bit boundary.
plan_prekey_upload(first, next, stored, wanted) ==
    LET available == IF next - first < wanted THEN next - first ELSE wanted
        gen == wanted - available
    IN  IF first = 0 \/ first > next
        THEN FreshWindow(start_prekey_id(next, stored), wanted)
        ELSE IF first + wanted - 1 > MAX_PREKEY_ID
                \/ (gen > 0 /\ next + gen - 1 > MAX_PREKEY_ID)
        THEN FreshWindow(1, wanted)
        ELSE [window |-> first, gen |-> gen, start |-> next,
              next |-> next + gen]

----------------------------------------------------------------------------
(* Callers *)

Quiet == UNCHANGED <<keyVars, history>>

\* The lock is free and the pass begins: at login unless the server has
\* keys, after prekey-low unless an upload came first, on a refresh or a
\* failed digest in any case, and for a retry receipt with one key.
Begin(caller) ==
    /\ pc = "idle" /\ passes < MaxPasses
    /\ caller = "login" => ~device.has
    /\ caller = "low" => low
    /\ low' = (low /\ caller # "low")
    /\ \/ caller = "low" /\ device.has /\ UNCHANGED <<op, pc, rerun>>
       \/ /\ caller = "low" => ~device.has
          /\ op' = caller /\ pc' = "plan" /\ rerun' = TRUE
    /\ Quiet /\ UNCHANGED <<saverVars, plan, rows>>

\* handle_prekey_low clears the flag at once and waits for the lock; any
\* other command that changes the device meets the saver in the same way.
PrekeyLow ==
    /\ lows < MaxLows
    /\ lows' = lows + 1 /\ low' = TRUE
    /\ modify_device([device EXCEPT !.has = FALSE])
    /\ UNCHANGED <<op, pc, plan, rows, rerun, keyVars, sent, resent, ahead, unmarked,
                   recycled, crashes>>

Finish == op' = "none" /\ pc' = "idle" /\ plan' = NoPlan /\ rows' = {}

\* An error ends the pass; upload_pre_keys_with_retry starts it again while
\* the client is logged in.
Abort ==
    \/ Finish /\ UNCHANGED rerun
    \/ /\ op \in {"low", "refresh"} /\ passes < MaxPasses
       /\ pc' = "plan" /\ rerun' = TRUE /\ plan' = NoPlan /\ rows' = {}
       /\ UNCHANGED op

----------------------------------------------------------------------------
(* The pass *)

Stored == {i \in Ids : store[i] # 0}
Fresh == plan.start..(plan.start + plan.gen - 1)
Leftover == {i \in Stored : plan.window <= i /\ i < device.next}
InWindow == {i \in Stored : plan.window <= i /\ i < plan.window + Wanted}

\* The ids start over: what was handed out before may be overwritten.
Recycle(wraps) ==
    recycled' = IF wraps THEN recycled \cup pool \cup given ELSE recycled

Plan ==
    /\ pc = "plan"
    /\ \E highest \in Stored \cup {0} :
           /\ \A i \in Stored : i <= highest
           /\ plan' = plan_prekey_upload(device.first, device.next, highest,
                                         IF op = "single" THEN 1 ELSE Wanted)
           /\ Recycle(plan'.gen > 0 /\ plan'.start = 1
                      /\ (device.next > 1 \/ highest > 0))
    /\ pc' = "generate"
    /\ UNCHANGED <<saverVars, op, rows, rerun, low, keyVars, sent, resent,
                   ahead, unmarked, crashes, lows>>

\* store_prekeys_batch: one transaction, before anything else is done.
Generate ==
    /\ pc = "generate" /\ (op = "single" => plan.gen > 0)
    /\ passes' = passes + 1
    /\ store' = [i \in Ids |-> IF i \in Fresh THEN passes + 1 ELSE store[i]]
    /\ pc' = "mark"
    /\ UNCHANGED <<saverVars, op, plan, rows, rerun, low, pool, given, used,
                   history>>

\* get_or_gen_single_pre_key: the first key of the window that is still
\* stored is handed out again, and FIRST moves up to it; when there is none
\* a new key starts a window of its own.
ReuseSingle ==
    /\ pc = "generate" /\ op = "single" /\ plan.gen = 0
    /\ \E id \in Leftover :
          /\ \A i \in Leftover : id <= i
          /\ given' = given \cup {<<id, store[id]>>}
          /\ \/ id # plan.window /\ modify_device([device EXCEPT !.first = id])
             \/ id = plan.window /\ UNCHANGED saverVars
    /\ Finish
    /\ UNCHANGED <<rerun, low, store, pool, used, passes, history>>

CollapseSingle ==
    LET raw == IF device.next > plan.window THEN device.next ELSE plan.window + 1
        id == IF raw > MAX_PREKEY_ID THEN 1 ELSE raw
    IN  /\ pc = "generate" /\ op = "single" /\ plan.gen = 0 /\ Leftover = {}
        /\ plan' = [window |-> id, gen |-> 1, start |-> id, next |-> id + 1]
        /\ Recycle(id < raw)
        /\ UNCHANGED <<saverVars, op, pc, rows, rerun, low, keyVars, sent, resent,
                       ahead, unmarked, crashes, lows>>

SetWatermarks(first, next) ==
    modify_device([device EXCEPT !.first = first, !.next = next])

\* Fault: NEXT is left for the end of the upload.
MarkFirst ==
    /\ pc = "mark"
    /\ SetWatermarks(plan.window, device.next)
    /\ pc' = "flush"
    /\ Quiet /\ UNCHANGED <<op, plan, rows, rerun, low>>

Mark ==
    /\ pc = "mark"
    /\ SetWatermarks(plan.window, plan.next)
    /\ pc' = "flush"
    /\ Quiet /\ UNCHANGED <<op, plan, rows, rerun, low>>

\* flush() is awaited, and an error of it aborts the pass.
AwaitFlush ==
    /\ pc \in {"flush", "flush2"}
    /\ \/ /\ saving[Uploader].at = "ok"
          /\ \/ /\ pc = "flush" /\ op = "single"
                /\ given' = given \cup {<<plan.start, store[plan.start]>>}
                /\ Finish
             \/ /\ pc = "flush" /\ op # "single"
                /\ pc' = "window" /\ UNCHANGED <<op, plan, rows, given>>
             \/ /\ pc = "flush2" /\ pc' = "send"
                /\ UNCHANGED <<op, plan, rows, given>>
          /\ UNCHANGED rerun
       \/ saving[Uploader].at = "failed" /\ Abort /\ UNCHANGED given
    /\ FlushReturns(Uploader)
    /\ UNCHANGED <<low, store, pool, used, passes, history>>

\* Fault: the empty window is kept.
WindowKept ==
    /\ pc = "window"
    /\ \/ /\ InWindow # {}
          /\ rows' = {<<i, store[i]>> : i \in InWindow} /\ pc' = "abandon"
          /\ UNCHANGED <<saverVars, op, plan, rerun>>
       \/ /\ InWindow = {} /\ rerun
          /\ SetWatermarks(plan.window, plan.next)
          /\ rerun' = FALSE /\ pc' = "plan" /\ plan' = NoPlan /\ rows' = {}
          /\ UNCHANGED op
    /\ Quiet /\ UNCHANGED low

\* The window is loaded; an empty one is collapsed and the pass runs once
\* more.  The errors for an empty window after that are never reached
\* (RerunFindsKeys) and left out.
Window ==
    /\ pc = "window"
    /\ \/ /\ InWindow # {}
          /\ rows' = {<<i, store[i]>> : i \in InWindow} /\ pc' = "abandon"
          /\ UNCHANGED <<saverVars, op, plan, rerun>>
       \/ /\ InWindow = {} /\ rerun
          /\ SetWatermarks(plan.next, plan.next)
          /\ rerun' = FALSE /\ pc' = "plan" /\ plan' = NoPlan /\ rows' = {}
          /\ UNCHANGED op
    /\ Quiet /\ UNCHANGED low

\* Fault: the abandon watermark is set after the send.
AbandonLater ==
    /\ pc = "abandon"
    /\ SetWatermarks(plan.window, plan.next)
    /\ pc' = "flush2"
    /\ Quiet /\ UNCHANGED <<op, plan, rows, rerun, low>>

\* The window counts as uploaded before it is sent.
Abandon ==
    /\ pc = "abandon"
    /\ \E last \in rows : /\ \A k \in rows : k[1] <= last[1]
                          /\ SetWatermarks(last[1] + 1, plan.next)
    /\ pc' = "flush2"
    /\ Quiet /\ UNCHANGED <<op, plan, rows, rerun, low>>

\* The upload IQ.  An error or a timeout does not tell whether it arrived.
Send ==
    /\ pc = "send"
    /\ sent' = sent \cup rows
    /\ resent' = resent \cup (sent \cap rows)
    /\ \/ pool' = pool \cup rows /\ pc' = "done" /\ UNCHANGED <<op, plan, rows, rerun>>
       \/ pool' \in {pool, pool \cup rows} /\ Abort
    /\ UNCHANGED <<saverVars, low, store, given, used, passes, ahead, unmarked,
                   recycled, crashes, lows>>

\* Fault: the uploaded records are written back.
DoneUpserts ==
    /\ pc = "done"
    /\ store' = [i \in Ids |-> IF \E k \in rows : k[1] = i
                               THEN (CHOOSE k \in rows : k[1] = i)[2] ELSE store[i]]
    /\ modify_device([device EXCEPT !.has = TRUE])
    /\ Finish
    /\ UNCHANGED <<rerun, low, pool, given, used, passes, history>>

\* mark_prekeys_uploaded updates the rows that still exist, and the flag is set.
Done ==
    /\ pc = "done"
    /\ modify_device([device EXCEPT !.has = TRUE])
    /\ Finish
    /\ UNCHANGED <<rerun, low, keyVars, history>>

\* A query or a write of the store fails.
BackendFails ==
    /\ pc \in {"plan", "generate", "window"}
    /\ Abort
    /\ UNCHANGED <<saverVars, low, keyVars, history>>

\* A peer's pkmsg uses a key it got from the server or in a retry receipt.
Use(k) ==
    /\ k \in pool \cup given /\ store[k[1]] = k[2]
    /\ store' = [store EXCEPT ![k[1]] = 0]
    /\ used' = used \cup {k} /\ pool' = pool \ {k} /\ given' = given \ {k}
    /\ UNCHANGED <<saverVars, passVars, passes, history>>

Crash ==
    /\ crashes < MaxCrashes
    /\ crashes' = crashes + 1
    /\ Restart
    /\ Finish
    /\ rerun' = FALSE /\ low' = FALSE
    /\ ahead' = ahead \cup {k \in sent : k[1] >= disk.first}
    /\ unmarked' = unmarked \cup {k \in pool \cup given : k[1] >= disk.next}
    /\ UNCHANGED <<keyVars, sent, resent, recycled, lows>>

----------------------------------------------------------------------------

PassStep ==
    \/ Plan \/ Generate \/ ReuseSingle \/ CollapseSingle \/ Mark \/ AwaitFlush
    \/ Window \/ Abandon \/ Send \/ Done

UploaderFlush ==
    \/ pc \in {"flush", "flush2"} /\ (TakeFlag(Uploader) \/ NotDirty(Uploader))
    \/ SaveStep(Uploader)

SaverStep ==
    /\ UploaderFlush \/ BackgroundStep \/ \E s \in Savers : SaveFails(s)
    /\ UNCHANGED <<passVars, keyVars, history>>

Next ==
    \/ \E caller \in {"login", "low", "refresh", "single"} : Begin(caller)
    \/ PrekeyLow
    \/ PassStep \/ BackendFails \/ SaverStep
    \/ \E k \in pool \cup given : Use(k)
    \/ Crash

Spec == Init /\ [][Next]_preKeyVars

----------------------------------------------------------------------------
(* Properties *)

\* "Uploading a key we can't store locally would cause decryption failures
\* when the server hands it out" and "a failure below never leads to
\* regenerating over live ids": a key the server or a peer has is stored as
\* it was handed out until it is used, through failed passes, retries and
\* crashes.  The exceptions are the accepted reuse of ids after 2^24, and a
\* crash while NEXT on disk was behind the key.
OfferedKeyIsStored ==
    \A k \in (pool \cup given) \ (used \cup recycled \cup unmarked) :
        store[k[1]] = k[2]

\* "On a mid-flight failure the server state is unknown, so the keys are
\* abandoned rather than re-offered": no key is in two upload IQs, unless a
\* crash came while FIRST on disk was behind it.
SentOnce == resent \subseteq ahead

\* A key used while the IQ was in flight "must stay deleted, not be
\* resurrected by an upsert of the stale record".
UsedStaysDeleted == \A k \in used : store[k[1]] # k[2]

\* The watermarks stay a window, on disk too, whatever order the saves land
\* in: the planner's repair of a "corrupt first > next pair" is never needed.
WatermarksOrdered == device.first <= device.next /\ disk.first <= disk.next

\* "The rerun cannot hit the empty branch again because the collapsed plan
\* generates a full batch": a pass finds its window empty only when it did
\* not generate, and not twice.
RerunFindsKeys ==
    pc = "window" /\ InWindow = {} => rerun /\ plan.gen = 0

============================================================================
