--------------------------- MODULE SessionProofs ---------------------------
(***************************************************************************)
(* Proofs about Session: one run loop at a time, a fresh device key after  *)
(* a reset, a client shown as dead only when it is, the right account when *)
(* nothing is under way, and nobody waiting for the lock for ever, for any *)
(* number of accounts, invocations, clients, events and restarts.          *)
(***************************************************************************)
EXTENDS Session, TLAPS

----------------------------------------------------------------------------
(* The inductive invariant *)

CallRecord == [for: Statuses \cup Resets \cup Works,
               at: {"idle", "clear", "sent", "join", "delete", "boot", "work", "reply"},
               gen: 0..MaxGen, jid: Accounts \cup {None}]

\* Types of the session manager and of the invocations; every client has a key.
ManagerTyped ==
    /\ gens \in 0..MaxGen /\ map \in 0..gens /\ lock \in Calls \cup {Free}
    /\ keys \in 0..(gens + 1) /\ file \in 0..keys
    /\ acct \in [1..(MaxGen + 1) -> Accounts \cup {None}]
    /\ key \in [Gens -> 0..keys] /\ \A g \in 1..gens : key[g] # 0
    /\ loop \in [Gens -> {"none", "running", "ended", "done"}]
    /\ call \in [Calls -> CallRecord]
    /\ reborn \subseteq 1..gens /\ kept \subseteq 1..keys

\* Where a reset holds the lock.
Resetting == {"join", "delete", "boot"}
ResetHolds == \A c \in Calls : call[c].at \in Resetting => lock = c

\* While a reset holds the lock no client is in the map.
MapEmptied == lock # Free => map = 0

\* A loop that runs belongs to the map, or to the reset that will abort it.
LoopOwned ==
    \A g \in Gens : loop[g] = "running" =>
        \/ g = map
        \/ \E c \in Calls : call[c].at = "join" /\ call[c].gen = g

\* A reset boots on no file, or on one that an error or a held client kept.
FileGone == \A c \in Calls : call[c].at = "boot" => file = 0 \/ file \in kept

IInv ==
    /\ ManagerTyped /\ ResetHolds /\ MapEmptied /\ LoopOwned /\ FileGone /\ KeyIsFresh

----------------------------------------------------------------------------
(* What a step may be *)

manager == <<map, lock, file, keys, gens, key, loop, reborn, kept>>

\* Invocations go on, but none into, within or out of a reset.
CallsKept ==
    \A c \in Calls : \/ call'[c] = call[c]
                     \/ call[c].at \notin Resetting /\ call'[c].at \notin Resetting

\* A step that leaves the session manager alone.
Quiet ==
    /\ UNCHANGED manager /\ CallsKept
    /\ acct' \in [1..(MaxGen + 1) -> Accounts \cup {None}]
    /\ call' \in [Calls -> CallRecord]

\* One invocation outside a reset is replaced.
LEMMA CallReplaced ==
    ASSUME ManagerTyped, NEW c \in Calls, call[c].at \notin Resetting,
           NEW r \in CallRecord, r.at \notin Resetting,
           call' = [call EXCEPT ![c] = r]
    PROVE  CallsKept /\ call' \in [Calls -> CallRecord]
<1>1. call \in [Calls -> CallRecord]
  BY Zenon DEF ManagerTyped
<1>2. call' \in [Calls -> CallRecord]
  BY <1>1, Zenon
<1>3. \A d \in Calls : call'[d] = IF d = c THEN r ELSE call[d]
  BY <1>1, Zenon
<1> QED
  BY <1>2, <1>3, Zenon DEF CallsKept

\* An unchanged table of invocations.
LEMMA CallsUnchanged ==
    ASSUME ManagerTyped, call' = call
    PROVE  CallsKept /\ call' \in [Calls -> CallRecord]
BY Zenon DEF ManagerTyped, CallsKept

\* The records that invocations are replaced by.
LEMMA NewCalls ==
    /\ IdleCall \in CallRecord /\ IdleCall.at = "idle"
    /\ \A for \in Statuses \cup Resets \cup Works :
          LET r == [IdleCall EXCEPT !.for = for, !.at = "sent"]
          IN  r \in CallRecord /\ r.at = "sent"
    /\ LET r == [IdleCall EXCEPT !.for = "resetall", !.at = "clear"]
       IN  r \in CallRecord /\ r.at = "clear"
<1>1. 0 \in 0..MaxGen /\ "launch" \in Statuses /\ "resetall" \in Resets
  BY SessionAssumption DEF Statuses, Resets
<1>2. IdleCall \in CallRecord /\ IdleCall.at = "idle"
  BY <1>1, Zenon DEF IdleCall, CallRecord
<1>3. ASSUME NEW for \in Statuses \cup Resets \cup Works,
             NEW at \in {"sent", "clear"}
      PROVE  /\ [IdleCall EXCEPT !.for = for, !.at = at] \in CallRecord
             /\ [IdleCall EXCEPT !.for = for, !.at = at].at = at
  <2>1. [IdleCall EXCEPT !.for = for] \in CallRecord
    BY <1>2, Zenon DEF CallRecord
  <2>2. ASSUME NEW r \in CallRecord
        PROVE [r EXCEPT !.at = at] \in CallRecord /\ [r EXCEPT !.at = at].at = at
    BY Zenon DEF CallRecord
  <2> QED
    BY <2>1, <2>2, Zenon
<1> QED
  BY <1>1, <1>2, <1>3, Zenon

\* invoke(...) on an idle slot, or on one that is done.
LEMMA Invoked ==
    ASSUME ManagerTyped, NEW c \in Calls, call[c].at \notin Resetting,
           NEW for \in Statuses \cup Resets \cup Works, Invoke(c, for)
    PROVE  CallsKept /\ call' \in [Calls -> CallRecord]
<1> DEFINE r == [IdleCall EXCEPT !.for = for, !.at = "sent"]
<1>1. r \in CallRecord /\ r.at \notin Resetting
  BY NewCalls, Zenon DEF Resetting
<1>2. call' = [call EXCEPT ![c] = r]
  BY Zenon DEF Invoke
<1> HIDE DEF r
<1> QED
  BY <1>1, <1>2, CallReplaced, Zenon

\* An invocation is over.
LEMMA Ended ==
    ASSUME ManagerTyped, NEW c \in Calls, call[c].at \notin Resetting,
           call' = [call EXCEPT ![c] = IdleCall]
    PROVE  CallsKept /\ call' \in [Calls -> CallRecord]
BY NewCalls, CallReplaced, Zenon DEF Resetting

\* resetAll of the frontend only clears the stores.
LEMMA ClearStarted ==
    ASSUME ManagerTyped, NEW c \in Calls, resetAll(c)
    PROVE  CallsKept /\ call' \in [Calls -> CallRecord]
<1> DEFINE r == [IdleCall EXCEPT !.for = "resetall", !.at = "clear"]
<1>1. r \in CallRecord /\ r.at \notin Resetting
  BY NewCalls, Zenon DEF Resetting
<1>2. call' = [call EXCEPT ![c] = r] /\ call[c].at \notin Resetting
  BY Zenon DEF resetAll, Idle, Resetting
<1> HIDE DEF r
<1> QED
  BY <1>1, <1>2, CallReplaced, Zenon

\* Answers and failures that change no more than their invocation.
LEMMA QuietAnswers ==
    ASSUME IInv, NEW c \in Calls,
           BootFails(c) \/ FinishWork(c) \/ Cleared(c) \/ refreshStatus(c) \/ ResetReply(c)
    PROVE  Quiet
<1>1. ManagerTyped /\ call \in [Calls -> CallRecord]
  BY Zenon DEF IInv, ManagerTyped
<1>2. UNCHANGED manager /\ acct' = acct
  BY Zenon DEF BootFails, FinishWork, Cleared, refreshStatus, ResetReply, backend, history, manager
<1>3. CASE BootFails(c)
  <2> DEFINE r == IF call[c].for \in Works THEN IdleCall ELSE [call[c] EXCEPT !.at = "reply"]
  <2>1. call[c].at \notin Resetting /\ call' = [call EXCEPT ![c] = r]
    BY <1>3, Zenon DEF BootFails, Resetting
  <2>2. [call[c] EXCEPT !.at = "reply"] \in CallRecord
        /\ [call[c] EXCEPT !.at = "reply"].at = "reply"
    BY <1>1, Zenon DEF CallRecord
  <2>3. r \in CallRecord /\ r.at \notin Resetting
    BY <2>2, NewCalls, Zenon DEF Resetting
  <2> HIDE DEF r
  <2>4. CallsKept /\ call' \in [Calls -> CallRecord]
    BY <1>1, <2>1, <2>3, CallReplaced, Zenon
  <2> QED
    BY <1>1, <1>2, <2>4, Zenon DEF Quiet, ManagerTyped
<1>4. CASE FinishWork(c) \/ refreshStatus(c)
  <2>1. call[c].at \notin Resetting /\ call' = [call EXCEPT ![c] = IdleCall]
    BY <1>4, Zenon DEF FinishWork, refreshStatus, Resetting
  <2> QED
    BY <1>1, <1>2, <2>1, Ended, Zenon DEF Quiet, ManagerTyped
<1>5. CASE Cleared(c)
  <2>1. call[c].at \notin Resetting /\ Invoke(c, "resetall")
    BY <1>5, Zenon DEF Cleared, Resetting
  <2>2. "resetall" \in Statuses \cup Resets \cup Works
    BY Zenon DEF Resets
  <2> QED
    BY <1>1, <1>2, <2>1, <2>2, Invoked, Zenon DEF Quiet, ManagerTyped
<1>6. CASE ResetReply(c)
  <2>1. /\ call[c].at \notin Resetting
        /\ Invoke(c, "again") \/ call' = [call EXCEPT ![c] = IdleCall]
    BY <1>6, Zenon DEF ResetReply, Resetting
  <2>2. "again" \in Statuses \cup Resets \cup Works
    BY Zenon DEF Statuses
  <2>3. CallsKept /\ call' \in [Calls -> CallRecord]
    BY <1>1, <2>1, <2>2, Invoked, Ended, Zenon
  <2> QED
    BY <1>1, <1>2, <2>3 DEF Quiet, ManagerTyped
<1> QED
  BY <1>3, <1>4, <1>5, <1>6, Zenon

\* The frontend calls the backend, and changes its own state.
LEMMA QuietFrontend ==
    ASSUME IInv,
           \/ startEventBridge \/ CheckStale \/ LoadSnapshot \/ LoadTails \/ Deliver
           \/ \E c \in Calls : UserAsks(c)
    PROVE  Quiet
<1>1. ManagerTyped
  BY Zenon DEF IInv
<1>2. UNCHANGED manager /\ acct' = acct
  BY Zenon DEF startEventBridge, CheckStale, LoadSnapshot, LoadTails, Deliver, UserAsks,
     backend, history, manager
<1>3. \/ call' = call
      \/ \E c \in Calls :
            \/ Idle(c) /\ \E for \in {"boot", "bootreset", "paired", "conn", "work", "logout"} :
                             Invoke(c, for)
            \/ resetAll(c)
  <2>1. CASE startEventBridge \/ CheckStale \/ LoadSnapshot \/ LoadTails
    BY <2>1, Zenon DEF startEventBridge, CheckStale, LoadSnapshot, LoadTails
  <2>2. CASE Deliver
    BY <2>2, Zenon DEF Deliver, Handle, OnPaired
  <2>3. CASE \E c \in Calls : UserAsks(c)
    BY <2>3, Zenon DEF UserAsks
  <2> QED
    BY <2>1, <2>2, <2>3, Zenon
<1>4. {"boot", "bootreset", "paired", "conn", "work", "logout"}
          \subseteq Statuses \cup Resets \cup Works
  BY Zenon DEF Statuses, Resets, Works
<1>5. \A c \in Calls : Idle(c) => call[c].at \notin Resetting
  BY Zenon DEF Idle, Resetting
<1>6. CallsKept /\ call' \in [Calls -> CallRecord]
  BY <1>1, <1>3, <1>4, <1>5, CallsUnchanged, Invoked, ClearStarted, Zenon
<1> QED
  BY <1>1, <1>2, <1>6, Zenon DEF Quiet, ManagerTyped

\* Events on their way to the webview.
LEMMA QuietEvents ==
    ASSUME IInv,
           \/ \E g \in Gens : Dispatch(g) \/ pump(g)
           \/ \E a \in Accounts : spawn_history_decode(a)
           \/ UNCHANGED sessionVars
    PROVE  Quiet
<1>1. ManagerTyped
  BY Zenon DEF IInv
<1>2. UNCHANGED manager /\ call' = call
  BY Zenon DEF Dispatch, handle_pair_success, pump, spawn_history_decode, backend, history,
     manager, sessionVars
<1>3. acct' = acct \/ \E k, b : b \in Accounts /\ acct' = [acct EXCEPT ![k] = b]
  BY Zenon DEF Dispatch, handle_pair_success, pump, spawn_history_decode, backend, sessionVars
<1>4. acct' \in [1..(MaxGen + 1) -> Accounts \cup {None}]
  BY <1>1, <1>3, Zenon DEF ManagerTyped
<1> QED
  BY <1>1, <1>2, <1>4, CallsUnchanged, Zenon DEF Quiet

\* The steps by what they do to the session manager.
LEMMA StepKinds ==
    ASSUME IInv, [Next]_sessionVars
    PROVE  \/ Quiet \/ Restart
           \/ \E g \in Gens : LoopEnds(g) \/ LetGo(g)
           \/ \E c \in Calls : \/ get_or_create(c) \/ ResetTakes(c) \/ Join(c)
                               \/ delete_db_files(c) \/ ResetBoots(c)
BY QuietAnswers, QuietFrontend, QuietEvents, Zenon DEF Next, Locks, Answers

----------------------------------------------------------------------------
(* Consequences of the invariant *)

\* A free lock means that no reset is under way.
LEMMA LockFree ==
    ASSUME IInv, lock = Free
    PROVE  \A c \in Calls : call[c].at \notin Resetting
BY SessionAssumption, Zenon DEF IInv, ResetHolds

\* A reset that holds the lock is alone, and the map is empty.
LEMMA LockMine ==
    ASSUME IInv, NEW c \in Calls, call[c].at \in Resetting
    PROVE  /\ lock = c /\ map = 0
           /\ \A d \in Calls : d # c => call[d].at \notin Resetting
BY SessionAssumption, Zenon DEF IInv, ResetHolds, MapEmptied

\* With an empty map and no loop to be aborted, no loop runs.
LEMMA NoLoop ==
    ASSUME IInv, map = 0, \A c \in Calls : call[c].at # "join"
    PROVE  \A g \in Gens : loop[g] # "running"
BY SessionAssumption DEF IInv, LoopOwned, Gens

Ats == {"idle", "clear", "sent", "join", "delete", "boot", "work", "reply"}

\* An invocation goes on to another place.
LEMMA CallMoves ==
    ASSUME call \in [Calls -> CallRecord], NEW c \in Calls, NEW x \in Ats,
           NEW y \in 0..MaxGen, NEW z \in Accounts \cup {None},
           \/ call' = [call EXCEPT ![c].at = x] /\ y = call[c].gen
           \/ call' = [call EXCEPT ![c].at = x, ![c].gen = y]
           \/ call' = [call EXCEPT ![c].at = x, ![c].gen = y, ![c].jid = z]
    PROVE  /\ call' \in [Calls -> CallRecord]
           /\ call'[c].at = x /\ call'[c].gen = y /\ call'[c].for = call[c].for
           /\ \A d \in Calls : d # c => call'[d] = call[d]
<1>1. ASSUME NEW f \in [Calls -> CallRecord]
      PROVE  /\ [f EXCEPT ![c].at = x] \in [Calls -> CallRecord]
             /\ [f EXCEPT ![c].at = x][c].at = x
             /\ [f EXCEPT ![c].at = x][c].gen = f[c].gen
             /\ [f EXCEPT ![c].at = x][c].for = f[c].for
             /\ \A d \in Calls : d # c => [f EXCEPT ![c].at = x][d] = f[d]
  BY DEF CallRecord, Ats
<1>2. ASSUME NEW f \in [Calls -> CallRecord]
      PROVE  /\ [f EXCEPT ![c].gen = y] \in [Calls -> CallRecord]
             /\ [f EXCEPT ![c].gen = y][c].at = f[c].at
             /\ [f EXCEPT ![c].gen = y][c].gen = y
             /\ [f EXCEPT ![c].gen = y][c].for = f[c].for
             /\ \A d \in Calls : d # c => [f EXCEPT ![c].gen = y][d] = f[d]
  BY DEF CallRecord
<1>3. ASSUME NEW f \in [Calls -> CallRecord]
      PROVE  /\ [f EXCEPT ![c].jid = z] \in [Calls -> CallRecord]
             /\ [f EXCEPT ![c].jid = z][c].at = f[c].at
             /\ [f EXCEPT ![c].jid = z][c].gen = f[c].gen
             /\ [f EXCEPT ![c].jid = z][c].for = f[c].for
             /\ \A d \in Calls : d # c => [f EXCEPT ![c].jid = z][d] = f[d]
  BY DEF CallRecord
<1>4. CASE call' = [call EXCEPT ![c].at = x] /\ y = call[c].gen
  BY <1>1, <1>4, Zenon
<1> DEFINE f == [call EXCEPT ![c].at = x]
           h == [f EXCEPT ![c].gen = y]
           k == [h EXCEPT ![c].jid = z]
<1>5. [call EXCEPT ![c].at = x, ![c].gen = y] = h
      /\ [call EXCEPT ![c].at = x, ![c].gen = y, ![c].jid = z] = k
  BY Zenon
<1>6. /\ f \in [Calls -> CallRecord] /\ f[c].at = x /\ f[c].for = call[c].for
      /\ \A d \in Calls : d # c => f[d] = call[d]
  BY <1>1, Zenon
<1> HIDE DEF f
<1>7. /\ h \in [Calls -> CallRecord] /\ h[c].at = f[c].at /\ h[c].gen = y /\ h[c].for = f[c].for
      /\ \A d \in Calls : d # c => h[d] = f[d]
  BY <1>2, <1>6, Zenon
<1> HIDE DEF h
<1>8. /\ k \in [Calls -> CallRecord] /\ k[c].at = h[c].at /\ k[c].gen = h[c].gen /\ k[c].for = h[c].for
      /\ \A d \in Calls : d # c => k[d] = h[d]
  BY <1>3, <1>7, Zenon
<1> HIDE DEF k
<1>9. CASE call' = h
  BY <1>6, <1>7, <1>9, Zenon
<1>10. CASE call' = k
  BY <1>6, <1>7, <1>8, <1>10, Zenon
<1> QED
  BY <1>4, <1>5, <1>9, <1>10, Zenon

\* A boot: a new client with the key of the file, or with a new one.
LEMMA Boots ==
    ASSUME ManagerTyped, boot
    PROVE  /\ gens' = gens + 1 /\ map' = gens + 1 /\ gens' \in 1..MaxGen
           /\ keys' \in keys..(keys + 1) /\ keys' \in 0..(gens' + 1)
           /\ file' \in 1..keys'
           /\ key' \in [Gens -> 0..keys'] /\ key'[gens + 1] = file'
           /\ \A g \in 1..gens : key'[g] = key[g]
           /\ file = 0 => file' = keys + 1
           /\ file # 0 => file' = file
           /\ loop' \in [Gens -> {"none", "running", "ended", "done"}]
           /\ loop'[gens + 1] = "running"
           /\ \A g \in Gens : g # gens + 1 => loop'[g] = loop[g]
           /\ acct' = acct
<1>1. /\ MaxGen \in Nat /\ gens \in 0..MaxGen /\ keys \in 0..(gens + 1) /\ file \in 0..keys
      /\ key \in [Gens -> 0..keys] /\ loop \in [Gens -> {"none", "running", "ended", "done"}]
  BY SessionAssumption, Zenon DEF ManagerTyped
<1>2. /\ gens' = gens + 1 /\ map' = gens + 1 /\ gens' \in 1..MaxGen
      /\ keys' \in keys..(keys + 1) /\ keys' \in 0..(gens' + 1)
      /\ file' \in 1..keys'
      /\ file = 0 => file' = keys + 1
      /\ file # 0 => file' = file
      /\ acct' = acct
  BY <1>1 DEF boot
<1>3. gens + 1 \in Gens /\ 1..gens \subseteq Gens /\ 0..keys \subseteq 0..keys'
  BY <1>1, <1>2 DEF Gens
<1>4. /\ key' \in [Gens -> 0..keys'] /\ key'[gens + 1] = file'
      /\ \A g \in 1..gens : key'[g] = key[g]
  <2>1. key' = [key EXCEPT ![gens + 1] = file']
    BY Zenon DEF boot
  <2>2. key \in [Gens -> 0..keys'] /\ file' \in 0..keys'
    BY <1>1, <1>2, <1>3
  <2> QED
    BY <1>1, <1>3, <2>1, <2>2
<1>5. /\ loop' \in [Gens -> {"none", "running", "ended", "done"}]
      /\ loop'[gens + 1] = "running"
      /\ \A g \in Gens : g # gens + 1 => loop'[g] = loop[g]
  BY <1>1, <1>3, Zenon DEF boot
<1> QED
  BY <1>2, <1>4, <1>5, Zenon

----------------------------------------------------------------------------
(* The invariant is kept *)

\* The session manager is left alone.
LEMMA QuietStep ==
    ASSUME IInv, Quiet
    PROVE  IInv'
<1>1. UNCHANGED <<map, lock, file, keys, gens, key, loop, reborn, kept>>
  BY Zenon DEF Quiet, manager
<1>2. ManagerTyped'
  BY <1>1, Zenon DEF IInv, Quiet, ManagerTyped
<1>3. \A c \in Calls : call'[c].at \in Resetting \/ call[c].at \in Resetting => call'[c] = call[c]
  BY Zenon DEF Quiet, CallsKept
<1>4. ResetHolds' /\ MapEmptied'
  BY <1>1, <1>3, Zenon DEF IInv, ResetHolds, MapEmptied
<1>5. LoopOwned' /\ FileGone'
  BY <1>1, <1>3 DEF IInv, LoopOwned, FileGone, Resetting
<1>6. KeyIsFresh'
  BY <1>1, Zenon DEF IInv, KeyIsFresh
<1> QED
  BY <1>2, <1>4, <1>5, <1>6, Zenon DEF IInv

\* A loop ends by itself, or the last task that holds its client.
LEMMA LoopEndsStep ==
    ASSUME IInv, NEW g \in Gens, LoopEnds(g) \/ LetGo(g)
    PROVE  IInv'
<1>1. /\ UNCHANGED <<map, lock, file, keys, acct, gens, key, call, reborn, kept>>
      /\ \E x \in {"ended", "done"} : loop' = [loop EXCEPT ![g] = x]
  BY Zenon DEF LoopEnds, LetGo, history
<1>2. /\ loop' \in [Gens -> {"none", "running", "ended", "done"}]
      /\ \A h \in Gens : loop'[h] = "running" => loop[h] = "running"
  BY <1>1, Zenon DEF IInv, ManagerTyped
<1>3. ManagerTyped'
  BY <1>1, <1>2, Zenon DEF IInv, ManagerTyped
<1>4. ResetHolds' /\ MapEmptied' /\ FileGone' /\ KeyIsFresh'
  BY <1>1, Zenon DEF IInv, ResetHolds, MapEmptied, FileGone, KeyIsFresh
<1>5. LoopOwned'
  BY <1>1, <1>2, Zenon DEF IInv, LoopOwned
<1> QED
  BY <1>3, <1>4, <1>5, Zenon DEF IInv

\* The app is killed and launched again.
LEMMA RestartStep ==
    ASSUME IInv, Restart
    PROVE  IInv'
<1>1. /\ UNCHANGED <<file, keys, acct, gens, key, reborn, kept>>
      /\ map' = 0 /\ lock' = Free
      /\ loop' = [g \in Gens |-> IF g <= gens THEN "done" ELSE "none"]
  BY Zenon DEF Restart, history
<1>2. /\ call' \in [Calls -> CallRecord]
      /\ \A d \in Calls : call'[d].at \notin Resetting
  <2>1. PICK c \in Calls : call' = [d \in Calls |->
                               IF d = c THEN [IdleCall EXCEPT !.at = "sent"] ELSE IdleCall]
    BY Zenon DEF Restart
  <2>2. [IdleCall EXCEPT !.at = "sent"] \in CallRecord /\ [IdleCall EXCEPT !.at = "sent"].at = "sent"
    BY NewCalls, Zenon DEF CallRecord
  <2> QED
    BY <2>1, <2>2, NewCalls, Zenon DEF Resetting
<1>3. \A g \in Gens : loop'[g] # "running"
  BY <1>1, Zenon
<1>4. ManagerTyped'
  BY <1>1, <1>2 DEF IInv, ManagerTyped
<1>5. ResetHolds' /\ MapEmptied' /\ FileGone' /\ LoopOwned'
  BY <1>1, <1>2, <1>3, Zenon DEF ResetHolds, MapEmptied, FileGone, LoopOwned, Resetting
<1>6. KeyIsFresh'
  BY <1>1, Zenon DEF IInv, KeyIsFresh
<1> QED
  BY <1>4, <1>5, <1>6, Zenon DEF IInv

\* A reset takes the lock, and the client out of the map.
LEMMA TakesStep ==
    ASSUME IInv, NEW c \in Calls, ResetTakes(c)
    PROVE  IInv'
<1>1. /\ UNCHANGED <<file, keys, acct, gens, key, loop, reborn, kept>>
      /\ lock = Free /\ lock' = c /\ map' = 0
      /\ call' = [call EXCEPT ![c].at = "join", ![c].gen = map]
  BY Zenon DEF ResetTakes, history
<1>2. /\ call \in [Calls -> CallRecord] /\ map \in 0..MaxGen
      /\ gens \in 0..MaxGen
  BY SessionAssumption DEF IInv, ManagerTyped
<1>3. \A d \in Calls : call[d].at \notin Resetting
  BY <1>1, LockFree, Zenon
<1>4. None \in Accounts \cup {None} /\ "join" \in Ats
  BY Zenon DEF Ats
<1>5. /\ call' \in [Calls -> CallRecord]
      /\ call'[c].at = "join" /\ call'[c].gen = map /\ call'[c].for = call[c].for
      /\ \A d \in Calls : d # c => call'[d] = call[d]
  <2>1. call' = [call EXCEPT ![c].at = "join", ![c].gen = map]
    BY <1>1, Zenon
  <2>2. call \in [Calls -> CallRecord] /\ map \in 0..MaxGen
    BY <1>2, Zenon
  <2> QED
    BY <1>4, <2>1, <2>2, CallMoves, Zenon
<1>6. ManagerTyped'
  BY <1>1, <1>2, <1>5 DEF IInv, ManagerTyped
<1>7. ResetHolds' /\ MapEmptied'
  BY <1>1, <1>3, <1>5, Zenon DEF ResetHolds, MapEmptied
<1>8. LoopOwned'
  BY <1>1, <1>3, <1>5 DEF IInv, LoopOwned, Resetting
<1>9. FileGone'
  BY <1>3, <1>5, Zenon DEF FileGone, Resetting
<1>10. KeyIsFresh'
  BY <1>1, Zenon DEF IInv, KeyIsFresh
<1> QED
  BY <1>6, <1>7, <1>8, <1>9, <1>10, Zenon DEF IInv

\* The loop is aborted and waited for.
LEMMA JoinStep ==
    ASSUME IInv, NEW c \in Calls, Join(c)
    PROVE  IInv'
<1>1. /\ UNCHANGED <<map, lock, file, keys, acct, gens, key, reborn, kept>>
      /\ call[c].at = "join" /\ call' = [call EXCEPT ![c].at = "delete"]
      /\ loop' = [g \in Gens |-> IF g = call[c].gen /\ loop[g] = "running"
                                 THEN "ended" ELSE loop[g]]
  BY Zenon DEF Join, history
<1>2. call \in [Calls -> CallRecord] /\ call[c].gen \in 0..MaxGen
  BY Zenon DEF IInv, ManagerTyped, CallRecord
<1>3. /\ lock = c /\ map = 0
      /\ \A d \in Calls : d # c => call[d].at \notin Resetting
  BY <1>1, LockMine, Zenon DEF Resetting
<1>4. None \in Accounts \cup {None} /\ "delete" \in Ats
  BY Zenon DEF Ats
<1>5. /\ call' \in [Calls -> CallRecord] /\ call'[c].at = "delete"
      /\ \A d \in Calls : d # c => call'[d] = call[d]
  BY <1>1, <1>2, <1>4, CallMoves, Zenon
<1>6. loop' \in [Gens -> {"none", "running", "ended", "done"}]
  BY <1>1, Zenon DEF IInv, ManagerTyped
<1>7. \A g \in Gens : loop'[g] # "running"
  <2>1. \A g \in Gens : loop[g] = "running" => g = call[c].gen
    BY <1>3 DEF IInv, LoopOwned, Gens, Resetting
  <2> QED
    BY <1>1, <2>1, Zenon
<1>8. ManagerTyped'
  BY <1>1, <1>5, <1>6, Zenon DEF IInv, ManagerTyped
<1>9. ResetHolds' /\ MapEmptied' /\ FileGone' /\ LoopOwned'
  BY <1>1, <1>3, <1>5, <1>7, Zenon DEF ResetHolds, MapEmptied, FileGone, LoopOwned, Resetting
<1>10. KeyIsFresh'
  BY <1>1, Zenon DEF IInv, KeyIsFresh
<1> QED
  BY <1>8, <1>9, <1>10, Zenon DEF IInv

\* The files are deleted or kept; if kept, not by a loop: none runs any more.
LEMMA DeleteStep ==
    ASSUME IInv, NEW c \in Calls, delete_db_files(c)
    PROVE  IInv'
<1>1. /\ UNCHANGED <<map, lock, keys, acct, gens, key, loop, reborn>>
      /\ call[c].at = "delete" /\ call' = [call EXCEPT ![c].at = "boot"]
  BY Zenon DEF delete_db_files
<1>2. call \in [Calls -> CallRecord] /\ call[c].gen \in 0..MaxGen
  BY DEF IInv, ManagerTyped, CallRecord
<1>3. /\ lock = c /\ map = 0
      /\ \A d \in Calls : d # c => call[d].at \notin Resetting
  BY <1>1, LockMine, Zenon DEF Resetting
<1>4. None \in Accounts \cup {None} /\ "boot" \in Ats
  BY Zenon DEF Ats
<1>5. /\ call' \in [Calls -> CallRecord] /\ call'[c].at = "boot"
      /\ \A d \in Calls : d # c => call'[d] = call[d]
  BY <1>1, <1>2, <1>4, CallMoves, Zenon
<1>6. \A g \in Gens : loop[g] # "running"
  BY <1>1, <1>3, NoLoop, Zenon DEF Resetting
<1>7. \/ file' = 0 /\ kept' = kept
      \/ file' = file /\ file # 0 /\ kept' = kept \cup {file}
  BY <1>6, Zenon DEF delete_db_files, Open
<1>8. /\ file' \in 0..keys /\ kept' \subseteq 1..keys /\ kept \subseteq kept'
      /\ file' = 0 \/ file' \in kept'
  <2>1. keys \in Nat /\ file \in 0..keys /\ kept \subseteq 1..keys
    BY SessionAssumption DEF IInv, ManagerTyped
  <2>2. CASE file' = 0 /\ kept' = kept
    BY <2>1, <2>2
  <2>3. CASE file' = file /\ file # 0 /\ kept' = kept \cup {file}
    <3>1. file \in 1..keys
      BY <2>1, <2>3
    <3> QED
      BY <2>1, <2>3, <3>1, Zenon
  <2> QED
    BY <1>7, <2>2, <2>3, Zenon
<1>9. ManagerTyped'
  BY <1>1, <1>5, <1>8, Zenon DEF IInv, ManagerTyped
<1>10. ResetHolds' /\ MapEmptied' /\ LoopOwned'
  BY <1>1, <1>3, <1>5, <1>6, Zenon DEF ResetHolds, MapEmptied, LoopOwned, Resetting
<1>11. FileGone'
  BY <1>3, <1>5, <1>8, Zenon DEF FileGone, Resetting
<1>12. KeyIsFresh'
  BY <1>1, <1>8, Zenon DEF IInv, KeyIsFresh
<1> QED
  BY <1>9, <1>10, <1>11, <1>12, Zenon DEF IInv

\* What a boot makes of the types and of the loops, when no loop runs.
LEMMA BootKeeps ==
    ASSUME IInv, boot, call' \in [Calls -> CallRecord], lock' = Free,
           \A d \in Calls : call'[d].at \notin Resetting,
           kept' = kept, reborn' \subseteq 1..gens',
           map = 0, \A g \in Gens : loop[g] # "running"
    PROVE  ManagerTyped' /\ ResetHolds' /\ MapEmptied' /\ LoopOwned' /\ FileGone'
<1>1. /\ gens' = gens + 1 /\ map' = gens + 1 /\ gens' \in 1..MaxGen
      /\ keys' \in keys..(keys + 1) /\ keys' \in 0..(gens' + 1)
      /\ file' \in 1..keys'
      /\ key' \in [Gens -> 0..keys'] /\ key'[gens + 1] = file'
      /\ \A g \in 1..gens : key'[g] = key[g]
      /\ loop' \in [Gens -> {"none", "running", "ended", "done"}]
      /\ \A g \in Gens : g # gens + 1 => loop'[g] = loop[g]
      /\ acct' = acct
  BY Boots, Zenon DEF IInv
<1>2. /\ gens \in 0..MaxGen /\ keys \in 0..(gens + 1) /\ kept \subseteq 1..keys
      /\ \A g \in 1..gens : key[g] # 0
      /\ acct \in [1..(MaxGen + 1) -> Accounts \cup {None}]
  BY Zenon DEF IInv, ManagerTyped
<1>3. \A g \in 1..gens' : key'[g] # 0
  <2>1. ASSUME NEW g \in 1..gens' PROVE g = gens + 1 \/ g \in 1..gens
    BY <1>1, <1>2, SessionAssumption
  <2>2. file' # 0
    BY <1>1, <1>2, SessionAssumption
  <2> QED
    BY <1>1, <1>2, <2>1, <2>2, Zenon
<1>4. /\ gens' \in 0..MaxGen /\ map' \in 0..gens' /\ lock' \in Calls \cup {Free}
      /\ file' \in 0..keys' /\ kept' \subseteq 1..keys'
  BY <1>1, <1>2, SessionAssumption
<1>5. ManagerTyped'
  BY <1>1, <1>2, <1>3, <1>4, Zenon DEF ManagerTyped
<1>6. ResetHolds' /\ MapEmptied' /\ FileGone'
  BY Zenon DEF ResetHolds, MapEmptied, FileGone, Resetting
<1>7. LoopOwned'
  BY <1>1, Zenon DEF LoopOwned
<1> QED
  BY <1>5, <1>6, <1>7, Zenon

\* A command or auth_status gets the client of the map, or boots one.
LEMMA GetStep ==
    ASSUME IInv, NEW c \in Calls, get_or_create(c)
    PROVE  IInv'
<1> DEFINE x == IF call[c].for \in Works THEN "work" ELSE "reply"
           z == acct[key'[map']]
<1>1. /\ lock = Free /\ lock' = lock /\ reborn' = reborn /\ kept' = kept
      /\ call' = [call EXCEPT ![c].at = x, ![c].gen = map', ![c].jid = z]
      /\ \/ map # 0 /\ UNCHANGED <<map, file, keys, acct, gens, key, loop>>
         \/ map = 0 /\ boot
  BY Zenon DEF get_or_create, backend, history
<1>2. /\ call \in [Calls -> CallRecord] /\ gens \in 0..MaxGen /\ MaxGen \in Nat
      /\ map \in 0..gens /\ keys \in 0..(gens + 1)
      /\ acct \in [1..(MaxGen + 1) -> Accounts \cup {None}]
      /\ key \in [Gens -> 0..keys] /\ \A g \in 1..gens : key[g] # 0
      /\ reborn \subseteq 1..gens /\ ManagerTyped
  BY SessionAssumption, Zenon DEF IInv, ManagerTyped
<1>3. \A d \in Calls : call[d].at \notin Resetting
  BY <1>1, LockFree, Zenon
<1>4. x \in Ats /\ x \notin Resetting
  BY Zenon DEF Ats, Resetting
<1>5. map' \in 0..MaxGen /\ z \in Accounts \cup {None}
  <2>1. CASE map # 0 /\ UNCHANGED <<map, file, keys, acct, gens, key, loop>>
    <3>1. map \in 1..gens /\ map \in Gens
      BY <1>2, <2>1 DEF Gens
    <3>2. key[map] \in 0..keys /\ key[map] # 0
      BY <1>2, <3>1, Zenon
    <3>3. key[map] \in 1..(MaxGen + 1)
      BY <1>2, <3>2
    <3>4. key'[map'] = key[map] /\ map' = map
      BY <2>1, Zenon
    <3>5. z \in Accounts \cup {None}
      BY <1>2, <3>3, <3>4, Zenon
    <3> QED
      BY <1>2, <3>4, <3>5
  <2>2. CASE map = 0 /\ boot
    <3>1. /\ map' = gens + 1 /\ gens' = gens + 1 /\ gens' \in 1..MaxGen
          /\ key'[gens + 1] = file'
          /\ keys' \in 0..(gens' + 1) /\ file' \in 1..keys'
      BY <1>2, <2>2, Boots, Zenon
    <3>2. key'[map'] = file' /\ file' \in 1..(MaxGen + 1) /\ map' \in 0..MaxGen
      BY <1>2, <3>1
    <3> QED
      BY <1>2, <3>2, Zenon
  <2> QED
    BY <1>1, <2>1, <2>2, Zenon
<1> HIDE DEF x, z
<1>6. /\ call' \in [Calls -> CallRecord] /\ call'[c].at = x
      /\ \A d \in Calls : d # c => call'[d] = call[d]
  BY <1>1, <1>2, <1>4, <1>5, CallMoves, Zenon
<1>7. \A d \in Calls : call'[d].at \notin Resetting
  BY <1>3, <1>4, <1>6, Zenon
<1>8. CASE map # 0 /\ UNCHANGED <<map, file, keys, acct, gens, key, loop>>
  <2>1. ManagerTyped'
    BY <1>1, <1>2, <1>6, <1>8, Zenon DEF ManagerTyped
  <2>2. ResetHolds' /\ MapEmptied' /\ FileGone'
    BY <1>1, <1>7, Zenon DEF ResetHolds, MapEmptied, FileGone, Resetting
  <2>3. LoopOwned'
    BY <1>3, <1>8, Zenon DEF IInv, LoopOwned, Resetting
  <2>4. KeyIsFresh'
    BY <1>1, <1>8, Zenon DEF IInv, KeyIsFresh
  <2> QED
    BY <2>1, <2>2, <2>3, <2>4, Zenon DEF IInv
<1>9. CASE map = 0 /\ boot
  <2>1. \A g \in Gens : loop[g] # "running"
    BY <1>3, <1>9, NoLoop, Zenon DEF Resetting
  <2>2. gens' = gens + 1 /\ \A g \in 1..gens : key'[g] = key[g]
    BY <1>2, <1>9, Boots, Zenon
  <2>3. reborn' \subseteq 1..gens'
    BY <1>1, <1>2, <2>2
  <2>4. ManagerTyped' /\ ResetHolds' /\ MapEmptied' /\ LoopOwned' /\ FileGone'
    BY <1>1, <1>6, <1>7, <1>9, <2>1, <2>3, BootKeeps, Zenon
  <2>5. KeyIsFresh'
    BY <1>1, <1>2, <2>2 DEF IInv, KeyIsFresh
  <2> QED
    BY <2>4, <2>5, Zenon DEF IInv
<1> QED
  BY <1>1, <1>8, <1>9, Zenon

\* The reset boots a client on no file, or gives up; the lock is released.
LEMMA ResetBootsStep ==
    ASSUME IInv, NEW c \in Calls, ResetBoots(c)
    PROVE  IInv'
<1>1. /\ call[c].at = "boot" /\ kept' = kept
      /\ call' = [call EXCEPT ![c].at = "reply", ![c].gen = 0]
      /\ lock' = IF lock = c THEN Free ELSE lock
      /\ \/ boot /\ reborn' = reborn \cup {gens + 1}
         \/ UNCHANGED <<map, file, keys, acct, gens, key, loop, reborn>>
  BY Zenon DEF ResetBoots
<1>2. /\ call \in [Calls -> CallRecord] /\ gens \in 0..MaxGen /\ MaxGen \in Nat
      /\ keys \in 0..(gens + 1) /\ file \in 0..keys /\ kept \subseteq 1..keys
      /\ key \in [Gens -> 0..keys]
      /\ reborn \subseteq 1..gens /\ ManagerTyped
  BY SessionAssumption, Zenon DEF IInv, ManagerTyped
<1>3. /\ lock' = Free /\ map = 0
      /\ \A d \in Calls : d # c => call[d].at \notin Resetting
  BY <1>1, LockMine, Zenon DEF Resetting
<1>4. 0 \in 0..MaxGen /\ None \in Accounts \cup {None} /\ "reply" \in Ats
  BY <1>2 DEF Ats
<1>5. /\ call' \in [Calls -> CallRecord] /\ call'[c].at = "reply"
      /\ \A d \in Calls : d # c => call'[d] = call[d]
  BY <1>1, <1>2, <1>4, CallMoves, Zenon
<1>6. \A d \in Calls : call'[d].at \notin Resetting
  BY <1>3, <1>5, Zenon DEF Resetting
<1>7. \A g \in Gens : loop[g] # "running"
  BY <1>1, <1>3, NoLoop, Zenon DEF Resetting
<1>8. CASE UNCHANGED <<map, file, keys, acct, gens, key, loop, reborn>>
  <2>1. ManagerTyped'
    BY <1>1, <1>2, <1>3, <1>5, <1>8, Zenon DEF ManagerTyped
  <2>2. ResetHolds' /\ MapEmptied' /\ FileGone' /\ LoopOwned'
    BY <1>3, <1>6, <1>7, <1>8, Zenon DEF ResetHolds, MapEmptied, FileGone, LoopOwned, Resetting
  <2>3. KeyIsFresh'
    BY <1>1, <1>8, Zenon DEF IInv, KeyIsFresh
  <2> QED
    BY <2>1, <2>2, <2>3 DEF IInv
<1>9. CASE boot /\ reborn' = reborn \cup {gens + 1}
  <2>1. /\ gens' = gens + 1 /\ \A g \in 1..gens : key'[g] = key[g]
        /\ key'[gens + 1] = file'
        /\ file = 0 => file' = keys + 1
        /\ file # 0 => file' = file
    BY <1>2, <1>9, Boots, Zenon
  <2>2. reborn' \subseteq 1..gens'
    BY <1>2, <1>9, <2>1
  <2>3. ManagerTyped' /\ ResetHolds' /\ MapEmptied' /\ LoopOwned' /\ FileGone'
    BY <1>1, <1>3, <1>5, <1>6, <1>7, <1>9, <2>2, BootKeeps, Zenon
  <2>4. ASSUME NEW g \in reborn
        PROVE  key'[g] \in kept \/ \A h \in 1..(g - 1) : key'[h] # key'[g]
    <3>1. g \in 1..gens /\ 1..(g - 1) \subseteq 1..gens
      BY <1>2
    <3> QED
      BY <2>1, <3>1, Zenon DEF IInv, KeyIsFresh
  <2>5. key'[gens + 1] \in kept \/ \A h \in 1..gens : key'[h] # key'[gens + 1]
    <3>1. CASE file \in kept
      BY <1>2, <2>1, <3>1
    <3>2. CASE file = 0
      <4>1. \A h \in 1..gens : key[h] \in 0..keys
        BY <1>2 DEF Gens
      <4> QED
        BY <1>2, <2>1, <3>2, <4>1
    <3> QED
      BY <1>1, <3>1, <3>2, Zenon DEF IInv, FileGone
  <2>6. KeyIsFresh'
    <3>1. (gens + 1) - 1 = gens
      BY <1>2
    <3> QED
      BY <1>1, <1>9, <2>4, <2>5, <3>1, Zenon DEF KeyIsFresh
  <2> QED
    BY <2>3, <2>6 DEF IInv
<1> QED
  BY <1>1, <1>8, <1>9, Zenon

\* The state of a launched app.
LEMMA InitIInv ==
    ASSUME Init PROVE IInv
<1>1. /\ map = 0 /\ lock = Free /\ keys = file /\ gens = 0 /\ reborn = {} /\ kept = {}
      /\ key = [g \in Gens |-> 0] /\ loop = [g \in Gens |-> "none"]
      /\ file \in {0, 1}
  BY Zenon DEF Init
<1>2. acct \in [1..(MaxGen + 1) -> Accounts \cup {None}]
  BY Zenon DEF Init
<1>3. call \in [Calls -> CallRecord] /\ \A d \in Calls : call[d].at \notin Resetting
  <2>1. PICK c \in Calls : call = [d \in Calls |->
                               IF d = c THEN [IdleCall EXCEPT !.at = "sent"] ELSE IdleCall]
    BY Zenon DEF Init
  <2>2. [IdleCall EXCEPT !.at = "sent"] \in CallRecord /\ [IdleCall EXCEPT !.at = "sent"].at = "sent"
    BY NewCalls, Zenon DEF CallRecord
  <2> QED
    BY <2>1, <2>2, NewCalls, Zenon DEF Resetting
<1>4. ManagerTyped
  BY <1>1, <1>2, <1>3, SessionAssumption DEF ManagerTyped
<1>5. ResetHolds /\ MapEmptied /\ LoopOwned /\ FileGone /\ KeyIsFresh
  BY <1>1, <1>3, Zenon DEF ResetHolds, MapEmptied, LoopOwned, FileGone, KeyIsFresh, Resetting
<1> QED
  BY <1>4, <1>5, Zenon DEF IInv

----------------------------------------------------------------------------
(* Theorems *)

\* The invariant of the session manager: a reset holds the lock with the map
\* empty until its client is booted (SessionManager::reset), and a running loop
\* belongs to the map or to the reset that aborts it.
THEOREM SessionInvariant == Spec => []IInv
<1>1. IInv /\ [Next]_sessionVars => IInv'
  BY StepKinds, QuietStep, LoopEndsStep, RestartStep, TakesStep, JoinStep, DeleteStep,
     GetStep, ResetBootsStep, Zenon
<1> QED
  BY InitIInv, <1>1, PTL DEF Spec

\* Two run loops never run at once: get_or_create and reset boot a client only
\* when the last one's loop has ended, however the invocations interleave.
THEOREM OneLoopTheorem == Spec => []OneLoop
<1>1. IInv => OneLoop
  <2> SUFFICES ASSUME IInv, NEW g \in Gens, NEW h \in Gens,
                      loop[g] = "running", loop[h] = "running"
               PROVE  g = h
    BY Zenon DEF OneLoop
  <2>1. CASE \E c \in Calls : call[c].at = "join"
    <3>1. PICK c \in Calls : call[c].at = "join"
      BY <2>1, Zenon
    <3>2. map = 0 /\ \A d \in Calls : d # c => call[d].at # "join"
      BY <3>1, LockMine, Zenon DEF Resetting
    <3> QED
      BY <3>2 DEF IInv, LoopOwned, Gens
  <2>2. CASE \A c \in Calls : call[c].at # "join"
    BY <2>2, Zenon DEF IInv, LoopOwned
  <2> QED
    BY <2>1, <2>2, Zenon
<1> QED
  BY SessionInvariant, <1>1, PTL

\* The client that reset_session boots has a device key no earlier client had,
\* unless delete_db_files gave up on the old file: because of an error, or on
\* Windows because a command or a detached task held the old client.  The loop
\* that reset aborts and awaits, and commands that boot, are never the reason.
THEOREM KeyTheorem == Spec => []KeyIsFresh
<1>1. IInv => KeyIsFresh
  BY Zenon DEF IInv
<1> QED
  BY SessionInvariant, <1>1, PTL

----------------------------------------------------------------------------
(* The last client, and what the frontend is told *)

Events == [topic: Topics, gen: Gens, from: Accounts \cup {None}]

\* Types of the events on their way and of what the frontend shows.
EventsTyped ==
    /\ chan \in [Gens -> Seq(Events)] /\ wire \in Seq(Events)
    /\ ui \in [jid: Accounts \cup {None}, dead: BOOLEAN, qr: 0..MaxGen]

\* The client in the map, and the one whose loop runs, is the last that was
\* booted and has the key of the file; a key that does not exist is not paired.
LastClient ==
    /\ map # 0 => map = gens /\ key[map] = file
    /\ \A g \in Gens : loop[g] = "running" => g = gens /\ key[g] = file
    /\ \A g \in Gens : g > gens => loop[g] = "none"
    /\ \A k \in 1..(MaxGen + 1) : k > keys => acct[k] = None

\* A client sends no report of its death itself, and no code before it is booted.
ChanQr ==
    \A g \in Gens : \A i \in 1..Len(chan[g]) :
          chan[g][i].topic # "dead" /\ (chan[g][i].topic = "qr" => chan[g][i].gen <= gens)

Over == {"ended", "done"}

\* A client is reported dead after its loop has ended, and no code of a later
\* client comes before the report.
WireDead ==
    \A i \in 1..Len(wire) :
          /\ wire[i].topic = "dead" => loop[wire[i].gen] \in Over /\ ui.qr <= wire[i].gen
          /\ wire[i].topic = "qr" =>
                /\ wire[i].gen <= gens
                /\ \A j \in 1..Len(wire) : i < j /\ wire[j].topic = "dead"
                                               => wire[i].gen <= wire[j].gen

\* A dead client is the one whose code was shown last, if it is the last.
UiDead ==
    /\ ui.qr <= gens
    /\ ui.dead /\ ui.qr = gens /\ gens # 0 => loop[gens] # "running"

DeadInv == ChanQr /\ WireDead /\ UiDead

\* The account of the device key in the file.
Account == IF file = 0 THEN None ELSE acct[file]

\* resetAll has cleared the account, and the key is still to be deleted.
Wiping(c) == call[c].for = "resetall" /\ call[c].at \in {"clear", "sent", "join", "delete"}

\* Invocations whose answer will update the account, or after which one will.
Refreshing(c) ==
    \/ call[c].for = "bootreset" /\ call[c].at \in {"sent", "join", "delete", "boot", "reply"}
    \/ call[c].for \in {"boot", "again", "paired", "conn"} /\ call[c].at \in {"sent", "reply"}

\* A pairing the frontend has not heard of yet.
PairedInChan == \E g \in Gens : \E i \in 1..Len(chan[g]) : chan[g][i].topic = "paired"
PairedOnWire == \E i \in 1..Len(wire) : wire[i].topic = "paired"

\* Only a reset takes a client down, and only resetAll waits for clearAll.
Named(c) == /\ call[c].at \in Resetting => call[c].for \in Resets
            /\ call[c].at = "clear" => call[c].for = "resetall"

\* The account shown is that of the file, or will be corrected.
Corrected ==
    \/ outdated \/ file \in kept \/ front = "off" \/ ui.jid = Account
    \/ PairedInChan \/ PairedOnWire
    \/ \E c \in Calls : Wiping(c) \/ Refreshing(c)

StatusInv ==
    /\ \A c \in Calls : Named(c) /\ (Wiping(c) => outdated \/ ui.jid = None)
    /\ Corrected

\* The head and the tail of a sequence, and what appending does.
LEMMA SeqFacts ==
    ASSUME NEW S, NEW s \in Seq(S)
    PROVE  /\ Len(s) \in Nat
           /\ s # <<>> => /\ Len(s) >= 1 /\ Head(s) = s[1] /\ s[1] \in S
                          /\ Tail(s) \in Seq(S) /\ Len(Tail(s)) = Len(s) - 1
                          /\ \A i \in 1..(Len(s) - 1) : Tail(s)[i] = s[i + 1]
           /\ \A i \in 1..Len(s) : s[i] \in S
OBVIOUS

LEMMA AppendFacts ==
    ASSUME NEW S, NEW s \in Seq(S), NEW e \in S, NEW t, t = Append(s, e)
    PROVE  /\ t \in Seq(S) /\ Len(s) \in Nat /\ Len(t) = Len(s) + 1 /\ t[Len(s) + 1] = e
           /\ \A i \in 1..Len(s) : t[i] = s[i]
OBVIOUS

\* The other invocations are as they were.
Only(c) == \A d \in Calls : d # c => call'[d] = call[d]

\* What the session manager makes of the invocation it works for.
LEMMA ManagerCalls ==
    ASSUME IInv, NEW c \in Calls
    PROVE  /\ get_or_create(c) => /\ Only(c) /\ call'[c].for = call[c].for
                                  /\ call'[c].at = IF call[c].for \in Works THEN "work" ELSE "reply"
           /\ ResetTakes(c) => Only(c) /\ call'[c].for = call[c].for /\ call'[c].at = "join"
           /\ Join(c) => Only(c) /\ call'[c].for = call[c].for /\ call'[c].at = "delete"
           /\ delete_db_files(c) => Only(c) /\ call'[c].for = call[c].for /\ call'[c].at = "boot"
           /\ ResetBoots(c) => Only(c) /\ call'[c].for = call[c].for /\ call'[c].at = "reply"
<1>1. call \in [Calls -> CallRecord]
  BY Zenon DEF IInv, ManagerTyped
<1>2. ASSUME NEW x, NEW y, NEW z,
             \/ call' = [call EXCEPT ![c].at = x]
             \/ call' = [call EXCEPT ![c].at = x, ![c].gen = y]
             \/ call' = [call EXCEPT ![c].at = x, ![c].gen = y, ![c].jid = z]
      PROVE  Only(c) /\ call'[c].for = call[c].for /\ call'[c].at = x
  BY <1>1, <1>2 DEF CallRecord, Only
<1>3. ASSUME get_or_create(c)
      PROVE  /\ Only(c) /\ call'[c].for = call[c].for
             /\ call'[c].at = IF call[c].for \in Works THEN "work" ELSE "reply"
  BY <1>2, <1>3, Zenon DEF get_or_create
<1>4. ASSUME ResetTakes(c)
      PROVE  Only(c) /\ call'[c].for = call[c].for /\ call'[c].at = "join"
  BY <1>2, <1>4, Zenon DEF ResetTakes
<1>5. ASSUME Join(c)
      PROVE  Only(c) /\ call'[c].for = call[c].for /\ call'[c].at = "delete"
  BY <1>2, <1>5, Zenon DEF Join
<1>6. ASSUME delete_db_files(c)
      PROVE  Only(c) /\ call'[c].for = call[c].for /\ call'[c].at = "boot"
  BY <1>2, <1>6, Zenon DEF delete_db_files
<1>7. ASSUME ResetBoots(c)
      PROVE  Only(c) /\ call'[c].for = call[c].for /\ call'[c].at = "reply"
  BY <1>2, <1>7, Zenon DEF ResetBoots
<1> QED
  BY <1>3, <1>4, <1>5, <1>6, <1>7, Zenon

\* What invoking, answering and clearing make of an invocation.
LEMMA FrontendCalls ==
    ASSUME IInv, NEW c \in Calls
    PROVE  /\ \A for : Invoke(c, for) => Only(c) /\ call'[c].for = for /\ call'[c].at = "sent"
           /\ call' = [call EXCEPT ![c] = IdleCall]
                 => Only(c) /\ call'[c].for = "launch" /\ call'[c].at = "idle"
           /\ resetAll(c) => Only(c) /\ call'[c].for = "resetall" /\ call'[c].at = "clear"
           /\ BootFails(c) => /\ Only(c)
                              /\ \/ call[c].for \in Works /\ call'[c].for = "launch" /\ call'[c].at = "idle"
                                 \/ call'[c].for = call[c].for /\ call'[c].at = "reply"
<1>1. call \in [Calls -> CallRecord]
  BY Zenon DEF IInv, ManagerTyped
<1>2. ASSUME NEW r, call' = [call EXCEPT ![c] = r]
      PROVE  Only(c) /\ call'[c] = r
  BY <1>1, <1>2, Zenon DEF Only
<1>3. IdleCall.for = "launch" /\ IdleCall.at = "idle"
  BY DEF IdleCall
<1>4. ASSUME NEW for, NEW at
      PROVE  /\ [IdleCall EXCEPT !.for = for, !.at = at].for = for
             /\ [IdleCall EXCEPT !.for = for, !.at = at].at = at
  BY DEF IdleCall
<1>5. /\ [call[c] EXCEPT !.at = "reply"].for = call[c].for
      /\ [call[c] EXCEPT !.at = "reply"].at = "reply"
  BY <1>1 DEF CallRecord
<1>6. ASSUME NEW for, Invoke(c, for)
      PROVE  Only(c) /\ call'[c].for = for /\ call'[c].at = "sent"
  <2> DEFINE r == [IdleCall EXCEPT !.for = for, !.at = "sent"]
  <2>1. call' = [call EXCEPT ![c] = r]
    BY <1>6, Zenon DEF Invoke
  <2>2. r.for = for /\ r.at = "sent"
    BY <1>4, Zenon
  <2> HIDE DEF r
  <2> QED
    BY <1>2, <2>1, <2>2, Zenon
<1>7. ASSUME resetAll(c)
      PROVE  Only(c) /\ call'[c].for = "resetall" /\ call'[c].at = "clear"
  <2> DEFINE r == [IdleCall EXCEPT !.for = "resetall", !.at = "clear"]
  <2>1. call' = [call EXCEPT ![c] = r]
    BY <1>7, Zenon DEF resetAll
  <2>2. r.for = "resetall" /\ r.at = "clear"
    BY <1>4, Zenon
  <2> HIDE DEF r
  <2> QED
    BY <1>2, <2>1, <2>2, Zenon
<1>8. ASSUME BootFails(c)
      PROVE  /\ Only(c)
             /\ \/ call[c].for \in Works /\ call'[c].for = "launch" /\ call'[c].at = "idle"
                \/ call'[c].for = call[c].for /\ call'[c].at = "reply"
  BY <1>2, <1>3, <1>5, <1>8, Zenon DEF BootFails
<1> QED
  BY <1>2, <1>3, <1>6, <1>7, <1>8, Zenon

\* The account of a device key changes only by a pairing of a client that has it.
LEMMA AcctChanges ==
    ASSUME IInv, [Next]_sessionVars
    PROVE  acct' = acct \/ \E g \in Gens : Dispatch(g)
<1>1. \A c \in Calls : boot \/ get_or_create(c) \/ ResetBoots(c) => acct' = acct
  BY Zenon DEF boot, get_or_create, ResetBoots, backend
<1>2. \A c \in Calls : Locks(c) \/ Answers(c) \/ UserAsks(c) => acct' = acct
  BY <1>1, Zenon DEF Locks, Answers, BootFails, ResetTakes, Join, delete_db_files, FinishWork, Cleared,
     refreshStatus, ResetReply, UserAsks, backend
<1>3. \/ \E g \in Gens : LoopEnds(g) \/ LetGo(g) \/ pump(g)
      \/ \E a \in Accounts : spawn_history_decode(a)
      \/ startEventBridge \/ CheckStale \/ LoadSnapshot \/ LoadTails \/ Deliver
      \/ Restart \/ UNCHANGED sessionVars
      => acct' = acct
  BY Zenon DEF LoopEnds, LetGo, pump, spawn_history_decode, startEventBridge, CheckStale, LoadSnapshot,
     LoadTails, Deliver, Restart, backend, sessionVars
<1> QED
  BY <1>2, <1>3, Zenon DEF Next

\* A client that was booted has a key that exists.
LEMMA HasKey ==
    ASSUME IInv, LastClient, NEW g \in Gens, loop[g] # "none"
    PROVE  g <= gens /\ key[g] \in 1..keys /\ key[g] \in 1..(MaxGen + 1)
<1>1. ~(g > gens)
  BY Zenon DEF LastClient
<1>2. g \in 1..gens
  BY <1>1, SessionAssumption DEF Gens, IInv, ManagerTyped
<1>3. key[g] # 0 /\ key[g] \in 0..keys
  BY <1>2, Zenon DEF IInv, ManagerTyped
<1> QED
  BY <1>2, <1>3, SessionAssumption DEF IInv, ManagerTyped

\* LastClient is kept.
LEMMA LastStep ==
    ASSUME IInv, IInv', LastClient, [Next]_sessionVars
    PROVE  LastClient'
<1>0. /\ gens \in 0..MaxGen /\ keys \in 0..(gens + 1) /\ MaxGen \in Nat /\ file \in 0..keys
      /\ acct \in [1..(MaxGen + 1) -> Accounts \cup {None}] /\ ManagerTyped
      /\ loop \in [Gens -> {"none", "running", "ended", "done"}]
  BY SessionAssumption, Zenon DEF IInv, ManagerTyped
<1>1. ASSUME boot /\ map = 0 /\ \A g \in Gens : loop[g] # "running"
      PROVE  LastClient'
  <2>1. /\ gens' = gens + 1 /\ map' = gens + 1
        /\ keys' \in keys..(keys + 1) /\ key'[gens + 1] = file'
        /\ \A g \in Gens : g # gens + 1 => loop'[g] = loop[g]
        /\ acct' = acct
    BY <1>0, <1>1, Boots, Zenon
  <2>2. \A g \in Gens : loop'[g] = "running" => g = gens' /\ key'[g] = file'
    BY <1>1, <2>1, Zenon
  <2>3. \A g \in Gens : g > gens' => loop'[g] = "none"
    BY <1>0, <2>1 DEF LastClient, Gens
  <2>4. \A k \in 1..(MaxGen + 1) : k > keys' => acct'[k] = None
    BY <1>0, <2>1 DEF LastClient
  <2> QED
    BY <1>0, <2>1, <2>2, <2>3, <2>4, Zenon DEF LastClient
<1>2. ASSUME NEW c \in Calls, get_or_create(c) \/ ResetBoots(c)
      PROVE  \/ boot /\ map = 0 /\ \A g \in Gens : loop[g] # "running"
             \/ UNCHANGED <<map, file, keys, acct, gens, key, loop>>
  <2>1. CASE get_or_create(c)
    <3>1. lock = Free /\ ((map = 0 /\ boot) \/ UNCHANGED <<map, file, keys, acct, gens, key, loop>>)
      BY <2>1, Zenon DEF get_or_create, backend
    <3>2. \A d \in Calls : call[d].at # "join"
      BY <3>1, LockFree, Zenon DEF Resetting
    <3> QED
      BY <3>1, <3>2, NoLoop, Zenon
  <2>2. CASE ResetBoots(c)
    <3>1. call[c].at = "boot" /\ (boot \/ UNCHANGED <<map, file, keys, acct, gens, key, loop>>)
      BY <2>2, Zenon DEF ResetBoots
    <3>2. map = 0 /\ \A d \in Calls : call[d].at # "join"
      BY <3>1, LockMine, Zenon DEF Resetting
    <3> QED
      BY <3>1, <3>2, NoLoop, Zenon
  <2> QED
    BY <1>2, <2>1, <2>2, Zenon
<1>3. ASSUME NEW c \in Calls, delete_db_files(c)
      PROVE  LastClient'
  <2>1. /\ UNCHANGED <<map, keys, acct, gens, key, loop>> /\ call[c].at = "delete"
    BY <1>3, Zenon DEF delete_db_files
  <2>2. map = 0 /\ \A d \in Calls : call[d].at # "join"
    BY <2>1, LockMine, Zenon DEF Resetting
  <2>3. \A g \in Gens : loop[g] # "running"
    BY <2>2, NoLoop, Zenon
  <2> QED
    BY <1>0, <2>1, <2>2, <2>3, Zenon DEF LastClient
<1>4. ASSUME map' \in {0, map}, UNCHANGED <<file, keys, gens, key>>,
             \A g \in Gens : /\ loop'[g] = "running" => loop[g] = "running"
                             /\ g > gens => loop'[g] = "none",
             acct' = acct \/ \E g \in Gens : Dispatch(g)
      PROVE  LastClient'
  <2>1. ASSUME NEW k \in 1..(MaxGen + 1), k > keys PROVE acct'[k] = None
    <3>1. acct[k] = None
      BY <2>1, Zenon DEF LastClient
    <3>2. ASSUME NEW g \in Gens, Dispatch(g) PROVE acct'[k] = acct[k]
      <4>1. key[g] \in 1..keys
        BY <3>2, HasKey, Zenon DEF Dispatch, handle_pair_success
      <4>2. k # key[g]
        BY <1>0, <2>1, <4>1
      <4> QED
        BY <1>0, <3>2, <4>2, Zenon DEF Dispatch, handle_pair_success
    <3> QED
      BY <1>4, <3>1, <3>2, Zenon
  <2> QED
    BY <1>0, <1>4, <2>1, Zenon DEF LastClient
<1>5. acct' = acct \/ \E g \in Gens : Dispatch(g)
  BY AcctChanges, Zenon
<1>6. CASE Quiet
  BY <1>4, <1>5, <1>6, Zenon DEF Quiet, manager, LastClient
<1>7. CASE Restart
  <2>1. /\ map' = 0 /\ UNCHANGED <<file, keys, gens, key>>
        /\ loop' = [g \in Gens |-> IF g <= gens THEN "done" ELSE "none"]
    BY <1>7, Zenon DEF Restart
  <2>2. \A g \in Gens : loop'[g] # "running" /\ (g > gens => loop'[g] = "none")
    BY <1>0, <2>1 DEF Gens
  <2> QED
    BY <1>4, <1>5, <2>1, <2>2, Zenon
<1>8. ASSUME NEW g \in Gens, LoopEnds(g) \/ LetGo(g) PROVE LastClient'
  <2>1. UNCHANGED <<map, file, keys, gens, key>> /\ loop[g] # "none"
        /\ \E x \in Over : loop' = [loop EXCEPT ![g] = x]
    BY <1>8, Zenon DEF LoopEnds, LetGo, Over
  <2>2. \A h \in Gens : loop'[h] = loop[h] \/ (h = g /\ loop'[h] # "running")
    BY <1>0, <2>1, Zenon DEF Over
  <2>3. ~(g > gens)
    BY <2>1, Zenon DEF LastClient
  <2> QED
    BY <1>4, <1>5, <2>1, <2>2, <2>3, Zenon DEF LastClient
<1>9. ASSUME NEW c \in Calls, ResetTakes(c) \/ Join(c) PROVE LastClient'
  <2>1. map' \in {0, map} /\ UNCHANGED <<file, keys, gens, key>>
    BY <1>9, Zenon DEF ResetTakes, Join
  <2>2. CASE ResetTakes(c)
    BY <1>4, <1>5, <2>1, <2>2, Zenon DEF ResetTakes, LastClient
  <2>3. CASE Join(c)
    <3>1. loop' = [g \in Gens |-> IF g = call[c].gen /\ loop[g] = "running"
                                  THEN "ended" ELSE loop[g]]
      BY <2>3, Zenon DEF Join
    <3>2. \A g \in Gens : loop'[g] = "running" => loop[g] = "running"
      BY <3>1, Zenon
    <3>3. ASSUME NEW g \in Gens, g > gens PROVE loop'[g] = "none"
      <4>1. loop[g] = "none"
        BY <3>3, Zenon DEF LastClient
      <4> QED
        BY <3>1, <4>1, Zenon
    <3> QED
      BY <1>4, <1>5, <2>1, <3>2, <3>3, Zenon
  <2> QED
    BY <1>9, <2>2, <2>3, Zenon
<1>10. ASSUME UNCHANGED <<map, file, keys, acct, gens, key, loop>> PROVE LastClient'
  BY <1>0, <1>10, ZenonT(40) DEF LastClient
<1> QED
  BY <1>1, <1>2, <1>3, <1>6, <1>7, <1>8, <1>9, <1>10, StepKinds, Zenon

\* What the handlers make of the session store.
LEMMA UiFacts ==
    ASSUME EventsTyped
    PROVE  /\ \A j \in Accounts \cup {None} :
                 LET v == [ui EXCEPT !.jid = j]
                 IN  /\ v \in [jid: Accounts \cup {None}, dead: BOOLEAN, qr: 0..MaxGen]
                     /\ v.jid = j /\ v.dead = ui.dead /\ v.qr = ui.qr
           /\ LET v == [ui EXCEPT !.jid = None, !.dead = FALSE]
              IN  /\ v \in [jid: Accounts \cup {None}, dead: BOOLEAN, qr: 0..MaxGen]
                  /\ v.jid = None /\ v.dead = FALSE /\ v.qr = ui.qr
           /\ \A g \in Gens :
                 LET v == [ui EXCEPT !.dead = FALSE, !.qr = g]
                 IN  /\ v \in [jid: Accounts \cup {None}, dead: BOOLEAN, qr: 0..MaxGen]
                     /\ v.jid = ui.jid /\ v.dead = FALSE /\ v.qr = g
           /\ LET v == [ui EXCEPT !.dead = TRUE]
              IN  /\ v \in [jid: Accounts \cup {None}, dead: BOOLEAN, qr: 0..MaxGen]
                  /\ v.jid = ui.jid /\ v.dead = TRUE /\ v.qr = ui.qr
           /\ LET v == [ui EXCEPT !.qr = 0]
              IN  /\ v \in [jid: Accounts \cup {None}, dead: BOOLEAN, qr: 0..MaxGen]
                  /\ v.jid = ui.jid /\ v.dead = ui.dead /\ v.qr = 0
<1>1. ui \in [jid: Accounts \cup {None}, dead: BOOLEAN, qr: 0..MaxGen]
  BY Zenon DEF EventsTyped
<1>2. 0 \in 0..MaxGen /\ Gens \subseteq 0..MaxGen
  BY SessionAssumption DEF Gens
<1> QED
  BY <1>1, <1>2, Zenon

\* The next event to reach the webview, and what is left.
LEMMA WireTail ==
    ASSUME EventsTyped, Deliver
    PROVE  /\ wire[1] \in Events /\ Head(wire) = wire[1] /\ Len(wire) \in Nat /\ Len(wire) >= 1
           /\ wire' \in Seq(Events) /\ Len(wire') = Len(wire) - 1
           /\ \A i \in 1..Len(wire') : wire'[i] = wire[i + 1] /\ i + 1 \in 1..Len(wire)
<1>1. wire # <<>> /\ wire' = Tail(wire)
  BY Zenon DEF Deliver
<1>2. wire \in Seq(Events)
  BY Zenon DEF EventsTyped
<1> HIDE DEF Events
<1>3. /\ Len(wire) \in Nat /\ Len(wire) >= 1 /\ Head(wire) = wire[1] /\ wire[1] \in Events
      /\ Tail(wire) \in Seq(Events) /\ Len(Tail(wire)) = Len(wire) - 1
      /\ \A i \in 1..(Len(wire) - 1) : Tail(wire)[i] = wire[i + 1]
  BY <1>1, <1>2, SeqFacts, Zenon
<1>4. \A i \in 1..(Len(wire) - 1) : i + 1 \in 1..Len(wire)
  BY <1>3
<1> QED
  BY <1>1, <1>3, <1>4, Zenon

\* An event is emitted to the webview.
LEMMA WireGrows ==
    ASSUME EventsTyped, NEW e \in Events, Emit(e)
    PROVE  /\ wire' \in Seq(Events) /\ Len(wire) \in Nat /\ Len(wire') = Len(wire) + 1
           /\ wire'[Len(wire) + 1] = e
           /\ \A i \in 1..Len(wire) : wire'[i] = wire[i] /\ i \in 1..Len(wire')
           /\ \A i \in 1..Len(wire') : i \in 1..Len(wire) \/ i = Len(wire) + 1
<1>1. wire \in Seq(Events) /\ wire' = Append(wire, e)
  BY Zenon DEF EventsTyped, Emit
<1>2. /\ wire' \in Seq(Events) /\ Len(wire) \in Nat /\ Len(wire') = Len(wire) + 1
      /\ wire'[Len(wire) + 1] = e
      /\ \A i \in 1..Len(wire) : wire'[i] = wire[i]
  BY <1>1, AppendFacts
<1>3. /\ \A i \in 1..Len(wire) : i \in 1..Len(wire')
      /\ \A i \in 1..Len(wire') : i \in 1..Len(wire) \/ i = Len(wire) + 1
  BY <1>2
<1> QED
  BY <1>2, <1>3, Zenon

\* An event is added to the channel of one client.
ChanAdds(g, e) ==
    /\ chan' \in [Gens -> Seq(Events)]
    /\ \A h \in Gens : \A i \in 1..Len(chan'[h]) :
          \/ i \in 1..Len(chan[h]) /\ chan'[h][i] = chan[h][i]
          \/ h = g /\ chan'[h][i] = e
    /\ \A h \in Gens : \A i \in 1..Len(chan[h]) :
          i \in 1..Len(chan'[h]) /\ chan'[h][i] = chan[h][i]
    /\ g \in Gens => \E i \in 1..Len(chan'[g]) : chan'[g][i] = e

\* A client sends an event to its pump.
LEMMA ChanGrows ==
    ASSUME EventsTyped, NEW g, NEW topic \in Topics, NEW a \in Accounts \cup {None}, Send(g, topic, a)
    PROVE  ChanAdds(g, Event(topic, g, a))
<1> DEFINE e == Event(topic, g, a)
<1>1. chan \in [Gens -> Seq(Events)] /\ chan' = [chan EXCEPT ![g] = Append(chan[g], e)]
  BY Zenon DEF EventsTyped, Send
<1>2. g \in Gens => e \in Events
  BY DEF Event, Events
<1> HIDE DEF e
<1>3. ASSUME NEW h \in Gens, h # g PROVE chan'[h] = chan[h]
  BY <1>1, <1>3, Zenon
<1>4. ASSUME g \in Gens
      PROVE  /\ chan'[g] \in Seq(Events) /\ Len(chan[g]) \in Nat /\ Len(chan'[g]) = Len(chan[g]) + 1
             /\ chan'[g][Len(chan[g]) + 1] = e
             /\ \A i \in 1..Len(chan[g]) : chan'[g][i] = chan[g][i]
  <2>1. chan[g] \in Seq(Events) /\ chan'[g] = Append(chan[g], e)
    BY <1>1, <1>4, Zenon
  <2> QED
    BY <1>2, <1>4, <2>1, AppendFacts
<1>5. ASSUME g \in Gens
      PROVE  /\ \A i \in 1..Len(chan[g]) : i \in 1..Len(chan'[g])
             /\ \A i \in 1..Len(chan'[g]) : i \in 1..Len(chan[g]) \/ i = Len(chan[g]) + 1
             /\ Len(chan[g]) + 1 \in 1..Len(chan'[g])
  BY <1>4, <1>5
<1>6. chan' \in [Gens -> Seq(Events)]
  <2>1. DOMAIN chan' = Gens /\ chan' = [h \in Gens |-> chan'[h]]
    BY <1>1, Zenon
  <2>2. \A h \in Gens : chan'[h] \in Seq(Events)
    BY <1>1, <1>3, <1>4, Zenon
  <2> QED
    BY <2>1, <2>2, Zenon
<1> QED
  <2>1. ChanAdds(g, e)
    BY <1>3, <1>4, <1>5, <1>6, Zenon DEF ChanAdds
  <2> QED
    BY <2>1, Zenon DEF e

\* The pump takes an event.
LEMMA ChanTail ==
    ASSUME EventsTyped, NEW g \in Gens, pump(g)
    PROVE  /\ chan' \in [Gens -> Seq(Events)]
           /\ Head(chan[g]) = chan[g][1] /\ chan[g][1] \in Events /\ 1 \in 1..Len(chan[g])
           /\ \A h \in Gens : \A i \in 1..Len(chan'[h]) :
                 \E j \in 1..Len(chan[h]) : chan'[h][i] = chan[h][j]
           /\ \A h \in Gens : \A j \in 1..Len(chan[h]) :
                 (h # g \/ j # 1) => \E i \in 1..Len(chan'[h]) : chan'[h][i] = chan[h][j]
<1>1. chan \in [Gens -> Seq(Events)] /\ chan' = [chan EXCEPT ![g] = Tail(chan[g])] /\ chan[g] # <<>>
  BY Zenon DEF EventsTyped, pump
<1>2. ASSUME NEW h \in Gens, h # g PROVE chan'[h] = chan[h]
  BY <1>1, <1>2, Zenon
<1>3. chan[g] \in Seq(Events) /\ chan'[g] = Tail(chan[g])
  BY <1>1, Zenon
<1>4. /\ Len(chan[g]) \in Nat /\ Len(chan[g]) >= 1 /\ Head(chan[g]) = chan[g][1] /\ chan[g][1] \in Events
      /\ chan'[g] \in Seq(Events) /\ Len(chan'[g]) = Len(chan[g]) - 1
      /\ \A i \in 1..(Len(chan[g]) - 1) : chan'[g][i] = chan[g][i + 1]
  BY <1>1, <1>3, SeqFacts, Zenon
<1>5. chan' \in [Gens -> Seq(Events)]
  <2>1. \A h \in Gens : chan'[h] \in Seq(Events)
    BY <1>1, <1>2, <1>4, Zenon
  <2>2. chan' = [h \in Gens |-> chan'[h]]
    BY <1>1, Zenon
  <2> QED
    BY <2>1, <2>2, Zenon
<1>6. ASSUME NEW i \in 1..Len(chan'[g]) PROVE \E j \in 1..Len(chan[g]) : chan'[g][i] = chan[g][j]
  <2>1. i + 1 \in 1..Len(chan[g]) /\ i \in 1..(Len(chan[g]) - 1)
    BY <1>4
  <2> QED
    BY <1>4, <2>1, Zenon
<1>7. ASSUME NEW j \in 1..Len(chan[g]), j # 1 PROVE \E i \in 1..Len(chan'[g]) : chan'[g][i] = chan[g][j]
  <2>1. j - 1 \in 1..Len(chan'[g]) /\ j - 1 \in 1..(Len(chan[g]) - 1) /\ (j - 1) + 1 = j
    BY <1>4, <1>7
  <2>2. chan'[g][j - 1] = chan[g][(j - 1) + 1]
    BY <1>4, <2>1, Zenon
  <2>3. chan'[g][j - 1] = chan[g][j]
    BY <2>1, <2>2, Zenon
  <2> QED
    BY <2>1, <2>3, Zenon
<1>8. 1 \in 1..Len(chan[g])
  BY <1>4
<1>9. ASSUME NEW h \in Gens, NEW i \in 1..Len(chan'[h])
      PROVE  \E j \in 1..Len(chan[h]) : chan'[h][i] = chan[h][j]
  BY <1>2, <1>6, <1>9, Zenon
<1>10. ASSUME NEW h \in Gens, NEW j \in 1..Len(chan[h]), h # g \/ j # 1
       PROVE  \E i \in 1..Len(chan'[h]) : chan'[h][i] = chan[h][j]
  <2>1. CASE h = g
    BY <1>7, <1>10, <2>1, Zenon
  <2>2. CASE h # g
    <3>1. chan'[h] = chan[h]
      BY <1>2, <2>2, Zenon
    <3> QED
      BY <3>1
  <2> QED
    BY <2>1, <2>2, Zenon
<1> QED
  BY <1>4, <1>5, <1>8, <1>9, <1>10, Zenon

\* The steps by what they do to the events and to what is shown.
LEMMA EventKinds ==
    ASSUME IInv, [Next]_sessionVars
    PROVE  \/ UNCHANGED <<chan, wire, ui>>
           \/ /\ UNCHANGED <<chan, wire, gens, loop>>
              /\ \/ \E j \in Accounts \cup {None} : ui' = [ui EXCEPT !.jid = j]
                 \/ ui' = [ui EXCEPT !.jid = None, !.dead = FALSE]
           \/ \E g \in Gens : Dispatch(g) \/ LoopEnds(g) \/ pump(g)
           \/ \E a \in Accounts : spawn_history_decode(a)
           \/ \E c \in Calls : FinishWork(c)
           \/ Deliver \/ Restart
<1>0. ASSUME NEW g \in Gens, LetGo(g) PROVE UNCHANGED <<chan, wire, ui>>
  BY <1>0, Zenon DEF LetGo, bridge, frontend
<1>1. ASSUME NEW c \in Calls,
             Locks(c) \/ Join(c) \/ delete_db_files(c) \/ ResetBoots(c) \/ Cleared(c) \/ ResetReply(c)
      PROVE  UNCHANGED <<chan, wire, ui>>
  BY <1>1, Zenon DEF Locks, get_or_create, BootFails, ResetTakes, Join, delete_db_files, ResetBoots,
     Cleared, ResetReply, bridge, frontend
<1>2. ASSUME startEventBridge \/ CheckStale \/ LoadSnapshot \/ LoadTails \/ UNCHANGED sessionVars
      PROVE  UNCHANGED <<chan, wire, ui>>
  BY <1>2, Zenon DEF startEventBridge, CheckStale, LoadSnapshot, LoadTails, bridge, frontend, sessionVars
<1>3. ASSUME NEW c \in Calls, refreshStatus(c)
      PROVE  /\ UNCHANGED <<chan, wire, gens, loop>>
             /\ ui' = ui \/ \E j \in Accounts \cup {None} : ui' = [ui EXCEPT !.jid = j]
  <2>1. call[c].jid \in Accounts \cup {None}
    BY DEF IInv, ManagerTyped, CallRecord
  <2> QED
    BY <1>3, <2>1, Zenon DEF refreshStatus, backend, bridge
<1>4. ASSUME NEW c \in Calls, UserAsks(c)
      PROVE  /\ UNCHANGED <<chan, wire, gens, loop>>
             /\ ui' = ui \/ ui' = [ui EXCEPT !.jid = None, !.dead = FALSE]
  BY <1>4, Zenon DEF UserAsks, resetAll, backend, bridge, frontend
<1> QED
  BY <1>0, <1>1, <1>2, <1>3, <1>4, Zenon DEF Next, Answers

\* The listeners that run when an event is delivered.
LEMMA Delivered ==
    ASSUME Deliver, front # "off"
    PROVE  \E c \in Calls :
              \/ Head(wire).topic = "qr" /\ ui' = [ui EXCEPT !.dead = FALSE, !.qr = Head(wire).gen]
              \/ Head(wire).topic = "dead" /\ ui' = [ui EXCEPT !.dead = TRUE]
              \/ Head(wire).topic = "paired" /\ ui' = [ui EXCEPT !.qr = 0]
              \/ Head(wire).topic = "loggedout" /\ ui' = [ui EXCEPT !.jid = None, !.dead = FALSE]
              \/ Head(wire).topic \in {"conn", "message", "history"} /\ ui' = ui
BY Zenon DEF Deliver, Handle, OnPaired, resetAll, frontend

\* The account that a client has.
LEMMA RunsAs ==
    ASSUME IInv, LastClient, NEW g \in Gens, loop[g] # "none"
    PROVE  acct[key[g]] \in Accounts \cup {None}
<1>1. key[g] \in 1..(MaxGen + 1)
  BY HasKey, Zenon
<1> QED
  BY <1>1, Zenon DEF IInv, ManagerTyped

\* What a client sends.
LEMMA Dispatched ==
    ASSUME IInv, LastClient, NEW g \in Gens, Dispatch(g)
    PROVE  \E topic \in Topics \ {"dead"}, a \in Accounts \cup {None} :
              /\ Send(g, topic, a)
              /\ acct' = acct \/ topic = "paired"
<1>1. acct[key[g]] \in Accounts \cup {None}
  BY RunsAs, Zenon DEF Dispatch, handle_pair_success
<1>2. {"qr", "paired", "conn", "message", "history", "loggedout"} \subseteq Topics \ {"dead"}
  BY Zenon DEF Topics
<1> QED
  BY <1>1, <1>2, Zenon DEF Dispatch, handle_pair_success

\* The events stay typed.
LEMMA EventsStep ==
    ASSUME IInv, LastClient, EventsTyped, [Next]_sessionVars
    PROVE  EventsTyped'
<1>0. /\ chan \in [Gens -> Seq(Events)] /\ wire \in Seq(Events)
      /\ ui \in [jid: Accounts \cup {None}, dead: BOOLEAN, qr: 0..MaxGen]
  BY Zenon DEF EventsTyped
<1>1. CASE UNCHANGED <<chan, wire, ui>>
  BY <1>1, Zenon DEF EventsTyped
<1>2. CASE /\ UNCHANGED <<chan, wire, gens, loop>>
           /\ \/ \E j \in Accounts \cup {None} : ui' = [ui EXCEPT !.jid = j]
              \/ ui' = [ui EXCEPT !.jid = None, !.dead = FALSE]
  BY <1>0, <1>2, UiFacts, Zenon DEF EventsTyped
<1>3. ASSUME NEW g \in Gens, Dispatch(g) PROVE EventsTyped'
  <2>1. wire' = wire /\ ui' = ui
    BY <1>3, Zenon DEF Dispatch, handle_pair_success, frontend
  <2>2. chan' \in [Gens -> Seq(Events)]
    BY <1>3, Dispatched, ChanGrows, Zenon DEF ChanAdds
  <2> QED
    BY <1>0, <2>1, <2>2, Zenon DEF EventsTyped
<1>4. ASSUME NEW g \in Gens, LoopEnds(g) PROVE EventsTyped'
  <2>1. chan' = chan /\ ui' = ui /\ Emit(Event("dead", g, None))
    BY <1>4, Zenon DEF LoopEnds, frontend
  <2>2. Event("dead", g, None) \in Events
    BY DEF Event, Events, Topics
  <2> QED
    BY <1>0, <2>1, <2>2, WireGrows, Zenon DEF EventsTyped
<1>5. ASSUME NEW g \in Gens, pump(g) PROVE EventsTyped'
  <2>1. ui' = ui /\ (wire' = wire \/ Emit(Head(chan[g])))
    BY <1>5, Zenon DEF pump, frontend
  <2>2. chan' \in [Gens -> Seq(Events)] /\ Head(chan[g]) \in Events
    BY <1>5, ChanTail, Zenon
  <2> QED
    BY <1>0, <2>1, <2>2, WireGrows, Zenon DEF EventsTyped
<1>6. ASSUME NEW a \in Accounts, spawn_history_decode(a) PROVE EventsTyped'
  <2>1. chan' = chan /\ ui' = ui /\ \E g \in Gens : Emit(Event("history", g, a))
    BY <1>6, Zenon DEF spawn_history_decode, frontend
  <2>2. \A g \in Gens : Event("history", g, a) \in Events
    BY DEF Event, Events, Topics
  <2> QED
    BY <1>0, <2>1, <2>2, WireGrows, Zenon DEF EventsTyped
<1>7. ASSUME NEW c \in Calls, FinishWork(c) PROVE EventsTyped'
  <2>1. wire' = wire /\ ui' = ui /\ (chan' = chan \/ Send(call[c].gen, "loggedout", None))
    BY <1>7, Zenon DEF FinishWork, frontend
  <2>2. "loggedout" \in Topics
    BY Zenon DEF Topics
  <2> QED
    BY <1>0, <2>1, <2>2, ChanGrows, Zenon DEF EventsTyped, ChanAdds
<1>8. CASE Deliver
  <2>1. wire' \in Seq(Events) /\ Head(wire) \in Events /\ chan' = chan
    BY <1>8, WireTail, Zenon DEF Deliver
  <2>2. Head(wire).gen \in Gens
    BY <2>1 DEF Events
  <2>3. ui' \in [jid: Accounts \cup {None}, dead: BOOLEAN, qr: 0..MaxGen]
    <3>1. CASE front = "off"
      BY <1>0, <1>8, <3>1, Zenon DEF Deliver, frontend
    <3>2. CASE front # "off"
      BY <1>0, <1>8, <2>2, <3>2, Delivered, UiFacts, Zenon
    <3> QED
      BY <3>1, <3>2, Zenon
  <2> QED
    BY <1>0, <2>1, <2>3, Zenon DEF EventsTyped
<1>9. CASE Restart
  <2>1. chan' = [g \in Gens |-> <<>>] /\ wire' = <<>> /\ ui' = [jid |-> None, dead |-> FALSE, qr |-> 0]
    BY <1>9, Zenon DEF Restart
  <2>2. <<>> \in Seq(Events) /\ 0 \in 0..MaxGen
    BY SessionAssumption
  <2> QED
    BY <2>1, <2>2, Zenon DEF EventsTyped
<1> QED
  BY <1>1, <1>2, <1>3, <1>4, <1>5, <1>6, <1>7, <1>8, <1>9, EventKinds, Zenon

----------------------------------------------------------------------------
(* The end of a client is reported before the next one is seen *)

\* Loops only end, and a later client's starts.
LoopsEnd ==
    /\ gens' \in Nat /\ gens <= gens'
    /\ \A g \in Gens : loop[g] \in Over => loop'[g] \in Over
    /\ gens' = gens => \A g \in Gens : loop'[g] = "running" => loop[g] = "running"

\* An event on its way.
LEMMA EventAt ==
    ASSUME NEW s \in Seq(Events), NEW i \in 1..Len(s)
    PROVE  s[i] \in Events /\ s[i].gen \in Gens
<1>1. s[i] \in Events
  BY SeqFacts, Zenon
<1> QED
  BY <1>1 DEF Events

\* Every step but a launch does no more to the loops.
LEMMA LoopsStep ==
    ASSUME IInv, IInv', LastClient, [Next]_sessionVars
    PROVE  /\ LoopsEnd \/ Restart
           /\ \A g \in Gens : LoopEnds(g) => LoopsEnd
           /\ UNCHANGED <<gens, loop>> => LoopsEnd
<1>0. /\ gens \in Nat /\ gens' \in Nat /\ ManagerTyped /\ loop \in [Gens -> {"none", "running", "ended", "done"}]
  BY SessionAssumption DEF IInv, ManagerTyped
<1>1. ASSUME UNCHANGED <<gens, loop>> PROVE LoopsEnd
  BY <1>0, <1>1 DEF LoopsEnd
<1>2. ASSUME boot PROVE LoopsEnd
  <2>1. gens' = gens + 1 /\ \A g \in Gens : g # gens + 1 => loop'[g] = loop[g]
    BY <1>0, <1>2, Boots, Zenon
  <2>2. \A g \in Gens : g = gens + 1 => loop[g] \notin Over
    BY <1>0 DEF LastClient, Over
  <2>3. gens <= gens' /\ gens' # gens
    BY <1>0, <2>1
  <2> QED
    BY <1>0, <2>1, <2>2, <2>3 DEF LoopsEnd
<1>3. CASE Quiet
  BY <1>1, <1>3, Zenon DEF Quiet, manager
<1>4. ASSUME NEW g \in Gens, LoopEnds(g) \/ LetGo(g) PROVE LoopsEnd
  <2>1. gens' = gens /\ \A h \in Gens : loop'[h] \in Over \/ loop'[h] = loop[h]
    BY <1>0, <1>4, Zenon DEF LoopEnds, LetGo, Over
  <2>2. gens <= gens'
    BY <1>0, <2>1
  <2> QED
    BY <1>0, <2>1, <2>2, Zenon DEF LoopsEnd, Over
<1>5. ASSUME NEW c \in Calls, Join(c) PROVE LoopsEnd
  <2>1. gens' = gens /\ \A h \in Gens : loop'[h] \in Over \/ loop'[h] = loop[h]
    BY <1>5, Zenon DEF Join, Over
  <2>2. gens <= gens'
    BY <1>0, <2>1
  <2> QED
    BY <1>0, <2>1, <2>2, Zenon DEF LoopsEnd, Over
<1>6. ASSUME NEW c \in Calls, get_or_create(c) \/ ResetTakes(c) \/ delete_db_files(c) \/ ResetBoots(c)
      PROVE  boot \/ UNCHANGED <<gens, loop>>
  BY <1>6, Zenon DEF get_or_create, ResetTakes, delete_db_files, ResetBoots, backend
<1> QED
  BY <1>1, <1>2, <1>3, <1>4, <1>5, <1>6, StepKinds, Zenon

\* The events stay, and the store shows no death that it did not show.
LEMMA DeadStill ==
    ASSUME IInv, EventsTyped, EventsTyped', DeadInv, LoopsEnd, chan' = chan, wire' = wire,
           ui'.qr = ui.qr, ui'.dead => ui.dead
    PROVE  DeadInv'
<1>0. /\ gens \in Nat /\ gens' \in Nat /\ gens <= gens' /\ ui.qr \in Nat
      /\ ui.dead \in BOOLEAN /\ ui'.dead \in BOOLEAN
  BY SessionAssumption DEF EventsTyped, LoopsEnd, IInv, ManagerTyped
<1>1. ASSUME NEW s \in Seq(Events), NEW i \in 1..Len(s) PROVE s[i].gen \in Gens
  BY EventAt, Zenon
<1>2. ChanQr'
  <2>1. ASSUME NEW g \in Gens, NEW i \in 1..Len(chan[g]), chan[g][i].topic = "qr"
        PROVE  chan[g][i].gen <= gens'
    <3>1. chan[g] \in Seq(Events)
      BY Zenon DEF EventsTyped
    <3>2. chan[g][i].gen \in Nat /\ chan[g][i].gen <= gens
      BY <1>1, <2>1, <3>1 DEF DeadInv, ChanQr, Gens
    <3> QED
      BY <1>0, <3>2
  <2> QED
    BY <2>1, Zenon DEF DeadInv, ChanQr
<1>3. WireDead'
  <2>1. ASSUME NEW i \in 1..Len(wire)
        PROVE  wire[i].gen \in Gens /\ (wire[i].gen <= gens => wire[i].gen <= gens')
    <3>1. wire[i].gen \in Gens
      BY <1>1, Zenon DEF EventsTyped
    <3> QED
      BY <1>0, <3>1 DEF Gens
  <2> QED
    BY <2>1, Zenon DEF DeadInv, WireDead, LoopsEnd
<1>4. UiDead'
  <2>1. ui.qr <= gens /\ ui'.qr <= gens'
    BY <1>0 DEF DeadInv, UiDead
  <2>2. ASSUME ui'.dead, ui'.qr = gens', gens' # 0 PROVE loop'[gens'] # "running"
    <3>1. gens' = gens /\ gens \in Gens
      BY <1>0, <2>1, <2>2 DEF Gens, IInv, ManagerTyped
    <3> QED
      BY <2>2, <3>1, Zenon DEF DeadInv, UiDead, LoopsEnd
  <2> QED
    BY <2>1, <2>2, Zenon DEF UiDead
<1> QED
  BY <1>2, <1>3, <1>4, Zenon DEF DeadInv

\* An event is emitted: a report of the last client, or a code of a client.
LEMMA DeadEmits ==
    ASSUME IInv, LastClient, EventsTyped, DeadInv, LoopsEnd, gens' = gens, ui' = ui, ChanQr',
           NEW e \in Events, Emit(e),
           e.topic = "dead" => loop'[e.gen] \in Over /\ e.gen = gens,
           e.topic = "qr" => e.gen <= gens
    PROVE  DeadInv'
<1>0. gens \in Nat /\ ui.qr \in Nat
  BY SessionAssumption DEF EventsTyped, IInv, ManagerTyped
<1>1. /\ Len(wire) \in Nat /\ Len(wire') = Len(wire) + 1
      /\ wire'[Len(wire) + 1] = e
      /\ \A i \in 1..Len(wire) : wire'[i] = wire[i] /\ i \in 1..Len(wire')
      /\ \A i \in 1..Len(wire') : i \in 1..Len(wire) \/ i = Len(wire) + 1
  BY WireGrows, Zenon
<1>2. ASSUME NEW i \in 1..Len(wire) PROVE wire[i].gen \in Gens
  BY EventAt, Zenon DEF EventsTyped
<1>3. ASSUME NEW i \in 1..Len(wire')
      PROVE  /\ wire'[i].topic = "dead" => loop'[wire'[i].gen] \in Over /\ ui.qr <= wire'[i].gen
             /\ wire'[i].topic = "qr" => wire'[i].gen <= gens
  <2>1. CASE i \in 1..Len(wire)
    <3>1. wire'[i] = wire[i] /\ wire[i].gen \in Gens
      BY <1>1, <1>2, <2>1, Zenon
    <3>2. /\ wire[i].topic = "dead" => loop[wire[i].gen] \in Over /\ ui.qr <= wire[i].gen
          /\ wire[i].topic = "qr" => wire[i].gen <= gens
      BY <2>1, Zenon DEF DeadInv, WireDead
    <3>3. loop[wire[i].gen] \in Over => loop'[wire[i].gen] \in Over
      BY <3>1, Zenon DEF LoopsEnd
    <3> QED
      BY <3>1, <3>2, <3>3, Zenon
  <2>2. CASE i = Len(wire) + 1
    <3>1. ui.qr <= gens
      BY Zenon DEF DeadInv, UiDead
    <3> QED
      BY <1>1, <2>2, <3>1, Zenon
  <2> QED
    BY <1>1, <2>1, <2>2, Zenon
<1>4. ASSUME NEW i \in 1..Len(wire'), NEW j \in 1..Len(wire'), i < j,
             wire'[i].topic = "qr", wire'[j].topic = "dead"
      PROVE  wire'[i].gen <= wire'[j].gen
  <2>1. CASE j \in 1..Len(wire)
    <3>1. i \in 1..Len(wire)
      BY <1>1, <1>4, <2>1
    <3> QED
      BY <1>1, <1>4, <2>1, <3>1, Zenon DEF DeadInv, WireDead
  <2>2. CASE j = Len(wire) + 1
    BY <1>1, <1>3, <1>4, <2>2, Zenon
  <2> QED
    BY <1>1, <2>1, <2>2, Zenon
<1>5. WireDead'
  BY <1>3, <1>4, Zenon DEF WireDead
<1>6. UiDead'
  <2>1. gens # 0 => gens \in Gens
    BY <1>0 DEF Gens, IInv, ManagerTyped
  <2> QED
    BY <2>1, Zenon DEF UiDead, DeadInv, LoopsEnd
<1> QED
  BY <1>5, <1>6, Zenon DEF DeadInv

\* A client sends an event to its pump.
LEMMA DeadSends ==
    ASSUME IInv, EventsTyped, DeadInv, UNCHANGED <<wire, ui, gens, loop>>,
           NEW g, NEW topic \in Topics, topic # "dead", NEW a \in Accounts \cup {None},
           Send(g, topic, a), topic = "qr" => g <= gens
    PROVE  DeadInv'
<1>0. \A h \in Gens : \A i \in 1..Len(chan'[h]) :
         \/ i \in 1..Len(chan[h]) /\ chan'[h][i] = chan[h][i]
         \/ h = g /\ chan'[h][i] = Event(topic, g, a)
  <2>1. ChanAdds(g, Event(topic, g, a))
    BY ChanGrows, Zenon
  <2> QED
    BY <2>1, Zenon DEF ChanAdds
<1>1. Event(topic, g, a).topic = topic /\ Event(topic, g, a).gen = g
  BY DEF Event
<1>2. ASSUME NEW h \in Gens, NEW i \in 1..Len(chan'[h])
      PROVE  chan'[h][i].topic # "dead" /\ (chan'[h][i].topic = "qr" => chan'[h][i].gen <= gens)
  <2>1. \/ i \in 1..Len(chan[h]) /\ chan'[h][i] = chan[h][i]
        \/ h = g /\ chan'[h][i] = Event(topic, g, a)
    BY <1>0, Zenon
  <2> QED
    BY <1>1, <2>1, Zenon DEF DeadInv, ChanQr
<1> QED
  BY <1>2, Zenon DEF DeadInv, ChanQr, WireDead, UiDead

\* The next event is heard.
LEMMA DeadDeliver ==
    ASSUME IInv, LastClient, EventsTyped, EventsTyped', DeadInv, Deliver
    PROVE  DeadInv'
<1>0. /\ gens \in Nat /\ ui.qr \in Nat /\ chan' = chan /\ gens' = gens /\ loop' = loop
      /\ gens # 0 => gens \in Gens
  BY SessionAssumption DEF EventsTyped, IInv, ManagerTyped, Deliver, backend, Gens
<1>1. /\ wire[1] \in Events /\ Head(wire) = wire[1] /\ Len(wire) \in Nat /\ Len(wire) >= 1
      /\ Len(wire') = Len(wire) - 1
      /\ \A i \in 1..Len(wire') : wire'[i] = wire[i + 1] /\ i + 1 \in 1..Len(wire)
  BY WireTail, Zenon
<1>2. wire[1].gen \in Gens /\ 1 \in 1..Len(wire) /\ \A i \in 1..Len(wire') : 1 < i + 1
  BY <1>1 DEF Events
<1>3. ChanQr'
  BY <1>0, Zenon DEF DeadInv, ChanQr
<1>4. \/ ui' = ui
      \/ wire[1].topic = "qr" /\ ui'.qr = wire[1].gen /\ ui'.dead = FALSE
      \/ wire[1].topic = "dead" /\ ui'.qr = ui.qr
      \/ ui'.qr = 0 /\ ui'.dead = ui.dead
      \/ ui'.qr = ui.qr /\ ui'.dead = FALSE
  <2>1. CASE front = "off"
    BY <2>1, Zenon DEF Deliver, frontend
  <2>2. CASE front # "off"
    BY <1>1, <1>2, <2>2, Delivered, UiFacts, ZenonT(40)
  <2> QED
    BY <2>1, <2>2, Zenon
<1>5. ASSUME NEW i \in 1..Len(wire')
      PROVE  /\ wire'[i].topic = "dead" => loop[wire'[i].gen] \in Over /\ ui'.qr <= wire'[i].gen
             /\ wire'[i].topic = "qr" =>
                   /\ wire'[i].gen <= gens
                   /\ \A j \in 1..Len(wire') : i < j /\ wire'[j].topic = "dead"
                                                   => wire'[i].gen <= wire'[j].gen
  <2>1. wire'[i] = wire[i + 1] /\ i + 1 \in 1..Len(wire) /\ 1 < i + 1
    BY <1>1, <1>2, Zenon
  <2>2. ASSUME wire'[i].topic = "dead" PROVE loop[wire'[i].gen] \in Over /\ ui'.qr <= wire'[i].gen
    <3>1. loop[wire'[i].gen] \in Over /\ ui.qr <= wire'[i].gen
      BY <2>1, <2>2, Zenon DEF DeadInv, WireDead
    <3>2. wire[1].topic = "qr" => wire[1].gen <= wire'[i].gen
      BY <1>2, <2>1, <2>2, Zenon DEF DeadInv, WireDead
    <3>3. 0 <= wire'[i].gen
      <4>1. wire[i + 1] \in Events
        BY <2>1, EventAt, Zenon DEF EventsTyped
      <4> QED
        BY <2>1, <4>1 DEF Events, Gens
    <3> QED
      BY <1>4, <3>1, <3>2, <3>3, Zenon
  <2>3. ASSUME wire'[i].topic = "qr" PROVE wire'[i].gen <= gens
    BY <2>1, <2>3, Zenon DEF DeadInv, WireDead
  <2>4. ASSUME NEW j \in 1..Len(wire'), i < j, wire'[i].topic = "qr", wire'[j].topic = "dead"
        PROVE  wire'[i].gen <= wire'[j].gen
    <3>1. wire'[j] = wire[j + 1] /\ j + 1 \in 1..Len(wire)
      BY <1>1, Zenon
    <3>2. i + 1 < j + 1
      BY <1>1, <2>4
    <3> QED
      BY <2>1, <2>4, <3>1, <3>2, Zenon DEF DeadInv, WireDead
  <2> QED
    BY <2>2, <2>3, <2>4, Zenon
<1>6. WireDead'
  BY <1>0, <1>5, Zenon DEF WireDead
<1>7. UiDead'
  <2>1. ui.qr <= gens /\ (wire[1].topic = "qr" => wire[1].gen <= gens) /\ 0 <= gens
    BY <1>0, <1>2 DEF DeadInv, UiDead, WireDead
  <2>2. ui'.qr <= gens
    BY <1>4, <2>1, Zenon
  <2>3. ASSUME ui'.dead, ui'.qr = gens, gens # 0 PROVE loop[gens] # "running"
    <3>1. ui'.dead # FALSE
      BY <2>3, Zenon
    <3>2. CASE wire[1].topic = "dead" /\ ui'.qr = ui.qr
      <4>1. loop[wire[1].gen] \in Over /\ ui.qr <= wire[1].gen
        BY <1>2, <3>2, Zenon DEF DeadInv, WireDead
      <4>2. ~(wire[1].gen > gens)
        BY <1>2, <4>1, Zenon DEF LastClient, Over
      <4>3. wire[1].gen = gens
        BY <1>0, <1>2, <2>3, <3>2, <4>1, <4>2 DEF Gens
      <4> QED
        BY <4>1, <4>3, Zenon DEF Over
    <3>3. CASE ui' = ui
      BY <2>3, <3>3, Zenon DEF DeadInv, UiDead
    <3> QED
      BY <1>4, <2>3, <3>1, <3>2, <3>3, Zenon
  <2> QED
    BY <1>0, <2>2, <2>3, Zenon DEF UiDead
<1> QED
  BY <1>3, <1>6, <1>7, Zenon DEF DeadInv

\* DeadInv is kept.
LEMMA DeadStep ==
    ASSUME IInv, IInv', LastClient, EventsTyped, EventsTyped', DeadInv, [Next]_sessionVars
    PROVE  DeadInv'
<1>0. /\ LoopsEnd \/ Restart
      /\ \A g \in Gens : LoopEnds(g) => LoopsEnd
      /\ UNCHANGED <<gens, loop>> => LoopsEnd
  BY LoopsStep, Zenon
<1>1. CASE Restart
  <2>1. /\ chan' = [g \in Gens |-> <<>>] /\ wire' = <<>>
        /\ ui' = [jid |-> None, dead |-> FALSE, qr |-> 0] /\ gens' = gens
    BY <1>1, Zenon DEF Restart
  <2>2. Len(<<>>) = 0 /\ \A i \in 1..0 : FALSE
    OBVIOUS
  <2>3. ui'.dead = FALSE /\ ui'.qr = 0
    BY <2>1
  <2>4. 0 <= gens
    BY SessionAssumption DEF IInv, ManagerTyped
  <2>5. ChanQr'
    <3>1. \A g \in Gens : chan'[g] = <<>>
      BY <2>1, Zenon
    <3> QED
      BY <2>2, <3>1, Zenon DEF ChanQr
  <2>6. WireDead'
    BY <2>1, <2>2, Zenon DEF WireDead
  <2>7. UiDead'
    BY <2>1, <2>3, <2>4, Zenon DEF UiDead
  <2> QED
    BY <2>5, <2>6, <2>7, Zenon DEF DeadInv
<1>2. CASE UNCHANGED <<chan, wire, ui>> /\ LoopsEnd
  BY <1>0, <1>2, DeadStill, Zenon
<1>3. CASE /\ UNCHANGED <<chan, wire, gens, loop>>
           /\ \/ \E j \in Accounts \cup {None} : ui' = [ui EXCEPT !.jid = j]
              \/ ui' = [ui EXCEPT !.jid = None, !.dead = FALSE]
  <2>1. ui'.qr = ui.qr /\ (ui'.dead => ui.dead)
    BY <1>3, UiFacts, Zenon
  <2> QED
    BY <1>0, <1>3, <2>1, DeadStill, Zenon
<1>4. ASSUME NEW g \in Gens, Dispatch(g) PROVE DeadInv'
  <2>1. UNCHANGED <<wire, ui, gens, loop>> /\ loop[g] # "none"
    BY <1>4, Zenon DEF Dispatch, handle_pair_success, frontend
  <2>2. g <= gens
    BY <2>1, HasKey, Zenon
  <2>3. PICK topic \in Topics \ {"dead"}, a \in Accounts \cup {None} : Send(g, topic, a)
    BY <1>4, Dispatched, Zenon
  <2> QED
    BY <2>1, <2>2, <2>3, DeadSends, Zenon
<1>5. ASSUME NEW g \in Gens, LoopEnds(g) PROVE DeadInv'
  <2> DEFINE e == Event("dead", g, None)
  <2>1. /\ chan' = chan /\ ui' = ui /\ gens' = gens /\ Emit(e) /\ loop[g] = "running"
        /\ loop' = [loop EXCEPT ![g] = "ended"]
    BY <1>5, Zenon DEF LoopEnds, frontend
  <2>2. e \in Events /\ e.topic = "dead" /\ e.gen = g
    BY DEF Event, Events, Topics
  <2>3. loop'[g] \in Over /\ g = gens
    BY <2>1, Zenon DEF IInv, ManagerTyped, LastClient, Over
  <2>4. ChanQr'
    BY <2>1, Zenon DEF DeadInv, ChanQr
  <2> HIDE DEF e
  <2> QED
    BY <1>0, <1>5, <2>1, <2>2, <2>3, <2>4, DeadEmits, Zenon
<1>6. ASSUME NEW g \in Gens, pump(g) PROVE DeadInv'
  <2>1. ui' = ui /\ gens' = gens /\ loop' = loop /\ (wire' = wire \/ Emit(Head(chan[g])))
    BY <1>6, Zenon DEF pump, frontend, backend
  <2>2. ChanQr'
    <3>1. \A h \in Gens : \A i \in 1..Len(chan'[h]) :
             \E j \in 1..Len(chan[h]) : chan'[h][i] = chan[h][j]
      BY <1>6, ChanTail, Zenon
    <3>2. ASSUME NEW h \in Gens, NEW i \in 1..Len(chan'[h])
          PROVE  chan'[h][i].topic # "dead" /\ (chan'[h][i].topic = "qr" => chan'[h][i].gen <= gens)
      <4>1. PICK j \in 1..Len(chan[h]) : chan'[h][i] = chan[h][j]
        BY <3>1, Zenon
      <4> QED
        BY <4>1, Zenon DEF DeadInv, ChanQr
    <3> QED
      BY <2>1, <3>2, Zenon DEF ChanQr
  <2>3. /\ Head(chan[g]) \in Events /\ Head(chan[g]).topic # "dead"
        /\ Head(chan[g]).topic = "qr" => Head(chan[g]).gen <= gens
    <3>1. Head(chan[g]) = chan[g][1] /\ chan[g][1] \in Events /\ 1 \in 1..Len(chan[g])
      BY <1>6, ChanTail, Zenon
    <3> QED
      BY <3>1, Zenon DEF DeadInv, ChanQr
  <2>4. CASE wire' = wire
    BY <2>1, <2>2, <2>4, Zenon DEF DeadInv, WireDead, UiDead
  <2>5. CASE Emit(Head(chan[g]))
    BY <1>0, <1>6, <2>1, <2>2, <2>3, <2>5, DeadEmits, Zenon
  <2> QED
    BY <2>1, <2>4, <2>5, Zenon
<1>7. ASSUME NEW a \in Accounts, spawn_history_decode(a) PROVE DeadInv'
  <2>1. PICK g \in Gens : Emit(Event("history", g, a))
    BY <1>7, Zenon DEF spawn_history_decode
  <2>2. chan' = chan /\ ui' = ui /\ gens' = gens /\ loop' = loop
    BY <1>7, Zenon DEF spawn_history_decode, frontend, backend
  <2>3. Event("history", g, a) \in Events /\ Event("history", g, a).topic = "history"
    BY DEF Event, Events, Topics
  <2>4. ChanQr'
    BY <2>2, Zenon DEF DeadInv, ChanQr
  <2> QED
    BY <1>0, <1>7, <2>1, <2>2, <2>3, <2>4, DeadEmits, Zenon
<1>8. ASSUME NEW c \in Calls, FinishWork(c) PROVE DeadInv'
  <2>1. /\ UNCHANGED <<wire, ui, gens, loop>>
        /\ chan' = chan \/ Send(call[c].gen, "loggedout", None)
    BY <1>8, Zenon DEF FinishWork, frontend, backend
  <2>2. "loggedout" \in Topics \ {"dead"} /\ None \in Accounts \cup {None} /\ "loggedout" # "qr"
    BY Zenon DEF Topics
  <2>3. CASE chan' = chan
    BY <2>1, <2>3, Zenon DEF DeadInv, ChanQr, WireDead, UiDead
  <2> QED
    BY <2>1, <2>2, <2>3, DeadSends, Zenon
<1>9. CASE Deliver
  BY <1>9, DeadDeliver, Zenon
<1> QED
  BY <1>0, <1>1, <1>2, <1>3, <1>4, <1>5, <1>6, <1>7, <1>8, <1>9, EventKinds, Zenon

\* The state of a launched app: no client, no event, nothing shown.
LEMMA InitDead ==
    ASSUME Init
    PROVE  LastClient /\ EventsTyped /\ DeadInv
<1>1. /\ map = 0 /\ gens = 0 /\ keys = file /\ file \in {0, 1}
      /\ loop = [g \in Gens |-> "none"] /\ chan = [g \in Gens |-> <<>>] /\ wire = <<>>
      /\ ui = [jid |-> None, dead |-> FALSE, qr |-> 0]
  BY Zenon DEF Init
<1>2. \A k \in 1..(MaxGen + 1) : k > keys => acct[k] = None
  <2>1. PICK a \in Accounts \cup {None} :
           /\ acct = [k \in 1..(MaxGen + 1) |-> IF k = 1 THEN a ELSE None]
           /\ file \in (IF a = None THEN {0, 1} ELSE {1})
    BY Zenon DEF Init
  <2>2. CASE a = None
    BY <2>1, <2>2, Zenon
  <2>3. CASE a # None
    <3>1. keys = 1
      BY <1>1, <2>1, <2>3, Zenon
    <3>2. \A k \in 1..(MaxGen + 1) : k > keys => k # 1
      BY <3>1
    <3> QED
      BY <2>1, <3>2, Zenon
  <2> QED
    BY <2>2, <2>3, Zenon
<1>3. \A g \in Gens : loop[g] = "none" /\ chan[g] = <<>>
  BY <1>1, Zenon
<1>4. LastClient
  BY <1>1, <1>2, <1>3, Zenon DEF LastClient
<1>5. Len(<<>>) = 0 /\ (\A i \in 1..0 : FALSE) /\ <<>> \in Seq(Events) /\ 0 \in 0..MaxGen
  BY SessionAssumption
<1>6. EventsTyped
  BY <1>1, <1>5, Zenon DEF EventsTyped
<1>7. ChanQr /\ WireDead
  BY <1>1, <1>3, <1>5, Zenon DEF ChanQr, WireDead
<1>8. ui.dead = FALSE /\ ui.qr = 0 /\ 0 <= gens
  BY <1>1
<1>9. UiDead
  BY <1>8, Zenon DEF UiDead
<1> QED
  BY <1>4, <1>6, <1>7, <1>9, Zenon DEF DeadInv

\* Once the user has seen a code of the current client, "dead" is about that
\* client: LoopEnds emits the end of a client to the webview before a later
\* client's pump can emit a code.
THEOREM DeadTheorem == Spec => []DeadIsReal
<1> DEFINE Inv == IInv /\ LastClient /\ EventsTyped /\ DeadInv
<1>1. Init => Inv
  BY InitIInv, InitDead, Zenon
<1>2. Inv /\ IInv' /\ [Next]_sessionVars => Inv'
  BY LastStep, EventsStep, DeadStep, Zenon
<1>3. Inv => DeadIsReal
  <2> SUFFICES ASSUME Inv, ui.dead, map # 0, ui.qr = map PROVE loop[map] # "running"
    BY Zenon DEF DeadIsReal
  <2> QED
    BY Zenon DEF LastClient, DeadInv, UiDead
<1> HIDE DEF Inv
<1> QED
  BY SessionInvariant, <1>1, <1>2, <1>3, PTL DEF Spec
----------------------------------------------------------------------------
(* The account that is shown *)

\* A pairing that was sent is not lost on its way to the webview.
LEMMA PairedSent ==
    ASSUME EventsTyped, NEW g, NEW topic \in Topics, NEW a \in Accounts \cup {None}, Send(g, topic, a)
    PROVE  /\ PairedInChan => PairedInChan'
           /\ g \in Gens /\ topic = "paired" => PairedInChan'
<1>1. ChanAdds(g, Event(topic, g, a))
  BY ChanGrows, Zenon
<1>2. Event(topic, g, a).topic = topic
  BY DEF Event
<1>3. ASSUME PairedInChan PROVE PairedInChan'
  <2>0. PICK h \in Gens : \E i \in 1..Len(chan[h]) : chan[h][i].topic = "paired"
    BY <1>3, Zenon DEF PairedInChan
  <2>1. PICK i \in 1..Len(chan[h]) : chan[h][i].topic = "paired"
    BY <2>0, Zenon
  <2>2. i \in 1..Len(chan'[h]) /\ chan'[h][i] = chan[h][i]
    BY <1>1, Zenon DEF ChanAdds
  <2> QED
    BY <2>1, <2>2, Zenon DEF PairedInChan
<1>4. ASSUME g \in Gens, topic = "paired" PROVE PairedInChan'
  <2>1. PICK i \in 1..Len(chan'[g]) : chan'[g][i] = Event(topic, g, a)
    BY <1>1, <1>4, Zenon DEF ChanAdds
  <2> QED
    BY <1>2, <1>4, <2>1, Zenon DEF PairedInChan
<1> QED
  BY <1>3, <1>4, Zenon

LEMMA PairedEmitted ==
    ASSUME EventsTyped, NEW e \in Events, Emit(e)
    PROVE  /\ PairedOnWire => PairedOnWire'
           /\ e.topic = "paired" => PairedOnWire'
<1>1. /\ Len(wire) \in Nat /\ Len(wire') = Len(wire) + 1 /\ wire'[Len(wire) + 1] = e
      /\ \A i \in 1..Len(wire) : wire'[i] = wire[i] /\ i \in 1..Len(wire')
  BY WireGrows, Zenon
<1>2. Len(wire) + 1 \in 1..Len(wire')
  BY <1>1
<1> QED
  BY <1>1, <1>2, Zenon DEF PairedOnWire

LEMMA PairedPumped ==
    ASSUME EventsTyped, NEW g \in Gens, pump(g)
    PROVE  PairedInChan \/ PairedOnWire => PairedInChan' \/ PairedOnWire'
<1>1. /\ Head(chan[g]) = chan[g][1] /\ chan[g][1] \in Events
      /\ \A h \in Gens : \A j \in 1..Len(chan[h]) :
            (h # g \/ j # 1) => \E i \in 1..Len(chan'[h]) : chan'[h][i] = chan[h][j]
  BY ChanTail, Zenon
<1>2. \/ wire' = wire /\ Head(chan[g]).topic = "history"
      \/ Emit(Head(chan[g]))
  BY Zenon DEF pump
<1>3. PairedOnWire => PairedOnWire'
  <2>1. CASE wire' = wire
    BY <2>1, Zenon DEF PairedOnWire
  <2>2. CASE Emit(Head(chan[g]))
    BY <1>1, <2>2, PairedEmitted, Zenon
  <2> QED
    BY <1>2, <2>1, <2>2, Zenon
<1>4. ASSUME PairedInChan PROVE PairedInChan' \/ PairedOnWire'
  <2>0. PICK h \in Gens : \E j \in 1..Len(chan[h]) : chan[h][j].topic = "paired"
    BY <1>4, Zenon DEF PairedInChan
  <2>1. PICK j \in 1..Len(chan[h]) : chan[h][j].topic = "paired"
    BY <2>0, Zenon
  <2>2. CASE h # g \/ j # 1
    <3>1. PICK i \in 1..Len(chan'[h]) : chan'[h][i] = chan[h][j]
      BY <1>1, <2>2, Zenon
    <3> QED
      BY <2>1, <3>1, Zenon DEF PairedInChan
  <2>3. CASE h = g /\ j = 1
    <3>1. Head(chan[g]).topic = "paired" /\ "paired" # "history"
      BY <1>1, <2>1, <2>3, Zenon
    <3>2. Emit(Head(chan[g]))
      BY <1>2, <3>1, Zenon
    <3> QED
      BY <1>1, <3>1, <3>2, PairedEmitted, Zenon
  <2> QED
    BY <2>2, <2>3, Zenon
<1> QED
  BY <1>3, <1>4, Zenon

LEMMA PairedDelivered ==
    ASSUME EventsTyped, Deliver, PairedOnWire
    PROVE  PairedOnWire' \/ Head(wire).topic = "paired"
<1>1. PICK i \in 1..Len(wire) : wire[i].topic = "paired"
  BY Zenon DEF PairedOnWire
<1>2. /\ Head(wire) = wire[1] /\ Len(wire) \in Nat /\ Len(wire') = Len(wire) - 1
      /\ \A j \in 1..Len(wire') : wire'[j] = wire[j + 1]
  BY WireTail, Zenon
<1>3. CASE i = 1
  BY <1>1, <1>2, <1>3, Zenon
<1>4. CASE i # 1
  <2>1. i - 1 \in 1..Len(wire') /\ (i - 1) + 1 = i
    BY <1>2, <1>4
  <2>2. wire'[i - 1] = wire[(i - 1) + 1]
    BY <1>2, <2>1, Zenon
  <2>3. wire'[i - 1].topic = "paired"
    BY <1>1, <2>1, <2>2, Zenon
  <2> QED
    BY <2>1, <2>3, Zenon DEF PairedOnWire
<1> QED
  BY <1>3, <1>4, Zenon
\* An invocation goes on as the account shown requires.
GoesOn(c) ==
    \/ call'[c] = call[c]
    \/ /\ Named(c)' /\ (Wiping(c)' => Wiping(c))
       /\ Wiping(c) \/ Refreshing(c) => Wiping(c)' \/ Refreshing(c)'

\* A step that keeps the account of the file and the one that is shown.
LEMMA StatusKept ==
    ASSUME StatusInv, \A c \in Calls : GoesOn(c), Account' = Account, file \in kept => file' \in kept',
           front = "off" => front' = "off", outdated' = outdated, ui'.jid = ui.jid,
           PairedInChan \/ PairedOnWire => PairedInChan' \/ PairedOnWire' \/ front' = "off"
    PROVE  StatusInv'
<1>1. ASSUME NEW c \in Calls
      PROVE  /\ Named(c)' /\ (Wiping(c)' => Wiping(c))
             /\ Wiping(c) \/ Refreshing(c) => Wiping(c)' \/ Refreshing(c)'
  <2>1. CASE call'[c] = call[c]
    BY <2>1, Zenon DEF StatusInv, Named, Wiping, Refreshing
  <2> QED
    BY <2>1, Zenon DEF GoesOn
<1>2. \A c \in Calls : Named(c)' /\ (Wiping(c)' => outdated' \/ ui'.jid = None)
  BY <1>1, Zenon DEF StatusInv
<1>3. Corrected'
  <2>1. CASE \E c \in Calls : Wiping(c) \/ Refreshing(c)
    <3>1. PICK c \in Calls : Wiping(c) \/ Refreshing(c)
      BY <2>1, Zenon
    <3> QED
      BY <1>1, <3>1, Zenon DEF Corrected
  <2>2. CASE PairedInChan \/ PairedOnWire
    BY <2>2, Zenon DEF Corrected
  <2>3. CASE outdated \/ file \in kept \/ front = "off" \/ ui.jid = Account
    BY <2>3, Zenon DEF Corrected
  <2> QED
    BY <2>1, <2>2, <2>3, Zenon DEF StatusInv, Corrected
<1> QED
  BY <1>2, <1>3, Zenon DEF StatusInv

\* The status is asked for, or will be after a reset.
LEMMA StatusAsked ==
    ASSUME StatusInv, NEW c \in Calls, Only(c), call'[c].at = "sent",
           call'[c].for \in {"boot", "again", "paired", "conn", "bootreset"},
           outdated' = outdated, ui'.jid = ui.jid
    PROVE  StatusInv'
<1>1. Named(c)' /\ ~Wiping(c)'
  BY Zenon DEF Named, Wiping, Resetting
<1>2. Refreshing(c)'
  BY Zenon DEF Refreshing
<1>3. ASSUME NEW d \in Calls, d # c
      PROVE  Named(d)' /\ (Wiping(d)' => Wiping(d))
  BY <1>3, Zenon DEF Only, StatusInv, Named, Wiping
<1> QED
  BY <1>1, <1>2, <1>3, Zenon DEF StatusInv, Corrected

\* resetAll clears the account and goes on to delete the key.
LEMMA StatusCleared ==
    ASSUME IInv, EventsTyped, StatusInv, NEW c \in Calls, resetAll(c)
    PROVE  StatusInv'
<1>1. Only(c) /\ call'[c].for = "resetall" /\ call'[c].at = "clear"
  BY FrontendCalls, Zenon
<1>2. ui'.jid = None
  <2>1. ui' = [ui EXCEPT !.jid = None, !.dead = FALSE]
    BY Zenon DEF resetAll
  <2> QED
    BY <2>1, UiFacts, Zenon
<1>3. Named(c)' /\ Wiping(c)'
  BY <1>1, Zenon DEF Named, Wiping, Resetting
<1>4. \A d \in Calls : d # c => Named(d)'
  BY <1>1, Zenon DEF Only, StatusInv, Named
<1> QED
  BY <1>2, <1>3, <1>4, Zenon DEF StatusInv, Corrected

\* A boot keeps the account of the file: a new key is not paired.
LEMMA BootAccount ==
    ASSUME IInv, LastClient, boot \/ UNCHANGED <<file, acct>>, kept' = kept
    PROVE  Account' = Account /\ (file \in kept => file' \in kept')
<1>1. CASE UNCHANGED <<file, acct>>
  BY <1>1, Zenon DEF Account
<1>2. CASE boot
  <2>1. ManagerTyped /\ acct' = acct
    BY <1>2, Zenon DEF IInv, boot
  <2>2. /\ file = 0 => file' = keys + 1
        /\ file # 0 => file' = file
        /\ gens' = gens + 1 /\ gens' \in 1..MaxGen
    BY <1>2, <2>1, Boots, Zenon
  <2>3. kept \subseteq 1..keys /\ gens \in 0..MaxGen /\ keys \in 0..(gens + 1)
    BY <2>1, Zenon DEF ManagerTyped
  <2>4. CASE file = 0
    <3>1. keys + 1 \in 1..(MaxGen + 1) /\ keys + 1 > keys /\ keys + 1 # 0 /\ 0 \notin 1..keys
      BY <2>2, <2>3, SessionAssumption
    <3>2. acct[keys + 1] = None
      BY <3>1, Zenon DEF LastClient
    <3> QED
      BY <2>1, <2>2, <2>3, <2>4, <3>1, <3>2, Zenon DEF Account
  <2>5. CASE file # 0
    BY <2>1, <2>2, <2>5, Zenon DEF Account
  <2> QED
    BY <2>4, <2>5, Zenon
<1> QED
  BY <1>1, <1>2, Zenon
\* One invocation goes on, the frontend and the events stay.
LEMMA StatusCall ==
    ASSUME StatusInv, NEW c \in Calls, Only(c), GoesOn(c),
           Account' = Account, file \in kept => file' \in kept',
           UNCHANGED <<chan, wire, front, ui, outdated>>
    PROVE  StatusInv'
<1>1. \A d \in Calls : GoesOn(d)
  BY Zenon DEF Only, GoesOn
<1>2. (PairedInChan => PairedInChan') /\ (PairedOnWire => PairedOnWire')
  BY Zenon DEF PairedInChan, PairedOnWire
<1>3. ui'.jid = ui.jid
  BY Zenon
<1> QED
  BY <1>1, <1>2, <1>3, StatusKept, Zenon

\* get_or_create, its failure and a reset up to its answer.
LEMMA StatusManager ==
    ASSUME IInv, LastClient, StatusInv, NEW c \in Calls,
           Locks(c) \/ Join(c) \/ ResetBoots(c) \/ Cleared(c)
    PROVE  StatusInv'
<1>0. Named(c)
  BY Zenon DEF StatusInv
<1>1. CASE get_or_create(c)
  <2>1. /\ UNCHANGED <<chan, wire, front, ui, outdated, kept>>
        /\ boot \/ UNCHANGED <<file, acct>>
        /\ call[c].at = "sent" /\ call[c].for \notin Resets
    BY <1>1, Zenon DEF get_or_create, backend, bridge, frontend, history
  <2>2. /\ Only(c) /\ call'[c].for = call[c].for
        /\ call'[c].at = IF call[c].for \in Works THEN "work" ELSE "reply"
    BY <1>1, ManagerCalls, Zenon
  <2>3. Account' = Account /\ (file \in kept => file' \in kept')
    BY <2>1, BootAccount, Zenon
  <2>4. GoesOn(c)
    BY <2>1, <2>2, Zenon DEF GoesOn, Named, Wiping, Refreshing, Resetting, Resets, Works
  <2> QED
    BY <2>1, <2>2, <2>3, <2>4, StatusCall, Zenon
<1>2. CASE BootFails(c)
  <2>1. /\ UNCHANGED <<chan, wire, front, ui, outdated, kept, file, acct>>
        /\ call[c].at = "sent" /\ call[c].for \notin Resets
    BY <1>2, Zenon DEF BootFails, backend, bridge, frontend, history
  <2>2. /\ Only(c)
        /\ \/ call[c].for \in Works /\ call'[c].for = "launch" /\ call'[c].at = "idle"
           \/ call'[c].for = call[c].for /\ call'[c].at = "reply"
    BY <1>2, FrontendCalls, Zenon
  <2>3. Account' = Account /\ (file \in kept => file' \in kept')
    BY <2>1, BootAccount, Zenon
  <2>4. GoesOn(c)
    BY <2>1, <2>2, Zenon DEF GoesOn, Named, Wiping, Refreshing, Resetting, Resets, Works
  <2> QED
    BY <2>1, <2>2, <2>3, <2>4, StatusCall, Zenon
<1>3. CASE ResetTakes(c) \/ Join(c)
  <2>1. UNCHANGED <<chan, wire, front, ui, outdated, kept, file, acct>>
    BY <1>3, Zenon DEF ResetTakes, Join, bridge, frontend, history
  <2>2. /\ Only(c) /\ call'[c].for = call[c].for
        /\ \/ call[c].at = "sent" /\ call[c].for \in Resets /\ call'[c].at = "join"
           \/ call[c].at = "join" /\ call'[c].at = "delete"
    BY <1>3, ManagerCalls, Zenon DEF ResetTakes, Join
  <2>3. Account' = Account /\ (file \in kept => file' \in kept')
    BY <2>1, BootAccount, Zenon
  <2>4. call[c].for \in Resets
    BY <1>0, <2>2, Zenon DEF Named, Resetting
  <2>5. GoesOn(c)
    BY <2>2, <2>4, Zenon DEF GoesOn, Named, Wiping, Refreshing, Resetting, Resets
  <2> QED
    BY <2>1, <2>2, <2>3, <2>5, StatusCall, Zenon
<1>4. CASE ResetBoots(c)
  <2>1. /\ UNCHANGED <<chan, wire, front, ui, outdated, kept>>
        /\ boot \/ UNCHANGED <<file, acct>>
        /\ call[c].at = "boot"
    BY <1>4, Zenon DEF ResetBoots, bridge, frontend
  <2>2. Only(c) /\ call'[c].for = call[c].for /\ call'[c].at = "reply"
    BY <1>4, ManagerCalls, Zenon
  <2>3. Account' = Account /\ (file \in kept => file' \in kept')
    BY <2>1, BootAccount, Zenon
  <2>4. GoesOn(c)
    BY <2>1, <2>2, Zenon DEF GoesOn, Named, Wiping, Refreshing, Resetting
  <2> QED
    BY <2>1, <2>2, <2>3, <2>4, StatusCall, Zenon
<1>5. CASE Cleared(c)
  <2>1. /\ UNCHANGED <<chan, wire, front, ui, outdated, kept, file, acct>>
        /\ call[c].at = "clear" /\ Invoke(c, "resetall")
    BY <1>5, Zenon DEF Cleared, backend, bridge, frontend, history
  <2>2. Only(c) /\ call'[c].for = "resetall" /\ call'[c].at = "sent"
    BY <2>1, FrontendCalls, Zenon
  <2>3. Account' = Account /\ (file \in kept => file' \in kept')
    BY <2>1, BootAccount, Zenon
  <2>4. GoesOn(c)
    BY <1>0, <2>1, <2>2, Zenon DEF GoesOn, Named, Wiping, Refreshing, Resetting
  <2> QED
    BY <2>1, <2>2, <2>3, <2>4, StatusCall, Zenon
<1> QED
  BY <1>1, <1>2, <1>3, <1>4, <1>5, Zenon DEF Locks

\* The key is deleted: nobody is paired, and resetAll shows nobody; or it is kept.
LEMMA StatusDelete ==
    ASSUME IInv, StatusInv, NEW c \in Calls, delete_db_files(c)
    PROVE  StatusInv'
<1>1. UNCHANGED <<front, ui, outdated>> /\ call[c].at = "delete"
  BY Zenon DEF delete_db_files, frontend
<1>2. Only(c) /\ call'[c].for = call[c].for /\ call'[c].at = "boot"
  BY ManagerCalls, Zenon
<1>3. call[c].for \in Resets
  BY <1>1, Zenon DEF StatusInv, Named, Resetting
<1>4. map = 0 /\ \A d \in Calls : call[d].at # "join"
  BY <1>1, LockMine, Zenon DEF Resetting
<1>5. \A g \in Gens : loop[g] # "running"
  BY <1>4, NoLoop, Zenon
<1>6. file' = 0 \/ file' \in kept'
  BY <1>5, Zenon DEF delete_db_files, Open
<1>7. Named(c)' /\ ~Wiping(c)'
  BY <1>2, <1>3, Zenon DEF Named, Wiping
<1>8. ASSUME NEW d \in Calls, d # c PROVE Named(d)' /\ (Wiping(d)' => Wiping(d))
  BY <1>2, <1>8, Zenon DEF Only, StatusInv, Named, Wiping
<1>9. \A d \in Calls : Named(d)' /\ (Wiping(d)' => outdated' \/ ui'.jid = None)
  BY <1>1, <1>7, <1>8, Zenon DEF StatusInv
<1>10. CASE file' \in kept'
  BY <1>9, <1>10, Zenon DEF StatusInv, Corrected
<1>11. CASE file' = 0
  <2>1. Account' = None
    BY <1>11, Zenon DEF Account
  <2>2. CASE call[c].for = "bootreset"
    BY <1>2, <1>9, <2>2, Zenon DEF StatusInv, Corrected, Refreshing
  <2>3. CASE call[c].for = "resetall"
    <3>1. outdated \/ ui.jid = None
      BY <1>1, <2>3, Zenon DEF StatusInv, Wiping
    <3> QED
      BY <1>1, <1>9, <2>1, <3>1, Zenon DEF StatusInv, Corrected
  <2> QED
    BY <1>3, <2>2, <2>3, Zenon DEF Resets
<1> QED
  BY <1>6, <1>10, <1>11, Zenon
\* A status is shown: it is of the client in the map, or counts as outdated.
LEMMA StatusReplied ==
    ASSUME IInv, LastClient, EventsTyped, StatusInv, NEW c \in Calls, refreshStatus(c)
    PROVE  StatusInv'
<1>1. /\ UNCHANGED <<chan, wire, file, acct, key, map, kept>>
      /\ call[c].at = "reply" /\ call[c].for \in Statuses
      /\ call' = [call EXCEPT ![c] = IdleCall]
  BY Zenon DEF refreshStatus, backend, bridge, history
<1>2. Only(c) /\ call'[c].for = "launch" /\ call'[c].at = "idle"
  BY <1>1, FrontendCalls, Zenon
<1>3. Named(c)' /\ ~Wiping(c)'
  BY <1>2, Zenon DEF Named, Wiping, Resetting
<1>4. ASSUME NEW d \in Calls, d # c PROVE Named(d)' /\ (Wiping(d)' => Wiping(d))
  BY <1>2, <1>4, Zenon DEF Only, StatusInv, Named, Wiping
<1>5. \A d \in Calls : Named(d)' /\ (Wiping(d)' => Wiping(d))
  BY <1>3, <1>4, Zenon
<1>6. CASE call[c].for = "launch"
  <2>1. UNCHANGED <<front, ui, outdated>>
    BY <1>6, Zenon DEF refreshStatus
  <2>2. GoesOn(c)
    BY <1>3, <1>6, Zenon DEF GoesOn, Wiping, Refreshing
  <2>3. Account' = Account /\ (file \in kept => file' \in kept')
    BY <1>1, Zenon DEF Account
  <2> QED
    BY <1>1, <1>2, <2>1, <2>2, <2>3, StatusCall, Zenon
<1>7. CASE call[c].for # "launch" /\ call[c].gen = 0
  <2>1. outdated'
    BY <1>7, Zenon DEF refreshStatus
  <2> QED
    BY <1>5, <2>1, Zenon DEF StatusInv, Corrected
<1>8. CASE call[c].for # "launch" /\ call[c].gen # 0
  <2> DEFINE late == \/ call[c].gen # map \/ call[c].jid # acct[key[map]]
                     \/ \E d \in Calls : call[d].for \in Resets /\ ~Idle(d)
  <2>1. ui' = [ui EXCEPT !.jid = call[c].jid] /\ outdated' = late
    BY <1>8, Zenon DEF refreshStatus
  <2>2. call[c].jid \in Accounts \cup {None}
    BY DEF IInv, ManagerTyped, CallRecord
  <2>3. ui'.jid = call[c].jid
    BY <2>1, <2>2, UiFacts, Zenon
  <2>4. ASSUME NEW d \in Calls, Wiping(d)' PROVE outdated'
    <3>1. call[d].for \in Resets /\ ~Idle(d)
      BY <1>5, <2>4, Zenon DEF Wiping, Idle, Resets
    <3> QED
      BY <2>1, <3>1, Zenon
  <2>5. CASE late
    BY <1>5, <2>1, <2>5, Zenon DEF StatusInv, Corrected
  <2>6. CASE ~late
    <3>1. call[c].gen = map /\ call[c].jid = acct[key[map]]
      BY <2>6, Zenon
    <3>2. map # 0 /\ key[map] = file
      BY <1>8, <3>1, Zenon DEF LastClient
    <3>3. map \in 1..gens
      BY <3>2, SessionAssumption DEF IInv, ManagerTyped
    <3>4. file # 0
      BY <3>2, <3>3, Zenon DEF IInv, ManagerTyped
    <3>5. ui'.jid = Account'
      BY <1>1, <2>3, <3>1, <3>2, <3>4, Zenon DEF Account
    <3> QED
      BY <1>5, <2>4, <3>5, Zenon DEF StatusInv, Corrected
  <2> QED
    BY <2>5, <2>6, Zenon
<1> QED
  BY <1>6, <1>7, <1>8, Zenon

\* The frontend's own steps: a reset answered, a start, a user's command.
LEMMA StatusFront ==
    ASSUME IInv, EventsTyped, StatusInv,
           \/ \E c \in Calls : ResetReply(c) \/ UserAsks(c)
           \/ startEventBridge \/ CheckStale \/ LoadSnapshot \/ LoadTails \/ UNCHANGED sessionVars
    PROVE  StatusInv'
<1>1. UNCHANGED <<chan, wire, file, acct, kept>>
  BY Zenon DEF ResetReply, UserAsks, startEventBridge, CheckStale, LoadSnapshot, LoadTails, sessionVars,
     backend, bridge, history
<1>2. Account' = Account /\ (file \in kept => file' \in kept')
  BY <1>1, Zenon DEF Account
<1>3. (PairedInChan => PairedInChan') /\ (PairedOnWire => PairedOnWire')
  BY <1>1, Zenon DEF PairedInChan, PairedOnWire
<1>4. ASSUME call' = call, UNCHANGED <<ui, outdated>>, front = "off" => front' = "off"
      PROVE  StatusInv'
  <2>1. ui'.jid = ui.jid /\ \A c \in Calls : GoesOn(c)
    BY <1>4, Zenon DEF GoesOn
  <2> QED
    BY <1>2, <1>3, <1>4, <2>1, StatusKept, Zenon
<1>5. ASSUME NEW c \in Calls, UNCHANGED <<ui, outdated>>,
             NEW for \in {"boot", "again", "paired", "conn", "bootreset"}, Invoke(c, for)
      PROVE  StatusInv'
  <2>1. Only(c) /\ call'[c].for = for /\ call'[c].at = "sent" /\ ui'.jid = ui.jid /\ outdated' = outdated
    BY <1>5, FrontendCalls, Zenon
  <2> QED
    BY <2>1, StatusAsked, Zenon
<1>6. ASSUME NEW c \in Calls, ResetReply(c) PROVE StatusInv'
  <2>1. UNCHANGED <<ui, outdated>> /\ call[c].at = "reply"
    BY <1>6, Zenon DEF ResetReply
  <2>2. CASE Invoke(c, "again")
    BY <1>5, <2>1, <2>2, Zenon
  <2>3. CASE call[c].for = "resetall" /\ call' = [call EXCEPT ![c] = IdleCall] /\ UNCHANGED front
    <3>1. Only(c) /\ call'[c].for = "launch" /\ call'[c].at = "idle"
      BY <2>3, FrontendCalls, Zenon
    <3>2. GoesOn(c)
      BY <2>1, <2>3, <3>1, Zenon DEF GoesOn, Named, Wiping, Refreshing, Resetting
    <3> QED
      BY <1>1, <1>2, <2>1, <2>3, <3>1, <3>2, StatusCall, Zenon
  <2> QED
    BY <1>6, <2>2, <2>3, Zenon DEF ResetReply
<1>7. ASSUME NEW c \in Calls, UserAsks(c) PROVE StatusInv'
  <2>1. CASE resetAll(c)
    BY <2>1, StatusCleared, Zenon
  <2>2. ASSUME NEW for \in {"work", "logout"}, Invoke(c, for), UNCHANGED frontend
        PROVE  StatusInv'
    <3>1. Only(c) /\ call'[c].for = for /\ call'[c].at = "sent" /\ call[c].at = "idle"
      BY <1>7, <2>2, FrontendCalls, Zenon DEF UserAsks, Idle
    <3>2. GoesOn(c)
      BY <3>1, Zenon DEF GoesOn, Named, Wiping, Refreshing, Resetting
    <3>3. UNCHANGED <<front, ui, outdated>>
      BY <2>2, Zenon DEF frontend
    <3> QED
      BY <1>1, <1>2, <3>1, <3>2, <3>3, StatusCall, Zenon
  <2> QED
    BY <1>7, <2>1, <2>2, Zenon DEF UserAsks
<1>8. CASE startEventBridge
  BY <1>5, <1>8, Zenon DEF startEventBridge
<1>9. CASE CheckStale
  <2>1. UNCHANGED <<ui, outdated>> /\ front # "off"
    BY <1>9, Zenon DEF CheckStale
  <2>2. (\E c \in Calls : Invoke(c, "bootreset")) \/ call' = call
    BY <1>9, Zenon DEF CheckStale
  <2> QED
    BY <1>4, <1>5, <2>1, <2>2, Zenon
<1>10. CASE LoadSnapshot \/ LoadTails
  <2>1. UNCHANGED <<ui, outdated>> /\ front # "off" /\ call' = call
    BY <1>10, Zenon DEF LoadSnapshot, LoadTails
  <2> QED
    BY <1>4, <2>1, Zenon
<1>11. CASE UNCHANGED sessionVars
  BY <1>4, <1>11, Zenon DEF sessionVars, frontend
<1> QED
  BY <1>6, <1>7, <1>8, <1>9, <1>10, <1>11, Zenon
\* The clients' steps: a pairing is on its way to the frontend.
LEMMA StatusEvents ==
    ASSUME IInv, LastClient, EventsTyped, StatusInv,
           \/ \E g \in Gens : Dispatch(g) \/ LoopEnds(g) \/ LetGo(g) \/ pump(g)
           \/ \E a \in Accounts : spawn_history_decode(a)
           \/ \E c \in Calls : FinishWork(c)
    PROVE  StatusInv'
<1>1. UNCHANGED <<file, kept, front, ui, outdated>>
  BY Zenon DEF Dispatch, handle_pair_success, LoopEnds, LetGo, pump, spawn_history_decode,
     FinishWork, backend,
     frontend, history
<1>2. ASSUME acct' = acct, \A d \in Calls : GoesOn(d),
             PairedInChan \/ PairedOnWire => PairedInChan' \/ PairedOnWire'
      PROVE  StatusInv'
  <2>1. Account' = Account /\ (file \in kept => file' \in kept') /\ ui'.jid = ui.jid
    BY <1>1, <1>2, Zenon DEF Account
  <2> QED
    BY <1>1, <1>2, <2>1, StatusKept, Zenon
<1>3. call' = call => \A d \in Calls : GoesOn(d)
  BY Zenon DEF GoesOn
<1>4. /\ wire' = wire => (PairedOnWire => PairedOnWire')
      /\ chan' = chan => (PairedInChan => PairedInChan')
  BY Zenon DEF PairedOnWire, PairedInChan
<1>5. ASSUME NEW g \in Gens, Dispatch(g) PROVE StatusInv'
  <2>1. call' = call /\ wire' = wire
    BY <1>5, Zenon DEF Dispatch, handle_pair_success
  <2>2. PICK topic \in Topics, a \in Accounts \cup {None} :
           Send(g, topic, a) /\ (acct' = acct \/ topic = "paired")
    BY <1>5, Dispatched, Zenon
  <2>3. CASE acct' = acct
    BY <1>2, <1>3, <1>4, <2>1, <2>2, <2>3, PairedSent, Zenon
  <2>4. CASE topic = "paired"
    <3>1. PairedInChan'
      BY <2>2, <2>4, PairedSent, Zenon
    <3>2. \A d \in Calls : Named(d)' /\ (Wiping(d)' => outdated' \/ ui'.jid = None)
      BY <1>1, <2>1, Zenon DEF StatusInv, Named, Wiping
    <3> QED
      BY <3>1, <3>2, Zenon DEF StatusInv, Corrected
  <2> QED
    BY <2>2, <2>3, <2>4, Zenon
<1>6. ASSUME NEW g \in Gens, LoopEnds(g) PROVE StatusInv'
  <2>1. call' = call /\ chan' = chan /\ acct' = acct /\ Emit(Event("dead", g, None))
    BY <1>6, Zenon DEF LoopEnds
  <2>2. Event("dead", g, None) \in Events
    BY DEF Event, Events, Topics
  <2> QED
    BY <1>2, <1>3, <1>4, <2>1, <2>2, PairedEmitted, Zenon
<1>7. ASSUME NEW g \in Gens, pump(g) PROVE StatusInv'
  <2>1. call' = call /\ acct' = acct
    BY <1>7, Zenon DEF pump, backend
  <2> QED
    BY <1>2, <1>3, <1>7, <2>1, PairedPumped, Zenon
<1>8. ASSUME NEW a \in Accounts, spawn_history_decode(a) PROVE StatusInv'
  <2>1. call' = call /\ chan' = chan /\ acct' = acct
    BY <1>8, Zenon DEF spawn_history_decode, backend
  <2>2. PICK g \in Gens : Emit(Event("history", g, a))
    BY <1>8, Zenon DEF spawn_history_decode
  <2>3. Event("history", g, a) \in Events
    BY DEF Event, Events, Topics
  <2> QED
    BY <1>2, <1>3, <1>4, <2>1, <2>2, <2>3, PairedEmitted, Zenon
<1>9. ASSUME NEW c \in Calls, FinishWork(c) PROVE StatusInv'
  <2>1. /\ wire' = wire /\ acct' = acct /\ call[c].at = "work" /\ call' = [call EXCEPT ![c] = IdleCall]
        /\ chan' = chan \/ Send(call[c].gen, "loggedout", None)
    BY <1>9, Zenon DEF FinishWork, backend
  <2>2. Only(c) /\ call'[c].for = "launch" /\ call'[c].at = "idle"
    BY <2>1, FrontendCalls, Zenon
  <2>3. GoesOn(c)
    BY <2>1, <2>2, Zenon DEF GoesOn, Named, Wiping, Refreshing, Resetting
  <2>4. \A d \in Calls : GoesOn(d)
    BY <2>2, <2>3, Zenon DEF Only, GoesOn
  <2>5. "loggedout" \in Topics /\ None \in Accounts \cup {None}
    BY Zenon DEF Topics
  <2>6. PairedInChan => PairedInChan'
    BY <1>4, <2>1, <2>5, PairedSent, Zenon
  <2> QED
    BY <1>2, <1>4, <2>1, <2>4, <2>6, Zenon
<1>10. ASSUME NEW g \in Gens, LetGo(g) PROVE StatusInv'
  <2>1. call' = call /\ chan' = chan /\ wire' = wire /\ acct' = acct
    BY <1>10, Zenon DEF LetGo, bridge
  <2> QED
    BY <1>2, <1>3, <1>4, <2>1, Zenon
<1> QED
  BY <1>5, <1>6, <1>7, <1>8, <1>9, <1>10, Zenon

\* An event reaches the webview.
LEMMA StatusDeliver ==
    ASSUME IInv, EventsTyped, StatusInv, Deliver
    PROVE  StatusInv'
<1>1. UNCHANGED <<chan, file, acct, kept>>
  BY Zenon DEF Deliver, backend, history
<1>2. Account' = Account /\ (file \in kept => file' \in kept') /\ (PairedInChan => PairedInChan')
  BY <1>1, Zenon DEF Account, PairedInChan
<1>3. ASSUME call' = call, ui'.jid = ui.jid, outdated' = outdated, front' = front,
             front = "off" \/ Head(wire).topic # "paired"
      PROVE  StatusInv'
  <2>1. \A c \in Calls : GoesOn(c)
    BY <1>3, Zenon DEF GoesOn
  <2>2. PairedInChan \/ PairedOnWire => PairedInChan' \/ PairedOnWire' \/ front' = "off"
    BY <1>2, <1>3, PairedDelivered, Zenon
  <2> QED
    BY <1>2, <1>3, <2>1, <2>2, StatusKept, Zenon
<1>4. CASE front = "off"
  <2>1. call' = call /\ ui' = ui /\ outdated' = outdated /\ front' = front
    BY <1>4, Zenon DEF Deliver, frontend
  <2> QED
    BY <1>3, <1>4, <2>1, Zenon
<1>5. ASSUME NEW c \in Calls, Handle(Head(wire), c) PROVE StatusInv'
  <2>1. Head(wire).gen \in Gens
    <3>1. Head(wire) \in Events
      BY WireTail, Zenon
    <3> QED
      BY <3>1 DEF Events
  <2>2. ASSUME NEW for \in {"paired", "conn"}, Invoke(c, for), ui'.jid = ui.jid, outdated' = outdated
        PROVE  StatusInv'
    <3>1. Only(c) /\ call'[c].for = for /\ call'[c].at = "sent"
      BY <2>2, FrontendCalls, Zenon
    <3> QED
      BY <2>2, <3>1, StatusAsked, Zenon
  <2>3. CASE resetAll(c)
    BY <2>3, StatusCleared, Zenon
  <2>4. CASE Head(wire).topic = "paired" /\ OnPaired(c)
    <3>1. ui' = [ui EXCEPT !.qr = 0] /\ Invoke(c, "paired") /\ outdated' = outdated
      BY <2>4, Zenon DEF OnPaired
    <3>2. ui'.jid = ui.jid
      BY <3>1, UiFacts, Zenon
    <3> QED
      BY <2>2, <3>1, <3>2, Zenon
  <2>5. CASE Invoke(c, "conn") /\ UNCHANGED frontend
    <3>1. ui' = ui /\ outdated' = outdated
      BY <2>5, Zenon DEF frontend
    <3> QED
      BY <2>2, <2>5, <3>1, Zenon
  <2>6. CASE /\ Head(wire).topic \in {"qr", "dead", "message", "history"}
             /\ UNCHANGED <<call, front, outdated>>
             /\ \/ ui' = [ui EXCEPT !.dead = FALSE, !.qr = Head(wire).gen]
                \/ ui' = [ui EXCEPT !.dead = TRUE]
                \/ ui' = ui
    <3>1. ui'.jid = ui.jid
      BY <2>1, <2>6, UiFacts, Zenon
    <3>2. Head(wire).topic # "paired"
      BY <2>6, Zenon
    <3> QED
      BY <1>3, <2>6, <3>1, <3>2, Zenon
  <2>7. \/ resetAll(c)
        \/ Head(wire).topic = "paired" /\ OnPaired(c)
        \/ Invoke(c, "conn") /\ UNCHANGED frontend
        \/ /\ Head(wire).topic \in {"qr", "dead", "message", "history"}
           /\ UNCHANGED <<call, front, outdated>>
           /\ \/ ui' = [ui EXCEPT !.dead = FALSE, !.qr = Head(wire).gen]
              \/ ui' = [ui EXCEPT !.dead = TRUE]
              \/ ui' = ui
    BY <1>5, Zenon DEF Handle
  <2> QED
    BY <2>3, <2>4, <2>5, <2>6, <2>7, Zenon
<1> QED
  BY <1>4, <1>5, Zenon DEF Deliver

\* The app is launched, for the first time or again: nothing is asked of it yet.
LEMMA StatusLaunch ==
    ASSUME NEW f, NEW c \in Calls,
           f = [d \in Calls |-> IF d = c THEN [IdleCall EXCEPT !.at = "sent"] ELSE IdleCall]
    PROVE  \A d \in Calls : f[d].for = "launch" /\ f[d].at \in {"sent", "idle"}
<1>1. /\ IdleCall.for = "launch" /\ IdleCall.at = "idle"
      /\ [IdleCall EXCEPT !.at = "sent"].for = "launch" /\ [IdleCall EXCEPT !.at = "sent"].at = "sent"
  BY DEF IdleCall
<1> QED
  BY <1>1, Zenon

LEMMA StatusRestart ==
    ASSUME Restart PROVE StatusInv'
<1>1. \A d \in Calls : call'[d].for = "launch" /\ call'[d].at \in {"sent", "idle"}
  BY StatusLaunch, Zenon DEF Restart
<1>2. front' = "off"
  BY Zenon DEF Restart
<1> QED
  BY <1>1, <1>2, Zenon DEF StatusInv, Corrected, Named, Wiping, Resetting

LEMMA StatusInit ==
    ASSUME Init PROVE StatusInv
<1>1. \A d \in Calls : call[d].for = "launch" /\ call[d].at \in {"sent", "idle"}
  BY StatusLaunch, Zenon DEF Init
<1>2. front = "off"
  BY Zenon DEF Init
<1> QED
  BY <1>1, <1>2, Zenon DEF StatusInv, Corrected, Named, Wiping, Resetting

\* When nothing is under way the session store shows the account of the client in
\* the map, unless the last status was lost or outdated, or the key was kept by a reset
\* (refreshStatus, resetAll and the listeners of events.ts, for every interleaving
\* with get_or_create and reset).
THEOREM StatusTheorem == Spec => []StatusSettles
<1> DEFINE Inv == IInv /\ LastClient /\ EventsTyped /\ StatusInv
<1>1. Init => Inv
  BY InitIInv, InitDead, StatusInit, Zenon
<1>2. IInv /\ LastClient /\ EventsTyped /\ StatusInv /\ [Next]_sessionVars => StatusInv'
  <2>1. [Next]_sessionVars =>
           \/ \E c \in Calls : Locks(c) \/ Join(c) \/ ResetBoots(c) \/ Cleared(c)
           \/ \E c \in Calls : delete_db_files(c)
           \/ \E c \in Calls : refreshStatus(c)
           \/ \/ \E c \in Calls : ResetReply(c) \/ UserAsks(c)
              \/ startEventBridge \/ CheckStale \/ LoadSnapshot \/ LoadTails \/ UNCHANGED sessionVars
           \/ \/ \E g \in Gens : Dispatch(g) \/ LoopEnds(g) \/ LetGo(g) \/ pump(g)
              \/ \E a \in Accounts : spawn_history_decode(a)
              \/ \E c \in Calls : FinishWork(c)
           \/ Deliver \/ Restart
    BY Zenon DEF Next, Answers
  <2> QED
    BY <2>1, StatusManager, StatusDelete, StatusReplied, StatusFront, StatusEvents, StatusDeliver,
       StatusRestart, Zenon
<1>3. Inv /\ IInv' /\ [Next]_sessionVars => Inv'
  BY <1>2, LastStep, EventsStep, Zenon
<1>4. Inv => StatusSettles
  <2> SUFFICES ASSUME Inv, AtRest, ~outdated, map # 0, key[map] \notin kept
               PROVE  ui.jid = acct[key[map]]
    BY Zenon DEF StatusSettles
  <2>1. key[map] = file
    BY Zenon DEF LastClient
  <2>2. file # 0
    <3>1. map \in 1..gens
      BY SessionAssumption DEF IInv, ManagerTyped
    <3> QED
      BY <2>1, <3>1, Zenon DEF IInv, ManagerTyped
  <2>3. ~PairedInChan /\ ~PairedOnWire
    <3>1. Len(<<>>) = 0 /\ \A i \in 1..0 : FALSE
      OBVIOUS
    <3> QED
      BY <3>1, Zenon DEF AtRest, PairedInChan, PairedOnWire
  <2>4. \A c \in Calls : ~Wiping(c) /\ ~Refreshing(c)
    BY Zenon DEF AtRest, Idle, Wiping, Refreshing
  <2>5. front # "off"
    BY Zenon DEF AtRest
  <2> QED
    BY <2>1, <2>2, <2>3, <2>4, <2>5, Zenon DEF StatusInv, Corrected, Account
<1> HIDE DEF Inv
<1> QED
  BY SessionInvariant, <1>1, <1>3, <1>4, PTL DEF Spec

----------------------------------------------------------------------------
(* Who waits for whom *)

\* What an invocation at a place is for, and which client it has.
Placed(c) ==
    /\ call[c].at \in Resetting => call[c].for \in Resets
    /\ call[c].at = "reply" => call[c].for \in Statuses \cup Resets
    /\ call[c].at = "work" => call[c].gen \in 1..gens

\* The lock is held by a reset that has not answered yet.
HolderInv ==
    /\ lock # Free => call[lock].at \in Resetting
    /\ \A c \in Calls : Placed(c)

\* One invocation goes on; the lock stays with a reset.
LEMMA HolderKept ==
    ASSUME IInv, HolderInv, NEW c \in Calls, gens' \in Nat, gens <= gens',
           \A d \in Calls : d # c => call'[d] = call[d],
           Placed(c)',
           \/ lock' = lock /\ lock # c
           \/ lock' = Free
           \/ lock' = c /\ call'[c].at \in Resetting
    PROVE  HolderInv'
<1>1. lock \in Calls \cup {Free} /\ gens \in Nat
  BY SessionAssumption DEF IInv, ManagerTyped
<1>2. \A d \in Calls : d # c => Placed(d)'
  <2>1. 1..gens \subseteq 1..gens'
    BY <1>1
  <2> QED
    BY <2>1, Zenon DEF HolderInv, Placed
<1>3. lock' # Free => call'[lock'].at \in Resetting
  BY <1>1, SessionAssumption, Zenon DEF HolderInv
<1> QED
  BY <1>2, <1>3, Zenon DEF HolderInv

\* An invocation starts, is repeated or ends.
LEMMA HolderCalls ==
    ASSUME IInv, HolderInv, NEW c \in Calls, call[c].at \notin Resetting, UNCHANGED <<lock, gens>>,
           \/ \E for \in Statuses \cup Resets \cup Works : Invoke(c, for)
           \/ call' = [call EXCEPT ![c] = IdleCall]
           \/ call' = [call EXCEPT ![c] = [IdleCall EXCEPT !.for = "resetall", !.at = "clear"]]
    PROVE  HolderInv'
<1>1. PICK r : call' = [call EXCEPT ![c] = r] /\ r.at \in {"sent", "idle", "clear"}
  BY NewCalls, Zenon DEF Invoke
<1>2. call'[c] = r /\ \A d \in Calls : d # c => call'[d] = call[d]
  BY <1>1, Zenon DEF IInv, ManagerTyped
<1>3. Placed(c)'
  BY <1>1, <1>2, Zenon DEF Placed, Resetting
<1>4. lock # c
  BY SessionAssumption, Zenon DEF HolderInv
<1>5. gens \in Nat
  BY SessionAssumption DEF IInv, ManagerTyped
<1>6. gens' \in Nat /\ gens <= gens'
  BY <1>5
<1> QED
  BY <1>2, <1>3, <1>4, <1>6, HolderKept, Zenon

\* Answers, and what the frontend starts.
LEMMA HolderFront ==
    ASSUME IInv, HolderInv,
           \/ startEventBridge \/ CheckStale \/ LoadSnapshot \/ LoadTails \/ Deliver
           \/ \E c \in Calls : \/ UserAsks(c) \/ FinishWork(c) \/ Cleared(c)
                               \/ refreshStatus(c) \/ ResetReply(c)
    PROVE  HolderInv'
<1>1. UNCHANGED <<lock, gens>>
  BY Zenon DEF startEventBridge, CheckStale, LoadSnapshot, LoadTails, Deliver, UserAsks, FinishWork,
               Cleared, refreshStatus, ResetReply, backend
<1>2. {"boot", "bootreset", "paired", "conn", "work", "logout", "resetall", "again"}
          \subseteq Statuses \cup Resets \cup Works
  BY Zenon DEF Statuses, Resets, Works
<1>3. \/ call' = call
      \/ \E c \in Calls :
            /\ call[c].at \in {"idle", "work", "clear", "reply"}
            /\ \/ \E for \in {"boot", "bootreset", "paired", "conn", "work", "logout", "resetall", "again"} :
                     Invoke(c, for)
               \/ call' = [call EXCEPT ![c] = IdleCall]
               \/ call' = [call EXCEPT ![c] = [IdleCall EXCEPT !.for = "resetall", !.at = "clear"]]
  <2>1. CASE startEventBridge \/ CheckStale \/ LoadSnapshot \/ LoadTails
    BY <2>1, Zenon DEF startEventBridge, CheckStale, LoadSnapshot, LoadTails, Idle
  <2>2. CASE Deliver
    BY <2>2, Zenon DEF Deliver, Handle, OnPaired, resetAll, Idle
  <2>3. CASE \E c \in Calls : UserAsks(c)
    BY <2>3, Zenon DEF UserAsks, resetAll, Idle
  <2>4. CASE \E c \in Calls : FinishWork(c) \/ Cleared(c) \/ refreshStatus(c) \/ ResetReply(c)
    BY <2>4, Zenon DEF FinishWork, Cleared, refreshStatus, ResetReply
  <2> QED
    BY <2>1, <2>2, <2>3, <2>4, Zenon
<1>4. {"idle", "work", "clear", "reply"} \cap Resetting = {}
  BY Zenon DEF Resetting
<1>5. CASE call' = call
  BY <1>1, <1>5, Zenon DEF HolderInv, Placed
<1> QED
  BY <1>1, <1>2, <1>3, <1>4, <1>5, HolderCalls, Zenon

\* The steps of the session manager.
LEMMA HolderManager ==
    ASSUME IInv, IInv', HolderInv, NEW c \in Calls,
           \/ get_or_create(c) \/ BootFails(c) \/ ResetTakes(c)
           \/ Join(c) \/ delete_db_files(c) \/ ResetBoots(c)
    PROVE  HolderInv'
<1>1. /\ call \in [Calls -> CallRecord] /\ gens \in 0..MaxGen /\ map \in 0..gens
      /\ gens' \in 0..MaxGen /\ map' \in 0..gens' /\ gens \in Nat /\ gens' \in Nat /\ map' \in Nat
      /\ 0 \in 0..MaxGen /\ MaxGen \in Nat
  BY SessionAssumption DEF IInv, ManagerTyped
<1>2. gens <= gens'
  <2>1. gens' = gens \/ gens' = gens + 1
    BY Zenon DEF get_or_create, BootFails, ResetTakes, Join, delete_db_files, ResetBoots, boot, backend
  <2> QED
    BY <1>1, <2>1
<1>3. call[c] \in CallRecord /\ call[c].for \in Statuses \cup Resets \cup Works
      /\ call[c].gen \in 0..MaxGen
  BY <1>1, Zenon DEF CallRecord
<1>4. Resets \cap Works = {} /\ {"reply", "work", "join", "delete", "boot"} \subseteq Ats
      /\ {"reply", "work", "sent"} \cap Resetting = {} /\ {"join", "delete", "boot"} = Resetting
  BY Zenon DEF Resets, Works, Ats, Resetting
<1>5. CASE get_or_create(c)
  <2> DEFINE x == IF call[c].for \in Works THEN "work" ELSE "reply"
             z == acct[key'[map']]
  <2>1. /\ call' = [call EXCEPT ![c].at = x, ![c].gen = map', ![c].jid = z]
        /\ call[c].at = "sent" /\ lock' = lock /\ lock = Free
        /\ (map # 0 /\ map' = map) \/ map' = gens + 1
    BY <1>5, Zenon DEF get_or_create, boot, backend
  <2>2. map' \in 1..gens' /\ map' \in 0..MaxGen
    BY <1>1, <2>1
  <2>3. /\ call'[c].at = x /\ call'[c].gen = map' /\ call'[c].for = call[c].for
        /\ \A d \in Calls : d # c => call'[d] = call[d]
    <3>1. x \in Ats
      BY <1>4, Zenon
    <3>2. call' = [d \in Calls |-> IF d = c THEN [call[c] EXCEPT !.at = x, !.gen = map', !.jid = z] ELSE call[d]]
      BY <1>1, <2>1
    <3> HIDE DEF x, z
    <3> QED
      BY <1>3, <3>2 DEF CallRecord
  <2>4. Placed(c)'
    BY <1>3, <1>4, <2>2, <2>3, Zenon DEF Placed
  <2>5. lock # c
    BY <2>1, SessionAssumption, Zenon
  <2> HIDE DEF x, z
  <2> QED
    BY <1>1, <1>2, <2>1, <2>3, <2>4, <2>5, HolderKept, Zenon
<1>6. CASE BootFails(c)
  <2>1. /\ call[c].at = "sent" /\ call[c].for \notin Resets /\ lock' = lock /\ lock = Free /\ gens' = gens
        /\ call' = [call EXCEPT ![c] = IF call[c].for \in Works
                                         THEN IdleCall ELSE [call[c] EXCEPT !.at = "reply"]]
    BY <1>6, Zenon DEF BootFails, backend
  <2>2. CASE call[c].for \in Works
    <3>1. call' = [call EXCEPT ![c] = IdleCall] /\ call[c].at \notin Resetting
      BY <1>4, <2>1, <2>2, Zenon
    <3> QED
      BY <2>1, <3>1, HolderCalls, Zenon
  <2>3. CASE call[c].for \notin Works
    <3>1. /\ [call[c] EXCEPT !.at = "reply"].at = "reply"
          /\ [call[c] EXCEPT !.at = "reply"].for = call[c].for
      BY <1>3, Zenon DEF CallRecord
    <3>2. /\ call'[c].at = "reply" /\ call'[c].for = call[c].for
          /\ \A d \in Calls : d # c => call'[d] = call[d]
      BY <1>1, <2>1, <2>3, <3>1, Zenon
    <3>3. Placed(c)'
      BY <1>3, <1>4, <2>3, <3>2, Zenon DEF Placed
    <3> QED
      BY <1>1, <1>2, <2>1, <3>2, <3>3, HolderKept, Zenon
  <2> QED
    BY <2>2, <2>3, Zenon
<1>7. CASE ResetTakes(c)
  <2>1. /\ call' = [call EXCEPT ![c].at = "join", ![c].gen = map] /\ call[c].for \in Resets
        /\ lock' = c
    BY <1>7, Zenon DEF ResetTakes
  <2>2. map \in 0..MaxGen /\ "join" \in Ats
    BY <1>1, <1>4
  <2>3. /\ call'[c].at = "join" /\ call'[c].for = call[c].for
        /\ \A d \in Calls : d # c => call'[d] = call[d]
    <3>1. None \in Accounts \cup {None}
      BY Zenon
    <3> QED
      BY <1>1, <2>1, <2>2, <3>1, CallMoves, Zenon
  <2>4. Placed(c)' /\ call'[c].at \in Resetting
    <3>1. call'[c].for \in Resets /\ call'[c].at = "join"
      BY <2>1, <2>3, Zenon
    <3> QED
      BY <1>4, <3>1, Zenon DEF Placed
  <2> QED
    BY <1>1, <1>2, <2>1, <2>3, <2>4, HolderKept, Zenon
<1>8. CASE Join(c) \/ delete_db_files(c)
  <2>1. PICK x \in {"delete", "boot"} : call' = [call EXCEPT ![c].at = x]
    BY <1>8, Zenon DEF Join, delete_db_files
  <2>2. call[c].at \in Resetting /\ lock' = lock /\ lock = c
    BY <1>4, <1>8, LockMine, Zenon DEF Join, delete_db_files
  <2>3. /\ call'[c].at = x /\ call'[c].for = call[c].for
        /\ \A d \in Calls : d # c => call'[d] = call[d]
    <3>1. None \in Accounts \cup {None} /\ x \in Ats
      BY <1>4, Zenon
    <3> QED
      BY <1>1, <1>3, <2>1, <3>1, CallMoves, Zenon
  <2>4. Placed(c)' /\ call'[c].at \in Resetting
    BY <1>4, <2>2, <2>3, Zenon DEF Placed, HolderInv
  <2> QED
    BY <1>1, <1>2, <2>2, <2>3, <2>4, HolderKept, Zenon
<1>9. CASE ResetBoots(c)
  <2>1. /\ call' = [call EXCEPT ![c].at = "reply", ![c].gen = 0]
        /\ call[c].at \in Resetting /\ lock' = IF lock = c THEN Free ELSE lock
    BY <1>4, <1>9, Zenon DEF ResetBoots
  <2>2. lock' = Free
    BY <2>1, LockMine, Zenon
  <2>3. /\ call'[c].at = "reply" /\ call'[c].for = call[c].for
        /\ \A d \in Calls : d # c => call'[d] = call[d]
    <3>1. None \in Accounts \cup {None} /\ "reply" \in Ats
      BY <1>4, Zenon
    <3> QED
      BY <1>1, <2>1, <3>1, CallMoves, Zenon
  <2>4. Placed(c)'
    BY <1>4, <2>1, <2>3, Zenon DEF Placed, HolderInv
  <2> QED
    BY <1>1, <1>2, <2>2, <2>3, <2>4, HolderKept, Zenon
<1> QED
  BY <1>5, <1>6, <1>7, <1>8, <1>9, Zenon

\* Nothing is under way when the app is launched, but for the first status.
LEMMA HolderLaunch ==
    ASSUME NEW f, NEW c \in Calls,
           f = [d \in Calls |-> IF d = c THEN [IdleCall EXCEPT !.at = "sent"] ELSE IdleCall]
    PROVE  \A d \in Calls : f[d].at \notin Resetting \cup {"reply", "work"}
<1>1. \A d \in Calls : f[d].at \in {"sent", "idle"}
  BY StatusLaunch, Zenon
<1> QED
  BY <1>1, Zenon DEF Resetting

LEMMA HolderStep ==
    ASSUME IInv, IInv', HolderInv, [Next]_sessionVars
    PROVE  HolderInv'
<1>1. CASE \E c \in Calls : \/ get_or_create(c) \/ BootFails(c) \/ ResetTakes(c)
                            \/ Join(c) \/ delete_db_files(c) \/ ResetBoots(c)
  BY <1>1, HolderManager, Zenon
<1>2. CASE \/ startEventBridge \/ CheckStale \/ LoadSnapshot \/ LoadTails \/ Deliver
           \/ \E c \in Calls : \/ UserAsks(c) \/ FinishWork(c) \/ Cleared(c)
                               \/ refreshStatus(c) \/ ResetReply(c)
  BY <1>2, HolderFront, Zenon
<1>3. CASE \/ \E g \in Gens : Dispatch(g) \/ LoopEnds(g) \/ LetGo(g) \/ pump(g)
           \/ \E a \in Accounts : spawn_history_decode(a)
           \/ UNCHANGED sessionVars
  <2>1. UNCHANGED <<lock, gens, call>>
    BY <1>3, Zenon DEF Dispatch, handle_pair_success, LoopEnds, LetGo, pump,
       spawn_history_decode, backend, sessionVars
  <2> QED
    BY <2>1, Zenon DEF HolderInv, Placed
<1>4. CASE Restart
  <2>1. lock' = Free /\ \A d \in Calls : call'[d].at \notin Resetting \cup {"reply", "work"}
    BY <1>4, HolderLaunch, Zenon DEF Restart
  <2> QED
    BY <2>1, Zenon DEF HolderInv, Placed
<1> QED
  BY <1>1, <1>2, <1>3, <1>4, Zenon DEF Next, Locks, Answers

LEMMA HolderInit ==
    ASSUME Init PROVE HolderInv
<1>1. lock = Free /\ \A d \in Calls : call[d].at \notin Resetting \cup {"reply", "work"}
  BY HolderLaunch, Zenon DEF Init
<1> QED
  BY <1>1, Zenon DEF HolderInv, Placed

\* A database that does not exist is not open: every client has a key.
LEMMA NothingOpen ==
    ASSUME IInv, LastClient PROVE ~Open(0)
<1>1. ASSUME NEW g \in Gens, loop[g] # "none" PROVE key[g] # 0
  BY <1>1, HasKey, SessionAssumption DEF IInv, ManagerTyped
<1> QED
  BY <1>1, Zenon DEF Open, Held

\* The holder of the lock is in the middle of a reset, where every step is possible.
LEMMA CallsEnd ==
    ASSUME IInv, LastClient, HolderInv PROVE WaitsEnd
<1>1. \A c \in Calls : call[c].at = "delete" => CanGoOn(c)
  <2>1. (platform = "windows" => ~Open(file)) \/ file # 0
    BY NothingOpen, Zenon
  <2> QED
    BY <2>1, Zenon DEF CanGoOn
<1>2. \A c \in Calls : call[c].at \in Resetting => CanGoOn(c)
  BY <1>1, Zenon DEF CanGoOn, Resetting
<1>3. \A c \in Calls : call[c].at = "reply" => CanGoOn(c)
  BY Zenon DEF CanGoOn, HolderInv, Placed
<1>4. lock # Free => lock \in Calls /\ CanGoOn(lock)
  BY <1>2, Zenon DEF HolderInv, IInv, ManagerTyped
<1>5. \A c \in Calls : call[c].at \in {"idle", "clear", "sent", "join", "delete", "boot", "work", "reply"}
  BY Zenon DEF IInv, ManagerTyped, CallRecord
<1>6. ASSUME NEW c \in Calls, ~Idle(c)
      PROVE  CanGoOn(c) \/ (call[c].at = "sent" /\ lock \in Calls /\ CanGoOn(lock))
  <2>1. CASE call[c].at = "sent"
    BY <1>4, <2>1, Zenon DEF CanGoOn
  <2>2. CASE call[c].at \in {"clear", "work"}
    BY <2>2, Zenon DEF CanGoOn
  <2> QED
    BY <1>2, <1>3, <1>5, <1>6, <2>1, <2>2, Zenon DEF Idle, Resetting
<1> QED
  BY <1>6, Zenon DEF WaitsEnd

\* No invocation waits in vain: reset keeps the lock of the sessions map while it
\* aborts the run loop, deletes the files and boots, and each of these can go on
\* whatever the server, the user and other commands do (SessionManager::reset).
THEOREM WaitTheorem == Spec => []WaitsEnd
<1> DEFINE Inv == IInv /\ LastClient /\ HolderInv
<1>1. Init => Inv
  BY InitIInv, InitDead, HolderInit, Zenon
<1>2. Inv /\ IInv' /\ [Next]_sessionVars => Inv'
  BY LastStep, HolderStep, Zenon
<1>3. Inv => WaitsEnd
  BY CallsEnd, Zenon
<1> HIDE DEF Inv
<1> QED
  BY SessionInvariant, <1>1, <1>2, <1>3, PTL DEF Spec

----------------------------------------------------------------------------
(* Types *)

Fronts == {"off", "status", "check", "hydrate", "fill", "reset", "again", "ready"}

\* Rows are of an account, in the stores and on their way there.
FrontTyped ==
    /\ front \in Fronts /\ mem \subseteq Accounts /\ idb \subseteq Accounts
    /\ marker \in Accounts \cup {None}
Carries(event) == event.topic \in {"message", "history"} => event.from \in Accounts
RowsOwned ==
    /\ decoding \subseteq Accounts
    /\ \A g \in Gens : \A i \in 1..Len(chan[g]) : Carries(chan[g][i])
    /\ \A i \in 1..Len(wire) : Carries(wire[i])

\* What each listener does to the stores.
LEMMA FrontDelivers ==
    ASSUME EventsTyped, FrontTyped, RowsOwned, Deliver
    PROVE  FrontTyped'
<1>1. CASE front = "off"
  BY <1>1, Zenon DEF Deliver, frontend, FrontTyped
<1>2. CASE front # "off"
  <2>1. PICK c \in Calls : Handle(Head(wire), c)
    BY <1>2, Zenon DEF Deliver
  <2>2. CASE Head(wire).topic \in {"message", "history"} /\ AddRows(Head(wire).from)
                                                          /\ UNCHANGED <<front, marker>>
    <3>1. Head(wire) = wire[1] /\ 1 \in 1..Len(wire)
      BY WireTail
    <3>2. Head(wire).from \in Accounts
      BY <2>2, <3>1, Zenon DEF RowsOwned, Carries
    <3> QED
      BY <2>2, <3>2, Zenon DEF AddRows, FrontTyped
  <2>3. CASE resetAll(c)
    BY <2>3, Zenon DEF resetAll, FrontTyped
  <2>4. CASE UNCHANGED <<front, mem, idb, marker>>
    BY <2>4, Zenon DEF FrontTyped
  <2> QED
    BY <2>1, <2>2, <2>3, <2>4, Zenon DEF Handle, OnPaired, frontend
<1> QED
  BY <1>1, <1>2, Zenon

\* The frontend stays typed.
LEMMA FrontStep ==
    ASSUME EventsTyped, EventsTyped', FrontTyped, RowsOwned, [Next]_sessionVars
    PROVE  FrontTyped'
<1>0. ui.jid \in Accounts \cup {None} /\ ui'.jid \in Accounts \cup {None}
  BY DEF EventsTyped
<1>1. CASE UNCHANGED <<front, mem, idb, marker>>
  BY <1>1, Zenon DEF FrontTyped
<1>2. ASSUME NEW c \in Calls, Locks(c) \/ Join(c) \/ delete_db_files(c) \/ ResetBoots(c) \/ FinishWork(c)
                              \/ Cleared(c)
      PROVE  FrontTyped'
  BY <1>1, <1>2, Zenon DEF Locks, get_or_create, BootFails, ResetTakes, Join, delete_db_files, ResetBoots,
     FinishWork, Cleared, frontend
<1>3. ASSUME \/ \E g \in Gens : Dispatch(g) \/ LoopEnds(g) \/ LetGo(g) \/ pump(g)
             \/ \E a \in Accounts : spawn_history_decode(a)
             \/ UNCHANGED sessionVars
      PROVE  FrontTyped'
  BY <1>1, <1>3, Zenon DEF Dispatch, handle_pair_success, LoopEnds, LetGo, pump,
     spawn_history_decode, sessionVars,
     frontend
<1>4. ASSUME NEW jid \in Accounts \cup {None}, NEW rows \in SUBSET Accounts, EnablePersistence(jid, rows),
             mem' \subseteq Accounts
      PROVE  FrontTyped'
  BY <1>4, Zenon DEF EnablePersistence, FrontTyped, Fronts
<1>5. ASSUME NEW c \in Calls, refreshStatus(c) PROVE FrontTyped'
  <2>1. CASE EnablePersistence(ui'.jid, mem)
    BY <1>0, <1>4, <1>5, <2>1, Zenon DEF refreshStatus, FrontTyped
  <2>2. CASE /\ front' = (IF ui'.jid = None THEN "check" ELSE "hydrate")
             /\ UNCHANGED <<marker, idb>>
    BY <1>5, <2>2, Zenon DEF refreshStatus, FrontTyped, Fronts
  <2>3. CASE /\ marker' = (IF ui'.jid # None THEN ui'.jid ELSE marker)
             /\ UNCHANGED <<front, idb>>
    BY <1>0, <1>5, <2>3, Zenon DEF refreshStatus, FrontTyped
  <2> QED
    BY <1>1, <1>5, <2>1, <2>2, <2>3, Zenon DEF refreshStatus
<1>6. ASSUME NEW c \in Calls, ResetReply(c) \/ UserAsks(c) PROVE FrontTyped'
  BY <1>6, Zenon DEF ResetReply, UserAsks, resetAll, frontend, FrontTyped, Fronts
<1>7. CASE startEventBridge
  BY <1>7, Zenon DEF startEventBridge, FrontTyped, Fronts
<1>8. CASE CheckStale
  <2>1. CASE EnablePersistence(ui.jid, mem)
    BY <1>0, <1>4, <1>8, <2>1, Zenon DEF CheckStale, FrontTyped
  <2>2. CASE idb' = {} /\ marker' = None /\ front' = "reset"
    BY <1>8, <2>2, Zenon DEF CheckStale, FrontTyped, Fronts
  <2> QED
    BY <1>8, <2>1, <2>2, Zenon DEF CheckStale
<1>9. CASE LoadSnapshot
  <2>1. CASE front' = "ready" /\ marker' = ui.jid /\ idb' = mem /\ mem' = mem
    BY <1>0, <2>1, Zenon DEF FrontTyped, Fronts
  <2>2. CASE front' = "fill" /\ mem' = mem \cup idb /\ UNCHANGED <<marker, idb>>
    BY <2>2, Zenon DEF FrontTyped, Fronts
  <2> QED
    BY <1>9, <2>1, <2>2, Zenon DEF LoadSnapshot
<1>10. CASE LoadTails
  <2>1. EnablePersistence(ui.jid, mem') /\ mem' = mem \cup idb
    BY <1>10, Zenon DEF LoadTails
  <2>2. mem' \subseteq Accounts
    BY <2>1, Zenon DEF FrontTyped
  <2> QED
    BY <1>0, <1>4, <2>1, <2>2, Zenon
<1>11. CASE Restart
  BY <1>11, Zenon DEF Restart, FrontTyped, Fronts
<1> QED
  BY <1>2, <1>3, <1>5, <1>6, <1>7, <1>8, <1>9, <1>10, <1>11, FrontDelivers, Zenon DEF Next, Answers

\* What a paired client sends is of its account.
LEMMA DispatchCarries ==
    ASSUME IInv, LastClient, NEW g \in Gens, Dispatch(g)
    PROVE  \E topic \in Topics, a \in Accounts \cup {None} :
              Send(g, topic, a) /\ Carries(Event(topic, g, a))
<1>1. acct[key[g]] \in Accounts \cup {None}
  BY RunsAs, Zenon DEF Dispatch, handle_pair_success
<1>2. {"qr", "paired", "conn", "message", "history", "loggedout"} \subseteq Topics
  BY Zenon DEF Topics
<1>3. /\ Carries(Event("qr", g, None))
      /\ \A topic \in Topics, a \in Accounts : Carries(Event(topic, g, a))
  BY DEF Event, Carries
<1> QED
  BY <1>1, <1>2, <1>3, Zenon DEF Dispatch, handle_pair_success

\* RowsOwned is kept.
LEMMA RowsStep ==
    ASSUME IInv, LastClient, EventsTyped, RowsOwned, [Next]_sessionVars
    PROVE  RowsOwned'
<1>1. CASE UNCHANGED bridge
  BY <1>1, Zenon DEF bridge, RowsOwned
<1>2. ASSUME decoding' \subseteq Accounts, chan' = chan, NEW e \in Events, Emit(e), Carries(e)
      PROVE  RowsOwned'
  BY <1>2, WireGrows, Zenon DEF RowsOwned
<1>3. ASSUME UNCHANGED <<decoding, wire>>, NEW g, NEW topic \in Topics, NEW a \in Accounts \cup {None},
             Send(g, topic, a), Carries(Event(topic, g, a))
      PROVE  RowsOwned'
  <2>1. ChanAdds(g, Event(topic, g, a))
    BY <1>3, ChanGrows, Zenon
  <2> QED
    BY <1>3, <2>1, Zenon DEF ChanAdds, RowsOwned
<1>4. ASSUME NEW g \in Gens, Dispatch(g) PROVE RowsOwned'
  BY <1>3, <1>4, DispatchCarries, Zenon DEF Dispatch, handle_pair_success
<1>5. ASSUME NEW g \in Gens, LoopEnds(g) PROVE RowsOwned'
  <2>1. Event("dead", g, None) \in Events /\ Carries(Event("dead", g, None))
    BY DEF Event, Events, Topics, Carries
  <2> QED
    BY <1>2, <1>5, <2>1, Zenon DEF LoopEnds, RowsOwned
<1>6. ASSUME NEW g \in Gens, pump(g) PROVE RowsOwned'
  <2>1. Head(chan[g]) \in Events /\ Carries(Head(chan[g]))
    <3>1. Head(chan[g]) = chan[g][1] /\ chan[g][1] \in Events /\ 1 \in 1..Len(chan[g])
      BY <1>6, ChanTail, Zenon
    <3>2. Carries(chan[g][1])
      BY <3>1, Zenon DEF RowsOwned
    <3> QED
      BY <3>1, <3>2, Zenon
  <2>2. ASSUME NEW h \in Gens, NEW i \in 1..Len(chan'[h]) PROVE Carries(chan'[h][i])
    <3>1. PICK j \in 1..Len(chan[h]) : chan'[h][i] = chan[h][j]
      BY <1>6, ChanTail, Zenon
    <3> QED
      BY <3>1, Zenon DEF RowsOwned
  <2>3. CASE wire' = wire /\ decoding' = decoding \cup {Head(chan[g]).from} /\ Head(chan[g]).topic = "history"
    BY <2>1, <2>2, <2>3, Zenon DEF RowsOwned, Carries
  <2>4. CASE Emit(Head(chan[g])) /\ decoding' = decoding
    BY <2>1, <2>2, <2>4, WireGrows, Zenon DEF RowsOwned
  <2> QED
    BY <1>6, <2>3, <2>4, Zenon DEF pump
<1>7. ASSUME NEW a \in Accounts, spawn_history_decode(a) PROVE RowsOwned'
  <2>1. \A g \in Gens : Event("history", g, a) \in Events /\ Carries(Event("history", g, a))
    BY DEF Event, Events, Topics, Carries
  <2>2. decoding' \subseteq Accounts /\ chan' = chan
    BY <1>7, Zenon DEF spawn_history_decode, RowsOwned
  <2> QED
    BY <1>2, <1>7, <2>1, <2>2, Zenon DEF spawn_history_decode
<1>8. ASSUME NEW c \in Calls, FinishWork(c) PROVE RowsOwned'
  <2>1. "loggedout" \in Topics /\ Carries(Event("loggedout", call[c].gen, None))
    BY DEF Event, Topics, Carries
  <2>2. CASE chan' = chan
    BY <1>1, <1>8, <2>2, Zenon DEF FinishWork, bridge
  <2> QED
    BY <1>3, <1>8, <2>1, <2>2, Zenon DEF FinishWork
<1>9. CASE Deliver
  <2>1. UNCHANGED <<chan, decoding>> /\ \A i \in 1..Len(wire') : wire'[i] = wire[i + 1] /\ i + 1 \in 1..Len(wire)
    BY <1>9, WireTail, Zenon DEF Deliver
  <2> QED
    BY <2>1, Zenon DEF RowsOwned
<1>10. CASE Restart
  <2>1. decoding' = {} /\ (\A g \in Gens : chan'[g] = <<>>) /\ wire' = <<>>
    BY <1>10, Zenon DEF Restart
  <2>2. \A i \in 1..Len(<<>>) : FALSE
    OBVIOUS
  <2> QED
    BY <2>1, <2>2, Zenon DEF RowsOwned
<1>11. ASSUME NEW c \in Calls, Locks(c) \/ Join(c) \/ delete_db_files(c) \/ ResetBoots(c) \/ Cleared(c)
                               \/ refreshStatus(c) \/ ResetReply(c) \/ UserAsks(c)
       PROVE  RowsOwned'
  BY <1>1, <1>11, Zenon DEF Locks, get_or_create, BootFails, ResetTakes, Join, delete_db_files, ResetBoots,
     Cleared, refreshStatus, ResetReply, UserAsks
<1>12. ASSUME startEventBridge \/ CheckStale \/ LoadSnapshot \/ LoadTails \/ UNCHANGED sessionVars
       PROVE  RowsOwned'
  BY <1>1, <1>12, Zenon DEF startEventBridge, CheckStale, LoadSnapshot, LoadTails, sessionVars
<1>13. ASSUME NEW g \in Gens, LetGo(g) PROVE RowsOwned'
  BY <1>1, <1>13, Zenon DEF LetGo
<1> QED
  BY <1>4, <1>5, <1>6, <1>7, <1>8, <1>9, <1>10, <1>11, <1>12, <1>13, Zenon DEF Next, Answers

\* The platform is what it was.
LEMMA SamePlatform ==
    ASSUME [Next]_sessionVars
    PROVE  platform' = platform
<1>1. \A c \in Calls : Locks(c) \/ Answers(c) \/ UserAsks(c) => platform' = platform
  BY Zenon DEF Locks, Answers, get_or_create, BootFails, ResetTakes, Join, delete_db_files, ResetBoots,
     FinishWork, Cleared, refreshStatus, ResetReply, UserAsks
<1> QED
  BY <1>1, Zenon DEF Next, Dispatch, handle_pair_success, LoopEnds, LetGo, pump,
     spawn_history_decode, startEventBridge,
     CheckStale, LoadSnapshot, LoadTails, Deliver, Restart, sessionVars

\* The manager, the bridge and the frontend keep to their types; what the stores
\* and IndexedDB hold, and every message or history chunk on its way to them, is
\* of an account: a client dispatches these only once it is paired, and setAccount
\* marks IndexedDB with the account the status told.
THEOREM SessionTypes == Spec => []SessionTypeOK
<1> DEFINE Platforms == platform \in {"unix", "windows"}
           Inv == IInv /\ LastClient /\ EventsTyped /\ FrontTyped /\ RowsOwned /\ Platforms
<1>1. Init => Inv
  <2> SUFFICES ASSUME Init PROVE Inv
    BY Zenon
  <2>1. IInv /\ LastClient /\ EventsTyped
    BY InitIInv, InitDead, Zenon
  <2>2. decoding = {} /\ (\A g \in Gens : chan[g] = <<>>) /\ wire = <<>> /\ Platforms
    BY Zenon DEF Init
  <2>3. \A i \in 1..Len(<<>>) : FALSE
    OBVIOUS
  <2>4. RowsOwned
    BY <2>2, <2>3, Zenon DEF RowsOwned
  <2>5. FrontTyped
    BY Zenon DEF Init, FrontTyped, Fronts
  <2> QED
    BY <2>1, <2>2, <2>4, <2>5, Zenon
<1>2. Inv /\ IInv' /\ [Next]_sessionVars => Inv'
  BY LastStep, EventsStep, FrontStep, RowsStep, SamePlatform, Zenon
<1>3. Inv => SessionTypeOK
  <2> SUFFICES ASSUME Inv PROVE SessionTypeOK
    BY Zenon
  <2>1. gens \in 0..MaxGen /\ MaxGen \in Nat
    BY SessionAssumption, Zenon DEF IInv, ManagerTyped
  <2>2. keys \in 0..(MaxGen + 1) /\ reborn \subseteq Gens
    BY <2>1 DEF IInv, ManagerTyped, Gens
  <2> QED
    BY <2>1, <2>2, Zenon DEF IInv, ManagerTyped, EventsTyped, FrontTyped, RowsOwned, Fronts, Events,
       CallRecord, SessionTypeOK
<1> HIDE DEF Inv
<1> QED
  BY SessionInvariant, <1>1, <1>2, <1>3, PTL DEF Spec

============================================================================
