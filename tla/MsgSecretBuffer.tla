-------------------------- MODULE MsgSecretBuffer --------------------------
(***************************************************************************)
(* The write-behind buffer for message secrets (msg_secret_buffer.rs).     *)
(*                                                                         *)
(* A capture is inserted into an in-memory map and written to the database *)
(* later, by a detached drain task that at most one holder of the          *)
(* drain_in_flight flag keeps alive.  The terminal disconnect seals the    *)
(* buffer: from then on a capture writes inline, before it returns.        *)
(* Every access to a lock or an atomic is a step of its own, so captures,  *)
(* drains, the disconnect and readers interleave between any two of them.  *)
(***************************************************************************)
EXTENDS SecretRows

CONSTANTS Captures,     \* the entries captures carry
          Callers,      \* tasks that capture secrets: chat lanes and senders
          Drainers,     \* detached drain tasks
          Disconnect,   \* the task that runs Client::disconnect
          Readers,      \* tasks that look a secret up
          NoOne,        \* nobody holds the write lock
          MaxCalls,     \* bound on captures
          MaxFailures   \* bound on failed database writes

ASSUME SecretsAssumption ==
    /\ NoRow \notin Entry \cup Found
    /\ Times \subseteq Nat /\ 0 \in Times
    /\ Captures \subseteq Entry
    /\ MaxCalls \in Nat /\ MaxFailures \in Nat
    /\ Disconnect \notin Callers \cup Drainers
    /\ Callers \cap Drainers = {}
    /\ NoOne \notin Callers \cup Drainers \cup {Disconnect}

VARIABLES pending,   \* the buffered entries
          row,       \* msg_secrets rows of the database
          sealed,    \* set by the terminal disconnect
          draining,  \* drain_in_flight
          writer,    \* holder of write_lock
          batch,     \* the snapshot the holder writes
          outcome,   \* result of the holder's database write
          pc,        \* where each task is
          offered,   \* the last capture's entries, until its call goes on
          captured,  \* keys with a capture that no failed write dropped
          reading,   \* a reader that missed the buffer, before its second look
          calls, failures

bufferVars == <<pending, row, sealed, draining, writer, batch, outcome, pc,
                offered, captured, reading, calls, failures>>

Tasks == Callers \cup Drainers \cup {Disconnect}
Empty == [k \in Keys |-> NoRow]

\* What a reader finds: the buffered entry alone, or else the row.
Visible ==
    [k \in Keys |-> Handed(IF pending[k] # NoRow THEN pending[k] ELSE row[k])]

Store == INSTANCE SecretStore
    WITH offered <- offered, view <- Visible, row <- row,
         failing <- (outcome = "failed")

\* "due": the key was captured when the reader missed it in the buffer.
NotReading == [at |-> "idle", key |-> NoRow, due |-> FALSE]

PcStates == {"idle", "inserted", "schedule", "flush", "write", "finish",
             "clear", "recheck", "reclaim", "done"}

\* Types of the buffer, the rows and the tasks.
BufferTypeOK ==
    /\ pending \in Table /\ row \in Table /\ batch \in Table
    /\ sealed \in BOOLEAN /\ draining \in BOOLEAN
    /\ writer \in Tasks \cup {NoOne}
    /\ outcome \in {"none", "ok", "failed"}
    /\ pc \in [Tasks -> PcStates]
    /\ offered \in Table /\ captured \subseteq Keys
    /\ reading \in [Readers -> [at: {"idle", "second", "missed"},
                               key: Keys \cup {NoRow}, due: BOOLEAN]]
    /\ calls \in 0..MaxCalls /\ failures \in 0..MaxFailures

Init ==
    /\ pending = Empty /\ row = Empty /\ batch = Empty /\ offered = Empty
    /\ sealed = FALSE /\ draining = FALSE
    /\ writer = NoOne /\ outcome = "none"
    /\ pc = [t \in Tasks |-> "idle"]
    /\ captured = {} /\ reading = [r \in Readers |-> NotReading]
    /\ calls = 0 /\ failures = 0

----------------------------------------------------------------------------
(* queue *)

merge_msg_secret_expiry(existing, incoming) ==
    IF existing = 0 \/ incoming = 0 THEN 0 ELSE Larger(existing, incoming)

\* A buffered entry and a new capture of the same key.
Merge(existing, entry) ==
    IF existing = NoRow THEN entry
    ELSE [entry EXCEPT !.exp = merge_msg_secret_expiry(existing.exp, @),
                       !.ts = Larger(existing.ts, @)]

\* The same secret is captured under one or more aliases of the message.
Insert(c, keys, entry) ==
    /\ pc[c] = "idle" /\ calls < MaxCalls
    /\ pending' = [k \in Keys |-> IF k \in keys THEN Merge(pending[k], entry)
                                                ELSE pending[k]]
    /\ calls' = calls + 1
    /\ offered' = [k \in Keys |-> IF k \in keys THEN entry ELSE NoRow]
    /\ captured' = captured \cup keys
    /\ pc' = [pc EXCEPT ![c] = "inserted"]
    /\ UNCHANGED <<row, sealed, draining, writer, batch, outcome, reading,
                   failures>>

\* Fault: the capture never looks at the seal.
LoadSealedIgnored(c) ==
    /\ pc[c] = "inserted"
    /\ pc' = [pc EXCEPT ![c] = "schedule"]
    /\ offered' = Empty
    /\ UNCHANGED <<pending, row, sealed, draining, writer, batch, outcome,
                   captured, reading, calls, failures>>

LoadSealed(c) ==
    /\ pc[c] = "inserted"
    /\ pc' = [pc EXCEPT ![c] = IF sealed THEN "flush" ELSE "schedule"]
    /\ offered' = Empty
    /\ UNCHANGED <<pending, row, sealed, draining, writer, batch, outcome,
                   captured, reading, calls, failures>>

\* The swap of drain_in_flight; whoever finds it clear spawns a drain task.
schedule_drain(c) ==
    /\ pc[c] = "schedule"
    /\ \/ /\ draining
          /\ pc' = [pc EXCEPT ![c] = "idle"]
       \/ /\ ~draining
          /\ \E d \in Drainers :
                /\ pc[d] = "idle"
                /\ pc' = [pc EXCEPT ![c] = "idle", ![d] = "flush"]
    /\ draining' = TRUE
    /\ UNCHANGED <<pending, row, sealed, writer, batch, outcome, offered,
                   captured, reading, calls, failures>>

----------------------------------------------------------------------------
(* flush_pending_once, run by drains, by sealed captures and by disconnect *)

\* Where a task goes when it finds nothing pending.
AfterFlush(t) ==
    CASE t \in Drainers -> "clear"
      [] t \in Callers -> "idle"
      [] OTHER -> "done"

\* Fault: the snapshot empties the map instead of copying it.
TakeBatchEmpties(t) ==
    /\ pc[t] = "flush" /\ writer = NoOne
    /\ pc' = [pc EXCEPT ![t] = IF pending = Empty THEN AfterFlush(t) ELSE "write"]
    /\ writer' = IF pending = Empty THEN NoOne ELSE t
    /\ batch' = pending /\ pending' = Empty
    /\ UNCHANGED <<row, sealed, draining, outcome, offered, captured,
                   reading, calls, failures>>

\* The write lock is taken and the map is copied under it.
TakeBatch(t) ==
    /\ pc[t] = "flush" /\ writer = NoOne
    /\ \/ /\ pending = Empty
          /\ pc' = [pc EXCEPT ![t] = AfterFlush(t)]
          /\ UNCHANGED <<writer, batch>>
       \/ /\ pending # Empty
          /\ writer' = t
          /\ batch' = pending
          /\ pc' = [pc EXCEPT ![t] = "write"]
    /\ UNCHANGED <<pending, row, sealed, draining, outcome, offered,
                   captured, reading, calls, failures>>

\* One transaction for the whole batch; an error is logged and ignored.
put_msg_secrets(t) ==
    /\ pc[t] = "write"
    /\ \/ /\ row' = Overlay(row, batch)
          /\ outcome' = "ok"
          /\ UNCHANGED failures
       \/ /\ failures < MaxFailures
          /\ failures' = failures + 1
          /\ outcome' = "failed"
          /\ UNCHANGED row
    /\ pc' = [pc EXCEPT ![t] = "finish"]
    /\ UNCHANGED <<pending, sealed, draining, writer, batch, offered,
                   captured, reading, calls>>

\* Fault: every written key is removed, refreshed or not.
FinishRemovesAll(t) ==
    /\ pc[t] = "finish"
    /\ pending' = [k \in Keys |-> IF batch[k] # NoRow THEN NoRow ELSE pending[k]]
    /\ captured' = {k \in captured : pending'[k] # NoRow \/ outcome = "ok"
                                     \/ row[k] # NoRow}
    /\ writer' = NoOne /\ batch' = Empty /\ outcome' = "none"
    /\ pc' = [pc EXCEPT ![t] = "flush"]
    /\ UNCHANGED <<row, sealed, draining, offered, reading, calls, failures>>

\* Only the entries that still have the written value leave the buffer.
finish_batch(t) ==
    /\ pc[t] = "finish"
    /\ pending' = [k \in Keys |-> IF pending[k] = batch[k] THEN NoRow
                                                           ELSE pending[k]]
    /\ captured' = {k \in captured : pending'[k] # NoRow \/ outcome = "ok"
                                     \/ row[k] # NoRow}
    /\ writer' = NoOne /\ batch' = Empty /\ outcome' = "none"
    /\ pc' = [pc EXCEPT ![t] = "flush"]
    /\ UNCHANGED <<row, sealed, draining, offered, reading, calls, failures>>

----------------------------------------------------------------------------
(* The tail of drain_loop: nothing was pending *)

ClearFlag(d) ==
    /\ pc[d] = "clear"
    /\ draining' = FALSE
    /\ pc' = [pc EXCEPT ![d] = "recheck"]
    /\ UNCHANGED <<pending, row, sealed, writer, batch, outcome, offered,
                   captured, reading, calls, failures>>

\* Fault: the task ends without looking for an insert that raced the clear.
RecheckSkipped(d) ==
    /\ pc[d] = "recheck"
    /\ pc' = [pc EXCEPT ![d] = "idle"]
    /\ UNCHANGED <<pending, row, sealed, draining, writer, batch, outcome,
                   offered, captured, reading, calls, failures>>

Recheck(d) ==
    /\ pc[d] = "recheck"
    /\ pc' = [pc EXCEPT ![d] = IF pending = Empty THEN "idle" ELSE "reclaim"]
    /\ UNCHANGED <<pending, row, sealed, draining, writer, batch, outcome,
                   offered, captured, reading, calls, failures>>

Reclaim(d) ==
    /\ pc[d] = "reclaim"
    /\ draining' = TRUE
    /\ pc' = [pc EXCEPT ![d] = IF draining THEN "idle" ELSE "flush"]
    /\ UNCHANGED <<pending, row, sealed, writer, batch, outcome, offered,
                   captured, reading, calls, failures>>

----------------------------------------------------------------------------
(* Shutdown and readers *)

\* The end of Client::disconnect: seal, then flush until nothing is pending.
Seal ==
    /\ pc[Disconnect] = "idle"
    /\ sealed' = TRUE
    /\ pc' = [pc EXCEPT ![Disconnect] = "flush"]
    /\ UNCHANGED <<pending, row, draining, writer, batch, outcome, offered,
                   captured, reading, calls, failures>>

\* A reader asks the buffer, and on a miss the database, in a later step.
lookup(r, k) ==
    /\ reading[r].at = "idle"
    /\ reading' = [reading EXCEPT
          ![r] = IF pending[k] # NoRow THEN @
                 ELSE [at |-> "second", key |-> k, due |-> k \in captured]]
    /\ UNCHANGED <<pending, row, sealed, draining, writer, batch, outcome,
                   pc, offered, captured, calls, failures>>

get_msg_secret(r) ==
    /\ reading[r].at = "second"
    /\ reading' = [reading EXCEPT
          ![r] = IF @.due /\ row[@.key] = NoRow
                 THEN [@ EXCEPT !.at = "missed"] ELSE NotReading]
    /\ UNCHANGED <<pending, row, sealed, draining, writer, batch, outcome,
                   pc, offered, captured, calls, failures>>

----------------------------------------------------------------------------

FlushStep(t) == TakeBatch(t) \/ put_msg_secrets(t) \/ finish_batch(t)
CallerStep(c) == LoadSealed(c) \/ schedule_drain(c) \/ FlushStep(c)
DrainStep(d) == FlushStep(d) \/ ClearFlag(d) \/ Recheck(d) \/ Reclaim(d)

Next ==
    \/ \E c \in Callers :
          \/ \E keys \in SUBSET Keys \ {{}}, entry \in Captures :
                Insert(c, keys, entry)
          \/ CallerStep(c)
    \/ \E d \in Drainers : DrainStep(d)
    \/ Seal \/ FlushStep(Disconnect)
    \/ \E r \in Readers : get_msg_secret(r) \/ \E k \in Keys : lookup(r, k)

Spec == Init /\ [][Next]_bufferVars

\* The runtime polls every spawned task and the lock is handed over fairly.
Fairness ==
    /\ \A c \in Callers : SF_bufferVars(CallerStep(c))
    /\ \A d \in Drainers : SF_bufferVars(DrainStep(d))
    /\ SF_bufferVars(FlushStep(Disconnect))

FairSpec == Spec /\ Fairness

----------------------------------------------------------------------------
(* Properties *)

\* The module comment's promise to readers, who look in two places in two
\* steps: "a reader sees every secret either in the buffer or in the store,
\* never neither", whatever drains and captures happen between the two looks.
ReaderFindsSecret == \A r \in Readers : reading[r].at # "missed"

\* A capture is never stranded: while something is buffered, some task that
\* will write it is on its way.  The hazard is the insert that races the
\* drain task clearing its flag.
NothingStranded ==
    pending # Empty =>
        \/ \E t \in Tasks : pc[t] \in {"flush", "write", "finish"}
        \/ \E c \in Callers : pc[c] \in {"inserted", "schedule"}
        \/ \E d \in Drainers : pc[d] \in {"clear", "recheck", "reclaim"}

\* After the disconnect's flush, a capture that has returned is in the
\* database: whatever is still buffered belongs to a call in progress.  The
\* hazard is the capture that read the seal just before it was set.
SealedIsDurable ==
    pc[Disconnect] = "done" /\ pending # Empty =>
        \E c \in Callers : pc[c] \in {"inserted", "flush", "write", "finish"}

\* The buffer implements the table that writes through: coalescing captures,
\* writing old snapshots while new captures arrive and removing written
\* entries never change the secret a reader finds, never make the message time
\* it is handed earlier and never shorten what is durable, unless a database
\* write failed.
ImplementsStore == Store!AbstractSpec

\* Every capture leaves the buffer: it is written, or its write failed.
BufferDrains == pending # Empty ~> pending = Empty

============================================================================
