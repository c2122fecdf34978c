-------------------------- MODULE MsgSecretProofs --------------------------
(***************************************************************************)
(* Proofs about the write-behind buffer for message secrets, for any keys, *)
(* tasks and bounds: its inductive invariant, the safety properties that   *)
(* follow, and that it implements the write-through table of SecretStore.  *)
(***************************************************************************)
EXTENDS MsgSecretBuffer, TLAPS

----------------------------------------------------------------------------
(* The upsert *)

\* Merging two times yields one of them, or the 0 that never expires.
LEMMA TimesClosed ==
    ASSUME NEW a \in Times, NEW b \in Times
    PROVE /\ Larger(a, b) \in Times
          /\ RowExpiry(a, b) \in Times
          /\ merge_msg_secret_expiry(a, b) = RowExpiry(a, b)
BY SecretsAssumption DEF Larger, RowExpiry, merge_msg_secret_expiry

\* An upsert leaves a row.
LEMMA UpsertType ==
    ASSUME NEW a \in Entry \cup {NoRow}, NEW b \in Entry
    PROVE Upsert(a, b) \in Entry /\ Upsert(a, b) # NoRow
<1>1. CASE a = NoRow
  BY <1>1, SecretsAssumption DEF Upsert
<1>2. CASE a \in Entry
  <2>1. a.exp \in Times /\ a.ts \in Times /\ b.secret \in Secrets
        /\ b.exp \in Times /\ b.ts \in Times
    BY <1>2 DEF Entry
  <2>2. RowExpiry(a.exp, b.exp) \in Times /\ Larger(a.ts, b.ts) \in Times
    BY <2>1, TimesClosed
  <2>3. a # NoRow
    BY <1>2, SecretsAssumption
  <2>. QED BY <2>1, <2>2, <2>3, SecretsAssumption DEF Upsert, Entry
<1>. QED BY <1>1, <1>2

\* Deadlines and message times merge associatively and idempotently.
LEMMA TimesMerge ==
    ASSUME NEW a \in Times, NEW b \in Times, NEW c \in Times
    PROVE /\ Larger(a, Larger(b, c)) = Larger(Larger(a, b), c)
          /\ RowExpiry(a, RowExpiry(b, c)) = RowExpiry(RowExpiry(a, b), c)
          /\ Larger(a, a) = a /\ RowExpiry(a, a) = a
          /\ Larger(Larger(a, b), b) = Larger(a, b)
          /\ RowExpiry(RowExpiry(a, b), b) = RowExpiry(a, b)
          /\ Larger(Larger(a, b), Larger(a, b)) = Larger(a, b)
          /\ RowExpiry(RowExpiry(a, b), RowExpiry(a, b)) = RowExpiry(a, b)
<1>1. a \in Nat /\ b \in Nat /\ c \in Nat
  BY SecretsAssumption
<1>. QED BY <1>1 DEF Larger, RowExpiry

\* The database may apply two writes in turn or their merge in one.
LEMMA UpsertAssoc ==
    ASSUME NEW a \in Entry \cup {NoRow}, NEW b \in Entry \cup {NoRow},
           NEW c \in Entry
    PROVE Upsert(a, Upsert(b, c)) =
          Upsert(IF b = NoRow THEN a ELSE Upsert(a, b), c)
<1>1. CASE b = NoRow
  BY <1>1 DEF Upsert
<1>2. CASE b \in Entry /\ a = NoRow
  BY <1>2, SecretsAssumption DEF Upsert
<1>3. CASE b \in Entry /\ a \in Entry
  <2>1. /\ a.exp \in Times /\ a.ts \in Times /\ b.exp \in Times
        /\ b.ts \in Times /\ c.exp \in Times /\ c.ts \in Times
    BY <1>3 DEF Entry
  <2>2. a # NoRow /\ b # NoRow /\ Upsert(a, b) # NoRow
    BY <1>3, SecretsAssumption, UpsertType
  <2>3. /\ Larger(a.ts, Larger(b.ts, c.ts)) = Larger(Larger(a.ts, b.ts), c.ts)
        /\ RowExpiry(a.exp, RowExpiry(b.exp, c.exp)) =
               RowExpiry(RowExpiry(a.exp, b.exp), c.exp)
    BY <2>1, TimesMerge, SMTT(30)
  <2>. QED BY <2>2, <2>3 DEF Upsert
<1>. QED BY <1>1, <1>2, <1>3

\* Writing an entry again, or under its merge, changes nothing.
LEMMA UpsertAgain ==
    ASSUME NEW a \in Entry \cup {NoRow}, NEW b \in Entry
    PROVE Upsert(Upsert(a, b), b) = Upsert(a, b)
<1>1. b.exp \in Times /\ b.ts \in Times
  BY DEF Entry
<1>2. Larger(b.ts, b.ts) = b.ts /\ RowExpiry(b.exp, b.exp) = b.exp
  BY <1>1, TimesMerge
<1>3. Upsert(b, b) = b
  BY <1>2, SecretsAssumption DEF Upsert, Entry
<1>4. Upsert(a, Upsert(b, b)) = Upsert(Upsert(a, b), b)
  BY UpsertAssoc, SecretsAssumption
<1>. QED BY <1>3, <1>4

\* Coalescing in the buffer is the database's upsert.
LEMMA MergeIsUpsert ==
    ASSUME NEW a \in Entry \cup {NoRow}, NEW b \in Entry
    PROVE Merge(a, b) = Upsert(a, b)
<1>1. CASE a = NoRow
  BY <1>1 DEF Merge, Upsert
<1>2. CASE a \in Entry
  <2>1. a.exp \in Times /\ b.exp \in Times
    BY <1>2 DEF Entry
  <2>2. merge_msg_secret_expiry(a.exp, b.exp) = RowExpiry(a.exp, b.exp)
    BY <2>1, TimesClosed
  <2>3. a # NoRow
    BY <1>2, SecretsAssumption
  <2>4. PICK s \in Secrets, x \in Times, t \in Times :
            b = [secret |-> s, exp |-> x, ts |-> t]
    BY DEF Entry
  <2>5. Merge(a, b) = [b EXCEPT !.exp = RowExpiry(a.exp, b.exp),
                                !.ts = Larger(a.ts, b.ts)]
    BY <2>2, <2>3 DEF Merge
  <2>6. Merge(a, b) = [secret |-> b.secret, exp |-> RowExpiry(a.exp, b.exp),
                       ts |-> Larger(a.ts, b.ts)]
    BY <2>4, <2>5, Zenon
  <2>. QED BY <2>3, <2>6 DEF Upsert
<1>. QED BY <1>1, <1>2

\* A batch applied to a table gives a table.
LEMMA OverlayType ==
    ASSUME NEW table \in Table, NEW bat \in Table
    PROVE Overlay(table, bat) \in Table
<1>1. ASSUME NEW k \in Keys
      PROVE (IF bat[k] = NoRow THEN table[k] ELSE Upsert(table[k], bat[k]))
                \in Entry \cup {NoRow}
  BY UpsertType DEF Table
<1>. QED BY <1>1 DEF Overlay, Table

----------------------------------------------------------------------------
(* The inductive invariant *)

\* Who holds write_lock is between its snapshot and finish_batch.
OneWriter ==
    /\ \A t \in Tasks : pc[t] \in {"write", "finish"} <=> writer = t
    /\ writer = NoOne => batch = Empty /\ outcome = "none"
    /\ \A t \in Tasks : pc[t] = "write" => outcome = "none"
    /\ \A t \in Tasks : pc[t] = "finish" => outcome \in {"ok", "failed"}

\* Captures that arrived after the snapshot were merged onto it, and once the
\* write has succeeded the rows have absorbed the snapshot.
BatchCovered ==
    \A k \in Keys : batch[k] # NoRow =>
        /\ pending[k] # NoRow
        /\ Upsert(batch[k], pending[k]) = pending[k]
        /\ outcome = "ok" => row[k] = Upsert(row[k], batch[k])

\* While drain_in_flight is set, a drain task has yet to clear it.
FlagHeld ==
    draining => \E d \in Drainers :
                    pc[d] \in {"flush", "write", "finish", "clear"}

\* From the seal on, whatever is buffered has a task that writes it inline.
SealHeld ==
    /\ sealed <=> pc[Disconnect] # "idle"
    /\ pc[Disconnect] \in {"idle", "flush", "write", "finish", "done"}
    /\ sealed /\ pending # Empty =>
          \/ pc[Disconnect] \in {"flush", "write", "finish"}
          \/ \E c \in Callers :
                pc[c] \in {"inserted", "flush", "write", "finish"}

\* A captured secret is in one of the two places, and stays in the second.
CapturedSomewhere ==
    /\ \A k \in captured : pending[k] # NoRow \/ row[k] # NoRow
    /\ \A r \in Readers : reading[r].at = "second" =>
          /\ reading[r].key \in Keys
          /\ reading[r].due => row[reading[r].key] # NoRow

IInv == /\ BufferTypeOK /\ OneWriter /\ BatchCovered /\ FlagHeld /\ SealHeld
        /\ CapturedSomewhere /\ NothingStranded /\ ReaderFindsSecret

\* The steps of the buffer, by action.
LEMMA NextCases ==
    ASSUME [Next]_bufferVars
    PROVE \/ \E c \in Callers, keys \in SUBSET Keys, entry \in Captures :
                 Insert(c, keys, entry)
          \/ \E c \in Callers : LoadSealed(c)
          \/ \E c \in Callers : schedule_drain(c)
          \/ \E t \in Tasks : TakeBatch(t)
          \/ \E t \in Tasks : put_msg_secrets(t)
          \/ \E t \in Tasks : finish_batch(t)
          \/ \E d \in Drainers : ClearFlag(d)
          \/ \E d \in Drainers : Recheck(d)
          \/ \E d \in Drainers : Reclaim(d)
          \/ Seal
          \/ \E r \in Readers, k \in Keys : lookup(r, k)
          \/ \E r \in Readers : get_msg_secret(r)
          \/ UNCHANGED bufferVars
BY DEF Next, CallerStep, DrainStep, FlushStep, Tasks

\* Every step keeps the types.
LEMMA TypeStep ==
    ASSUME IInv, [Next]_bufferVars
    PROVE BufferTypeOK'
<1>1. ASSUME NEW c \in Callers, NEW keys \in SUBSET Keys,
             NEW entry \in Captures, Insert(c, keys, entry)
      PROVE BufferTypeOK'
  <2>1. ASSUME NEW k \in Keys PROVE Merge(pending[k], entry) \in Entry
    BY SecretsAssumption, MergeIsUpsert, UpsertType
    DEF IInv, BufferTypeOK, Table
  <2>2. pending' \in Table
    BY <1>1, <2>1 DEF IInv, BufferTypeOK, Table, Insert
  <2>3. offered' \in Table
    BY <1>1, SecretsAssumption DEF Table, Insert
  <2>. QED BY <1>1, <2>2, <2>3, SecretsAssumption
           DEF IInv, BufferTypeOK, Insert, PcStates, Tasks
<1>2. ASSUME NEW c \in Callers, LoadSealed(c) PROVE BufferTypeOK'
  BY <1>2, SecretsAssumption
  DEF IInv, BufferTypeOK, LoadSealed, PcStates, Tasks, Empty, Table,
      AfterFlush
<1>3. ASSUME NEW c \in Callers, schedule_drain(c) PROVE BufferTypeOK'
  BY <1>3, SecretsAssumption
  DEF IInv, BufferTypeOK, schedule_drain, PcStates, Tasks, Empty, Table,
      AfterFlush
<1>4. ASSUME NEW t \in Tasks, TakeBatch(t) PROVE BufferTypeOK'
  BY <1>4, SecretsAssumption
  DEF IInv, BufferTypeOK, TakeBatch, PcStates, Tasks, Empty, Table, AfterFlush
<1>5. ASSUME NEW t \in Tasks, put_msg_secrets(t) PROVE BufferTypeOK'
  <2>1. row' \in Table
    BY <1>5, OverlayType DEF IInv, BufferTypeOK, put_msg_secrets
  <2>. QED BY <1>5, <2>1, SecretsAssumption
           DEF IInv, BufferTypeOK, put_msg_secrets, PcStates
<1>6. ASSUME NEW t \in Tasks, finish_batch(t) PROVE BufferTypeOK'
  BY <1>6, SecretsAssumption
  DEF IInv, BufferTypeOK, finish_batch, PcStates, Tasks, Empty, Table,
      AfterFlush
<1>7. ASSUME NEW d \in Drainers, ClearFlag(d) PROVE BufferTypeOK'
  BY <1>7, SecretsAssumption, Zenon
  DEF IInv, BufferTypeOK, ClearFlag, PcStates, Tasks, Empty, Table, AfterFlush
<1>8. ASSUME NEW d \in Drainers, Recheck(d) PROVE BufferTypeOK'
  BY <1>8, SecretsAssumption
  DEF IInv, BufferTypeOK, Recheck, PcStates, Tasks, Empty, Table, AfterFlush
<1>9. ASSUME NEW d \in Drainers, Reclaim(d) PROVE BufferTypeOK'
  BY <1>9, SecretsAssumption
  DEF IInv, BufferTypeOK, Reclaim, PcStates, Tasks, Empty, Table, AfterFlush
<1>10. ASSUME Seal PROVE BufferTypeOK'
  BY <1>10, SecretsAssumption
  DEF IInv, BufferTypeOK, Seal, PcStates, Tasks, Empty, Table, AfterFlush
<1>11. ASSUME NEW r \in Readers, NEW k \in Keys, lookup(r, k)
       PROVE BufferTypeOK'
  BY <1>11 DEF IInv, BufferTypeOK, lookup
<1>12. ASSUME NEW r \in Readers, get_msg_secret(r) PROVE BufferTypeOK'
  BY <1>12 DEF IInv, BufferTypeOK, get_msg_secret, NotReading
<1>13. ASSUME UNCHANGED bufferVars PROVE BufferTypeOK'
  BY <1>13, SecretsAssumption
  DEF IInv, BufferTypeOK, bufferVars, PcStates, Tasks, Empty, Table,
      AfterFlush
<1>. QED BY <1>1, <1>2, <1>3, <1>4, <1>5, <1>6, <1>7,
            <1>8, <1>9, <1>10, <1>11, <1>12, <1>13, NextCases

\* The write lock has one holder.
LEMMA OneWriterStep ==
    ASSUME IInv, [Next]_bufferVars
    PROVE OneWriter'
<1>1. ASSUME NEW c \in Callers, NEW keys \in SUBSET Keys,
             NEW entry \in Captures, Insert(c, keys, entry)
      PROVE OneWriter'
  BY <1>1, SecretsAssumption
  DEF IInv, BufferTypeOK, OneWriter, Insert, PcStates, Tasks, AfterFlush
<1>2. ASSUME NEW c \in Callers, LoadSealed(c) PROVE OneWriter'
  BY <1>2, SecretsAssumption
  DEF IInv, BufferTypeOK, OneWriter, LoadSealed, PcStates, Tasks, AfterFlush
<1>3. ASSUME NEW c \in Callers, schedule_drain(c) PROVE OneWriter'
  BY <1>3, SecretsAssumption
  DEF IInv, BufferTypeOK, OneWriter, schedule_drain, PcStates, Tasks,
      AfterFlush
<1>4. ASSUME NEW t \in Tasks, TakeBatch(t) PROVE OneWriter'
  BY <1>4, SecretsAssumption
  DEF IInv, BufferTypeOK, OneWriter, TakeBatch, PcStates, Tasks, AfterFlush
<1>5. ASSUME NEW t \in Tasks, put_msg_secrets(t) PROVE OneWriter'
  BY <1>5, SecretsAssumption
  DEF IInv, BufferTypeOK, OneWriter, put_msg_secrets, PcStates, Tasks,
      AfterFlush
<1>6. ASSUME NEW t \in Tasks, finish_batch(t) PROVE OneWriter'
  BY <1>6, SecretsAssumption
  DEF IInv, BufferTypeOK, OneWriter, finish_batch, PcStates, Tasks, AfterFlush
<1>7. ASSUME NEW d \in Drainers, ClearFlag(d) PROVE OneWriter'
  BY <1>7, SecretsAssumption
  DEF IInv, BufferTypeOK, OneWriter, ClearFlag, PcStates, Tasks, AfterFlush
<1>8. ASSUME NEW d \in Drainers, Recheck(d) PROVE OneWriter'
  BY <1>8, SecretsAssumption
  DEF IInv, BufferTypeOK, OneWriter, Recheck, PcStates, Tasks, AfterFlush
<1>9. ASSUME NEW d \in Drainers, Reclaim(d) PROVE OneWriter'
  BY <1>9, SecretsAssumption
  DEF IInv, BufferTypeOK, OneWriter, Reclaim, PcStates, Tasks, AfterFlush
<1>10. ASSUME Seal PROVE OneWriter'
  BY <1>10, SecretsAssumption
  DEF IInv, BufferTypeOK, OneWriter, Seal, PcStates, Tasks, AfterFlush
<1>11. ASSUME NEW r \in Readers, NEW k \in Keys, lookup(r, k) PROVE OneWriter'
  BY <1>11, SecretsAssumption
  DEF IInv, BufferTypeOK, OneWriter, lookup, PcStates, Tasks, AfterFlush
<1>12. ASSUME NEW r \in Readers, get_msg_secret(r) PROVE OneWriter'
  BY <1>12, SecretsAssumption
  DEF IInv, BufferTypeOK, OneWriter, get_msg_secret, PcStates, Tasks,
      AfterFlush
<1>13. ASSUME UNCHANGED bufferVars PROVE OneWriter'
  BY <1>13, SecretsAssumption
  DEF IInv, BufferTypeOK, OneWriter, bufferVars, PcStates, Tasks, AfterFlush
<1>. QED BY <1>1, <1>2, <1>3, <1>4, <1>5, <1>6, <1>7,
            <1>8, <1>9, <1>10, <1>11, <1>12, <1>13, NextCases

\* The flag is cleared by the drain that holds it, and by no one else.
LEMMA FlagHeldStep ==
    ASSUME IInv, [Next]_bufferVars
    PROVE FlagHeld'
<1>1. ASSUME NEW c \in Callers, NEW keys \in SUBSET Keys,
             NEW entry \in Captures, Insert(c, keys, entry)
      PROVE FlagHeld'
  BY <1>1, SecretsAssumption
  DEF IInv, BufferTypeOK, FlagHeld, Insert, PcStates, Tasks, AfterFlush
<1>2. ASSUME NEW c \in Callers, LoadSealed(c) PROVE FlagHeld'
  BY <1>2, SecretsAssumption
  DEF IInv, BufferTypeOK, FlagHeld, LoadSealed, PcStates, Tasks, AfterFlush
<1>3. ASSUME NEW c \in Callers, schedule_drain(c) PROVE FlagHeld'
  BY <1>3, SecretsAssumption
  DEF IInv, BufferTypeOK, FlagHeld, schedule_drain, PcStates, Tasks,
      AfterFlush
<1>4. ASSUME NEW t \in Tasks, TakeBatch(t) PROVE FlagHeld'
  BY <1>4, SecretsAssumption
  DEF IInv, BufferTypeOK, FlagHeld, TakeBatch, PcStates, Tasks, AfterFlush
<1>5. ASSUME NEW t \in Tasks, put_msg_secrets(t) PROVE FlagHeld'
  BY <1>5, SecretsAssumption
  DEF IInv, BufferTypeOK, FlagHeld, put_msg_secrets, PcStates, Tasks,
      AfterFlush
<1>6. ASSUME NEW t \in Tasks, finish_batch(t) PROVE FlagHeld'
  BY <1>6, SecretsAssumption
  DEF IInv, BufferTypeOK, FlagHeld, finish_batch, PcStates, Tasks, AfterFlush
<1>7. ASSUME NEW d \in Drainers, ClearFlag(d) PROVE FlagHeld'
  BY <1>7, SecretsAssumption
  DEF IInv, BufferTypeOK, FlagHeld, ClearFlag, PcStates, Tasks, AfterFlush
<1>8. ASSUME NEW d \in Drainers, Recheck(d) PROVE FlagHeld'
  BY <1>8, SecretsAssumption
  DEF IInv, BufferTypeOK, FlagHeld, Recheck, PcStates, Tasks, AfterFlush
<1>9. ASSUME NEW d \in Drainers, Reclaim(d) PROVE FlagHeld'
  BY <1>9, SecretsAssumption
  DEF IInv, BufferTypeOK, FlagHeld, Reclaim, PcStates, Tasks, AfterFlush
<1>10. ASSUME Seal PROVE FlagHeld'
  BY <1>10, SecretsAssumption
  DEF IInv, BufferTypeOK, FlagHeld, Seal, PcStates, Tasks, AfterFlush
<1>11. ASSUME NEW r \in Readers, NEW k \in Keys, lookup(r, k) PROVE FlagHeld'
  BY <1>11, SecretsAssumption
  DEF IInv, BufferTypeOK, FlagHeld, lookup, PcStates, Tasks, AfterFlush
<1>12. ASSUME NEW r \in Readers, get_msg_secret(r) PROVE FlagHeld'
  BY <1>12, SecretsAssumption
  DEF IInv, BufferTypeOK, FlagHeld, get_msg_secret, PcStates, Tasks,
      AfterFlush
<1>13. ASSUME UNCHANGED bufferVars PROVE FlagHeld'
  BY <1>13, SecretsAssumption
  DEF IInv, BufferTypeOK, FlagHeld, bufferVars, PcStates, Tasks, AfterFlush
<1>. QED BY <1>1, <1>2, <1>3, <1>4, <1>5, <1>6, <1>7,
            <1>8, <1>9, <1>10, <1>11, <1>12, <1>13, NextCases

\* A sealed buffer's captures are written by calls in progress.
LEMMA SealHeldStep ==
    ASSUME IInv, [Next]_bufferVars
    PROVE SealHeld'
<1>1. ASSUME NEW c \in Callers, NEW keys \in SUBSET Keys,
             NEW entry \in Captures, Insert(c, keys, entry)
      PROVE SealHeld'
  BY <1>1, SecretsAssumption
  DEF IInv, BufferTypeOK, SealHeld, Insert, PcStates, Tasks, AfterFlush
<1>2. ASSUME NEW c \in Callers, LoadSealed(c) PROVE SealHeld'
  BY <1>2, SecretsAssumption
  DEF IInv, BufferTypeOK, SealHeld, LoadSealed, PcStates, Tasks, AfterFlush
<1>3. ASSUME NEW c \in Callers, schedule_drain(c) PROVE SealHeld'
  BY <1>3, SecretsAssumption
  DEF IInv, BufferTypeOK, SealHeld, schedule_drain, PcStates, Tasks,
      AfterFlush
<1>4. ASSUME NEW t \in Tasks, TakeBatch(t) PROVE SealHeld'
  BY <1>4, SecretsAssumption
  DEF IInv, BufferTypeOK, SealHeld, TakeBatch, PcStates, Tasks, AfterFlush
<1>5. ASSUME NEW t \in Tasks, put_msg_secrets(t) PROVE SealHeld'
  BY <1>5, SecretsAssumption
  DEF IInv, BufferTypeOK, SealHeld, put_msg_secrets, PcStates, Tasks,
      AfterFlush
<1>6. ASSUME NEW t \in Tasks, finish_batch(t) PROVE SealHeld'
  <2>1. pending = Empty => pending' = Empty
    BY <1>6 DEF finish_batch, Empty
  <2>. QED BY <1>6, <2>1, SecretsAssumption
           DEF IInv, BufferTypeOK, SealHeld, finish_batch, PcStates, Tasks
<1>7. ASSUME NEW d \in Drainers, ClearFlag(d) PROVE SealHeld'
  BY <1>7, SecretsAssumption
  DEF IInv, BufferTypeOK, SealHeld, ClearFlag, PcStates, Tasks, AfterFlush
<1>8. ASSUME NEW d \in Drainers, Recheck(d) PROVE SealHeld'
  BY <1>8, SecretsAssumption
  DEF IInv, BufferTypeOK, SealHeld, Recheck, PcStates, Tasks, AfterFlush
<1>9. ASSUME NEW d \in Drainers, Reclaim(d) PROVE SealHeld'
  BY <1>9, SecretsAssumption
  DEF IInv, BufferTypeOK, SealHeld, Reclaim, PcStates, Tasks, AfterFlush
<1>10. ASSUME Seal PROVE SealHeld'
  BY <1>10, SecretsAssumption
  DEF IInv, BufferTypeOK, SealHeld, Seal, PcStates, Tasks, AfterFlush
<1>11. ASSUME NEW r \in Readers, NEW k \in Keys, lookup(r, k) PROVE SealHeld'
  BY <1>11, SecretsAssumption
  DEF IInv, BufferTypeOK, SealHeld, lookup, PcStates, Tasks, AfterFlush
<1>12. ASSUME NEW r \in Readers, get_msg_secret(r) PROVE SealHeld'
  BY <1>12, SecretsAssumption
  DEF IInv, BufferTypeOK, SealHeld, get_msg_secret, PcStates, Tasks,
      AfterFlush
<1>13. ASSUME UNCHANGED bufferVars PROVE SealHeld'
  BY <1>13, SecretsAssumption
  DEF IInv, BufferTypeOK, SealHeld, bufferVars, PcStates, Tasks, AfterFlush
<1>. QED BY <1>1, <1>2, <1>3, <1>4, <1>5, <1>6, <1>7,
            <1>8, <1>9, <1>10, <1>11, <1>12, <1>13, NextCases

\* A task stops only when nothing is buffered or another drain holds the flag.
LEMMA StrandedStep ==
    ASSUME IInv, [Next]_bufferVars
    PROVE NothingStranded'
<1>1. ASSUME NEW c \in Callers, NEW keys \in SUBSET Keys,
             NEW entry \in Captures, Insert(c, keys, entry)
      PROVE NothingStranded'
  BY <1>1, SecretsAssumption
  DEF IInv, BufferTypeOK, FlagHeld, NothingStranded, Insert, PcStates, Tasks,
      AfterFlush
<1>2. ASSUME NEW c \in Callers, LoadSealed(c) PROVE NothingStranded'
  BY <1>2, SecretsAssumption
  DEF IInv, BufferTypeOK, FlagHeld, NothingStranded, LoadSealed, PcStates,
      Tasks, AfterFlush
<1>3. ASSUME NEW c \in Callers, schedule_drain(c) PROVE NothingStranded'
  BY <1>3, SecretsAssumption
  DEF IInv, BufferTypeOK, FlagHeld, NothingStranded, schedule_drain, PcStates,
      Tasks, AfterFlush
<1>4. ASSUME NEW t \in Tasks, TakeBatch(t) PROVE NothingStranded'
  BY <1>4, SecretsAssumption
  DEF IInv, BufferTypeOK, FlagHeld, NothingStranded, TakeBatch, PcStates,
      Tasks, AfterFlush
<1>5. ASSUME NEW t \in Tasks, put_msg_secrets(t) PROVE NothingStranded'
  BY <1>5, SecretsAssumption
  DEF IInv, BufferTypeOK, FlagHeld, NothingStranded, put_msg_secrets,
      PcStates, Tasks, AfterFlush
<1>6. ASSUME NEW t \in Tasks, finish_batch(t) PROVE NothingStranded'
  BY <1>6, SecretsAssumption
  DEF IInv, BufferTypeOK, FlagHeld, NothingStranded, finish_batch, PcStates,
      Tasks, AfterFlush
<1>7. ASSUME NEW d \in Drainers, ClearFlag(d) PROVE NothingStranded'
  BY <1>7, SecretsAssumption
  DEF IInv, BufferTypeOK, FlagHeld, NothingStranded, ClearFlag, PcStates,
      Tasks, AfterFlush
<1>8. ASSUME NEW d \in Drainers, Recheck(d) PROVE NothingStranded'
  BY <1>8, SecretsAssumption
  DEF IInv, BufferTypeOK, FlagHeld, NothingStranded, Recheck, PcStates, Tasks,
      AfterFlush
<1>9. ASSUME NEW d \in Drainers, Reclaim(d) PROVE NothingStranded'
  BY <1>9, SecretsAssumption
  DEF IInv, BufferTypeOK, FlagHeld, NothingStranded, Reclaim, PcStates, Tasks,
      AfterFlush
<1>10. ASSUME Seal PROVE NothingStranded'
  BY <1>10, SecretsAssumption
  DEF IInv, BufferTypeOK, FlagHeld, NothingStranded, Seal, PcStates, Tasks,
      AfterFlush
<1>11. ASSUME NEW r \in Readers, NEW k \in Keys, lookup(r, k)
       PROVE NothingStranded'
  BY <1>11, SecretsAssumption
  DEF IInv, BufferTypeOK, FlagHeld, NothingStranded, lookup, PcStates, Tasks,
      AfterFlush
<1>12. ASSUME NEW r \in Readers, get_msg_secret(r) PROVE NothingStranded'
  BY <1>12, SecretsAssumption
  DEF IInv, BufferTypeOK, FlagHeld, NothingStranded, get_msg_secret, PcStates,
      Tasks, AfterFlush
<1>13. ASSUME UNCHANGED bufferVars PROVE NothingStranded'
  BY <1>13, SecretsAssumption
  DEF IInv, BufferTypeOK, FlagHeld, NothingStranded, bufferVars, PcStates,
      Tasks, AfterFlush
<1>. QED BY <1>1, <1>2, <1>3, <1>4, <1>5, <1>6, <1>7,
            <1>8, <1>9, <1>10, <1>11, <1>12, <1>13, NextCases

\* The buffer stays ahead of the snapshot being written.
LEMMA BatchCoveredStep ==
    ASSUME IInv, [Next]_bufferVars
    PROVE BatchCovered'
<1>1. ASSUME NEW c \in Callers, NEW keys \in SUBSET Keys,
             NEW entry \in Captures, Insert(c, keys, entry)
      PROVE BatchCovered'
  <2>. SUFFICES ASSUME NEW k \in Keys, batch[k] # NoRow
                PROVE /\ pending'[k] # NoRow
                      /\ Upsert(batch[k], pending'[k]) = pending'[k]
    BY <1>1 DEF IInv, BatchCovered, Insert
  <2>1. batch[k] \in Entry /\ pending[k] \in Entry /\ entry \in Entry
        /\ pending[k] # NoRow /\ Upsert(batch[k], pending[k]) = pending[k]
    BY SecretsAssumption DEF IInv, BatchCovered, BufferTypeOK, Table
  <2>2. pending'[k] = (IF k \in keys THEN Upsert(pending[k], entry)
                                     ELSE pending[k])
    BY <1>1, <2>1, MergeIsUpsert DEF Insert
  <2>3. Upsert(batch[k], Upsert(pending[k], entry)) = Upsert(pending[k], entry)
    BY <2>1, UpsertAssoc
  <2>4. Upsert(pending[k], entry) # NoRow
    BY <2>1, UpsertType
  <2>. QED BY <2>1, <2>2, <2>3, <2>4
<1>2. ASSUME NEW c \in Callers, LoadSealed(c) PROVE BatchCovered'
  BY <1>2 DEF IInv, BatchCovered, OneWriter, LoadSealed
<1>3. ASSUME NEW c \in Callers, schedule_drain(c) PROVE BatchCovered'
  BY <1>3 DEF IInv, BatchCovered, OneWriter, schedule_drain
<1>4. ASSUME NEW t \in Tasks, TakeBatch(t) PROVE BatchCovered'
  <2>1. ASSUME NEW k \in Keys, pending[k] # NoRow
        PROVE Upsert(pending[k], pending[k]) = pending[k]
    <3>1. pending[k] \in Entry
      BY <2>1 DEF IInv, BufferTypeOK, Table
    <3>2. Upsert(Upsert(NoRow, pending[k]), pending[k]) =
          Upsert(NoRow, pending[k])
      BY <3>1, UpsertAgain
    <3>. QED BY <3>2 DEF Upsert
  <2>2. outcome' = "none" \/ UNCHANGED <<pending, row, batch, outcome>>
    BY <1>4 DEF IInv, OneWriter, TakeBatch
  <2>. QED BY <1>4, <2>1, <2>2 DEF IInv, BatchCovered, TakeBatch
<1>5. ASSUME NEW t \in Tasks, put_msg_secrets(t) PROVE BatchCovered'
  <2>1. ASSUME NEW k \in Keys, batch[k] # NoRow
        PROVE Upsert(Upsert(row[k], batch[k]), batch[k]) =
              Upsert(row[k], batch[k])
    BY <2>1, UpsertAgain, Zenon DEF IInv, BufferTypeOK, Table
  <2>. QED BY <1>5, <2>1 DEF IInv, BatchCovered, put_msg_secrets, Overlay
<1>6. ASSUME NEW t \in Tasks, finish_batch(t) PROVE BatchCovered'
  BY <1>6 DEF IInv, BatchCovered, finish_batch, Empty
<1>7. ASSUME NEW d \in Drainers, ClearFlag(d) PROVE BatchCovered'
  BY <1>7 DEF IInv, BatchCovered, OneWriter, ClearFlag
<1>8. ASSUME NEW d \in Drainers, Recheck(d) PROVE BatchCovered'
  BY <1>8 DEF IInv, BatchCovered, OneWriter, Recheck
<1>9. ASSUME NEW d \in Drainers, Reclaim(d) PROVE BatchCovered'
  BY <1>9 DEF IInv, BatchCovered, OneWriter, Reclaim
<1>10. ASSUME Seal PROVE BatchCovered'
  BY <1>10 DEF IInv, BatchCovered, OneWriter, Seal
<1>11. ASSUME NEW r \in Readers, NEW k \in Keys, lookup(r, k)
       PROVE BatchCovered'
  BY <1>11 DEF IInv, BatchCovered, OneWriter, lookup
<1>12. ASSUME NEW r \in Readers, get_msg_secret(r) PROVE BatchCovered'
  BY <1>12 DEF IInv, BatchCovered, OneWriter, get_msg_secret
<1>13. ASSUME UNCHANGED bufferVars PROVE BatchCovered'
  BY <1>13 DEF IInv, BatchCovered, OneWriter, bufferVars
<1>. QED BY <1>1, <1>2, <1>3, <1>4, <1>5, <1>6, <1>7,
            <1>8, <1>9, <1>10, <1>11, <1>12, <1>13, NextCases

\* A captured secret moves from the buffer to the rows without a gap.
LEMMA CapturedStep ==
    ASSUME IInv, [Next]_bufferVars
    PROVE CapturedSomewhere' /\ ReaderFindsSecret'
<1>1. ASSUME NEW c \in Callers, NEW keys \in SUBSET Keys,
             NEW entry \in Captures, Insert(c, keys, entry)
      PROVE CapturedSomewhere' /\ ReaderFindsSecret'
  <2>1. ASSUME NEW k \in Keys PROVE Merge(pending[k], entry) # NoRow
    BY SecretsAssumption, MergeIsUpsert, UpsertType
    DEF IInv, BufferTypeOK, Table
  <2>. QED BY <1>1, <2>1
           DEF IInv, BufferTypeOK, CapturedSomewhere, ReaderFindsSecret, Insert
<1>2. ASSUME NEW c \in Callers, LoadSealed(c)
      PROVE CapturedSomewhere' /\ ReaderFindsSecret'
  BY <1>2
  DEF IInv, BufferTypeOK, CapturedSomewhere, ReaderFindsSecret, LoadSealed
<1>3. ASSUME NEW c \in Callers, schedule_drain(c)
      PROVE CapturedSomewhere' /\ ReaderFindsSecret'
  BY <1>3
  DEF IInv, BufferTypeOK, CapturedSomewhere, ReaderFindsSecret, schedule_drain
<1>4. ASSUME NEW t \in Tasks, TakeBatch(t)
      PROVE CapturedSomewhere' /\ ReaderFindsSecret'
  BY <1>4
  DEF IInv, BufferTypeOK, CapturedSomewhere, ReaderFindsSecret, TakeBatch
<1>5. ASSUME NEW t \in Tasks, put_msg_secrets(t)
      PROVE CapturedSomewhere' /\ ReaderFindsSecret'
  <2>1. ASSUME NEW k \in Keys, row[k] # NoRow PROVE row'[k] # NoRow
    BY <1>5, <2>1, UpsertType
    DEF IInv, BufferTypeOK, Table, put_msg_secrets, Overlay
  <2>. QED BY <1>5, <2>1
           DEF IInv, BufferTypeOK, CapturedSomewhere, ReaderFindsSecret,
               put_msg_secrets
<1>6. ASSUME NEW t \in Tasks, finish_batch(t)
      PROVE CapturedSomewhere' /\ ReaderFindsSecret'
  <2>1. ASSUME NEW k \in captured', pending'[k] = NoRow PROVE row[k] # NoRow
    <3>1. /\ k \in Keys /\ k \in captured
          /\ pending[k] = batch[k] \/ pending[k] = NoRow
      BY <1>6, <2>1 DEF IInv, BufferTypeOK, finish_batch
    <3>2. outcome = "ok" /\ batch[k] # NoRow => row[k] # NoRow
      <4>. SUFFICES ASSUME outcome = "ok", batch[k] # NoRow
                    PROVE row[k] # NoRow
        OBVIOUS
      <4>1. batch[k] \in Entry /\ row[k] \in Entry \cup {NoRow}
        BY <3>1, SMTT(30) DEF IInv, BufferTypeOK, Table
      <4>2. row[k] = Upsert(row[k], batch[k])
        BY <3>1 DEF IInv, BatchCovered
      <4>. QED BY <4>1, <4>2, UpsertType
    <3>. QED BY <1>6, <2>1, <3>1, <3>2
             DEF IInv, BufferTypeOK, CapturedSomewhere, finish_batch
  <2>. QED BY <1>6, <2>1
           DEF IInv, BufferTypeOK, CapturedSomewhere, ReaderFindsSecret,
               finish_batch
<1>7. ASSUME NEW d \in Drainers, ClearFlag(d)
      PROVE CapturedSomewhere' /\ ReaderFindsSecret'
  BY <1>7
  DEF IInv, BufferTypeOK, CapturedSomewhere, ReaderFindsSecret, ClearFlag
<1>8. ASSUME NEW d \in Drainers, Recheck(d)
      PROVE CapturedSomewhere' /\ ReaderFindsSecret'
  BY <1>8
  DEF IInv, BufferTypeOK, CapturedSomewhere, ReaderFindsSecret, Recheck
<1>9. ASSUME NEW d \in Drainers, Reclaim(d)
      PROVE CapturedSomewhere' /\ ReaderFindsSecret'
  BY <1>9
  DEF IInv, BufferTypeOK, CapturedSomewhere, ReaderFindsSecret, Reclaim
<1>10. ASSUME Seal PROVE CapturedSomewhere' /\ ReaderFindsSecret'
  BY <1>10 DEF IInv, BufferTypeOK, CapturedSomewhere, ReaderFindsSecret, Seal
<1>11. ASSUME NEW r \in Readers, NEW k \in Keys, lookup(r, k)
       PROVE CapturedSomewhere' /\ ReaderFindsSecret'
  BY <1>11, Zenon
  DEF IInv, BufferTypeOK, CapturedSomewhere, ReaderFindsSecret, lookup
<1>12. ASSUME NEW r \in Readers, get_msg_secret(r)
       PROVE CapturedSomewhere' /\ ReaderFindsSecret'
  BY <1>12 DEF IInv, BufferTypeOK, CapturedSomewhere, ReaderFindsSecret,
                 get_msg_secret, NotReading
<1>13. ASSUME UNCHANGED bufferVars
       PROVE CapturedSomewhere' /\ ReaderFindsSecret'
  BY <1>13
  DEF IInv, BufferTypeOK, CapturedSomewhere, ReaderFindsSecret, bufferVars
<1>. QED BY <1>1, <1>2, <1>3, <1>4, <1>5, <1>6, <1>7,
            <1>8, <1>9, <1>10, <1>11, <1>12, <1>13, NextCases


\* The initial state satisfies the invariant.
LEMMA InitIInv == ASSUME Init PROVE IInv
<1>1. BufferTypeOK
  <2>1. Empty \in Table
    BY DEF Empty, Table
  <2>2. 0 \in 0..MaxCalls /\ 0 \in 0..MaxFailures
    BY SecretsAssumption
  <2>3. NotReading \in [at: {"idle", "second", "missed"},
                        key: Keys \cup {NoRow}, due: BOOLEAN]
    BY DEF NotReading
  <2>. QED BY <2>1, <2>2, <2>3, Zenon DEF Init, BufferTypeOK, PcStates
<1>2. OneWriter
  BY SecretsAssumption DEF Init, OneWriter, Tasks
<1>3. BatchCovered /\ FlagHeld /\ SealHeld /\ NothingStranded
  BY DEF Init, BatchCovered, FlagHeld, SealHeld, NothingStranded, Empty, Tasks
<1>4. CapturedSomewhere /\ ReaderFindsSecret
  BY DEF Init, CapturedSomewhere, ReaderFindsSecret, NotReading
<1>. QED BY <1>1, <1>2, <1>3, <1>4 DEF IInv

\* The inductive invariant holds in every reachable state of the buffer.
THEOREM BufferInvariant == Spec => []IInv
<1>1. Init => IInv
  BY InitIInv
<1>2. IInv /\ [Next]_bufferVars => IInv'
  BY TypeStep, OneWriterStep, BatchCoveredStep, FlagHeldStep, SealHeldStep,
     CapturedStep, StrandedStep DEF IInv
<1>. QED BY <1>1, <1>2, PTL DEF Spec

\* Readers look in the buffer, then in the database, and never miss a secret
\* that was captured and not dropped by a failed write.
THEOREM ReaderTheorem == Spec => []ReaderFindsSecret
<1>1. IInv => ReaderFindsSecret
  BY DEF IInv
<1>. QED BY <1>1, BufferInvariant, PTL

\* A buffered capture always has a task on its way to write it.
THEOREM StrandedTheorem == Spec => []NothingStranded
<1>1. IInv => NothingStranded
  BY DEF IInv
<1>. QED BY <1>1, BufferInvariant, PTL

\* After the disconnect's flush only calls in progress have buffered entries.
THEOREM SealedTheorem == Spec => []SealedIsDurable
<1>1. IInv => SealedIsDurable
  BY DEF IInv, SealHeld, SealedIsDurable
<1>. QED BY <1>1, BufferInvariant, PTL

----------------------------------------------------------------------------
(* Refinement *)

\* The entry a reader finds under one key.
Seen(k) == IF pending[k] # NoRow THEN pending[k] ELSE row[k]

\* The operators on rows mean the same in the abstract specification.
LEMMA SameOperators ==
    /\ Store!Table = Table /\ Store!Found = Found
    /\ \A e : Store!Handed(e) = Handed(e)
    /\ \A a, b : Store!Larger(a, b) = Larger(a, b)
    /\ \A a, b : Store!Upsert(a, b) = Upsert(a, b)
BY DEF Store!Table, Table, Store!Entry, Entry, Store!Found, Found,
       Store!Handed, Handed, Store!Larger, Larger, Store!Upsert, Upsert,
       Store!RowExpiry, RowExpiry

\* What a reader is handed of an entry.
LEMMA HandedEntry ==
    ASSUME NEW e \in Entry
    PROVE /\ Handed(e) \in Found /\ Handed(e) # NoRow
          /\ Handed(e).secret = e.secret /\ Handed(e).ts = e.ts
<1>1. e # NoRow
  BY SecretsAssumption
<1>2. Handed(e) = [secret |-> e.secret, ts |-> e.ts]
  BY <1>1 DEF Handed
<1>3. e.secret \in Secrets /\ e.ts \in Times
  BY DEF Entry
<1>4. Handed(e) \in Found
  BY <1>2, <1>3 DEF Found
<1>. QED BY <1>2, <1>4, SecretsAssumption

\* The view, key by key.
LEMMA ViewType ==
    ASSUME BufferTypeOK
    PROVE /\ Visible \in [Keys -> Found \cup {NoRow}]
          /\ \A k \in Keys : /\ Visible[k] = Handed(Seen(k))
                             /\ Seen(k) \in Entry \cup {NoRow}
<1>1. ASSUME NEW k \in Keys
      PROVE Seen(k) \in Entry \cup {NoRow} /\ Handed(Seen(k)) \in Found \cup {NoRow}
  <2>1. Seen(k) \in Entry \cup {NoRow}
    BY DEF BufferTypeOK, Table, Seen
  <2>2. Handed(NoRow) = NoRow
    BY DEF Handed
  <2>. QED BY <2>1, <2>2, HandedEntry
<1>2. Visible = [k \in Keys |-> Handed(Seen(k))]
  BY Zenon DEF Visible, Seen
<1>. QED BY <1>1, <1>2

\* The view of the next state has its type as well.
LEMMA NextViewType ==
    ASSUME BufferTypeOK'
    PROVE Visible' \in [Keys -> Found \cup {NoRow}]
<1>1. ASSUME NEW k \in Keys PROVE Handed(Seen(k)') \in Found \cup {NoRow}
  <2>1. Seen(k)' \in Entry \cup {NoRow}
    BY DEF BufferTypeOK, Table, Seen
  <2>2. Handed(NoRow) = NoRow
    BY DEF Handed
  <2>. QED BY <2>1, <2>2, HandedEntry
<1>2. Visible' = [k \in Keys |-> Handed(Seen(k)')]
  BY Zenon DEF Visible, Seen, Handed
<1>. QED BY <1>1, <1>2

\* Unchanged rows and entries leave the view alone.
LEMMA SameView ==
    ASSUME UNCHANGED <<pending, row>>
    PROVE Visible' = Visible
BY DEF Visible, Handed

\* A capture: the captured secret is found, with the captured time or the
\* later of it and the buffered one.
LEMMA InsertRefines ==
    ASSUME IInv, IInv', NEW c \in Callers, NEW keys \in SUBSET Keys,
           NEW entry \in Captures, Insert(c, keys, entry)
    PROVE Store!Capture
<1>1. /\ offered' \in Table /\ Visible' \in [Keys -> Found \cup {NoRow}]
      /\ row' = row /\ outcome' = outcome
  BY NextViewType DEF IInv, BufferTypeOK, Insert
<1>2. ASSUME NEW k \in Keys
      PROVE IF offered'[k] = NoRow THEN Visible'[k] = Visible[k]
            ELSE Visible'[k] \in Store!Captured(Visible[k], row[k], offered'[k])
  <2>1. /\ entry \in Entry /\ entry # NoRow
        /\ row[k] \in Entry \cup {NoRow} /\ pending[k] \in Entry \cup {NoRow}
    BY SecretsAssumption, SMTT(30) DEF IInv, BufferTypeOK, Table
  <2>2. Visible[k] = Handed(Seen(k)) /\ Visible'[k] = Handed(Seen(k)')
    <3>1. Visible[k] = Handed(Seen(k))
      BY ViewType DEF IInv
    <3>2. Visible' = [j \in Keys |-> Handed(Seen(j)')]
      BY Zenon DEF Visible, Seen, Handed
    <3>. QED BY <3>1, <3>2
  <2>3. CASE k \notin keys
    <3>1. offered'[k] = NoRow /\ pending'[k] = pending[k]
      BY <2>3 DEF Insert
    <3>. QED BY <1>1, <2>2, <3>1 DEF Seen
  <2>4. CASE k \in keys
    <3>1. pending'[k] = Upsert(pending[k], entry) /\ offered'[k] = entry
      BY <2>1, <2>4, MergeIsUpsert, SMTT(30) DEF Insert
    <3>2. CASE pending[k] = NoRow
      <4>1. Seen(k)' = entry /\ Seen(k) = row[k]
        BY <2>1, <3>1, <3>2 DEF Seen, Upsert
      <4>. QED BY <2>1, <2>2, <3>1, <4>1, SameOperators DEF Store!Captured
    <3>3. CASE pending[k] \in Entry
      <4>1. pending[k] # NoRow /\ Seen(k) = pending[k]
        BY <3>3, SecretsAssumption DEF Seen
      <4>2. pending'[k] \in Entry /\ pending'[k] # NoRow
        BY <2>1, <3>1, UpsertType
      <4>3. Seen(k)' = pending'[k]
        BY <4>2 DEF Seen
      <4>4. /\ pending'[k].secret = entry.secret
            /\ pending'[k].ts = Larger(pending[k].ts, entry.ts)
        BY <3>1, <4>1 DEF Upsert
      <4>5. /\ Visible[k] # NoRow /\ Visible[k].ts = pending[k].ts
        BY <2>2, <3>3, <4>1, HandedEntry
      <4>6. Visible'[k] = [secret |-> pending'[k].secret, ts |-> pending'[k].ts]
        BY <2>2, <4>2, <4>3 DEF Handed
      <4>7. Visible'[k] = [secret |-> entry.secret,
                           ts |-> Store!Larger(Visible[k].ts, entry.ts)]
        BY <4>4, <4>5, <4>6, SameOperators
      <4>. QED BY <2>1, <3>1, <4>5, <4>7, Zenon DEF Store!Captured
    <3>. QED BY <2>1, <3>2, <3>3
  <2>. QED BY <2>3, <2>4
<1>. QED BY <1>1, <1>2, SameOperators DEF Store!Capture

\* A database write: the view stays, and the rows only gain.
LEMMA WriteRefines ==
    ASSUME IInv, IInv', NEW t \in Tasks, put_msg_secrets(t)
    PROVE Store!Persist \/ Store!Fail
<1>1. CASE row' = Overlay(row, batch) /\ outcome' = "ok"
  <2>1. ASSUME NEW k \in Keys, row'[k] # row[k]
        PROVE /\ Visible[k] # NoRow
              /\ row'[k] = Upsert(row[k], row'[k])
              /\ row'[k].ts <= (IF row[k] = NoRow THEN Visible[k].ts
                                ELSE Larger(row[k].ts, Visible[k].ts))
    <3>1. /\ row[k] \in Entry \cup {NoRow} /\ batch[k] \in Entry \cup {NoRow}
          /\ pending[k] \in Entry \cup {NoRow}
      BY SMTT(30) DEF IInv, BufferTypeOK, Table
    <3>2. batch[k] # NoRow /\ row'[k] = Upsert(row[k], batch[k])
      BY <1>1, <2>1, SMTT(30) DEF Overlay
    <3>3. batch[k] \in Entry
      BY <3>1, <3>2
    <3>4. /\ pending[k] \in Entry /\ pending[k] # NoRow
          /\ Upsert(batch[k], pending[k]) = pending[k]
      BY <3>1, <3>2, ZenonT(30) DEF IInv, BatchCovered
    <3>5. Visible[k] # NoRow /\ Visible[k].ts = pending[k].ts
      <4>1. Visible[k] = Handed(pending[k])
        BY <3>4, ViewType DEF IInv, Seen
      <4>. QED BY <3>4, <4>1, HandedEntry
    <3>6. batch[k].ts \in Nat /\ pending[k].ts \in Nat
      BY <3>3, <3>4, SecretsAssumption DEF Entry
    <3>7. pending[k].ts = Larger(batch[k].ts, pending[k].ts)
      BY <3>2, <3>4 DEF Upsert
    <3>8. batch[k].ts <= pending[k].ts
      BY <3>6, <3>7 DEF Larger
    <3>9. CASE row[k] = NoRow
      <4>1. row'[k] = batch[k]
        BY <3>2, <3>9 DEF Upsert
      <4>. QED BY <3>5, <3>8, <3>9, <4>1 DEF Upsert
    <3>10. CASE row[k] \in Entry
      <4>1. row[k] # NoRow /\ row[k].ts \in Nat
        BY <3>10, SecretsAssumption DEF Entry
      <4>2. row'[k].ts = Larger(row[k].ts, batch[k].ts)
        BY <3>2, <4>1 DEF Upsert
      <4>3. Larger(row[k].ts, batch[k].ts) <= Larger(row[k].ts, pending[k].ts)
        BY <3>6, <3>8, <4>1 DEF Larger
      <4>4. Upsert(row[k], Upsert(row[k], batch[k])) = Upsert(row[k], batch[k])
        <5>1. Upsert(row[k], row[k]) = row[k]
          BY <3>10, UpsertAgain, Zenon DEF Upsert
        <5>. QED BY <3>3, <3>10, <4>1, <5>1, UpsertAssoc
      <4>. QED BY <3>2, <3>5, <4>1, <4>2, <4>3, <4>4
    <3>. QED BY <3>1, <3>9, <3>10
  <2>2. Visible' = Visible
    <3>1. ASSUME NEW k \in Keys PROVE Seen(k)' = Seen(k)
      <4>1. pending'[k] = pending[k]
        BY DEF put_msg_secrets
      <4>2. pending[k] = NoRow => row'[k] = row[k]
        <5>1. pending[k] = NoRow => batch[k] = NoRow
          BY ZenonT(30) DEF IInv, BatchCovered
        <5>. QED BY <1>1, <5>1 DEF Overlay
      <4>. QED BY <4>1, <4>2 DEF Seen
    <3>2. Visible = [k \in Keys |-> Handed(Seen(k))]
      BY Zenon DEF Visible, Seen
    <3>3. Visible' = [k \in Keys |-> Handed(Seen(k)')]
      BY Zenon DEF Visible, Seen, Handed
    <3>. QED BY <3>1, <3>2, <3>3, Zenon
  <2>3. row' \in Table
    BY DEF IInv, BufferTypeOK
  <2>4. outcome = "none" /\ offered' = offered
    BY DEF IInv, OneWriter, put_msg_secrets
  <2>. QED BY <1>1, <2>1, <2>2, <2>3, <2>4, SameOperators DEF Store!Persist
<1>2. CASE row' = row /\ outcome' = "failed"
  BY <1>2, SameView DEF Store!Fail, put_msg_secrets
<1>. QED BY <1>1, <1>2 DEF put_msg_secrets

\* Removing written entries: after a successful write the rows that take over
\* hold the same secrets and no earlier times; after a failed one, anything
\* they held before.
LEMMA FinishRefines ==
    ASSUME IInv, IInv', NEW t \in Tasks, finish_batch(t)
    PROVE Store!Settle \/ Store!Recover
<1>1. /\ Visible' \in [Keys -> Found \cup {NoRow}]
      /\ row' = row /\ offered' = offered /\ outcome' = "none"
  BY NextViewType DEF IInv, finish_batch
<1>2. ASSUME NEW k \in Keys
      PROVE \/ Visible'[k] = Visible[k]
            \/ /\ pending[k] # NoRow /\ pending[k] = batch[k]
               /\ Visible[k] = Handed(pending[k]) /\ Visible'[k] = Handed(row[k])
  <2>1. Visible[k] = Handed(Seen(k)) /\ Visible'[k] = Handed(Seen(k)')
    <3>1. Visible' = [j \in Keys |-> Handed(Seen(j)')]
      BY Zenon DEF Visible, Seen, Handed
    <3>. QED BY <3>1, ViewType DEF IInv
  <2>2. pending'[k] = IF pending[k] = batch[k] THEN NoRow ELSE pending[k]
    BY DEF finish_batch
  <2>. QED BY <1>1, <2>1, <2>2 DEF Seen
<1>3. outcome \in {"ok", "failed"}
  BY DEF IInv, OneWriter, finish_batch
<1>4. CASE outcome = "ok"
  <2>1. ASSUME NEW k \in Keys, Visible'[k] # Visible[k]
        PROVE /\ Visible[k] # NoRow /\ Visible'[k] = Handed(row[k])
              /\ Visible'[k].secret = Visible[k].secret
              /\ Visible'[k].ts >= Visible[k].ts
    <3>1. /\ batch[k] # NoRow /\ pending[k] = batch[k]
          /\ Visible[k] = Handed(batch[k]) /\ Visible'[k] = Handed(row[k])
      BY <1>2, <2>1
    <3>2. row[k] = Upsert(row[k], batch[k])
      BY <1>4, <3>1, ZenonT(30) DEF IInv, BatchCovered
    <3>3. batch[k] \in Entry /\ row[k] \in Entry \cup {NoRow}
      BY <3>1, SMTT(30) DEF IInv, BufferTypeOK, Table
    <3>4. row[k] \in Entry /\ row[k] # NoRow
      BY <3>2, <3>3, UpsertType
    <3>5. row[k].secret = batch[k].secret /\ row[k].ts = Larger(row[k].ts, batch[k].ts)
      BY <3>2, <3>4 DEF Upsert
    <3>6. row[k].ts \in Nat /\ batch[k].ts \in Nat
      BY <3>3, <3>4, SecretsAssumption DEF Entry
    <3>7. row[k].ts >= batch[k].ts
      BY <3>5, <3>6 DEF Larger
    <3>8. /\ Visible[k] # NoRow /\ Visible[k].secret = batch[k].secret
          /\ Visible[k].ts = batch[k].ts
      BY <3>1, <3>3, HandedEntry
    <3>9. Visible'[k].secret = row[k].secret /\ Visible'[k].ts = row[k].ts
      BY <3>1, <3>4, HandedEntry
    <3>. QED BY <3>1, <3>5, <3>7, <3>8, <3>9
  <2>. QED BY <1>1, <1>4, <2>1, SameOperators DEF Store!Settle
<1>5. CASE outcome = "failed"
  <2>1. ASSUME NEW k \in Keys PROVE Visible'[k] \in {Visible[k], Handed(row[k])}
    BY <1>2
  <2>. QED BY <1>1, <1>5, <2>1, SameOperators DEF Store!Recover
<1>. QED BY <1>3, <1>4, <1>5

\* The buffer implements the table that writes through: the secret a reader
\* finds is changed by captures and failed writes alone, and a flush never
\* takes back the time it is handed.
THEOREM Refinement == Spec => ImplementsStore
<1>1. Init => Store!AbstractInit
  BY DEF Init, Store!AbstractInit, Visible, Handed, Empty
<1>2. ASSUME IInv, IInv', [Next]_bufferVars
      PROVE [Store!AbstractNext]_(Store!abstractVars)
  <2>1. ASSUME NEW c \in Callers, NEW keys \in SUBSET Keys,
               NEW entry \in Captures, Insert(c, keys, entry)
        PROVE Store!AbstractNext
    BY <1>2, <2>1, InsertRefines DEF Store!AbstractNext
  <2>2. ASSUME NEW c \in Callers, LoadSealed(c)
        PROVE Store!Capture
    <3>1. offered' \in Store!Table
      BY <2>2 DEF LoadSealed, Empty, Store!Table
    <3>2. Visible' = Visible
      BY <2>2, SameView DEF LoadSealed
    <3>3. Visible \in [Keys -> Store!Found \cup {NoRow}]
      BY <1>2, ViewType, SameOperators DEF IInv
    <3>4. \A k \in Keys : offered'[k] = NoRow
      BY <2>2 DEF LoadSealed, Empty
    <3>. QED BY <2>2, <3>1, <3>2, <3>3, <3>4 DEF Store!Capture, LoadSealed
  <2>3. ASSUME NEW t \in Tasks, put_msg_secrets(t)
        PROVE Store!AbstractNext
    BY <1>2, <2>3, WriteRefines DEF Store!AbstractNext
  <2>4. ASSUME NEW t \in Tasks, finish_batch(t)
        PROVE [Store!AbstractNext]_(Store!abstractVars)
    BY <1>2, <2>4, FinishRefines DEF Store!AbstractNext
  <2>5. ASSUME UNCHANGED <<pending, row, offered, outcome>>
        PROVE UNCHANGED Store!abstractVars
    BY <2>5, SameView DEF Store!abstractVars
  <2>6. CASE \E c \in Callers : schedule_drain(c)
    BY <2>5, <2>6 DEF schedule_drain
  <2>7. CASE \E t \in Tasks : TakeBatch(t)
    BY <2>5, <2>7 DEF TakeBatch
  <2>8. CASE \E d \in Drainers : ClearFlag(d) \/ Recheck(d) \/ Reclaim(d)
    BY <2>5, <2>8 DEF ClearFlag, Recheck, Reclaim
  <2>9. CASE Seal \/ UNCHANGED bufferVars
    BY <2>5, <2>9 DEF Seal, bufferVars
  <2>10. CASE \E r \in Readers :
                get_msg_secret(r) \/ \E k \in Keys : lookup(r, k)
    BY <2>5, <2>10 DEF get_msg_secret, lookup
  <2>. QED BY <1>2, <2>1, <2>2, <2>3, <2>4, <2>6, <2>7, <2>8, <2>9, <2>10,
              NextCases DEF Store!AbstractNext
<1>. QED BY <1>1, <1>2, BufferInvariant, PTL
         DEF Spec, ImplementsStore, Store!AbstractSpec

============================================================================
