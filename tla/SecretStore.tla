---------------------------- MODULE SecretStore ----------------------------
(***************************************************************************)
(* What the users of message secrets are promised: a table of secrets in   *)
(* which a capture takes effect at once, as if every capture awaited its   *)
(* own database write.  Behind the table there are the durable rows.       *)
(*                                                                         *)
(* Of the secret the promise is exact: a reader finds the one captured     *)
(* last, and only a database error takes it back.  Of the message time it  *)
(* is weaker, because a reader is handed the buffered entry alone: a       *)
(* capture may hide a later time that is in the row, until the row takes   *)
(* over again.  A time that is not durable yet is never hidden, and none   *)
(* falls when the row takes over.                                          *)
(*                                                                         *)
(* MsgSecretBuffer is shown to implement this specification.               *)
(***************************************************************************)
EXTENDS SecretRows

VARIABLES offered,  \* the batch of entries handed over by the last capture
          view,     \* the secret and the time a reader finds
          row,      \* the durable entry
          failing   \* a database write has just failed

abstractVars == <<offered, view, row, failing>>

AbstractInit ==
    /\ offered = [k \in Keys |-> NoRow]
    /\ view = [k \in Keys |-> NoRow]
    /\ row = [k \in Keys |-> NoRow]
    /\ failing = FALSE

\* The secret is the captured one.  The time is the later of what was seen and
\* what is captured; the captured one alone where readers found the row.
Captured(seen, durable, entry) ==
    (IF seen = Handed(durable) THEN {Handed(entry)} ELSE {}) \cup
    (IF seen = NoRow THEN {}
     ELSE {[secret |-> entry.secret, ts |-> Larger(seen.ts, entry.ts)]})

Capture ==
    /\ offered' \in Table
    /\ view' \in [Keys -> Found \cup {NoRow}]
    /\ \A k \in Keys :
          IF offered'[k] = NoRow THEN view'[k] = view[k]
          ELSE view'[k] \in Captured(view[k], row[k], offered'[k])
    /\ UNCHANGED <<row, failing>>

\* A row is written under a key whose secret can be seen.  It loses neither its
\* time nor its lifetime, and gets no time that was not seen.
Persist ==
    /\ row' \in Table
    /\ \A k \in Keys : row'[k] # row[k] =>
          /\ view[k] # NoRow
          /\ row'[k] = Upsert(row[k], row'[k])
          /\ row'[k].ts <= (IF row[k] = NoRow THEN view[k].ts
                            ELSE Larger(row[k].ts, view[k].ts))
    /\ UNCHANGED <<offered, view, failing>>

\* The durable rows take over from what was seen: the same secrets, and times
\* that are no earlier.
Settle ==
    /\ ~failing
    /\ view' \in [Keys -> Found \cup {NoRow}]
    /\ \A k \in Keys : view'[k] # view[k] =>
          /\ view[k] # NoRow /\ view'[k] = Handed(row[k])
          /\ view'[k].secret = view[k].secret /\ view'[k].ts >= view[k].ts
    /\ UNCHANGED <<offered, row, failing>>

Fail == failing' = TRUE /\ UNCHANGED <<offered, view, row>>

\* Some entries fall back to their durable rows; only after a failed write.
Recover ==
    /\ failing
    /\ failing' = FALSE
    /\ view' \in [Keys -> Found \cup {NoRow}]
    /\ \A k \in Keys : view'[k] \in {view[k], Handed(row[k])}
    /\ UNCHANGED <<offered, row>>

AbstractNext == Capture \/ Persist \/ Settle \/ Fail \/ Recover

AbstractSpec == AbstractInit /\ [][AbstractNext]_abstractVars

============================================================================
