---------------------------- MODULE SecretRows ----------------------------
(***************************************************************************)
(* The rows of the msg_secrets table and the upsert the database does on   *)
(* them (sqlite_store.rs, put_msg_secrets).                                *)
(***************************************************************************)
EXTENDS Naturals

CONSTANTS Keys,     \* (chat, sender, message id) triples
          Secrets,  \* secret values
          Times,    \* expiry and message times, 0 among them
          NoRow     \* a key without an entry

Entry == [secret: Secrets, exp: Times, ts: Times]
Table == [Keys -> Entry \cup {NoRow}]

\* What a reader is handed of an entry: the expiry stays behind.
Found == [secret: Secrets, ts: Times]
Handed(entry) ==
    IF entry = NoRow THEN NoRow ELSE [secret |-> entry.secret, ts |-> entry.ts]

Larger(a, b) == IF a > b THEN a ELSE b

\* 0 stands for "never expires" and wins; otherwise the later deadline does.
RowExpiry(old, new) == IF old = 0 \/ new = 0 THEN 0 ELSE Larger(old, new)

\* What the database does with an entry whose key may already have a row.
Upsert(old, new) ==
    IF old = NoRow THEN new
    ELSE [secret |-> new.secret,
          exp    |-> RowExpiry(old.exp, new.exp),
          ts     |-> Larger(old.ts, new.ts)]

\* A batch of entries applied to a table.
Overlay(table, batch) ==
    [k \in Keys |-> IF batch[k] = NoRow THEN table[k]
                                        ELSE Upsert(table[k], batch[k])]

===========================================================================
