------------------------- MODULE MCMsgSecretBuffer -------------------------
(***************************************************************************)
(* A small instance of MsgSecretBuffer: two lanes capturing secrets, two   *)
(* drain tasks, a disconnect and one reader.                               *)
(***************************************************************************)
EXTENDS MsgSecretBuffer

CONSTANTS k1, k2, s1, s2, c1, c2, d1, d2, r1

MCKeys == {k1, k2}
MCSecrets == {s1, s2}
MCCallers == {c1, c2}
MCDrainers == {d1, d2}
MCReaders == {r1}

MCTimes == 0..1

\* A capture that never expires, and a recapture with a new secret.
MCCaptures == {[secret |-> s1, exp |-> 0, ts |-> 1],
               [secret |-> s2, exp |-> 1, ts |-> 0]}

============================================================================
