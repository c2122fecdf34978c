----------------------------- MODULE MCSession -----------------------------
(* A small instance of Session for TLC. *)
EXTENDS Session, TLC

Symmetry == Permutations(Calls) \cup Permutations(Accounts)

\* No reset at launch (CheckStale): every reset is one of resetAll.
UserResets == \A c \in Calls : call'[c].for # "bootreset"
UserResetSpec == Init /\ [][Next /\ UserResets]_sessionVars
============================================================================
