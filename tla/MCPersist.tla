----------------------------- MODULE MCPersist -----------------------------
(* Persist for TLC: calls of the stores and failures of the disk or of the *)
(* process are at most MaxCalls in all, MaxFailures of them failures.      *)
EXTENDS Persist

CONSTANTS MaxCalls, MaxFailures

VARIABLES called, failures

mcVars == <<persistVars, called, failures>>

\* All messages fall in one second; reads play no part here.
MCTs == [i \in Ids |-> 0]

MCInit == PersistInit /\ called = 0 /\ failures = 0

MCCall == called < MaxCalls /\ Call /\ called' = called + 1 /\ UNCHANGED failures

MCStep == (OpenDb \/ \E j \in Jobs : Step(j)) /\ UNCHANGED <<called, failures>>

MCFailure ==
    /\ failures < MaxFailures
    /\ called < MaxCalls
    /\ Failure
    /\ failures' = failures + 1
    /\ called' = called + 1

MCNext == MCCall \/ MCStep \/ MCFailure

\* The code's own steps are scheduled fairly.
MCSpec == MCInit /\ [][MCNext]_mcVars /\ PersistFairness
=============================================================================
