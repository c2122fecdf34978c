---------------------------- MODULE MCSendStatus ----------------------------
(* SendStatus for TLC.                                                      *)
EXTENDS SendStatus

\* Every message says something else.
MCDistinct == [i \in Ids |-> i]

\* The first send is a file, whose bubble shows a label.
MCPreview == [s \in Sends |-> IF s = 1 THEN 0 ELSE s]
=============================================================================
