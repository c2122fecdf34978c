----------------------------- MODULE MCPreKeys -----------------------------
(***************************************************************************)
(* A small instance of PreKeys: three ids, uploads of two keys.             *)
(***************************************************************************)
EXTENDS PreKeys

MCMaxId == 3
MCFlushers == {Uploader}
MCDevices == [next: 0..MCMaxId + 1, first: 0..MCMaxId + 1, has: BOOLEAN]
MCInitialDevice == [next |-> 1, first |-> 0, has |-> FALSE]

\* The number of edits matters only relative to the ones in flight.
MCView ==
    <<device, dirty, disk, halted, streak, late, failures, edits - newest,
      [s \in Savers |-> IF saving[s].at = "write"
                        THEN <<saving[s].at, saving[s].value, edits - saving[s].edit>>
                        ELSE <<saving[s].at>>],
      passVars, keyVars, history>>

============================================================================
