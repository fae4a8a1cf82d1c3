---------------------------- MODULE MCTransferTask ----------------------------
(* A directory of two files and two single files in two batches; the items *)
(* of the plain transfer are given by their ids.                           *)
EXTENDS TransferTask

CONSTANTS d, f, g, h

MCTree     == [n \in {d, f, g, h} |-> IF n = d THEN {f, g} ELSE {}]
MCBatches  == <<{d}, {g, h}>>
MCKinds    == {[auto |-> FALSE, direct |-> FALSE, sync |-> FALSE, ids |-> TRUE],
               [auto |-> TRUE, direct |-> TRUE, sync |-> FALSE, ids |-> FALSE],
               [auto |-> TRUE, direct |-> FALSE, sync |-> TRUE, ids |-> FALSE]}
=============================================================================
