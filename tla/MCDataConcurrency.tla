------------------------- MODULE MCDataConcurrency -------------------------
(* DataConcurrency for TLC: the forests of handles and the priorities that  *)
(* the .cfg files name.                                                     *)
EXTENDS DataConcurrency

OwnRoots == [h \in Handles |-> h]
OneRoot == [h \in Handles |-> 1]
FirstUrgent == [t \in Tasks |-> IF t = 1 THEN 1 ELSE 0]
=============================================================================
