--------------------------- MODULE MCSuballocator ---------------------------
(* A device with two chunks. Either segments of several sizes come and go, or     *)
(* one large segment per chunk does while other threads reserve memory and wait for it.  *)
EXTENDS Suballocator

Load(blocks, bigs, calls) == [blocks |-> blocks, big |-> bigs, calls |-> calls]

MCLoads == {Load({1, 2}, FALSE, 0), Load({3}, TRUE, 3)}
=============================================================================
