-------------------------- MODULE MCSubmittedTasks --------------------------
(* Small instances of SubmittedTasks for TLC: two application threads and two *)
(* workers, enough for a waiter, a second waiter with another threshold, and  *)
(* a task that ends while another one runs.                                   *)
EXTENDS SubmittedTasks
=============================================================================
