--------------------------- MODULE MemoryManager ---------------------------
(***************************************************************************)
(* The accounting of one memory node (datawizard/memory_manager.c).        *)
(* Nothing is allocated here: callers reserve and give back amounts under  *)
(* lock_nodes, and may sleep on cond_nodes until an amount is available.   *)
(* Each critical section is one step; a sleeping thread is a step away     *)
(* from the loop it sleeps in.                                             *)
(***************************************************************************)
EXTENDS Integers

CONSTANTS
    Threads,    \* the threads that call the memory manager
    Sizes,      \* the amounts they ask for
    Limits,     \* the sizes the node may have; 0 when none is set
    SizeMax,    \* the largest size_t
    UsedMax     \* bound on what is reserved beyond the limit

\* A reservation of 0 bytes is left out. No sum of a used and an asked size wraps.
ASSUME SizesAssumption ==
    /\ SizeMax \in Nat /\ UsedMax \in Nat
    /\ Sizes \subseteq Nat \ {0} /\ Limits \subseteq Nat
    /\ \A l \in Limits : l <= UsedMax /\ l <= SizeMax
    /\ \A n \in Sizes : UsedMax + n <= SizeMax

VARIABLES
    global_size,    \* size of the node
    used_size,      \* what is reserved of it
    waiting_size,   \* the least amount a sleeper told, 0 when none did
    pc,             \* where each thread is
    asked,          \* the amount it waits for
    takes,          \* it reserves the amount once there is room
    reserved        \* what callers have reserved and not given back

nodevars == <<global_size, used_size, waiting_size>>
callvars == <<pc, asked, takes>>
vars == <<nodevars, callvars, reserved>>

Init ==
    /\ global_size \in Limits
    /\ used_size = 0 /\ waiting_size = 0
    /\ pc = [t \in Threads |-> "idle"]
    /\ asked = [t \in Threads |-> 0]
    /\ takes = [t \in Threads |-> FALSE]
    /\ reserved = 0

\* Arithmetic of size_t.
size_t(x) == x % (SizeMax + 1)

Fits(n) == used_size + n <= global_size

-----------------------------------------------------------------------------
(* Reserving                                                               *)

Reserve(n) ==
    /\ used_size + n <= UsedMax
    /\ used_size' = used_size + n

\* The branches of starpu_memory_allocate that do not wait. When it fails with
\* ENOMEM nothing changes.
AllocateNow(n, overflow) ==
    /\ overflow \/ global_size = 0 \/ Fits(n)
    /\ Reserve(n)
    /\ UNCHANGED <<global_size, waiting_size>>

Allocate(n, overflow) ==
    /\ AllocateNow(n, overflow)
    /\ reserved' = reserved + n
    /\ UNCHANGED callvars

\* Mutant: the amount told last replaces the others.
Told_Last(n) == n

Told(n) == IF waiting_size = 0 \/ n < waiting_size THEN n ELSE waiting_size

\* One turn of the loop in which t waits for n bytes: it sleeps, telling the amount,
\* or leaves the loop and takes it.
WaitLoop(t, n, take) ==
    /\ \/ /\ ~Fits(n)
          /\ waiting_size' = Told(n)
          /\ pc' = [pc EXCEPT ![t] = "asleep"]
          /\ asked' = [asked EXCEPT ![t] = n]
          /\ takes' = [takes EXCEPT ![t] = take]
          /\ UNCHANGED <<used_size, reserved>>
       \/ /\ Fits(n)
          /\ pc' = [pc EXCEPT ![t] = "idle"]
          /\ asked' = [asked EXCEPT ![t] = 0]
          /\ takes' = [takes EXCEPT ![t] = FALSE]
          /\ IF take
             THEN Reserve(n) /\ reserved' = reserved + n
             ELSE UNCHANGED <<used_size, reserved>>
          /\ UNCHANGED waiting_size
    /\ UNCHANGED global_size

\* starpu_memory_allocate with STARPU_MEMORY_WAIT, or starpu_memory_wait_available.
Wait(t, n, take) == pc[t] = "idle" /\ WaitLoop(t, n, take)

\* The thread got the mutex back after it was woken.
Recheck(t) == pc[t] = "woken" /\ WaitLoop(t, asked[t], takes[t])

\* pthread_cond_wait may return by itself.
SpuriousWakeup(t) ==
    /\ pc[t] = "asleep"
    /\ pc' = [pc EXCEPT ![t] = "woken"]
    /\ UNCHANGED <<nodevars, asked, takes, reserved>>

-----------------------------------------------------------------------------
(* Giving back                                                             *)

\* Mutant: a sleeper that fits exactly is not woken.
RoomForWaiters_Strict(used) == waiting_size # 0 /\ size_t(global_size - used) > waiting_size

\* There is now room for the least demanding sleeper. The difference wraps when more
\* than the limit is in use.
RoomForWaiters(used) == waiting_size # 0 /\ size_t(global_size - used) >= waiting_size

DeallocateNow(n) ==
    /\ used_size' = used_size - n
    /\ IF RoomForWaiters(used_size - n)
       THEN /\ waiting_size' = 0
            /\ pc' = [t \in Threads |-> IF pc[t] = "asleep" THEN "woken" ELSE pc[t]]
       ELSE UNCHANGED <<waiting_size, pc>>
    /\ UNCHANGED <<global_size, asked, takes>>

\* What was reserved in one call may be given back piece by piece.
Deallocate(n) ==
    /\ n <= reserved
    /\ DeallocateNow(n)
    /\ reserved' = reserved - n

-----------------------------------------------------------------------------
Next ==
    \/ \E n \in Sizes : Deallocate(n) \/ \E overflow \in BOOLEAN : Allocate(n, overflow)
    \/ \E t \in Threads :
         \/ \E n \in Sizes, take \in BOOLEAN : Wait(t, n, take)
         \/ Recheck(t)
         \/ SpuriousWakeup(t)

Spec == Init /\ [][Next]_vars

TypeOK ==
    /\ global_size \in Limits
    /\ used_size \in 0..UsedMax /\ reserved \in Nat
    /\ waiting_size \in Sizes \cup {0}
    /\ pc \in [Threads -> {"idle", "asleep", "woken"}]
    /\ asked \in [Threads -> Sizes \cup {0}]
    /\ takes \in [Threads -> BOOLEAN]
    /\ \A t \in Threads : pc[t] # "idle" => asked[t] \in Sizes

\* A thread sleeps only when there is not enough room, for it or for the least
\* demanding sleeper, and the next deallocation that makes the room finds its demand
\* in waiting_size: no wake-up is lost although the sleepers share one waiting_size,
\* it is reset at each broadcast, and global_size - used_size wraps after an
\* allocation with STARPU_MEMORY_OVERFLOW (starpu_memory_deallocate).
NoStrandedWaiter ==
    \A t \in Threads : pc[t] = "asleep" =>
        /\ waiting_size # 0 /\ waiting_size <= asked[t]
        /\ ~Fits(waiting_size)
=============================================================================
