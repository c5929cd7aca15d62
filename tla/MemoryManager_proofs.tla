------------------------ MODULE MemoryManager_proofs ------------------------
(***************************************************************************)
(* Proofs about MemoryManager, for any threads, sizes, limits and width of *)
(* size_t that satisfy SizesAssumption.                                    *)
(*                                                                         *)
(* NoStrandedWaiter alone is not inductive: a thread that goes to sleep    *)
(* relies on the waiting_size that others left, who may all be awake by    *)
(* now. The invariant adds that there is no room for a waiting_size that   *)
(* was told, whoever told it, and that used_size is what callers have      *)
(* reserved, which bounds what Deallocate takes off. The delicate step is  *)
(* Deallocate when the difference wraps: more than the limit is then in    *)
(* use, so nobody who sleeps could go on.                                  *)
(***************************************************************************)
EXTENDS MemoryManager, TLAPS

\* size_t is the identity on the values that fit.
LEMMA SizeTIdentity ==
    ASSUME NEW x \in Nat, x <= SizeMax
    PROVE  size_t(x) = x
  BY SizesAssumption, SMT DEF size_t

\* used_size is the sum of what callers have reserved and not given back.
Accounted == used_size = reserved

\* Nobody told an amount for which there is room.
ToldIsTooMuch == waiting_size # 0 => ~Fits(waiting_size)

IInv == TypeOK /\ Accounted /\ ToldIsTooMuch /\ NoStrandedWaiter

LEMMA TypesInit == Init => IInv
  BY SizesAssumption DEF Init, IInv, TypeOK, Accounted, ToldIsTooMuch, NoStrandedWaiter

\* What a sleeper tells is no more than it asks for, and no more than was told before.
LEMMA ToldIsLeast ==
    ASSUME TypeOK, NEW n \in Sizes
    PROVE  /\ Told(n) \in Sizes /\ Told(n) # 0 /\ Told(n) <= n
           /\ waiting_size # 0 => Told(n) <= waiting_size
           /\ Told(n) = n \/ (Told(n) = waiting_size /\ waiting_size # 0)
  BY SizesAssumption DEF TypeOK, Told

\* Reserving more keeps everything that a sleeper relies on.
LEMMA AllocatePreserves ==
    ASSUME IInv, NEW n \in Sizes, NEW overflow \in BOOLEAN, Allocate(n, overflow)
    PROVE  IInv'
<1> USE SizesAssumption DEF Allocate, AllocateNow, Reserve, callvars
<1>1. TypeOK'
  BY DEF IInv, TypeOK, Accounted
<1>2. Accounted'
  BY DEF IInv, TypeOK, Accounted
<1>3. ToldIsTooMuch'
  BY DEF IInv, TypeOK, ToldIsTooMuch, Fits
<1>4. NoStrandedWaiter'
  BY <1>3 DEF IInv, TypeOK, ToldIsTooMuch, NoStrandedWaiter
<1>5. QED
  BY <1>1, <1>2, <1>3, <1>4 DEF IInv

LEMMA WaitLoopPreserves ==
    ASSUME IInv, NEW t \in Threads, NEW n \in Sizes, NEW take \in BOOLEAN,
           WaitLoop(t, n, take)
    PROVE  IInv'
<1>1. CASE ~Fits(n)
  <2> USE SizesAssumption
  <2>1. /\ waiting_size' = Told(n)
        /\ pc' = [pc EXCEPT ![t] = "asleep"]
        /\ asked' = [asked EXCEPT ![t] = n]
        /\ takes' = [takes EXCEPT ![t] = take]
        /\ UNCHANGED <<global_size, used_size, reserved>>
    BY <1>1 DEF WaitLoop
  <2>2. /\ Told(n) \in Sizes /\ Told(n) # 0 /\ Told(n) <= n
        /\ waiting_size # 0 => Told(n) <= waiting_size
        /\ Told(n) = n \/ (Told(n) = waiting_size /\ waiting_size # 0)
    BY ToldIsLeast DEF IInv
  <2>3. TypeOK'
    BY <2>1, <2>2 DEF IInv, TypeOK
  <2>4. Accounted'
    BY <2>1 DEF IInv, Accounted
  <2>5. ASSUME NEW u \in Threads, pc'[u] = "asleep"
        PROVE  waiting_size' # 0 /\ waiting_size' <= asked'[u]
    <3>1. CASE u = t
      BY <2>1, <2>2, <3>1 DEF IInv, TypeOK
    <3>2. CASE u # t
      <4>1. pc[u] = "asleep" /\ asked'[u] = asked[u] /\ asked[u] \in Nat
        BY <2>1, <2>5, <3>2, Zenon DEF IInv, TypeOK
      <4>2. waiting_size # 0 /\ waiting_size <= asked[u]
        BY <4>1 DEF IInv, NoStrandedWaiter
      <4>3. QED
        BY <2>1, <2>2, <4>1, <4>2 DEF IInv, TypeOK
    <3>3. QED
      BY <3>1, <3>2
  <2>6. ToldIsTooMuch'
    <3>1. Fits(waiting_size)' <=> Fits(Told(n))
      BY <2>1 DEF Fits
    <3>2. CASE Told(n) = n
      BY <1>1, <3>1, <3>2 DEF ToldIsTooMuch
    <3>3. CASE Told(n) = waiting_size /\ waiting_size # 0
      BY <3>1, <3>3 DEF IInv, ToldIsTooMuch
    <3>4. QED
      BY <2>2, <3>2, <3>3
  <2>7. QED
    BY <2>3, <2>4, <2>5, <2>6 DEF IInv, NoStrandedWaiter, ToldIsTooMuch
<1>2. CASE Fits(n)
  <2> USE SizesAssumption
  <2>1. /\ pc' = [pc EXCEPT ![t] = "idle"]
        /\ asked' = [asked EXCEPT ![t] = 0]
        /\ takes' = [takes EXCEPT ![t] = FALSE]
        /\ UNCHANGED <<global_size, waiting_size>>
        /\ \/ used_size + n <= UsedMax /\ used_size' = used_size + n /\ reserved' = reserved + n
           \/ UNCHANGED <<used_size, reserved>>
    BY <1>2 DEF WaitLoop, Reserve
  <2>2. TypeOK'
    BY <2>1 DEF IInv, TypeOK
  <2>3. Accounted'
    BY <2>1 DEF IInv, Accounted
  <2>4. ToldIsTooMuch'
    BY <2>1 DEF IInv, TypeOK, ToldIsTooMuch, Fits
  <2>5. NoStrandedWaiter'
    BY <2>1, <2>4 DEF IInv, TypeOK, NoStrandedWaiter, ToldIsTooMuch
  <2>6. QED
    BY <2>2, <2>3, <2>4, <2>5 DEF IInv
<1>3. QED
  BY <1>1, <1>2

LEMMA SpuriousWakeupPreserves ==
    ASSUME IInv, NEW t \in Threads, SpuriousWakeup(t)
    PROVE  IInv'
<1> USE SizesAssumption DEF SpuriousWakeup, nodevars
<1>1. TypeOK'
  BY DEF IInv, TypeOK
<1>2. Accounted' /\ ToldIsTooMuch'
  BY DEF IInv, Accounted, ToldIsTooMuch, Fits
<1>3. NoStrandedWaiter'
  BY <1>2 DEF IInv, TypeOK, NoStrandedWaiter, ToldIsTooMuch
<1>4. QED
  BY <1>1, <1>2, <1>3 DEF IInv

\* A deallocation that wakes nobody leaves too little room for waiting_size: were
\* there room, the difference would not wrap and the test would succeed.
LEMMA NoBroadcastNoRoom ==
    ASSUME TypeOK, NEW used \in 0..UsedMax, waiting_size # 0, ~RoomForWaiters(used)
    PROVE  used + waiting_size > global_size
<1>1. /\ global_size \in Nat /\ waiting_size \in Nat /\ used \in Nat
      /\ global_size <= SizeMax
  BY SizesAssumption DEF TypeOK
<1>2. SUFFICES ASSUME used + waiting_size <= global_size
               PROVE  FALSE
  BY <1>1
<1>3. global_size - used \in Nat /\ global_size - used <= SizeMax
  BY <1>1, <1>2, SizesAssumption
<1>4. size_t(global_size - used) = global_size - used
  BY <1>3, SizeTIdentity
<1>5. QED
  BY <1>1, <1>2, <1>4 DEF RoomForWaiters

LEMMA DeallocatePreserves ==
    ASSUME IInv, NEW n \in Sizes, Deallocate(n)
    PROVE  IInv'
<1> USE SizesAssumption
<1>1. /\ used_size' = used_size - n /\ reserved' = reserved - n /\ n <= reserved
      /\ UNCHANGED <<global_size, asked, takes>>
  BY DEF Deallocate, DeallocateNow
<1>2. used_size - n \in 0..UsedMax /\ reserved - n \in Nat
  BY <1>1 DEF IInv, TypeOK, Accounted
<1>3. Accounted'
  BY <1>1 DEF IInv, Accounted
<1>4. CASE RoomForWaiters(used_size - n)
  <2>1. /\ waiting_size' = 0
        /\ pc' = [t \in Threads |-> IF pc[t] = "asleep" THEN "woken" ELSE pc[t]]
    BY <1>4 DEF Deallocate, DeallocateNow
  <2>2. TypeOK'
    BY <1>1, <1>2, <2>1 DEF IInv, TypeOK
  <2>3. ToldIsTooMuch' /\ NoStrandedWaiter'
    BY <2>1 DEF IInv, TypeOK, ToldIsTooMuch, NoStrandedWaiter
  <2>4. QED
    BY <1>3, <2>2, <2>3 DEF IInv
<1>5. CASE ~RoomForWaiters(used_size - n)
  <2>1. UNCHANGED <<waiting_size, pc>>
    BY <1>5 DEF Deallocate, DeallocateNow
  <2>2. TypeOK'
    BY <1>1, <1>2, <2>1 DEF IInv, TypeOK
  <2>3. ToldIsTooMuch'
    <3>1. waiting_size # 0 => used_size - n + waiting_size > global_size
      BY <1>2, <1>5, NoBroadcastNoRoom DEF IInv
    <3>2. QED
      BY <1>1, <1>2, <2>1, <3>1 DEF IInv, TypeOK, ToldIsTooMuch, Fits
  <2>4. NoStrandedWaiter'
    BY <1>1, <2>1, <2>3 DEF IInv, NoStrandedWaiter, ToldIsTooMuch
  <2>5. QED
    BY <1>3, <2>2, <2>3, <2>4 DEF IInv
<1>6. QED
  BY <1>4, <1>5

LEMMA StepPreserves == IInv /\ [Next]_vars => IInv'
<1> SUFFICES ASSUME IInv, [Next]_vars PROVE IInv'
  OBVIOUS
<1>1. ASSUME NEW n \in Sizes, Deallocate(n) PROVE IInv'
  BY <1>1, DeallocatePreserves
<1>2. ASSUME NEW n \in Sizes, NEW overflow \in BOOLEAN, Allocate(n, overflow) PROVE IInv'
  BY <1>2, AllocatePreserves
<1>3. ASSUME NEW t \in Threads, NEW n \in Sizes, NEW take \in BOOLEAN, Wait(t, n, take)
      PROVE  IInv'
  BY <1>3, WaitLoopPreserves DEF Wait
<1>4. ASSUME NEW t \in Threads, Recheck(t) PROVE IInv'
  <2>1. asked[t] \in Sizes /\ takes[t] \in BOOLEAN
    BY <1>4 DEF IInv, TypeOK, Recheck
  <2>2. WaitLoop(t, asked[t], takes[t])
    BY <1>4 DEF Recheck
  <2>3. QED
    BY <2>1, <2>2, WaitLoopPreserves
<1>5. ASSUME NEW t \in Threads, SpuriousWakeup(t) PROVE IInv'
  BY <1>5, SpuriousWakeupPreserves
<1>6. CASE UNCHANGED vars
  BY <1>6 DEF IInv, TypeOK, Accounted, ToldIsTooMuch, NoStrandedWaiter, Fits,
              vars, nodevars, callvars
<1>7. QED
  BY <1>1, <1>2, <1>3, <1>4, <1>5, <1>6 DEF Next

LEMMA Invariant == Spec => []IInv
  BY TypesInit, StepPreserves, PTL DEF Spec

\* The variables of the memory manager keep their types; in particular used_size never
\* wraps below zero (starpu_memory_deallocate).
THEOREM TypeCorrect == Spec => []TypeOK
  BY Invariant, PTL DEF IInv

\* No sleeper of starpu_memory_allocate or starpu_memory_wait_available misses the
\* deallocation that makes room for it, for any number of threads and any sizes, the
\* wrap of global_size - used_size included.
THEOREM NoLostMemory == Spec => []NoStrandedWaiter
  BY Invariant, PTL DEF IInv

\* used_size is at any time the sum of what callers reserved and have not given back.
THEOREM ReservationsExact == Spec => []Accounted
  BY Invariant, PTL DEF IInv
=============================================================================
