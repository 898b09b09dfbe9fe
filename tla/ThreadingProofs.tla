--------------------------- MODULE ThreadingProofs ---------------------------
(***************************************************************************)
(* The threads of examples/threading, for any number of them and any       *)
(* amount of memory.                                                       *)
(***************************************************************************)
EXTENDS Threading, TLAPS

\* The flag is right from the moment threadfunc has set it.
FlagFollows ==
  \A t \in Threads :
    pc[t] \in {"wait", "lock", "hold", "unlock", "returned"} =>
      (heap[data[t]] = "true" <=> t \notin failed)

\* A thread that has not begun has not failed.
FreshStart == \A t \in Threads : pc[t] = "begin" => t \notin failed

\* The caller keeps no block of a thread it has joined.
NoBlock == \A t \in Threads : ~Running(t) => data[t] = NULL

ThreadInv ==
  /\ TypeOK /\ LockComesBack /\ BlockOutlivesThread /\ FlagFollows /\ FreshStart /\ NoBlock
  /\ OnlyFailedStartsLeak

LEMMA InitHolds == Init => ThreadInv
BY ThreadingAssumption
DEF Init, ThreadInv, TypeOK, LockComesBack, BlockOutlivesThread, FlagFollows, FreshStart,
    NoBlock, OnlyFailedStartsLeak, Running, Free

\* The steps of a thread change its own place, its own block and the mutex.
LEMMA ThreadSteps ==
  ASSUME ThreadInv, NEW t \in Threads, threadfunc(t)
  PROVE  ThreadInv'
<1> USE ThreadingAssumption
    DEF ThreadInv, TypeOK, LockComesBack, BlockOutlivesThread, FlagFollows, FreshStart,
        NoBlock, OnlyFailedStartsLeak, Running, Goto, SetSuccess, Failure, Success, Free
<1>1. CASE begin(t)
  BY <1>1 DEF begin
<1>2. CASE wait(t)
  BY <1>2 DEF wait
<1>3. CASE wait_fails(t)
  BY <1>3 DEF wait_fails
<1>4. CASE lock(t)
  BY <1>4 DEF lock
<1>5. CASE lock_fails(t)
  BY <1>5 DEF lock_fails
<1>6. CASE hold(t)
  BY <1>6 DEF hold
<1>7. CASE hold_fails(t)
  BY <1>7 DEF hold_fails
<1>8. CASE unlock(t)
  BY <1>8 DEF unlock
<1>9. QED
  BY <1>1, <1>2, <1>3, <1>4, <1>5, <1>6, <1>7, <1>8 DEF threadfunc, proceed

\* The caller takes a free block for a new thread, and frees that of a thread
\* that is over.
LEMMA CallerSteps ==
  ASSUME ThreadInv, NEW t \in Threads, start(t) \/ start_fails(t) \/ join(t)
  PROVE  ThreadInv'
<1> USE ThreadingAssumption
    DEF ThreadInv, TypeOK, LockComesBack, BlockOutlivesThread, FlagFollows, FreshStart,
        NoBlock, OnlyFailedStartsLeak, Running, Goto, Success, Free
<1>1. CASE start(t)
  BY <1>1 DEF start
<1>2. CASE start_fails(t)
  BY <1>2 DEF start_fails
<1>3. CASE join(t)
  BY <1>3 DEF join
<1>4. QED
  BY <1>1, <1>2, <1>3

LEMMA NextHolds == ThreadInv /\ [Next]_vars => ThreadInv'
<1> SUFFICES ASSUME ThreadInv, [Next]_vars
             PROVE  ThreadInv'
  OBVIOUS
<1>1. CASE Next
  BY <1>1, ThreadSteps, CallerSteps DEF Next
<1>2. CASE UNCHANGED vars
  BY <1>2 DEF vars, ThreadInv, TypeOK, LockComesBack, BlockOutlivesThread, FlagFollows,
     FreshStart, NoBlock, OnlyFailedStartsLeak, Running
<1>3. QED
  BY <1>1, <1>2

LEMMA ThreadInvariant == Spec => []ThreadInv
BY InitHolds, NextHolds, PTL DEF Spec

\* threadfunc never returns from the critical section with the mutex.
THEOREM MutexIsReturned == Spec => []LockComesBack
<1>1. ThreadInv => LockComesBack
  BY DEF ThreadInv
<1>2. QED
  BY <1>1, ThreadInvariant, PTL

\* thread_complete_success says whether a call of the thread failed.
THEOREM FlagIsHonest == Spec => []HonestFlag
<1>1. ThreadInv => HonestFlag
  BY DEF ThreadInv, FlagFollows, HonestFlag
<1>2. QED
  BY <1>1, ThreadInvariant, PTL

\* threadfunc works on memory that is allocated and its own.
THEOREM BlocksAreSafe == Spec => []BlockOutlivesThread
<1>1. ThreadInv => BlockOutlivesThread
  BY DEF ThreadInv
<1>2. QED
  BY <1>1, ThreadInvariant, PTL

\* Memory is lost only where pthread_create fails.
THEOREM LeaksAreFailedStarts == Spec => []OnlyFailedStartsLeak
<1>1. ThreadInv => OnlyFailedStartsLeak
  BY DEF ThreadInv
<1>2. QED
  BY <1>1, ThreadInvariant, PTL
=============================================================================
