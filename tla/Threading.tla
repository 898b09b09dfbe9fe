------------------------------ MODULE Threading ------------------------------
(***************************************************************************)
(* examples/threading: start_thread_obtaining_mutex starts a thread that   *)
(* waits, takes the mutex, holds it for a while and gives it back.  A      *)
(* caller starts such threads over one mutex, joins them and frees what    *)
(* they return.                                                            *)
(***************************************************************************)
EXTENDS Integers, FiniteSets

CONSTANTS
  Threads,        \* the threads the caller keeps a pthread_t for
  Blocks,         \* memory for structs thread_data
  NULL,           \* no thread, no block
  CreateMayFail   \* pthread_create may fail

ASSUME ThreadingAssumption ==
  NULL \notin Threads \cup Blocks /\ CreateMayFail \in BOOLEAN

VARIABLES
  owner,  \* who has the mutex
  pc,     \* where each thread is in threadfunc
  data,   \* the block of each thread, its argument and return value
  heap,   \* thread_complete_success of the allocated blocks
  failed, \* history: the threads of which a call has failed
  leaked  \* history: the blocks of threads that could not be created

vars == <<owner, pc, data, heap, failed, leaked>>

\* What thread_complete_success can be; malloc leaves it with any value.
Success == {"true", "false"}
Free    == "free"

Init ==
  /\ owner = NULL
  /\ pc = [t \in Threads |-> "none"]
  /\ data = [t \in Threads |-> NULL]
  /\ heap = [b \in Blocks |-> Free]
  /\ failed = {} /\ leaked = {}

Goto(t, label) == pc' = [pc EXCEPT ![t] = label]
-----------------------------------------------------------------------------
(* start_thread_obtaining_mutex.  Without memory it returns false and      *)
(* nothing has changed.                                                    *)

start(t) ==
  /\ pc[t] = "none"
  /\ \E b \in Blocks, any \in Success :
       /\ heap[b] = Free
       /\ heap' = [heap EXCEPT ![b] = any]
       /\ data' = [data EXCEPT ![t] = b]
  /\ Goto(t, "begin")
  /\ failed' = failed \ {t}
  /\ UNCHANGED <<owner, leaked>>

\* pthread_create fails: false is returned and the block stays allocated.
start_fails(t) ==
  /\ CreateMayFail
  /\ pc[t] = "none"
  /\ \E b \in Blocks, any \in Success :
       /\ heap[b] = Free /\ heap' = [heap EXCEPT ![b] = any]
       /\ leaked' = leaked \cup {b}
  /\ UNCHANGED <<owner, pc, data, failed>>
-----------------------------------------------------------------------------
(* threadfunc.                                                             *)

SetSuccess(t, value) == heap' = [heap EXCEPT ![data[t]] = value]

Failure(t) ==
  SetSuccess(t, "false") /\ failed' = failed \cup {t}

begin(t) ==
  /\ pc[t] = "begin" /\ Goto(t, "wait")
  /\ SetSuccess(t, "true")
  /\ UNCHANGED <<owner, data, failed, leaked>>

wait(t) ==
  /\ pc[t] = "wait" /\ Goto(t, "lock")
  /\ UNCHANGED <<owner, data, heap, failed, leaked>>

\* Mutant: the thread frees the block that it returns.
MutWaitFrees(t) ==
  /\ pc[t] = "wait" /\ Goto(t, "returned")
  /\ SetSuccess(t, Free) /\ failed' = failed \cup {t}
  /\ UNCHANGED <<owner, data, leaked>>

\* Mutant: the thread returns no block.
MutWaitReturnsNull(t) ==
  /\ pc[t] = "wait" /\ Goto(t, "returned")
  /\ Failure(t)
  /\ data' = [data EXCEPT ![t] = NULL]
  /\ UNCHANGED <<owner, leaked>>

\* A signal interrupts usleep.
wait_fails(t) ==
  /\ pc[t] = "wait" /\ Goto(t, "returned")
  /\ Failure(t)
  /\ UNCHANGED <<owner, data, leaked>>

lock(t) ==
  /\ pc[t] = "lock" /\ Goto(t, "hold")
  /\ owner = NULL /\ owner' = t
  /\ UNCHANGED <<data, heap, failed, leaked>>

\* The mutex of the caller is not one that can be locked now.
lock_fails(t) ==
  /\ pc[t] = "lock" /\ Goto(t, "returned")
  /\ Failure(t)
  /\ UNCHANGED <<owner, data, leaked>>

hold(t) ==
  /\ pc[t] = "hold" /\ Goto(t, "unlock")
  /\ UNCHANGED <<owner, data, heap, failed, leaked>>

\* Mutant: returns from the critical section.
MutHoldReturns(t) ==
  /\ pc[t] = "hold" /\ Goto(t, "returned")
  /\ Failure(t)
  /\ UNCHANGED <<owner, data, leaked>>

\* Mutant: the failure is not reported.
MutHoldForgets(t) ==
  /\ pc[t] = "hold" /\ Goto(t, "unlock")
  /\ failed' = failed \cup {t}
  /\ UNCHANGED <<owner, data, heap, leaked>>

hold_fails(t) ==
  /\ pc[t] = "hold" /\ Goto(t, "unlock")
  /\ Failure(t)
  /\ UNCHANGED <<owner, data, leaked>>

\* The thread has the mutex, so the call does not fail.
unlock(t) ==
  /\ pc[t] = "unlock" /\ Goto(t, "returned")
  /\ owner' = NULL
  /\ UNCHANGED <<data, heap, failed, leaked>>

\* What a thread does without waiting for another.
proceed(t) ==
  begin(t) \/ wait(t) \/ wait_fails(t) \/ hold(t) \/ hold_fails(t) \/ unlock(t)

threadfunc(t) == proceed(t) \/ lock(t) \/ lock_fails(t)
-----------------------------------------------------------------------------
\* The caller joins the thread and frees the block it returned.
join(t) ==
  /\ pc[t] = "returned" /\ Goto(t, "none")
  /\ heap' = [heap EXCEPT ![data[t]] = Free]
  /\ data' = [data EXCEPT ![t] = NULL]
  /\ UNCHANGED <<owner, failed, leaked>>

Next ==
  \E t \in Threads :
    start(t) \/ start_fails(t) \/ threadfunc(t) \/ join(t)

Spec == Init /\ [][Next]_vars

\* Threads run, and a waiter gets the mutex if it is free again and again;
\* that locking fails is nothing to rely on.
FairSpec ==
  Spec /\ \A t \in Threads : WF_vars(proceed(t)) /\ SF_vars(lock(t))
-----------------------------------------------------------------------------
TypeOK ==
  /\ owner \in Threads \cup {NULL}
  /\ pc \in [Threads -> {"none", "begin", "wait", "lock", "hold", "unlock", "returned"}]
  /\ data \in [Threads -> Blocks \cup {NULL}]
  /\ heap \in [Blocks -> Success \cup {Free}]
  /\ failed \in SUBSET Threads /\ leaked \in SUBSET Blocks

Running(t) == pc[t] # "none"

\* The mutex belongs to the one thread in the critical section: none returns
\* with it, not even when the second usleep fails, and none waits for it
\* with it.
LockComesBack ==
  \A t \in Threads : owner = t <=> pc[t] \in {"hold", "unlock"}

\* What the joiner reads in thread_complete_success is whether a call of the
\* thread failed, whatever malloc had left there.
HonestFlag ==
  \A t \in Threads : pc[t] = "returned" => (heap[data[t]] = "true" <=> t \notin failed)

\* A thread's block is allocated from its start to its join, and is its own:
\* threadfunc never touches memory that was freed or given to another.
BlockOutlivesThread ==
  \A t \in Threads : Running(t) =>
    /\ data[t] # NULL /\ heap[data[t]] # Free
    /\ \A u \in Threads : data[u] = data[t] => u = t

\* Every block in use is one that a thread will return to the joiner, who
\* frees it -- or one of a thread that could not be created, which
\* start_thread_obtaining_mutex forgets.
OnlyFailedStartsLeak ==
  \A b \in Blocks : heap[b] # Free =>
    b \in leaked \/ \E t \in Threads : Running(t) /\ data[t] = b

\* Every thread returns, however the others fail while they hold the mutex.
EveryThreadReturns == \A t \in Threads : pc[t] = "begin" ~> pc[t] = "returned"
=============================================================================
