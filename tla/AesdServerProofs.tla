-------------------------- MODULE AesdServerProofs --------------------------
(***************************************************************************)
(* The server's threads use the output file one at a time, and server_exit *)
(* waits for the service threads before it takes things away from them:    *)
(* for any number of clients, whatever fails and whenever signals arrive.  *)
(***************************************************************************)
EXTENDS AesdServerProperties, FiniteSetTheorems, TLAPS

AllLabels == MainLabels \cup CleanupLabels \cup ClockLabels \cup ClientLabels

\* The suffixes of server_exit, each named after the step it follows.
AfterFinishedSignal == {"exit_clock_sem", "exit_unlink"}
AfterMutex          == {"exit_finished_signal"} \cup AfterFinishedSignal
AfterClose          == {"exit_mutex"} \cup AfterMutex
AfterClockJoin      == {"exit_close"} \cup AfterClose
AfterCleanupJoin    == {"exit_join_clock"} \cup AfterClockJoin

(* How far server_exit has come tells which threads are over, and which    *)
(* objects may be gone.                                                    *)
Teardown ==
  /\ pc.main \in AfterCleanupJoin => pc.cleanup \in {"none", "done"}
  /\ pc.main \in AfterClockJoin => pc.clock \in {"none", "done"}
  /\ output_file = "closed" => pc.main \in AfterClose
  /\ mutex = "destroyed" => pc.main \in AfterMutex
  /\ finished_signal.state = "freed" => pc.main \in AfterFinishedSignal
  /\ clock_sem.state = "freed" => pc.main \in AfterFinishedSignal

\* The clock thread starts at init_clock, which is passed once.
NotYet ==
  pc.main \in InitLabels \ {"init_socket", "init_timer"} => pc.clock = "none"

\* A connection nobody has accepted has no thread yet.
Waiting == \A c \in backlog : c \in Clients /\ pc[c] = "none"

\* OneUserOfTheFile, thread by thread.
Owner ==
  mutex # "destroyed" =>
    \A t \in Threads : pc[t] \in {"protocol", "write"} <=> mutex = t

ServerInv ==
  /\ pc \in [Threads -> AllLabels]
  /\ mutex \in Threads \cup {NoThread, "destroyed"}
  /\ PcType /\ Teardown /\ NotYet /\ Waiting /\ Owner

USE ServerAssumption DEF Threads

(* The invariant holds when main starts.                                   *)
LEMMA InitInv == Init => ServerInv
  BY DEF Init, NullSem, ServerInv, PcType, Teardown, NotYet, Waiting, Owner, AllLabels,
     MainLabels, CleanupLabels, ClockLabels, ClientLabels, InitLabels, ExitLabels,
     AfterFinishedSignal, AfterMutex, AfterClose, AfterClockJoin, AfterCleanupJoin

(* server_init creates each service thread once, before server_exit.       *)
LEMMA InitSteps ==
  ASSUME ServerInv, server_init \/ InitFails
  PROVE  ServerInv'
<1> USE DEF ServerInv, PcType, Teardown, NotYet, Waiting, Owner, AllLabels,
            MainLabels, CleanupLabels, ClockLabels, ClientLabels, InitLabels, ExitLabels,
            AfterFinishedSignal, AfterMutex, AfterClose, AfterClockJoin, AfterCleanupJoin,
            Runs, Goto, NullSem, RawSem, ReadySem, signals, requests, files, infos, threads
<1>1. CASE init_finished_signal
  BY <1>1 DEF init_finished_signal
<1>2. CASE init_clock_sem_alloc
  BY <1>2 DEF init_clock_sem_alloc
<1>3. CASE init_clock_sem
  BY <1>3 DEF init_clock_sem
<1>4. CASE init_file
  BY <1>4 DEF init_file
<1>5. CASE init_cleanup
  <2>1. /\ pc' \in [Threads -> AllLabels]
        /\ pc'.main = "init_clock" /\ pc'.cleanup = "wait" /\ pc.main = "init_cleanup"
        /\ \A t \in Threads \ {"main", "cleanup"} : pc'[t] = pc[t]
    BY <1>5 DEF init_cleanup
  <2>2. UNCHANGED <<mutex, output_file, finished_signal, clock_sem, backlog>>
    BY <1>5 DEF init_cleanup
  <2>3. PcType' /\ NotYet'
    BY <2>1, <2>2
  <2>4. Waiting'
    <3>1. \A c \in backlog : c \in Clients /\ pc[c] = "none" /\ c \in Threads \ {"main", "cleanup"}
      OBVIOUS
    <3>2. QED
      BY <2>1, <2>2, <3>1
  <2>5. Teardown'
    BY <2>1, <2>2
  <2>6. Owner'
    BY <2>1, <2>2
  <2>7. QED
    BY <2>1, <2>2, <2>3, <2>4, <2>5, <2>6
<1>6. CASE init_clock
  <2>1. /\ pc' \in [Threads -> AllLabels]
        /\ pc'.main = "init_socket" /\ pc'.clock = "wait" /\ pc.main = "init_clock"
        /\ \A t \in Threads \ {"main", "clock"} : pc'[t] = pc[t]
    BY <1>6 DEF init_clock
  <2>2. UNCHANGED <<mutex, output_file, finished_signal, clock_sem, backlog>>
    BY <1>6 DEF init_clock
  <2>3. PcType'
    BY <2>1
  <2>4. NotYet'
    BY <2>1, <2>2
  <2>5. Waiting'
    BY <2>1, <2>2
  <2>6. Teardown'
    BY <2>1, <2>2
  <2>7. Owner'
    BY <2>1, <2>2
  <2>8. QED
    BY <2>1, <2>2, <2>3, <2>4, <2>5, <2>6, <2>7
<1>7. CASE init_socket
  BY <1>7 DEF init_socket
<1>8. CASE init_timer
  BY <1>8 DEF init_timer
<1>9. CASE InitFails
  BY <1>9 DEF InitFails
<1>10. QED
  BY <1>1, <1>2, <1>3, <1>4, <1>5, <1>6, <1>7, <1>8, <1>9 DEF server_init

(* server_run gives every accepted client a new thread.                    *)
LEMMA RunSteps ==
  ASSUME ServerInv, server_run \/ RunFails
  PROVE  ServerInv'
<1> USE DEF ServerInv, PcType, Teardown, NotYet, Waiting, Owner, AllLabels,
            MainLabels, CleanupLabels, ClockLabels, ClientLabels, InitLabels, ExitLabels,
            AfterFinishedSignal, AfterMutex, AfterClose, AfterClockJoin, AfterCleanupJoin,
            Runs, Goto, signals, requests, files, infos, threads
<1>1. CASE select
  BY <1>1 DEF select
<1>2. CASE select_interrupted
  BY <1>2 DEF select_interrupted
<1>3. ASSUME NEW c \in Clients, accept(c) PROVE ServerInv'
  BY <1>3 DEF accept
<1>4. CASE RunFails
  BY <1>4 DEF RunFails
<1>5. QED
  BY <1>1, <1>2, <1>3, <1>4 DEF server_run

(* server_exit joins before it destroys.                                   *)
LEMMA ExitSteps ==
  ASSUME ServerInv, server_exit
  PROVE  ServerInv'
<1> USE DEF ServerInv, PcType, Teardown, NotYet, Waiting, Owner, AllLabels,
            MainLabels, CleanupLabels, ClockLabels, ClientLabels, InitLabels, ExitLabels,
            AfterFinishedSignal, AfterMutex, AfterClose, AfterClockJoin, AfterCleanupJoin,
            Runs, Goto, NullSem, FreedSem, Posted, signals, requests, files, infos, threads
<1>1. CASE exit_timer
  BY <1>1 DEF exit_timer
<1>2. CASE exit_post
  BY <1>2 DEF exit_post
<1>3. CASE exit_join_cleanup
  BY <1>3 DEF exit_join_cleanup
<1>4. CASE exit_join_clock
  BY <1>4 DEF exit_join_clock
<1>5. CASE exit_close
  BY <1>5 DEF exit_close
<1>6. CASE exit_mutex
  BY <1>6 DEF exit_mutex
<1>7. CASE exit_finished_signal
  BY <1>7 DEF exit_finished_signal
<1>8. CASE exit_clock_sem
  <2>1. CASE clock_sem.state = "freed"
    <3>1. /\ pc.main = "exit_clock_sem" /\ pc' = [pc EXCEPT !.main = "exit_unlink"]
          /\ clock_sem' = NullSem
          /\ UNCHANGED <<mutex, output_file, finished_signal, backlog>>
      BY <1>8, <2>1 DEF exit_clock_sem
    <3>2. PcType' /\ NotYet' /\ Waiting' /\ Owner'
      BY <3>1
    <3>3. Teardown'
      BY <3>1
    <3>4. QED
      BY <3>1, <3>2, <3>3
  <2>2. CASE clock_sem.state # "freed"
    BY <1>8, <2>2 DEF exit_clock_sem
  <2>3. QED
    BY <2>1, <2>2
<1>9. CASE exit_unlink
  BY <1>9 DEF exit_unlink
<1>10. QED
  BY <1>1, <1>2, <1>3, <1>4, <1>5, <1>6, <1>7, <1>8, <1>9 DEF server_exit

(* A client thread takes the mutex before the protocol and gives it back   *)
(* after it; if the mutex is destroyed nothing is claimed.                 *)
LEMMA ClientSteps ==
  ASSUME ServerInv, NEW c \in Clients, client_thread(c) \/ sigpipe(c) \/ connect(c)
  PROVE  ServerInv'
<1> USE DEF ServerInv, PcType, Teardown, NotYet, Waiting, Owner, AllLabels,
            MainLabels, CleanupLabels, ClockLabels, ClientLabels, InitLabels, ExitLabels,
            AfterFinishedSignal, AfterMutex, AfterClose, AfterClockJoin, AfterCleanupJoin,
            Runs, Goto, Posted, signals, requests, files, infos, threads
<1>1. CASE client_lock(c)
  BY <1>1 DEF client_lock
<1>2. CASE client_protocol(c)
  BY <1>2 DEF client_protocol
<1>3. CASE client_close(c)
  BY <1>3 DEF client_close
<1>4. CASE client_post(c)
  BY <1>4 DEF client_post
<1>5. CASE connect(c)
  BY <1>5 DEF connect
<1>6. CASE sigpipe(c)
  BY <1>6 DEF sigpipe
<1>7. QED
  BY <1>1, <1>2, <1>3, <1>4, <1>5, <1>6 DEF client_thread

(* The service threads never start again, and the clock thread works on    *)
(* the file only under the mutex.                                          *)
LEMMA ServiceSteps ==
  ASSUME ServerInv, cleanup_thread \/ clock_thread
  PROVE  ServerInv'
<1> USE DEF ServerInv, PcType, Teardown, NotYet, Waiting, Owner, AllLabels,
            MainLabels, CleanupLabels, ClockLabels, ClientLabels, InitLabels, ExitLabels,
            AfterFinishedSignal, AfterMutex, AfterClose, AfterClockJoin, AfterCleanupJoin,
            Runs, Goto, Taken, signals, requests, files, infos, threads
<1>1. CASE cleanup_wait
  BY <1>1 DEF cleanup_wait
<1>2. CASE cleanup_search
  <2>1. \E label \in {"wait", "done"} : pc' = [pc EXCEPT !.cleanup = label]
    BY <1>2 DEF cleanup_search
  <2>2. /\ UNCHANGED <<mutex, output_file, finished_signal, clock_sem, backlog>>
        /\ pc.cleanup = "search"
    BY <1>2 DEF cleanup_search
  <2>3. QED
    BY <2>1, <2>2
<1>3. CASE clock_wait
  BY <1>3 DEF clock_wait
<1>4. CASE clock_check
  <2>1. \E label \in {"wait", "lock", "done"} : pc' = [pc EXCEPT !.clock = label]
    BY <1>4 DEF clock_check
  <2>2. /\ UNCHANGED <<mutex, output_file, finished_signal, clock_sem, backlog>>
        /\ pc.clock = "check"
    BY <1>4 DEF clock_check
  <2>3. QED
    BY <2>1, <2>2
<1>5. CASE clock_lock
  BY <1>5 DEF clock_lock
<1>6. CASE clock_write
  <2>1. \E label \in {"wait", "done"} : pc' = [pc EXCEPT !.clock = label]
    BY <1>6 DEF clock_write
  <2>2. /\ UNCHANGED <<output_file, finished_signal, clock_sem, backlog>>
        /\ pc.clock = "write" /\ mutex' = NoThread
    BY <1>6 DEF clock_write
  <2>3. mutex = "clock"
    BY <2>2
  <2>4. QED
    BY <2>1, <2>2, <2>3
<1>7. QED
  BY <1>1, <1>2, <1>3, <1>4, <1>5, <1>6 DEF cleanup_thread, clock_thread

(* A signal handler moves the main thread out of select at most.           *)
LEMMA SignalSteps ==
  ASSUME ServerInv,
         \/ \E t \in Threads : server_stop(t) \/ timer_callback(t)
         \/ handler_post
  PROVE  ServerInv'
<1> USE DEF ServerInv, PcType, Teardown, NotYet, Waiting, Owner, AllLabels,
            MainLabels, CleanupLabels, ClockLabels, ClientLabels, InitLabels, ExitLabels,
            AfterFinishedSignal, AfterMutex, AfterClose, AfterClockJoin, AfterCleanupJoin,
            Interrupted, Goto, ClockSemPosted, Posted, files, infos, threads, requests
<1>1. ASSUME NEW t \in Threads, server_stop(t) PROVE ServerInv'
  <2>1. CASE UNCHANGED pc
    BY <1>1, <2>1 DEF server_stop
  <2>2. CASE pc.main = "select" /\ pc' = [pc EXCEPT !.main = "select_eintr"]
    BY <1>1, <2>2 DEF server_stop
  <2>3. QED
    BY <1>1, <2>1, <2>2 DEF server_stop
<1>2. ASSUME NEW t \in Threads, timer_callback(t) PROVE ServerInv'
  <2>1. CASE UNCHANGED pc
    BY <1>2, <2>1 DEF timer_callback
  <2>2. CASE pc.main = "select" /\ pc' = [pc EXCEPT !.main = "select_eintr"]
    BY <1>2, <2>2 DEF timer_callback
  <2>3. QED
    BY <1>2, <2>1, <2>2 DEF timer_callback
<1>3. CASE handler_post
  BY <1>3 DEF handler_post
<1>4. QED
  BY <1>1, <1>2, <1>3

(* The invariant is inductive.                                             *)
LEMMA NextInv == ServerInv /\ [Next]_vars => ServerInv'
<1>1. ASSUME ServerInv, UNCHANGED vars PROVE ServerInv'
  BY <1>1 DEF vars, ServerInv, PcType, Teardown, NotYet, Waiting, Owner
<1>2. QED
  BY <1>1, InitSteps, RunSteps, ExitSteps, ClientSteps, ServiceSteps, SignalSteps
  DEF Next, main, Over

(* At most one thread at a time works on the output file, the one that     *)
(* holds the mutex, until server_exit destroys the mutex.                  *)
THEOREM FileIsExclusive == Spec => []OneUserOfTheFile
<1>1. ServerInv => OneUserOfTheFile
  <2> SUFFICES ASSUME ServerInv, mutex # "destroyed"
               PROVE  Users = {mutex} \ {NoThread}
    BY DEF OneUserOfTheFile
  <2>1. \A t : t \in Users => t = mutex /\ t # NoThread
    BY DEF Users, ServerInv, Owner
  <2>2. mutex # NoThread => mutex \in Users
    BY DEF Users, ServerInv, Owner
  <2>3. QED
    BY <2>1, <2>2
<1>2. QED
  BY InitInv, NextInv, <1>1, PTL DEF Spec

(* The cleanup and the clock thread are over before server_exit closes the *)
(* file or destroys the mutex or a semaphore.                              *)
THEOREM TeardownIsOrdered == Spec => []ServicesStopFirst
<1>1. ServerInv => ServicesStopFirst
  BY DEF ServerInv, Teardown, ServicesStopFirst, AfterFinishedSignal, AfterMutex,
         AfterClose, AfterClockJoin, AfterCleanupJoin
<1>2. QED
  BY InitInv, NextInv, <1>1, PTL DEF Spec
-----------------------------------------------------------------------------
(* What a running server may use.                                          *)

\* The labels of main where data.thread_finished_signal is not usable, and
\* those where clock_sem is not.
NoFinishedSignal == {"init_finished_signal"} \cup ExitLabels
NoClockSem == {"init_finished_signal", "init_clock_sem_alloc", "init_clock_sem"}
                \cup ExitLabels

Semaphore == [state: {"null", "raw", "ready", "freed"}, value: Nat]

(* The types without the bounds of the semaphores.                         *)
WeakTypes ==
  /\ status \in {"running", "exited", "crashed", "killed"}
  /\ should_stop \in BOOLEAN
  /\ handler \in Threads \cup {NoThread}
  /\ stops \in 0 .. MaxStops /\ lost \in BOOLEAN
  /\ clock_sem \in Semaphore /\ finished_signal \in Semaphore
  /\ timer \in {"null", "raw", "created", "armed"}
  /\ socket \in {"none", "open", "closed"}
  /\ output_file \in {"none", "open", "closed"}
  /\ backlog \in SUBSET Clients /\ thread_list \in SUBSET Clients
  /\ thread_finished \in SUBSET Clients /\ joined \in SUBSET Clients
  /\ broken \in SUBSET Clients

\* The labels of main before clock_sem is allocated.
BeforeClockSem == {"init_finished_signal", "init_clock_sem_alloc"}

(* What main has passed exists; the clock thread always finds its          *)
(* semaphore, and a client thread was created after the file was opened.   *)
Usable ==
  /\ pc.main \notin NoFinishedSignal => finished_signal.state = "ready"
  /\ pc.main \notin NoClockSem => clock_sem.state = "ready"
  /\ pc.main \in BeforeClockSem => clock_sem = NullSem
  /\ pc.main = "init_clock_sem" => clock_sem = RawSem
  /\ pc.clock \notin {"none", "done"} => clock_sem.state = "ready"
  /\ \A c \in Clients : pc[c] # "none" => output_file # "none"

(* Before clock_sem is allocated main is the only thread, and the only one *)
(* a signal can interrupt.                                                 *)
Alone ==
  pc.main \in BeforeClockSem =>
    /\ handler \in {"main", NoThread}
    /\ \A t \in Threads \ {"main"} : pc[t] = "none"

UseInv == WeakTypes /\ Usable /\ Alone

(* The objects a step may use exist, whatever main and the signals do.     *)
LEMMA UseSteps ==
  ASSUME ServerInv, UseInv, Next
  PROVE  UseInv'
<1> USE DEF ServerInv, PcType, Teardown, NotYet, UseInv, WeakTypes, Usable, Alone, BeforeClockSem,
            Semaphore, NoFinishedSignal, NoClockSem,
            MainLabels, CleanupLabels, ClockLabels, ClientLabels, InitLabels, ExitLabels,
            AfterFinishedSignal, AfterMutex, AfterClose, AfterClockJoin, AfterCleanupJoin,
            Runs, Goto, Access, NullSem, RawSem, ReadySem, FreedSem, Posted, Taken,
            signals, requests, files, infos, threads
<1>1. CASE server_init
  <2>1. CASE init_finished_signal
    BY <2>1 DEF init_finished_signal
  <2>2. CASE init_clock_sem_alloc
    BY <2>2 DEF init_clock_sem_alloc
  <2>3. CASE init_clock_sem
    BY <2>3 DEF init_clock_sem
  <2>4. CASE init_file
    BY <2>4 DEF init_file
  <2>5. CASE init_cleanup
    <3>1. /\ pc.main = "init_cleanup" /\ pc'.main # "init_finished_signal" /\ pc'.main \notin NoClockSem
          /\ pc'.clock \in {"wait", pc.clock}
          /\ \A c \in Clients : pc'[c] = pc[c]
          /\ UNCHANGED <<finished_signal, clock_sem, output_file>>
      <4>1. /\ pc.main = "init_cleanup" /\ UNCHANGED <<finished_signal, clock_sem, output_file>>
            /\ pc' = [pc EXCEPT !.main = "init_clock", !.cleanup = "wait"]
        BY <2>5 DEF init_cleanup
      <4>2. \A c \in Clients : pc'[c] = pc[c]
        BY <4>1, ServerAssumption
      <4>3. pc'.main = "init_clock" /\ pc'.clock \in {"wait", pc.clock}
        BY <4>1 DEF Threads
      <4>4. QED
        BY <4>1, <4>2, <4>3
    <3>2. WeakTypes'
      BY <2>5 DEF init_cleanup
    <3>3. QED
      BY <3>1, <3>2
  <2>6. CASE init_clock
    <3>1. /\ pc.main = "init_clock" /\ pc'.main # "init_finished_signal" /\ pc'.main \notin NoClockSem
          /\ pc'.clock \in {"wait", pc.clock}
          /\ \A c \in Clients : pc'[c] = pc[c]
          /\ UNCHANGED <<finished_signal, clock_sem, output_file>>
      <4>1. /\ pc.main = "init_clock" /\ UNCHANGED <<finished_signal, clock_sem, output_file>>
            /\ pc' = [pc EXCEPT !.main = "init_socket", !.clock = "wait"]
        BY <2>6 DEF init_clock
      <4>2. \A c \in Clients : pc'[c] = pc[c]
        BY <4>1, ServerAssumption
      <4>3. pc'.main = "init_socket" /\ pc'.clock \in {"wait", pc.clock}
        BY <4>1 DEF Threads
      <4>4. QED
        BY <4>1, <4>2, <4>3
    <3>2. WeakTypes'
      BY <2>6 DEF init_clock
    <3>3. QED
      BY <3>1, <3>2
  <2>7. CASE init_socket
    BY <2>7 DEF init_socket
  <2>8. CASE init_timer
    BY <2>8 DEF init_timer
  <2>9. QED
    BY <1>1, <2>1, <2>2, <2>3, <2>4, <2>5, <2>6, <2>7, <2>8 DEF server_init
<1>2. CASE InitFails
  BY <1>2 DEF InitFails
<1>3. CASE server_run
  <2>1. CASE select
    BY <2>1 DEF select
  <2>2. CASE select_interrupted
    BY <2>2 DEF select_interrupted
  <2>3. ASSUME NEW c \in Clients, accept(c) PROVE UseInv'
    BY <2>3 DEF accept
  <2>4. QED
    BY <1>3, <2>1, <2>2, <2>3 DEF server_run
<1>4. CASE RunFails
  BY <1>4 DEF RunFails
<1>5. CASE server_exit
  <2>1. CASE exit_timer
    BY <2>1 DEF exit_timer
  <2>2. CASE exit_post
    BY <2>2 DEF exit_post
  <2>3. CASE exit_join_cleanup
    BY <2>3 DEF exit_join_cleanup
  <2>4. CASE exit_join_clock
    BY <2>4 DEF exit_join_clock
  <2>5. CASE exit_close
    BY <2>5 DEF exit_close
  <2>6. CASE exit_mutex
    BY <2>6 DEF exit_mutex
  <2>7. CASE exit_finished_signal
    BY <2>7 DEF exit_finished_signal
  <2>8. CASE exit_clock_sem
    <3>1. /\ \/ pc' = pc
             \/ pc' = [pc EXCEPT !.main = "exit_unlink"]
          /\ pc.main = "exit_clock_sem" /\ UNCHANGED <<finished_signal, output_file>>
      BY <2>8 DEF exit_clock_sem
    <3>2. WeakTypes'
      BY <2>8 DEF exit_clock_sem
    <3>3. pc.clock \in {"none", "done"}
      BY <3>1
    <3>4. QED
      BY <3>1, <3>2, <3>3
  <2>9. CASE exit_unlink
    BY <2>9 DEF exit_unlink
  <2>10. QED
    BY <1>5, <2>1, <2>2, <2>3, <2>4, <2>5, <2>6, <2>7, <2>8, <2>9 DEF server_exit
<1>6. ASSUME NEW c \in Clients, client_thread(c) \/ sigpipe(c) \/ connect(c)
      PROVE  UseInv'
  <2>1. CASE client_lock(c)
    BY <2>1 DEF client_lock
  <2>2. CASE client_protocol(c)
    BY <2>2 DEF client_protocol
  <2>3. CASE client_close(c)
    BY <2>3 DEF client_close
  <2>4. CASE client_post(c)
    BY <2>4 DEF client_post
  <2>5. CASE sigpipe(c)
    BY <2>5 DEF sigpipe
  <2>6. CASE connect(c)
    BY <2>6 DEF connect
  <2>7. QED
    BY <1>6, <2>1, <2>2, <2>3, <2>4, <2>5, <2>6 DEF client_thread
<1>7. CASE cleanup_thread
  <2>1. CASE cleanup_wait
    BY <2>1 DEF cleanup_wait
  <2>2. CASE cleanup_search
    <3>1. /\ \E label \in {"wait", "done"} : pc' = [pc EXCEPT !.cleanup = label]
          /\ pc.cleanup = "search"
          /\ UNCHANGED <<finished_signal, clock_sem, output_file, handler>>
      BY <2>2 DEF cleanup_search
    <3>2. WeakTypes'
      BY <2>2 DEF cleanup_search
    <3>3. QED
      BY <3>1, <3>2
  <2>3. QED
    BY <1>7, <2>1, <2>2 DEF cleanup_thread
<1>8. CASE clock_thread
  <2>1. CASE clock_wait
    BY <2>1 DEF clock_wait
  <2>2. CASE clock_check
    <3>1. /\ \E label \in {"wait", "lock", "done"} : pc' = [pc EXCEPT !.clock = label]
          /\ pc.clock = "check" /\ UNCHANGED <<finished_signal, clock_sem, output_file>>
      BY <2>2 DEF clock_check
    <3>2. WeakTypes'
      BY <2>2 DEF clock_check
    <3>3. QED
      BY <3>1, <3>2
  <2>3. CASE clock_lock
    BY <2>3 DEF clock_lock
  <2>4. CASE clock_write
    <3>1. /\ \E label \in {"wait", "done"} : pc' = [pc EXCEPT !.clock = label]
          /\ pc.clock = "write" /\ UNCHANGED <<finished_signal, clock_sem, output_file>>
      BY <2>4 DEF clock_write
    <3>2. WeakTypes'
      BY <2>4 DEF clock_write
    <3>3. QED
      BY <3>1, <3>2
  <2>5. QED
    BY <1>8, <2>1, <2>2, <2>3, <2>4 DEF clock_thread
<1>9. ASSUME NEW t \in Threads, server_stop(t) \/ timer_callback(t)
      PROVE  UseInv'
  <2>1. CASE server_stop(t)
    <3>1. /\ \/ pc' = pc
             \/ pc.main = "select" /\ pc' = [pc EXCEPT !.main = "select_eintr"]
          /\ UNCHANGED <<finished_signal, clock_sem, output_file>>
          /\ handler' = t /\ pc[t] # "none"
      BY <2>1 DEF server_stop, Takes, Interrupted
    <3>2. WeakTypes'
      BY <2>1 DEF server_stop
    <3>3. QED
      BY <3>1, <3>2
  <2>2. CASE timer_callback(t)
    BY <2>2 DEF timer_callback, Takes, Interrupted, ClockSemPosted
  <2>3. QED
    BY <1>9, <2>1, <2>2
<1>10. CASE handler_post
  BY <1>10 DEF handler_post, ClockSemPosted
<1>11. CASE Over
  BY <1>11 DEF Over, vars
<1>12. QED
  BY <1>1, <1>2, <1>3, <1>4, <1>5, <1>6, <1>7, <1>8, <1>9, <1>10, <1>11 DEF Next, main

(* The objects exist throughout.                                           *)
LEMMA UseInvariant == Spec => [](ServerInv /\ UseInv)
<1>1. ASSUME Init PROVE UseInv
  <2>1. clock_sem \in Semaphore /\ finished_signal \in Semaphore
    BY <1>1 DEF Init, NullSem, Semaphore
  <2>2. stops \in 0 .. MaxStops /\ handler \in Threads \cup {NoThread}
    BY <1>1 DEF Init
  <2>3. should_stop \in BOOLEAN /\ lost \in BOOLEAN
    BY <1>1, Zenon DEF Init
  <2>4. WeakTypes
    BY <1>1, <2>1, <2>2, <2>3 DEF Init, WeakTypes
  <2>5. Usable
    BY <1>1 DEF Init, Usable, NoFinishedSignal, NoClockSem, BeforeClockSem, NullSem
  <2>6. Alone
    BY <1>1 DEF Init, Alone
  <2>7. QED
    BY <2>4, <2>5, <2>6 DEF UseInv
<1>2. ServerInv /\ UseInv /\ [Next]_vars => UseInv'
  <2>1. ASSUME UseInv, UNCHANGED vars PROVE UseInv'
    BY <2>1 DEF vars, UseInv, WeakTypes, Usable, Alone
  <2>2. QED
    BY <2>1, UseSteps
<1>3. QED
  BY <1>1, <1>2, InitInv, NextInv, PTL DEF Spec

(* A server that serves is crashed by nothing but a client thread without  *)
(* a stream: the other steps that crash it are those of server_exit, and a *)
(* stop signal before clock_sem is allocated.                              *)
THEOREM ServingNeverCrashes == Spec => CrashOnlyAtEdges
<1> DEFINE Edge == \/ handler = "main" /\ pc.main \in BeforeClockSem
                   \/ pc.main \in ExitLabels
                   \/ \E c \in broken : pc[c] \in {"protocol", "close"}
<1>1. ASSUME ServerInv, UseInv, Next, status = "running", status' = "crashed"
      PROVE  Edge
  <2> USE <1>1 DEF ServerInv, PcType, MainLabels, Runs, Access
  <2>1. ASSUME exit_timer PROVE Edge
    BY <2>1 DEF exit_timer, ExitLabels
  <2>2. ASSUME NEW c \in Clients, client_lock(c) PROVE Edge
    BY <2>2 DEF client_lock, Teardown, AfterMutex, AfterFinishedSignal, ExitLabels
  <2>3. ASSUME NEW c \in Clients, client_protocol(c) PROVE Edge
    <3>1. output_file = "closed" \/ c \in broken
      BY <2>3 DEF client_protocol, UseInv, WeakTypes, Usable
    <3>2. pc[c] = "protocol"
      BY <2>3 DEF client_protocol
    <3>3. QED
      BY <3>1, <3>2 DEF Teardown, AfterClose, AfterMutex, AfterFinishedSignal, ExitLabels
  <2>4. ASSUME NEW c \in Clients, client_close(c) PROVE Edge
    BY <2>4 DEF client_close
  <2>5. ASSUME NEW c \in Clients, client_post(c) PROVE Edge
    <3>1. pc[c] = "post" /\ finished_signal.state # "ready"
      BY <2>5 DEF client_post
    <3>2. pc.main # "init_finished_signal"
      BY <3>1 DEF UseInv, Alone, BeforeClockSem
    <3>3. QED
      BY <3>1, <3>2 DEF UseInv, Usable, NoFinishedSignal
  <2>6. ASSUME handler_post PROVE Edge
    <3>1. handler # NoThread /\ clock_sem.state \in {"null", "freed"}
      BY <2>6 DEF handler_post
    <3>2. CASE pc.main \in BeforeClockSem
      BY <3>1, <3>2 DEF UseInv, Alone
    <3>3. CASE pc.main \notin BeforeClockSem
      BY <3>1, <3>3 DEF UseInv, Usable, NoClockSem, BeforeClockSem, RawSem
    <3>4. QED
      BY <3>2, <3>3
  <2>7. ASSUME status' = status \/ status' \in {"killed", "exited"} PROVE FALSE
    BY <2>7
  <2>8. server_init \/ InitFails \/ server_run \/ RunFails => status' = status
    BY DEF server_init, init_finished_signal, init_clock_sem_alloc, init_clock_sem, init_file,
           init_cleanup, init_clock, init_socket, init_timer, InitFails,
           server_run, select, select_interrupted, accept, RunFails
  <2>9. server_exit => exit_timer \/ status' = status \/ status' = "exited"
    BY DEF server_exit, exit_post, exit_join_cleanup, exit_join_clock, exit_close,
           exit_mutex, exit_finished_signal, exit_clock_sem, exit_unlink
  <2>10. cleanup_thread \/ clock_thread => status' = status
    BY DEF cleanup_thread, clock_thread, cleanup_wait, cleanup_search,
           clock_wait, clock_check, clock_lock, clock_write
  <2>11. \A c \in Clients : connect(c) => status' = status
    BY DEF connect
  <2>12. \A c \in Clients : sigpipe(c) => status' = "killed"
    BY DEF sigpipe
  <2>13. \A t \in Threads : server_stop(t) \/ timer_callback(t) => status' = status
    BY DEF server_stop, timer_callback
  <2>14. Over => FALSE
    BY DEF Over, vars
  <2>15. QED
    BY <2>1, <2>2, <2>3, <2>4, <2>5, <2>6, <2>7, <2>8, <2>9, <2>10, <2>11, <2>12, <2>13,
       <2>14
    DEF Next, main, client_thread
<1>2. ServerInv /\ UseInv /\ [Next]_vars
        => [status = "running" /\ status' = "crashed" => Edge]_vars
  BY <1>1
<1>3. QED
  BY <1>2, UseInvariant, PTL DEF Spec, CrashOnlyAtEdges, BeforeClockSem
-----------------------------------------------------------------------------
(* Stop requests and posts.                                                *)

(* The clock thread looks at the flag before it goes on, so a request that *)
(* finds it before or beyond the check has a post of its own, or one that  *)
(* was lost in sem_init.                                                   *)
Wakes ==
  /\ should_stop
  /\ \/ pc.clock \in {"wait", "lock", "write"}
     \/ pc.clock = "none" /\ pc.main \in InitLabels /\ status = "running"
  => handler # NoThread \/ clock_sem.value > 0 \/ lost

(* No step of a thread takes the post away from a request that the clock   *)
(* thread has not seen.                                                    *)
LEMMA WakeSteps ==
  ASSUME ServerInv, UseInv, Wakes, Next
  PROVE  Wakes'
<1> USE DEF ServerInv, PcType, UseInv, WeakTypes, Usable, Semaphore, NoClockSem, Wakes,
            BeforeClockSem, NullSem, RawSem, ReadySem,
            MainLabels, ClockLabels, InitLabels, ExitLabels, Runs, Goto,
            signals, requests, files, infos, threads
<1>1. CASE server_init
  <2>1. CASE init_clock_sem_alloc
    BY <2>1 DEF init_clock_sem_alloc, NotYet
  <2>2. CASE init_clock_sem
    BY <2>2 DEF init_clock_sem, NotYet
  <2>3. CASE init_clock
    BY <2>3 DEF init_clock, NotYet
  <2>4. CASE init_finished_signal
    BY <2>4 DEF init_finished_signal
  <2>5. CASE init_file
    BY <2>5 DEF init_file
  <2>6. CASE init_cleanup
    BY <2>6 DEF init_cleanup
  <2>7. CASE init_socket
    BY <2>7 DEF init_socket
  <2>8. CASE init_timer
    BY <2>8 DEF init_timer
  <2> HIDE DEF Wakes
  <2>9. QED
    BY <1>1, <2>1, <2>2, <2>3, <2>4, <2>5, <2>6, <2>7, <2>8 DEF server_init
<1>2. CASE InitFails
  BY <1>2 DEF InitFails
<1>3. CASE server_run \/ RunFails
  <2>1. /\ UNCHANGED <<should_stop, handler, lost, clock_sem>> /\ pc'.clock = pc.clock
        /\ pc'.main \notin InitLabels
    <3>1. ASSUME NEW c \in Clients, accept(c)
          PROVE  /\ UNCHANGED <<should_stop, handler, lost, clock_sem>> /\ pc'.clock = pc.clock
                 /\ pc'.main \notin InitLabels
      BY <3>1 DEF accept
    <3>2. CASE select \/ select_interrupted \/ RunFails
      BY <3>2 DEF select, select_interrupted, RunFails
    <3>3. QED
      BY <1>3, <3>1, <3>2 DEF server_run
  <2>2. QED
    BY <2>1
<1>4. CASE server_exit
  <2>1. CASE exit_clock_sem
    <3>1. /\ pc.main = "exit_clock_sem" /\ pc'.clock = pc.clock
          /\ pc'.main \notin InitLabels
      BY <2>1 DEF exit_clock_sem
    <3>2. pc.clock \in {"none", "done"}
      BY <3>1 DEF Teardown, AfterClockJoin, AfterClose, AfterMutex, AfterFinishedSignal
    <3>3. QED
      BY <3>1, <3>2
  <2>2. CASE exit_timer \/ exit_post \/ exit_join_cleanup \/ exit_join_clock \/ exit_close
             \/ exit_mutex \/ exit_finished_signal \/ exit_unlink
    <3>1. /\ UNCHANGED <<should_stop, handler, lost, clock_sem>> /\ pc'.clock = pc.clock
          /\ pc'.main \notin InitLabels
      BY <2>2 DEF exit_timer, exit_post, exit_join_cleanup, exit_join_clock, exit_close,
                  exit_mutex, exit_finished_signal, exit_unlink
    <3>2. QED
      BY <3>1
  <2>3. QED
    BY <1>4, <2>1, <2>2 DEF server_exit
<1>5. ASSUME NEW c \in Clients, client_thread(c) \/ sigpipe(c) \/ connect(c)
      PROVE  Wakes'
  <2>1. /\ UNCHANGED <<should_stop, handler, lost, clock_sem>>
        /\ pc'.clock = pc.clock /\ pc'.main = pc.main /\ status = "running"
    BY <1>5 DEF client_thread, client_lock, client_protocol, client_close, client_post,
                sigpipe, connect
  <2>2. QED
    BY <2>1
<1>6. CASE cleanup_thread
  <2>1. /\ UNCHANGED <<should_stop, handler, lost, clock_sem>>
        /\ pc'.clock = pc.clock /\ pc'.main = pc.main /\ status' = status
    BY <1>6 DEF cleanup_thread, cleanup_wait, cleanup_search
  <2>2. QED
    BY <2>1
<1>7. CASE clock_thread
  <2>1. UNCHANGED <<should_stop, handler, lost, status>> /\ pc'.main = pc.main
    BY <1>7 DEF clock_thread, clock_wait, clock_check, clock_lock, clock_write
  <2>2. CASE clock_wait
    BY <2>1, <2>2 DEF clock_wait
  <2>3. CASE clock_check
    BY <2>1, <2>3 DEF clock_check
  <2>4. CASE clock_lock
    BY <2>1, <2>4 DEF clock_lock
  <2>5. CASE clock_write
    BY <2>1, <2>5 DEF clock_write
  <2>6. QED
    BY <1>7, <2>2, <2>3, <2>4, <2>5 DEF clock_thread
<1>8. ASSUME NEW t \in Threads, server_stop(t) \/ timer_callback(t)
      PROVE  Wakes'
  <2>1. pc'.clock = pc.clock /\ (pc'.main = pc.main \/ pc'.main = "select_eintr")
    BY <1>8 DEF server_stop, timer_callback, Interrupted
  <2>2. CASE server_stop(t)
    BY <2>1, <2>2 DEF server_stop
  <2>3. CASE timer_callback(t)
    BY <2>1, <2>3 DEF timer_callback, Takes
  <2>4. QED
    BY <1>8, <2>2, <2>3
<1>9. CASE handler_post
  <2>1. /\ UNCHANGED <<should_stop, pc>> /\ lost' = (clock_sem.state = "raw")
        /\ clock_sem.state = "null" => status' = "crashed"
    BY <1>9 DEF handler_post
  <2>2. CASE clock_sem.state = "ready" /\ pc.clock # "done"
    BY <1>9, <2>2 DEF handler_post, ClockSemPosted, Posted
  <2>3. CASE clock_sem.state # "ready" \/ pc.clock = "done"
    BY <2>1, <2>3 DEF Teardown, AfterFinishedSignal
  <2>4. QED
    BY <2>2, <2>3
<1>10. CASE Over
  BY <1>10 DEF Over, vars
<1>11. QED
  BY <1>1, <1>2, <1>3, <1>4, <1>5, <1>6, <1>7, <1>8, <1>9, <1>10 DEF Next, main

(* Once server_stop has returned, a clock thread that waits finds its      *)
(* semaphore posted, unless the post came before sem_init and no handler   *)
(* has run since.                                                          *)
THEOREM StopIsNotLost == Spec => []StopWakesClock
<1>1. Init => Wakes
  BY DEF Init, Wakes
<1>2. ServerInv /\ UseInv /\ Wakes /\ [Next]_vars => Wakes'
  <2>1. ASSUME Wakes, UNCHANGED vars PROVE Wakes'
    BY <2>1 DEF vars, Wakes
  <2>2. QED
    BY <2>1, WakeSteps
<1>3. Wakes => StopWakesClock
  BY DEF Wakes, StopWakesClock
<1>4. QED
  BY <1>1, <1>2, <1>3, UseInvariant, PTL DEF Spec
-----------------------------------------------------------------------------
(* The semaphores stay within their bounds.                                *)

\* The clients that have posted, and where main has.
Posters   == {c \in Clients : pc[c] = "done"}
AfterPost == {"exit_join_cleanup"} \cup AfterCleanupJoin

(* A tick is not sent to a semaphore that has MaxTicks posts already, and  *)
(* every other post, made or still to be made by a handler, belongs to a   *)
(* stop request or finds the clock thread over; the posts of                *)
(* thread_finished_signal belong to clients, but for the one of main.      *)
Counts ==
  /\ clock_sem.value + (IF handler # NoThread /\ pc.clock # "done" THEN 1 ELSE 0)
       <= MaxTicks + stops
  /\ finished_signal.value <=
       Cardinality(Posters) + (IF pc.main \in AfterPost THEN 1 ELSE 0)

(* Steps that post nothing keep the bounds.                                *)
LEMMA QuietStep ==
  ASSUME IsFiniteSet(Clients), UseInv, UseInv', Counts,
         UNCHANGED <<handler, stops>>,
         clock_sem'.value <= clock_sem.value,
         finished_signal'.value <= finished_signal.value,
         pc.main \in AfterPost => pc'.main \in AfterPost,
         pc.clock = "done" => pc'.clock = "done",
         \A c \in Clients : pc'[c] = "done" <=> pc[c] = "done"
  PROVE  Counts'
<1>1. Posters' = Posters
  BY DEF Posters
<1>2. Cardinality(Posters) \in Nat
  BY FS_Subset, FS_CardinalityType DEF Posters
<1>3. /\ clock_sem.value \in Nat /\ finished_signal.value \in Nat
      /\ clock_sem'.value \in Nat /\ finished_signal'.value \in Nat /\ stops \in Nat
  BY DEF UseInv, WeakTypes, Semaphore
<1> HIDE DEF Posters
<1>4. QED
  BY <1>1, <1>2, <1>3 DEF Counts

(* Every step keeps the bounds.                                            *)
LEMMA CountSteps ==
  ASSUME IsFiniteSet(Clients), ServerInv, UseInv, UseInv', Counts, Next
  PROVE  Counts'
<1>1. /\ clock_sem \in Semaphore /\ finished_signal \in Semaphore /\ stops \in 0 .. MaxStops
      /\ pc \in [Threads -> AllLabels]
  BY DEF UseInv, WeakTypes, ServerInv
<1>2. Cardinality(Posters) \in Nat /\ IsFiniteSet(Posters)
  BY FS_Subset, FS_CardinalityType DEF Posters
<1> DEFINE Quiet == /\ UNCHANGED <<handler, stops>>
                    /\ clock_sem'.value <= clock_sem.value
                    /\ finished_signal'.value <= finished_signal.value
                    /\ pc.main \in AfterPost => pc'.main \in AfterPost
                    /\ pc.clock = "done" => pc'.clock = "done"
                    /\ \A c \in Clients : pc'[c] = "done" <=> pc[c] = "done"
<1>3. Quiet => Counts'
  BY QuietStep
<1> USE DEF Semaphore, AfterPost, AfterCleanupJoin, AfterClockJoin, AfterClose, AfterMutex,
            AfterFinishedSignal, Runs, Goto, NullSem, RawSem, ReadySem, FreedSem,
            signals, requests, files, infos, threads
<1>4. CASE server_init
  <2>1. CASE init_finished_signal \/ init_clock_sem_alloc \/ init_clock_sem \/ init_file
             \/ init_socket \/ init_timer
    <3>1. CASE init_finished_signal
      BY <1>1, <1>3, <3>1 DEF init_finished_signal
    <3>2. CASE init_clock_sem_alloc
      BY <1>1, <1>3, <3>2 DEF init_clock_sem_alloc
    <3>3. CASE init_clock_sem
      BY <1>1, <1>3, <3>3 DEF init_clock_sem
    <3>4. CASE init_file
      BY <1>1, <1>3, <3>4 DEF init_file
    <3>5. CASE init_socket
      BY <1>1, <1>3, <3>5 DEF init_socket
    <3>6. CASE init_timer
      BY <1>1, <1>3, <3>6 DEF init_timer
    <3>7. QED
      BY <2>1, <3>1, <3>2, <3>3, <3>4, <3>5, <3>6
  <2>2. CASE init_cleanup
    <3>1. /\ pc.main = "init_cleanup" /\ UNCHANGED <<handler, stops, clock_sem, finished_signal>>
          /\ pc'.clock = pc.clock /\ \A c \in Clients : pc'[c] = pc[c]
      BY <1>1, <2>2 DEF init_cleanup
    <3>2. Quiet
      BY <1>1, <3>1
    <3>3. QED
      BY <1>3, <3>2
  <2>3. CASE init_clock
    <3>1. /\ pc.main = "init_clock" /\ UNCHANGED <<handler, stops, clock_sem, finished_signal>>
          /\ pc.clock = "none" /\ \A c \in Clients : pc'[c] = pc[c]
      BY <1>1, <2>3 DEF init_clock, ServerInv, NotYet, InitLabels
    <3>2. Quiet
      BY <1>1, <3>1
    <3>3. QED
      BY <1>3, <3>2
  <2>4. QED
    BY <1>4, <2>1, <2>2, <2>3 DEF server_init
<1>5. CASE InitFails
  BY <1>1, <1>3, <1>5 DEF InitFails, InitLabels
<1>6. CASE server_run \/ RunFails
  <2>1. ASSUME NEW c \in Clients, accept(c) PROVE Quiet
    BY <1>1, <2>1 DEF accept, ServerInv, Waiting
  <2>2. CASE select \/ select_interrupted
    <3>1. CASE select
      BY <1>1, <1>3, <3>1 DEF select
    <3>2. CASE select_interrupted
      BY <1>1, <1>3, <3>2 DEF select_interrupted
    <3>3. QED
      BY <2>2, <3>1, <3>2
  <2>3. CASE RunFails
    BY <1>1, <1>3, <2>3 DEF RunFails
  <2>4. QED
    BY <1>3, <1>6, <2>1, <2>2, <2>3 DEF server_run
<1>7. CASE server_exit
  <2>1. CASE exit_post
    <3>1. /\ UNCHANGED <<handler, stops, clock_sem>> /\ finished_signal'.value = finished_signal.value + 1
          /\ pc.main \notin AfterPost /\ pc'.main \in AfterPost /\ pc'.clock = pc.clock
          /\ \A c \in Clients : pc'[c] = pc[c]
      BY <1>1, <2>1 DEF exit_post, Posted
    <3>2. Posters' = Posters
      BY <3>1 DEF Posters
    <3>3. QED
      BY <1>1, <1>2, <3>1, <3>2 DEF Counts
  <2>2. CASE exit_timer \/ exit_join_cleanup \/ exit_join_clock \/ exit_close
             \/ exit_mutex \/ exit_unlink
    <3>1. CASE exit_timer
      BY <1>1, <1>3, <3>1 DEF exit_timer
    <3>2. CASE exit_join_cleanup
      BY <1>1, <1>3, <3>2 DEF exit_join_cleanup
    <3>3. CASE exit_join_clock
      BY <1>1, <1>3, <3>3 DEF exit_join_clock
    <3>4. CASE exit_close
      BY <1>1, <1>3, <3>4 DEF exit_close
    <3>5. CASE exit_mutex
      BY <1>1, <1>3, <3>5 DEF exit_mutex
    <3>6. CASE exit_unlink
      BY <1>1, <1>3, <3>6 DEF exit_unlink
    <3>7. QED
      BY <2>2, <3>1, <3>2, <3>3, <3>4, <3>5, <3>6
  <2>3. CASE exit_finished_signal
    BY <1>1, <1>3, <2>3 DEF exit_finished_signal
  <2>4. CASE exit_clock_sem
    <3>1. /\ UNCHANGED <<handler, stops, finished_signal>> /\ clock_sem'.value = 0
          /\ pc'.main \in AfterPost /\ pc'.clock = pc.clock
          /\ \A c \in Clients : pc'[c] = pc[c]
      BY <1>1, <2>4 DEF exit_clock_sem
    <3>2. Quiet
      BY <1>1, <3>1
    <3>3. QED
      BY <1>3, <3>2
  <2>5. QED
    BY <1>7, <2>1, <2>2, <2>3, <2>4 DEF server_exit
<1>8. ASSUME NEW c \in Clients, client_thread(c) \/ sigpipe(c) \/ connect(c)
      PROVE  Counts'
  <2>1. CASE client_post(c)
    <3>1. /\ UNCHANGED <<handler, stops, clock_sem>> /\ finished_signal'.value <= finished_signal.value + 1
          /\ pc'.main = pc.main /\ finished_signal' \in Semaphore
          /\ pc[c] # "done" /\ pc' = [pc EXCEPT ![c] = "done"]
      BY <1>1, <2>1 DEF client_post, Posted
    <3>2. Posters' = Posters \cup {c} /\ c \notin Posters
      BY <1>1, <3>1 DEF Posters
    <3>3. Cardinality(Posters') = Cardinality(Posters) + 1
      BY <1>2, <3>2, FS_AddElement
    <3>4. QED
      BY <1>1, <1>2, <3>1, <3>3 DEF Counts
  <2>2. CASE client_lock(c) \/ client_protocol(c) \/ client_close(c)
    <3>1. CASE client_lock(c)
      BY <1>1, <1>3, <3>1 DEF client_lock
    <3>2. CASE client_protocol(c)
      BY <1>1, <1>3, <3>2 DEF client_protocol
    <3>3. CASE client_close(c)
      BY <1>1, <1>3, <3>3 DEF client_close
    <3>4. QED
      BY <2>2, <3>1, <3>2, <3>3
  <2>3. CASE sigpipe(c) \/ connect(c)
    BY <1>1, <1>3, <2>3 DEF sigpipe, connect
  <2>4. QED
    BY <1>8, <2>1, <2>2, <2>3 DEF client_thread
<1>9. CASE cleanup_thread
  <2>1. CASE cleanup_wait
    BY <1>1, <1>3, <2>1 DEF cleanup_wait, Taken
  <2>2. CASE cleanup_search
    BY <1>1, <1>3, <2>2 DEF cleanup_search
  <2>3. QED
    BY <1>9, <2>1, <2>2 DEF cleanup_thread
<1>10. CASE clock_thread
  <2>1. CASE clock_wait
    BY <1>1, <1>3, <2>1 DEF clock_wait, Taken
  <2>2. CASE clock_check \/ clock_lock \/ clock_write
    <3>1. CASE clock_check
      <4>1. /\ UNCHANGED <<handler, stops, clock_sem, finished_signal>>
            /\ pc.clock # "done"
            /\ pc'.main = pc.main /\ \A c \in Clients : pc'[c] = pc[c]
        BY <1>1, <3>1 DEF clock_check
      <4>2. Quiet
        BY <1>1, <4>1
      <4>3. QED
        BY <1>3, <4>2
    <3>2. CASE clock_lock
      BY <1>1, <1>3, <3>2 DEF clock_lock
    <3>3. CASE clock_write
      <4>1. /\ UNCHANGED <<handler, stops, clock_sem, finished_signal>>
            /\ pc.clock # "done"
            /\ pc'.main = pc.main /\ \A c \in Clients : pc'[c] = pc[c]
        BY <1>1, <3>3 DEF clock_write
      <4>2. Quiet
        BY <1>1, <4>1
      <4>3. QED
        BY <1>3, <4>2
    <3>4. QED
      BY <2>2, <3>1, <3>2, <3>3
  <2>3. QED
    BY <1>10, <2>1, <2>2 DEF clock_thread
<1>11. ASSUME NEW t \in Threads, server_stop(t) \/ timer_callback(t)
       PROVE  Counts'
  <2>1. /\ finished_signal' = finished_signal
        /\ pc.main \in AfterPost <=> pc'.main \in AfterPost
        /\ pc'.clock = pc.clock /\ \A c \in Clients : pc'[c] = pc[c]
    <3>1. finished_signal' = finished_signal /\ Interrupted(t)
      BY <1>11 DEF server_stop, timer_callback
    <3>2. CASE pc' = pc
      BY <3>1, <3>2
    <3>3. CASE pc.main = "select" /\ pc' = [pc EXCEPT !.main = "select_eintr"]
      BY <1>1, <3>1, <3>3
    <3>4. QED
      BY <3>1, <3>2, <3>3 DEF Interrupted
  <2>2. Posters' = Posters
    BY <2>1 DEF Posters
  <2>3. CASE server_stop(t)
    BY <1>1, <1>2, <2>1, <2>2, <2>3 DEF server_stop, Counts
  <2>4. CASE timer_callback(t)
    BY <1>1, <1>2, <2>1, <2>2, <2>4 DEF timer_callback, Takes, Counts
  <2>5. QED
    BY <1>11, <2>3, <2>4
<1>12. CASE handler_post
  <2>1. /\ finished_signal' = finished_signal /\ pc' = pc /\ stops' = stops
        /\ handler # NoThread /\ handler' = NoThread
        /\ clock_sem'.value <= clock_sem.value + (IF pc.clock # "done" THEN 1 ELSE 0)
        /\ clock_sem' \in Semaphore
    BY <1>1, <1>12 DEF handler_post, ClockSemPosted, Posted
  <2>2. Posters' = Posters
    BY <2>1 DEF Posters
  <2>3. QED
    BY <1>1, <1>2, <2>1, <2>2 DEF Counts
<1>13. CASE Over
  BY <1>1, <1>3, <1>13 DEF Over, vars
<1>14. QED
  BY <1>4, <1>5, <1>6, <1>7, <1>8, <1>9, <1>10, <1>11, <1>12, <1>13 DEF Next, main

(* The variables have their types; the semaphores never count more than    *)
(* the clients, the stop requests and the ticks that may pile up account   *)
(* for.                                                                    *)
THEOREM ServerTypes == ASSUME IsFiniteSet(Clients) PROVE Spec => []TypeOK
<1>1. ASSUME Init PROVE Counts
  <2>1. Posters = {}
    BY <1>1 DEF Init, Posters
  <2>2. QED
    BY <1>1, <2>1, FS_EmptySet DEF Init, NullSem, Counts, AfterPost, AfterCleanupJoin,
       AfterClockJoin, AfterClose, AfterMutex, AfterFinishedSignal
<1>2. ServerInv /\ UseInv /\ UseInv' /\ Counts /\ [Next]_vars => Counts'
  <2>1. ASSUME Counts, UNCHANGED vars PROVE Counts'
    BY <2>1 DEF vars, Counts, Posters
  <2>2. QED
    BY <2>1, CountSteps
<1>3. ASSUME ServerInv, UseInv, Counts PROVE TypeOK
  <2>1. Posters \subseteq Clients
    BY DEF Posters
  <2>2. /\ Cardinality(Posters) \in Nat /\ Cardinality(Clients) \in Nat
        /\ Cardinality(Posters) <= Cardinality(Clients)
    BY <2>1, FS_Subset, FS_CardinalityType
  <2>3. clock_sem \in Semaphore /\ finished_signal \in Semaphore /\ stops \in 0 .. MaxStops
    BY <1>3 DEF UseInv, WeakTypes
  <2>4. clock_sem \in SemType
    BY <1>3, <2>2, <2>3 DEF Counts, SemType, Semaphore
  <2>5. finished_signal \in SemType
    BY <1>3, <2>2, <2>3 DEF Counts, SemType, Semaphore
  <2>6. QED
    BY <1>3, <2>4, <2>5 DEF TypeOK, ServerInv, UseInv, WeakTypes
<1>4. QED
  BY <1>1, <1>2, <1>3, UseInvariant, PTL DEF Spec
=============================================================================
