------------------------ MODULE AesdServerProperties ------------------------
(***************************************************************************)
(* What the server's threads and its shutdown must get right.              *)
(***************************************************************************)
EXTENDS AesdServer

ExitLabels == {"exit_timer", "exit_post", "exit_join_cleanup", "exit_join_clock",
               "exit_close", "exit_mutex", "exit_finished_signal", "exit_clock_sem",
               "exit_unlink"}

MainLabels    == InitLabels \cup {"select", "select_eintr", "accept"} \cup ExitLabels
CleanupLabels == {"none", "wait", "search", "done"}
ClockLabels   == {"none", "wait", "check", "lock", "write", "done"}
ClientLabels  == {"none", "lock", "protocol", "close", "post", "done"}

\* Every thread is in its own code.
PcType ==
  /\ DOMAIN pc = Threads
  /\ pc.main \in MainLabels /\ pc.cleanup \in CleanupLabels /\ pc.clock \in ClockLabels
  /\ \A c \in Clients : pc[c] \in ClientLabels

SemType == [state: {"null", "raw", "ready", "freed"}, value: 0 .. Cardinality(Clients) + MaxTicks + MaxStops + 1]

(* The types of the state.  *)
TypeOK ==
  /\ status \in {"running", "exited", "crashed", "killed"}
  /\ PcType
  /\ should_stop \in BOOLEAN
  /\ handler \in Threads \cup {NoThread}
  /\ stops \in 0 .. MaxStops /\ lost \in BOOLEAN
  /\ clock_sem \in SemType /\ finished_signal \in SemType
  /\ timer \in {"null", "raw", "created", "armed"}
  /\ socket \in {"none", "open", "closed"}
  /\ output_file \in {"none", "open", "closed"}
  /\ mutex \in Threads \cup {NoThread, "destroyed"}
  /\ backlog \in SUBSET Clients /\ thread_list \in SUBSET Clients
  /\ thread_finished \in SUBSET Clients /\ joined \in SUBSET Clients
  /\ broken \in SUBSET Clients

\* The threads that work on the output file.
Users == {t \in Threads : pc[t] \in {"protocol", "write"}}

(* Until server_exit destroys the mutex, at most one thread, a client's or *)
(* the clock's, works on the output file, and the mutex is held by exactly *)
(* that thread: no path of either leaves it locked.                        *)
OneUserOfTheFile ==
  mutex # "destroyed" => Users = {mutex} \ {NoThread}

(* The two service threads are over before server_exit takes away what     *)
(* they use: the file, the mutex and the two semaphores.                   *)
ServicesStopFirst ==
  (\/ output_file = "closed" \/ mutex = "destroyed"
   \/ finished_signal.state = "freed" \/ clock_sem.state = "freed")
  => pc.clock \in {"none", "done"} /\ pc.cleanup \in {"none", "done"}

(* A stop request is not lost on the clock thread: once the handler has    *)
(* returned, a clock thread that waits for its semaphore finds it posted,  *)
(* because the flag is set before the post and looked at after the wait.   *)
(* The one exception is a handler that ran between malloc and sem_init of  *)
(* clock_sem, and no handler since.                                        *)
StopWakesClock ==
  pc.clock = "wait" /\ should_stop /\ handler = NoThread /\ ~lost => clock_sem.value > 0

(* Once a stop is requested, or server_init or server_run has failed, the  *)
(* process ends: select is left at the latest with the next SIGALRM, and   *)
(* every join of server_exit returns.  Only the join of the clock thread   *)
(* may not, when nobody has told it to end: no stop was requested, or its  *)
(* post was lost because it came before sem_init.                          *)
ShutdownCompletes ==
  should_stop \/ pc.main \in ExitLabels ~>
    status # "running" \/ (pc.main = "exit_join_clock" /\ (~should_stop \/ lost))

(* A client that connects is served to the end, unless the server stops:   *)
(* neither the other clients, nor the clock, nor the cleanup thread that   *)
(* has stopped keeps it from the mutex for ever.                           *)
EveryClientServed ==
  \A c \in Clients :
    c \in backlog ~> pc[c] = "done" \/ pc.main \in ExitLabels \/ status # "running"

(* A client thread that has signalled that it is done is joined and its    *)
(* thread_info freed, unless the server stops.                             *)
FinishedClientsAreJoined ==
  \A c \in Clients :
    pc[c] = "done" ~> c \in joined \/ pc.main \in ExitLabels \/ status # "running"

(* Three things crash the server, and no other order of signals, ticks,    *)
(* clients and failing calls does: a stop signal in the main thread before *)
(* clock_sem is allocated; server_exit, which takes away what handlers and *)
(* clients still use; and a client thread one of whose streams is NULL,    *)
(* because nobody looked at the results of dup and fdopen.                 *)
CrashOnlyAtEdges ==
  [][status = "running" /\ status' = "crashed" =>
       \/ handler = "main" /\ pc.main \in {"init_finished_signal", "init_clock_sem_alloc"}
       \/ pc.main \in ExitLabels
       \/ \E c \in broken : pc[c] \in {"protocol", "close"}]_vars
=============================================================================
