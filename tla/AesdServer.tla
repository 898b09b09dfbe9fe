----------------------------- MODULE AesdServer -----------------------------
(***************************************************************************)
(* The life of the socket server, server/server.c and server_impl.c: the   *)
(* main thread runs server_init, server_run and server_exit; it creates    *)
(* the cleanup thread, the clock thread and a thread per client; SIGINT,   *)
(* SIGTERM and the 10 second SIGALRM interrupt any of them.                *)
(*                                                                         *)
(* What a client says is abstracted: server_protocol is one step that ends *)
(* some time after it began, or never if the peer stays silent.            *)
(*                                                                         *)
(* A step on an object that is destroyed is undefined: it has no effect or *)
(* ends the process.                                                       *)
(***************************************************************************)
EXTENDS Naturals, FiniteSets

CONSTANTS
  Clients,        \* peers, and the threads that serve them
  NoThread,       \* owner of a free mutex
  UseCharDevice,  \* the build has USE_AESD_CHAR_DEVICE
  MayFail,        \* library and system calls may fail
  MaxTicks,       \* bound on the posts of clock_sem that pile up
  MaxStops        \* bound on the number of SIGINTs and SIGTERMs

ASSUME ServerAssumption ==
  /\ Clients \cap {"main", "cleanup", "clock", "destroyed"} = {}
  /\ NoThread \notin Clients \cup {"main", "cleanup", "clock", "destroyed"}
  /\ UseCharDevice \in BOOLEAN /\ MayFail \in BOOLEAN
  /\ MaxTicks \in Nat \ {0} /\ MaxStops \in Nat

Threads == {"main", "cleanup", "clock"} \cup Clients

VARIABLES
  status,           \* of the process: "running", "exited", "crashed" or "killed"
  pc,               \* where each thread is
  should_stop,      \* the flag server_stop sets
  handler,          \* the thread a handler has interrupted, before its sem_post
  stops,            \* the number of SIGINTs and SIGTERMs so far
  lost,             \* history: the last post of clock_sem came before its sem_init
  clock_sem,        \* [state, value]
  finished_signal,  \* data.thread_finished_signal, [state, value]
  timer,            \* data.timer: "null", "raw", "created" or "armed"
  socket,           \* data.socket_fd: "none", "open" or "closed"
  output_file,      \* data.output_file: "none", "open" or "closed"
  mutex,            \* the owner of output_file_mutex, NoThread, or "destroyed"
  backlog,          \* clients whose connection nobody has accepted
  thread_list,      \* the list the cleanup thread searches
  thread_finished,  \* the clients whose thread_info says so
  joined,           \* the clients whose thread is joined and thread_info freed
  broken            \* the clients of which a stream of thread_info is NULL

vars == <<status, pc, should_stop, handler, stops, lost, clock_sem, finished_signal, timer,
          socket, output_file, mutex, backlog, thread_list, thread_finished, joined, broken>>

\* The groups of variables that change together.
requests == <<should_stop, handler, stops, lost>>
signals == <<requests, clock_sem>>
files   == <<timer, socket, output_file, mutex>>
threads == <<thread_list, thread_finished, joined>>
infos   == <<backlog, threads, broken>>

NullSem  == [state |-> "null", value |-> 0]
RawSem   == [state |-> "raw", value |-> 0]     \* allocated, not initialised
ReadySem == [state |-> "ready", value |-> 0]
FreedSem == [state |-> "freed", value |-> 0]   \* the pointer dangles

\* Thread t runs: the process is alive and no handler has interrupted t.
Runs(t, label) == status = "running" /\ handler # t /\ pc[t] = label

Goto(t, label) == pc' = [pc EXCEPT ![t] = label]

\* An access to an object that is usable, or not.
Access(usable) == status' \in IF usable THEN {status} ELSE {status, "crashed"}

Posted(sem) == [sem EXCEPT !.value = @ + 1]
Taken(sem)  == [sem EXCEPT !.value = @ - 1]

\* Nobody takes the posts of clock_sem when the clock thread is over: they
\* are not counted then.
ClockSemPosted ==
  IF clock_sem.state = "ready" /\ pc.clock # "done" THEN Posted(clock_sem) ELSE clock_sem
-----------------------------------------------------------------------------
\* server_zero_data, and the handlers of SIGINT and SIGTERM are installed.
Init ==
  /\ status = "running"
  /\ pc = [t \in Threads |-> IF t = "main" THEN "init_finished_signal" ELSE "none"]
  /\ should_stop = FALSE
  /\ handler = NoThread
  /\ stops = 0
  /\ lost = FALSE
  /\ clock_sem = NullSem
  /\ finished_signal = NullSem
  /\ timer = "null"
  /\ socket = "none"
  /\ output_file = "none"
  /\ mutex = NoThread
  /\ backlog = {} /\ thread_list = {} /\ thread_finished = {} /\ joined = {}
  /\ broken = {}
-----------------------------------------------------------------------------
(* server_init.                                                            *)

InitLabels == {"init_finished_signal", "init_clock_sem_alloc", "init_clock_sem",
               "init_file", "init_cleanup", "init_clock", "init_socket", "init_timer"}

init_finished_signal ==
  /\ Runs("main", "init_finished_signal")
  /\ finished_signal' = ReadySem
  /\ Goto("main", "init_clock_sem_alloc")
  /\ UNCHANGED <<status, signals, files, infos>>

\* Mutant: clock_sem is not allocated.
MutInitNoClockSem ==
  /\ Runs("main", "init_clock_sem_alloc")
  /\ Goto("main", IF UseCharDevice THEN "init_cleanup" ELSE "init_file")
  /\ UNCHANGED <<status, signals, finished_signal, files, infos>>

init_clock_sem_alloc ==
  /\ Runs("main", "init_clock_sem_alloc")
  /\ clock_sem' = RawSem
  /\ Goto("main", "init_clock_sem")
  /\ UNCHANGED <<status, requests, finished_signal, files, infos>>

init_clock_sem ==
  /\ Runs("main", "init_clock_sem")
  /\ clock_sem' = ReadySem
  /\ Goto("main", IF UseCharDevice THEN "init_cleanup" ELSE "init_file")
  /\ UNCHANGED <<status, requests, finished_signal, files, infos>>

init_file ==
  /\ Runs("main", "init_file")
  /\ output_file' = "open"
  /\ Goto("main", "init_cleanup")
  /\ UNCHANGED <<status, signals, finished_signal, timer, socket, mutex, infos>>

init_cleanup ==
  /\ Runs("main", "init_cleanup")
  /\ pc' = [pc EXCEPT !.main = "init_clock", !.cleanup = "wait"]
  /\ UNCHANGED <<status, signals, finished_signal, files, infos>>

init_clock ==
  /\ Runs("main", "init_clock")
  /\ pc' = [pc EXCEPT !.main = "init_socket", !.clock = "wait"]
  /\ UNCHANGED <<status, signals, finished_signal, files, infos>>

init_socket ==
  /\ Runs("main", "init_socket")
  /\ socket' = "open"
  /\ Goto("main", "init_timer")
  /\ UNCHANGED <<status, signals, finished_signal, timer, output_file, mutex, infos>>

init_timer ==
  /\ Runs("main", "init_timer")
  /\ timer' = "armed"
  /\ Goto("main", "select")
  /\ UNCHANGED <<status, signals, finished_signal, socket, output_file, mutex, infos>>

\* A call of server_init failed: main calls server_exit with what there is.
\* socket() or a later call on the socket may have failed; the timer may not
\* be created, or not be set.
InitFails ==
  /\ MayFail
  /\ \E label \in InitLabels : Runs("main", label)
  /\ clock_sem' = IF pc.main = "init_clock_sem" THEN NullSem ELSE clock_sem
  /\ socket' \in IF pc.main = "init_socket" THEN {"none", "open"} ELSE {socket}
  /\ timer' \in IF pc.main = "init_timer" THEN {"raw", "created"} ELSE {timer}
  /\ Goto("main", "exit_timer")
  /\ UNCHANGED <<status, requests, finished_signal, output_file, mutex, infos>>
-----------------------------------------------------------------------------
(* server_run.                                                             *)

select ==
  /\ Runs("main", "select")
  /\ backlog # {}
  /\ Goto("main", "accept")
  /\ UNCHANGED <<status, signals, finished_signal, files, infos>>

\* Mutant: the flag is not looked at after EINTR.
MutSelectInterruptedContinues ==
  /\ Runs("main", "select_eintr")
  /\ Goto("main", "select")
  /\ UNCHANGED <<status, signals, finished_signal, files, infos>>

select_interrupted ==
  /\ Runs("main", "select_eintr")
  /\ Goto("main", IF should_stop THEN "exit_timer" ELSE "select")
  /\ UNCHANGED <<status, signals, finished_signal, files, infos>>

\* accept, and pthread_create; the device is opened for the first client.
\* Nobody looks whether dup and the two fdopen have failed.  Nothing puts the
\* new thread_info into thread_list.
accept(c) ==
  /\ Runs("main", "accept")
  /\ c \in backlog
  /\ backlog' = backlog \ {c}
  /\ output_file' = "open"
  /\ \/ UNCHANGED broken
     \/ MayFail /\ broken' = broken \cup {c}
  /\ pc' = [pc EXCEPT !.main = "select", ![c] = "lock"]
  /\ UNCHANGED <<status, signals, finished_signal, timer, socket, mutex, threads>>

\* select, accept, the fopen of the device, or pthread_create failed, the calls
\* whose result server_run looks at: a connection may have been taken and the
\* device opened by then.
RunFails ==
  /\ MayFail
  /\ \/ Runs("main", "select") /\ UNCHANGED <<output_file, backlog>>
     \/ Runs("main", "accept") /\ UNCHANGED <<output_file, backlog>>
     \/ /\ Runs("main", "accept")
        /\ \E c \in backlog : backlog' = backlog \ {c}
        /\ output_file' \in {output_file, "open"}
  /\ Goto("main", "exit_timer")
  /\ UNCHANGED <<status, signals, finished_signal, timer, socket, mutex, threads, broken>>
-----------------------------------------------------------------------------
(* server_exit.                                                            *)

\* timer_delete of a timer_t that was never written may do anything.
exit_timer ==
  /\ Runs("main", "exit_timer")
  /\ Access(timer # "raw")
  /\ timer' = "null"
  /\ Goto("main", IF pc.cleanup # "none" THEN "exit_post" ELSE "exit_join_clock")
  /\ UNCHANGED <<signals, finished_signal, socket, output_file, mutex, infos>>

\* Mutant: the cleanup thread is not woken.
MutExitDoesNotPost ==
  /\ Runs("main", "exit_post")
  /\ Goto("main", "exit_join_cleanup")
  /\ UNCHANGED <<status, signals, finished_signal, files, infos>>

exit_post ==
  /\ Runs("main", "exit_post")
  /\ finished_signal' = Posted(finished_signal)
  /\ Goto("main", "exit_join_cleanup")
  /\ UNCHANGED <<status, signals, files, infos>>

exit_join_cleanup ==
  /\ Runs("main", "exit_join_cleanup")
  /\ pc.cleanup = "done"
  /\ Goto("main", "exit_join_clock")
  /\ UNCHANGED <<status, signals, finished_signal, files, infos>>

\* Mutant: the clock thread is not joined.
MutExitSkipsClockJoin ==
  /\ Runs("main", "exit_join_clock")
  /\ Goto("main", "exit_close")
  /\ UNCHANGED <<status, signals, finished_signal, files, infos>>

exit_join_clock ==
  /\ Runs("main", "exit_join_clock")
  /\ pc.clock \in {"none", "done"}
  /\ Goto("main", "exit_close")
  /\ UNCHANGED <<status, signals, finished_signal, files, infos>>

\* The socket, then the output file.
exit_close ==
  /\ Runs("main", "exit_close")
  /\ socket' = IF socket = "open" THEN "closed" ELSE socket
  /\ output_file' = IF output_file = "open" THEN "closed" ELSE output_file
  /\ backlog' = {}
  /\ Goto("main", "exit_mutex")
  /\ UNCHANGED <<status, signals, finished_signal, timer, mutex, threads, broken>>

\* A mutex that is locked is not destroyed (EBUSY).
exit_mutex ==
  /\ Runs("main", "exit_mutex")
  /\ mutex' = IF mutex = NoThread THEN "destroyed" ELSE mutex
  /\ Goto("main", "exit_finished_signal")
  /\ UNCHANGED <<status, signals, finished_signal, timer, socket, output_file, infos>>

\* The client threads keep their copies of the pointer.
exit_finished_signal ==
  /\ Runs("main", "exit_finished_signal")
  /\ finished_signal' = IF finished_signal.state = "null" THEN NullSem ELSE FreedSem
  /\ Goto("main", IF clock_sem.state = "null" THEN "exit_unlink" ELSE "exit_clock_sem")
  /\ UNCHANGED <<status, signals, files, infos>>

\* FREE( clock_sem ): free, then the pointer becomes NULL.
exit_clock_sem ==
  /\ Runs("main", "exit_clock_sem")
  /\ clock_sem' = IF clock_sem.state = "freed" THEN NullSem ELSE FreedSem
  /\ IF clock_sem.state = "freed" THEN Goto("main", "exit_unlink") ELSE UNCHANGED pc
  /\ UNCHANGED <<status, requests, finished_signal, files, infos>>

\* The list is freed, the data file of the file build unlinked, main returns.
exit_unlink ==
  /\ Runs("main", "exit_unlink")
  /\ thread_list' = {}
  /\ status' = "exited"
  /\ UNCHANGED <<pc, signals, finished_signal, files, backlog, thread_finished, joined,
                 broken>>
-----------------------------------------------------------------------------
(* client_thread.                                                          *)

\* Locking a mutex that is destroyed fails, and the result is not checked.
client_lock(c) ==
  /\ Runs(c, "lock")
  /\ mutex \in {NoThread, "destroyed"}
  /\ Access(mutex = NoThread)
  /\ mutex' = IF mutex = NoThread THEN c ELSE mutex
  /\ Goto(c, "protocol")
  /\ UNCHANGED <<signals, finished_signal, timer, socket, output_file, infos>>

\* server_protocol returns, with or without an error; the mutex is unlocked.
\* With an error it may not have come to use a stream that is NULL.
client_protocol(c) ==
  /\ Runs(c, "protocol")
  /\ Access(output_file = "open" /\ c \notin broken)
  /\ mutex' = IF mutex = c THEN NoThread ELSE mutex
  /\ Goto(c, "close")
  /\ UNCHANGED <<signals, finished_signal, timer, socket, output_file, infos>>

\* The peer is gone: a flush of socket_output, in server_protocol or in its
\* fclose, raises SIGPIPE, which nobody handles.
sigpipe(c) ==
  /\ MayFail
  /\ Runs(c, "protocol") \/ Runs(c, "close")
  /\ c \notin broken
  /\ status' = "killed"
  /\ UNCHANGED <<pc, signals, finished_signal, files, infos>>

\* Both streams are closed; fclose( NULL ) crashes.
client_close(c) ==
  /\ Runs(c, "close")
  /\ status' = IF c \in broken THEN "crashed" ELSE status
  /\ thread_finished' = thread_finished \cup {c}
  /\ Goto(c, "post")
  /\ UNCHANGED <<signals, finished_signal, files, backlog, thread_list, joined, broken>>

client_post(c) ==
  /\ Runs(c, "post")
  /\ Access(finished_signal.state = "ready")
  /\ finished_signal' = IF finished_signal.state = "ready"
                        THEN Posted(finished_signal) ELSE finished_signal
  /\ Goto(c, "done")
  /\ UNCHANGED <<signals, files, infos>>
-----------------------------------------------------------------------------
(* cleanup_thread.                                                         *)

\* Mutant: the semaphore is taken without waiting for it.
MutCleanupDoesNotWait ==
  /\ Runs("cleanup", "wait")
  /\ finished_signal' = Taken(finished_signal)
  /\ Goto("cleanup", "search")
  /\ UNCHANGED <<status, signals, files, infos>>

cleanup_wait ==
  /\ Runs("cleanup", "wait")
  /\ finished_signal.value > 0
  /\ finished_signal' = Taken(finished_signal)
  /\ Goto("cleanup", "search")
  /\ UNCHANGED <<status, signals, files, infos>>

\* A finished thread of the list is joined and its node freed; if there is
\* none the cleanup thread stops.
cleanup_search ==
  /\ Runs("cleanup", "search")
  /\ LET found == thread_list \cap thread_finished
     IN  IF found = {}
         THEN Goto("cleanup", "done") /\ UNCHANGED <<thread_list, joined>>
         ELSE \E c \in found :
                /\ pc[c] = "done"
                /\ thread_list' = thread_list \ {c}
                /\ joined' = joined \cup {c}
                /\ Goto("cleanup", "wait")
  /\ UNCHANGED <<status, signals, finished_signal, files, backlog, thread_finished, broken>>
-----------------------------------------------------------------------------
(* clock_thread.                                                           *)

clock_wait ==
  /\ Runs("clock", "wait")
  /\ clock_sem.value > 0
  /\ clock_sem' = Taken(clock_sem)
  /\ Goto("clock", "check")
  /\ UNCHANGED <<status, requests, finished_signal, files, infos>>

\* Only the file build writes timestamps; there localtime may fail.
clock_check ==
  /\ Runs("clock", "check")
  /\ \/ should_stop /\ Goto("clock", "done")
     \/ ~should_stop /\ UseCharDevice /\ Goto("clock", "wait")
     \/ ~should_stop /\ ~UseCharDevice /\ Goto("clock", "lock")
     \/ MayFail /\ ~should_stop /\ ~UseCharDevice /\ Goto("clock", "done")
  /\ UNCHANGED <<status, signals, finished_signal, files, infos>>

clock_lock ==
  /\ Runs("clock", "lock")
  /\ mutex = NoThread
  /\ mutex' = "clock"
  /\ Goto("clock", "write")
  /\ UNCHANGED <<status, signals, finished_signal, timer, socket, output_file, infos>>

\* Mutant: the error path returns without unlocking.
MutClockWriteKeepsMutex ==
  /\ Runs("clock", "write")
  /\ \/ Goto("clock", "wait") /\ mutex' = NoThread
     \/ MayFail /\ Goto("clock", "done") /\ UNCHANGED mutex
  /\ UNCHANGED <<status, signals, finished_signal, timer, socket, output_file, infos>>

\* The timestamp is written and flushed; a short write ends the thread.
clock_write ==
  /\ Runs("clock", "write")
  /\ mutex' = NoThread
  /\ \/ Goto("clock", "wait")
     \/ MayFail /\ Goto("clock", "done")
  /\ UNCHANGED <<status, signals, finished_signal, timer, socket, output_file, infos>>
-----------------------------------------------------------------------------
(* The environment: peers and signals.                                     *)

connect(c) ==
  /\ status = "running"
  /\ socket = "open" /\ pc.main \notin InitLabels
  /\ pc[c] = "none" /\ c \notin backlog
  /\ backlog' = backlog \cup {c}
  /\ UNCHANGED <<status, pc, signals, finished_signal, files, threads, broken>>

\* A signal is taken by a thread that exists.  It makes select fail if that
\* is the main thread; the other calls are restarted (SA_RESTART).  Two
\* handlers at once are left out.
Takes(t) ==
  status = "running" /\ handler = NoThread /\ pc[t] \notin {"none", "done"}

Interrupted(t) ==
  IF t = "main" /\ pc.main = "select" THEN Goto("main", "select_eintr") ELSE UNCHANGED pc

\* int_handler, installed before server_init, calls server_stop, which sets
\* the flag and then posts clock_sem without looking at the pointer.
server_stop(t) ==
  /\ Takes(t)
  /\ stops < MaxStops /\ stops' = stops + 1
  /\ should_stop' = TRUE
  /\ handler' = t
  /\ Interrupted(t)
  /\ UNCHANGED <<status, lost, clock_sem, finished_signal, files, infos>>

\* SIGALRM: clock_sem is posted if the pointer is not NULL.
timer_callback(t) ==
  /\ Takes(t)
  /\ timer = "armed"
  /\ clock_sem.value < MaxTicks \/ pc.clock = "done"
  /\ handler' = IF clock_sem.state = "null" THEN NoThread ELSE t
  /\ Interrupted(t)
  /\ UNCHANGED <<status, should_stop, stops, lost, clock_sem, finished_signal, files, infos>>

\* Mutant: the semaphore is not posted.
MutHandlerDoesNotPost ==
  /\ status = "running" /\ handler # NoThread
  /\ handler' = NoThread
  /\ UNCHANGED <<status, pc, should_stop, stops, lost, clock_sem, finished_signal, files,
                 infos>>

\* The sem_post at the end of either handler.  One that comes before sem_init
\* is lost.
handler_post ==
  /\ status = "running" /\ handler # NoThread
  /\ IF clock_sem.state = "null" THEN status' = "crashed"
                                 ELSE Access(clock_sem.state # "freed")
  /\ clock_sem' = ClockSemPosted
  /\ lost' = (clock_sem.state = "raw")
  /\ handler' = NoThread
  /\ UNCHANGED <<pc, should_stop, stops, finished_signal, files, infos>>
-----------------------------------------------------------------------------
server_init ==
  \/ init_finished_signal \/ init_clock_sem_alloc \/ init_clock_sem \/ init_file
  \/ init_cleanup \/ init_clock \/ init_socket \/ init_timer

server_run == select \/ select_interrupted \/ \E c \in Clients : accept(c)

server_exit ==
  \/ exit_timer \/ exit_post \/ exit_join_cleanup \/ exit_join_clock \/ exit_close
  \/ exit_mutex \/ exit_finished_signal \/ exit_clock_sem \/ exit_unlink

main == server_init \/ server_run \/ server_exit

client_thread(c) ==
  client_lock(c) \/ client_protocol(c) \/ client_close(c) \/ client_post(c)

cleanup_thread == cleanup_wait \/ cleanup_search

clock_thread == clock_wait \/ clock_check \/ clock_lock \/ clock_write

\* A process that is over stays so.
Over == status # "running" /\ UNCHANGED vars

Next ==
  \/ main \/ InitFails \/ RunFails \/ cleanup_thread \/ clock_thread
  \/ \E c \in Clients : client_thread(c) \/ sigpipe(c) \/ connect(c)
  \/ \E t \in Threads : server_stop(t) \/ timer_callback(t)
  \/ handler_post
  \/ Over

Spec == Init /\ [][Next]_vars

\* Main and the two service threads go on when they can, main although signals
\* interrupt it again and again (ticks are 10 seconds apart); a select that has
\* a connection is not always interrupted first; a handler that was entered
\* returns; an armed timer finds the main thread, to which Linux gives the
\* signals of a process first, in select some time.  Nothing is assumed of the
\* clients: a peer may keep its thread in server_protocol for ever.
FairSpec ==
  /\ Spec
  /\ SF_vars(main) /\ SF_vars(select) /\ WF_vars(cleanup_thread) /\ WF_vars(clock_thread)
  /\ WF_vars(handler_post) /\ SF_vars(pc.main = "select" /\ timer_callback("main"))

\* The peers finish what they say, and a client thread obtains a mutex that
\* becomes free again and again.
PatientSpec == FairSpec /\ \A c \in Clients : SF_vars(client_thread(c))
=============================================================================
