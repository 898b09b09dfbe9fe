# A TLA+ verification of the AESD character driver, socket server and examples

The repository holds the pieces of one small embedded system: a Linux character
driver (`aesd-char-driver/`) that keeps the last ten newline-terminated write
commands in a ring, and a TCP server (`server/`) that appends what its clients
send to that device (or, in the other build, to a file) and sends the whole
content back. Around them are course exercises (`examples/`, `finder-app/`) and
image and start scripts. This directory models the parts that carry state
across steps, checks them with TLC on small instances, and proves the results
that matter most with TLAPS for every value of the constants.

## 1. Inventory

### Circular buffer (`aesd-circular-buffer.c`, `.h`)

- State: `entry[10]` of `(buffptr, size)`, `in_offs`, `out_offs`, `full`.
- Operations: `init`, `add_entry`, `get_count`, `get_size`,
  `find_entry_offset_for_fpos`, `fpos_for_entry`. No locking of its own ("Any
  necessary locking must be handled by the caller").
- Hard: telling a full ring from an empty one, the wrap of three indices, loops
  that stop when an index comes back to where it started.
- Correct when: the visited entries are the last ten added, in order; the two
  lookups agree with the concatenation of those entries and with each other.

### Character driver (`main.c`, `aesdchar.h`, `aesd_ioctl.h`)

- State: `aesd_device` = the ring, `current_entry` (a command that has no
  newline yet), a mutex; per open file `f_pos`; the kernel heap.
- Operations: module init and cleanup, `open`, `release`, `read`, `write`,
  `llseek`, `unlocked_ioctl` (`AESDCHAR_IOCSEEKTO`).
- Interaction: calls the ring; called by any number of processes. `read` and
  `write` hold the mutex, `llseek` and the ioctl do not.
- Hard: unlocked readers of a ring that is being changed, allocation and copy
  failures half way through a write, ownership of the buffers across eviction
  and unloading.
- Correct when: processes see an atomic log; memory is neither leaked, freed
  twice nor used after it was freed; the mutex is always given back; a seek
  lands on the byte it names.

### Socket server (`server_impl.c`, `server_impl.h`, `server.c`)

- State: `should_stop`, `clock_sem` (global, posted from signal handlers),
  `thread_finished_signal`, `output_file` and its mutex, the timer, the
  listening socket, `thread_list`, one `thread_info` per client.
- Threads: main (init, select/accept loop, exit), cleanup (joins finished
  clients), clock (a timestamp every 10 s in the file build), one per client.
  SIGINT/SIGTERM call `server_stop`; SIGALRM posts `clock_sem`.
- Hard: signals at any point of any thread, shutdown against running clients,
  what is freed while somebody still uses it, a failed call in the middle of
  `server_init`.
- Correct when: one thread at a time uses the output; teardown waits for the
  service threads; a stop request ends the process; clients are served, and
  their threads reclaimed.
- `main` before that: options, and the fork of `--demonize` (section 8).

### Client protocol (`server_protocol` in `server_impl.c`)

- State: the one `FILE*` of the output, shared by all sessions (its read-ahead,
  its cached offset, its end-of-file flag), the position of its file
  descriptor, the store behind it; per session the two socket streams.
- Operations: lines of up to 255 bytes from the socket to the store until one
  ends with a newline; or `AESDCHAR_IOCSEEKTO:x,y`, an ioctl behind the back of
  the stream; then the store, read back from the start or from there, to the
  socket.
- Interaction: runs under the output mutex; calls the driver's `write`, `read`,
  `llseek` and ioctl in the device build.
- Hard: lines longer than the buffer, zero bytes, peers that leave half way
  (SIGPIPE), a stream that remembers something of an earlier session, reading
  and writing at one position in the file build.
- Correct when: a client gets the whole store and finds its line at the end of
  it; a seek is answered from the byte it names; nothing stored is lost or
  overwritten; every session ends.

### Small programs

- `examples/threading`: a thread that sleeps, locks, sleeps, unlocks, and a
  `thread_data` that travels from its starter to the thread to the joiner.
  Correct when no failure keeps the mutex, the flag is true exactly after
  success, and the block is neither used after it was freed nor lost.
- `examples/systemcalls`: fork, redirect, exec, wait. Correct when the boolean
  says what became of the command, and no child is left.
- `finder-app/writer.c`, the shell scripts and `autotest-validate`: section 8.

`PROJECT.json` lists, under `hazards`, each place where one of these
difficulties bites, with the property that guards it.

## 2. Plan

Done, in this order:

1. the ring: `AesdCircularBuffer`, `CircularBuffer`, abstract `CommandLog`;
2. the driver: `AesdChar`, abstract `CharDevice`;
3. the server's threads, signals, start and shutdown: `AesdServer`;
4. the client protocol over the driver or a file: `ServerProtocol`, composed
   with `CharDevice`, which stands for the driver because `AesdChar` implements
   it;
5. the examples with processes and threads: `Threading`, `Systemcalls`;
6. proofs about the ring (its shape, its lookups, the refinement of
   `CommandLog`), the driver (its lock, its memory, the count of the ioctl, the
   refinement of `CharDevice`), the server's mutex, teardown, stop requests and
   crashes, the protocol (its types, the settled stream, complete replies, the
   seek, what becomes of what was written), and the two examples.

Next: a proof of `QuietSeekIsExact`.

## 3. Modules

| module | models | note |
|---|---|---|
| `AesdCircularBuffer` | `aesd-circular-buffer.c` | the ring as operators on a record; `add_entry` is the composition of its three stores, which the driver model uses one at a time |
| `CommandLog` | - | abstract: a sequence of at most `Capacity` entries |
| `CircularBuffer` | a sequence of `add_entry` calls | `TypeOK`, `RingShape`, the refinement of `CommandLog`; the lookups against their reference, the concatenation of the commands |
| `AesdChar` | `main.c` | one action per call, and per step of a call that others can see |
| `CharDevice` | - | abstract: an atomic log of commands, a pending command, a position per file |
| `AesdCharProperties` | - | the driver's properties, the refinement mapping |
| `AesdServer` | `server.c`, `server_impl.c` without `server_protocol` | one action per step of each thread and handler |
| `AesdServerProperties` | - | the server's properties |
| `ServerProtocol` | `server_protocol`, over `CharDevice` or a file | one action per step of a session that can end differently |
| `ServerProtocolProperties` | - | what a client may rely on |
| `Threading` | `examples/threading/threading.c` | and a caller that joins and frees; with its properties |
| `Systemcalls` | `examples/systemcalls/systemcalls.c` | parent, children and signals; with its properties |
| `SequenceFacts` | - | lemmas about sums and concatenations of sequences, for all proofs |
| `RingTheorems` | - | lemmas about the operators of `AesdCircularBuffer`, for the ring's and the driver's proofs |
| `CircularBufferProofs`, `AesdCharProofs`, `AesdServerProofs`, `ServerProtocolProofs`, `ThreadingProofs`, `SystemcallsProofs` | - | theorems |
| `MCCircularBuffer`, `MCAesdChar`, `MCAesdServer`, `MCServerProtocol` | - | values for TLC, symmetry, the messages of clients |

Definitions that begin with `Mut` are deliberate faults, each next to the
definition it would replace; nothing uses them, and `PROJECT.json` says which
property each one breaks.

### How the models correspond to the code

**Ring.** A buffer is a record with the struct's fields. The loops of the
lookups visit the slots from `out_offs` until they are back; they are written
as the first visited slot for which the running sum passes the position.
`size_t` sums do not overflow at ten entries of the sizes used here.

**Driver.** Memory is a function `heap` from blocks to contents or `Free`, so
that ownership can be stated. A section under the lock is one step except where
`llseek` or the ioctl, which do not take the lock, can look in between: the
clearing of the evicted entry and the three stores of `add_entry` are steps of
their own. The unlocked calls make one step per read of the ring; in the loops
`out_offs` is read once, as the optimised build does, since the loop stores
nothing; that the loops end against a busy writer rests on this. `krealloc` may move the block; a failing `krealloc` overwrites the
only pointer to the old block; a failing `copy_from_user` zeroes the rest of
the destination and leaves the size enlarged. `entry[out_offs + write_cmd]` is
kept unreduced: an index past the array reads a neighbouring field, and
whatever that is, the call then fails because `fpos_for_entry` finds no entry
at that address. The module can be unloaded only when no file is open.
`fixed_size_llseek`, allocation and copying are the kernel's, and are modelled
from how `main.c` uses them.

**Server.** Each thread has a program counter; each library call that another
thread, a handler or a later failure can tell apart is a step. The handlers of
SIGINT and SIGTERM are installed before `server_init` (`server.c:85-86`), so a
stop may come from the first step on. A handler is two steps (`server_stop` or
`timer_callback`, then `handler_post`, the `sem_post` that ends both) and holds up
the thread it interrupted.
`select` in the main thread is the only call a signal makes return; the others
are restarted. Semaphores have a state (`null`, allocated but not initialised,
ready, freed) and a value. A step on something that is destroyed either has no
effect or ends the process with `crashed`. With `MayFail`, `InitFails` and
`RunFails` are the failures of the calls whose result the code looks at
(`sem_init`, `fopen`, `pthread_create`, the calls on the socket and the timer,
`select`, `accept`): they enter `server_exit` with whatever exists by then. Nobody
looks at `fdopen` and `dup` (`server_impl.c:286-288`): a client one of whose
streams is NULL is in `broken`, and its thread crashes in `server_protocol` or at
the latest in `fclose`. `malloc`, which is not checked either, is taken to
succeed. `lost` remembers that the last post of `clock_sem` came between its
`malloc` and its `sem_init`. A
client's conversation is one step which, without fairness, may never come (a
peer that stays silent). If calls may fail, a peer may also be gone, and SIGPIPE
then ends the process.

**Protocol.** One session at a time, which is what the mutex gives
(`OneUserOfTheFile`). Which build it is, is the value of `device`, chosen in
`Init` and never changed. A message is a sequence of symbols; the whole text
`AESDCHAR_IOCSEEKTO:x,y` is one symbol, the pair of its numbers, which become
`uint32_t` (modulo `UintSize`). `fgets` and `strlen` are operators on sequences:
a line ends at its newline, at `LineSize` or at the end of the stream, a string
at its first zero byte. A string of length 0 makes the code look at
`buffer[-1]`: either outcome. The stream is modelled after glibc, which the code
relies on without saying so:

- a read fills the buffer with what one `read` returns - on the device the rest
  of one command - and an empty one sets end of file and makes the stream forget
  its offset;
- before output a stream with read-ahead seeks back over it (`step_back`);
- `fflush` makes the stream forget its offset;
- `fseek(0, SEEK_CUR)` asks the kernel if the offset is unknown; else it keeps
  what was read ahead and takes the descriptor back to the offset the stream
  believes in;
- `rewind` and `fseek` clear end of file;
- a failed flush drops the bytes, and the code does not look at its result.

After every session that ran to its end the offset is unknown, so the `fseek`
of the next one does what its comment says; after a reply that a failed write to
the socket has cut short it may not. (A failed read makes the stream forget its
offset.)
The reply goes through the buffer of `socket_output`: a peer that is gone shows
at a flush of it, and mostly that is SIGPIPE (`sigpipe`), unless whoever started
the server ignores it (`send_fails`). In the file build the log has one element,
the content of the file.

**Examples.** In `Threading` a block's flag has any value after `malloc`; the
mutex is a good one, so unlocking it does not fail. In `Systemcalls` a call and
its child have the same number; a child left behind goes on during later calls.
`system()` is the same without `WUNTRACED`. Signals that stop, continue and kill
a child come from outside. `dup2` onto descriptor 1 does not fail in a process
with one thread. `faulty`, `unwaited` and `leaked` are history variables: they
remember which calls a failure befell, `unwaited` those whose `waitpid` failed, so
that the properties can say exactly what a failure may do to a call and that
nothing else does.

## 4. Runs

Deadlock is checked except in `threading`, where the caller need not start
another thread, and in `server_stop_device` and `server_stop_file`, where the
model may rest in the one wait that `ShutdownCompletes` names. `pass` runs find no error; a `violation`
run exhibits a disagreement between the code and what the repository says of it
(section 6).

| run | configuration | what it shows |
|---|---|---|
| `ring` | ring of 10 (the build's size), entries of two sizes | `RingShape`: offsets, flag and unused slots hang together. `LookupMatchesConcatenation`: for every position, `find_entry_offset_for_fpos` gives the byte of the concatenation, `get_size` its length. `SeekInvertsLookup`: `fpos_for_entry` is its inverse. `ImplementsCommandLog` |
| `driver_shared` | 2 processes, ring of 2, 4 blocks | `ImplementsCharDevice`: readers and writers see an atomic log in every interleaving; `MemorySafe`; `NoLeak`: unloading and eviction free everything |
| `driver_faults` | 1 process, ring of 2, every failure, every seek | `LockDiscipline` on all error paths, `MemorySafe`; `ImplementsCharDevice`: a failed write completes no command; `QuietSeekIsExact`: an accepted seek lands on the byte it names, and the only existing commands refused are those past the array's end |
| `driver_returns` | 2 processes, weak fairness | `EveryCallReturns`: the unlocked loops end and the lock is given back whatever the other process does; `CountMissesOnlyAtFilling`: the unlocked count of the ioctl overlooks a command only if a write has filled the ring between its reads |
| `seek_wrapped` | 1 process, ring of 3 | violates `SeekRejectsOnlyMissing` |
| `server_stop_device` | device build, 2 clients that may stay silent, failing calls, 2 stops from the first step on | `ShutdownCompletes`: after a stop request or a failure the process ends (by a crash, possibly), or waits for a clock thread that nobody has told to end; `CrashOnlyAtEdges`: nothing is used before it exists or after it is gone, except by a handler before `clock_sem` exists, during `server_exit`, and by a client thread with a NULL stream |
| `server_stop_file` | file build, 2 clients that finish or go away, failing calls, a stop from the first step on | `OneUserOfTheFile`, `ServicesStopFirst`, `StopWakesClock`, `ShutdownCompletes`, `EveryClientServed` |
| `server_join` | device build, 2 clients that finish | violates `FinishedClientsAreJoined` |
| `protocol` | both builds, 3 sessions, device of 2 commands empty or full at the start, all messages, peers that leave, a timestamp, one failing call, fairness | `ReplyIsStore`: the reply is the whole store, also after failures; `LineIsLast`: it ends with the client's line; `SeekReplyIsRest`: the answer to a seek starts at the byte it names; `StoreIsWhatWasWritten`: nothing is lost or overwritten; `Settled`: the stream is fit for the next session; `SessionEnds` |
| `protocol_stale` | device build, 4 sessions, one failing call | violates `SeekIsFollowed` |
| `threading` | 3 threads, 3 blocks, failures of `pthread_create`, `usleep` and `pthread_mutex_lock`, fairness | `LockComesBack`, `HonestFlag`, `BlockOutlivesThread`, `EveryThreadReturns`; `OnlyFailedStartsLeak`: every block has a thread that will return it, or belonged to a `pthread_create` that failed |
| `systemcalls` | 2 calls, 2 stops, every failure, fairness | `TrueMeansSuccess`; `FalseMeansFailure`, `NoChildLeft`, `CommandIsExecuted`: what may go wrong with a call and its child, and only after what; `ExecReturns`: also if the child is stopped for ever |

### Bounds, and why they are enough

- *Ring:* two sizes and two buffers tell entries and bytes apart; 10 slots is
  the real capacity, and every state of the ring up to the contents is reached
  (empty, each fill level, full at each offset).
- *Driver:* a ring of two or three slots wraps, is full, and has `out_offs > 0`
  after a few commands. The chunks are a byte without a newline, a newline and
  a two-byte command, so a command is written by one or by several processes in
  pieces; `MaxEntryLen` 2 bounds it. There is one block more than the ring and
  the pending command own, so `krealloc` can move. Two processes are one that
  looks and one that changes: writers exclude each other by the lock.
  `driver_returns` has ring size 2 and no reads (they are single steps).
- *Server:* two clients contend for the mutex with each other and with the
  clock. `MaxStops` 2, in the device build, gives a second SIGINT during the
  shutdown that the first began, or after a first that was lost; the file build
  has one. `MaxTicks` bounds only the posts that pile up, not how many ticks
  there are in a behaviour. Handlers in two threads at the same instant are left
  out.
- *Protocol:* `LineSize` 2 makes four-byte messages take two chunks or leave a
  newline for a chunk of its own; `StreamSize` 4 is larger than a chunk, as in
  the code, and smaller than the store after two lines, so that replies take
  several reads and several flushes; a ring of 2 is full after two commands.
  Three sessions on a device that is empty or full at the start are enough for a
  failing call, a session after it, and a seek; `protocol_stale` has four, to
  fill the ring by itself. `UintSize` 8 is larger than every command, so a negative number is no
  valid index. `MaxAborts` 1: one failing call, with whatever it leaves behind,
  and sessions before and after it.
- *Examples:* three threads are one in the critical section and two that wait.
  Two calls of `Systemcalls` let a child of the first outlive it and the second
  find the first's output file.

### Fairness

- *Driver:* a process inside the driver is in kernel code and is scheduled;
  weak fairness of its steps. None for the calls.
- *Server:* the service threads go on when they can (weak fairness), and so does
  main, although a handler may interrupt it again and again (strong fairness:
  ticks are 10 s apart); a `select` with a pending connection is not always
  interrupted first. A handler that was entered returns. The armed timer fires
  again and again, and some time finds the main thread in `select`: Linux hands a
  signal for the process to the main thread if that does not block it. This tick
  is what makes the main thread see a `should_stop` that was set by a handler in
  another thread, or just before it entered `select`. `FairSpec` assumes nothing of
  the clients. `PatientSpec` adds that peers finish, and that a client thread gets
  a mutex that becomes free again and again; without it the file build does not
  shut down while a silent client holds the mutex that the clock thread waits
  for, which is why only the device build's run does without.
- *Protocol:* a session that can go on does: the peer sends its message, then
  closes or resets, and takes the reply.
- *Examples:* threads and processes run, commands end, and a waiter gets a mutex
  that is free again and again. Failures are never relied on: there is no
  fairness for a failing `pthread_mutex_lock` or `waitpid`, which would end a
  wait by itself.

## 5. Proofs

`ASSUME`s are in the modules that declare the constants: the ring has between
1 and 256 slots, what its `uint8_t` offsets can index (`MaxWriteOpsAssumption`),
`NULL` is not an index (`NullAssumption`), entry sizes are naturals
(`EntriesAssumption`), `NULL` is neither a process nor a block, `Free` is no
content, and chunks are not empty (`AesdCharAssumption`), thread names and
`NoThread` differ (`ServerAssumption`), `NULL` is neither a thread nor a block
(`ThreadingAssumption`), and the bounds of the calls are naturals
(`SystemcallsAssumption`). For the protocol the sizes are positive, the store it
finds fits into the ring, and newline, zero byte, timestamp and seek commands are
different symbols (`ProtocolAssumption`); and what other programs left in the
device holds no zero byte (`TextAssumption`): `fgets` and `strlen` would drop the
rest of such a line from every reply. What clients send may hold zero bytes. TLC
evaluates each of these assumptions in the runs.

| theorem | statement |
|---|---|
| `CircularBufferProofs!TypeCorrect` | `Spec => []TypeOK`, any ring size, any entries |
| `CircularBufferProofs!ShapeCorrect` | `Spec => []RingShape` |
| `CircularBufferProofs!RingImplementsLog` | `Spec => ImplementsCommandLog` |
| `CircularBufferProofs!LookupIsConcatenation` | `Spec => []LookupMatchesConcatenation` |
| `CircularBufferProofs!SeekIsInverse` | `Spec => []SeekInvertsLookup` |
| `AesdCharProofs!LockCorrect` | `Spec => []LockDiscipline`, any number of processes, every failure |
| `AesdCharProofs!MemoryIsSafe` | `Spec => []MemorySafe` |
| `AesdCharProofs!NothingLeaks` | `Spec => []NoLeak` |
| `AesdCharProofs!CountIsNearlyExact` | `Spec => CountMissesOnlyAtFilling` |
| `AesdCharProofs!DriverImplementsDevice` | `Spec => ImplementsCharDevice` |
| `AesdServerProofs!FileIsExclusive` | `Spec => []OneUserOfTheFile`, any number of clients, both builds |
| `AesdServerProofs!TeardownIsOrdered` | `Spec => []ServicesStopFirst` |
| `AesdServerProofs!ServingNeverCrashes` | `Spec => CrashOnlyAtEdges` |
| `AesdServerProofs!StopIsNotLost` | `Spec => []StopWakesClock`, signals from the first step on |
| `AesdServerProofs!ServerTypes` | `Spec => []TypeOK`, for a finite set of clients |
| `ServerProtocolProofs!SessionsSettle` | `Spec => []Settled`, all messages, stores and buffer sizes, any number of sessions, both builds |
| `ServerProtocolProofs!RepliesAreComplete` | `Spec => []ReplyIsStore`, whatever has failed before |
| `ServerProtocolProofs!SeeksAreFollowed` | `Spec => []SeekReplyIsRest` |
| `ServerProtocolProofs!StoreIsKept` | `Spec => []StoreIsWhatWasWritten` |
| `ServerProtocolProofs!LinesAreLast` | `Spec => []LineIsLast` |
| `ServerProtocolProofs!ProtocolTypes` | `Spec => []TypeOK`, any number of failing calls |
| `ThreadingProofs!MutexIsReturned` | `Spec => []LockComesBack`, any number of threads |
| `ThreadingProofs!FlagIsHonest` | `Spec => []HonestFlag` |
| `ThreadingProofs!BlocksAreSafe` | `Spec => []BlockOutlivesThread` |
| `ThreadingProofs!LeaksAreFailedStarts` | `Spec => []OnlyFailedStartsLeak` |
| `SystemcallsProofs!TrueIsEarned` | `Spec => []TrueMeansSuccess`, any number of calls |
| `SystemcallsProofs!FalseHasReason` | `Spec => []FalseMeansFailure` |
| `SystemcallsProofs!ChildrenAreReaped` | `Spec => []NoChildLeft` |
| `SystemcallsProofs!CommandsAreExecuted` | `Spec => []CommandIsExecuted` |

- *Ring.* `Shape` (types and `RingShape` together) is inductive; neither half
  is alone, since `add_entry` on a full ring needs `in_offs = out_offs` to know
  that the slot it overwrites is the oldest. `RoomVisits` and `FullVisits` say
  what the visits find after `add_entry` in its two cases; the refinement then
  is `RoomAppends` and `FullDropsOldest` on the sequence of visited entries.
- *Lookups.* `BytesBefore` and the concatenation `Bytes` are recursive
  functions; what they compute is shown by induction over a set of numbers
  (`SetInduction`, from the least element of a non-empty set of naturals): both
  recursions have a solution (`SumsExist`, `ConcatExists`), the sums grow
  (`SumsGrow`), every position lies between two of them (`SumsLocate`), and the
  bytes of entry `k` are found in the concatenation behind the first
  `BytesBefore[k]` (`PositionOfByte`). The first visit whose sum passes a
  position is the one whose entry holds it (`FindInEntry`), and `fpos_for_entry`
  stops at the only visit to a slot (`SlotIsBijective`).
- *Driver.* `LockInv` adds to `LockDiscipline` that `pc` is a function on the
  processes and that only a process that has the device open is inside
  the driver (`Residents`): loading resets the mutex, and that is harmless only
  because nobody is inside an unloaded module.
- *Driver's memory.* `DriverInv` joins it with the types, what the locals of each
  call may be (`LocalsFit`) and the shape of the ring in each phase of a write
  (`Phases`: settled, oldest entry evicted, new entry stored, `in_offs` moved).
  `MemorySafe` alone is not inductive: that `kfree` in the eviction frees the
  block of a used slot, and that the store overwrites an empty one, follows from
  the phase. `NoLeak` then is one step each for the places where a block changes
  its owner. For `CountIsNearlyExact`, an ioctl between its reads is followed
  while writers go on: `out_offs` read with `full` clear is 0 (`StartIsFresh`).
- *Driver's refinement.* The log is what the visits of `CompletedRing` find in
  memory. The write's bytes enter it at `WriteCopy` (`PublishAppends`: the new
  block holds the pending bytes and the chunk, no block of the ring has
  changed); the eviction frees the one block that the completed ring leaves out
  (`EvictKeepsLog`); the three stores are steps towards that ring
  (`StoresKeepLog`). A read finds the lock free, so the log is what is in the
  ring, and its command starts where the lookups' sums say (`StartIs`).
- *Server.* `ServerInv` adds what each phase of `server_exit` knows:
  `Teardown` (after a join the thread is over; a thing is destroyed only in a
  later phase), `NotYet` (there is no clock thread before `init_clock`),
  `Waiting` (a connection that waits in the backlog has no thread yet, so
  `accept` starts a new one) and `Owner` (the mutex names exactly the thread in
  the section). `UseInv` says which objects exist at each point of `server_init`
  (`Usable`), and that before `clock_sem` is allocated main is the only thread a
  signal can interrupt (`Alone`): with `ServerInv` that leaves `CrashOnlyAtEdges`
  no other case. `Wakes` follows a stop request until there is a clock thread:
  it is still in its handler, has posted, or is `lost`. `Counts` bounds the
  semaphores by the posts that a handler in progress and the clients still owe.
- *Protocol.* `StreamInv` says at each point of a session what the stream is:
  without read-ahead and with no offset of its own outside the reply (`RestInv`,
  while nothing has failed), and in the reply such that what was sent and what
  was read ahead together are the store from the first byte of the answer to
  the position (`ReplyInv`). Each read adds to both sides the same bytes, those
  of one command (`ReadIs`, from where commands start in the concatenation,
  `StoredParts`); each `fgets` moves bytes from one part to the other
  (`FgetsSplits`), and `strlen` shortens none of them because the store has no
  zero byte: that is what the types of `StoreTypes` say, and why strings cut at
  their first zero byte on the way in (`CStringIsText`). At end of file the
  position is the store's end, so the reply is complete.
- *What was written.* `StoreInv` says that all that was written is some prefix
  followed by the store and the pending command, the prefix being empty until
  the ring is full; a write to a full ring moves the oldest command into the
  prefix (`FlushStored`, by `ConcatenationAppend` and `ConcatenationTail`).
  `LineInv` follows a line through its chunks: while they arrive, what the
  session wrote is the end of the pending command (of the file), and followed by
  the rest of the input it is what the client sent; with the newline it becomes
  the end of the store.
- *Positions.* `PosInv`: a stream that knows its offset has read ahead no more
  than lies before it and is where the descriptor is, except after the ioctl has
  moved that, and then `fseek` takes it back; a stream that does not has read
  nothing ahead, except the end of the store in a reply, which one `fgets` takes
  as a whole (`NothingLeft`). So `step_back` never goes before byte 0, whatever
  replies have failed before.
- *Threading.* `ThreadInv` joins the three properties, because a thread's flag
  is its own only if its block is, and adds that the flag agrees with the
  failures from the moment the thread has set it (`HonestFlag` alone speaks of
  its end), that a thread that has done nothing has not failed, and that a
  thread that does not run has no block.
- *Systemcalls.* `CallInv` says what is known of a child before its parent asks:
  one with status 0 has executed its command, a redirected one has its output in
  the file, one that is stopped will be where it was; and that calls beyond the
  last have no result yet. `OpenFailsFaulty` is the one case that is split off: an
  `open` that fails because of the file's mode is no fault of the environment.
  `FateInv` adds for the other direction that calls before the last have
  returned, and that the output file, if it exists, was made by an earlier child.
  A child whose `waitpid` has not failed and which was not stopped is that of the
  call in progress (`UndisturbedIsLast`), so the file that refuses it is another's.

**Only model-checked:** everything temporal under fairness
(`EveryCallReturns`, `ShutdownCompletes`, `EveryClientServed`,
`SessionEnds`, `EveryThreadReturns`, `ExecReturns`),
because the prover at hand does no liveness; and `QuietSeekIsExact` of the
driver, which is on the plan.

## 6. What the runs found

Three runs refute what the repository says of the code:

- `seek_wrapped`: `main.c` indexes `entry[out_offs + write_cmd]` without the
  wrap, so in a wrapped ring the seek refuses commands that are there.
- `server_join`: `server_run` never puts a `thread_info` into `thread_list`,
  so the cleanup thread stops after the first client and no client thread is
  ever joined or freed.
- `protocol_stale`: after a reply that a failed write to the socket has cut short,
  the `fseek` that should make the stream follow the ioctl makes the ioctl's
  effect disappear, and the client gets the wrong bytes.

Passing properties state exactly how far these go:

- `CountMissesOnlyAtFilling`: the ioctl counts the commands without the lock. If
  a write fills the ring after `full` was read as false and before `in_offs` is
  read, the count is too small, down to 0, and a command that is there is refused
  - also when that write has long returned by then. In no other case does the
  count miss a command.
- `CrashOnlyAtEdges`: `server_stop`, which "may be called in a interrupt handler"
  (`server_impl.h:90`), posts `clock_sem` without looking whether it exists. Before
  `server_init` has allocated it and after `server_exit` has freed it, it does
  not. And a `dup` or `fdopen` that fails for one client crashes the whole server.
- `ShutdownCompletes`: a failure in `server_init` or `server_run` after the
  clock thread exists (a port in use, say) leaves `server_exit` waiting for that
  thread until a stop signal comes, because nobody has set `should_stop` or
  posted `clock_sem`. So does a stop signal between the `malloc` and the
  `sem_init` of `clock_sem` (`server_impl.c:109-110`): its post is lost
  (`StopWakesClock`), and if a later call of `server_init` then fails, no timer is
  armed and only another signal wakes the clock thread.
- `OnlyFailedStartsLeak`: a failing `pthread_create` leaks the `thread_data`.
- `FalseMeansFailure`, `NoChildLeft`: `WUNTRACED` makes `do_exec` report a child
  that is merely stopped as a failure and leave it behind; so does a `waitpid`
  that fails. Nothing else does: children whose `execv` or `open` fails or that
  are killed are reaped, and `system()` waits for a stopped child.
- `CommandIsExecuted`: the mode `0x660` is not octal; the file cannot be opened
  for writing again by its owner.

The model also has these behaviours, which nothing in the repository excludes
and so no run refutes. The file build's shutdown waits for a silent client, as
said above. Client threads that are
still running when `server_exit` destroys the mutex, closes the file and frees
the semaphore use them afterwards: no property claims otherwise, and
`OneUserOfTheFile` stops at that point. In the file build a reply that failed
leaves the position in the middle of the file, and the next line or timestamp
overwrites what is there. A line that could not be written is dropped without an
error to its client. A client that goes away during its reply ends the server by
SIGPIPE.

## 7. Running it

    tlc -workers 2 -config MCDriverShared.cfg MCAesdChar
    tlapm CircularBufferProofs.tla

The longest run is `server_stop_file`, under three minutes with two workers.

## 8. Not modelled

- `server.c` before `server_init`: the options, and the fork of `--demonize`. It
  is over before the first thread or handler exists. (A `fork` that fails there
  takes the parent's branch and reports success.)
- `finder-app/writer.c`: open, one write, close. (The result of `fwrite` is
  not looked at, that of `fclose` is: a string longer than the buffer may be cut
  off and success reported.)
- The shell scripts of `finder-app/`, the image build, the start and stop
  scripts, the test scripts: pipelines of tools with no state of their own.
- `autotest-validate`: functions that return constants.
- Logging, syslog, `strerror` texts, addresses and ports; durations (a sleep
  takes any time, so the overflow of `ms * 1000` does not show).
- Writes of zero bytes, which return at once; sizes near the limits of
  `size_t` and `loff_t`.
- Two signal handlers running at once in two threads; memory exhaustion of the
  server's own `malloc` (the code does not check it).
- Other processes that use the device while the server replies: positions then
  shift under the reader, and the code promises nothing about it.
- Seek texts that are cut in two by the end of a chunk, and texts that look like
  one but have no number: they are ordinary bytes.
- Streams other than glibc's.
