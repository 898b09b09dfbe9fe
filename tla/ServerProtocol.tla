--------------------------- MODULE ServerProtocol ---------------------------
(***************************************************************************)
(* What the server says to its clients: server_protocol, server_impl.c,    *)
(* over the one FILE* all clients share.  The mutex of client_thread lets  *)
(* one session run at a time (AesdServer shows it), so there is one.       *)
(*                                                                         *)
(* In the device build the stream is over the character driver, used here  *)
(* by what it promises (CharDevice): every system call of the server is a  *)
(* step of that module.  In the file build it is over a regular file, kept *)
(* as a log with one element, the file's content.                          *)
(*                                                                         *)
(* The stream is glibc's: bytes read ahead of what fgets has returned, and *)
(* a cached offset that a seek may trust instead of asking the kernel.     *)
(***************************************************************************)
EXTENDS Integers, Sequences

CONSTANTS
  Builds,         \* the builds, with USE_AESD_CHAR_DEVICE (TRUE) or without
  Capacity,       \* commands the device keeps
  Earlier,        \* what the device may hold when the server starts
  NL, NUL,        \* the newline and the zero byte
  T,              \* the text of a timestamp
  SeekTexts,      \* the pairs x, y of the AESDCHAR_IOCSEEKTO:x,y of clients
  Messages,       \* what a client may send on its connection
  LineSize,       \* BUFFER_SIZE - 1, the most fgets returns
  StreamSize,     \* the size of a stream's buffer
  UintSize,       \* 2^32: write_cmd and write_cmd_offset are uint32_t
  MaxSessions,    \* bound on the number of sessions
  MaxTicks,       \* bound on the number of timestamps
  PeersLeave,     \* a peer may reset its connection
  MaxAborts       \* bound on the writes that fail, and on the replies that
                  \*   fail and do not end the process

ASSUME ProtocolAssumption ==
  /\ Builds \subseteq BOOLEAN /\ PeersLeave \in BOOLEAN
  /\ {Capacity, LineSize, StreamSize, UintSize} \subseteq Nat \ {0}
  /\ {MaxSessions, MaxTicks, MaxAborts} \subseteq Nat
  /\ \A commands \in Earlier : Len(commands) <= Capacity
  /\ NL # NUL /\ T \notin {NL, NUL}
  /\ SeekTexts \subseteq Int \X Int /\ {NL, NUL, T} \cap SeekTexts = {}

VARIABLES
  device,                    \* the build is the one for the device
  log, partial, f_pos, got,  \* the store, as in CharDevice
  stream,                    \* output_file: [unread, offset, eof]
  pc,                        \* where the session is in client_thread
  input,                     \* what socket_input has not returned yet
  seek,                      \* the aesd_seekto of the session, or NoSeek
  reply,                     \* what was written to socket_output
  ok,                        \* server_protocol returned RET_OK
  sent, own, written,        \* history: the message of the session, the bytes
                             \*   it put into the store, all bytes put there
  sessions, ticks, aborts    \* how many there were

store   == <<log, partial, f_pos, got>>
counts  == <<sessions, ticks, aborts>>
session == <<input, seek, reply, ok, sent, own>>
vars == <<device, store, stream, pc, session, written, counts>>

Server == "server"
NoSeek == <<>>
Unknown == -1  \* _IO_pos_BAD

Device == INSTANCE CharDevice
            WITH Procs <- {Server}, Chunks <- {}, Counts <- {}, Zero <- NUL
-----------------------------------------------------------------------------
(* Text.  A message is a sequence of bytes, where AESDCHAR_IOCSEEKTO:x,y   *)
(* is one symbol, the pair of its numbers.                                 *)

\* The number of bytes fgets takes from s: up to the newline, if it fits.
FgetsLen(s) ==
  LET ends == {i \in DOMAIN s : s[i] = NL \/ i = LineSize \/ i = Len(s)}
  IN  IF s = <<>> THEN 0 ELSE CHOOSE i \in ends : \A j \in ends : i <= j

Fgets(s)     == SubSeq(s, 1, FgetsLen(s))
AfterFgets(s) == SubSeq(s, FgetsLen(s) + 1, Len(s))

\* fgets has what it returns without reading on.
HasLine(s) == Len(s) >= LineSize \/ \E i \in DOMAIN s : s[i] = NL

\* The string in the buffer: what strlen sees of it.
CString(chunk) ==
  LET ends == {i \in DOMAIN chunk : chunk[i] = NUL}
  IN  IF ends = {} THEN chunk
      ELSE SubSeq(chunk, 1, (CHOOSE i \in ends : \A j \in ends : i <= j) - 1)
-----------------------------------------------------------------------------
(* The stream over the store.                                              *)

Content == IF log = <<>> THEN <<>> ELSE log[1]

\* write(2) on a regular file: at the position, which moves.  If the stream has
\* read ahead (for the clock thread, after a reply that failed) it goes back first.
FileWrite(bytes) ==
  LET pos == f_pos[Server] - Len(stream.unread)
  IN  /\ log' = <<SubSeq(Content, 1, pos) \o bytes
                  \o SubSeq(Content, pos + Len(bytes) + 1, Len(Content))>>
      /\ f_pos' = [f_pos EXCEPT ![Server] = pos + Len(bytes)]
      /\ UNCHANGED <<partial, got>>

\* Mutant: fflush is missing and what fwrite keeps gets lost.
MutFwriteKeeps(bytes) == written' = written \o bytes /\ UNCHANGED <<store, stream>>

\* fwrite and fflush, which forgets the stream's offset even if there is nothing
\* to write.
FwriteFlush(bytes) ==
  /\ IF bytes = <<>> THEN UNCHANGED store
     ELSE IF device THEN Device!Write(bytes) ELSE FileWrite(bytes)
  /\ stream' = [stream EXCEPT !.unread = <<>>, !.offset = Unknown]
  /\ written' = written \o bytes

\* The stream after a seek to pos.
At(pos) == [unread |-> <<>>, offset |-> pos, eof |-> FALSE]
-----------------------------------------------------------------------------
\* The commands s one after the other.
Concatenation(s) ==
  LET upto[i \in 0 .. Len(s)] == IF i = 0 THEN <<>> ELSE upto[i - 1] \o s[i]
  IN  upto[Len(s)]

\* fopen with "w+" empties a file, and leaves the device as it is.
Init ==
  /\ device \in Builds
  /\ log \in IF device THEN Earlier ELSE {<<>>}
  /\ partial = <<>>
  /\ f_pos = [p \in {Server} |-> 0] /\ got = [p \in {Server} |-> <<>>]
  /\ stream = [unread |-> <<>>, offset |-> Unknown, eof |-> FALSE]
  /\ pc = "idle"
  /\ input = <<>> /\ seek = NoSeek /\ reply = <<>> /\ ok = FALSE
  /\ sent = <<>> /\ own = <<>> /\ written = Concatenation(log)
  /\ sessions = 0 /\ ticks = 0 /\ aborts = 0

\* A client thread gets the mutex and calls server_protocol.
begin(message) ==
  /\ pc = "idle" /\ sessions < MaxSessions
  /\ pc' = "recv"
  /\ input' = message /\ sent' = message
  /\ seek' = NoSeek /\ reply' = <<>> /\ ok' = FALSE /\ own' = <<>>
  /\ sessions' = sessions + 1
  /\ UNCHANGED <<store, stream, written, ticks, aborts>>

\* The clock thread writes a timestamp between two sessions.
clock_write ==
  /\ ~device
  /\ pc = "idle" /\ ticks < MaxTicks
  /\ FwriteFlush(<<T, NL>>)
  /\ ticks' = ticks + 1
  /\ UNCHANGED <<pc, session, sessions, aborts>>
-----------------------------------------------------------------------------
(* Read from the socket, write to the store.                               *)

IsSeek(chunk) == chunk # <<>> /\ chunk[1] \in SeekTexts

\* Before output a stream that has read ahead goes back to what it returned.
step_back ==
  /\ pc = "recv" /\ input # <<>> /\ ~IsSeek(Fgets(input))
  /\ stream.unread # <<>>
  /\ LET back == f_pos[Server] - Len(stream.unread)
     IN  /\ f_pos' = [f_pos EXCEPT ![Server] = back]
         /\ stream' = [stream EXCEPT !.unread = <<>>, !.offset = back]
  /\ UNCHANGED <<log, partial, got, pc, session, written, counts>>

\* A string of length 0 makes the code look at the byte before the buffer,
\* which may be a newline or not.
EndsLine(text) ==
  IF text = <<>> THEN BOOLEAN ELSE {text[Len(text)] = NL}

\* Mutant: one line of BUFFER_SIZE bytes at most.
MutRecvWriteOnce ==
  /\ pc = "recv" /\ input # <<>> /\ ~IsSeek(Fgets(input))
  /\ stream.unread = <<>>
  /\ FwriteFlush(CString(Fgets(input)))
  /\ own' = own \o CString(Fgets(input))
  /\ input' = AfterFgets(input)
  /\ pc' = "rewind"
  /\ UNCHANGED <<seek, reply, ok, sent, counts>>

recv_write ==
  /\ pc = "recv" /\ input # <<>> /\ ~IsSeek(Fgets(input))
  /\ stream.unread = <<>>
  /\ LET text == CString(Fgets(input))
     IN  /\ FwriteFlush(text)
         /\ own' = own \o text
         /\ \E ends \in EndsLine(text) : pc' = IF ends THEN "rewind" ELSE "recv"
  /\ input' = AfterFgets(input)
  /\ UNCHANGED <<seek, reply, ok, sent, counts>>

\* write(2) fails.  The result of fflush is not looked at and the stream drops
\* the bytes; of the device, which has no memory, the pending command is gone.
flush_fails ==
  /\ pc = "recv" /\ input # <<>> /\ ~IsSeek(Fgets(input))
  /\ stream.unread = <<>>
  /\ aborts < MaxAborts /\ aborts' = aborts + 1
  /\ LET text == CString(Fgets(input))
     IN  /\ text # <<>>
         /\ IF device THEN Device!FailedWrite(text) /\ partial' = <<>>
            ELSE UNCHANGED store
         /\ \E ends \in EndsLine(text) : pc' = IF ends THEN "rewind" ELSE "recv"
  /\ input' = AfterFgets(input)
  /\ UNCHANGED <<stream, seek, reply, ok, sent, own, written, sessions, ticks>>

\* Mutant: the offset keeps its sign.
MutSignedOffset == <<input[1][1] % UintSize, input[1][2]>>

\* The ioctl.  strtol gives any number, the fields keep it modulo 2^32.
SeekTo == <<input[1][1] % UintSize, input[1][2] % UintSize>>

recv_seek ==
  /\ pc = "recv" /\ IsSeek(Fgets(input))
  /\ device
  /\ Device!SeekTo(Server, SeekTo[1], SeekTo[2])
  /\ seek' = SeekTo
  /\ input' = AfterFgets(input)
  /\ pc' = "fseek"
  /\ UNCHANGED <<stream, reply, ok, sent, own, written, counts>>

\* The ioctl fails: this is a regular file, or the driver has no such byte,
\* or the ring has wrapped and the driver does not find it.
recv_seek_fails ==
  /\ pc = "recv" /\ IsSeek(Fgets(input))
  /\ \/ ~device
     \/ ~(SeekTo[1] < Len(log) /\ SeekTo[2] < Len(log[SeekTo[1] + 1]))
     \/ (Len(log) = Capacity /\ SeekTo[1] > 0)
  /\ input' = AfterFgets(input)
  /\ pc' = "close"
  /\ UNCHANGED <<store, stream, seek, reply, ok, sent, own, written, counts>>

\* Mutant: fgets is called again.
MutRecvRetries ==
  /\ pc = "recv"
  /\ input = <<>> \/ PeersLeave
  /\ input' = <<>>
  /\ UNCHANGED <<pc, store, stream, seek, reply, ok, sent, own, written, counts>>

\* fgets returns NULL: the peer closed without a newline, or reset the
\* connection, which drops the bytes of the line that fgets has so far.
recv_fails ==
  /\ pc = "recv"
  /\ input = <<>> \/ PeersLeave
  /\ input' = <<>>
  /\ pc' = "close"
  /\ UNCHANGED <<store, stream, seek, reply, ok, sent, own, written, counts>>
-----------------------------------------------------------------------------
(* Write the store to the socket.                                          *)

\* Mutant: the stream is not rewound.
MutNoRewind ==
  /\ pc = "rewind"
  /\ pc' = "reply"
  /\ UNCHANGED <<store, stream, session, written, counts>>

\* rewind: the stream has no read-ahead, so it asks the kernel.
rewind ==
  /\ pc = "rewind"
  /\ f_pos' = [f_pos EXCEPT ![Server] = 0]
  /\ stream' = At(0)
  /\ pc' = "reply"
  /\ UNCHANGED <<log, partial, got, session, written, counts>>

\* Mutant: the stream is not told of the ioctl.
MutNoFseek ==
  /\ pc = "fseek"
  /\ pc' = "reply"
  /\ UNCHANGED <<store, stream, session, written, counts>>

\* fseek( output_file, 0, SEEK_CUR ).  A stream that does not know its offset
\* asks the kernel; another keeps what it has read ahead and takes the
\* descriptor back to the offset it believes in.
fseek ==
  /\ pc = "fseek"
  /\ IF stream.offset = Unknown
     THEN stream' = At(f_pos[Server]) /\ UNCHANGED f_pos
     ELSE /\ stream' = [stream EXCEPT !.eof = FALSE]
          /\ f_pos' = [f_pos EXCEPT ![Server] = stream.offset]
  /\ pc' = "reply"
  /\ UNCHANGED <<log, partial, got, session, written, counts>>

\* fgets needs more bytes: read(2) gives the rest of one command, or nothing,
\* and then the stream forgets its offset.
fill ==
  /\ pc = "reply" /\ ~HasLine(stream.unread) /\ ~stream.eof
  /\ Device!Read(Server, StreamSize)
  /\ LET bytes == got'[Server]
     IN  stream' = [unread |-> stream.unread \o bytes,
                    offset |-> IF bytes = <<>> THEN Unknown ELSE stream.offset + Len(bytes),
                    eof    |-> bytes = <<>>]
  /\ UNCHANGED <<pc, session, written, counts>>

\* read(2) fails: fgets returns NULL, without what it has so far.
read_fails ==
  /\ pc = "reply" /\ ~HasLine(stream.unread) /\ ~stream.eof
  /\ aborts < MaxAborts /\ aborts' = aborts + 1
  /\ stream' = [unread |-> <<>>, offset |-> Unknown, eof |-> FALSE]
  /\ pc' = "close"
  /\ UNCHANGED <<store, session, written, sessions, ticks>>

CanSend == pc = "reply" /\ (HasLine(stream.unread) \/ (stream.eof /\ stream.unread # <<>>))

send ==
  /\ CanSend
  /\ reply' = reply \o CString(Fgets(stream.unread))
  /\ stream' = [stream EXCEPT !.unread = AfterFgets(@)]
  /\ UNCHANGED <<store, pc, input, seek, ok, sent, own, written, counts>>

\* The next fwrite does not fit into the buffer of socket_output and flushes it.
Flushes ==
  LET n == Len(CString(Fgets(stream.unread)))
  IN  /\ CanSend /\ reply # <<>>
      /\ (Len(reply) - 1) \div StreamSize < (Len(reply) + n - 1) \div StreamSize

\* fwrite fails and the process lives: SIGPIPE is ignored by whoever started
\* the server, or the error was not about the connection.
send_fails ==
  /\ Flushes
  /\ aborts < MaxAborts /\ aborts' = aborts + 1
  /\ stream' = [stream EXCEPT !.unread = AfterFgets(@)]
  /\ pc' = "close"
  /\ UNCHANGED <<store, session, written, sessions, ticks>>

\* The peer is gone: SIGPIPE, at a flush of socket_output during the reply
\* or at the latest at its fclose.
sigpipe ==
  /\ PeersLeave
  /\ Flushes \/ (pc = "close" /\ reply # <<>>)
  /\ pc' = "killed"
  /\ UNCHANGED <<store, stream, session, written, counts>>

\* Mutant: the loop takes the end of a line for the end of the store.
MutReplyStopsEarly ==
  /\ pc = "reply" /\ stream.unread = <<>> /\ (stream.eof \/ reply # <<>>)
  /\ ok' = TRUE
  /\ pc' = "close"
  /\ UNCHANGED <<store, stream, input, seek, reply, sent, own, written, counts>>

\* fgets returns NULL at the end of the store.
reply_done ==
  /\ pc = "reply" /\ stream.eof /\ stream.unread = <<>>
  /\ ok' = TRUE
  /\ pc' = "close"
  /\ UNCHANGED <<store, stream, input, seek, reply, sent, own, written, counts>>

\* The mutex is unlocked and the socket's streams are closed.
close ==
  /\ pc = "close"
  /\ pc' = "idle"
  /\ UNCHANGED <<store, stream, session, written, counts>>
-----------------------------------------------------------------------------
server_protocol ==
  \/ step_back \/ recv_write \/ flush_fails \/ recv_seek \/ recv_seek_fails
  \/ recv_fails \/ rewind \/ fseek \/ fill \/ read_fails \/ send \/ send_fails
  \/ sigpipe \/ reply_done \/ close

\* The bounds are used up, or the process is gone.
Over ==
  /\ pc = "killed" \/ (pc = "idle" /\ sessions = MaxSessions)
  /\ UNCHANGED vars

Next ==
  /\ UNCHANGED device
  /\ (\E m \in Messages : begin(m)) \/ clock_write \/ server_protocol \/ Over

Spec == Init /\ [][Next]_vars

\* A session that can go on does: the peer sends its message and then closes
\* or resets, and it takes the reply.
FairSpec == Spec /\ WF_vars(server_protocol /\ UNCHANGED device)
=============================================================================
