---------------------- MODULE ServerProtocolProperties ----------------------
(***************************************************************************)
(* What a client of the server may rely on.                                *)
(***************************************************************************)
EXTENDS ServerProtocol, SequencesExt

Bytes ==
  {NL, NUL, T} \cup SeekTexts \cup UNION {Range(m) : m \in Messages}
    \cup UNION {UNION {Range(c) : c \in Range(commands)} : commands \in Earlier}

\* What strings are made of.
Text == Bytes \ {NUL}

\* The programs that used the device before left no zero bytes there.
ASSUME TextAssumption == Messages \subseteq Seq(Bytes) /\ Earlier \subseteq Seq(Seq(Text))

Labels == {"idle", "recv", "rewind", "fseek", "reply", "close", "killed"}

\* The types of the variables of a session and of output_file.
TypeOK ==
  /\ device \in Builds
  /\ log \in Seq(Seq(Bytes)) /\ partial \in Seq(Bytes)
  /\ f_pos \in [{Server} -> Nat] /\ got \in [{Server} -> Seq(Bytes)]
  /\ stream.unread \in Seq(Bytes)
  /\ stream.offset \in Nat \cup {Unknown}
  /\ stream.eof \in BOOLEAN
  /\ pc \in Labels
  /\ {input, reply, sent, own, written} \subseteq Seq(Bytes)
  /\ seek = NoSeek \/ seek \in Nat \X Nat
  /\ ok \in BOOLEAN
  /\ sessions \in 0 .. MaxSessions /\ ticks \in 0 .. MaxTicks
  /\ aborts \in 0 .. MaxAborts

Stored == Concatenation(log)

\* A session that succeeded.
Answered == pc = "close" /\ ok

\* A client that was answered got all that is stored, from the first byte to
\* the last, across the chunks of BUFFER_SIZE, the one command a read returns,
\* the end of file the stream met in an earlier session, a write that failed
\* and a reply that was given up half way.
ReplyIsStore == Answered /\ seek = NoSeek => reply = Stored

\* If no write fails, a client that sent a line, however long, finds it at the
\* end of what it gets, complete and with its newline, and nothing of what it
\* sent after it.  (A line with a zero byte is stored up to there.)
LineIsLast ==
  aborts = 0 /\ Answered /\ seek = NoSeek /\ NUL \notin Range(sent) =>
    /\ IsSuffix(own, reply)
    /\ IsPrefix(own, sent)
    /\ Last(own) = NL

\* A client that sent AESDCHAR_IOCSEEKTO:x,y and was not refused gets what is
\* stored from byte y of command x on: fseek synchronizes the stream with the
\* descriptor that the ioctl moved behind its back.
SeekIsFollowed ==
  Answered /\ seek # NoSeek =>
    reply = SubSeq(Stored, Device!Start(seek[1] + 1) + seek[2] + 1, Len(Stored))

\* The same as long as no call has failed, whatever the clients sent and
\* however they left.
SeekReplyIsRest == aborts = 0 => SeekIsFollowed

\* Nothing that was written is lost, doubled or overwritten by a later
\* session or by the clock: the file holds all of it, the device what was
\* written last, and all of it until its ring is full.  (Until a call fails:
\* after half a reply the next write to a regular file lands in its middle.)
StoreIsWhatWasWritten ==
  aborts = 0 =>
    /\ IsSuffix(Stored \o partial, written)
    /\ (device /\ Len(log) = Capacity) \/ Stored \o partial = written

\* A session leaves a stream that the next one can use: no bytes read ahead,
\* no offset of its own, and a regular file at its end, where writes append.
\* So does one that the client breaks off; only a call that fails may not.
Settled ==
  aborts = 0 /\ pc = "idle" =>
    /\ stream.unread = <<>> /\ stream.offset = Unknown
    /\ device \/ f_pos[Server] = Len(Content)

\* Every session ends, whether its client sends a line, half of one, a seek
\* or nothing, or goes away: the loop that reads back the store terminates.
SessionEnds == pc # "idle" ~> pc \in {"idle", "killed"}
=============================================================================
