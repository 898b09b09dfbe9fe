-------------------------- MODULE SystemcallsProofs --------------------------
(***************************************************************************)
(* What true and false mean, what becomes of the children and whether a    *)
(* command is executed, for any number of calls, stops and failures.       *)
(***************************************************************************)
EXTENDS Systemcalls, TLAPS

\* A call that was not made yet has neither a child nor a result.
Future == \A c \in Calls : c > n => state[c] = "none" /\ result[c] = "none"

\* A call has a result as soon as the parent is back.
Present == pc = "wait" => n > 0 /\ result[n] = "none"

\* A child has a status if and only if it is over.
StatusAtEnd == \A c \in Calls : status[c] # "none" <=> state[c] \in {"zombie", "reaped"}

\* A child is at the command, or was when it was stopped, only after execv; a
\* status of 0 is the command's.
AtCommand(c) == state[c] = "command" \/ (state[c] = "stopped" /\ resume[c] = "command")

RanFirst == \A c \in Calls : AtCommand(c) \/ status[c] = "0" => c \in ran

\* The output of a child that has come past the redirection goes to the file.
PastRedirect(c) ==
  \/ c \in ran \/ state[c] = "redirected"
  \/ (state[c] = "stopped" /\ resume[c] = "redirected")

\* No command ran before the fork, and a child was stopped after it.
NoChildYet ==
  \A c \in Calls :
    /\ state[c] = "none" => c \notin ran
    /\ state[c] = "stopped" => resume[c] # "none"

Redirected ==
  \A c \in Calls : kind[c] = "do_exec_redirect" /\ PastRedirect(c) =>
    stdout[c] = "file" /\ file # "absent"

TrueIsFinal ==
  \A c \in Calls : result[c] = "true" => status[c] = "0" /\ state[c] = "reaped"

CallInv ==
  /\ TypeOK /\ Future /\ Present /\ StatusAtEnd /\ RanFirst /\ NoChildYet /\ Redirected
  /\ TrueIsFinal

LEMMA InitHolds == Init => CallInv
BY SystemcallsAssumption
DEF Init, CallInv, TypeOK, Future, Present, StatusAtEnd, RanFirst, AtCommand, NoChildYet,
    Redirected, PastRedirect, TrueIsFinal, Calls, Kinds

\* A new call is the first to use its child; one that returns true has just
\* reaped a child with status 0.
LEMMA ParentSteps ==
  ASSUME CallInv, parent \/ \E k \in Kinds : fork(k) \/ fork_fails(k)
  PROVE  CallInv'
<1> USE SystemcallsAssumption
    DEF CallInv, TypeOK, Future, Present, StatusAtEnd, RanFirst, AtCommand, NoChildYet,
        Redirected, PastRedirect, TrueIsFinal, Calls, Kinds, Call, Return
<1>1. ASSUME NEW k \in Kinds, fork(k)
      PROVE  CallInv'
  BY <1>1 DEF fork
<1>2. ASSUME NEW k \in Kinds, fork_fails(k)
      PROVE  CallInv'
  BY <1>2 DEF fork_fails
<1>3. CASE n > 0 /\ waitpid
  BY <1>3 DEF waitpid
<1>4. CASE n > 0 /\ waitpid_stopped
  BY <1>4 DEF waitpid_stopped
<1>5. CASE n > 0 /\ waitpid_fails
  BY <1>5 DEF waitpid_fails
<1>6. QED
  BY <1>1, <1>2, <1>3, <1>4, <1>5 DEF parent

\* A call is faulty if its child was made to fail in open.
LEMMA OpenFailsFaulty ==
  ASSUME TypeOK, NEW c \in Calls, open_fails(c)
  PROVE  faulty' \in SUBSET Calls
<1>1. faulty' = faulty \/ faulty' = faulty \cup {c}
  BY DEF open_fails
<1>2. faulty \in SUBSET Calls
  BY DEF TypeOK
<1>3. QED
  BY <1>1, <1>2

\* A child gets to the command only by execv, after the redirection; a signal
\* takes it nowhere else.
LEMMA ChildSteps ==
  ASSUME CallInv, NEW c \in Calls, childcode(c) \/ signals(c)
  PROVE  CallInv'
<1> USE SystemcallsAssumption
    DEF CallInv, TypeOK, Future, Present, StatusAtEnd, RanFirst, AtCommand, NoChildYet,
        Redirected, PastRedirect, TrueIsFinal, Calls, Kinds, Exit, caller, Runs, BeforeExec
<1>1. CASE redirect(c)
  <2>1. TypeOK'
    BY <1>1 DEF redirect
  <2>2. Future' /\ Present' /\ StatusAtEnd' /\ NoChildYet' /\ TrueIsFinal'
    BY <1>1 DEF redirect
  <2>3. RanFirst'
    BY <1>1 DEF redirect
  <2>4. Redirected'
    BY <1>1 DEF redirect
  <2>5. QED
    BY <2>1, <2>2, <2>3, <2>4
<1>2. CASE open_fails(c)
  <2>1. faulty' \in SUBSET Calls
    BY <1>2, OpenFailsFaulty
  <2>2. state[c] = "forked" /\ Exit(c, "nonzero")
    BY <1>2 DEF open_fails
  <2>3. TypeOK' /\ Future' /\ Present' /\ StatusAtEnd'
    BY <2>1, <2>2
  <2>4. RanFirst' /\ NoChildYet' /\ TrueIsFinal'
    BY <2>2
  <2>5. Redirected'
    BY <2>2
  <2>6. QED
    BY <2>3, <2>4, <2>5
<1>3. CASE execv(c)
  <2>1. TypeOK'
    BY <1>3 DEF execv
  <2>2. Future' /\ Present' /\ NoChildYet'
    BY <1>3 DEF execv
  <2>3. StatusAtEnd' /\ TrueIsFinal'
    <3>1. /\ state[c] \notin {"zombie", "reaped"} /\ state'[c] = "command"
          /\ \A d \in Calls \ {c} : state'[d] = state[d]
          /\ UNCHANGED <<status, result>>
      BY <1>3 DEF execv
    <3>2. StatusAtEnd'
      BY <3>1
    <3>3. TrueIsFinal'
      BY <3>1
    <3>4. QED
      BY <3>2, <3>3
  <2>4. RanFirst'
    BY <1>3 DEF execv
  <2>5. Redirected'
    BY <1>3 DEF execv
  <2>6. QED
    BY <2>1, <2>2, <2>3, <2>4, <2>5
<1>4. CASE execv_fails(c)
  BY <1>4 DEF execv_fails
<1>5. CASE command_exits(c)
  BY <1>5 DEF command_exits
<1>6. CASE sigstop(c)
  <2>1. /\ state[c] \in {"forked", "redirected", "command"}
        /\ state'[c] = "stopped" /\ resume'[c] = state[c]
        /\ \A d \in Calls \ {c} : state'[d] = state[d] /\ resume'[d] = resume[d]
    BY <1>6 DEF sigstop
  <2>2. TypeOK'
    BY <1>6, <2>1 DEF sigstop
  <2>3. Future' /\ Present' /\ NoChildYet'
    BY <1>6, <2>1 DEF sigstop
  <2>4. status' = status /\ result' = result
    BY <1>6 DEF sigstop
  <2>5. ASSUME NEW d \in Calls
        PROVE  status[d] # "none" <=> state'[d] \in {"zombie", "reaped"}
    <3>1. CASE d = c
      BY <3>1, <2>1
    <3>2. CASE d # c
      BY <3>2, <2>1
    <3>3. QED
      BY <3>1, <3>2
  <2>6. StatusAtEnd' /\ TrueIsFinal'
    BY <2>1, <2>4, <2>5
  <2>7. RanFirst'
    BY <1>6, <2>1 DEF sigstop
  <2>8. Redirected'
    BY <1>6, <2>1 DEF sigstop
  <2>9. QED
    BY <2>2, <2>3, <2>6, <2>7, <2>8
<1>7. CASE sigcont(c)
  <2>1. resume[c] \in {"forked", "redirected", "command"} /\ state[c] = "stopped"
    BY <1>7 DEF sigcont
  <2>2. TypeOK' /\ Future' /\ Present' /\ StatusAtEnd' /\ NoChildYet' /\ TrueIsFinal'
    BY <1>7, <2>1 DEF sigcont
  <2>3. RanFirst'
    BY <1>7, <2>1 DEF sigcont
  <2>4. Redirected'
    BY <1>7, <2>1 DEF sigcont
  <2>5. QED
    BY <2>2, <2>3, <2>4
<1>8. CASE sigkill(c)
  BY <1>8 DEF sigkill
<1>9. QED
  BY <1>1, <1>2, <1>3, <1>4, <1>5, <1>6, <1>7, <1>8 DEF childcode, signals

LEMMA NextHolds == CallInv /\ [Next]_vars => CallInv'
<1> SUFFICES ASSUME CallInv, [Next]_vars
             PROVE  CallInv'
  OBVIOUS
<1>1. CASE UNCHANGED vars
  BY <1>1 DEF vars, caller, CallInv, TypeOK, Future, Present, StatusAtEnd, RanFirst,
     AtCommand, NoChildYet, Redirected, PastRedirect, TrueIsFinal
<1>2. CASE Next
  BY <1>1, <1>2, ParentSteps, ChildSteps DEF Next, Over
<1>3. QED
  BY <1>1, <1>2

\* do_system, do_exec and do_exec_redirect return true only for a command that
\* was executed, with its output where it belongs, and succeeded.
THEOREM TrueIsEarned == Spec => []TrueMeansSuccess
<1>1. CallInv => TrueMeansSuccess
  BY DEF CallInv, RanFirst, Redirected, PastRedirect, TrueIsFinal, TrueMeansSuccess
<1>2. QED
  BY <1>1, InitHolds, NextHolds, PTL DEF Spec
-----------------------------------------------------------------------------
(* What false and a child that is left behind mean.                        *)

\* The calls before the last one have returned, and so has that one if the
\* parent is in its own code.
Past == \A c \in Calls : c < n \/ (c = n /\ pc = "user") => result[c] # "none"

\* Only a fork that failed makes a call without a child.
Childless == \A c \in Calls : result[c] # "none" /\ state[c] = "none" => c \in faulty

\* A child is before the redirection.
AtStart(c) ==
  \/ state[c] \in {"none", "forked"}
  \/ state[c] = "stopped" /\ resume[c] = "forked"

\* If outputfile is there, an earlier child made it.
Creator ==
  /\ \A c \in Calls : stdout[c] = "file" => ~AtStart(c) /\ kind[c] = "do_exec_redirect"
  /\ file # "absent" => \E c \in Calls : c <= n /\ stdout[c] = "file"

\* An earlier call has made the file, and its mode keeps this one out.
Refused(c) ==
  /\ ~Privileged /\ kind[c] = "do_exec_redirect"
  /\ \E d \in Calls : d < c /\ stdout[d] = "file"

\* A child that ended undisturbed has executed the command or was refused.
EndedRan ==
  \A c \in Calls :
    state[c] \in {"zombie", "reaped"} /\ c \notin faulty /\ ~WasStopped(c) =>
      c \in ran \/ Refused(c)

FateInv ==
  /\ CallInv /\ Past /\ Childless /\ Creator /\ EndedRan
  /\ FalseMeansFailure /\ NoChildLeft /\ unwaited \subseteq faulty

\* The invariant holds before the first call.
LEMMA InitFate == Init => FateInv
<1>1. Init => CallInv
  BY InitHolds
<1>2. QED
  BY <1>1, SystemcallsAssumption
  DEF Init, FateInv, Past, Childless, Creator, AtStart, EndedRan, FalseMeansFailure,
      NoChildLeft, MayBeLeft, WasStopped, Calls

\* A child that nothing has disturbed is that of the call in progress.
LEMMA UndisturbedIsLast ==
  ASSUME FateInv, NEW c \in Calls, c \notin faulty, ~WasStopped(c),
         state[c] \notin {"none", "reaped"}
  PROVE  c = n /\ pc = "wait"
<1>1. result[c] = "none"
  BY DEF FateInv, NoChildLeft, MayBeLeft
<1>2. c <= n
  BY SystemcallsAssumption DEF FateInv, CallInv, TypeOK, Future, Calls
<1>3. QED
  BY <1>1, <1>2, SystemcallsAssumption DEF FateInv, CallInv, TypeOK, Past, Calls

\* The parent returns false with a reason.
LEMMA ParentFate ==
  ASSUME FateInv, parent \/ \E k \in Kinds : fork(k) \/ fork_fails(k)
  PROVE  FateInv'
<1>1. CallInv'
  BY ParentSteps DEF FateInv
<1> USE SystemcallsAssumption
    DEF FateInv, CallInv, TypeOK, Future, Present, StatusAtEnd, NoChildYet, Past, Childless,
        Creator, AtStart, EndedRan, Refused, FalseMeansFailure, NoChildLeft, MayBeLeft,
        WasStopped, Calls, Kinds, Call, Return
<1>2. ASSUME NEW k \in Kinds, fork(k)
      PROVE  FateInv'
  BY <1>1, <1>2 DEF fork
<1>3. ASSUME NEW k \in Kinds, fork_fails(k)
      PROVE  FateInv'
  <2>1. Past' /\ Childless' /\ Creator'
    BY <1>3 DEF fork_fails
  <2>2. EndedRan'
    BY <1>3 DEF fork_fails
  <2>3. FalseMeansFailure'
    <3>1. status[n'] = "none" /\ n' \in Calls /\ UNCHANGED <<status, resume, unwaited>>
      BY <1>3 DEF fork_fails
    <3>2. \A c \in Calls \ {n'} : result'[c] = result[c] /\ kind'[c] = kind[c]
      BY <1>3 DEF fork_fails
    <3>3. QED
      BY <3>1, <3>2
  <2>4. NoChildLeft'
    BY <1>3 DEF fork_fails
  <2>5. (unwaited \subseteq faulty)'
    BY <1>3 DEF fork_fails
  <2> HIDE DEF CallInv, Past, Childless, Creator, EndedRan, FalseMeansFailure, NoChildLeft
  <2>6. QED
    BY <1>1, <2>1, <2>2, <2>3, <2>4, <2>5
<1>4. CASE n > 0 /\ waitpid
  BY <1>1, <1>4 DEF waitpid
<1>5. CASE n > 0 /\ waitpid_stopped
  BY <1>1, <1>5 DEF waitpid_stopped
<1>6. CASE n > 0 /\ waitpid_fails
  <2>1. Past' /\ Childless' /\ (unwaited \subseteq faulty)'
    BY <1>6 DEF waitpid_fails
  <2>2. Creator'
    BY <1>6 DEF waitpid_fails
  <2>3. EndedRan'
    BY <1>6 DEF waitpid_fails
  <2>4. FalseMeansFailure'
    BY <1>6 DEF waitpid_fails
  <2>5. NoChildLeft'
    BY <1>6 DEF waitpid_fails
  <2> HIDE DEF CallInv, Past, Childless, Creator, EndedRan, FalseMeansFailure, NoChildLeft
  <2>6. QED
    BY <1>1, <2>1, <2>2, <2>3, <2>4, <2>5
<1> HIDE DEF FateInv
<1>7. QED
  BY <1>2, <1>3, <1>4, <1>5, <1>6 DEF parent

\* A child that ends without the command has a reason, and one that is left
\* behind had one before.
LEMMA ChildFate ==
  ASSUME FateInv, NEW c \in Calls, childcode(c) \/ signals(c)
  PROVE  FateInv'
<1>1. CallInv'
  BY ChildSteps DEF FateInv
<1> USE SystemcallsAssumption
    DEF FateInv, CallInv, TypeOK, Future, Present, StatusAtEnd, NoChildYet, RanFirst,
        AtCommand, Past, Childless, Creator, AtStart, EndedRan, FalseMeansFailure,
        NoChildLeft, MayBeLeft, WasStopped, Calls, Exit, caller, Runs, BeforeExec
<1>2. CASE redirect(c)
  BY <1>1, <1>2 DEF redirect, Refused
<1>3. CASE open_fails(c)
  <2>1. /\ state[c] = "forked" /\ kind[c] = "do_exec_redirect" /\ Exit(c, "nonzero")
        /\ \/ faulty' = faulty \cup {c}
           \/ ~Privileged /\ file # "absent" /\ faulty' = faulty
    BY <1>3 DEF open_fails, MayOpen
  <2>2. /\ Past' /\ Childless' /\ Creator' /\ FalseMeansFailure' /\ NoChildLeft'
        /\ (unwaited \subseteq faulty)'
    BY <2>1
  <2>3. c \notin faulty' /\ ~WasStopped(c) => Refused(c)
    BY <2>1, UndisturbedIsLast DEF Refused
  <2>4. EndedRan'
    BY <2>1, <2>3 DEF Refused
  <2>5. QED
    BY <1>1, <2>2, <2>4
<1>4. CASE execv(c)
  BY <1>1, <1>4 DEF execv, Refused
<1>5. CASE execv_fails(c)
  BY <1>1, <1>5 DEF execv_fails, Refused
<1>6. CASE command_exits(c)
  BY <1>1, <1>6 DEF command_exits, Refused
<1>7. CASE sigstop(c)
  BY <1>1, <1>7 DEF sigstop, Refused
<1>8. CASE sigcont(c)
  BY <1>1, <1>8 DEF sigcont, Refused
<1>9. CASE sigkill(c)
  BY <1>1, <1>9 DEF sigkill, Refused
<1>10. QED
  BY <1>2, <1>3, <1>4, <1>5, <1>6, <1>7, <1>8, <1>9 DEF childcode, signals

LEMMA NextFate == FateInv /\ [Next]_vars => FateInv'
<1> SUFFICES ASSUME FateInv, [Next]_vars
             PROVE  FateInv'
  OBVIOUS
<1>1. CallInv'
  BY NextHolds DEF FateInv
<1>2. CASE UNCHANGED vars
  BY <1>1, <1>2 DEF vars, caller, FateInv, Past, Childless, Creator, AtStart, EndedRan,
     Refused, FalseMeansFailure, NoChildLeft, MayBeLeft, WasStopped
<1>3. CASE Next
  BY <1>2, <1>3, ParentFate, ChildFate DEF Next, Over
<1>4. QED
  BY <1>2, <1>3

LEMMA FateInvariant == Spec => []FateInv
BY InitFate, NextFate, PTL DEF Spec

\* False for a command that succeeds means that waitpid failed or, in do_exec
\* and do_exec_redirect, that the child was stopped.
THEOREM FalseHasReason == Spec => []FalseMeansFailure
<1>1. FateInv => FalseMeansFailure
  BY DEF FateInv
<1>2. QED
  BY <1>1, FateInvariant, PTL

\* A child outlives its call only if waitpid failed or, in do_exec and
\* do_exec_redirect, the child was stopped: a failed open or execv, a child that
\* is killed and a stop in system() leave no child.
THEOREM ChildrenAreReaped == Spec => []NoChildLeft
<1>1. FateInv => NoChildLeft
  BY DEF FateInv
<1>2. QED
  BY <1>1, FateInvariant, PTL

\* A call that nothing disturbs executes its command, unless the mode of the
\* file that the child of an earlier call has made is in its way.
THEOREM CommandsAreExecuted == Spec => []CommandIsExecuted
<1>1. FateInv => CommandIsExecuted
  BY DEF FateInv, CallInv, Childless, EndedRan, Refused, NoChildLeft, MayBeLeft,
     CommandIsExecuted
<1>2. QED
  BY <1>1, FateInvariant, PTL
=============================================================================
