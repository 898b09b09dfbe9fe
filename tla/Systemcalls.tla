----------------------------- MODULE Systemcalls -----------------------------
(***************************************************************************)
(* examples/systemcalls: do_system, do_exec and do_exec_redirect, called   *)
(* one after the other by one process.  Each forks a child that runs our   *)
(* code until it has executed the command, while the parent waits; others  *)
(* may stop, continue and kill the child.  A child that its call does not  *)
(* wait for to the end outlives the call.                                  *)
(***************************************************************************)
EXTENDS Integers

CONSTANTS
  MaxCalls,    \* bound on the number of calls
  MaxStops,    \* bound on the signals that stop a child
  Faults,      \* fork, waitpid, execv and open may fail, a child may be killed
  Privileged   \* the process may write files against their mode

ASSUME SystemcallsAssumption ==
  MaxCalls \in Nat /\ MaxStops \in Nat /\ Faults \in BOOLEAN /\ Privileged \in BOOLEAN

VARIABLES
  pc,      \* the parent: in its own code or in waitpid
  n,       \* the number of the last call, and of its child
  kind,    \* which function each call is of
  result,  \* what it returned
  state,   \* where the child of each call is
  resume,  \* where it was when it was stopped
  ran,     \* the calls whose child has executed the command
  status,  \* how the child ended
  stdout,  \* where its output goes
  file,    \* outputfile
  stops,   \* how often a child was stopped
  faulty,  \* history: the calls of which a system call was made to fail, or
           \*   the child killed
  unwaited \* history: those of which it was waitpid

caller == <<pc, n, kind, result>>
vars == <<caller, state, resume, ran, status, stdout, file, stops, faulty, unwaited>>

Calls == 1 .. MaxCalls
Kinds == {"do_system", "do_exec", "do_exec_redirect"}

Init ==
  /\ pc = "user" /\ n = 0
  /\ kind = [c \in Calls |-> "none"]
  /\ result = [c \in Calls |-> "none"]
  /\ state = [c \in Calls |-> "none"] /\ resume = [c \in Calls |-> "none"]
  /\ ran = {} /\ status = [c \in Calls |-> "none"]
  /\ stdout = [c \in Calls |-> "inherited"]
  /\ file = "absent" /\ stops = 0
  /\ faulty = {} /\ unwaited = {}
-----------------------------------------------------------------------------
(* The parent.                                                             *)

Call(k) ==
  /\ pc = "user" /\ n < MaxCalls
  /\ n' = n + 1
  /\ kind' = [kind EXCEPT ![n'] = k]

fork(k) ==
  /\ Call(k)
  /\ state' = [state EXCEPT ![n'] = "forked"]
  /\ pc' = "wait"
  /\ UNCHANGED <<result, resume, ran, status, stdout, file, stops, faulty, unwaited>>

fork_fails(k) ==
  /\ Faults
  /\ Call(k)
  /\ result' = [result EXCEPT ![n'] = "false"]
  /\ faulty' = faulty \cup {n'}
  /\ UNCHANGED <<pc, state, resume, ran, status, stdout, file, stops, unwaited>>

Return(value) ==
  /\ pc = "wait" /\ pc' = "user"
  /\ result' = [result EXCEPT ![n] = value]
  /\ UNCHANGED <<n, kind, resume, ran, status, stdout, file, stops>>

\* Mutant: the exit status is not looked at.
MutWaitIgnoresStatus ==
  /\ state[n] = "zombie"
  /\ state' = [state EXCEPT ![n] = "reaped"]
  /\ Return(IF status[n] = "signal" THEN "false" ELSE "true")
  /\ UNCHANGED <<faulty, unwaited>>

\* Mutant: waitpid with WNOHANG.
MutWaitNoHang ==
  /\ Return("false")
  /\ UNCHANGED <<state, faulty, unwaited>>

\* waitpid reports the end of the child.
waitpid ==
  /\ state[n] = "zombie"
  /\ state' = [state EXCEPT ![n] = "reaped"]
  /\ Return(IF status[n] = "0" THEN "true" ELSE "false")
  /\ UNCHANGED <<faulty, unwaited>>

\* Mutant: without WUNTRACED.
MutWaitUntilEnd == FALSE /\ Return("false") /\ UNCHANGED <<state, faulty, unwaited>>

\* WUNTRACED, not in system(): waitpid reports a child that is stopped.
waitpid_stopped ==
  /\ kind[n] # "do_system"
  /\ state[n] = "stopped"
  /\ Return("false")
  /\ UNCHANGED <<state, faulty, unwaited>>

waitpid_fails ==
  /\ Faults
  /\ Return("false")
  /\ faulty' = faulty \cup {n} /\ unwaited' = unwaited \cup {n}
  /\ UNCHANGED state

parent == n > 0 /\ (waitpid \/ waitpid_stopped \/ waitpid_fails)
-----------------------------------------------------------------------------
(* A child.                                                                *)

Exit(c, code) ==
  /\ state' = [state EXCEPT ![c] = "zombie"]
  /\ status' = [status EXCEPT ![c] = code]
  /\ UNCHANGED <<caller, resume, ran, stdout, file, stops, unwaited>>

\* Mutant: without O_CREAT.
MutMayOpenNoCreate == file # "absent" /\ Privileged

\* O_WRONLY | O_CREAT | O_TRUNC.  The mode of a new file is 0x660, octal 3140,
\* which lets its owner execute it and nothing else.
MayOpen == file = "absent" \/ Privileged

redirect(c) ==
  /\ kind[c] = "do_exec_redirect" /\ state[c] = "forked"
  /\ MayOpen
  /\ state' = [state EXCEPT ![c] = "redirected"]
  /\ stdout' = [stdout EXCEPT ![c] = "file"]
  /\ file' = "0x660"
  /\ UNCHANGED <<caller, resume, ran, status, stops, faulty, unwaited>>

open_fails(c) ==
  /\ kind[c] = "do_exec_redirect" /\ state[c] = "forked"
  /\ \/ Faults /\ faulty' = faulty \cup {c}
     \/ ~MayOpen /\ UNCHANGED faulty
  /\ Exit(c, "nonzero")

BeforeExec(c) ==
  state[c] = IF kind[c] = "do_exec_redirect" THEN "redirected" ELSE "forked"

execv(c) ==
  /\ BeforeExec(c)
  /\ state' = [state EXCEPT ![c] = "command"]
  /\ ran' = ran \cup {c}
  /\ UNCHANGED <<caller, resume, status, stdout, file, stops, faulty, unwaited>>

\* exit( EXIT_FAILURE ), and 127 in the shell of system().
execv_fails(c) ==
  /\ Faults
  /\ BeforeExec(c)
  /\ Exit(c, "nonzero")
  /\ faulty' = faulty \cup {c}

\* The command ends with an exit status of its own.
command_exits(c) ==
  /\ state[c] = "command"
  /\ \E code \in {"0", "nonzero"} : Exit(c, code)
  /\ UNCHANGED faulty

childcode(c) ==
  redirect(c) \/ open_fails(c) \/ execv(c) \/ execv_fails(c) \/ command_exits(c)
-----------------------------------------------------------------------------
(* Signals from elsewhere.                                                 *)

Runs(c) == state[c] \in {"forked", "redirected", "command"}

sigstop(c) ==
  /\ Runs(c) /\ stops < MaxStops
  /\ state' = [state EXCEPT ![c] = "stopped"]
  /\ resume' = [resume EXCEPT ![c] = state[c]]
  /\ stops' = stops + 1
  /\ UNCHANGED <<caller, ran, status, stdout, file, faulty, unwaited>>

sigcont(c) ==
  /\ state[c] = "stopped"
  /\ state' = [state EXCEPT ![c] = resume[c]]
  /\ UNCHANGED <<caller, resume, ran, status, stdout, file, stops, faulty, unwaited>>

sigkill(c) ==
  /\ Faults
  /\ Runs(c) \/ state[c] = "stopped"
  /\ Exit(c, "signal")
  /\ faulty' = faulty \cup {c}

signals(c) == sigstop(c) \/ sigcont(c) \/ sigkill(c)

\* The caller makes no more calls.
Over == pc = "user" /\ n = MaxCalls /\ UNCHANGED vars

Next ==
  \/ \E k \in Kinds : fork(k) \/ fork_fails(k)
  \/ parent
  \/ \E c \in Calls : childcode(c) \/ signals(c)
  \/ Over

Spec == Init /\ [][Next]_vars

\* Processes run, and commands end; that waitpid fails is nothing to rely on.
FairSpec ==
  /\ Spec /\ WF_vars(n > 0 /\ (waitpid \/ waitpid_stopped))
  /\ \A c \in Calls : WF_vars(childcode(c))
-----------------------------------------------------------------------------
TypeOK ==
  /\ pc \in {"user", "wait"} /\ n \in 0 .. MaxCalls
  /\ kind \in [Calls -> Kinds \cup {"none"}]
  /\ result \in [Calls -> {"none", "true", "false"}]
  /\ state \in [Calls -> {"none", "forked", "redirected", "command", "stopped", "zombie",
                          "reaped"}]
  /\ resume \in [Calls -> {"none", "forked", "redirected", "command"}]
  /\ ran \in SUBSET Calls
  /\ status \in [Calls -> {"none", "0", "nonzero", "signal"}]
  /\ stdout \in [Calls -> {"inherited", "file"}]
  /\ file \in {"absent", "0x660"} /\ stops \in 0 .. MaxStops
  /\ faulty \in SUBSET Calls /\ unwaited \in SUBSET Calls

\* True is returned only if the command was executed, in the child, with its
\* output in outputfile if one was given, ended with status 0, and left no
\* zombie -- whatever failed, stopped or was killed on the way.
TrueMeansSuccess ==
  \A c \in Calls : result[c] = "true" =>
    /\ c \in ran /\ status[c] = "0" /\ state[c] = "reaped"
    /\ kind[c] = "do_exec_redirect" => stdout[c] = "file" /\ file # "absent"

\* The child of c was stopped at some time.
WasStopped(c) == resume[c] # "none"

\* The child of c may outlive its call: waitpid failed, or it could report that
\* the child is stopped (WUNTRACED; system() does not ask for that).
MayBeLeft(c) == c \in unwaited \/ (kind[c] # "do_system" /\ WasStopped(c))

\* False is returned for a command that ends with status 0, then or after the
\* call, only if waitpid failed or, in do_exec and do_exec_redirect, the child
\* was stopped: that counts as a failure, though the child runs on when it is
\* continued, and may succeed.
FalseMeansFailure ==
  \A c \in Calls : result[c] = "false" /\ status[c] = "0" => MayBeLeft(c)

\* A call leaves a child behind, as a zombie or still running, only if waitpid
\* failed or, in do_exec and do_exec_redirect, the child was stopped.  A failed
\* open or execv, a child that is killed, and a stop in system() leave none.
NoChildLeft ==
  \A c \in Calls :
    result[c] # "none" /\ state[c] \notin {"none", "reaped"} => MayBeLeft(c)

\* The command of a call that returned was executed, unless a system call was
\* made to fail, the child was killed or stopped -- or the child of an earlier
\* call has made the outputfile, whose mode then keeps even its owner from
\* opening it.
CommandIsExecuted ==
  \A c \in Calls : result[c] # "none" /\ c \notin faulty /\ ~WasStopped(c) =>
    \/ c \in ran
    \/ /\ ~Privileged /\ kind[c] = "do_exec_redirect"
       /\ \E d \in Calls : d < c /\ stdout[d] = "file"

\* A child that is stopped and never continued does not hold up do_exec or
\* do_exec_redirect.
ExecReturns ==
  pc = "wait" /\ kind[n] # "do_system" ~> pc = "user"
=============================================================================
