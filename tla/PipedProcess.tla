---------------------------- MODULE PipedProcess ----------------------------
(***************************************************************************)
(* A long-lived child process with stdin/stdout pipes, used by several     *)
(* threads at once: class PipedProcess (lib/Platform/Process.cpp, POSIX    *)
(* branch, over reproc).                                                   *)
(*                                                                         *)
(* An object owns a slot in a global table that points at its current      *)
(* impl.  Every start() puts a fresh impl there, so an impl is identified  *)
(* here by the number of the start() that made it.  A method first takes   *)
(* the slot's impl (findImpl), tests the atomic flag "started" and then    *)
(* works on that impl; stop() and isRunning() serialise on its ctlMutex    *)
(* and test "started" again once they hold it.  A blocking read or write   *)
(* holds no lock.                                                          *)
(***************************************************************************)
EXTENDS Integers

CONSTANTS
  Control,      \* threads that call stop() and isRunning()
  Owner,        \* the one of them that also starts the child and feeds it
  Reader,       \* the thread that loops in read()
  MaxStarts,    \* bound: number of start() calls
  MaxCalls,     \* bound: calls per control thread
  PipeCap,      \* bytes a pipe buffers before its writer blocks
  Codes,        \* exit statuses a child may end with by itself
  Descendants,  \* may a child leave a process that keeps its stdout open?
  Free          \* a mutex nobody holds

ASSUME ConstantsAssumption ==
  /\ Owner \in Control
  /\ Reader \notin Control
  /\ Free \notin Control
  /\ MaxStarts \in Nat /\ MaxCalls \in Nat
  /\ PipeCap \in Nat \ {0}
  /\ Codes \subseteq Nat
  /\ Descendants \in BOOLEAN

VARIABLES
  slot,         \* the current impl, 0 before the first start()
  started,      \* impl -> the atomic flag
  stdinClosed,  \* impl -> the atomic flag
  ctlMutex,     \* impl -> the control thread holding it, or Free
  exitStatus,   \* the object's exitStatus_
  child,        \* impl -> "none", "alive", "exited" (by itself), "killed"
  code,         \* impl -> status the child ended with by itself
  held,         \* impl -> a descendant keeps the stdout pipe open
  inp,          \* impl -> bytes buffered in the stdin pipe
  out,          \* impl -> bytes buffered in the stdout pipe
  seen,         \* impl -> how its end was first observed (history)
  pc,           \* thread -> where it is
  my,           \* thread -> the impl findImpl() gave it
  calls         \* control thread -> calls made so far

implVars  == <<started, stdinClosed, ctlMutex>>
childVars == <<child, code, held, inp, out>>
vars == <<slot, implVars, exitStatus, childVars, seen, pc, my, calls>>

Gens == 1..MaxStarts
Threads == Control \cup {Reader}

-----------------------------------------------------------------------------
Init ==
  /\ slot = 0
  /\ started = [g \in Gens |-> FALSE]
  /\ stdinClosed = [g \in Gens |-> FALSE]
  /\ ctlMutex = [g \in Gens |-> Free]
  /\ exitStatus = -1
  /\ child = [g \in Gens |-> "none"]
  /\ code = [g \in Gens |-> -1]
  /\ held = [g \in Gens |-> FALSE]
  /\ inp = [g \in Gens |-> 0]
  /\ out = [g \in Gens |-> 0]
  /\ seen = [g \in Gens |-> "no"]
  /\ pc = [t \in Threads |-> "idle"]
  /\ my = [t \in Threads |-> 0]
  /\ calls = [t \in Control |-> 0]

\* The slot holds an impl whose flag is up: what every method tests first.
SlotStarted == slot # 0 /\ started[slot]

\* Control thread t begins a call that continues at label l on the slot's
\* impl.  The class forbids any call that overlaps start().
Begin(t, l) ==
  /\ pc[t] = "idle"
  /\ pc[Owner] # "spawn"
  /\ calls[t] < MaxCalls
  /\ SlotStarted
  /\ pc' = [pc EXCEPT ![t] = l]
  /\ my' = [my EXCEPT ![t] = slot]
  /\ calls' = [calls EXCEPT ![t] = @ + 1]

Return(t) == pc' = [pc EXCEPT ![t] = "idle"]

(* ------------------------------ start() -------------------------------- *)
\* Mutant: start() does not refuse a second start.
MutStartClaim ==
  /\ \A t \in Control : pc[t] = "idle"
  /\ pc[Reader] # "reading"
  /\ slot < MaxStarts
  /\ slot' = slot + 1
  /\ pc' = [pc EXCEPT ![Owner] = "spawn", ![Reader] = "idle"]
  /\ UNCHANGED <<implVars, exitStatus, childVars, seen, my, calls>>

\* The slot step of start(), under the table's mutex: a second start() of a
\* started impl is refused, otherwise the slot gets a fresh impl.  A new
\* reader loop begins with the new child.
StartClaim ==
  /\ \A t \in Control : pc[t] = "idle"
  /\ pc[Reader] # "reading"
  /\ slot < MaxStarts
  /\ ~SlotStarted
  /\ slot' = slot + 1
  /\ pc' = [pc EXCEPT ![Owner] = "spawn", ![Reader] = "idle"]
  /\ UNCHANGED <<implVars, exitStatus, childVars, seen, my, calls>>

\* The spawn step, under the fresh impl's ctlMutex.  It may fail; the impl
\* then stays in the slot unstarted.
StartSpawn ==
  /\ pc[Owner] = "spawn"
  /\ ctlMutex[slot] = Free
  /\ \/ /\ child' = [child EXCEPT ![slot] = "alive"]
        /\ started' = [started EXCEPT ![slot] = TRUE]
     \/ UNCHANGED <<child, started>>
  /\ Return(Owner)
  /\ UNCHANGED <<slot, stdinClosed, ctlMutex, exitStatus, code, held, inp,
                 out, seen, my, calls>>

(* ------------------------- stop(), isRunning() ------------------------- *)
StopCall(t) ==
  /\ Begin(t, "stopLock")
  /\ UNCHANGED <<slot, implVars, exitStatus, childVars, seen>>

IsRunningCall(t) ==
  /\ Begin(t, "pollLock")
  /\ UNCHANGED <<slot, implVars, exitStatus, childVars, seen>>

\* Mutant: "started" is not tested again under the mutex.
MutLockNoRecheck(t, from, to) ==
  /\ pc[t] = from
  /\ ctlMutex[my[t]] = Free
  /\ ctlMutex' = [ctlMutex EXCEPT ![my[t]] = t]
  /\ pc' = [pc EXCEPT ![t] = to]
  /\ UNCHANGED <<slot, started, stdinClosed, exitStatus, childVars, seen, my,
                 calls>>

\* Lock ctlMutex and test "started" again: another control call may have
\* observed the end meanwhile, and then this one returns at once.
Lock(t, from, to) ==
  /\ pc[t] = from
  /\ ctlMutex[my[t]] = Free
  /\ IF started[my[t]]
     THEN /\ ctlMutex' = [ctlMutex EXCEPT ![my[t]] = t]
          /\ pc' = [pc EXCEPT ![t] = to]
     ELSE /\ Return(t)
          /\ UNCHANGED ctlMutex
  /\ UNCHANGED <<slot, started, stdinClosed, exitStatus, childVars, seen, my,
                 calls>>

StopLock(t) == Lock(t, "stopLock", "grace")
IsRunningLock(t) == Lock(t, "pollLock", "poll")

\* Mutant: the mutex stays locked on return.
MutFinish(t, st, how) ==
  /\ exitStatus' = st
  /\ started' = [started EXCEPT ![my[t]] = FALSE]
  /\ seen' = [seen EXCEPT ![my[t]] = IF @ = "no" THEN how ELSE @]
  /\ Return(t)
  /\ UNCHANGED <<slot, stdinClosed, ctlMutex, my, calls>>

\* The end of impl my[t] is recorded: exitStatus_ becomes st, the flag goes
\* down, the mutex is released, the call returns.
Finish(t, st, how) ==
  /\ exitStatus' = st
  /\ started' = [started EXCEPT ![my[t]] = FALSE]
  /\ ctlMutex' = [ctlMutex EXCEPT ![my[t]] = Free]
  /\ seen' = [seen EXCEPT ![my[t]] = IF @ = "no" THEN how ELSE @]
  /\ Return(t)
  /\ UNCHANGED <<slot, stdinClosed, my, calls>>

\* A wait on the child succeeds once it has ended and yields its own status.
WaitSucceeds(t) == child[my[t]] = "exited"

\* stop(): the child ended within the grace window.
GraceExit(t) ==
  /\ pc[t] = "grace"
  /\ WaitSucceeds(t)
  /\ Finish(t, code[my[t]], "own")
  /\ UNCHANGED childVars

\* stop(): the grace wait timed out, or failed.
GraceTimeout(t) ==
  /\ pc[t] = "grace"
  /\ pc' = [pc EXCEPT ![t] = "term"]
  /\ UNCHANGED <<slot, implVars, exitStatus, childVars, seen, my, calls>>

\* The escalation: SIGTERM, which a child may survive ...
SigTerm(t) ==
  /\ pc[t] = "term"
  /\ \/ /\ child[my[t]] = "alive"
        /\ child' = [child EXCEPT ![my[t]] = "killed"]
     \/ UNCHANGED child
  /\ pc' = [pc EXCEPT ![t] = "kill"]
  /\ UNCHANGED <<slot, implVars, exitStatus, code, held, inp, out, seen, my,
                 calls>>

\* ... then SIGKILL, which it does not.  The status of the kill is dropped.
SigKill(t) ==
  /\ pc[t] = "kill"
  /\ child' = [child EXCEPT ![my[t]] = IF @ = "alive" THEN "killed" ELSE @]
  /\ Finish(t, -1, "forced")
  /\ UNCHANGED <<code, held, inp, out>>

\* isRunning(): the poll finds the child alive; nothing is recorded.
PollAlive(t) ==
  /\ pc[t] = "poll"
  /\ child[my[t]] = "alive"
  /\ ctlMutex' = [ctlMutex EXCEPT ![my[t]] = Free]
  /\ Return(t)
  /\ UNCHANGED <<slot, started, stdinClosed, exitStatus, childVars, seen, my,
                 calls>>

\* isRunning(): the poll reaps the child.
PollExit(t) ==
  /\ pc[t] = "poll"
  /\ WaitSucceeds(t)
  /\ Finish(t, code[my[t]], "own")
  /\ UNCHANGED childVars

\* isRunning(): the wait fails with something other than a timeout.
PollError(t) ==
  /\ pc[t] = "poll"
  /\ Finish(t, exitStatus, "error")
  /\ UNCHANGED childVars

(* ------------------- closeStdin(), write(), read() --------------------- *)
\* closeStdin() is lock-free and must not overlap a read.
CloseStdin ==
  /\ pc[Owner] = "idle" /\ pc[Reader] # "reading"
  /\ calls[Owner] < MaxCalls
  /\ SlotStarted /\ ~stdinClosed[slot]
  /\ stdinClosed' = [stdinClosed EXCEPT ![slot] = TRUE]
  /\ calls' = [calls EXCEPT ![Owner] = @ + 1]
  /\ UNCHANGED <<slot, started, ctlMutex, exitStatus, childVars, seen, pc, my>>

\* write(): refused when not started or after closeStdin(); else it blocks
\* while the stdin pipe is full and fails once the child is gone.
WriteCall ==
  /\ Begin(Owner, "writing")
  /\ ~stdinClosed[slot]
  /\ UNCHANGED <<slot, implVars, exitStatus, childVars, seen>>

WriteChunk ==
  /\ pc[Owner] = "writing"
  /\ child[my[Owner]] = "alive" /\ inp[my[Owner]] < PipeCap
  /\ inp' = [inp EXCEPT ![my[Owner]] = @ + 1]
  /\ Return(Owner)
  /\ UNCHANGED <<slot, implVars, exitStatus, child, code, held, out, seen, my,
                 calls>>

WriteFails ==
  /\ pc[Owner] = "writing"
  /\ child[my[Owner]] # "alive"
  /\ Return(Owner)
  /\ UNCHANGED <<slot, implVars, exitStatus, childVars, seen, my, calls>>

\* read() by the reader loop: the loop ends at the first 0 it is given.
ReadCall ==
  /\ pc[Reader] = "idle" /\ pc[Owner] # "spawn"
  /\ SlotStarted
  /\ pc' = [pc EXCEPT ![Reader] = "reading"]
  /\ my' = [my EXCEPT ![Reader] = slot]
  /\ UNCHANGED <<slot, implVars, exitStatus, childVars, seen, calls>>

\* The early return of read(): the impl is no longer started.
ReadRefused ==
  /\ pc[Reader] = "idle" /\ pc[Owner] # "spawn"
  /\ slot # 0 /\ ~started[slot]
  /\ pc' = [pc EXCEPT ![Reader] = "done"]
  /\ my' = [my EXCEPT ![Reader] = slot]
  /\ UNCHANGED <<slot, implVars, exitStatus, childVars, seen, calls>>

ReadData ==
  /\ pc[Reader] = "reading"
  /\ out[my[Reader]] > 0
  /\ out' = [out EXCEPT ![my[Reader]] = @ - 1]
  /\ Return(Reader)
  /\ UNCHANGED <<slot, implVars, exitStatus, child, code, held, inp, seen, my,
                 calls>>

\* End of file: nothing buffered and no process holds the write end.
ReadEof ==
  /\ pc[Reader] = "reading"
  /\ out[my[Reader]] = 0
  /\ child[my[Reader]] # "alive" /\ ~held[my[Reader]]
  /\ pc' = [pc EXCEPT ![Reader] = "done"]
  /\ UNCHANGED <<slot, implVars, exitStatus, childVars, seen, my, calls>>

(* ------------------------------ the child ------------------------------ *)
ChildReads(g) ==
  /\ child[g] = "alive" /\ inp[g] > 0
  /\ inp' = [inp EXCEPT ![g] = @ - 1]
  /\ UNCHANGED <<slot, implVars, exitStatus, child, code, held, out, seen, pc,
                 my, calls>>

ChildWrites(g) ==
  /\ child[g] = "alive" /\ out[g] < PipeCap
  /\ out' = [out EXCEPT ![g] = @ + 1]
  /\ UNCHANGED <<slot, implVars, exitStatus, child, code, held, inp, seen, pc,
                 my, calls>>

ChildForks(g) ==
  /\ Descendants
  /\ child[g] = "alive" /\ ~held[g]
  /\ held' = [held EXCEPT ![g] = TRUE]
  /\ UNCHANGED <<slot, implVars, exitStatus, child, code, inp, out, seen, pc,
                 my, calls>>

ChildExits(g) ==
  /\ child[g] = "alive"
  /\ \E c \in Codes : code' = [code EXCEPT ![g] = c]
  /\ child' = [child EXCEPT ![g] = "exited"]
  /\ UNCHANGED <<slot, implVars, exitStatus, held, inp, out, seen, pc, my,
                 calls>>

-----------------------------------------------------------------------------
ControlStep(t) ==
  \/ StopCall(t) \/ IsRunningCall(t)
  \/ StopLock(t) \/ IsRunningLock(t)
  \/ GraceExit(t) \/ GraceTimeout(t) \/ SigTerm(t) \/ SigKill(t)
  \/ PollAlive(t) \/ PollExit(t) \/ PollError(t)

OwnerStep ==
  \/ StartClaim \/ StartSpawn
  \/ CloseStdin \/ WriteCall \/ WriteChunk \/ WriteFails

ReaderStep == ReadCall \/ ReadRefused \/ ReadData \/ ReadEof
ChildStep(g) == ChildReads(g) \/ ChildWrites(g) \/ ChildForks(g) \/ ChildExits(g)

Next ==
  \/ OwnerStep
  \/ \E t \in Control : ControlStep(t)
  \/ ReaderStep
  \/ \E g \in Gens : ChildStep(g)

\* A thread inside a call keeps running; nothing is assumed of the child,
\* nor that anyone makes another call.
Fairness ==
  /\ \A t \in Control : WF_vars(ControlStep(t) /\ pc[t] # "idle")
  /\ WF_vars((WriteChunk \/ WriteFails) /\ pc[Owner] # "idle")
  /\ WF_vars(ReadData \/ ReadEof)

Spec == Init /\ [][Next]_vars
FairSpec == Spec /\ Fairness

-----------------------------------------------------------------------------
\* Labels at which a control thread holds ctlMutex.
Critical == {"grace", "term", "kill", "poll"}
Inside == Critical \cup {"stopLock", "pollLock", "writing"}

TypeOK ==
  /\ slot \in 0..MaxStarts
  /\ started \in [Gens -> BOOLEAN]
  /\ stdinClosed \in [Gens -> BOOLEAN]
  /\ ctlMutex \in [Gens -> Control \cup {Free}]
  /\ exitStatus \in Codes \cup {-1}
  /\ child \in [Gens -> {"none", "alive", "exited", "killed"}]
  /\ code \in [Gens -> Codes \cup {-1}]
  /\ held \in [Gens -> BOOLEAN]
  /\ inp \in [Gens -> 0..PipeCap]
  /\ out \in [Gens -> 0..PipeCap]
  /\ seen \in [Gens -> {"no", "own", "forced", "error"}]
  /\ pc \in [Threads -> Inside \cup {"idle", "spawn", "reading", "done"}]
  /\ my \in [Threads -> 0..MaxStarts]
  /\ calls \in [Control -> 0..MaxCalls]

\* stop()'s escalation and isRunning()'s poll never run at the same time on
\* one process handle (Process.cpp:1121-1127, 1382-1388, 1445-1448).
MutualExclusion ==
  \A t, u \in Control :
    pc[t] \in Critical /\ pc[u] \in Critical /\ my[t] = my[u] => t = u

\* The contract of exitCode() (Process.h): once the end of the current child
\* was observed, the status is the child's own if it ended by itself, and -1
\* if stop() had to kill it, no matter which thread observed it and how many
\* control calls raced for it or came after.
ExitCodeContract ==
  slot # 0 => /\ seen[slot] = "own" => exitStatus = code[slot]
              /\ seen[slot] = "forced" => exitStatus = -1

\* No running child is ever lost: a live child is the one in the slot and its
\* flag is up, so some later stop() reaches it -- across restarts, racing
\* control calls and forced kills (Process.cpp:1177, 1378-1440).  The one
\* exception is a poll whose wait failed, which gives the child up.
NoLostChild ==
  \A g \in Gens :
    child[g] = "alive" => (g = slot /\ started[g]) \/ seen[g] = "error"

\* "stop() can always interrupt a stalled reader" (Process.cpp:1125-1127): every
\* stop() returns, whatever the child does and whoever else polls, and a reader
\* blocked on an impl that was stopped gets loose, unless a descendant of the
\* child still holds the pipe.
StopReturns ==
  /\ \A t \in Control : pc[t] = "stopLock" ~> pc[t] = "idle"
  /\ pc[Reader] = "reading" /\ seen[my[Reader]] \in {"own", "forced"}
       ~> pc[Reader] # "reading" \/ held[my[Reader]]

\* "Returns number of bytes actually read, or 0 on EOF/error" (Process.h): when
\* the reader loop ends at a 0 although nothing went wrong, the output of the
\* child that ended by itself was all read.
ZeroReadMeansEof ==
  pc[Reader] = "done" /\ seen[my[Reader]] = "own" => out[my[Reader]] = 0

-----------------------------------------------------------------------------
\* The object as its users see it: before a child, running, or ended.
Phase == IF SlotStarted THEN "running"
         ELSE IF slot # 0 /\ seen[slot] # "no" THEN "ended" ELSE "idle"

Handle == INSTANCE ChildHandle WITH phase <- Phase, status <- exitStatus

\* The object implements the one-shot handle of ChildHandle: over any number
\* of launches and racing control calls, exitCode() changes only in the step
\* that first observes the end of the launched child (Process.h, exitCode()).
HandleSpec == Handle!Spec
=============================================================================
