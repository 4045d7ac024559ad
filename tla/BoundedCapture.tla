--------------------------- MODULE BoundedCapture ---------------------------
(***************************************************************************)
(* One bounded capture of a tool (runBoundedCapture and ContainedCapture,  *)
(* lib/Platform/Process.cpp, POSIX branch): the tool runs in a process     *)
(* group of its own, both output pipes are polled without blocking, and    *)
(* the capture ends when the leader exits, a stream exceeds its limit, a   *)
(* call fails or the deadline passes.  The group is then killed, the       *)
(* leader reaped, and what is still in the pipes is drained.               *)
(*                                                                         *)
(* The tool is external: it writes, forks a child that stays in the group  *)
(* (kin) or leaves it (escaped), and exits, all at any moment.  SIGKILL is *)
(* not instant: a descendant that was sent one may still end a write.  A   *)
(* byte is represented by who wrote it.                                    *)
(***************************************************************************)
EXTENDS Integers, Sequences, FiniteSets

CONSTANTS
  MaxStdout, MaxStderr,   \* limits.maxStdoutBytes, limits.maxStderrBytes
  BufSize,                \* bytes one read returns at most
  PipeBytes,                \* bytes a pipe holds before its writer blocks
  MaxWrites,              \* bound: bytes the leader writes to a stream
  Statuses,                  \* exit statuses of the leader
  CallsFail               \* may reads, waits and kills fail?

ASSUME CaptureAssumption ==
  /\ MaxStdout \in Nat /\ MaxStderr \in Nat /\ MaxWrites \in Nat
  /\ BufSize \in Nat \ {0} /\ PipeBytes \in Nat \ {0}
  /\ Statuses \subseteq Nat
  /\ CallsFail \in BOOLEAN

VARIABLES
  cpc,         \* where the capture is
  final,      \* the pipes are drained for the last time
  progress,   \* this round of reads returned bytes
  late,       \* the deadline has passed
  exitCode, failure,    \* the result
  kept,       \* stream -> the bytes retained in the result
  eof,        \* stream -> end of file was read
  pipe,       \* stream -> the bytes in its pipe
  wrote,      \* stream -> bytes the leader wrote (history)
  leader,     \* "none", "alive", "exited", "killed" or "reaped"
  status,       \* status the leader exited with
  kin, escaped     \* "none", "alive", "killed" (signalled, not yet dead) or "dead"

captured == <<exitCode, failure, kept, eof>>
tool == <<pipe, wrote, leader, status, kin, escaped>>
captureVars == <<cpc, final, progress, late, captured, tool>>

Streams == {"out", "err"}
Limit(s) == IF s = "out" THEN MaxStdout ELSE MaxStderr

-----------------------------------------------------------------------------
CaptureInit ==
  /\ cpc = "start" /\ final = FALSE /\ progress = FALSE /\ late = FALSE
  /\ exitCode = -1 /\ failure = "None"
  /\ kept = [s \in Streams |-> <<>>]
  /\ eof = [s \in Streams |-> FALSE]
  /\ pipe = [s \in Streams |-> <<>>]
  /\ wrote = [s \in Streams |-> 0]
  /\ leader = "none" /\ status = -1 /\ kin = "none" /\ escaped = "none"

\* Mutant: a failure keeps the exit status that was observed.
MutCaptureFailure(f) ==
  /\ failure' = f
  /\ UNCHANGED exitCode

\* captureFailure(): a failure always comes with exit status -1.
CaptureFailure(f) ==
  /\ exitCode' = -1
  /\ failure' = f

\* Bad limits or environment, or the tool cannot be staged and spawned.
Refuse ==
  /\ cpc = "start"
  /\ \E f \in {"InvalidLimits", "StartFailed"} : CaptureFailure(f)
  /\ cpc' = "done"
  /\ UNCHANGED <<final, progress, late, kept, eof, tool>>

\* The tool starts as the leader of a fresh process group.
Start ==
  /\ cpc = "start"
  /\ leader' = "alive"
  /\ cpc' = "out"
  /\ UNCHANGED <<final, progress, late, captured, pipe, wrote, status, kin, escaped>>

(* ------------------------------ drainOnce ------------------------------ *)
\* Some process, one that is dying too, still holds the write end of the pipes.
Writers == {"alive", "killed"} \cap {leader, kin, escaped} # {}

\* After this stream: the other one, then the test that ends the round.
AfterRead(s) == IF s = "out" THEN "err" ELSE IF final THEN "again" ELSE "exited"

\* Nothing was read: end of file, or no bytes at the moment.
ReadNothing(s) ==
  /\ cpc = s
  /\ eof[s] \/ pipe[s] = <<>>
  /\ eof' = [eof EXCEPT ![s] = @ \/ ~Writers]
  /\ cpc' = AfterRead(s)
  /\ UNCHANGED <<final, progress, late, exitCode, failure, kept, tool>>

\* appendBounded(): of n bytes read from s, how many fit within the limit.
AppendBounded(s, n) ==
  LET room == Limit(s) - Len(kept[s]) IN IF n < room THEN n ELSE room

\* Up to BufSize bytes are read and appended within the limit; the first
\* byte beyond it fails the capture.
TakeBytes(s) ==
  /\ cpc = s
  /\ ~eof[s] /\ pipe[s] # <<>>
  /\ LET n == IF Len(pipe[s]) < BufSize THEN Len(pipe[s]) ELSE BufSize
         k == AppendBounded(s, n)
     IN /\ pipe' = [pipe EXCEPT ![s] = SubSeq(@, n + 1, Len(@))]
        /\ kept' = [kept EXCEPT ![s] = @ \o SubSeq(pipe[s], 1, k)]
        /\ IF k = n
           THEN /\ cpc' = AfterRead(s)
                /\ UNCHANGED <<exitCode, failure>>
           ELSE /\ CaptureFailure("OutputLimitExceeded")
                /\ cpc' = IF final THEN "done" ELSE "kill"
  /\ progress' = TRUE
  /\ UNCHANGED <<final, late, eof, wrote, leader, status, kin, escaped>>

CaptureReadFails(s) ==
  /\ CallsFail
  /\ cpc = s /\ ~eof[s]
  /\ CaptureFailure("IoError")
  /\ cpc' = IF final THEN "done" ELSE "kill"
  /\ UNCHANGED <<final, progress, late, kept, eof, tool>>

(* ------------------------------- the loop ------------------------------ *)
\* waitid() without reaping sees the leader's exit: its status is the result.
ExitObserved ==
  /\ cpc = "exited"
  /\ leader = "exited"
  /\ exitCode' = status
  /\ cpc' = "kill"
  /\ UNCHANGED <<final, progress, late, failure, kept, eof, tool>>

ExitUnknown ==
  /\ CallsFail
  /\ cpc = "exited"
  /\ CaptureFailure("IoError")
  /\ cpc' = "kill"
  /\ UNCHANGED <<final, progress, late, kept, eof, tool>>

\* Still running: time out, or go round again.
NotExited ==
  /\ cpc = "exited"
  /\ leader = "alive"
  /\ cpc' = "deadline"
  /\ UNCHANGED <<final, progress, late, captured, tool>>

TestDeadline ==
  /\ cpc = "deadline"
  /\ IF late THEN CaptureFailure("TimedOut") /\ cpc' = "kill"
             ELSE cpc' = "out" /\ UNCHANGED <<exitCode, failure>>
  /\ progress' = FALSE
  /\ UNCHANGED <<final, late, kept, eof, tool>>

DeadlinePasses ==
  /\ ~late
  /\ late' = TRUE
  /\ UNCHANGED <<cpc, final, progress, captured, tool>>

(* -------------------------------- stop() ------------------------------- *)
\* Mutant: only the leader is signalled.
MutKillGroup ==
  /\ cpc = "kill"
  /\ leader' = IF leader = "alive" THEN "killed" ELSE leader
  /\ cpc' = "reap"
  /\ UNCHANGED <<final, progress, late, captured, pipe, wrote, status, kin, escaped>>

\* A member of the group after kill(-child, SIGKILL).
Signalled(m) == IF m = "alive" THEN "killed" ELSE m

\* SIGKILL to the whole group: the leader and every descendant still in it.
KillGroup ==
  /\ cpc = "kill"
  /\ leader' = Signalled(leader)
  /\ kin' = Signalled(kin)
  /\ cpc' = "reap"
  /\ UNCHANGED <<final, progress, late, captured, pipe, wrote, status, escaped>>

\* The leader is reaped within the cleanup deadline; descendants are no children
\* of the caller, and nobody waits for them.  A capture that has not failed
\* drains the pipes once more.
Reap ==
  /\ cpc = "reap"
  /\ leader' = "reaped"
  /\ final' = TRUE /\ progress' = FALSE
  /\ cpc' = IF failure = "None" THEN "out" ELSE "done"
  /\ UNCHANGED <<late, captured, pipe, wrote, status, kin, escaped>>

StopFails ==
  /\ CallsFail
  /\ cpc \in {"kill", "reap"}
  /\ CaptureFailure("CleanupFailed")
  /\ cpc' = "destroy"
  /\ UNCHANGED <<final, progress, late, kept, eof, tool>>

\* The destructor of a capture whose child was not reaped: the group is
\* signalled once more and the leader reaped if it is dead already.
DestroyCapture ==
  /\ cpc = "destroy"
  /\ leader' \in {leader, Signalled(leader), "reaped"}
  /\ kin' \in {kin, Signalled(kin)}
  /\ cpc' = "done"
  /\ UNCHANGED <<final, progress, late, captured, pipe, wrote, status, escaped>>

\* Mutant: the last drain goes on to end of file.
MutDrainAgain ==
  /\ cpc = "again"
  /\ cpc' = IF \A s \in Streams : eof[s] THEN "done" ELSE "out"
  /\ progress' = FALSE
  /\ UNCHANGED <<final, late, captured, tool>>

\* The last drain ends with the first round that brought nothing: it does
\* not wait for an end of file that an escaped descendant holds back.
DrainAgain ==
  /\ cpc = "again"
  /\ cpc' = IF progress THEN "out" ELSE "done"
  /\ progress' = FALSE
  /\ UNCHANGED <<final, late, captured, tool>>

(* ------------------------------- the tool ------------------------------ *)
Append1(s, who) == pipe' = [pipe EXCEPT ![s] = Append(@, who)]

LeaderWrites(s) ==
  /\ leader = "alive"
  /\ Len(pipe[s]) < PipeBytes /\ wrote[s] < MaxWrites
  /\ Append1(s, "leader")
  /\ wrote' = [wrote EXCEPT ![s] = @ + 1]
  /\ UNCHANGED <<cpc, final, progress, late, captured, leader, status, kin, escaped>>

OtherWrites(s) ==
  /\ {"alive", "killed"} \cap {kin, escaped} # {}
  /\ Len(pipe[s]) < PipeBytes
  /\ Append1(s, "other")
  /\ UNCHANGED <<cpc, final, progress, late, captured, wrote, leader, status, kin, escaped>>

Forks ==
  /\ "alive" \in {leader, kin}
  /\ \/ kin = "none" /\ kin' = "alive" /\ UNCHANGED escaped
     \/ escaped = "none" /\ escaped' = "alive" /\ UNCHANGED kin
  /\ UNCHANGED <<cpc, final, progress, late, captured, pipe, wrote, leader, status>>

LeaderExits ==
  /\ leader = "alive"
  /\ leader' = "exited"
  /\ status' \in Statuses
  /\ UNCHANGED <<cpc, final, progress, late, captured, pipe, wrote, kin, escaped>>

OtherExits ==
  /\ \/ kin \in {"alive", "killed"} /\ kin' = "dead" /\ UNCHANGED escaped
     \/ escaped = "alive" /\ escaped' = "dead" /\ UNCHANGED kin
  /\ UNCHANGED <<cpc, final, progress, late, captured, pipe, wrote, leader, status>>

-----------------------------------------------------------------------------
Capture ==
  \/ Refuse \/ Start
  \/ \E s \in Streams : ReadNothing(s) \/ TakeBytes(s) \/ CaptureReadFails(s)
  \/ ExitObserved \/ ExitUnknown \/ NotExited \/ TestDeadline
  \/ KillGroup \/ Reap \/ StopFails \/ DestroyCapture \/ DrainAgain

Tool ==
  \/ \E s \in Streams : LeaderWrites(s) \/ OtherWrites(s)
  \/ Forks \/ LeaderExits \/ OtherExits

CaptureNext == Capture \/ DeadlinePasses \/ Tool

\* The capturing thread keeps running and time passes; nothing is assumed of
\* the tool and its descendants.
CaptureFairness == WF_captureVars(Capture) /\ WF_captureVars(DeadlinePasses)

CaptureSpec == CaptureInit /\ [][CaptureNext]_captureVars
FairCaptureSpec == CaptureSpec /\ CaptureFairness

-----------------------------------------------------------------------------
\* Unless the cleanup itself failed, a call returns with the leader reaped and
\* with nobody in its group that was not sent a SIGKILL, also when the leader
\* exited first.  "All normal descendants are terminated before returning"
\* (Process.h:86) says a little more: stop() waits for the leader alone
\* (Process.cpp:888-924), and a descendant may still be dying on return.
NoneLeft ==
  cpc = "done" /\ failure # "CleanupFailed" =>
    leader \in {"none", "reaped"} /\ kin # "alive"

\* The bytes of q the leader wrote, by their places.
FromLeader(q) == {i \in DOMAIN q : q[i] = "leader"}

\* "A limit, timeout, spawn/I/O or cleanup failure sets exitCode=-1 ... Normal
\* tool failures retain the child's exit code and failure=None" (Process.h:83),
\* also when the failure comes after the exit was observed; and a capture that
\* did not fail holds every byte the leader wrote before it exited, whatever
\* descendants wrote in between (Process.cpp:1019-1022).
ResultContract ==
  cpc = "done" =>
    IF failure # "None" THEN exitCode = -1
    ELSE /\ leader = "reaped" /\ exitCode = status
         /\ \A s \in Streams : Cardinality(FromLeader(kept[s])) = wrote[s]

\* The capture returns: no silent, flooding or escaping tool keeps it.
Returns == cpc # "idle" => <>(cpc = "done")
=============================================================================
