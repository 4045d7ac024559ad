---------------------------- MODULE ChildHandle -----------------------------
(***************************************************************************)
(* What a handle on a restartable child process promises its users: a     *)
(* child is launched, its end is observed once, and only that observation  *)
(* sets the status.  Abstract specification of class PipedProcess          *)
(* (include/topo/Platform/Process.h).                                      *)
(***************************************************************************)
EXTENDS Integers

CONSTANT Codes       \* statuses a child may end with by itself

VARIABLES phase,     \* "idle", "running" or "ended"
          status     \* what exitCode() returns

vars == <<phase, status>>

Init == phase = "idle" /\ status = -1

Launch ==
  /\ phase = "idle"
  /\ phase' = "running"
  /\ UNCHANGED status

\* The end of the running child is observed, by stop() or by isRunning().
Observe ==
  /\ phase = "running"
  /\ phase' = "ended"
  /\ status' \in Codes \cup {-1}

\* A new start() begins; the last status stays readable.
Discard ==
  /\ phase = "ended"
  /\ phase' = "idle"
  /\ UNCHANGED status

Next == Launch \/ Observe \/ Discard
Spec == Init /\ [][Next]_vars
=============================================================================
