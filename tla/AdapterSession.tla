--------------------------- MODULE AdapterSession ---------------------------
(***************************************************************************)
(* One call of the debug adapter (buildEnvFromAdapter and drainAdapter,    *)
(* tools/topo-debug/main.cpp): the adapter is started, its records are     *)
(* read until the breakpoint and all variables have been reported, an      *)
(* environment is built of them, and the adapter is told to go on and is   *)
(* stopped.  A variable comes as a frame of bytes followed by its layout,  *)
(* or as a summary.                                                        *)
(*                                                                         *)
(* The adapter is external: it writes any record it likes, garbage         *)
(* included, or dies.  A step reads one record (readRecord); the data      *)
(* frames, bytes and layouts, are numbered as they come.                   *)
(***************************************************************************)
EXTENDS Naturals, Sequences, FiniteSets

CONSTANTS
  VarNames,      \* names of host variables
  MaxRecords     \* bound: records the adapter writes

ASSUME SessionAssumption ==
  /\ IsFiniteSet(VarNames)
  /\ MaxRecords \in Nat

VARIABLES
  apc,           \* where the call is
  expected,      \* expectedVars
  sawHit,        \* the breakpoint was reported
  pendingBytes,  \* the number of the bytes frame that waits for its layout, or 0
  reported,      \* out.vars: name, and the numbers of its two frames (0 in a summary)
  data,          \* data frames read
  records,       \* records read
  env,           \* variable -> what it was reported with
  summaries,     \* the variables with a summary
  adapter,       \* "none", "running", "exited" or "stopped"
  outcome        \* "none", "ok", "error" or "throw"

drainState == <<sawHit, pendingBytes, reported, data, records>>
built == <<env, summaries>>
sessionVars == <<apc, expected, drainState, built, adapter, outcome>>

SessionInit ==
  /\ apc = "call"
  /\ expected \in 1..Cardinality(VarNames)
  /\ sawHit = FALSE /\ pendingBytes = 0 /\ reported = <<>>
  /\ data = 0 /\ records = 0
  /\ env = [v \in {} |-> 0] /\ summaries = {}
  /\ adapter = "none" /\ outcome = "none"

-----------------------------------------------------------------------------
End(o) == apc' = "done" /\ outcome' = o

\* No adapter at the path, no variable to ask for, or the spawn fails.
SessionRefused ==
  /\ apc = "call"
  /\ End("error")
  /\ UNCHANGED <<expected, drainState, built, adapter>>

SpawnAdapter ==
  /\ apc = "call"
  /\ adapter' = "running"
  /\ apc' = "drain"
  /\ UNCHANGED <<expected, drainState, built, outcome>>

\* The loop goes on until all variables and the breakpoint were reported.
Draining == apc = "drain" /\ (Len(reported) < expected \/ ~sawHit)

\* A record is there; the pipe of a dead adapter still holds what it wrote.
NextRecord ==
  /\ Draining
  /\ adapter \in {"running", "exited"}
  /\ records < MaxRecords
  /\ records' = records + 1

Fail == apc' = "failed" /\ UNCHANGED outcome
Continue == UNCHANGED <<apc, outcome>>

ReadHit ==
  /\ NextRecord
  /\ sawHit' = TRUE
  /\ Continue
  /\ UNCHANGED <<expected, pendingBytes, reported, data, built, adapter>>

\* A summary stands in for the two frames of a variable.
ReadSummary ==
  /\ NextRecord
  /\ \E v \in VarNames :
       reported' = Append(reported, [name |-> v, bytes |-> 0, layout |-> 0])
  /\ Continue
  /\ UNCHANGED <<expected, sawHit, pendingBytes, data, built, adapter>>

\* Other JSON lines, and continuation frames, are passed over.
ReadOther ==
  /\ NextRecord
  /\ Continue
  /\ UNCHANGED <<expected, sawHit, pendingBytes, reported, data, built, adapter>>

\* Mutant: bytes that come too early are dropped.
MutReadBytes ==
  /\ NextRecord
  /\ data' = data + 1
  /\ pendingBytes' = IF pendingBytes = 0 THEN data + 1 ELSE pendingBytes
  /\ Continue
  /\ UNCHANGED <<expected, sawHit, reported, built, adapter>>

ReadBytes ==
  /\ NextRecord
  /\ data' = data + 1
  /\ \/ pendingBytes = 0 /\ pendingBytes' = data + 1 /\ Continue
     \/ pendingBytes # 0 /\ Fail /\ UNCHANGED pendingBytes
  /\ UNCHANGED <<expected, sawHit, reported, built, adapter>>

\* A layout completes the bytes before it, if it can be parsed.
ReadLayout ==
  /\ NextRecord
  /\ data' = data + 1
  /\ \/ /\ pendingBytes # 0
        /\ \E v \in VarNames :
             reported' = Append(reported,
                                [name |-> v, bytes |-> pendingBytes, layout |-> data + 1])
        /\ pendingBytes' = 0
        /\ Continue
     \/ Fail /\ UNCHANGED <<reported, pendingBytes>>
  /\ UNCHANGED <<expected, sawHit, built, adapter>>

\* A record that cannot be read: truncated, too big, of no known kind.
ReadBroken ==
  /\ NextRecord
  /\ Fail
  /\ UNCHANGED <<expected, sawHit, pendingBytes, reported, data, built, adapter>>

\* Mutant: the exception leaves the adapter behind.
MutReadMistyped ==
  /\ NextRecord
  /\ End("throw")
  /\ UNCHANGED <<expected, sawHit, pendingBytes, reported, data, built, adapter>>

\* A JSON line whose member has another type throws out of the call; the
\* handle's destructor stops the adapter.
ReadMistyped ==
  /\ NextRecord
  /\ End("throw")
  /\ adapter' = "stopped"
  /\ UNCHANGED <<expected, sawHit, pendingBytes, reported, data, built>>

\* The adapter has exited, or has closed its output.
ReadEnds ==
  /\ Draining
  /\ Fail
  /\ UNCHANGED <<expected, drainState, built, adapter>>

\* After the loop: bytes without their layout are an error.
EndDrain ==
  /\ apc = "drain" /\ ~Draining
  /\ apc' = IF pendingBytes # 0 THEN "failed" ELSE "build"
  /\ UNCHANGED <<expected, drainState, built, adapter, outcome>>

StopFailed ==
  /\ apc = "failed"
  /\ adapter' = "stopped"
  /\ End("error")
  /\ UNCHANGED <<expected, drainState, built>>

First(v, S) == CHOOSE i \in S : reported[i].name = v /\ \A j \in S : reported[j].name = v => i <= j

\* The first report of each variable counts, among the summaries and among
\* the others.
BuildEnv ==
  /\ apc = "build"
  /\ LET framed == {i \in DOMAIN reported : reported[i].layout # 0}
     IN env' = [v \in {reported[i].name : i \in framed} |-> reported[First(v, framed)]]
  /\ summaries' = {reported[i].name : i \in {j \in DOMAIN reported : reported[j].layout = 0}}
  /\ apc' = "continue"
  /\ UNCHANGED <<expected, drainState, adapter, outcome>>

\* "continue" is written, whoever still reads it, stdin closed, and the
\* adapter stopped.
StopAdapter ==
  /\ apc = "continue"
  /\ adapter' = "stopped"
  /\ End("ok")
  /\ UNCHANGED <<expected, drainState, built>>

AdapterExits ==
  /\ adapter = "running"
  /\ adapter' = "exited"
  /\ UNCHANGED <<apc, expected, drainState, built, outcome>>

SessionNext ==
  \/ SessionRefused \/ SpawnAdapter
  \/ ReadHit \/ ReadSummary \/ ReadOther \/ ReadBytes \/ ReadLayout
  \/ ReadBroken \/ ReadMistyped \/ ReadEnds
  \/ EndDrain \/ StopFailed \/ BuildEnv \/ StopAdapter
  \/ AdapterExits

SessionSpec == SessionInit /\ [][SessionNext]_sessionVars

-----------------------------------------------------------------------------
Reports == [name : VarNames, bytes : Nat, layout : Nat]

\* "spawn adapter -> drain -> evaluate -> kill adapter" (main.cpp:1138-1139):
\* whichever way a call ends, by a result, an error or an exception, no adapter
\* is left running.
AdapterGone == apc = "done" => adapter \in {"none", "stopped"}

\* "adapter is expected to emit pairs in order" (main.cpp:843-844): a call that
\* succeeds has used every data frame, each variable has the bytes that came
\* right before its own layout, and every variable reported can be looked up.
FramesPair ==
  outcome = "ok" =>
    /\ data = 2 * Cardinality({i \in DOMAIN reported : reported[i].layout # 0})
    /\ \A v \in DOMAIN env : env[v].name = v /\ env[v].layout = env[v].bytes + 1
    /\ \A i \in DOMAIN reported : reported[i].name \in DOMAIN env \cup summaries
=============================================================================
