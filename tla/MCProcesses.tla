----------------------------- MODULE MCProcesses -----------------------------
(***************************************************************************)
(* What lives in several threads of one program, for TLC: the handle of a  *)
(* piped child process, the two servers of "topo-debug serve", and a call  *)
(* of the debug adapter.  A behaviour runs one of them; the state of the   *)
(* others is kept at what it is before anything starts.                    *)
(***************************************************************************)
EXTENDS PipedProcess, DebugServer, AdapterSession

serverIdle == loc = [t \in Servers |-> "none"] /\ Fresh
sessionIdle ==
  /\ apc = "idle" /\ expected = 0
  /\ sawHit = FALSE /\ pendingBytes = 0 /\ reported = <<>> /\ data = 0 /\ records = 0
  /\ env = <<>> /\ summaries = {} /\ adapter = "none" /\ outcome = "none"

MCInit ==
  /\ Init
  /\ \/ serverIdle /\ sessionIdle
     \/ ServerInit /\ sessionIdle
     \/ serverIdle /\ SessionInit

MCNext ==
  \/ /\ loc["main"] = "none" /\ apc = "idle" /\ Next
     /\ UNCHANGED <<serverVars, sessionVars>>
  \/ loc["main"] # "none" /\ ServerNext /\ UNCHANGED <<vars, sessionVars>>
  \/ apc # "idle" /\ SessionNext /\ UNCHANGED <<vars, serverVars>>

MCSpec ==
  /\ MCInit /\ [][MCNext]_<<vars, serverVars, sessionVars>>
  /\ Fairness /\ ServerFairness
=============================================================================
