----------------------------- MODULE MCPlatform -----------------------------
(***************************************************************************)
(* What works on the file system and with tools, for TLC: the backend      *)
(* cache, a bounded capture, and the stubbing of the user's sources.  A    *)
(* behaviour runs one of them; the state of the others is kept at Idle     *)
(* values.                                                                 *)
(***************************************************************************)
EXTENDS BackendCache, BoundedCapture, StubbedSources

captureIdle ==
  /\ cpc = "idle" /\ final = FALSE /\ progress = FALSE /\ late = FALSE
  /\ exitCode = -1 /\ failure = "None" /\ kept = <<>> /\ eof = <<>>
  /\ pipe = <<>> /\ wrote = <<>>
  /\ leader = "none" /\ status = -1 /\ kin = "none" /\ escaped = "none"

stubIdle ==
  /\ home = <<>> /\ kind = "none" /\ tasks = {} /\ task = {} /\ spc = "idle" /\ left = {}
  /\ tree = <<>> /\ saved = <<>> /\ succeeded = FALSE /\ passes = 0 /\ fails = 0
  /\ lost = FALSE

MCInit ==
  /\ CacheInit
  /\ \/ captureIdle /\ stubIdle
     \/ CaptureInit /\ stubIdle
     \/ captureIdle /\ StubInit

MCNext ==
  \/ /\ cpc = "idle" /\ spc = "idle" /\ CacheNext
     /\ UNCHANGED <<captureVars, stubVars>>
  \/ cpc # "idle" /\ CaptureNext /\ UNCHANGED <<cacheVars, stubVars>>
  \/ spc # "idle" /\ StubNext /\ UNCHANGED <<cacheVars, captureVars>>

MCSpec ==
  MCInit /\ [][MCNext]_<<cacheVars, captureVars, stubVars>> /\ CaptureFairness
=============================================================================
