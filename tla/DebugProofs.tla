---------------------------- MODULE DebugProofs -----------------------------
(***************************************************************************)
(* Proofs about the debugger: one call of the debug adapter, for any number *)
(* of variables and records, leaves no adapter behind and pairs all data   *)
(* frames it read; and the servers of "topo-debug serve" are there whenever *)
(* a signal handler runs and keep what POST /query was answered in the     *)
(* history.                                                                *)
(***************************************************************************)
EXTENDS AdapterSession, DebugServer, TLAPS, FiniteSetTheorems, SequenceTheorems,
        WellFoundedInduction

-----------------------------------------------------------------------------
(* One call of the debug adapter.                                          *)

\* Reports that came as two frames.
Framed == {i \in DOMAIN reported : reported[i].layout # 0}

\* The state keeps its types; an adapter runs only inside a call, and a result is
\* there when the call has ended (main.cpp:845-1136).
Shape ==
  /\ apc \in {"call", "drain", "build", "continue", "failed", "done"}
  /\ outcome \in {"none", "ok", "error", "throw"}
  /\ adapter \in {"none", "running", "exited", "stopped"}
  /\ reported \in Seq(Reports)
  /\ data \in Nat /\ records \in Nat /\ pendingBytes \in Nat
  /\ apc = "call" => adapter = "none"
  /\ outcome # "none" => apc = "done"

\* The reading has not failed.
Sound == apc \in {"call", "drain", "build", "continue"} \/ outcome = "ok"

\* Every layout followed the bytes it came with, and of the data frames at most
\* one, the last, waits for its layout.
Paired ==
  /\ \A i \in Framed : reported[i].layout = reported[i].bytes + 1
  /\ Sound => /\ pendingBytes # 0 => pendingBytes = data
              /\ data = 2 * Cardinality(Framed) + (IF pendingBytes # 0 THEN 1 ELSE 0)
              /\ apc \notin {"call", "drain"} => pendingBytes = 0

\* The environment is that of the reports.
Built ==
  apc = "continue" \/ outcome = "ok" =>
    /\ \A v \in DOMAIN env : env[v].name = v /\ env[v].layout = env[v].bytes + 1
    /\ \A i \in DOMAIN reported : reported[i].name \in DOMAIN env \cup summaries

SessionInv == Shape /\ AdapterGone /\ Paired /\ Built

-----------------------------------------------------------------------------
\* A set of positions that is not empty has a first one.
LEMMA Least ==
  ASSUME NEW T, T \subseteq Nat, T # {}
  PROVE  \E x \in T : \A y \in T : x <= y
<1> DEFINE W == {0..x : x \in T}
<1>1. W \subseteq FiniteSubsetsOf(Nat) /\ W # {}
  <2>1. \A x \in T : IsFiniteSet(0..x) /\ 0..x \in SUBSET Nat
    BY FS_Interval
  <2> QED
    BY <2>1 DEF FiniteSubsetsOf
<1>2. \E w \in W : \A u \in W : ~(<<u, w>> \in StrictSubsetOrdering(Nat))
  <2>1. IsWellFoundedOn(StrictSubsetOrdering(Nat), FiniteSubsetsOf(Nat))
    BY FS_StrictSubsetOrderingWellFounded, Zenon
  <2> HIDE DEF W
  <2> QED
    BY <1>1, <2>1, WFMin, Zenon
<1>3. PICK x \in T : \A y \in T : ~(<<0..y, 0..x>> \in StrictSubsetOrdering(Nat))
  BY <1>2
<1>4. ASSUME NEW y \in T, ~(x <= y) PROVE FALSE
  <2>1. 0..y \subseteq 0..x /\ x \in 0..x /\ x \notin 0..y
    BY <1>4
  <2>2. 0..y \in SUBSET Nat /\ 0..x \in SUBSET Nat
    BY <1>4
  <2> QED
    BY <1>3, <2>1, <2>2 DEF StrictSubsetOrdering
<1> QED
  BY <1>4

\* The first report of a variable is one of it.
LEMMA FirstIsOfIt ==
  ASSUME reported \in Seq(Reports), NEW S, S \subseteq DOMAIN reported, NEW i \in S,
         NEW v, reported[i].name = v
  PROVE  First(v, S) \in S /\ reported[First(v, S)].name = v
<1> DEFINE T == {j \in S : reported[j].name = v}
<1>1. T \subseteq Nat /\ T # {}
  BY LenProperties
<1>2. PICK m \in T : \A y \in T : m <= y
  BY <1>1, Least
<1> QED
  BY <1>2 DEF First

LEMMA FramedIsFinite ==
  ASSUME reported \in Seq(Reports)
  PROVE  IsFiniteSet(Framed) /\ Cardinality(Framed) \in Nat
<1>1. Framed \subseteq 1..Len(reported)
  BY LenProperties DEF Framed
<1> QED
  <2>1. IsFiniteSet(1..Len(reported))
    BY LenProperties, FS_Interval
  <2>2. IsFiniteSet(Framed)
    BY <1>1, <2>1, FS_Subset
  <2> QED
    BY <2>2, FS_CardinalityType

\* What one more report adds.
LEMMA Reported ==
  ASSUME reported \in Seq(Reports), NEW r \in Reports, reported' = Append(reported, r)
  PROVE  /\ reported' \in Seq(Reports)
         /\ DOMAIN reported' = DOMAIN reported \cup {Len(reported) + 1}
         /\ reported'[Len(reported) + 1] = r
         /\ \A i \in DOMAIN reported : reported'[i] = reported[i]
         /\ Len(reported) + 1 \notin DOMAIN reported
         /\ r.layout = 0 => Framed' = Framed
         /\ r.layout # 0 => /\ Framed' = Framed \cup {Len(reported) + 1}
                            /\ Cardinality(Framed') = Cardinality(Framed) + 1
<1>1. /\ reported' \in Seq(Reports) /\ Len(reported') = Len(reported) + 1
      /\ reported'[Len(reported) + 1] = r
      /\ \A i \in 1..Len(reported) : reported'[i] = reported[i]
  BY AppendProperties
<1>2. DOMAIN reported = 1..Len(reported) /\ DOMAIN reported' = 1..(Len(reported) + 1)
  BY <1>1, LenProperties
<1>3. Len(reported) \in Nat
  BY LenProperties
<1>4. /\ DOMAIN reported' = DOMAIN reported \cup {Len(reported) + 1}
      /\ Len(reported) + 1 \notin DOMAIN reported
  BY <1>2, <1>3
<1>5. \A i \in DOMAIN reported : reported'[i] = reported[i]
  BY <1>1, <1>2
<1>6. r.layout = 0 => Framed' = Framed
  BY <1>1, <1>4, <1>5 DEF Framed
<1>7. r.layout # 0 => Framed' = Framed \cup {Len(reported) + 1}
  BY <1>1, <1>4, <1>5 DEF Framed
<1>8. Len(reported) + 1 \notin Framed
  BY <1>4 DEF Framed
<1>9. r.layout # 0 => Cardinality(Framed') = Cardinality(Framed) + 1
  BY <1>7, <1>8, FramedIsFinite, FS_AddElement
<1> QED
  BY <1>1, <1>4, <1>5, <1>6, <1>7, <1>9

-----------------------------------------------------------------------------
LEMMA InitHolds == SessionInit => SessionInv
<1> SUFFICES ASSUME SessionInit PROVE SessionInv
  OBVIOUS
<1>1. reported = <<>> /\ Framed = {}
  BY DEF SessionInit, Framed
<1>2. Shape /\ AdapterGone /\ Built
  BY DEF SessionInit, Shape, AdapterGone, Built
<1>3. Paired
  BY <1>1, FS_EmptySet DEF SessionInit, Paired
<1> QED
  BY <1>2, <1>3 DEF SessionInv

\* Steps after which the call has failed, or that read nothing.
LEMMA QuietSteps ==
  ASSUME SessionInv,
         \/ SessionRefused \/ SpawnAdapter \/ ReadBroken \/ ReadMistyped \/ ReadEnds
         \/ EndDrain \/ StopFailed \/ AdapterExits \/ ReadHit \/ ReadOther
  PROVE  SessionInv'
<1>1. UNCHANGED <<reported, pendingBytes, data, built>> /\ Framed' = Framed
  BY DEF SessionRefused, SpawnAdapter, ReadBroken, ReadMistyped, ReadEnds, EndDrain, StopFailed,
         AdapterExits, ReadHit, ReadOther, drainState, built, Framed
<1>2. Shape' /\ AdapterGone'
  BY <1>1
  DEF SessionInv, Shape, AdapterGone, SessionRefused, SpawnAdapter, ReadBroken, ReadMistyped,
      ReadEnds, EndDrain, StopFailed, AdapterExits, ReadHit, ReadOther, NextRecord, Draining,
      End, Fail, Continue, drainState
<1>3. /\ Sound' => Sound
      /\ Sound' /\ apc' \notin {"call", "drain"} =>
           apc \notin {"call", "drain"} \/ pendingBytes = 0
      /\ apc' = "continue" \/ outcome' = "ok" => apc = "continue" \/ outcome = "ok"
  BY DEF SessionInv, Shape, Sound, SessionRefused, SpawnAdapter, ReadBroken, ReadMistyped,
         ReadEnds, EndDrain, StopFailed, AdapterExits, ReadHit, ReadOther, NextRecord, Draining,
         End, Fail, Continue, drainState
<1>4. Paired'
  BY <1>1, <1>3 DEF SessionInv, Paired
<1>5. Built'
  BY <1>1, <1>3 DEF SessionInv, Built, built
<1> QED
  BY <1>2, <1>4, <1>5 DEF SessionInv

LEMMA SummaryStep ==
  ASSUME SessionInv, ReadSummary
  PROVE  SessionInv'
<1>1. PICK v \in VarNames : reported' = Append(reported, [name |-> v, bytes |-> 0, layout |-> 0])
  BY DEF ReadSummary
<1> DEFINE r == [name |-> v, bytes |-> 0, layout |-> 0]
<1>2. r \in Reports /\ r.layout = 0
  BY DEF Reports
<1>3. reported' \in Seq(Reports) /\ Framed' = Framed
      /\ \A i \in DOMAIN reported : reported'[i] = reported[i]
  BY <1>1, <1>2, Reported DEF SessionInv, Shape
<1>4. /\ apc = "drain" /\ UNCHANGED <<apc, outcome, pendingBytes, data, adapter>>
      /\ records' \in Nat
  BY DEF ReadSummary, NextRecord, Draining, Continue, SessionInv, Shape
<1>5. Shape' /\ AdapterGone' /\ Built'
  BY <1>3, <1>4 DEF SessionInv, Shape, AdapterGone, Built
<1>6. Paired'
  BY <1>3, <1>4 DEF SessionInv, Paired, Sound, Framed
<1> QED
  BY <1>5, <1>6 DEF SessionInv

LEMMA BytesStep ==
  ASSUME SessionInv, ReadBytes
  PROVE  SessionInv'
<1>1. /\ apc = "drain" /\ UNCHANGED <<outcome, reported, adapter>> /\ data' = data + 1
      /\ records' \in Nat /\ outcome = "none" /\ Framed' = Framed
  BY DEF ReadBytes, NextRecord, Draining, Continue, Fail, SessionInv, Shape, Framed
<1>2. \/ pendingBytes = 0 /\ pendingBytes' = data + 1 /\ apc' = "drain"
      \/ pendingBytes # 0 /\ pendingBytes' = pendingBytes /\ apc' = "failed"
  BY <1>1 DEF ReadBytes, Continue, Fail
<1>3. Shape' /\ AdapterGone' /\ Built'
  BY <1>1, <1>2 DEF SessionInv, Shape, AdapterGone, Built
<1>4. Paired'
  BY <1>1, <1>2, FramedIsFinite DEF SessionInv, Shape, Paired, Sound
<1> QED
  BY <1>3, <1>4 DEF SessionInv

LEMMA LayoutStep ==
  ASSUME SessionInv, ReadLayout
  PROVE  SessionInv'
<1>1. /\ apc = "drain" /\ UNCHANGED <<outcome, adapter>> /\ data' = data + 1
      /\ records' \in Nat /\ outcome = "none"
  BY DEF ReadLayout, NextRecord, Draining, Continue, Fail, SessionInv, Shape
<1>2. CASE Fail /\ UNCHANGED <<reported, pendingBytes>>
  <2>1. apc' = "failed" /\ Framed' = Framed
    BY <1>2 DEF Fail, Framed
  <2>2. Shape' /\ AdapterGone' /\ Built'
    BY <1>1, <1>2, <2>1 DEF SessionInv, Shape, AdapterGone, Built
  <2>3. Paired'
    BY <1>1, <1>2, <2>1 DEF SessionInv, Paired, Sound
  <2> QED
    BY <2>2, <2>3 DEF SessionInv
<1>3. ASSUME pendingBytes # 0, pendingBytes' = 0, Continue, NEW v \in VarNames,
             reported' = Append(reported,
                                [name |-> v, bytes |-> pendingBytes, layout |-> data + 1])
      PROVE  SessionInv'
  <2> DEFINE r == [name |-> v, bytes |-> pendingBytes, layout |-> data + 1]
  <2>1. r \in Reports /\ r.layout # 0 /\ r.layout = data + 1 /\ r.bytes = pendingBytes
    BY DEF Reports, SessionInv, Shape
  <2> HIDE DEF r
  <2>2. /\ reported' \in Seq(Reports)
        /\ reported'[Len(reported) + 1] = r
        /\ \A i \in DOMAIN reported : reported'[i] = reported[i]
        /\ Framed' = Framed \cup {Len(reported) + 1}
        /\ Cardinality(Framed') = Cardinality(Framed) + 1
    BY <1>3, <2>1, Reported DEF SessionInv, Shape, r
  <2>3. apc' = "drain"
    BY <1>1, <1>3 DEF Continue
  <2>4. pendingBytes = data /\ data = 2 * Cardinality(Framed) + 1
    BY <1>1, <1>3 DEF SessionInv, Paired, Sound
  <2>5. Shape' /\ AdapterGone' /\ Built'
    BY <1>1, <1>3, <2>2, <2>3 DEF SessionInv, Shape, AdapterGone, Built
  <2>6. \A i \in Framed' : reported'[i].layout = reported'[i].bytes + 1
    BY <2>1, <2>2, <2>4 DEF SessionInv, Paired, Framed
  <2>7. data' = 2 * Cardinality(Framed')
    BY <1>1, <2>2, <2>4, FramedIsFinite DEF SessionInv, Shape
  <2>8. pendingBytes' = 0
    BY <1>3
  <2>9. Cardinality(Framed') \in Nat
    BY <2>2, FramedIsFinite DEF SessionInv, Shape
  <2>10. Paired'
    BY <2>3, <2>6, <2>7, <2>8, <2>9 DEF Paired
  <2> QED
    BY <2>5, <2>10 DEF SessionInv
<1> QED
  BY <1>2, <1>3 DEF ReadLayout

LEMMA BuildStep ==
  ASSUME SessionInv, BuildEnv
  PROVE  SessionInv'
<1>1. /\ apc = "build" /\ apc' = "continue" /\ UNCHANGED <<outcome, adapter>>
      /\ outcome = "none" /\ UNCHANGED <<reported, pendingBytes, data, records>>
      /\ Framed' = Framed
      /\ env' = [v \in {reported[i].name : i \in Framed} |-> reported[First(v, Framed)]]
      /\ summaries' = {reported[i].name : i \in {j \in DOMAIN reported : reported[j].layout = 0}}
  BY DEF BuildEnv, drainState, SessionInv, Shape, Framed
<1>2. Shape' /\ AdapterGone'
  BY <1>1 DEF SessionInv, Shape, AdapterGone
<1>3. Paired'
  BY <1>1 DEF SessionInv, Paired, Sound
<1>4. ASSUME NEW v \in DOMAIN env'
      PROVE  env'[v].name = v /\ env'[v].layout = env'[v].bytes + 1
  <2>1. PICK i \in Framed : reported[i].name = v
    BY <1>1
  <2>2. First(v, Framed) \in Framed /\ reported[First(v, Framed)].name = v
    BY <2>1, FirstIsOfIt DEF Framed, SessionInv, Shape
  <2> QED
    BY <1>1, <2>1, <2>2 DEF SessionInv, Paired
<1>5. \A i \in DOMAIN reported : reported[i].name \in DOMAIN env' \cup summaries'
  BY <1>1 DEF Framed
<1>6. Built'
  BY <1>1, <1>4, <1>5 DEF Built
<1> QED
  BY <1>2, <1>3, <1>6 DEF SessionInv

LEMMA StopStep ==
  ASSUME SessionInv, StopAdapter
  PROVE  SessionInv'
<1>1. /\ apc = "continue" /\ adapter' = "stopped" /\ apc' = "done" /\ outcome' = "ok"
      /\ UNCHANGED <<reported, pendingBytes, data, records, env, summaries>>
      /\ Framed' = Framed
  BY DEF StopAdapter, End, drainState, built, Framed
<1>2. Shape' /\ AdapterGone' /\ Built'
  BY <1>1 DEF SessionInv, Shape, AdapterGone, Built
<1>3. Paired'
  BY <1>1 DEF SessionInv, Paired, Sound
<1> QED
  BY <1>2, <1>3 DEF SessionInv

LEMMA StepHolds == SessionInv /\ [SessionNext]_sessionVars => SessionInv'
<1> SUFFICES ASSUME SessionInv, [SessionNext]_sessionVars PROVE SessionInv'
  OBVIOUS
<1>1. CASE SessionNext
  BY <1>1, QuietSteps, SummaryStep, BytesStep, LayoutStep, BuildStep, StopStep DEF SessionNext
<1>2. CASE UNCHANGED sessionVars
  <2>1. /\ UNCHANGED <<apc, outcome, adapter, reported, pendingBytes, data, records>>
        /\ UNCHANGED <<env, summaries>> /\ Framed' = Framed
    BY <1>2 DEF sessionVars, drainState, built, Framed
  <2>2. Shape' /\ AdapterGone' /\ Built'
    BY <2>1 DEF SessionInv, Shape, AdapterGone, Built
  <2>3. Paired'
    BY <2>1 DEF SessionInv, Paired, Sound
  <2> QED
    BY <2>2, <2>3 DEF SessionInv
<1> QED
  BY <1>1, <1>2

LEMMA SessionInvariant == SessionSpec => []SessionInv
  BY InitHolds, StepHolds, PTL DEF SessionSpec

\* Whichever way a call ends, it leaves no adapter behind (main.cpp:1138-1139), for
\* any number of variables and records.
THEOREM NoneBehind == SessionSpec => []AdapterGone
<1>1. SessionInv => AdapterGone
  BY DEF SessionInv
<1> QED
  BY <1>1, SessionInvariant, PTL

\* A call that succeeds has used every data frame and given every variable the bytes
\* sent for it (main.cpp:843-1000), for any number of variables and records.
THEOREM Pairs == SessionSpec => []FramesPair
<1>1. SessionInv => FramesPair
  <2> SUFFICES ASSUME SessionInv, outcome = "ok"
               PROVE  /\ data = 2 * Cardinality(Framed)
                      /\ \A v \in DOMAIN env : env[v].name = v /\ env[v].layout = env[v].bytes + 1
                      /\ \A i \in DOMAIN reported : reported[i].name \in DOMAIN env \cup summaries
    BY DEF FramesPair, Framed
  <2>1. apc = "done" /\ Sound
    BY DEF SessionInv, Shape, Sound
  <2>2. data = 2 * Cardinality(Framed)
    BY <2>1, FramedIsFinite DEF SessionInv, Shape, Paired
  <2> QED
    BY <2>2 DEF SessionInv, Built
<1> QED
  BY <1>1, SessionInvariant, PTL

-----------------------------------------------------------------------------
(* The servers.                                                            *)

\* Where run() can be, and a thread or the handler on it.
RunLabels == {"socket", "pipe", "announce", "check", "poll", "polled", "drain", "drained",
              "accept", "read", "query", "respond", "upgrade", "frames", "ask", "close"}
ServerLabels == RunLabels \cup {"start", "install", "stopAi", "wakeAi", "join", "clear", "destroy",
                          "done", "none", "unborn", "returned"}
HandlerSteps == {"no", "flagMain", "wakeMain", "flagAi", "wakeAi"}
ConnStates == [kind : {"plain", "query", "ws"}, got : {"nothing", "whole"},
               gone : BOOLEAN]

\* A server serves at most one connection, and the AI export evaluates nothing.
ServerTypes ==
  /\ loc \in [Servers -> ServerLabels]
  /\ handler \in [Servers -> HandlerSteps]
  /\ conn \in [Servers -> SUBSET ConnStates]
  /\ \A s \in Servers : \A c, d \in conn[s] : c = d
  /\ \A c \in conn["ai"] : c.kind = "plain"

\* The handlers run while the globals are set, and the globals are set between
\* InstallHandlers and ClearGlobals.  A thread that has ended, or has not begun,
\* runs no handler, and the main thread clears the globals when the other one
\* has ended (main.cpp:2741-2761).
HandlersInv ==
  /\ globals = "set" => loc["main"] \notin {"start", "install", "destroy", "done"}
  /\ \A t \in Servers : handler[t] # "no" => globals = "set"
  /\ handler["ai"] # "no" => loc["ai"] \notin {"none", "unborn", "returned"}
  /\ loc["main"] \in {"clear", "destroy", "done"} => loc["ai"] \in {"none", "returned"}

\* It holds in the initial states.
LEMMA ServerStarts == ServerInit => ServerTypes /\ HandlersInv
<1> SUFFICES ASSUME ServerInit PROVE ServerTypes /\ HandlersInv
  OBVIOUS
<1>1. PICK a \in {"unborn", "none"} :
         loc = [t \in Servers |-> IF t = "main" THEN "start" ELSE a]
  BY DEF ServerInit
<1> QED
  BY <1>1 DEF ServerInit, Fresh, ServerTypes, HandlersInv, Servers, ServerLabels, HandlerSteps

\* The steps of cmdServe around the two runs.
LEMMA ServeKeeps ==
  ASSUME ServerTypes, HandlersInv, ServeStep
  PROVE  ServerTypes' /\ HandlersInv'
<1> USE DEF ServerTypes, HandlersInv, Servers, At, Goto, ServerLabels
<1>0. UNCHANGED <<handler, conn>>
  BY DEF ServeStep, StartAiThread, InstallHandlers, StopAi, WakeAi, Join, ClearGlobals,
         Destroy, serverState
<1>1. CASE StartAiThread
  BY <1>0, <1>1 DEF StartAiThread, RunLabels
<1>2. CASE InstallHandlers
  BY <1>0, <1>2 DEF InstallHandlers, RunLabels
<1>3. CASE StopAi
  BY <1>0, <1>3 DEF StopAi, AiEnabled
<1>4. CASE WakeAi
  BY <1>0, <1>4 DEF WakeAi
<1>5. CASE Join
  BY <1>0, <1>5 DEF Join
<1>6. CASE ClearGlobals
  BY <1>0, <1>6 DEF ClearGlobals
<1>7. CASE Destroy
  BY <1>0, <1>7 DEF Destroy
<1> QED
  BY <1>1, <1>2, <1>3, <1>4, <1>5, <1>6, <1>7 DEF ServeStep

\* What a step of run() does to the threads: it stays within run() or returns.
LEMMA RunMoves ==
  ASSUME ServerTypes, NEW s \in Servers, RunStep(s)
  PROVE  /\ handler[s] = "no" /\ UNCHANGED <<handler, globals>>
         /\ loc[s] \in RunLabels
         /\ \E l \in RunLabels \cup {IF s = "main" THEN "stopAi" ELSE "returned"} :
              loc' = [loc EXCEPT ![s] = l]
<1>1. CASE RunFails(s) \/ Listen(s) \/ MakePipe(s) \/ Announce(s) \/ CloseListener(s)
  BY <1>1 DEF RunFails, Listen, MakePipe, Announce, CloseListener, At, LeaveRun, Goto, RunLabels
<1>2. CASE Check(s) \/ Poll(s) \/ Polled(s) \/ Drain(s) \/ Drained(s)
  BY <1>2 DEF Check, Poll, Polled, Drain, Drained, At, Goto, RunLabels
<1>3. CASE Accept(s) \/ AcceptFails(s) \/ Respond(s)
  BY <1>3 DEF Accept, AcceptFails, Respond, At, Goto, RunLabels
<1>4. CASE ReadRequest(s)
  <2>1. PICK c \in conn[s] :
           \/ Goto(s, CASE c.kind = "plain" -> "respond"
                        [] c.kind = "query" -> "query"
                        [] c.kind = "ws" -> "upgrade")
           \/ Goto(s, "respond")
    BY <1>4 DEF ReadRequest
  <2>2. c.kind \in {"plain", "query", "ws"}
    BY DEF ServerTypes, ConnStates
  <2> QED
    BY <1>4, <2>1, <2>2 DEF ReadRequest, At, Goto, RunLabels
<1> QED
  BY <1>1, <1>2, <1>3, <1>4 DEF RunStep

\* A step of run() leaves the handlers and the globals alone.
LEMMA RunKeepsHandlers ==
  ASSUME ServerTypes, HandlersInv, NEW s \in Servers, RunStep(s)
  PROVE  HandlersInv' /\ loc' \in [Servers -> ServerLabels] /\ handler' = handler
<1>1. PICK l \in RunLabels \cup {IF s = "main" THEN "stopAi" ELSE "returned"} :
         loc' = [loc EXCEPT ![s] = l]
  BY RunMoves
<1>2. handler[s] = "no" /\ UNCHANGED <<handler, globals>> /\ loc[s] \in RunLabels
  BY RunMoves
<1>3. l \in ServerLabels /\ l \notin {"start", "install", "clear", "destroy", "done"}
  BY DEF ServerLabels, RunLabels
<1> QED
  BY <1>1, <1>2, <1>3 DEF ServerTypes, HandlersInv, Servers, RunLabels

\* What any step does to the connections of a server: there is at most one, and
\* nobody but the server changes what it asks for.
LEMMA RunKeepsConns ==
  ASSUME ServerTypes, NEW s \in Servers,
         RunStep(s) \/ Connect(s) \/ Send(s) \/ HangUp(s) \/ (s = "main" /\ Session)
  PROVE  /\ conn' \in [Servers -> SUBSET ConnStates]
         /\ \A t \in Servers : \A c, d \in conn'[t] : c = d
         /\ \A c \in conn'["ai"] : c.kind = "plain"
<1>1. CASE conn' = conn
  BY <1>1 DEF ServerTypes
<1>2. ASSUME NEW c \in ConnStates, conn' = [conn EXCEPT ![s] = {c}],
             s = "ai" => c.kind = "plain"
      PROVE  /\ conn' \in [Servers -> SUBSET ConnStates]
             /\ \A t \in Servers : \A e, d \in conn'[t] : e = d
             /\ \A d \in conn'["ai"] : d.kind = "plain"
  BY <1>2 DEF ServerTypes, Servers
<1>3. CASE conn' = [conn EXCEPT ![s] = {}]
  BY <1>3 DEF ServerTypes, Servers
<1>4. CASE Accept(s)
  <2>1. PICK k \in Asks(s) :
           conn' = [conn EXCEPT ![s] = {[kind |-> k, got |-> "nothing", gone |-> FALSE]}]
    BY <1>4 DEF Accept
  <2> DEFINE c == [kind |-> k, got |-> "nothing", gone |-> FALSE]
  <2>2. c \in ConnStates /\ (s = "ai" => c.kind = "plain")
    BY DEF ConnStates, Asks
  <2> HIDE DEF c
  <2>3. conn' = [conn EXCEPT ![s] = {c}]
    BY <2>1 DEF c
  <2> QED
    BY <2>2, <2>3, <1>2
<1>5. ASSUME NEW c \in conn[s],
             \/ conn' = [conn EXCEPT ![s] = {[c EXCEPT !.kind = "plain"]}]
             \/ conn' = [conn EXCEPT ![s] = {[c EXCEPT !.got = "nothing"]}]
             \/ conn' = [conn EXCEPT ![s] = {[c EXCEPT !.got = "whole"]}]
             \/ conn' = [conn EXCEPT ![s] = {[c EXCEPT !.gone = TRUE]}]
      PROVE  /\ conn' \in [Servers -> SUBSET ConnStates]
             /\ \A t \in Servers : \A e, d \in conn'[t] : e = d
             /\ \A d \in conn'["ai"] : d.kind = "plain"
  <2>1. c \in ConnStates /\ (s = "ai" => c.kind = "plain")
    BY DEF ServerTypes
  <2>2. PICK d : /\ conn' = [conn EXCEPT ![s] = {d}]
                 /\ \/ d = [c EXCEPT !.kind = "plain"]
                    \/ d = [c EXCEPT !.got = "nothing"]
                    \/ d = [c EXCEPT !.got = "whole"]
                    \/ d = [c EXCEPT !.gone = TRUE]
    BY <1>5
  <2>3. d \in ConnStates /\ (s = "ai" => d.kind = "plain")
    BY <2>1, <2>2 DEF ConnStates
  <2> QED
    BY <2>2, <2>3, <1>2
<1>6. CASE Send(s) \/ HangUp(s)
  BY <1>5, <1>6 DEF Send, HangUp
<1>7. CASE s = "main" /\ Session
  BY <1>1, <1>3, <1>5, <1>7 DEF Session, EvaluateQuery, Upgrade, Frame, AnswerFrame
<1>8. CASE ReadRequest(s)
  BY <1>1, <1>5, <1>8 DEF ReadRequest
<1> QED
  BY <1>1, <1>3, <1>4, <1>6, <1>7, <1>8
  DEF RunStep, RunFails, Listen, MakePipe, Announce, Check, Poll, Polled, Drain, Drained, AcceptFails,
      Respond, CloseListener, Connect, serverState

\* And so does what happens within a connection.
LEMMA SessionKeepsHandlers ==
  ASSUME ServerTypes, HandlersInv, Session
  PROVE  HandlersInv' /\ loc' \in [Servers -> ServerLabels] /\ handler' = handler
<1>1. /\ handler["main"] = "no" /\ UNCHANGED <<handler, globals>>
      /\ loc["main"] \in {"query", "upgrade", "frames", "ask"}
      /\ \E l \in {"respond", "frames", "ask", "check"} : loc' = [loc EXCEPT !["main"] = l]
  BY DEF Session, EvaluateQuery, Upgrade, Frame, AnswerFrame, At, Goto, ServerTypes, Servers
<1> QED
  BY <1>1 DEF ServerTypes, HandlersInv, Servers, ServerLabels, RunLabels

\* A signal arrives, and its handler asks one server after the other to stop.
LEMMA HandlerKeeps ==
  ASSUME ServerTypes, HandlersInv, NEW t \in Servers, Signal(t) \/ HandlerFlags(t) \/ HandlerWakes(t)
  PROVE  ServerTypes' /\ HandlersInv'
<1>1. UNCHANGED <<conn, globals>>
  BY DEF Signal, HandlerFlags, HandlerWakes, serverState
<1>2. \E h \in HandlerSteps : handler' = [handler EXCEPT ![t] = h]
  BY DEF Signal, HandlerFlags, HandlerWakes, HandlerSteps
<1>3. CASE Signal(t)
  BY <1>1, <1>2, <1>3
  DEF Signal, ServerTypes, HandlersInv, Servers, ServerLabels, RunLabels
<1>4. CASE HandlerFlags(t) \/ HandlerWakes(t)
  <2>1. loc' = loc /\ handler[t] # "no"
    BY <1>4 DEF HandlerFlags, HandlerWakes
  <2> QED
    BY <1>1, <1>2, <2>1 DEF ServerTypes, HandlersInv, Servers
<1> QED
  BY <1>3, <1>4

\* Every step keeps the invariant.
LEMMA ServerKeeps ==
  ASSUME ServerTypes, HandlersInv, [ServerNext]_serverVars
  PROVE  ServerTypes' /\ HandlersInv'
<1>1. CASE ServeStep
  BY <1>1, ServeKeeps
<1>2. CASE Session
  BY <1>2, SessionKeepsHandlers, RunKeepsConns DEF ServerTypes, Servers
<1>3. ASSUME NEW s \in Servers, RunStep(s) PROVE ServerTypes' /\ HandlersInv'
  BY <1>3, RunKeepsHandlers, RunKeepsConns DEF ServerTypes
<1>4. ASSUME NEW s \in Servers, Connect(s) \/ Send(s) \/ HangUp(s)
      PROVE  ServerTypes' /\ HandlersInv'
  <2>1. UNCHANGED <<loc, handler, globals>>
    BY <1>4 DEF Connect, Send, HangUp
  <2> QED
    BY <1>4, <2>1, RunKeepsConns DEF ServerTypes, HandlersInv
<1>5. ASSUME NEW t \in Servers, Signal(t) \/ HandlerFlags(t) \/ HandlerWakes(t)
      PROVE  ServerTypes' /\ HandlersInv'
  BY <1>5, HandlerKeeps
<1>6. CASE UNCHANGED serverVars
  BY <1>6 DEF serverVars, serverState, ServerTypes, HandlersInv
<1> QED
  BY <1>1, <1>2, <1>3, <1>4, <1>5, <1>6 DEF ServerNext

\* A signal handler, on whichever thread it runs, finds the servers it was given:
\* at no moment of its run have they been destroyed (main.cpp:1870-1876).
THEOREM HandlersSafe == ServerSpec => []HandlerFindsServers
<1>1. ServerInit => ServerTypes /\ HandlersInv
  BY ServerStarts
<1>2. ServerTypes /\ HandlersInv /\ [ServerNext]_serverVars => ServerTypes' /\ HandlersInv'
  BY ServerKeeps
<1>3. HandlersInv => HandlerFindsServers
  BY DEF HandlersInv, HandlerFindsServers, Servers
<1> QED
  BY <1>1, <1>2, <1>3, PTL DEF ServerSpec

-----------------------------------------------------------------------------
\* The numbers in the ring ascend to that of the last query at most, and a query that is
\* about to be answered is the newest of them (main.cpp:2010-2030).
HistoryInv ==
  /\ recent \in Seq(Nat) /\ Len(recent) <= RingSize
  /\ queries \in Nat
  /\ \A q \in told : q \in Nat /\ q <= queries
  /\ \A i \in 1..Len(recent) : recent[i] <= queries
  /\ HistoryHoldsAnswered
  /\ loc["main"] = "respond" /\ (\E c \in conn["main"] : c.kind = "query") =>
       recent # <<>> /\ recent[Len(recent)] = queries

\* What Record makes of the ring: the new number at its end, and the others in place or,
\* from a ring that was full, one place further down.
LEMMA RecordShifts ==
  ASSUME recent \in Seq(Nat), Len(recent) <= RingSize, NEW q \in Nat
  PROVE  /\ Record(q) \in Seq(Nat) /\ Record(q) # <<>>
         /\ \/ /\ Len(recent) < RingSize /\ Len(Record(q)) = Len(recent) + 1
               /\ \A i \in 1..Len(recent) : Record(q)[i] = recent[i]
            \/ /\ Len(recent) = RingSize /\ Len(Record(q)) = RingSize
               /\ \A i \in 2..RingSize : Record(q)[i - 1] = recent[i]
         /\ Record(q)[Len(Record(q))] = q
<1> DEFINE all == Append(recent, q)
<1>1. /\ all \in Seq(Nat) /\ Len(all) = Len(recent) + 1 /\ all[Len(recent) + 1] = q
      /\ \A i \in 1..Len(recent) : all[i] = recent[i]
  BY AppendProperties
<1>2. Len(recent) \in Nat /\ RingSize \in Nat \ {0}
  BY LenProperties, ServerAssumption
<1>3. all # <<>>
  BY <1>1, <1>2, EmptySeq
<1> HIDE DEF all
<1>4. CASE Len(recent) < RingSize
  <2>1. Record(q) = all
    BY <1>1, <1>2, <1>4 DEF Record, all
  <2> QED
    BY <1>1, <1>2, <1>3, <1>4, <2>1
<1>5. CASE Len(recent) = RingSize
  <2>1. Record(q) = Tail(all)
    BY <1>1, <1>2, <1>5 DEF Record, all
  <2>2. /\ Tail(all) \in Seq(Nat) /\ Len(Tail(all)) = Len(all) - 1
        /\ \A i \in 1..Len(Tail(all)) : Tail(all)[i] = all[i + 1]
    BY <1>1, <1>3, HeadTailProperties
  <2>3. Len(Record(q)) = RingSize /\ Record(q) \in Seq(Nat)
    BY <1>1, <1>2, <1>5, <2>1, <2>2
  <2>4. ASSUME NEW i \in 2..RingSize PROVE Record(q)[i - 1] = recent[i]
    BY <1>1, <1>2, <1>5, <2>1, <2>2
  <2>5. Record(q)[RingSize] = q
    BY <1>1, <1>2, <1>5, <2>1, <2>2
  <2>6. Record(q) # <<>>
    BY <2>3, <1>2, EmptySeq
  <2> QED
    BY <1>5, <2>3, <2>4, <2>5, <2>6
<1> QED
  BY <1>2, <1>4, <1>5

\* One more query in the ring.
LEMMA RecordKeepsHistory ==
  ASSUME HistoryInv, recent' = Record(queries + 1), queries' = queries + 1,
         UNCHANGED told
  PROVE  /\ recent' \in Seq(Nat) /\ Len(recent') <= RingSize
         /\ \A i \in 1..Len(recent') : recent'[i] <= queries'
         /\ HistoryHoldsAnswered'
         /\ recent' # <<>> /\ recent'[Len(recent')] = queries'
<1>1. /\ recent' \in Seq(Nat) /\ recent' # <<>>
      /\ \/ /\ Len(recent) < RingSize /\ Len(recent') = Len(recent) + 1
            /\ \A i \in 1..Len(recent) : recent'[i] = recent[i]
         \/ /\ Len(recent) = RingSize /\ Len(recent') = RingSize
            /\ \A i \in 2..RingSize : recent'[i - 1] = recent[i]
      /\ recent'[Len(recent')] = queries + 1
  <2>1. recent \in Seq(Nat) /\ Len(recent) <= RingSize /\ queries + 1 \in Nat
    BY DEF HistoryInv
  <2> HIDE DEF HistoryInv
  <2> QED
    BY <2>1, RecordShifts, Zenon
<1>2. /\ Len(recent) \in Nat /\ RingSize \in Nat \ {0} /\ queries \in Nat
      /\ \A i \in 1..Len(recent) : recent[i] \in Nat /\ recent[i] <= queries
  BY LenProperties, ServerAssumption, ElementOfSeq DEF HistoryInv
<1>3. \A i, j \in 1..Len(recent) : i < j => recent[i] < recent[j]
  BY DEF HistoryInv, HistoryHoldsAnswered
<1>4. CASE /\ Len(recent) < RingSize /\ Len(recent') = Len(recent) + 1
           /\ \A i \in 1..Len(recent) : recent'[i] = recent[i]
  <2>1. \A i \in 1..Len(recent') : recent'[i] <= queries'
    BY <1>1, <1>2, <1>4
  <2>2. ASSUME NEW i \in 1..Len(recent'), NEW j \in 1..Len(recent'), i < j
        PROVE  recent'[i] < recent'[j]
    <3>1. i \in 1..Len(recent) /\ recent'[i] = recent[i]
      BY <1>2, <1>4, <2>2
    <3>2. CASE j = Len(recent')
      BY <1>1, <1>2, <3>1, <3>2
    <3>3. CASE j # Len(recent')
      <4>1. j \in 1..Len(recent) /\ recent'[j] = recent[j]
        BY <1>2, <1>4, <3>3
      <4> QED
        BY <1>3, <2>2, <3>1, <4>1
    <3> QED
      BY <3>2, <3>3
  <2>3. ASSUME NEW q \in told'
        PROVE  \E i \in 1..Len(recent') : recent'[i] = q
    <3>1. PICK i \in 1..Len(recent) : recent[i] = q
      BY <1>2, <1>4 DEF HistoryInv, HistoryHoldsAnswered, Kept
    <3> QED
      BY <3>1, <1>2, <1>4
  <2> QED
    BY <1>1, <1>2, <1>4, <2>1, <2>2, <2>3 DEF HistoryHoldsAnswered, Kept
<1>5. CASE /\ Len(recent) = RingSize /\ Len(recent') = RingSize
           /\ \A i \in 2..RingSize : recent'[i - 1] = recent[i]
  <2>0. \A i \in 1..RingSize : recent'[i] = IF i = RingSize THEN queries + 1 ELSE recent[i + 1]
    <3> TAKE i \in 1..RingSize
    <3>1. CASE i = RingSize
      BY <1>1, <1>5, <3>1
    <3>2. CASE i # RingSize
      <4>1. i + 1 \in 2..RingSize /\ (i + 1) - 1 = i
        BY <1>2, <3>2
      <4> QED
        BY <1>5, <3>2, <4>1
    <3> QED
      BY <3>1, <3>2
  <2>1. ASSUME NEW i \in 1..Len(recent')
        PROVE  recent'[i] <= queries'
    <3>1. i \in 1..RingSize
      BY <1>5
    <3>2. i # RingSize => i + 1 \in 1..Len(recent)
      BY <1>2, <1>5, <3>1
    <3>3. i # RingSize => recent[i + 1] \in Nat /\ recent[i + 1] <= queries
      BY <1>2, <3>2
    <3> QED
      BY <1>2, <2>0, <3>1, <3>3
  <2>2. ASSUME NEW i \in 1..Len(recent'), NEW j \in 1..Len(recent'), i < j
        PROVE  recent'[i] < recent'[j]
    <3>1. i \in 1..RingSize /\ j \in 1..RingSize /\ i + 1 \in 1..Len(recent)
          /\ recent'[i] = recent[i + 1] /\ recent[i + 1] \in Nat /\ recent[i + 1] <= queries
      <4>1. i \in 1..RingSize /\ j \in 1..RingSize /\ i + 1 \in 1..Len(recent) /\ i # RingSize
        BY <1>2, <1>5, <2>2
      <4> QED
        BY <1>2, <2>0, <4>1
    <3>2. CASE j = RingSize
      BY <1>2, <2>0, <3>1, <3>2
    <3>3. CASE j # RingSize
      <4>1. j + 1 \in 1..Len(recent) /\ i + 1 < j + 1 /\ recent'[j] = recent[j + 1]
        BY <1>2, <1>5, <2>0, <2>2, <3>1, <3>3
      <4> QED
        BY <1>3, <3>1, <4>1
    <3> QED
      BY <3>2, <3>3
  <2>3. ASSUME NEW q \in told'
        PROVE  \/ \E i \in 1..Len(recent') : recent'[i] = q
               \/ Len(recent') = RingSize /\ \A i \in 1..RingSize : recent'[i] > q
    <3>1. q \in Nat /\ q <= queries
      BY DEF HistoryInv
    <3>2. CASE \A i \in 1..RingSize : recent[i] > q
      BY <1>2, <1>5, <2>0, <3>1, <3>2
    <3>3. ASSUME NEW i \in 1..Len(recent), recent[i] = q, i # 1
          PROVE  \E k \in 1..Len(recent') : recent'[k] = q
      <4>1. i \in 2..RingSize /\ i - 1 \in 1..Len(recent')
        BY <1>2, <1>5, <3>3
      <4>2. recent'[i - 1] = recent[i]
        BY <1>5, <4>1
      <4> QED
        BY <3>3, <4>1, <4>2
    <3>4. CASE recent[1] = q
      <4> SUFFICES ASSUME NEW k \in 1..RingSize PROVE recent'[k] > q
        BY <1>5
      <4>1. CASE k = RingSize
        BY <1>2, <2>0, <3>1, <4>1
      <4>2. CASE k # RingSize
        <5>1. recent'[k] = recent[k + 1] /\ k + 1 \in 1..Len(recent) /\ 1 \in 1..Len(recent)
              /\ 1 < k + 1
          BY <1>2, <1>5, <2>0, <4>2
        <5> QED
          BY <1>2, <1>3, <3>1, <3>4, <5>1
      <4> QED
        BY <4>1, <4>2
    <3> QED
      BY <3>2, <3>3, <3>4, <1>5 DEF HistoryInv, HistoryHoldsAnswered, Kept
  <2> QED
    BY <1>1, <1>2, <1>5, <2>1, <2>2, <2>3 DEF HistoryHoldsAnswered, Kept
<1> QED
  BY <1>1, <1>4, <1>5

\* Steps that touch neither the ring nor who is about to be answered.
LEMMA HistoryStays ==
  ASSUME HistoryInv, UNCHANGED ring,
         loc'["main"] = "respond" /\ (\E c \in conn'["main"] : c.kind = "query") =>
           loc["main"] = "respond" /\ (\E c \in conn["main"] : c.kind = "query")
  PROVE  HistoryInv'
  BY DEF HistoryInv, HistoryHoldsAnswered, Kept, ring

\* Steps of run(): what a client is told is in the ring, or newer queries are.
LEMMA HistoryRun ==
  ASSUME ServerTypes, HistoryInv, NEW s \in Servers, RunStep(s)
  PROVE  HistoryInv'
<1>1. CASE Respond(s)
  <2>1. UNCHANGED <<recent, queries>> /\ (loc'["main"] # "respond" \/ s = "ai")
    BY <1>1 DEF Respond, Goto, ServerTypes, Servers
  <2>2. CASE told' = told
    <3>1. s = "ai" => conn'["main"] = conn["main"] /\ loc'["main"] = loc["main"]
      BY <1>1 DEF Respond, Goto, ServerTypes, Servers
    <3> QED
      BY <1>1, <2>1, <2>2, <3>1, HistoryStays DEF Respond, ring
  <2>3. ASSUME NEW c \in conn[s], c.kind = "query", told' = told \cup {queries}
        PROVE  HistoryInv'
    <3>1. s = "main" /\ UNCHANGED <<recent, queries>> /\ loc'["main"] # "respond"
      BY <1>1, <2>1, <2>3 DEF Respond, ServerTypes, Servers
    <3>2. recent # <<>> /\ recent[Len(recent)] = queries /\ Len(recent) \in 1..Len(recent)
      BY <1>1, <2>3, <3>1, EmptySeq, LenProperties DEF Respond, At, HistoryInv
    <3>3. HistoryHoldsAnswered'
      BY <2>1, <2>3, <3>1, <3>2 DEF HistoryInv, HistoryHoldsAnswered, Kept
    <3> QED
      BY <2>1, <2>3, <3>1, <3>3 DEF HistoryInv
  <2> QED
    BY <1>1, <2>2, <2>3 DEF Respond
<1>2. CASE ReadRequest(s)
  <2>1. PICK c \in conn[s] :
           \/ /\ UNCHANGED conn
              /\ loc' = [loc EXCEPT ![s] = CASE c.kind = "plain" -> "respond"
                                           [] c.kind = "query" -> "query"
                                           [] c.kind = "ws" -> "upgrade"]
           \/ /\ conn' = [conn EXCEPT ![s] = {[c EXCEPT !.kind = "plain"]}]
              /\ loc' = [loc EXCEPT ![s] = "respond"]
    BY <1>2 DEF ReadRequest, Goto
  <2>2. c \in ConnStates /\ \A d \in conn[s] : d = c
    BY DEF ServerTypes
  <2>3. c.kind \in {"plain", "query", "ws"} /\ [c EXCEPT !.kind = "plain"].kind = "plain"
    BY <2>2 DEF ConnStates
  <2>4. CASE s = "main"
    <3>0. DOMAIN conn = Servers /\ DOMAIN loc = Servers /\ s \in Servers
      BY DEF ServerTypes
    <3>1. ASSUME loc'["main"] = "respond", NEW d \in conn'["main"]
          PROVE  d.kind = "plain"
      <4>1. CASE /\ UNCHANGED conn
                 /\ loc' = [loc EXCEPT ![s] = CASE c.kind = "plain" -> "respond"
                                              [] c.kind = "query" -> "query"
                                              [] c.kind = "ws" -> "upgrade"]
        BY <2>2, <2>3, <2>4, <3>0, <3>1, <4>1
      <4>2. CASE conn' = [conn EXCEPT ![s] = {[c EXCEPT !.kind = "plain"]}]
        BY <2>3, <2>4, <3>0, <3>1, <4>2
      <4> QED
        BY <2>1, <4>1, <4>2
    <3> QED
      BY <1>2, <3>1, HistoryStays DEF ReadRequest
  <2>5. CASE s = "ai"
    <3>1. loc'["main"] = loc["main"] /\ conn'["main"] = conn["main"]
      BY <2>1, <2>5 DEF ServerTypes, Servers
    <3> QED
      BY <1>2, <3>1, HistoryStays DEF ReadRequest
  <2> QED
    BY <2>4, <2>5 DEF Servers
<1>3. CASE Accept(s)
  <2>1. PICK k : conn' = [conn EXCEPT ![s] = {[kind |-> k, got |-> "nothing", gone |-> FALSE]}]
    BY <1>3 DEF Accept
  <2>2. loc' = [loc EXCEPT ![s] = "read"] /\ UNCHANGED ring
    BY <1>3 DEF Accept, Goto
  <2> QED
    BY <2>1, <2>2, HistoryStays DEF ServerTypes, Servers
<1>4. ASSUME RunFails(s) \/ Listen(s) \/ MakePipe(s) \/ Announce(s) \/ Check(s) \/ Poll(s) \/ Polled(s)
             \/ Drain(s) \/ Drained(s) \/ AcceptFails(s) \/ CloseListener(s)
      PROVE  HistoryInv'
  <2>1. UNCHANGED <<conn, ring>>
        /\ \E l \in {"pipe", "announce", "check", "poll", "polled", "drain", "drained", "accept", "close",
                     IF s = "main" THEN "stopAi" ELSE "returned"} : loc' = [loc EXCEPT ![s] = l]
    BY <1>4 DEF RunFails, Listen, MakePipe, Announce, Check, Poll, Polled, Drain, Drained, AcceptFails,
                CloseListener, LeaveRun, Goto, serverState
  <2> QED
    BY <2>1, HistoryStays DEF ServerTypes, Servers
<1> QED
  BY <1>1, <1>2, <1>3, <1>4 DEF RunStep

\* Steps within a connection: a query is evaluated and recorded.
LEMMA HistorySession ==
  ASSUME ServerTypes, HistoryInv, Session
  PROVE  HistoryInv'
<1>1. CASE EvaluateQuery
  <2>1. queries' = queries + 1 /\ told' = told /\ queries \in Nat
    BY <1>1 DEF EvaluateQuery, HistoryInv
  <2>2. queries' \in Nat /\ \A q \in told' : q \in Nat /\ q <= queries'
    BY <2>1 DEF HistoryInv
  <2>3. CASE recent' = Record(queries + 1)
    BY <2>1, <2>2, <2>3, RecordKeepsHistory DEF HistoryInv
  <2>4. ASSUME UNCHANGED recent, NEW c \in conn["main"],
               conn' = [conn EXCEPT !["main"] = {[c EXCEPT !.kind = "plain"]}]
        PROVE  HistoryInv'
    <3>1. \A d \in conn'["main"] : d.kind = "plain"
      BY <2>4 DEF ServerTypes, Servers, ConnStates
    <3>2. \A i \in 1..Len(recent) : recent[i] <= queries + 1
      BY <2>1, ElementOfSeq DEF HistoryInv
    <3> QED
      BY <2>1, <2>2, <2>4, <3>1, <3>2 DEF HistoryInv, HistoryHoldsAnswered, Kept
  <2> QED
    BY <1>1, <2>3, <2>4 DEF EvaluateQuery
<1>2. CASE Upgrade \/ Frame
  <2>1. UNCHANGED ring /\ loc'["main"] # "respond"
    BY <1>2 DEF Upgrade, Frame, At, Goto, ServerTypes, Servers
  <2> QED
    BY <2>1, HistoryStays
<1>3. CASE AnswerFrame
  <2>1. /\ queries' \in {queries, queries + 1} /\ UNCHANGED <<recent, told>>
        /\ loc'["main"] # "respond"
    BY <1>3 DEF AnswerFrame, Goto, ServerTypes, Servers
  <2>2. queries \in Nat /\ queries' \in Nat /\ queries <= queries'
    BY <2>1 DEF HistoryInv
  <2>3. \A i \in 1..Len(recent) : recent[i] \in Nat /\ recent[i] <= queries
    BY ElementOfSeq DEF HistoryInv
  <2>4. \A p \in told' : p \in Nat /\ p <= queries'
    BY <2>1, <2>2 DEF HistoryInv
  <2>5. HistoryHoldsAnswered'
    BY <2>1 DEF HistoryInv, HistoryHoldsAnswered, Kept
  <2> QED
    BY <2>1, <2>2, <2>3, <2>4, <2>5 DEF HistoryInv
<1> QED
  BY <1>1, <1>2, <1>3 DEF Session

\* Every step keeps the history.
LEMMA HistoryKeeps ==
  ASSUME ServerTypes, HistoryInv, [ServerNext]_serverVars
  PROVE  HistoryInv'
<1>1. CASE ServeStep
  <2>1. UNCHANGED <<conn, ring>>
        /\ loc'["main"] \in {"install", "socket", "wakeAi", "join", "clear", "destroy", "done"}
    BY <1>1 DEF ServeStep, StartAiThread, InstallHandlers, StopAi, WakeAi, Join, ClearGlobals,
                Destroy, Goto, serverState, ServerTypes, Servers
  <2> QED
    BY <2>1, HistoryStays
<1>2. ASSUME NEW s \in Servers, Connect(s) PROVE HistoryInv'
  BY <1>2, HistoryStays DEF Connect
<1>3. ASSUME NEW s \in Servers, Send(s) \/ HangUp(s) PROVE HistoryInv'
  <2>0. PICK c \in conn[s] :
          \E d : /\ conn' = [conn EXCEPT ![s] = {d}]
                /\ \/ d = [c EXCEPT !.got = "whole"]
                   \/ d = [c EXCEPT !.gone = TRUE]
    BY <1>3 DEF Send, HangUp
  <2>1. PICK d : /\ conn' = [conn EXCEPT ![s] = {d}]
                 /\ \/ d = [c EXCEPT !.got = "whole"]
                    \/ d = [c EXCEPT !.gone = TRUE]
    BY <2>0
  <2>2. d.kind = c.kind
    BY <2>1 DEF ServerTypes, ConnStates
  <2>3. UNCHANGED <<loc, ring>>
    BY <1>3 DEF Send, HangUp
  <2> QED
    BY <2>1, <2>2, <2>3, HistoryStays DEF ServerTypes, Servers
<1>4. ASSUME NEW t \in Servers, Signal(t) \/ HandlerFlags(t) \/ HandlerWakes(t)
      PROVE  HistoryInv'
  <2>1. UNCHANGED <<conn, ring>> /\ (loc'["main"] = "respond" => loc["main"] = "respond")
    BY <1>4 DEF Signal, HandlerFlags, HandlerWakes, serverState, ServerTypes, Servers
  <2> QED
    BY <2>1, HistoryStays
<1>5. CASE UNCHANGED serverVars
  BY <1>5, HistoryStays DEF serverVars, serverState
<1> QED
  BY <1>1, <1>2, <1>3, <1>4, <1>5, HistoryRun, HistorySession DEF ServerNext

\* A client of POST /query that has its answer finds its query in the history, unless as
\* many newer ones as the ring holds were evaluated since, and the history is in order
\* (main.cpp:2016-2036, 2077-2098); the queries of /ws are left open.
THEOREM HistorySafe == ServerSpec => []HistoryHoldsAnswered
<1>1. ServerInit => ServerTypes /\ HandlersInv /\ HistoryInv
  <2> SUFFICES ASSUME ServerInit PROVE HistoryInv
    BY ServerStarts
  <2>1. /\ recent = <<>> /\ queries = 0 /\ told = {}
        /\ conn = [s \in Servers |-> {}]
    BY DEF ServerInit, Fresh
  <2>2. RingSize \in Nat
    BY ServerAssumption
  <2> QED
    BY <2>1, <2>2 DEF HistoryInv, HistoryHoldsAnswered, Servers
<1>2. ServerTypes /\ HandlersInv /\ HistoryInv /\ [ServerNext]_serverVars
        => ServerTypes' /\ HandlersInv' /\ HistoryInv'
  BY ServerKeeps, HistoryKeeps
<1>3. HistoryInv => HistoryHoldsAnswered
  BY DEF HistoryInv
<1> QED
  BY <1>1, <1>2, <1>3, PTL DEF ServerSpec
=============================================================================
