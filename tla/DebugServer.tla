----------------------------- MODULE DebugServer -----------------------------
(***************************************************************************)
(* The serve command of topo-debug (runServeSubcommand,                    *)
(* tools/topo-debug/main.cpp) with the HttpServer it runs twice: the main  *)
(* server on the main thread and the read-only AI export on a thread of    *)
(* its own.  Each is a loop of poll, accept, serve one connection, close;  *)
(* a self-pipe wakes the poll.  SIGTERM is handled on either thread, which *)
(* stands still meanwhile, and asks both servers to stop.                  *)
(*                                                                         *)
(* A server has the name of its thread.  Clients are external: they        *)
(* connect, send a request (a part of one is as good as none), read what   *)
(* is written to them or not, and hang up, at any moment or never.  So is  *)
(* what an evaluation asks: the debug adapter (AdapterSession) answers in  *)
(* one step, or never.                                                     *)
(***************************************************************************)
EXTENDS Naturals, Sequences

CONSTANTS
  MaxConns,      \* bound: connections made in all
  MaxSignals,    \* bound: signals sent
  MaxQueries,    \* bound: queries evaluated, beyond which a frame asks for none
  RingSize,      \* entries recentQueries keeps (50 in the code)
  PipeFails      \* may pipe() fail?

ASSUME ServerAssumption ==
  /\ MaxConns \in Nat /\ MaxSignals \in Nat /\ MaxQueries \in Nat
  /\ RingSize \in Nat \ {0}
  /\ PipeFails \in BOOLEAN

VARIABLES
  loc,           \* thread -> where it is
  handler,       \* thread -> the step of the signal handler running on it, or "no"
  stopRequested, \* server -> the atomic flag
  listener,      \* server -> "none", "open" or "closed"
  wake,          \* server -> its self-pipe: "none", "empty" or "full"
  polled,        \* server -> what poll() found readable, {} when it was looked at
  waiting,       \* server -> clients connected and not yet accepted
  conn,          \* server -> the connection it serves (a set of at most one)
  globals,       \* g_runningServer and g_aiExportServer: "unset", "set", "null"
  died,          \* SIGPIPE ended the process
  recent,        \* recentQueries, by the number of the query
  queries,       \* queries evaluated, of POST /query and of the frames of /ws
  told,          \* those of POST /query whose response was written (history)
  conns, signals \* counters

serverState == <<stopRequested, listener, wake, polled, waiting, conn>>
ring == <<recent, queries, told>>
counters == <<conns, signals>>
serverVars == <<loc, handler, serverState, globals, died, ring, counters>>

Servers == {"main", "ai"}
AiEnabled == loc["ai"] # "none"

\* Nothing has been started.
Fresh ==
  /\ handler = [t \in Servers |-> "no"]
  /\ stopRequested = [s \in Servers |-> FALSE]
  /\ listener = [s \in Servers |-> "none"]
  /\ wake = [s \in Servers |-> "none"]
  /\ polled = [s \in Servers |-> {}]
  /\ waiting = [s \in Servers |-> 0]
  /\ conn = [s \in Servers |-> {}]
  /\ globals = "unset" /\ died = FALSE
  /\ recent = <<>> /\ queries = 0 /\ told = {}
  /\ conns = 0 /\ signals = 0

\* The AI export is configured or not.
ServerInit ==
  /\ \E a \in {"unborn", "none"} : loc = [t \in Servers |-> IF t = "main" THEN "start" ELSE a]
  /\ Fresh

-----------------------------------------------------------------------------
\* Thread t is at l and no handler runs on it.
At(t, l) == ~died /\ handler[t] = "no" /\ loc[t] = l
Goto(t, l) == loc' = [loc EXCEPT ![t] = l]

\* The thread leaves run(): the AI thread ends, the main one goes on to the
\* teardown.
LeaveRun(s) == Goto(s, IF s = "main" THEN "stopAi" ELSE "returned")

-----------------------------------------------------------------------------
(* requestStop().                                                          *)

Flag(s) == stopRequested' = [stopRequested EXCEPT ![s] = TRUE]

\* Mutant: the loop is expected to look at the flag by itself.
MutWake(s) == UNCHANGED <<wake, listener>>

\* A byte for the self-pipe; without one the listener is closed.
Wake(s) ==
  IF wake[s] # "none"
  THEN wake' = [wake EXCEPT ![s] = "full"] /\ UNCHANGED listener
  ELSE /\ listener' = [listener EXCEPT ![s] = IF @ = "open" THEN "closed" ELSE @]
       /\ UNCHANGED wake

-----------------------------------------------------------------------------
(* The serve command.                                                      *)

\* The AI thread, if configured, starts before the handlers are installed.
StartAiThread ==
  /\ At("main", "start")
  /\ loc' = [loc EXCEPT !["main"] = "install",
                      !["ai"] = IF AiEnabled THEN "socket" ELSE "none"]
  /\ UNCHANGED <<handler, serverState, globals, died, ring, counters>>

\* The globals are set, then the handlers of SIGINT, SIGTERM and SIGPIPE.
InstallHandlers ==
  /\ At("main", "install")
  /\ globals' = "set"
  /\ Goto("main", "socket")
  /\ UNCHANGED <<handler, serverState, died, ring, counters>>

StopAi ==
  /\ At("main", "stopAi")
  /\ IF AiEnabled THEN Flag("ai") /\ Goto("main", "wakeAi")
     ELSE Goto("main", "clear") /\ UNCHANGED stopRequested
  /\ UNCHANGED <<handler, listener, wake, polled, waiting, conn, globals, died,
                 ring, counters>>

WakeAi ==
  /\ At("main", "wakeAi")
  /\ Wake("ai")
  /\ Goto("main", "join")
  /\ UNCHANGED <<handler, stopRequested, polled, waiting, conn, globals, died,
                 ring, counters>>

\* Mutant: the thread is not waited for.
MutJoin ==
  /\ At("main", "join")
  /\ Goto("main", "clear")
  /\ UNCHANGED <<handler, serverState, globals, died, ring, counters>>

Join ==
  /\ At("main", "join")
  /\ loc["ai"] = "returned"
  /\ Goto("main", "clear")
  /\ UNCHANGED <<handler, serverState, globals, died, ring, counters>>

ClearGlobals ==
  /\ At("main", "clear")
  /\ globals' = "null"
  /\ Goto("main", "destroy")
  /\ UNCHANGED <<handler, serverState, died, ring, counters>>

\* The servers are destroyed on return.
Destroy ==
  /\ At("main", "destroy")
  /\ Goto("main", "done")
  /\ UNCHANGED <<handler, serverState, globals, died, ring, counters>>

ServeStep ==
  \/ StartAiThread \/ InstallHandlers
  \/ StopAi \/ WakeAi \/ Join \/ ClearGlobals \/ Destroy

-----------------------------------------------------------------------------
(* onTerminationSignal().                                                  *)

\* A signal is handled by a thread that has not ended; poll() is not resumed
\* afterwards, every other call is.
Signal(t) ==
  /\ ~died /\ globals = "set"
  /\ signals < MaxSignals
  /\ handler[t] = "no"
  /\ loc[t] \notin {"none", "unborn", "returned", "done"}
  /\ signals' = signals + 1
  /\ handler' = [handler EXCEPT ![t] = "flagMain"]
  /\ loc' = [loc EXCEPT ![t] = IF @ = "poll" THEN "check" ELSE @]
  /\ UNCHANGED <<serverState, globals, died, ring, conns>>

HandlerFlags(t) ==
  /\ ~died
  /\ \/ handler[t] = "flagMain" /\ Flag("main")
        /\ handler' = [handler EXCEPT ![t] = "wakeMain"]
     \/ handler[t] = "flagAi" /\ Flag("ai")
        /\ handler' = [handler EXCEPT ![t] = "wakeAi"]
  /\ UNCHANGED <<loc, listener, wake, polled, waiting, conn, globals, died, ring,
                 counters>>

HandlerWakes(t) ==
  /\ ~died
  /\ \/ handler[t] = "wakeMain" /\ Wake("main")
        /\ handler' = [handler EXCEPT ![t] = IF AiEnabled THEN "flagAi" ELSE "no"]
     \/ handler[t] = "wakeAi" /\ Wake("ai")
        /\ handler' = [handler EXCEPT ![t] = "no"]
  /\ UNCHANGED <<loc, stopRequested, polled, waiting, conn, globals, died, ring,
                 counters>>

-----------------------------------------------------------------------------
(* HttpServer::run() of server s.                                          *)

\* socket(), bind() or listen() fails.
RunFails(s) ==
  /\ At(s, "socket")
  /\ LeaveRun(s)
  /\ UNCHANGED <<handler, serverState, globals, died, ring, counters>>

Listen(s) ==
  /\ At(s, "socket")
  /\ listener' = [listener EXCEPT ![s] = "open"]
  /\ Goto(s, "pipe")
  /\ UNCHANGED <<handler, stopRequested, wake, polled, waiting, conn, globals, died,
                 ring, counters>>

MakePipe(s) ==
  /\ At(s, "pipe")
  /\ \E w \in {"empty"} \cup (IF PipeFails THEN {"none"} ELSE {}) :
       wake' = [wake EXCEPT ![s] = w]
  /\ Goto(s, "announce")
  /\ UNCHANGED <<handler, stopRequested, listener, polled, waiting, conn, globals,
                 died, ring, counters>>

\* onListen(): the main server may launch a browser, and waits for the launcher.
Announce(s) ==
  /\ At(s, "announce")
  /\ Goto(s, "check")
  /\ UNCHANGED <<handler, serverState, globals, died, ring, counters>>

\* The loop condition.
Check(s) ==
  /\ At(s, "check")
  /\ Goto(s, IF stopRequested[s] THEN "close" ELSE "poll")
  /\ UNCHANGED <<handler, serverState, globals, died, ring, counters>>

Readable(s) ==
  {x \in {"conn", "wake"} : IF x = "conn" THEN listener[s] = "open" /\ waiting[s] > 0
                                          ELSE wake[s] = "full"}

Poll(s) ==
  /\ At(s, "poll")
  /\ Readable(s) # {}
  /\ polled' = [polled EXCEPT ![s] = Readable(s)]
  /\ Goto(s, "polled")
  /\ UNCHANGED <<handler, stopRequested, listener, wake, waiting, conn, globals, died,
                 ring, counters>>

\* The flag is tested, the self-pipe drained, and the flag tested again.
Polled(s) ==
  /\ At(s, "polled")
  /\ IF stopRequested[s]
     THEN Goto(s, "close") /\ polled' = [polled EXCEPT ![s] = {}]
     ELSE Goto(s, "drain") /\ UNCHANGED polled
  /\ UNCHANGED <<handler, stopRequested, listener, wake, waiting, conn, globals, died,
                 ring, counters>>

Drain(s) ==
  /\ At(s, "drain")
  /\ wake' = [wake EXCEPT ![s] = IF "wake" \in polled[s] THEN "empty" ELSE @]
  /\ Goto(s, "drained")
  /\ UNCHANGED <<handler, stopRequested, listener, polled, waiting, conn, globals,
                 died, ring, counters>>

Drained(s) ==
  /\ At(s, "drained")
  /\ Goto(s, IF "wake" \in polled[s] /\ stopRequested[s] THEN "close"
             ELSE IF "conn" \in polled[s] THEN "accept" ELSE "check")
  /\ polled' = [polled EXCEPT ![s] = {}]
  /\ UNCHANGED <<handler, stopRequested, listener, wake, waiting, conn, globals, died,
                 ring, counters>>

\* What a client asks for: a route that is answered at once, one that evaluates
\* (POST /query, or /summary and /render, which are not recorded), or GET /ws.
Asks(s) == IF s = "main" THEN {"plain", "query", "ws"} ELSE {"plain"}

Accept(s) ==
  /\ At(s, "accept")
  /\ waiting[s] > 0
  /\ waiting' = [waiting EXCEPT ![s] = @ - 1]
  /\ \E k \in Asks(s) :
       conn' = [conn EXCEPT ![s] = {[kind |-> k, got |-> "nothing", gone |-> FALSE]}]
  /\ Goto(s, "read")
  /\ UNCHANGED <<handler, stopRequested, listener, wake, polled, globals, died,
                 ring, counters>>

\* accept() fails, which ends the loop whether or not a stop was requested.
AcceptFails(s) ==
  /\ At(s, "accept")
  /\ waiting[s] > 0 \/ listener[s] = "closed"
  /\ Goto(s, "close")
  /\ UNCHANGED <<handler, serverState, globals, died, ring, counters>>

\* The request is read: whole, or as far as the client got before it hung up.
\* What was cut short runs no query: the body is missing, or the frames are.
ReadRequest(s) ==
  /\ At(s, "read")
  /\ \E c \in conn[s] :
       \/ /\ c.got = "whole"
          /\ Goto(s, CASE c.kind = "plain" -> "respond"
                       [] c.kind = "query" -> "query"
                       [] c.kind = "ws" -> "upgrade")
          /\ UNCHANGED conn
       \/ /\ c.got # "whole" /\ c.gone
          /\ conn' = [conn EXCEPT ![s] = {[c EXCEPT !.kind = "plain"]}]
          /\ Goto(s, "respond")
  /\ UNCHANGED <<handler, stopRequested, listener, wake, polled, waiting, globals, died,
                 ring, counters>>

\* Mutant: the oldest entry goes before the ring is over its size.
MutRecord(q) ==
  LET all == Append(recent, q)
  IN IF Len(all) >= RingSize THEN Tail(all) ELSE all

\* recordQuery().
Record(q) ==
  LET all == Append(recent, q)
  IN IF Len(all) > RingSize THEN Tail(all) ELSE all

\* POST /query evaluates the expression and records it with its outcome; what
\* throws, and any other evaluation, is not recorded.
EvaluateQuery ==
  /\ At("main", "query")
  /\ queries' = queries + 1
  /\ \/ recent' = Record(queries + 1) /\ UNCHANGED conn
     \/ /\ UNCHANGED recent
        /\ \E c \in conn["main"] :
             conn' = [conn EXCEPT !["main"] = {[c EXCEPT !.kind = "plain"]}]
  /\ Goto("main", "respond")
  /\ UNCHANGED <<handler, stopRequested, listener, wake, polled, waiting, globals, died,
                 told, counters>>

\* A write to a client that is gone fails, and until SIGPIPE is ignored the
\* first such write ends the process.
Write(s) == \E c \in conn[s] : died' \in {FALSE, c.gone /\ globals = "unset"}

\* The response is written and the connection closed; a client that does not
\* read may keep the server in the write.
Respond(s) ==
  /\ At(s, "respond")
  /\ Write(s)
  /\ told' = IF \E c \in conn[s] : c.kind = "query" /\ ~c.gone
             THEN told \cup {queries} ELSE told
  /\ conn' = [conn EXCEPT ![s] = {}]
  /\ Goto(s, "check")
  /\ UNCHANGED <<handler, stopRequested, listener, wake, polled, waiting, globals,
                 recent, queries, counters>>

\* GET /ws: the handshake, which a client without a key or from elsewhere fails.
Upgrade ==
  /\ At("main", "upgrade")
  /\ \/ /\ \E c \in conn["main"] :
             conn' = [conn EXCEPT !["main"] = {[c EXCEPT !.got = "nothing"]}]
        /\ Goto("main", "frames")
     \/ /\ conn' = [conn EXCEPT !["main"] = {}]
        /\ Goto("main", "check")
  /\ UNCHANGED <<handler, stopRequested, listener, wake, polled, waiting, globals, died,
                 ring, counters>>

\* The session takes one frame after the other until the client is gone, or a
\* frame closes it or breaks the protocol.  A frame is answered at once or asks
\* for an evaluation.
Frame ==
  /\ At("main", "frames")
  /\ \E c \in conn["main"] :
       \/ /\ c.got = "whole"
          /\ conn' = [conn EXCEPT !["main"] = {[c EXCEPT !.got = "nothing"]}]
          /\ loc' \in {loc, [loc EXCEPT !["main"] = "ask"]}
       \/ /\ c.got = "whole" \/ c.gone
          /\ conn' = [conn EXCEPT !["main"] = {}]
          /\ Goto("main", "check")
  /\ UNCHANGED <<handler, stopRequested, listener, wake, polled, waiting, globals, died,
                 ring, counters>>

\* The evaluation of a frame ends, a query's or a summary's, and the reply is
\* sent.  The history has no entry for it.
AnswerFrame ==
  /\ At("main", "ask")
  /\ queries' \in {queries} \cup {q \in {queries + 1} : q <= MaxQueries}
  /\ \E c \in conn["main"] :
       \/ ~c.gone /\ Goto("main", "frames") /\ UNCHANGED conn
       \/ c.gone /\ Goto("main", "check") /\ conn' = [conn EXCEPT !["main"] = {}]
  /\ UNCHANGED <<handler, stopRequested, listener, wake, polled, waiting, globals, died,
                 recent, told, counters>>

\* After the loop.
CloseListener(s) ==
  /\ At(s, "close")
  /\ listener' = [listener EXCEPT ![s] = "closed"]
  /\ LeaveRun(s)
  /\ UNCHANGED <<handler, stopRequested, wake, polled, waiting, conn, globals, died,
                 ring, counters>>

RunStep(s) ==
  \/ RunFails(s) \/ Listen(s) \/ MakePipe(s) \/ Announce(s)
  \/ Check(s) \/ Poll(s) \/ Polled(s) \/ Drain(s) \/ Drained(s)
  \/ Accept(s) \/ AcceptFails(s) \/ ReadRequest(s) \/ Respond(s)
  \/ CloseListener(s)

Session == EvaluateQuery \/ Upgrade \/ Frame \/ AnswerFrame

-----------------------------------------------------------------------------
(* The clients.                                                            *)

Connect(s) ==
  /\ ~died /\ listener[s] = "open"
  /\ conns < MaxConns
  /\ conns' = conns + 1
  /\ waiting' = [waiting EXCEPT ![s] = @ + 1]
  /\ UNCHANGED <<loc, handler, stopRequested, listener, wake, polled, conn, globals, died,
                 ring, signals>>

Send(s) ==
  /\ ~died
  /\ \E c \in conn[s] :
       /\ ~c.gone /\ c.got # "whole"
       /\ conn' = [conn EXCEPT ![s] = {[c EXCEPT !.got = "whole"]}]
  /\ UNCHANGED <<loc, handler, stopRequested, listener, wake, polled, waiting, globals,
                 died, ring, counters>>

HangUp(s) ==
  /\ ~died
  /\ \E c \in conn[s] :
       ~c.gone /\ conn' = [conn EXCEPT ![s] = {[c EXCEPT !.gone = TRUE]}]
  /\ UNCHANGED <<loc, handler, stopRequested, listener, wake, polled, waiting, globals,
                 died, ring, counters>>

-----------------------------------------------------------------------------
ServerNext ==
  \/ ServeStep \/ Session
  \/ \E s \in Servers : RunStep(s) \/ Connect(s) \/ Send(s) \/ HangUp(s)
  \/ \E t \in Servers : Signal(t) \/ HandlerFlags(t) \/ HandlerWakes(t)

ServerSpec == ServerInit /\ [][ServerNext]_serverVars

\* What keeps server s from its loop, and is not in its hands: a client that
\* stays, be it silent, talking or not reading (no recv() or send() has a
\* deadline); a browser launcher or a debug adapter that does not return; and,
\* where pipe() failed, a poll() that nothing wakes.
HeldUp(s) ==
  \/ \E c \in conn[s] : ~c.gone
  \/ loc[s] \in {"announce", "query", "ask"}
  \/ loc[s] = "poll" /\ wake[s] = "none"

\* Threads and handlers keep running.  Nobody else is held to anything: no client
\* has to send, to read or to leave, and no launcher or adapter to return.
ServerFairness ==
  LET alone(s) ==
        \/ RunFails(s) \/ Listen(s) \/ MakePipe(s) \/ Check(s) \/ Poll(s) \/ Polled(s)
        \/ Drain(s) \/ Drained(s) \/ Accept(s) \/ AcceptFails(s) \/ ReadRequest(s)
        \/ CloseListener(s)
        \/ s = "ai" /\ Announce(s)
        \/ ~HeldUp(s) /\ Respond(s)
  IN  /\ WF_serverVars(ServeStep)
      /\ WF_serverVars(alone("main") \/ Upgrade \/ Frame)
      /\ WF_serverVars(alone("ai"))
      /\ \A t \in Servers : WF_serverVars(HandlerFlags(t) \/ HandlerWakes(t))

-----------------------------------------------------------------------------
\* The handler runs on any thread at any moment and follows the globals: while
\* it runs the servers exist (main.cpp:1870-1876, 2754-2761).
HandlerFindsServers ==
  \A t \in Servers : handler[t] # "no" => loc["main"] # "done"

\* A signal, or a main server that fails to start, ends the command with both
\* servers, although the flag may be raised just before a poll, on the other
\* thread, or while the AI server is still starting (main.cpp:1872-1874,
\* HttpServer.cpp:256-278, 364-395) -- unless one of the servers is held up for
\* ever from outside.
StopsWhenAsked ==
  \/ \E s \in Servers : <>[]HeldUp(s)
  \/ stopRequested["main"] \/ loc["main"] = "stopAi" ~> loc["main"] = "done" \/ died

\* q is in recentQueries, or pushed out by as many newer ones as it holds.
Kept(q) ==
  \/ \E i \in 1..Len(recent) : recent[i] = q
  \/ Len(recent) = RingSize /\ \A i \in 1..RingSize : recent[i] > q

\* POST /query answers after it has recorded ("Capped to the last 50",
\* main.cpp:2018, 2087-2098): a client of POST /query that has its answer finds
\* its query in the history, unless newer ones filled it, and the history is in
\* order.  The property leaves the queries of /ws open: "the /query + /ws
\* handlers can append to it" (main.cpp:2017-2018), and that of /ws, which is not
\* given recordQuery (main.cpp:2118-2208), never does.
HistoryHoldsAnswered ==
  /\ \A q \in told : Kept(q)
  /\ \A i, j \in 1..Len(recent) : i < j => recent[i] < recent[j]
=============================================================================
