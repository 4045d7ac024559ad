------------------------------ MODULE LSPBridge ------------------------------
(***************************************************************************)
(* The bridge to an external language server (lib/LSP/LSPBridge.cpp): an   *)
(* owner thread starts and stops it, a client thread sends requests, a     *)
(* reader thread stores every reply in a map keyed by the request id, and  *)
(* a requester sleeps on a condition variable until its id is there, the   *)
(* deadline passes (one retry), the connection is lost or the bridge       *)
(* stops.  The server is external: it answers in any order, late, never,   *)
(* with an error or with garbage, it may send requests of its own, leave   *)
(* a descendant behind that keeps its stdout open, stop reading, and die,  *)
(* all at any moment.                                                      *)
(***************************************************************************)
EXTENDS Naturals, FiniteSets

CONSTANTS
  Owner, Client,   \* the two threads that use the bridge
  Overlap,         \* may the owner start or stop it while the client waits?
  MaxStarts,       \* bound: calls of start
  MaxQueries,      \* bound: calls of the client
  ReplyKinds,      \* kinds of reply the server sends
  ServerIds,       \* ids the server numbers its own requests with
  Stalls,          \* may the server stop reading, with its stdin pipe full?
  Descendants      \* may it leave a process that keeps its stdout open?

ASSUME ConstantsAssumption ==
  /\ Owner # Client
  /\ Overlap \in BOOLEAN
  /\ MaxStarts \in Nat /\ MaxQueries \in Nat
  /\ ReplyKinds \subseteq {"ok", "empty", "error"}
  /\ ServerIds \subseteq Nat
  /\ Stalls \in BOOLEAN /\ Descendants \in BOOLEAN

VARIABLES
  available, stopping, connectionLost,   \* the atomic flags
  nextId,        \* id of the next request
  pending,       \* pendingResponses_: the messages stored, one per id
  joinable,      \* readerThread_ holds a thread
  reader,        \* where the reader thread is
  hand,          \* the message the reader has read (a set of at most one)
  started,       \* the process handle is started (PipedProcess)
  alive,         \* the server runs
  broken,        \* the server wrote a frame that cannot be parsed
  stalled,       \* its stdin pipe is full and it does not read
  held,          \* it has ended, and a descendant keeps its stdout pipe open
  toServer,      \* requests written and not yet answered
  fromServer,    \* messages the server wrote and nobody has read
  pc,            \* thread -> where it is
  req,           \* thread -> its request: kind, attempt, id, number of the call
  result,        \* thread -> the message its last request returned (history)
  unseen,        \* the connection was lost before the handshake ended (history)
  serverReqs,    \* ids of the requests the server has sent
  starts, queries, calls     \* counters

flags == <<available, stopping, connectionLost>>
readerVars == <<joinable, reader, hand>>
server == <<alive, broken, stalled, held, toServer, fromServer, serverReqs>>
counts == <<starts, queries, calls, unseen>>
vars == <<flags, nextId, pending, readerVars, started, server, pc, req, result, counts>>

Callers == {Owner, Client}
NoReq == [kind |-> "query", attempt |-> 0, id |-> 0, call |-> 0]

-----------------------------------------------------------------------------
Init ==
  /\ available = FALSE /\ stopping = FALSE /\ connectionLost = FALSE
  /\ nextId = 1
  /\ pending = {}
  /\ joinable = FALSE /\ reader = "none" /\ hand = {}
  /\ started = FALSE
  /\ alive = FALSE /\ broken = FALSE /\ stalled = FALSE /\ held = FALSE
  /\ toServer = {} /\ fromServer = {} /\ serverReqs = {}
  /\ pc = [t \in Callers |-> "idle"]
  /\ req = [t \in Callers |-> NoReq]
  /\ result = [t \in Callers |-> {}] /\ unseen = FALSE
  /\ starts = 0 /\ queries = 0 /\ calls = 0

Goto(t, l) == pc' = [pc EXCEPT ![t] = l]

\* The server ends: what was written to it is lost, what it wrote stays in the
\* pipe, and a process it started may live on with its stdout.
ServerEnds ==
  /\ alive' = FALSE /\ stalled' = FALSE
  /\ toServer' = {}
  /\ held' \in IF alive THEN {FALSE, Descendants} ELSE {held}

\* Thread t may begin a call: nobody else is inside one, unless they overlap.
MayCall(t) ==
  /\ pc[t] = "idle"
  /\ Overlap \/ \A u \in Callers : pc[u] = "idle"

\* sendRequest() of thread t begins: a request of this kind, first attempt.
BeginRequest(t, k) ==
  /\ calls' = calls + 1
  /\ req' = [req EXCEPT ![t] = [kind |-> k, attempt |-> 1, id |-> 0,
                                call |-> calls + 1]]
  /\ result' = [result EXCEPT ![t] = {}]
  /\ Goto(t, "send")

\* sendRequest() returns the messages in m (at most one) to its caller: the
\* client, startProcess() that wants a result object, or stop().
EndRequest(t, m) ==
  /\ result' = [result EXCEPT ![t] = m]
  /\ Goto(t, CASE req[t].kind = "query" -> "idle"
               [] req[t].kind = "shutdown" -> "exit"
               [] req[t].kind = "initialize" ->
                    IF \E x \in m : x.kind = "ok" THEN "accept" ELSE "stop")

\* A write does not block: the pipe has room, or nobody is left to read it.
Writable == started /\ alive => ~stalled

(* ------------------------------- start --------------------------------- *)
\* startProcess() up to process_.start(), which refuses a started handle, may
\* fail, and otherwise makes fresh pipes (nothing is in them: StopJoin).
StartProcess ==
  /\ MayCall(Owner) /\ starts < MaxStarts
  /\ starts' = starts + 1
  /\ connectionLost' = FALSE
  /\ \/ /\ ~started
        /\ started' = TRUE /\ alive' = TRUE
        /\ Goto(Owner, "launch")
     \/ UNCHANGED <<started, alive, pc>>
  /\ UNCHANGED <<available, stopping, nextId, pending, readerVars, broken, stalled, held,
                 toServer, fromServer, serverReqs, req, result, queries, calls, unseen>>

\* The reader thread is created and "initialize" is sent.
LaunchReader ==
  /\ pc[Owner] = "launch"
  /\ stopping' = FALSE
  /\ joinable' = TRUE /\ reader' = "read"
  /\ BeginRequest(Owner, "initialize")
  /\ UNCHANGED <<available, connectionLost, nextId, pending, hand, started,
                 server, starts, queries, unseen>>

\* Mutant: a reader that loses the connection leaves the bridge in service.
MutLoseAvailable ==
  /\ reader = "lose"
  /\ reader' = "tell"
  /\ UNCHANGED <<flags, nextId, pending, joinable, hand, started, server, pc, req,
                 result, counts>>

\* The handshake succeeded: "initialized" is sent, the bridge is available.
\* Nothing is asked of the reader, which may have lost the connection by now.
Accept ==
  /\ pc[Owner] = "accept"
  /\ Writable
  /\ available' = TRUE
  /\ unseen' = (reader \in {"tell", "exited"})
  /\ Goto(Owner, "idle")
  /\ UNCHANGED <<stopping, connectionLost, nextId, pending, readerVars, started,
                 server, req, result, starts, queries, calls>>

(* -------------------------------- stop --------------------------------- *)
StopCall ==
  /\ MayCall(Owner)
  /\ Goto(Owner, "stop")
  /\ UNCHANGED <<flags, nextId, pending, readerVars, started, server, req,
                 result, counts>>

\* stop() takes the bridge out of service; a bridge that was available is
\* asked to shut down first, without a retry.
StopEnter ==
  /\ pc[Owner] = "stop"
  /\ available' = FALSE /\ unseen' = FALSE
  /\ IF available
     THEN BeginRequest(Owner, "shutdown")
     ELSE /\ Goto(Owner, "halt")
          /\ UNCHANGED <<req, result, calls>>
  /\ UNCHANGED <<stopping, connectionLost, nextId, pending, readerVars, started,
                 server, starts, queries>>

\* Then "exit" is notified, whatever came of the request.
NotifyExit ==
  /\ pc[Owner] = "exit"
  /\ Writable
  /\ Goto(Owner, "halt")
  /\ UNCHANGED <<flags, nextId, pending, readerVars, started, server, req, result,
                 counts>>

StopFlag ==
  /\ pc[Owner] = "halt"
  /\ stopping' = TRUE
  /\ Goto(Owner, "kill")
  /\ UNCHANGED <<available, connectionLost, nextId, pending, readerVars, started,
                 server, req, result, counts>>

\* Mutant: stop() joins the reader before it ends the process.
MutStopProcess ==
  /\ pc[Owner] = "kill"
  /\ ~joinable \/ reader = "exited"
  /\ started' = FALSE
  /\ ServerEnds
  /\ Goto(Owner, "join")
  /\ UNCHANGED <<flags, nextId, pending, readerVars, broken, fromServer, serverReqs, req,
                 result, counts>>

\* process_.stop(3000): the server is gone (PipedProcess, StopReturns), and the
\* handle is not started.  Its stdout pipe stays as it is.
StopProcess ==
  /\ pc[Owner] = "kill"
  /\ started' = FALSE
  /\ ServerEnds
  /\ Goto(Owner, "join")
  /\ UNCHANGED <<flags, nextId, pending, readerVars, broken, fromServer, serverReqs, req,
                 result, counts>>

\* Mutant: stop() starts the next session with fresh ids.
MutStopJoinIds ==
  /\ pc[Owner] = "join"
  /\ joinable => reader = "exited"
  /\ joinable' = FALSE /\ reader' = "none"
  /\ stopping' = FALSE
  /\ nextId' = 1
  /\ Goto(Owner, "idle")
  /\ UNCHANGED <<available, connectionLost, pending, hand, started, server, req,
                 result, counts>>

\* The reader is joined, if there is one.  The map of replies is kept; what is
\* left in the pipe is read by nobody.
StopJoin ==
  /\ pc[Owner] = "join"
  /\ joinable => reader = "exited"
  /\ joinable' = FALSE /\ reader' = "none"
  /\ stopping' = FALSE
  /\ fromServer' = {} /\ broken' = FALSE /\ held' = FALSE
  /\ Goto(Owner, "idle")
  /\ UNCHANGED <<available, connectionLost, nextId, pending, hand, started, alive,
                 stalled, toServer, serverReqs, req, result, counts>>

(* ----------------------------- sendRequest ----------------------------- *)
\* A public query: it asks isAvailable() first.
Query ==
  /\ MayCall(Client) /\ queries < MaxQueries
  /\ available
  /\ queries' = queries + 1
  /\ BeginRequest(Client, "query")
  /\ UNCHANGED <<flags, nextId, pending, readerVars, started, server, starts, unseen>>

\* nextId_++ on a plain int: when the other thread is at the same point, its
\* store may overwrite this one, and both use one id.  Then the message is
\* written: that has no deadline and blocks on a full pipe; a failed write
\* ends the request without a retry.
Write(t) ==
  /\ pc[t] = "send"
  /\ Writable
  /\ nextId' \in {nextId + 1} \cup
       IF \A u \in Callers : pc[u] = "send" THEN {nextId} ELSE {}
  /\ req' = [req EXCEPT ![t].id = nextId]
  /\ IF started /\ alive
     THEN /\ toServer' = toServer \cup {[id |-> nextId, call |-> req[t].call]}
          /\ Goto(t, "check")
          /\ UNCHANGED result
     ELSE /\ EndRequest(t, {})
          /\ UNCHANGED toServer
  /\ UNCHANGED <<flags, pending, readerVars, started, alive, broken, stalled, held,
                 fromServer, serverReqs, counts>>

\* The stored message with the id thread t waits for.
Mine(t) == {m \in pending : m.id = req[t].id}

\* The message leaves the map; an error reply counts as none.
Take(t) ==
  /\ Mine(t) # {}
  /\ pending' = pending \ Mine(t)
  /\ EndRequest(t, {m \in Mine(t) : m.kind # "error"})
  /\ UNCHANGED <<flags, nextId, readerVars, started, server, req, counts>>

\* With the mutex held the map is looked up before the first sleep.
CheckTake(t) == pc[t] = "check" /\ Take(t)

CheckSleep(t) ==
  /\ pc[t] = "check"
  /\ Mine(t) = {}
  /\ Goto(t, "asleep")
  /\ UNCHANGED <<flags, nextId, pending, readerVars, started, server, req, result,
                 counts>>

\* Awake before the deadline: the flags come before the map.
WakeAbort(t) ==
  /\ pc[t] = "asleep"
  /\ stopping \/ connectionLost
  /\ EndRequest(t, {})
  /\ UNCHANGED <<flags, nextId, pending, readerVars, started, server, req, counts>>

WakeTake(t) ==
  /\ pc[t] = "asleep"
  /\ ~stopping /\ ~connectionLost
  /\ Take(t)

\* The deadline passed: whatever came meanwhile is erased; a first attempt
\* that may be retried is, unless the connection is lost.
Timeout(t) ==
  /\ pc[t] = "asleep"
  /\ pending' = pending \ Mine(t)
  /\ IF connectionLost \/ req[t].kind = "shutdown" \/ req[t].attempt = 2
     THEN /\ EndRequest(t, {})
          /\ UNCHANGED req
     ELSE /\ req' = [req EXCEPT ![t].attempt = 2]
          /\ Goto(t, "send")
          /\ UNCHANGED result
  /\ UNCHANGED <<flags, nextId, readerVars, started, server, counts>>

(* ------------------------------ readerLoop ----------------------------- *)
\* A call of process_.read() finds the handle started, and then blocks: from
\* there only the pipe can free it, whatever stop() does to the handle.
ReadBegins ==
  /\ reader = "read" /\ started
  /\ reader' = "blocked"
  /\ UNCHANGED <<flags, nextId, pending, joinable, hand, started, server, pc, req,
                 result, counts>>

ReadMessage ==
  /\ reader = "blocked"
  /\ \E m \in fromServer :
       /\ fromServer' = fromServer \ {m}
       /\ hand' = {m}
  /\ reader' = "store"
  /\ UNCHANGED <<flags, nextId, pending, joinable, started, alive, broken, stalled, held,
                 toServer, serverReqs, pc, req, result, counts>>

\* The pipe is at its end: it is empty, and nobody is left who could write.
AtEof == fromServer = {} /\ ~alive /\ ~held

\* readMessage() fails: the handle is not started when a read begins, be it for
\* the first byte of a message or for the next one; the frame is malformed; or
\* the pipe is at its end.
ReadFails ==
  /\ \/ reader = "read" /\ ~started
     \/ reader = "blocked" /\ (broken \/ AtEof \/ (fromServer # {} /\ ~started))
  /\ reader' = IF stopping THEN "exited" ELSE "lose"
  /\ UNCHANGED <<flags, nextId, pending, joinable, hand, started, server, pc,
                 req, result, counts>>

\* A connection is lost in two stores: first the bridge is taken out of
\* service, then requesters are told.
LoseAvailable ==
  /\ reader = "lose"
  /\ available' = FALSE
  /\ reader' = "tell"
  /\ UNCHANGED <<stopping, connectionLost, nextId, pending, joinable, hand,
                 started, server, pc, req, result, counts>>

LoseTell ==
  /\ reader = "tell"
  /\ connectionLost' = TRUE
  /\ reader' = "exited"
  /\ UNCHANGED <<available, stopping, nextId, pending, joinable, hand, started,
                 server, pc, req, result, counts>>

\* Any message with an integer id goes into the map, under that id; then the
\* loop tests stopping_.
StoreReply ==
  /\ reader = "store"
  /\ \E m \in hand : pending' = {p \in pending : p.id # m.id} \cup {m}
  /\ hand' = {}
  /\ reader' = IF stopping THEN "exited" ELSE "read"
  /\ UNCHANGED <<flags, nextId, joinable, started, server, pc, req, result, counts>>

(* ------------------------------ the server ----------------------------- *)
ServerReplies ==
  /\ alive
  /\ \E r \in toServer, k \in ReplyKinds :
       /\ toServer' = toServer \ {r}
       /\ fromServer' = fromServer \cup {[id |-> r.id, call |-> r.call, kind |-> k]}
  /\ UNCHANGED <<flags, nextId, pending, readerVars, started, alive, broken, stalled,
                 held, serverReqs, pc, req, result, counts>>

\* A request of the server carries an id from the server's own numbering.
ServerAsks ==
  /\ alive
  /\ \E i \in ServerIds \ serverReqs :
       /\ serverReqs' = serverReqs \cup {i}
       /\ fromServer' = fromServer \cup {[id |-> i, call |-> 0, kind |-> "request"]}
  /\ UNCHANGED <<flags, nextId, pending, readerVars, started, alive, broken, stalled,
                 held, toServer, pc, req, result, counts>>

ServerFails ==
  /\ alive
  /\ \/ ServerEnds /\ UNCHANGED broken
     \/ ~broken /\ broken' = TRUE /\ UNCHANGED <<alive, stalled, held, toServer>>
  /\ UNCHANGED <<flags, nextId, pending, readerVars, started, fromServer, serverReqs, pc,
                 req, result, counts>>

\* The server hangs, and what was written to it fills its pipe.
ServerStalls ==
  /\ Stalls
  /\ alive /\ ~stalled
  /\ stalled' = TRUE
  /\ UNCHANGED <<flags, nextId, pending, readerVars, started, alive, broken, held,
                 toServer, fromServer, serverReqs, pc, req, result, counts>>

\* The process the server left behind may end, at any time or never.
DescendantEnds ==
  /\ held
  /\ held' = FALSE
  /\ UNCHANGED <<flags, nextId, pending, readerVars, started, alive, broken, stalled,
                 toServer, fromServer, serverReqs, pc, req, result, counts>>

-----------------------------------------------------------------------------
InRequest(t) ==
  \/ Write(t) \/ CheckTake(t) \/ CheckSleep(t)
  \/ WakeAbort(t) \/ WakeTake(t) \/ Timeout(t)

InStartStop ==
  \/ LaunchReader \/ Accept
  \/ StopEnter \/ NotifyExit \/ StopFlag \/ StopProcess \/ StopJoin

ReaderLoop ==
  \/ ReadBegins \/ ReadMessage \/ ReadFails
  \/ LoseAvailable \/ LoseTell \/ StoreReply

Server == ServerReplies \/ ServerAsks \/ ServerFails \/ ServerStalls \/ DescendantEnds

Next ==
  \/ StartProcess \/ StopCall \/ Query
  \/ InStartStop
  \/ \E t \in Callers : InRequest(t)
  \/ ReaderLoop
  \/ Server

\* Threads inside a call and the reader keep running and deadlines pass;
\* nothing is assumed of the server.
Fairness ==
  /\ WF_vars(InStartStop)
  /\ \A t \in Callers : WF_vars(InRequest(t))
  /\ WF_vars(ReaderLoop)

Spec == Init /\ [][Next]_vars
FairSpec == Spec /\ Fairness

-----------------------------------------------------------------------------
\* A request returns nothing, or the server's reply to that very call: not a
\* late reply to an earlier, timed-out call, nor one of a previous session
\* left in pendingResponses_ (LSPBridge.cpp:293-360, 446-461).
OwnReply ==
  \A t \in Callers :
    \A m \in result[t] : m.kind # "request" => m.call = req[t].call

\* "Only integer ids correspond to our outstanding requests"
\* (LSPBridge.cpp:448): what a caller is handed is no request of the server.
ReplyIsNoRequest == \A t \in Callers : \A m \in result[t] : m.kind # "request"

\* A new reader thread never replaces one that was not joined (assigning to a
\* joinable std::thread ends the program): start() gets past the process
\* handle only when stop() has joined (LSPBridge.cpp:42-49, 167-172).  And an
\* available bridge has a started handle and a reader that still reads, stores
\* or is about to take it out of service, through failed handshakes, lost
\* connections and restarts.  One bridge is excepted: line 134 sets available_
\* without a look at connectionLost_, so a connection lost between the answer to
\* "initialize" and that line (441-442) leaves it available with no reader.
ReaderIsHeld ==
  /\ pc[Owner] = "launch" => ~joinable /\ reader = "none"
  /\ available => /\ started /\ joinable
                  /\ reader \in {"read", "blocked", "store", "lose"} \/ unseen

\* What holds a call up for ever: a write to a server that does not read, which
\* has no deadline, or the join of a reader whose pipe a descendant keeps open.
HeldUp ==
  \/ alive /\ stalled /\ \E t \in Callers : pc[t] \in {"send", "accept", "exit"}
  \/ held /\ reader = "blocked" /\ pc[Owner] = "join"

\* Every call returns, whoever times out, whatever is stopped meanwhile and
\* whatever a silent, dying or babbling server does, unless from some moment on
\* a stalled server or a descendant of it holds a call up and never lets it go
\* (LSPBridge.cpp:155-171, 293-347).
CallsReturn ==
  \A t \in Callers : []<>(pc[t] = "idle") \/ <>[]HeldUp

\* "process_.stop(3000) below will forcibly terminate the child regardless, so a
\* single short wait is sufficient" (LSPBridge.cpp:155-157): stop() ends.
StopEnds == pc[Owner] = "stop" ~> pc[Owner] = "idle"

=============================================================================
