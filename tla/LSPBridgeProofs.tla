--------------------------- MODULE LSPBridgeProofs ---------------------------
(***************************************************************************)
(* Proofs about the language-server bridge, for any number of sessions,    *)
(* queries and ids of the server: a bridge that is available has a reader  *)
(* at work, but for a connection lost before the handshake was over, and,  *)
(* when the calls of the two threads do not overlap, a caller gets the     *)
(* reply to its own request or none.                                       *)
(***************************************************************************)
EXTENDS LSPBridge, TLAPS

Request == [kind : {"query", "initialize", "shutdown"}, attempt : 0..2, id : Nat, call : Nat]
Message == [id : Nat, call : Nat, kind : {"ok", "empty", "error", "request"}]
Places == {"idle", "launch", "send", "check", "asleep", "accept", "stop", "exit", "halt", "kill",
           "join"}
Working == {"read", "blocked", "store", "lose"}

\* The state keeps its types (LSPBridge.h, "private").
TypeOK ==
  /\ available \in BOOLEAN /\ stopping \in BOOLEAN /\ connectionLost \in BOOLEAN
  /\ joinable \in BOOLEAN /\ started \in BOOLEAN
  /\ reader \in Working \cup {"none", "tell", "exited"}
  /\ nextId \in Nat /\ calls \in Nat
  /\ pending \subseteq Message /\ hand \subseteq Message /\ fromServer \subseteq Message
  /\ toServer \subseteq [id : Nat, call : Nat]
  /\ pc \in [Callers -> Places]
  /\ req \in [Callers -> Request]
  /\ result \in [Callers -> SUBSET Message]

Waiting == {"send", "check", "asleep"}

\* Who may be where: the client only in a query, the owner never in one.
Roles ==
  /\ pc[Client] \in {"idle"} \cup Waiting
  /\ pc[Client] \in Waiting => req[Client].kind = "query"
  /\ pc[Owner] \in Waiting => req[Owner].kind \in {"initialize", "shutdown"}

\* start() has launched a process, and between start() and stop() there is a
\* reader: a process that is started has one, except while it is launched, and
\* one that is not has none, except while stop() joins it.  A reader ends its
\* work only when stop() asks for that or when it takes the bridge out of
\* service, which line 134 undoes.
Sessions ==
  /\ pc[Owner] = "launch" => started /\ ~joinable
  /\ ~started /\ pc[Owner] # "join" => ~joinable
  /\ started /\ pc[Owner] # "launch" => joinable
  /\ pc[Owner] = "join" => ~started
  /\ joinable <=> reader # "none"
  /\ pc[Owner] = "accept" => started
  /\ pc[Owner] \in Waiting /\ req[Owner].kind = "initialize" => started
  /\ stopping => pc[Owner] \in {"kill", "join"}
  /\ available => started /\ pc[Owner] \in {"idle", "stop"}
  /\ available => reader \in Working \/ unseen

HeldInv == TypeOK /\ Roles /\ Sessions

-----------------------------------------------------------------------------
LEMMA InitHeld == Init => HeldInv
<1> SUFFICES ASSUME Init PROVE HeldInv
  OBVIOUS
<1>1. TypeOK
  <2>1. NoReq \in Request
    BY DEF NoReq, Request
  <2>2. /\ pc \in [Callers -> Places] /\ req \in [Callers -> Request]
        /\ result \in [Callers -> SUBSET Message]
    BY <2>1 DEF Init, Places
  <2> QED
    BY <2>2 DEF Init, TypeOK
<1>2. Roles /\ Sessions
  BY ConstantsAssumption DEF Init, Roles, Sessions, NoReq, Waiting, Callers
<1> QED
  BY <1>1, <1>2 DEF HeldInv

\* Ends of a request: the owner goes on to "accept", "stop" or "exit".
LEMMA Ends ==
  ASSUME HeldInv, NEW t \in Callers, pc[t] \in Waiting, NEW m \in SUBSET Message,
         EndRequest(t, m)
  PROVE  /\ result' = [result EXCEPT ![t] = m]
         /\ \E l \in {"idle", "exit", "accept", "stop"} :
              /\ pc' = [pc EXCEPT ![t] = l]
              /\ t = Client => l = "idle"
              /\ t = Owner /\ req[Owner].kind = "initialize" => l \in {"accept", "stop"}
              /\ t = Owner /\ req[Owner].kind = "shutdown" => l = "exit"
<1>1. req[t].kind \in {"query", "initialize", "shutdown"}
  BY DEF HeldInv, TypeOK, Request
<1>2. /\ t = Client => req[t].kind = "query"
      /\ t = Owner => req[t].kind \in {"initialize", "shutdown"}
  BY DEF HeldInv, Roles
<1>3. CASE req[t].kind = "query"
  BY <1>2, <1>3, ConstantsAssumption DEF EndRequest, Goto, Callers
<1>4. CASE req[t].kind = "shutdown"
  BY <1>2, <1>4, ConstantsAssumption DEF EndRequest, Goto, Callers
<1>5. CASE req[t].kind = "initialize"
  BY <1>2, <1>5, ConstantsAssumption DEF EndRequest, Goto, Callers
<1> QED
  BY <1>1, <1>3, <1>4, <1>5

\* What the begin of a request sets.
LEMMA Begins ==
  ASSUME HeldInv, NEW t \in Callers, NEW k \in {"query", "initialize", "shutdown"},
         BeginRequest(t, k)
  PROVE  /\ calls' = calls + 1 /\ calls' \in Nat
         /\ req' \in [Callers -> Request] /\ result' \in [Callers -> SUBSET Message]
         /\ pc' = [pc EXCEPT ![t] = "send"] /\ pc' \in [Callers -> Places]
         /\ req'[t].kind = k /\ req'[t].call = calls + 1 /\ req'[t].id = 0 /\ result'[t] = {}
         /\ \A u \in Callers \ {t} : req'[u] = req[u] /\ result'[u] = result[u]
<1> DEFINE r == [kind |-> k, attempt |-> 1, id |-> 0, call |-> calls + 1]
<1>1. r \in Request /\ calls \in Nat
  BY DEF HeldInv, TypeOK, Request
<1>2. /\ calls' = calls + 1 /\ req' = [req EXCEPT ![t] = r]
      /\ result' = [result EXCEPT ![t] = {}] /\ pc' = [pc EXCEPT ![t] = "send"]
  BY DEF BeginRequest, Goto
<1>3. r.kind = k /\ r.call = calls + 1 /\ r.id = 0
  OBVIOUS
<1> HIDE DEF r
<1> QED
  BY <1>1, <1>2, <1>3 DEF HeldInv, TypeOK, Places

\* What the owner does at the ends of a session.
LEMMA StartStopHeld ==
  ASSUME HeldInv, StartProcess \/ StopCall \/ InStartStop
  PROVE  HeldInv'
<1>1. CASE StartProcess
  <2>1. TypeOK'
    BY <1>1 DEF StartProcess, HeldInv, TypeOK, Places, MayCall, Goto, readerVars
  <2>2. Roles' /\ Sessions'
    BY <1>1, ConstantsAssumption
    DEF StartProcess, HeldInv, TypeOK, Roles, Sessions, Waiting, Callers, MayCall, Goto, readerVars
  <2> QED
    BY <2>1, <2>2 DEF HeldInv
<1>2. CASE StopCall
  <2>1. TypeOK'
    BY <1>2 DEF StopCall, HeldInv, TypeOK, Places, MayCall, Goto, readerVars, flags, server, counts
  <2>2. Roles' /\ Sessions'
    BY <1>2, ConstantsAssumption
    DEF StopCall, HeldInv, TypeOK, Roles, Sessions, Waiting, Callers, MayCall, Goto,
        readerVars, flags, server, counts
  <2> QED
    BY <2>1, <2>2 DEF HeldInv
<1>3. CASE LaunchReader
  <2>1. UNCHANGED <<available, connectionLost, nextId, pending, hand, started, server>>
    BY <1>3 DEF LaunchReader
  <2>2. BeginRequest(Owner, "initialize")
    BY <1>3 DEF LaunchReader
  <2>3. Owner \in Callers
    BY DEF Callers
  <2>4. TypeOK'
    <3>1. stopping' \in BOOLEAN /\ joinable' \in BOOLEAN /\ reader' = "read"
      BY <1>3 DEF LaunchReader
    <3>2. toServer' = toServer /\ fromServer' = fromServer
      BY <2>1 DEF server
    <3> QED
      BY <2>1, <2>2, <2>3, <3>1, <3>2, Begins DEF HeldInv, TypeOK, Working
  <2>5. Roles' /\ Sessions'
    BY <1>3, <2>1, <2>2, <2>3, Begins, ConstantsAssumption
    DEF LaunchReader, HeldInv, TypeOK, Roles, Sessions, Waiting, Callers, Working
  <2> QED
    BY <2>4, <2>5 DEF HeldInv
<1>4. CASE Accept
  <2>1. TypeOK'
    BY <1>4 DEF Accept, HeldInv, TypeOK, Places, Goto, readerVars, server, counts
  <2>2. Roles' /\ Sessions'
    BY <1>4, ConstantsAssumption
    DEF Accept, HeldInv, TypeOK, Roles, Sessions, Waiting, Callers, Goto, readerVars, server, counts
  <2> QED
    BY <2>1, <2>2 DEF HeldInv
<1>5. CASE StopEnter /\ available
  <2>1. /\ UNCHANGED <<stopping, connectionLost, nextId, pending, joinable, reader, hand,
                       started, toServer, fromServer>>
        /\ BeginRequest(Owner, "shutdown") /\ available' = FALSE /\ pc[Owner] = "stop"
    BY <1>5 DEF StopEnter, readerVars, server
  <2>2. Owner \in Callers
    BY DEF Callers
  <2>3. TypeOK'
    BY <2>1, <2>2, Begins DEF HeldInv, TypeOK
  <2>4. Roles' /\ Sessions'
    BY <2>1, <2>2, Begins, ConstantsAssumption
    DEF HeldInv, TypeOK, Roles, Sessions, Waiting, Callers
  <2> QED
    BY <2>3, <2>4 DEF HeldInv
<1>9. CASE StopEnter /\ ~available
  <2>1. TypeOK'
    BY <1>9 DEF StopEnter, HeldInv, TypeOK, Places, Goto, readerVars, server
  <2>2. Roles' /\ Sessions'
    BY <1>9, ConstantsAssumption
    DEF StopEnter, HeldInv, TypeOK, Roles, Sessions, Waiting, Callers, Goto, readerVars
  <2> QED
    BY <2>1, <2>2 DEF HeldInv
<1>10. CASE NotifyExit
  <2>1. TypeOK'
    BY <1>10 DEF NotifyExit, HeldInv, TypeOK, Places, Goto, readerVars, server, counts, flags
  <2>2. Roles' /\ Sessions'
    BY <1>10, ConstantsAssumption
    DEF NotifyExit, HeldInv, TypeOK, Roles, Sessions, Waiting, Callers, Goto, readerVars, server,
        counts, flags
  <2> QED
    BY <2>1, <2>2 DEF HeldInv
<1>6. CASE StopFlag
  <2>1. TypeOK'
    BY <1>6 DEF StopFlag, HeldInv, TypeOK, Places, Goto, readerVars, server, counts
  <2>2. Roles' /\ Sessions'
    BY <1>6, ConstantsAssumption
    DEF StopFlag, HeldInv, TypeOK, Roles, Sessions, Waiting, Callers, Goto, readerVars, server,
        counts
  <2> QED
    BY <2>1, <2>2 DEF HeldInv
<1>7. CASE StopProcess
  <2>1. TypeOK'
    BY <1>7 DEF StopProcess, ServerEnds, HeldInv, TypeOK, Places, Goto, readerVars, flags, counts
  <2>2. Roles' /\ Sessions'
    BY <1>7, ConstantsAssumption
    DEF StopProcess, HeldInv, TypeOK, Roles, Sessions, Waiting, Callers, Goto, readerVars,
        flags, counts
  <2> QED
    BY <2>1, <2>2 DEF HeldInv
<1>8. CASE StopJoin
  <2>1. TypeOK'
    BY <1>8 DEF StopJoin, HeldInv, TypeOK, Places, Goto, counts
  <2>2. Roles' /\ Sessions'
    BY <1>8, ConstantsAssumption
    DEF StopJoin, HeldInv, TypeOK, Roles, Sessions, Waiting, Callers, Goto, counts
  <2> QED
    BY <2>1, <2>2 DEF HeldInv
<1> QED
  BY <1>1, <1>2, <1>3, <1>4, <1>5, <1>6, <1>7, <1>8, <1>9, <1>10 DEF InStartStop

\* What the reader and the server do: none of it moves a caller.
LEMMA ReaderServerHeld ==
  ASSUME HeldInv, ReaderLoop \/ Server
  PROVE  HeldInv'
<1>1. UNCHANGED <<pc, req, result, started, joinable, nextId, calls, stopping, unseen>>
  BY DEF ReaderLoop, Server, ReadBegins, ReadMessage, ReadFails, LoseAvailable, LoseTell,
         StoreReply, ServerReplies, ServerAsks, ServerFails, ServerStalls, DescendantEnds,
         flags, readerVars, counts, server
<1>2. /\ available' \in BOOLEAN /\ connectionLost' \in BOOLEAN
      /\ available' => available
  <2>1. CASE LoseAvailable
    BY <2>1 DEF LoseAvailable, HeldInv, TypeOK
  <2>2. CASE LoseTell
    BY <2>2 DEF LoseTell, HeldInv, TypeOK
  <2>3. CASE ReadBegins \/ ReadMessage \/ ReadFails \/ StoreReply \/ Server
    <3>1. UNCHANGED flags
      BY <2>3 DEF Server, ReadBegins, ReadMessage, ReadFails, StoreReply,
                  ServerReplies, ServerAsks, ServerFails, ServerStalls, DescendantEnds
    <3> QED
      BY <3>1 DEF flags, HeldInv, TypeOK
  <2> QED
    BY <2>1, <2>2, <2>3 DEF ReaderLoop
<1>3. /\ reader' \in Working \cup {"tell", "exited"} \/ UNCHANGED reader
      /\ reader = "none" => reader' = "none"
      /\ reader \in Working => reader' \in Working \/ stopping \/ ~available'
  <2>1. CASE Server
    BY <2>1 DEF Server, ServerReplies, ServerAsks, ServerFails, ServerStalls, DescendantEnds,
                readerVars
  <2>2. CASE ReadFails \/ StoreReply
    BY <2>2 DEF ReadFails, StoreReply, Working
  <2>3. CASE ReadBegins \/ ReadMessage \/ LoseAvailable \/ LoseTell
    BY <2>3 DEF ReadBegins, ReadMessage, LoseAvailable, LoseTell, Working
  <2> QED
    BY <2>1, <2>2, <2>3 DEF ReaderLoop
<1>4. /\ pending' \subseteq Message /\ hand' \subseteq Message /\ fromServer' \subseteq Message
      /\ toServer' \subseteq [id : Nat, call : Nat]
  <2>1. CASE ReadBegins \/ ReadMessage \/ ReadFails \/ LoseAvailable \/ LoseTell \/ StoreReply
    BY <2>1 DEF ReadBegins, ReadMessage, ReadFails, LoseAvailable, LoseTell, StoreReply,
                server, HeldInv, TypeOK
  <2>2. CASE ServerReplies
    BY <2>2, ConstantsAssumption DEF ServerReplies, readerVars, HeldInv, TypeOK, Message
  <2>3. CASE ServerAsks
    BY <2>3, ConstantsAssumption DEF ServerAsks, readerVars, HeldInv, TypeOK, Message
  <2>4. CASE ServerFails \/ ServerStalls \/ DescendantEnds
    BY <2>4 DEF ServerFails, ServerStalls, DescendantEnds, ServerEnds, readerVars, HeldInv, TypeOK
  <2> QED
    BY <2>1, <2>2, <2>3, <2>4 DEF ReaderLoop, Server
<1>5. TypeOK'
  BY <1>1, <1>2, <1>3, <1>4 DEF HeldInv, TypeOK
<1>6. Roles' /\ Sessions'
  BY <1>1, <1>2, <1>3 DEF HeldInv, TypeOK, Roles, Sessions, Working
<1> QED
  BY <1>5, <1>6 DEF HeldInv

\* A request of either thread.
LEMMA RequestHeld ==
  ASSUME HeldInv, NEW t \in Callers, InRequest(t)
  PROVE  HeldInv'
<1>1. /\ pc[t] \in Waiting /\ UNCHANGED <<flags, readerVars, started, counts, fromServer>>
      /\ pending' \subseteq pending
  BY DEF InRequest, Write, CheckTake, CheckSleep, WakeAbort, WakeTake, Timeout, Take, Waiting,
         server
<1>2. /\ nextId' \in Nat /\ toServer' \subseteq [id : Nat, call : Nat]
      /\ \/ UNCHANGED req
         \/ \E i \in Nat : req' = [req EXCEPT ![t].id = i]
         \/ req' = [req EXCEPT ![t].attempt = 2]
  <2>1. CASE Write(t)
    <3>1. /\ nextId' \in {nextId + 1, nextId} /\ req' = [req EXCEPT ![t].id = nextId]
          /\ \/ toServer' = toServer \cup {[id |-> nextId, call |-> req[t].call]}
             \/ UNCHANGED toServer
      BY <2>1 DEF Write
    <3>2. nextId \in Nat /\ req[t].call \in Nat /\ toServer \subseteq [id : Nat, call : Nat]
      BY DEF HeldInv, TypeOK, Request
    <3>3. [id |-> nextId, call |-> req[t].call] \in [id : Nat, call : Nat]
      BY <3>2
    <3>4. toServer' \subseteq [id : Nat, call : Nat]
      BY <3>1, <3>2, <3>3
    <3>5. nextId' \in Nat
      BY <3>1, <3>2
    <3>6. \E i \in Nat : req' = [req EXCEPT ![t].id = i]
      BY <3>1, <3>2, Zenon
    <3> QED
      BY <3>4, <3>5, <3>6, Zenon
  <2>2. CASE Timeout(t)
    BY <2>2 DEF Timeout, server, HeldInv, TypeOK
  <2>3. CASE CheckTake(t) \/ CheckSleep(t) \/ WakeAbort(t) \/ WakeTake(t)
    BY <2>3 DEF CheckTake, CheckSleep, WakeAbort, WakeTake, Take, server, HeldInv, TypeOK
  <2> QED
    BY <2>1, <2>2, <2>3 DEF InRequest
<1>3. /\ req' \in [Callers -> Request]
      /\ \A u \in Callers : req'[u].kind = req[u].kind
  BY <1>2 DEF HeldInv, TypeOK, Request
<1>4. \/ UNCHANGED result /\ \E l \in Waiting : pc' = [pc EXCEPT ![t] = l]
      \/ \E m \in SUBSET Message : EndRequest(t, m)
  <2>1. CASE Write(t)
    BY <2>1 DEF Write, Goto, Waiting
  <2>2. CASE CheckSleep(t)
    BY <2>2 DEF CheckSleep, Goto, Waiting
  <2>3. CASE CheckTake(t) \/ WakeTake(t)
    BY <2>3 DEF CheckTake, WakeTake, Take, Mine, HeldInv, TypeOK
  <2>4. CASE WakeAbort(t)
    BY <2>4 DEF WakeAbort
  <2>5. CASE Timeout(t)
    BY <2>5 DEF Timeout, Goto, Waiting
  <2> QED
    BY <2>1, <2>2, <2>3, <2>4, <2>5 DEF InRequest
<1>5. CASE UNCHANGED result /\ \E l \in Waiting : pc' = [pc EXCEPT ![t] = l]
  <2>1. TypeOK'
    BY <1>1, <1>2, <1>3, <1>5
    DEF HeldInv, TypeOK, flags, readerVars, counts, Waiting, Places
  <2>2. Roles' /\ Sessions'
    BY <1>1, <1>3, <1>5, ConstantsAssumption
    DEF HeldInv, TypeOK, Roles, Sessions, Waiting, Callers, flags, readerVars, counts
  <2> QED
    BY <2>1, <2>2 DEF HeldInv
<1>6. CASE \E m \in SUBSET Message : EndRequest(t, m)
  <2>1. PICK m \in SUBSET Message : EndRequest(t, m)
    BY <1>6
  <2>2. /\ result' = [result EXCEPT ![t] = m]
        /\ \E l \in {"idle", "exit", "accept", "stop"} :
             /\ pc' = [pc EXCEPT ![t] = l]
             /\ t = Client => l = "idle"
             /\ t = Owner /\ req[Owner].kind = "initialize" => l \in {"accept", "stop"}
             /\ t = Owner /\ req[Owner].kind = "shutdown" => l = "exit"
    BY <1>1, <2>1, Ends
  <2>3. TypeOK'
    BY <1>1, <1>2, <1>3, <2>2 DEF HeldInv, TypeOK, flags, readerVars, counts, Places
  <2>4. Roles' /\ Sessions'
    BY <1>1, <1>3, <2>2, ConstantsAssumption
    DEF HeldInv, TypeOK, Roles, Sessions, Waiting, Callers, flags, readerVars, counts
  <2> QED
    BY <2>3, <2>4 DEF HeldInv
<1> QED
  BY <1>4, <1>5, <1>6

LEMMA QueryHeld ==
  ASSUME HeldInv, Query
  PROVE  HeldInv'
<1>1. /\ UNCHANGED <<available, stopping, connectionLost, nextId, pending, joinable, reader,
                     hand, started, toServer, fromServer, unseen>>
      /\ BeginRequest(Client, "query") /\ pc[Client] = "idle"
  BY DEF Query, MayCall, flags, readerVars, server
<1>2. Client \in Callers
  BY DEF Callers
<1>3. TypeOK'
  BY <1>1, <1>2, Begins DEF HeldInv, TypeOK
<1>4. Roles' /\ Sessions'
  BY <1>1, <1>2, Begins, ConstantsAssumption
  DEF HeldInv, TypeOK, Roles, Sessions, Waiting, Callers
<1> QED
  BY <1>3, <1>4 DEF HeldInv

LEMMA StepHeld == HeldInv /\ [Next]_vars => HeldInv'
<1> SUFFICES ASSUME HeldInv, [Next]_vars PROVE HeldInv'
  OBVIOUS
<1>1. CASE UNCHANGED vars
  BY <1>1 DEF vars, flags, readerVars, server, counts, HeldInv, TypeOK, Roles, Sessions
<1> QED
  BY <1>1, StartStopHeld, ReaderServerHeld, RequestHeld, QueryHeld DEF Next

LEMMA Held == Spec => []HeldInv
  BY InitHeld, StepHeld, PTL DEF Spec

\* No reader thread is replaced while it runs, and an available bridge has a started
\* handle and a reader at work, unless the connection was lost between the answer to
\* "initialize" and the store of line 134 (LSPBridge.cpp:42-49, 134, 167-172, 441-442), for
\* any number of sessions.
THEOREM Reader == Spec => []ReaderIsHeld
<1>1. HeldInv => ReaderIsHeld
  BY DEF HeldInv, Sessions, ReaderIsHeld, TypeOK, Working
<1> QED
  BY <1>1, Held, PTL

-----------------------------------------------------------------------------
InMap == {"check", "asleep"}
Messages == fromServer \cup hand \cup pending

\* Without overlap one thread at a time is inside a call.
OneCall == \A t, u \in Callers : pc[t] # "idle" /\ pc[u] # "idle" => t = u

\* Ids come from one counter that no stop() sets back.
Fresh ==
  /\ \A m \in toServer : m.id < nextId
  /\ \A m \in Messages : m.kind # "request" => m.id < nextId
  /\ \A t \in Callers : req[t].id < nextId

\* While a caller waits for its id, all that carries the id is of its call.
Owned ==
  \A t \in Callers : pc[t] \in InMap =>
    /\ \A m \in toServer : m.id = req[t].id => m.call = req[t].call
    /\ \A m \in Messages :
         m.kind # "request" /\ m.id = req[t].id => m.call = req[t].call

ReplyInv == OneCall /\ Fresh /\ Owned /\ OwnReply

LEMMA InitReply == Init => ReplyInv
  BY DEF Init, ReplyInv, OneCall, Fresh, Owned, OwnReply, NoReq, InMap, Messages

\* Replies are of requests; moving and dropping messages changes no owner.
LEMMA MovesReply ==
  ASSUME HeldInv, ReplyInv,
         UNCHANGED <<pc, req, result, nextId>>,
         toServer' \subseteq toServer,
         \A m \in Messages' : \/ m \in Messages \/ m.kind = "request"
                              \/ \E q \in toServer : m.id = q.id /\ m.call = q.call
  PROVE  ReplyInv'
<1>1. OneCall' /\ OwnReply'
  BY DEF ReplyInv, OneCall, OwnReply
<1>2. Fresh'
  BY DEF ReplyInv, Fresh
<1>3. Owned'
  BY DEF ReplyInv, Owned
<1> QED
  BY <1>1, <1>2, <1>3 DEF ReplyInv

LEMMA ReaderServerReply ==
  ASSUME HeldInv, ReplyInv, ReaderLoop \/ Server
  PROVE  ReplyInv'
<1>1. UNCHANGED <<pc, req, result, nextId>>
  BY DEF ReaderLoop, Server, ReadBegins, ReadMessage, ReadFails, LoseAvailable, LoseTell,
         StoreReply, ServerReplies, ServerAsks, ServerFails, ServerStalls, DescendantEnds
<1>2. /\ toServer' \subseteq toServer
      /\ \A m \in Messages' : \/ m \in Messages \/ m.kind = "request"
                              \/ \E q \in toServer : m.id = q.id /\ m.call = q.call
  <2>1. CASE ReadMessage
    BY <2>1 DEF ReadMessage, Messages
  <2>2. CASE StoreReply
    BY <2>2 DEF StoreReply, Messages, server
  <2>3. CASE \/ ReadBegins \/ ReadFails \/ LoseAvailable \/ LoseTell
             \/ ServerFails \/ ServerStalls \/ DescendantEnds
    BY <2>3 DEF ReadBegins, ReadFails, LoseAvailable, LoseTell, ServerFails, ServerStalls,
                DescendantEnds, ServerEnds, Messages, server, readerVars
  <2>4. CASE ServerReplies
    <3>1. PICK q \in toServer, k \in ReplyKinds :
             /\ toServer' = toServer \ {q}
             /\ fromServer' = fromServer \cup {[id |-> q.id, call |-> q.call, kind |-> k]}
             /\ UNCHANGED <<hand, pending>>
      BY <2>4 DEF ServerReplies, readerVars
    <3> QED
      BY <3>1 DEF Messages
  <2>5. CASE ServerAsks
    BY <2>5 DEF ServerAsks, Messages, readerVars
  <2> QED
    BY <2>1, <2>2, <2>3, <2>4, <2>5 DEF ReaderLoop, Server
<1> QED
  BY <1>1, <1>2, MovesReply

\* A thread begins a request: its own id is not in use, nothing was returned yet.
LEMMA BeginReply ==
  ASSUME HeldInv, ReplyInv, NEW t \in Callers,
         NEW k \in {"query", "initialize", "shutdown"}, BeginRequest(t, k),
         \A u \in Callers : pc[u] # "idle" => u = t,
         UNCHANGED <<nextId, toServer, fromServer, hand, pending>>
  PROVE  ReplyInv'
<1>1. /\ req' \in [Callers -> Request] /\ req'[t].id = 0 /\ result'[t] = {}
      /\ pc' = [pc EXCEPT ![t] = "send"] /\ pc \in [Callers -> Places]
      /\ \A u \in Callers \ {t} : req'[u] = req[u] /\ result'[u] = result[u]
  BY Begins DEF HeldInv, TypeOK
<1>2. OneCall'
  BY <1>1 DEF OneCall
<1>3. Fresh'
  <2>1. 0 < nextId
    BY DEF HeldInv, TypeOK, ReplyInv, Fresh, Request
  <2> QED
    BY <1>1, <2>1 DEF ReplyInv, Fresh, Messages
<1>4. Owned'
  BY <1>1 DEF ReplyInv, Owned, Messages, InMap
<1>5. OwnReply'
  BY <1>1 DEF ReplyInv, OwnReply
<1> QED
  BY <1>2, <1>3, <1>4, <1>5 DEF ReplyInv

\* Steps of start() and stop() outside of requests.
LEMMA QuietReply ==
  ASSUME HeldInv, ReplyInv, NEW l \in Places \ InMap,
         pc' = [pc EXCEPT ![Owner] = l],
         \A u \in Callers : pc[u] # "idle" => u = Owner,
         UNCHANGED <<req, result, nextId, hand, pending>>,
         toServer' \subseteq toServer, fromServer' \subseteq fromServer
  PROVE  ReplyInv'
<1>1. OneCall' /\ OwnReply'
  BY DEF HeldInv, TypeOK, ReplyInv, OneCall, OwnReply
<1>2. Fresh'
  BY DEF ReplyInv, Fresh, Messages
<1>3. Owned'
  BY DEF HeldInv, TypeOK, ReplyInv, Owned, Messages, InMap
<1> QED
  BY <1>1, <1>2, <1>3 DEF ReplyInv

LEMMA StartStopReply ==
  ASSUME Overlap = FALSE, HeldInv, ReplyInv, StartProcess \/ StopCall \/ InStartStop \/ Query
  PROVE  ReplyInv'
<1>0. Owner \in Callers /\ Client \in Callers
  BY DEF Callers
<1>1. MayCall(Owner) \/ pc[Owner] # "idle" => \A u \in Callers : pc[u] # "idle" => u = Owner
  BY <1>0 DEF MayCall, ReplyInv, OneCall
<1>2. CASE StartProcess
  <2>1. /\ UNCHANGED <<req, result, nextId, hand, pending, toServer, fromServer>>
        /\ MayCall(Owner)
        /\ pc' = [pc EXCEPT ![Owner] = "launch"] \/ pc' = pc
    BY <1>2 DEF StartProcess, readerVars, Goto
  <2>2. CASE pc' = pc
    BY <2>1, <2>2, MovesReply DEF Messages
  <2>3. CASE pc' = [pc EXCEPT ![Owner] = "launch"]
    BY <1>1, <2>1, <2>3, QuietReply DEF Places, InMap
  <2> QED
    BY <2>1, <2>2, <2>3
<1>3. CASE \/ StopCall \/ Accept \/ NotifyExit \/ StopFlag \/ StopProcess \/ StopJoin
           \/ StopEnter /\ ~available
  <2>1. /\ UNCHANGED <<req, result, nextId, hand, pending>>
        /\ toServer' \subseteq toServer /\ fromServer' \subseteq fromServer
        /\ MayCall(Owner) \/ pc[Owner] # "idle"
        /\ \E l \in Places \ InMap : pc' = [pc EXCEPT ![Owner] = l]
    BY <1>3 DEF StopCall, Accept, NotifyExit, StopFlag, StopProcess, StopJoin, StopEnter,
                ServerEnds, Goto, Places, InMap, readerVars, server
  <2> QED
    BY <1>1, <2>1, QuietReply
<1>4. CASE LaunchReader \/ (StopEnter /\ available)
  <2>1. /\ UNCHANGED <<nextId, toServer, fromServer, hand, pending>>
        /\ pc[Owner] # "idle"
        /\ BeginRequest(Owner, "initialize") \/ BeginRequest(Owner, "shutdown")
    BY <1>4 DEF LaunchReader, StopEnter, server, readerVars
  <2> QED
    BY <1>0, <1>1, <2>1, BeginReply
<1>5. CASE Query
  <2>1. /\ UNCHANGED <<nextId, toServer, fromServer, hand, pending>>
        /\ \A u \in Callers : pc[u] # "idle" => u = Client
        /\ BeginRequest(Client, "query")
    BY <1>5 DEF Query, MayCall, server, readerVars
  <2> QED
    BY <1>0, <2>1, BeginReply
<1> QED
  BY <1>2, <1>3, <1>4, <1>5 DEF InStartStop

\* The end of a request with messages that are its own.
LEMMA EndReply ==
  ASSUME HeldInv, ReplyInv, NEW t \in Callers, pc[t] \in Waiting, NEW m \in SUBSET Message,
         EndRequest(t, m),
         \A x \in m : x.kind # "request" => x.call = req[t].call,
         req' \in [Callers -> Request],
         \A u \in Callers : req'[u].call = req[u].call /\ req'[u].id < nextId',
         nextId' >= nextId, nextId' \in Nat,
         UNCHANGED <<toServer, fromServer, hand>>, pending' \subseteq pending
  PROVE  ReplyInv'
<1>1. /\ result' = [result EXCEPT ![t] = m]
      /\ \E l \in {"idle", "exit", "accept", "stop"} : pc' = [pc EXCEPT ![t] = l]
  BY Ends
<1>2. \A u \in Callers : u # t => pc[u] = "idle"
  BY DEF ReplyInv, OneCall, Waiting
<1>3. OneCall'
  BY <1>1, <1>2 DEF HeldInv, TypeOK, OneCall
<1>4. Fresh'
  <2>1. nextId \in Nat /\ (\A q \in toServer : q.id \in Nat) /\ (\A q \in Messages : q.id \in Nat)
    BY DEF HeldInv, TypeOK, Message, Messages
  <2>2. Messages' \subseteq Messages
    BY DEF Messages
  <2>3. \A q \in toServer : q.id < nextId'
    BY <2>1 DEF ReplyInv, Fresh
  <2>4. \A q \in Messages' : q.kind # "request" => q.id < nextId'
    BY <2>1, <2>2 DEF ReplyInv, Fresh
  <2> QED
    BY <2>3, <2>4 DEF Fresh
<1>5. Owned'
  BY <1>1, <1>2 DEF HeldInv, TypeOK, Owned, InMap
<1>6. OwnReply'
  BY <1>1 DEF HeldInv, TypeOK, ReplyInv, OwnReply
<1> QED
  BY <1>3, <1>4, <1>5, <1>6 DEF ReplyInv

LEMMA WriteReply ==
  ASSUME HeldInv, ReplyInv, NEW t \in Callers, Write(t)
  PROVE  ReplyInv'
<1>1. \A u \in Callers : u # t => pc[u] = "idle"
  BY DEF Write, ReplyInv, OneCall
<1>2. /\ pc[t] = "send" /\ nextId' = nextId + 1 /\ req' = [req EXCEPT ![t].id = nextId]
      /\ UNCHANGED <<pending, hand, fromServer>>
      /\ nextId \in Nat /\ req \in [Callers -> Request]
  <2>1. ~(\A u \in Callers : pc[u] = "send")
    BY <1>1, ConstantsAssumption DEF Callers
  <2> QED
    BY <2>1 DEF Write, readerVars, HeldInv, TypeOK
<1>3. /\ req' \in [Callers -> Request] /\ req'[t].id = nextId
      /\ \A u \in Callers : req'[u].call = req[u].call /\ (u # t => req'[u].id = req[u].id)
  BY <1>2 DEF Request
<1>4. \A u \in Callers : req'[u].id < nextId'
  BY <1>2, <1>3 DEF ReplyInv, Fresh, Request
<1>5. CASE EndRequest(t, {}) /\ UNCHANGED toServer
  BY <1>2, <1>3, <1>4, <1>5, EndReply DEF Waiting
<1>6. CASE /\ toServer' = toServer \cup {[id |-> nextId, call |-> req[t].call]}
           /\ Goto(t, "check") /\ UNCHANGED result
  <2> DEFINE q == [id |-> nextId, call |-> req[t].call]
  <2>1. q.id = nextId /\ q.call = req[t].call /\ toServer' = toServer \cup {q}
    BY <1>6
  <2> HIDE DEF q
  <2>2. pc' = [pc EXCEPT ![t] = "check"] /\ pc \in [Callers -> Places]
    BY <1>6 DEF Goto, HeldInv, TypeOK
  <2>3. /\ \A x \in toServer : x.id \in Nat /\ x.id < nextId
        /\ \A x \in Messages : x.id \in Nat /\ (x.kind # "request" => x.id < nextId)
    BY DEF HeldInv, TypeOK, Message, Messages, ReplyInv, Fresh
  <2>4. Messages' = Messages
    BY <1>2 DEF Messages
  <2>5. OneCall'
    BY <1>1, <2>2 DEF OneCall
  <2>6. Fresh'
    <3>1. \A x \in toServer' : x.id < nextId'
      BY <1>2, <2>1, <2>3
    <3>2. \A x \in Messages' : x.kind # "request" => x.id < nextId'
      BY <1>2, <2>3, <2>4
    <3> QED
      BY <1>4, <3>1, <3>2 DEF Fresh
  <2>7. Owned'
    <3>1. \A u \in Callers : pc'[u] \in InMap => u = t
      BY <1>1, <2>2 DEF InMap
    <3>2. \A x \in toServer' : x.id = nextId => x.call = req[t].call
      BY <1>2, <2>1, <2>3
    <3>3. \A x \in Messages' : x.kind # "request" => x.id # nextId
      BY <1>2, <2>3, <2>4
    <3> QED
      BY <1>3, <3>1, <3>2, <3>3 DEF Owned
  <2>8. OwnReply'
    BY <1>3, <1>6 DEF ReplyInv, OwnReply
  <2> QED
    BY <2>5, <2>6, <2>7, <2>8 DEF ReplyInv
<1> QED
  BY <1>5, <1>6 DEF Write

\* A caller that waits takes its reply, falls asleep, or gives up.
LEMMA WaitReply ==
  ASSUME HeldInv, ReplyInv, NEW t \in Callers,
         CheckTake(t) \/ CheckSleep(t) \/ WakeAbort(t) \/ WakeTake(t) \/ Timeout(t)
  PROVE  ReplyInv'
<1>1. /\ pc[t] \in InMap /\ pc[t] \in Waiting
      /\ UNCHANGED <<nextId, toServer, fromServer, hand>> /\ pending' \subseteq pending
      /\ nextId \in Nat /\ req \in [Callers -> Request]
      /\ \A u \in Callers : u # t => pc[u] = "idle"
  BY DEF CheckTake, CheckSleep, WakeAbort, WakeTake, Timeout, Take, readerVars, server,
         InMap, Waiting, HeldInv, TypeOK, ReplyInv, OneCall
<1>2. \A u \in Callers : req[u].id < nextId
  BY DEF ReplyInv, Fresh
<1>3. ASSUME NEW m \in SUBSET Message, EndRequest(t, m), UNCHANGED req,
             m \subseteq Mine(t)
      PROVE  ReplyInv'
  <2>1. \A x \in m : x.kind # "request" => x.call = req[t].call
    BY <1>1, <1>3 DEF Mine, ReplyInv, Owned, Messages
  <2> QED
    BY <1>1, <1>2, <1>3, <2>1, EndReply
<1>4. CASE CheckTake(t) \/ WakeTake(t)
  <2>1. /\ EndRequest(t, {m \in Mine(t) : m.kind # "error"}) /\ UNCHANGED req
    BY <1>4 DEF CheckTake, WakeTake, Take
  <2>2. Mine(t) \subseteq Message
    BY DEF Mine, HeldInv, TypeOK
  <2> QED
    BY <1>3, <2>1, <2>2
<1>5. CASE WakeAbort(t)
  BY <1>3, <1>5 DEF WakeAbort
<1>6. CASE CheckSleep(t)
  <2>1. pc' = [pc EXCEPT ![t] = "asleep"] /\ UNCHANGED <<req, result, pending>>
    BY <1>6 DEF CheckSleep, Goto
  <2>2. OneCall' /\ OwnReply' /\ Fresh'
    BY <1>1, <2>1 DEF HeldInv, TypeOK, ReplyInv, OneCall, OwnReply, Fresh, Messages
  <2>3. Owned'
    BY <1>1, <2>1 DEF HeldInv, TypeOK, ReplyInv, Owned, Messages, InMap
  <2> QED
    BY <2>2, <2>3 DEF ReplyInv
<1>7. CASE Timeout(t)
  <2>1. CASE EndRequest(t, {}) /\ UNCHANGED req
    BY <1>3, <2>1
  <2>2. CASE /\ req' = [req EXCEPT ![t].attempt = 2]
             /\ Goto(t, "send") /\ UNCHANGED result
    <3>1. \A u \in Callers : req'[u].id = req[u].id /\ req'[u].call = req[u].call
      BY <1>1, <2>2 DEF Request
    <3>2. pc' = [pc EXCEPT ![t] = "send"]
      BY <2>2 DEF Goto
    <3>3. Messages' \subseteq Messages
      BY <1>1 DEF Messages
    <3>4. OneCall'
      BY <1>1, <3>2 DEF HeldInv, TypeOK, OneCall
    <3>5. Fresh' /\ OwnReply'
      BY <1>1, <2>2, <3>1, <3>3 DEF ReplyInv, Fresh, OwnReply
    <3>6. Owned'
      BY <1>1, <3>2 DEF HeldInv, TypeOK, Owned, InMap
    <3> QED
      BY <3>4, <3>5, <3>6 DEF ReplyInv
  <2> QED
    BY <1>7, <2>1, <2>2 DEF Timeout
<1> QED
  BY <1>4, <1>5, <1>6, <1>7

LEMMA StepReply ==
  ASSUME Overlap = FALSE
  PROVE  HeldInv /\ ReplyInv /\ [Next]_vars => ReplyInv'
<1> SUFFICES ASSUME HeldInv, ReplyInv, [Next]_vars PROVE ReplyInv'
  OBVIOUS
<1>1. CASE UNCHANGED vars
  BY <1>1, MovesReply DEF vars, readerVars, server, Messages
<1>2. ASSUME NEW t \in Callers, InRequest(t) PROVE ReplyInv'
  BY <1>2, WriteReply, WaitReply DEF InRequest
<1> QED
  BY <1>1, <1>2, ReaderServerReply, StartStopReply DEF Next

\* A caller gets the reply to its own request or none (LSPBridge.cpp:293-360, 446-461),
\* for any number of sessions, queries and ids of the server, when the calls of the two
\* threads do not overlap.
THEOREM Replies ==
  ASSUME Overlap = FALSE
  PROVE  Spec => []OwnReply
<1>1. HeldInv /\ ReplyInv /\ [Next]_vars => ReplyInv'
  BY StepReply
<1>2. ReplyInv => OwnReply
  BY DEF ReplyInv
<1> QED
  BY <1>1, <1>2, InitReply, Held, PTL DEF Spec
=============================================================================
