-------------------------- MODULE PipedProcessProofs --------------------------
(***************************************************************************)
(* Proofs about PipedProcess, for any number of control threads, launches, *)
(* calls and exit codes: the inductive invariant IInv, the safety          *)
(* properties it implies, and the refinement of ChildHandle.               *)
(***************************************************************************)
EXTENDS PipedProcess, TLAPS

(* ---------------------- the inductive invariant ------------------------ *)
\* Who may be where: only the owner spawns, only the reader reads.
Roles ==
  /\ \A t \in Control : pc[t] \notin {"reading", "done"}
  /\ \A t \in Control : pc[t] = "spawn" => t = Owner
  /\ pc[Reader] \in {"idle", "reading", "done"}

\* A control thread past the re-test owns the mutex of a started impl.
LockInv ==
  \A t \in Control :
    pc[t] \in Critical => ctlMutex[my[t]] = t /\ started[my[t]]

\* Every call in progress works on the impl in the slot.
SlotInv ==
  /\ \A t \in Control : pc[t] \in Inside => my[t] = slot /\ slot # 0
  /\ pc[Reader] = "reading" => my[Reader] = slot /\ slot # 0

\* Only the impl in the slot is started, it has a child, and nobody saw it end.
StartedInv ==
  \A g \in Gens : started[g] => g = slot /\ seen[g] = "no" /\ child[g] # "none"

\* Impls not made yet, and the one whose spawn is pending, are untouched.
FreshInv ==
  /\ \A g \in Gens : g > slot => child[g] = "none" /\ ~started[g] /\ seen[g] = "no"
  /\ pc[Owner] = "spawn" =>
       slot # 0 /\ child[slot] = "none" /\ ~started[slot] /\ seen[slot] = "no"

IInv == /\ TypeOK /\ Roles /\ LockInv /\ SlotInv /\ StartedInv /\ FreshInv
        /\ ExitCodeContract /\ NoLostChild

-----------------------------------------------------------------------------
\* The initial state satisfies the invariant.
LEMMA InitIInv == Init => IInv
  <1> SUFFICES ASSUME Init PROVE IInv
    OBVIOUS
  <1> USE ConstantsAssumption DEF Init, Gens, Threads
  <1>1. TypeOK
    BY DEF TypeOK
  <1>2. Roles /\ LockInv /\ SlotInv
    BY DEF Roles, LockInv, SlotInv, Critical, Inside
  <1>3. StartedInv /\ FreshInv /\ ExitCodeContract /\ NoLostChild
    BY DEF StartedInv, FreshInv, ExitCodeContract, NoLostChild
  <1> QED
    BY <1>1, <1>2, <1>3 DEF IInv

\* Which labels and threads there are.
LEMMA Labels ==
  /\ Control \subseteq Threads /\ Owner \in Control /\ Reader \in Threads
  /\ {"grace", "term", "kill", "poll", "stopLock", "pollLock", "writing"} \subseteq Inside
  BY ConstantsAssumption DEF Threads, Inside, Critical

\* Every step of every thread and of the child preserves it.
LEMMA NextIInv == IInv /\ [Next]_vars => IInv'
  <1> SUFFICES ASSUME TypeOK, Roles, LockInv, SlotInv, StartedInv, FreshInv,
                      ExitCodeContract, NoLostChild, [Next]_vars
               PROVE  IInv'
    BY DEF IInv
  <1> USE ConstantsAssumption
      DEF Gens, Threads, Critical, Inside, SlotStarted, implVars, childVars
  <1>1. CASE StartClaim
    <2>1. TypeOK'
      <3> HIDE DEF Gens, Threads, Critical, Inside
      <3> QED BY <1>1, Labels DEF TypeOK, SlotInv, StartClaim
    <2>2. Roles'
      BY <1>1 DEF Roles, TypeOK, StartClaim
    <2>3. LockInv'
      BY <1>1 DEF LockInv, TypeOK, SlotInv, StartClaim
    <2>4. SlotInv'
      BY <1>1 DEF SlotInv, TypeOK, Roles, StartClaim
    <2>5. StartedInv'
      BY <1>1 DEF StartedInv, TypeOK, SlotInv, FreshInv, StartClaim
    <2>6. FreshInv'
      BY <1>1 DEF FreshInv, TypeOK, SlotInv, LockInv, StartedInv, StartClaim
    <2>7. ExitCodeContract'
      BY <1>1 DEF ExitCodeContract, TypeOK, SlotInv, LockInv, StartedInv,
         FreshInv, NoLostChild, StartClaim
    <2>8. NoLostChild'
      BY <1>1 DEF NoLostChild, TypeOK, SlotInv, LockInv, StartedInv,
         FreshInv, StartClaim
    <2> QED
      BY <2>1, <2>2, <2>3, <2>4, <2>5, <2>6, <2>7, <2>8 DEF IInv
  <1>2. CASE StartSpawn
    <2>1. TypeOK'
      <3> HIDE DEF Gens, Threads, Critical, Inside
      <3> QED BY <1>2, Labels DEF TypeOK, SlotInv, StartSpawn, Return
    <2>2. Roles'
      BY <1>2 DEF Roles, TypeOK, StartSpawn, Return
    <2>3. LockInv'
      BY <1>2 DEF LockInv, TypeOK, SlotInv, StartSpawn, Return
    <2>4. SlotInv'
      BY <1>2 DEF SlotInv, TypeOK, Roles, StartSpawn, Return
    <2>5. StartedInv'
      BY SMTT(30), <1>2 DEF StartedInv, TypeOK, SlotInv, FreshInv, StartSpawn, Return
    <2>6. FreshInv'
      BY <1>2 DEF FreshInv, TypeOK, SlotInv, LockInv, StartedInv,
         StartSpawn, Return
    <2>7. NoLostChild'
      BY <1>2 DEF NoLostChild, TypeOK, SlotInv, LockInv, StartedInv,
         FreshInv, StartSpawn, Return
    <2>8. ExitCodeContract'
      BY <1>2 DEF ExitCodeContract, StartSpawn, Return
    <2> QED
      BY <2>1, <2>2, <2>3, <2>4, <2>5, <2>6, <2>7, <2>8 DEF IInv
  <1>3. ASSUME NEW t \in Control, StopCall(t) PROVE IInv'
    <2>1. TypeOK'
      <3> HIDE DEF Gens, Threads, Critical, Inside
      <3> QED BY <1>3, Labels DEF TypeOK, SlotInv, StopCall, Begin
    <2>2. Roles'
      BY <1>3 DEF Roles, TypeOK, StopCall, Begin
    <2>3. LockInv'
      BY <1>3 DEF LockInv, TypeOK, SlotInv, StopCall, Begin
    <2>4. SlotInv'
      BY <1>3 DEF SlotInv, TypeOK, Roles, StopCall, Begin
    <2>5. FreshInv'
      BY <1>3 DEF FreshInv, TypeOK, SlotInv, LockInv, StartedInv, StopCall,
         Begin
    <2>6. StartedInv' /\ ExitCodeContract' /\ NoLostChild'
      BY <1>3 DEF StartedInv, ExitCodeContract, NoLostChild, StopCall, Begin
    <2> QED
      BY <2>1, <2>2, <2>3, <2>4, <2>5, <2>6 DEF IInv
  <1>4. ASSUME NEW t \in Control, IsRunningCall(t) PROVE IInv'
    <2>1. TypeOK'
      <3> HIDE DEF Gens, Threads, Critical, Inside
      <3> QED BY <1>4, Labels DEF TypeOK, SlotInv, IsRunningCall, Begin
    <2>2. Roles'
      BY <1>4 DEF Roles, TypeOK, IsRunningCall, Begin
    <2>3. LockInv'
      BY <1>4 DEF LockInv, TypeOK, SlotInv, IsRunningCall, Begin
    <2>4. SlotInv'
      BY <1>4 DEF SlotInv, TypeOK, Roles, IsRunningCall, Begin
    <2>5. FreshInv'
      BY <1>4 DEF FreshInv, TypeOK, SlotInv, LockInv, StartedInv,
         IsRunningCall, Begin
    <2>6. StartedInv' /\ ExitCodeContract' /\ NoLostChild'
      BY <1>4 DEF StartedInv, ExitCodeContract, NoLostChild, IsRunningCall,
         Begin
    <2> QED
      BY <2>1, <2>2, <2>3, <2>4, <2>5, <2>6 DEF IInv
  <1>5. ASSUME NEW t \in Control, StopLock(t) PROVE IInv'
    <2>1. my[t] = slot /\ my[t] \in Gens
      BY <1>5 DEF TypeOK, SlotInv, StopLock, Lock
    <2>2. TypeOK'
      <3> HIDE DEF Gens, Threads, Critical, Inside
      <3> QED BY <1>5, <2>1, Labels DEF TypeOK, StopLock, Lock, Return
    <2>3. Roles'
      BY SMTT(30), <1>5, <2>1 DEF Roles, TypeOK, StopLock, Lock, Return
    <2>4. LockInv'
      BY SMTT(30), <1>5, <2>1 DEF LockInv, SlotInv, TypeOK, StopLock, Lock, Return
    <2>5. SlotInv'
      BY <1>5, <2>1 DEF SlotInv, TypeOK, Roles, StopLock, Lock, Return
    <2>6. FreshInv'
      BY <1>5, <2>1 DEF FreshInv, TypeOK, LockInv, StartedInv, StopLock,
         Lock, Return
    <2>7. StartedInv' /\ ExitCodeContract' /\ NoLostChild'
      BY <1>5 DEF StartedInv, ExitCodeContract, NoLostChild, StopLock, Lock,
         Return
    <2> QED
      BY <2>1, <2>2, <2>3, <2>4, <2>5, <2>6, <2>7 DEF IInv
  <1>6. ASSUME NEW t \in Control, IsRunningLock(t) PROVE IInv'
    <2>1. my[t] = slot /\ my[t] \in Gens
      BY <1>6 DEF TypeOK, SlotInv, IsRunningLock, Lock
    <2>2. TypeOK'
      <3> HIDE DEF Gens, Threads, Critical, Inside
      <3> QED BY <1>6, <2>1, Labels DEF TypeOK, IsRunningLock, Lock, Return
    <2>3. Roles'
      BY SMTT(30), <1>6, <2>1 DEF Roles, TypeOK, IsRunningLock, Lock, Return
    <2>4. LockInv'
      BY SMTT(30), <1>6, <2>1 DEF LockInv, SlotInv, TypeOK, IsRunningLock, Lock,
         Return
    <2>5. SlotInv'
      BY <1>6, <2>1 DEF SlotInv, TypeOK, Roles, IsRunningLock, Lock, Return
    <2>6. FreshInv'
      BY <1>6, <2>1 DEF FreshInv, TypeOK, LockInv, StartedInv,
         IsRunningLock, Lock, Return
    <2>7. StartedInv' /\ ExitCodeContract' /\ NoLostChild'
      BY <1>6 DEF StartedInv, ExitCodeContract, NoLostChild, IsRunningLock,
         Lock, Return
    <2> QED
      BY <2>1, <2>2, <2>3, <2>4, <2>5, <2>6, <2>7 DEF IInv
  <1>7. ASSUME NEW t \in Control, GraceExit(t) PROVE IInv'
    <2>1. my[t] = slot /\ my[t] \in Gens
      BY <1>7 DEF TypeOK, SlotInv, GraceExit
    <2>2. TypeOK'
      <3> HIDE DEF Gens, Threads, Critical, Inside
      <3> QED BY <1>7, <2>1, Labels DEF TypeOK, GraceExit, WaitSucceeds, Finish, Return
    <2>3. Roles'
      BY <1>7, <2>1 DEF Roles, TypeOK, GraceExit, WaitSucceeds, Finish,
         Return
    <2>4. LockInv'
      BY SMTT(30), <1>7, <2>1 DEF LockInv, TypeOK, GraceExit, WaitSucceeds, Finish,
         Return
    <2>5. SlotInv'
      BY <1>7, <2>1 DEF SlotInv, TypeOK, Roles, GraceExit, WaitSucceeds,
         Finish, Return
    <2>6. StartedInv'
      BY <1>7, <2>1 DEF StartedInv, TypeOK, FreshInv, GraceExit,
         WaitSucceeds, Finish, Return
    <2>7. FreshInv'
      BY <1>7, <2>1 DEF FreshInv, TypeOK, LockInv, StartedInv, GraceExit,
         WaitSucceeds, Finish, Return
    <2>8. ExitCodeContract'
      BY <1>7, <2>1 DEF ExitCodeContract, TypeOK, LockInv, StartedInv,
         FreshInv, NoLostChild, GraceExit, WaitSucceeds, Finish, Return
    <2>9. NoLostChild'
      BY SMTT(30), <1>7, <2>1 DEF NoLostChild, TypeOK, LockInv, StartedInv, FreshInv,
         GraceExit, WaitSucceeds, Finish, Return
    <2> QED
      BY <2>1, <2>2, <2>3, <2>4, <2>5, <2>6, <2>7, <2>8, <2>9 DEF IInv
  <1>8. ASSUME NEW t \in Control, GraceTimeout(t) PROVE IInv'
    <2>1. my[t] = slot /\ my[t] \in Gens
      BY <1>8 DEF TypeOK, SlotInv, GraceTimeout
    <2>2. TypeOK'
      <3> HIDE DEF Gens, Threads, Critical, Inside
      <3> QED BY <1>8, <2>1, Labels DEF TypeOK, GraceTimeout
    <2>3. Roles'
      BY <1>8, <2>1 DEF Roles, TypeOK, GraceTimeout
    <2>4. LockInv'
      BY <1>8, <2>1 DEF LockInv, TypeOK, GraceTimeout
    <2>5. SlotInv'
      BY <1>8, <2>1 DEF SlotInv, TypeOK, Roles, GraceTimeout
    <2>6. FreshInv'
      BY <1>8, <2>1 DEF FreshInv, TypeOK, LockInv, StartedInv, GraceTimeout
    <2>7. StartedInv' /\ ExitCodeContract' /\ NoLostChild'
      BY <1>8 DEF StartedInv, ExitCodeContract, NoLostChild, GraceTimeout
    <2> QED
      BY <2>1, <2>2, <2>3, <2>4, <2>5, <2>6, <2>7 DEF IInv
  <1>9. ASSUME NEW t \in Control, SigTerm(t) PROVE IInv'
    <2>1. my[t] = slot /\ my[t] \in Gens
      BY <1>9 DEF TypeOK, SlotInv, SigTerm
    <2>2. TypeOK'
      <3> HIDE DEF Gens, Threads, Critical, Inside
      <3> QED BY <1>9, <2>1, Labels DEF TypeOK, SigTerm
    <2>3. Roles'
      BY <1>9, <2>1 DEF Roles, TypeOK, SigTerm
    <2>4. LockInv'
      BY <1>9, <2>1 DEF LockInv, TypeOK, SigTerm
    <2>5. SlotInv'
      BY <1>9, <2>1 DEF SlotInv, TypeOK, Roles, SigTerm
    <2>6. StartedInv'
      BY <1>9, <2>1 DEF StartedInv, TypeOK, FreshInv, SigTerm
    <2>7. FreshInv'
      BY SMTT(30), <1>9, <2>1 DEF FreshInv, TypeOK, LockInv, StartedInv, SigTerm
    <2>8. NoLostChild'
      BY <1>9, <2>1 DEF NoLostChild, TypeOK, LockInv, StartedInv, FreshInv,
         SigTerm
    <2>9. ExitCodeContract'
      BY <1>9 DEF ExitCodeContract, SigTerm
    <2> QED
      BY <2>1, <2>2, <2>3, <2>4, <2>5, <2>6, <2>7, <2>8, <2>9 DEF IInv
  <1>10. ASSUME NEW t \in Control, SigKill(t) PROVE IInv'
    <2>1. my[t] = slot /\ my[t] \in Gens
      BY <1>10 DEF TypeOK, SlotInv, SigKill
    <2>2. TypeOK'
      <3> HIDE DEF Gens, Threads, Critical, Inside
      <3> QED BY <1>10, <2>1, Labels DEF TypeOK, SigKill, Finish, Return
    <2>3. Roles'
      BY <1>10, <2>1 DEF Roles, TypeOK, SigKill, Finish, Return
    <2>4. LockInv'
      BY <1>10, <2>1 DEF LockInv, TypeOK, SigKill, Finish, Return
    <2>5. SlotInv'
      BY <1>10, <2>1 DEF SlotInv, TypeOK, Roles, SigKill, Finish, Return
    <2>6. StartedInv'
      BY <1>10, <2>1 DEF StartedInv, TypeOK, FreshInv, SigKill, Finish,
         Return
    <2>7. FreshInv'
      BY <1>10, <2>1 DEF FreshInv, TypeOK, LockInv, StartedInv, SigKill,
         Finish, Return
    <2>8. ExitCodeContract'
      BY <1>10, <2>1 DEF ExitCodeContract, TypeOK, LockInv, StartedInv,
         FreshInv, NoLostChild, SigKill, Finish, Return
    <2>9. NoLostChild'
      BY <1>10, <2>1 DEF NoLostChild, TypeOK, LockInv, StartedInv, FreshInv,
         SigKill, Finish, Return
    <2> QED
      BY <2>1, <2>2, <2>3, <2>4, <2>5, <2>6, <2>7, <2>8, <2>9 DEF IInv
  <1>11. ASSUME NEW t \in Control, PollAlive(t) PROVE IInv'
    <2>1. my[t] = slot /\ my[t] \in Gens
      BY <1>11 DEF TypeOK, SlotInv, PollAlive
    <2>2. TypeOK'
      <3> HIDE DEF Gens, Threads, Critical, Inside
      <3> QED BY <1>11, <2>1, Labels DEF TypeOK, PollAlive, Return
    <2>3. Roles'
      BY <1>11, <2>1 DEF Roles, TypeOK, PollAlive, Return
    <2>4. LockInv'
      BY <1>11, <2>1 DEF LockInv, TypeOK, PollAlive, Return
    <2>5. SlotInv'
      BY <1>11, <2>1 DEF SlotInv, TypeOK, Roles, PollAlive, Return
    <2>6. FreshInv'
      BY <1>11, <2>1 DEF FreshInv, TypeOK, LockInv, StartedInv, PollAlive,
         Return
    <2>7. StartedInv' /\ ExitCodeContract' /\ NoLostChild'
      BY <1>11 DEF StartedInv, ExitCodeContract, NoLostChild, PollAlive,
         Return
    <2> QED
      BY <2>1, <2>2, <2>3, <2>4, <2>5, <2>6, <2>7 DEF IInv
  <1>12. ASSUME NEW t \in Control, PollExit(t) PROVE IInv'
    <2>1. my[t] = slot /\ my[t] \in Gens
      BY <1>12 DEF TypeOK, SlotInv, PollExit
    <2>2. TypeOK'
      <3> HIDE DEF Gens, Threads, Critical, Inside
      <3> QED BY <1>12, <2>1, Labels DEF TypeOK, PollExit, WaitSucceeds, Finish, Return
    <2>3. Roles'
      BY <1>12, <2>1 DEF Roles, TypeOK, PollExit, WaitSucceeds, Finish,
         Return
    <2>4. LockInv'
      BY SMTT(30), <1>12, <2>1 DEF LockInv, TypeOK, PollExit, WaitSucceeds, Finish,
         Return
    <2>5. SlotInv'
      BY <1>12, <2>1 DEF SlotInv, TypeOK, Roles, PollExit, WaitSucceeds,
         Finish, Return
    <2>6. StartedInv'
      BY <1>12, <2>1 DEF StartedInv, TypeOK, FreshInv, PollExit,
         WaitSucceeds, Finish, Return
    <2>7. FreshInv'
      BY <1>12, <2>1 DEF FreshInv, TypeOK, LockInv, StartedInv, PollExit,
         WaitSucceeds, Finish, Return
    <2>8. ExitCodeContract'
      BY <1>12, <2>1 DEF ExitCodeContract, TypeOK, LockInv, StartedInv,
         FreshInv, NoLostChild, PollExit, WaitSucceeds, Finish, Return
    <2>9. NoLostChild'
      BY SMTT(30), <1>12, <2>1 DEF NoLostChild, TypeOK, LockInv, StartedInv, FreshInv,
         PollExit, WaitSucceeds, Finish, Return
    <2> QED
      BY <2>1, <2>2, <2>3, <2>4, <2>5, <2>6, <2>7, <2>8, <2>9 DEF IInv
  <1>13. ASSUME NEW t \in Control, PollError(t) PROVE IInv'
    <2>1. my[t] = slot /\ my[t] \in Gens
      BY <1>13 DEF TypeOK, SlotInv, PollError
    <2>2. TypeOK'
      <3> HIDE DEF Gens, Threads, Critical, Inside
      <3> QED BY <1>13, <2>1, Labels DEF TypeOK, PollError, Finish, Return
    <2>3. Roles'
      BY <1>13, <2>1 DEF Roles, TypeOK, PollError, Finish, Return
    <2>4. LockInv'
      BY <1>13, <2>1 DEF LockInv, TypeOK, PollError, Finish, Return
    <2>5. SlotInv'
      BY <1>13, <2>1 DEF SlotInv, TypeOK, Roles, PollError, Finish, Return
    <2>6. StartedInv'
      BY <1>13, <2>1 DEF StartedInv, TypeOK, FreshInv, PollError, Finish,
         Return
    <2>7. FreshInv'
      BY <1>13, <2>1 DEF FreshInv, TypeOK, LockInv, StartedInv, PollError,
         Finish, Return
    <2>8. ExitCodeContract'
      BY <1>13, <2>1 DEF ExitCodeContract, TypeOK, LockInv, StartedInv,
         FreshInv, NoLostChild, PollError, Finish, Return
    <2>9. NoLostChild'
      BY <1>13, <2>1 DEF NoLostChild, TypeOK, LockInv, StartedInv, FreshInv,
         PollError, Finish, Return
    <2> QED
      BY <2>1, <2>2, <2>3, <2>4, <2>5, <2>6, <2>7, <2>8, <2>9 DEF IInv
  <1>14. CASE CloseStdin
    <2>1. TypeOK'
      <3>1. slot \in Gens
        BY <1>14 DEF TypeOK, SlotInv, CloseStdin
      <3> HIDE DEF Gens, Threads, Critical, Inside
      <3> QED BY <1>14, <3>1, Labels DEF TypeOK, SlotInv, CloseStdin
    <2>2. Roles' /\ LockInv' /\ SlotInv' /\ StartedInv' /\ FreshInv' /\ ExitCodeContract' /\ NoLostChild'
      BY <1>14 DEF Roles, LockInv, SlotInv, StartedInv, FreshInv,
         ExitCodeContract, NoLostChild, CloseStdin
    <2> QED
      BY <2>1, <2>2 DEF IInv
  <1>15. CASE WriteCall
    <2>1. TypeOK'
      <3> HIDE DEF Gens, Threads, Critical, Inside
      <3> QED BY <1>15, Labels DEF TypeOK, SlotInv, WriteCall, Begin
    <2>2. Roles'
      BY <1>15 DEF Roles, TypeOK, WriteCall, Begin
    <2>3. LockInv'
      BY <1>15 DEF LockInv, TypeOK, SlotInv, WriteCall, Begin
    <2>4. SlotInv'
      BY <1>15 DEF SlotInv, TypeOK, Roles, WriteCall, Begin
    <2>5. FreshInv'
      BY <1>15 DEF FreshInv, TypeOK, SlotInv, LockInv, StartedInv,
         WriteCall, Begin
    <2>6. StartedInv' /\ ExitCodeContract' /\ NoLostChild'
      BY <1>15 DEF StartedInv, ExitCodeContract, NoLostChild, WriteCall,
         Begin
    <2> QED
      BY <2>1, <2>2, <2>3, <2>4, <2>5, <2>6 DEF IInv
  <1>16. CASE WriteChunk
    <2>1. TypeOK'
      <3>1. my[Owner] \in Gens /\ inp[my[Owner]] \in 0..PipeCap
        BY <1>16 DEF TypeOK, SlotInv, WriteChunk
      <3> HIDE DEF Gens, Threads, Critical, Inside
      <3> QED BY <1>16, <3>1, Labels DEF TypeOK, SlotInv, WriteChunk, Return
    <2>2. Roles'
      BY <1>16 DEF Roles, TypeOK, WriteChunk, Return
    <2>3. LockInv'
      BY <1>16 DEF LockInv, TypeOK, SlotInv, WriteChunk, Return
    <2>4. SlotInv'
      BY <1>16 DEF SlotInv, TypeOK, Roles, WriteChunk, Return
    <2>5. FreshInv'
      BY <1>16 DEF FreshInv, TypeOK, SlotInv, LockInv, StartedInv,
         WriteChunk, Return
    <2>6. StartedInv' /\ ExitCodeContract' /\ NoLostChild'
      BY <1>16 DEF StartedInv, ExitCodeContract, NoLostChild, WriteChunk,
         Return
    <2> QED
      BY <2>1, <2>2, <2>3, <2>4, <2>5, <2>6 DEF IInv
  <1>17. CASE WriteFails
    <2>1. TypeOK'
      <3> HIDE DEF Gens, Threads, Critical, Inside
      <3> QED BY <1>17, Labels DEF TypeOK, SlotInv, WriteFails, Return
    <2>2. Roles'
      BY <1>17 DEF Roles, TypeOK, WriteFails, Return
    <2>3. LockInv'
      BY <1>17 DEF LockInv, TypeOK, SlotInv, WriteFails, Return
    <2>4. SlotInv'
      BY <1>17 DEF SlotInv, TypeOK, Roles, WriteFails, Return
    <2>5. FreshInv'
      BY <1>17 DEF FreshInv, TypeOK, SlotInv, LockInv, StartedInv,
         WriteFails, Return
    <2>6. StartedInv' /\ ExitCodeContract' /\ NoLostChild'
      BY <1>17 DEF StartedInv, ExitCodeContract, NoLostChild, WriteFails,
         Return
    <2> QED
      BY <2>1, <2>2, <2>3, <2>4, <2>5, <2>6 DEF IInv
  <1>18. CASE ReadCall
    <2>1. TypeOK'
      <3> HIDE DEF Gens, Threads, Critical, Inside
      <3> QED BY <1>18, Labels DEF TypeOK, SlotInv, ReadCall
    <2>2. Roles'
      BY <1>18 DEF Roles, TypeOK, ReadCall
    <2>3. LockInv'
      BY <1>18 DEF LockInv, TypeOK, SlotInv, ReadCall
    <2>4. SlotInv'
      BY <1>18 DEF SlotInv, TypeOK, Roles, ReadCall
    <2>5. FreshInv'
      BY <1>18 DEF FreshInv, TypeOK, SlotInv, LockInv, StartedInv, ReadCall
    <2>6. StartedInv' /\ ExitCodeContract' /\ NoLostChild'
      BY <1>18 DEF StartedInv, ExitCodeContract, NoLostChild, ReadCall
    <2> QED
      BY <2>1, <2>2, <2>3, <2>4, <2>5, <2>6 DEF IInv
  <1>19. CASE ReadRefused
    <2>1. TypeOK'
      <3> HIDE DEF Gens, Threads, Critical, Inside
      <3> QED BY <1>19, Labels DEF TypeOK, SlotInv, ReadRefused
    <2>2. Roles'
      BY <1>19 DEF Roles, TypeOK, ReadRefused
    <2>3. LockInv'
      BY <1>19 DEF LockInv, TypeOK, SlotInv, ReadRefused
    <2>4. SlotInv'
      BY <1>19 DEF SlotInv, TypeOK, Roles, ReadRefused
    <2>5. FreshInv'
      BY <1>19 DEF FreshInv, TypeOK, SlotInv, LockInv, StartedInv,
         ReadRefused
    <2>6. StartedInv' /\ ExitCodeContract' /\ NoLostChild'
      BY <1>19 DEF StartedInv, ExitCodeContract, NoLostChild, ReadRefused
    <2> QED
      BY <2>1, <2>2, <2>3, <2>4, <2>5, <2>6 DEF IInv
  <1>20. CASE ReadData
    <2>1. TypeOK'
      <3>1. my[Reader] \in Gens /\ out[my[Reader]] \in 0..PipeCap
        BY <1>20 DEF TypeOK, SlotInv, ReadData
      <3> HIDE DEF Gens, Threads, Critical, Inside
      <3> QED BY <1>20, <3>1, Labels DEF TypeOK, SlotInv, ReadData, Return
    <2>2. Roles'
      BY <1>20 DEF Roles, TypeOK, ReadData, Return
    <2>3. LockInv'
      BY <1>20 DEF LockInv, TypeOK, SlotInv, ReadData, Return
    <2>4. SlotInv'
      BY <1>20 DEF SlotInv, TypeOK, Roles, ReadData, Return
    <2>5. FreshInv'
      BY <1>20 DEF FreshInv, TypeOK, SlotInv, LockInv, StartedInv, ReadData,
         Return
    <2>6. StartedInv' /\ ExitCodeContract' /\ NoLostChild'
      BY <1>20 DEF StartedInv, ExitCodeContract, NoLostChild, ReadData,
         Return
    <2> QED
      BY <2>1, <2>2, <2>3, <2>4, <2>5, <2>6 DEF IInv
  <1>21. CASE ReadEof
    <2>1. TypeOK'
      <3> HIDE DEF Gens, Threads, Critical, Inside
      <3> QED BY <1>21, Labels DEF TypeOK, SlotInv, ReadEof
    <2>2. Roles'
      BY <1>21 DEF Roles, TypeOK, ReadEof
    <2>3. LockInv'
      BY <1>21 DEF LockInv, TypeOK, SlotInv, ReadEof
    <2>4. SlotInv'
      BY <1>21 DEF SlotInv, TypeOK, Roles, ReadEof
    <2>5. FreshInv'
      BY <1>21 DEF FreshInv, TypeOK, SlotInv, LockInv, StartedInv, ReadEof
    <2>6. StartedInv' /\ ExitCodeContract' /\ NoLostChild'
      BY <1>21 DEF StartedInv, ExitCodeContract, NoLostChild, ReadEof
    <2> QED
      BY <2>1, <2>2, <2>3, <2>4, <2>5, <2>6 DEF IInv
  <1>22. ASSUME NEW g \in Gens, ChildReads(g) PROVE IInv'
    <2>1. TypeOK'
      <3> HIDE DEF Gens, Threads, Critical, Inside
      <3> QED BY <1>22, Labels DEF TypeOK, SlotInv, ChildReads
    <2>2. Roles' /\ LockInv' /\ SlotInv' /\ StartedInv' /\ FreshInv' /\ ExitCodeContract' /\ NoLostChild'
      BY <1>22 DEF Roles, LockInv, SlotInv, StartedInv, FreshInv,
         ExitCodeContract, NoLostChild, ChildReads
    <2> QED
      BY <2>1, <2>2 DEF IInv
  <1>23. ASSUME NEW g \in Gens, ChildWrites(g) PROVE IInv'
    <2>1. TypeOK'
      <3> HIDE DEF Gens, Threads, Critical, Inside
      <3> QED BY <1>23, Labels DEF TypeOK, SlotInv, ChildWrites
    <2>2. Roles' /\ LockInv' /\ SlotInv' /\ StartedInv' /\ FreshInv' /\ ExitCodeContract' /\ NoLostChild'
      BY <1>23 DEF Roles, LockInv, SlotInv, StartedInv, FreshInv,
         ExitCodeContract, NoLostChild, ChildWrites
    <2> QED
      BY <2>1, <2>2 DEF IInv
  <1>24. ASSUME NEW g \in Gens, ChildForks(g) PROVE IInv'
    <2>1. TypeOK'
      <3> HIDE DEF Gens, Threads, Critical, Inside
      <3> QED BY <1>24, Labels DEF TypeOK, SlotInv, ChildForks
    <2>2. Roles' /\ LockInv' /\ SlotInv' /\ StartedInv' /\ FreshInv' /\ ExitCodeContract' /\ NoLostChild'
      BY <1>24 DEF Roles, LockInv, SlotInv, StartedInv, FreshInv,
         ExitCodeContract, NoLostChild, ChildForks
    <2> QED
      BY <2>1, <2>2 DEF IInv
  <1>25. ASSUME NEW g \in Gens, ChildExits(g) PROVE IInv'
    <2>1. TypeOK'
      <3> HIDE DEF Gens, Threads, Critical, Inside
      <3> QED BY <1>25, Labels DEF TypeOK, SlotInv, ChildExits
    <2>2. StartedInv'
      BY <1>25 DEF StartedInv, TypeOK, SlotInv, FreshInv, ChildExits
    <2>3. FreshInv'
      BY <1>25 DEF FreshInv, TypeOK, SlotInv, LockInv, StartedInv,
         ChildExits
    <2>4. ExitCodeContract'
      BY <1>25 DEF ExitCodeContract, TypeOK, SlotInv, LockInv, StartedInv,
         FreshInv, NoLostChild, ChildExits
    <2>5. NoLostChild'
      BY <1>25 DEF NoLostChild, TypeOK, SlotInv, LockInv, StartedInv,
         FreshInv, ChildExits
    <2>6. Roles' /\ LockInv' /\ SlotInv'
      BY <1>25 DEF Roles, LockInv, SlotInv, ChildExits
    <2> QED
      BY <2>1, <2>2, <2>3, <2>4, <2>5, <2>6 DEF IInv
  <1>26. CASE UNCHANGED vars
    BY <1>26 DEF vars, IInv, TypeOK, Roles, LockInv, SlotInv, StartedInv,
                 FreshInv, ExitCodeContract, NoLostChild
  <1> QED
    BY <1>1, <1>2, <1>3, <1>4, <1>5, <1>6, <1>7, <1>8, <1>9, <1>10, <1>11,
       <1>12, <1>13, <1>14, <1>15, <1>16, <1>17, <1>18, <1>19, <1>20, <1>21,
       <1>22, <1>23, <1>24, <1>25, <1>26
    DEF Next, OwnerStep, ControlStep, ReaderStep, ChildStep

-----------------------------------------------------------------------------
\* IInv holds in every reachable state.
THEOREM Invariance == Spec => []IInv
  BY InitIInv, NextIInv, PTL DEF Spec

\* Every variable keeps its type.
THEOREM TypeCorrect == Spec => []TypeOK
  BY Invariance, PTL DEF IInv

\* stop() and isRunning() never work on one process handle at the same time,
\* for any number of control threads (Process.cpp:1121-1127).
THEOREM Exclusion == Spec => []MutualExclusion
  <1>1. IInv => MutualExclusion
    BY DEF IInv, LockInv, MutualExclusion
  <1> QED
    BY Invariance, <1>1, PTL

\* exitCode() keeps its contract under any race of control calls
\* (Process.h:152-160).
THEOREM ExitCode == Spec => []ExitCodeContract
  BY Invariance, PTL DEF IInv

\* No running child is lost, but by a failed wait (Process.cpp:1177).
THEOREM NoneLost == Spec => []NoLostChild
  BY Invariance, PTL DEF IInv

-----------------------------------------------------------------------------
\* The object before its first start() is an idle handle.
LEMMA InitRefines == Init => Handle!Init
  BY DEF Init, Handle!Init, Phase, SlotStarted

\* A step that leaves the flag, the observation and the status alone stutters.
LEMMA StepStutters ==
  ASSUME UNCHANGED <<slot, started, seen, exitStatus>>
  PROVE  UNCHANGED Handle!vars
  BY DEF Handle!vars, Phase, SlotStarted

\* The step that records an end is Observe, with the status it records.
LEMMA FinishRefines ==
  ASSUME IInv, IInv', NEW t \in Control, NEW st, NEW how \in {"own", "forced", "error"},
         pc[t] \in Critical, Finish(t, st, how)
  PROVE  Handle!Observe
  <1> USE ConstantsAssumption DEF Gens
  <1>1. my[t] = slot /\ slot \in Gens /\ started[slot] /\ slot' = slot
    BY DEF IInv, LockInv, SlotInv, TypeOK, Inside, Finish
  <1>2. ~started'[slot] /\ seen'[slot] = how
    BY <1>1 DEF IInv, TypeOK, StartedInv, Finish
  <1>3. Phase = "running" /\ Phase' = "ended"
    BY <1>1, <1>2 DEF Phase, SlotStarted
  <1>4. exitStatus' \in Codes \cup {-1}
    BY DEF IInv, TypeOK
  <1> QED
    BY <1>3, <1>4 DEF Handle!Observe

\* Every step is a step of the handle, or changes nothing its user sees.
LEMMA NextRefines == IInv /\ IInv' /\ [Next]_vars => [Handle!Next]_(Handle!vars)
  <1> SUFFICES ASSUME IInv, IInv', [Next]_vars
               PROVE  [Handle!Next]_(Handle!vars)
    OBVIOUS
  <1> USE ConstantsAssumption DEF implVars, childVars
  <1>1. CASE StartClaim
    <2>1. slot + 1 \in Gens /\ ~started[slot + 1] /\ seen[slot + 1] = "no"
      BY <1>1 DEF IInv, FreshInv, TypeOK, Gens, StartClaim
    <2>2. Phase # "running" /\ Phase' = "idle" /\ exitStatus' = exitStatus
      BY <1>1, <2>1 DEF StartClaim, Phase, SlotStarted
    <2>3. Phase \in {"idle", "running", "ended"}
      BY DEF Phase
    <2> QED
      BY <2>2, <2>3 DEF Handle!Next, Handle!Discard, Handle!vars
  <1>2. CASE StartSpawn
    <2>1. slot # 0 /\ slot \in Gens /\ ~started[slot] /\ seen[slot] = "no"
      BY <1>2 DEF IInv, FreshInv, TypeOK, Gens, StartSpawn
    <2>2. Phase = "idle" /\ slot' = slot /\ seen' = seen /\ exitStatus' = exitStatus
      BY <1>2, <2>1 DEF StartSpawn, Phase, SlotStarted
    <2>3. CASE started' = started
      BY <2>2, <2>3, StepStutters
    <2>4. CASE started' = [started EXCEPT ![slot] = TRUE]
      <3>1. started'[slot]
        BY <2>1, <2>4 DEF IInv, TypeOK
      <3>2. Phase' = "running"
        BY <3>1, <2>1, <2>2 DEF Phase, SlotStarted
      <3> QED
        BY <3>2, <2>2 DEF Handle!Next, Handle!Launch
    <2> QED
      BY <1>2, <2>3, <2>4 DEF StartSpawn
  <1>3. ASSUME NEW t \in Control,
               GraceExit(t) \/ SigKill(t) \/ PollExit(t) \/ PollError(t)
        PROVE  Handle!Observe
    BY <1>3, FinishRefines DEF GraceExit, SigKill, PollExit, PollError, Critical
  <1>4. ASSUME NEW t \in Control,
               \/ StopCall(t) \/ IsRunningCall(t) \/ StopLock(t)
               \/ IsRunningLock(t) \/ GraceTimeout(t) \/ SigTerm(t) \/ PollAlive(t)
        PROVE  UNCHANGED Handle!vars
    BY <1>4, StepStutters DEF StopCall, IsRunningCall, StopLock, IsRunningLock,
       Lock, GraceTimeout, SigTerm, PollAlive
  <1>5. CASE CloseStdin \/ WriteCall \/ WriteChunk \/ WriteFails \/ ReaderStep
    BY <1>5, StepStutters DEF CloseStdin, WriteCall, WriteChunk, WriteFails,
       ReaderStep, ReadCall, ReadRefused, ReadData, ReadEof
  <1>6. ASSUME NEW g \in Gens, ChildStep(g)
        PROVE  UNCHANGED Handle!vars
    BY <1>6, StepStutters DEF ChildStep, ChildReads, ChildWrites, ChildForks,
       ChildExits
  <1>7. CASE UNCHANGED vars
    BY <1>7, StepStutters DEF vars
  <1> QED
    BY <1>1, <1>2, <1>3, <1>4, <1>5, <1>6, <1>7
    DEF Next, OwnerStep, ControlStep, Handle!Next

\* PipedProcess implements ChildHandle: whatever threads, launches and calls
\* there are, the status changes once per launch, when its end is observed.
THEOREM Refinement == Spec => HandleSpec
  BY InitRefines, NextRefines, Invariance, PTL DEF Spec, HandleSpec, Handle!Spec
=============================================================================
