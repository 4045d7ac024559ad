--------------------------- MODULE PlatformProofs ---------------------------
(***************************************************************************)
(* Proofs about what the platform library and the backend cache leave      *)
(* behind: the files of a command that stubs sources come back, the tree of *)
(* installed backends implements the store of immutable versions, and a    *)
(* bounded capture leaves no process and loses no byte; for any number of  *)
(* files, versions, commands and processes.                                *)
(***************************************************************************)
EXTENDS StubbedSources, BackendCache, BoundedCapture, TLAPS, SequenceTheorems,
        FiniteSetTheorems

-----------------------------------------------------------------------------
(* Stubbed sources.  What has to be known in the middle of a task.         *)

Working == {"next", "stub", "run", "writeBack", "done"}

StubTypes ==
  /\ home \in Homes
  /\ tree \in [Sources -> SUBSET (0..3)]
  /\ DOMAIN saved \subseteq Sources
  /\ \A f \in DOMAIN saved : saved[f] \subseteq 0..3
  /\ lost \in BOOLEAN
  /\ fails \in Nat
  /\ succeeded \in BOOLEAN
  /\ spc \in Working \cup {"thrown", "unguarded"}

\* What was saved can be written back to leave every file as it was.
SavedAsFound ==
  ~lost /\ spc \in Working =>
    \A f \in Sources : IF f \in DOMAIN saved THEN AsLeft(saved[f]) ELSE AsLeft(tree[f])

NoneOpen == spc \in {"next", "done"} => DOMAIN saved = {}

\* A restore that failed is told by a test that failed.
LossIsTold == lost /\ spc \in Working => fails > 0

\* The stubs in the files are those of the task, as far as it came.
StubsAreOwn ==
  /\ spc = "stub" => left \subseteq task
  /\ spc = "run" => left = {}
  /\ ~lost /\ spc \in {"stub", "run"} =>
       \A fn \in Functions :
         Stubbed(fn) <=> fn \in task \ left /\ home[fn] # {}

\* A stage is tested one function at a time.
OneEach ==
  kind = "stage" =>
    /\ \A t \in tasks : \E f : t[2] = {f}
    /\ spc = "stub" /\ left # {} => DOMAIN saved = {} /\ \E f : left = {f}

ThrownClean == spc = "thrown" /\ ~lost => \A f \in Sources : AsLeft(tree[f])

StubInv ==
  /\ StubTypes /\ SavedAsFound /\ NoneOpen /\ LossIsTold
  /\ StubsAreOwn /\ OneEach /\ ThrownClean

-----------------------------------------------------------------------------
\* Writing back what was saved leaves every file without a stub, unless one is
\* seen to fail, which is kept in mind.
LEMMA WriteBackClears ==
  ASSUME StubTypes, SavedAsFound, spc \in Working, kind' = kind,
         NEW broken \in SUBSET DOMAIN saved, WriteBack(broken)
  PROVE  /\ tree' \in [Sources -> SUBSET (0..3)]
         /\ home' \in Homes
         /\ lost' \in BOOLEAN
         /\ lost' <=> lost \/ broken # {}
         /\ ~lost' => \A f \in Sources : AsLeft(tree[f])'
<1>1. PICK torn \in SUBSET (IF kind = "prune" THEN DOMAIN saved \ broken ELSE {}) :
        /\ tree' = [f \in Sources |->
                      IF f \in torn THEN Destroyed
                      ELSE IF f \in DOMAIN saved \ broken THEN saved[f] ELSE tree[f]]
        /\ Rehome(torn)
        /\ lost' = (lost \/ broken # {})
  BY DEF WriteBack
<1>2. tree' \in [Sources -> SUBSET (0..3)]
  BY <1>1 DEF StubTypes, Destroyed
<1>3. home' \in Homes
  BY <1>1 DEF Rehome
<1>4. lost' \in BOOLEAN /\ (lost' <=> lost \/ broken # {})
  BY <1>1 DEF StubTypes
<1>5. ASSUME ~lost', NEW f \in Sources PROVE AsLeft(tree[f])'
  <2>1. ~lost /\ broken = {}
    BY <1>4, <1>5
  <2>2. IF f \in DOMAIN saved THEN AsLeft(saved[f]) ELSE AsLeft(tree[f])
    BY <2>1 DEF SavedAsFound
  <2>3. CASE f \in torn
    BY <1>1, <2>3 DEF AsLeft
  <2>4. CASE f \notin torn
    BY <1>1, <2>1, <2>2, <2>4 DEF AsLeft
  <2> QED
    BY <2>3, <2>4
<1> QED
  BY <1>2, <1>3, <1>4, <1>5

\* With nothing saved, what is left alone is as good as written back.
LEMMA NothingSaved ==
  ASSUME StubTypes, DOMAIN saved = {}, UNCHANGED <<home, kind, tree, lost>>
  PROVE  WriteBack({})
<1>1. /\ tree' = [f \in Sources |->
                    IF f \in {} THEN Destroyed
                    ELSE IF f \in DOMAIN saved \ {} THEN saved[f] ELSE tree[f]]
      /\ Rehome({})
      /\ lost' = (lost \/ {} # {})
  BY DEF StubTypes, Rehome
<1> QED
  BY <1>1 DEF WriteBack

\* A test that counts leaves nothing open, and fails grows if it failed.
LEMMA TallyCounts ==
  ASSUME StubTypes, NEW passed \in BOOLEAN, Tally(passed)
  PROVE  /\ spc' = "next" /\ saved' = NotSaved
         /\ fails' \in Nat
         /\ fails' >= fails
         /\ ~passed => fails' > 0
         /\ succeeded' = FALSE
  BY DEF Tally, StubTypes

\* At the beginning every file is as the user left it.
LEMMA InitHolds == StubInit => StubInv
<1> SUFFICES ASSUME StubInit PROVE StubInv
  OBVIOUS
<1>1. DOMAIN saved = {}
  BY DEF StubInit, NotSaved
<1>2. StubTypes
  <2>1. /\ home \in Homes /\ tree = [f \in Sources |-> {}]
        /\ lost = FALSE /\ fails = 0 /\ succeeded = FALSE /\ spc = "next"
    BY DEF StubInit
  <2> QED
    BY <1>1, <2>1 DEF StubTypes, Working
<1>3. SavedAsFound /\ NoneOpen /\ LossIsTold /\ StubsAreOwn /\ ThrownClean
  BY <1>1 DEF StubInit, SavedAsFound, NoneOpen, LossIsTold, StubsAreOwn, ThrownClean, AsLeft
<1>4. OneEach
  <2> SUFFICES ASSUME kind = "stage", NEW t \in tasks PROVE \E f : t[2] = {f}
    BY DEF StubInit, OneEach
  <2>1. PICK c \in CallSets : tasks = StageTasks(c)
    BY DEF StubInit
  <2>2. PICK d \in c : t = <<d[2], {d[1]}>>
    BY <2>1 DEF StageTasks
  <2>3. t[2] = {d[1]}
    BY <2>2
  <2> QED
    BY <2>3
<1> QED
  BY <1>2, <1>3, <1>4 DEF StubInv

\* What holds after a test that was counted.
LEMMA Ended ==
  ASSUME StubInv, spc \in Working,
         NEW broken \in SUBSET DOMAIN saved, WriteBack(broken),
         NEW passed \in BOOLEAN, Tally(passed), broken # {} => ~passed,
         tasks' \subseteq tasks, kind' = kind
  PROVE  StubInv'
<1>1. StubTypes /\ SavedAsFound /\ LossIsTold /\ OneEach
  BY DEF StubInv
<1>2. /\ tree' \in [Sources -> SUBSET (0..3)]
      /\ home' \in Homes
      /\ lost' \in BOOLEAN
      /\ lost' <=> lost \/ broken # {}
      /\ ~lost' => \A f \in Sources : AsLeft(tree[f])'
  BY <1>1, WriteBackClears
<1>3. /\ spc' = "next" /\ saved' = NotSaved /\ succeeded' = FALSE
      /\ fails' \in Nat /\ fails' >= fails
      /\ ~passed => fails' > 0
  BY <1>1, TallyCounts
<1>4. DOMAIN saved' = {}
  BY <1>3 DEF NotSaved
<1>5. StubTypes'
  BY <1>1, <1>2, <1>3, <1>4 DEF StubTypes, Working
<1>6. SavedAsFound' /\ NoneOpen' /\ StubsAreOwn' /\ ThrownClean'
  BY <1>2, <1>3, <1>4 DEF SavedAsFound, NoneOpen, StubsAreOwn, ThrownClean
<1>7. LossIsTold'
  BY <1>1, <1>2, <1>3 DEF LossIsTold, StubTypes
<1>8. OneEach'
  BY <1>1, <1>3 DEF OneEach
<1> QED
  BY <1>5, <1>6, <1>7, <1>8 DEF StubInv

\* What holds after an exception that a guard caught.
LEMMA Caught ==
  ASSUME StubInv, spc \in Working,
         NEW broken \in SUBSET DOMAIN saved, WriteBack(broken),
         spc' = "thrown",
         UNCHANGED <<kind, tasks, task, left, saved, succeeded, passes, fails>>
  PROVE  StubInv'
<1>1. StubTypes /\ SavedAsFound
  BY DEF StubInv
<1>2. /\ tree' \in [Sources -> SUBSET (0..3)]
      /\ home' \in Homes
      /\ lost' \in BOOLEAN
      /\ ~lost' => \A f \in Sources : AsLeft(tree[f])'
  BY <1>1, WriteBackClears
<1>3. StubTypes'
  BY <1>1, <1>2 DEF StubTypes
<1>4. SavedAsFound' /\ NoneOpen' /\ LossIsTold' /\ StubsAreOwn' /\ ThrownClean'
  BY <1>2 DEF SavedAsFound, NoneOpen, LossIsTold, StubsAreOwn, ThrownClean, Working
<1>5. OneEach'
  BY DEF StubInv, OneEach
<1> QED
  BY <1>3, <1>4, <1>5 DEF StubInv

\* A stub: the file is saved if it was not, and holds one more.
LEMMA StubStep ==
  ASSUME StubInv, NEW fn \in Functions, Stub(fn)
  PROVE  StubInv'
<1>1. PICK f \in home[fn] : tree' = [tree EXCEPT ![f] = @ \cup {fn}] /\ Save(f)
  BY DEF Stub
<1>2. /\ spc = "stub" /\ spc' = "stub" /\ fn \in left /\ left' = left \ {fn}
      /\ UNCHANGED <<home, kind, tasks, task, succeeded, fails, lost>>
  BY DEF Stub
<1>3. StubTypes /\ SavedAsFound /\ LossIsTold /\ StubsAreOwn /\ OneEach
  BY DEF StubInv
<1>4. f \in Sources /\ home[fn] = {f}
  BY <1>1, <1>3 DEF StubTypes, Homes
<1>5. /\ DOMAIN saved' = DOMAIN saved \cup {f}
      /\ \A g \in DOMAIN saved : saved'[g] = saved[g]
      /\ f \notin DOMAIN saved => saved'[f] = tree[f]
  BY <1>1 DEF Save
<1>6. StubTypes'
  <2>1. tree' \in [Sources -> SUBSET (0..3)]
    BY <1>1, <1>3, <1>4 DEF StubTypes, Functions
  <2>2. \A g \in DOMAIN saved' : saved'[g] \subseteq 0..3
    BY <1>3, <1>4, <1>5 DEF StubTypes
  <2> QED
    BY <1>2, <1>3, <1>4, <1>5, <2>1, <2>2 DEF StubTypes
<1>7. SavedAsFound'
  <2> SUFFICES ASSUME ~lost, NEW g \in Sources
               PROVE  IF g \in DOMAIN saved' THEN AsLeft(saved[g])' ELSE AsLeft(tree[g])'
    BY <1>2 DEF SavedAsFound
  <2>1. IF g \in DOMAIN saved THEN AsLeft(saved[g]) ELSE AsLeft(tree[g])
    BY <1>2, <1>3 DEF SavedAsFound, Working
  <2>2. CASE g = f
    BY <1>2, <1>5, <2>1, <2>2 DEF AsLeft
  <2>3. CASE g # f
    <3>1. tree'[g] = tree[g]
      BY <1>1, <1>3, <2>3 DEF StubTypes
    <3> QED
      BY <1>2, <1>5, <2>1, <2>3, <3>1 DEF AsLeft
  <2> QED
    BY <2>2, <2>3
<1>8. StubsAreOwn'
  <2>1. left' \subseteq task'
    BY <1>2, <1>3 DEF StubsAreOwn
  <2>2. ASSUME ~lost, NEW h \in Functions
        PROVE  Stubbed(h)' <=> h \in task' \ left' /\ home'[h] # {}
    <3>1. Stubbed(h) <=> h \in task \ left /\ home[h] # {}
      BY <1>2, <1>3, <2>2 DEF StubsAreOwn
    <3>2. fn \in task /\ home[fn] # {}
      BY <1>2, <1>3, <1>4 DEF StubsAreOwn
    <3>3. Stubbed(h)' <=> Stubbed(h) \/ h = fn
      <4>1. \A g \in Sources : tree'[g] = IF g = f THEN tree[g] \cup {fn} ELSE tree[g]
        BY <1>1, <1>3 DEF StubTypes
      <4> QED
        BY <1>4, <4>1 DEF Stubbed
    <3> QED
      BY <1>2, <3>1, <3>2, <3>3
  <2> QED
    BY <1>2, <2>1, <2>2 DEF StubsAreOwn
<1>9. NoneOpen' /\ LossIsTold' /\ ThrownClean'
  BY <1>2, <1>3 DEF NoneOpen, LossIsTold, ThrownClean, Working
<1>10. OneEach'
  BY <1>2, <1>3 DEF OneEach
<1> QED
  BY <1>6, <1>7, <1>8, <1>9, <1>10 DEF StubInv

\* A function of no file: nothing was stubbed yet where that fails the test.
LEMMA NoSourceStep ==
  ASSUME StubInv, NEW fn \in Functions, NoSource(fn)
  PROVE  StubInv'
<1>1. /\ spc = "stub" /\ fn \in left /\ home[fn] = {}
      /\ UNCHANGED <<home, kind, tasks, tree, lost>>
  BY DEF NoSource
<1>2. StubTypes /\ SavedAsFound /\ LossIsTold /\ StubsAreOwn /\ OneEach
  BY DEF StubInv
<1>3. CASE kind # "stage"
  <2>1. left' = left \ {fn} /\ UNCHANGED <<task, spc, saved, succeeded, fails>>
    BY <1>3 DEF NoSource
  <2>2. StubTypes' /\ SavedAsFound' /\ NoneOpen' /\ LossIsTold' /\ ThrownClean' /\ OneEach'
    BY <1>1, <1>2, <1>3, <2>1
    DEF StubTypes, SavedAsFound, NoneOpen, LossIsTold, ThrownClean, OneEach, Working, AsLeft
  <2>3. StubsAreOwn'
    BY <1>1, <1>2, <2>1 DEF StubsAreOwn, Stubbed
  <2> QED
    BY <2>2, <2>3 DEF StubInv
<1>4. CASE kind = "stage"
  <2>1. Tally(FALSE)
    BY <1>4 DEF NoSource
  <2>2. DOMAIN saved = {}
    BY <1>1, <1>2, <1>4 DEF OneEach
  <2>3. WriteBack({})
    BY <1>1, <1>2, <2>2, NothingSaved
  <2> QED
    BY <1>1, <2>1, <2>3, Ended DEF Working
<1> QED
  BY <1>3, <1>4

\* The steps that touch no file.
LEMMA QuietStep ==
  ASSUME StubInv,
         NextTask \/ Finish \/ AllStubbed \/ \E passed \in BOOLEAN : Run(passed)
  PROVE  StubInv'
<1>1. StubTypes /\ SavedAsFound /\ NoneOpen /\ LossIsTold /\ StubsAreOwn /\ OneEach
  BY DEF StubInv
<1>2. UNCHANGED <<home, kind, tree, saved, fails, lost>>
  BY DEF NextTask, Finish, AllStubbed, Run
<1>3. spc \in {"next", "stub", "run"} /\ spc' \in Working /\ succeeded' \in BOOLEAN
  BY <1>1 DEF NextTask, Finish, AllStubbed, Run, Working, StubTypes
<1>4. StubTypes'
  BY <1>1, <1>2, <1>3 DEF StubTypes
<1>5. SavedAsFound' /\ LossIsTold' /\ ThrownClean'
  BY <1>1, <1>2, <1>3 DEF SavedAsFound, LossIsTold, ThrownClean, Working, AsLeft
<1>6. NoneOpen' /\ StubsAreOwn' /\ OneEach'
  <2>1. CASE NextTask
    <3>1. \A fn \in Functions : ~lost => ~Stubbed(fn)
      BY <1>1, <2>1
      DEF NextTask, SavedAsFound, NoneOpen, Stubbed, Working, AsLeft, Destroyed, Functions
    <3>2. PICK t \in tasks : t[2] # {} /\ task' = t[2] /\ left' = t[2] /\ tasks' = tasks \ {t}
      BY <2>1 DEF NextTask
    <3>3. /\ spc = "next" /\ spc' = "stub" /\ DOMAIN saved = {}
          /\ UNCHANGED <<home, kind, tree, saved, lost>>
      BY <1>1, <2>1 DEF NextTask, NoneOpen
    <3>4. NoneOpen'
      BY <3>3 DEF NoneOpen
    <3>5. StubsAreOwn'
      BY <3>1, <3>2, <3>3 DEF StubsAreOwn, Stubbed
    <3>6. OneEach'
      BY <1>1, <3>2, <3>3 DEF OneEach
    <3> QED
      BY <3>4, <3>5, <3>6
  <2>2. CASE Finish
    BY <1>1, <2>2 DEF Finish, NoneOpen, StubsAreOwn, OneEach
  <2>3. CASE AllStubbed
    BY <1>1, <2>3 DEF AllStubbed, NoneOpen, StubsAreOwn, OneEach, Stubbed
  <2>4. CASE \E passed \in BOOLEAN : Run(passed)
    BY <1>1, <2>4 DEF Run, NoneOpen, StubsAreOwn, OneEach
  <2> QED
    BY <2>1, <2>2, <2>3, <2>4
<1> QED
  BY <1>4, <1>5, <1>6 DEF StubInv

LEMMA StepHolds == StubInv /\ [StubNext]_stubVars => StubInv'
<1> SUFFICES ASSUME StubInv, [StubNext]_stubVars PROVE StubInv'
  OBVIOUS
<1>1. CASE NextTask \/ Finish \/ AllStubbed \/ \E passed \in BOOLEAN : Run(passed)
  BY <1>1, QuietStep
<1>2. CASE NothingBelow
  <2>1. spc \in Working /\ Tally(TRUE) /\ tasks' \subseteq tasks
    BY <1>2 DEF NothingBelow, Working
  <2>2. DOMAIN saved = {} /\ UNCHANGED <<home, kind, tree, lost>> /\ StubTypes
    BY <1>2 DEF NothingBelow, StubInv, NoneOpen
  <2>3. WriteBack({})
    BY <2>2, NothingSaved
  <2> QED
    BY <2>1, <2>2, <2>3, Ended
<1>3. ASSUME NEW fn \in Functions, Stub(fn) PROVE StubInv'
  BY <1>3, StubStep
<1>4. ASSUME NEW fn \in Functions, NoSource(fn) PROVE StubInv'
  BY <1>4, NoSourceStep
<1>5. ASSUME NEW fn \in Functions, StubFails(fn) PROVE StubInv'
  BY <1>5, Ended DEF StubFails, Working
<1>6. ASSUME NEW fn \in Functions, StubThrows(fn) PROVE StubInv'
  <2>1. CASE kind # "prune"
    BY <1>6, <2>1, Caught DEF StubThrows, Working
  <2>2. CASE kind = "prune"
    <3>1. /\ spc' = "unguarded"
          /\ UNCHANGED <<home, kind, tasks, task, left, tree, saved, succeeded, fails, lost>>
      BY <1>6, <2>2 DEF StubThrows
    <3> QED
      BY <3>1 DEF StubInv, StubTypes, SavedAsFound, NoneOpen, LossIsTold, StubsAreOwn,
                  OneEach, ThrownClean, Working
  <2> QED
    BY <2>1, <2>2
<1>7. CASE RunThrows
  BY <1>7, Caught DEF RunThrows, Working
<1>8. CASE Restore
  <2>1. PICK broken \in SUBSET DOMAIN saved :
          WriteBack(broken) /\ Tally(succeeded /\ broken = {})
    BY <1>8 DEF Restore
  <2>2. (succeeded /\ broken = {}) \in BOOLEAN
    BY DEF StubInv, StubTypes
  <2>3. spc \in Working /\ UNCHANGED <<kind, tasks>>
    BY <1>8 DEF Restore, Working
  <2> QED
    BY <2>1, <2>2, <2>3, Ended
<1>9. CASE UNCHANGED stubVars
  BY <1>9 DEF stubVars, StubInv, StubTypes, SavedAsFound, NoneOpen, LossIsTold,
              StubsAreOwn, OneEach, ThrownClean, Stubbed, AsLeft
<1> QED
  BY <1>1, <1>2, <1>3, <1>4, <1>5, <1>6, <1>7, <1>8, <1>9 DEF StubNext

LEMMA InvariantImplies == StubInv => SourcesComeBack
<1> SUFFICES ASSUME StubInv PROVE SourcesComeBack
  OBVIOUS
<1>1. spc \in {"next", "done", "thrown"} /\ ~lost => \A f \in Sources : AsLeft(tree[f])
  BY DEF StubInv, SavedAsFound, NoneOpen, ThrownClean, Working
<1>2. spc = "done" /\ fails = 0 => ~lost
  BY DEF StubInv, LossIsTold, StubTypes, Working
<1>3. spc = "run" /\ fails = 0 =>
        \A fn \in Functions : Stubbed(fn) <=> fn \in task /\ home[fn] # {}
  BY DEF StubInv, LossIsTold, StubsAreOwn, StubTypes, Working
<1> QED
  BY <1>1, <1>2, <1>3 DEF SourcesComeBack

\* No stub outlives its test, and a result that passes saw no write back fail, for
\* any number of source files and however the generator, the command and the
\* restore fail (VerificationOrchestrator.cpp:155-426, PruningOrchestrator.cpp:131-243);
\* a file of a pruned stage may be torn without a word (StubRewriter.cpp:71-83).
THEOREM FilesComeBack == StubSpec => []SourcesComeBack
<1>1. StubSpec => []StubInv
  BY InitHolds, StepHolds, PTL DEF StubSpec
<1> QED
  BY <1>1, InvariantImplies, PTL

-----------------------------------------------------------------------------
(* The backend cache.                                                      *)

\* Where an install can be, and a change of the default.
Installing == {"exists", "mkdir", "stage", "rename", "copy", "copying", "undo", "first"}
Setting == {"setCheck", "unlink", "symlink"}

\* The state keeps its types, and a command knows its version.
CacheTypes ==
  /\ dir \in [Versions -> {"absent", "partial", "full", "file"}]
  /\ link \in Versions \cup {NoVersion}
  /\ bpc \in [Procs -> {"idle"} \cup Installing \cup Setting \cup Removing]
  /\ cmd \in [Procs -> Versions \cup {NoVersion}]
  /\ \A p \in Procs : bpc[p] \notin {"idle", "removeAll"} => cmd[p] \in Versions
  /\ crashed \in BOOLEAN

\* Two commands that run at once are about different versions, and none of them
\* removes: what ~Races asks of the user.
Alone ==
  \A p, q \in Procs :
    p # q /\ bpc[p] # "idle" /\ bpc[q] # "idle" =>
      cmd[p] # cmd[q] /\ bpc[p] \notin Removing

\* An install that has not published its version has nothing to lose: the version is
\* not there in full, and nobody else installs it.
Unpublished ==
  \A p \in Procs :
    bpc[p] \in {"mkdir", "stage", "rename", "copy", "copying", "undo"} => dir[cmd[p]] # "full"

\* A command that removes version v, or all of them.
RemoverOf(v, p) ==
  bpc[p] = "removeAll" \/ (cmd[p] = v /\ bpc[p] \in {"remove", "fixLink", "dropLink"})

\* What is unfinished on disk has a command that will finish it (BackendCache.cpp:170-330).
Tidy ==
  /\ staging \subseteq {p \in Procs : bpc[p] \in {"rename", "copy", "copying", "undo"}}
  /\ \A v \in Versions : dir[v] # "file"
  /\ \A v \in Versions : dir[v] = "partial" =>
       \E p \in Procs : \/ cmd[p] = v /\ bpc[p] \in {"copying", "undo", "remove"}
                        \/ bpc[p] = "removeAll"
  /\ link # NoVersion => dir[link] = "full" \/ \E p \in Procs : RemoverOf(link, p)
  /\ \A p \in Procs : bpc[p] \in {"first", "unlink", "symlink"} => dir[cmd[p]] = "full"

\* Once a command has died half-way its leftovers stay, all else still holds.
CacheInv == CacheTypes /\ Alone /\ Unpublished /\ (~crashed => Tidy)

\* It holds in the initial states.
LEMMA CacheStarts == CacheInit => CacheInv
  BY CommandAssumption DEF CacheInit, CacheInv, CacheTypes, Alone, Unpublished, Tidy

\* A command that begins is not about the version of another one.
LEMMA BeginKeeps ==
  ASSUME ~Races, CacheInv, NEW p \in Procs, NEW v \in Versions \cup {NoVersion},
         NEW l \in {"exists", "setCheck", "isDir", "removeAll"},
         l # "removeAll" => v \in Versions, Begin(p, v, l)
  PROVE  CacheInv'
<1>1. CacheTypes'
  BY DEF Begin, Proceed, CacheInv, CacheTypes, Installing, Setting, Removing
<1>2. Alone'
  BY DEF Begin, Proceed, CacheInv, CacheTypes, Alone, Removing
<1>3. Unpublished'
  BY DEF Begin, Proceed, CacheInv, CacheTypes, Unpublished
<1>4. ~crashed' => Tidy'
  BY DEF Begin, Proceed, CacheInv, CacheTypes, Tidy, RemoverOf
<1> QED
  BY <1>1, <1>2, <1>3, <1>4 DEF CacheInv

\* A step that changes nothing but where its command is.
LEMMA MovesKeep ==
  ASSUME CacheInv, NEW p \in Procs, UNCHANGED <<dir, link, staging, cmd, crashed>>,
         NEW l, Proceed(p, l), bpc[p] # "idle",
         l \in {"idle"} \cup Installing \cup Setting \cup (Removing \ {"removeAll"}),
         l # "idle" => bpc[p] # "removeAll",
         l # "idle" => (l \in Removing <=> bpc[p] \in Removing),
         l \in {"mkdir", "stage", "rename", "copy", "copying", "undo"} => dir[cmd[p]] # "full",
         ~crashed => /\ p \in staging => l \in {"rename", "copy", "copying", "undo"}
                     /\ l \in {"first", "unlink", "symlink"} => dir[cmd[p]] = "full"
                     /\ bpc[p] \in {"copying", "undo", "remove"}
                          => l \in {"copying", "undo", "remove"} \/ dir[cmd[p]] # "partial"
                     /\ bpc[p] = "removeAll" => \A v \in Versions : dir[v] # "partial"
                     /\ RemoverOf(link, p) =>
                          l \in {"remove", "fixLink", "dropLink"} \/ link = NoVersion
  PROVE  CacheInv'
<1>1. CacheTypes'
  BY DEF Proceed, CacheInv, CacheTypes
<1>2. Alone'
  BY DEF Proceed, CacheInv, CacheTypes, Alone
<1>3. Unpublished'
  BY DEF Proceed, CacheInv, CacheTypes, Unpublished
<1>4. ~crashed' => Tidy'
  BY DEF Proceed, CacheInv, CacheTypes, Tidy, RemoverOf, Removing
<1> QED
  BY <1>1, <1>2, <1>3, <1>4 DEF CacheInv

\* What is known while process p works alone on its version.
LEMMA OnlyOwner ==
  ASSUME CacheInv, ~crashed, NEW p \in Procs, bpc[p] \notin {"idle"} \cup Removing
  PROVE  /\ cmd[p] \in Versions /\ dir[cmd[p]] # "file"
         /\ dir[cmd[p]] = "partial" => bpc[p] \in {"copying", "undo"}
         /\ link = cmd[p] => dir[cmd[p]] = "full"
         /\ link # NoVersion => link \in Versions
         /\ \A q \in Procs : (bpc[q] # "removeAll" /\ ~RemoverOf(link, q)) \/ cmd[q] # cmd[p]
<1>1. cmd[p] \in Versions /\ NoVersion \notin Versions
  BY CommandAssumption DEF CacheInv, CacheTypes, Removing
<1>2. \A q \in Procs : q # p /\ bpc[q] # "idle" => cmd[q] # cmd[p] /\ bpc[q] \notin Removing
  BY DEF CacheInv, Alone
<1>3. Tidy
  BY DEF CacheInv
<1>4. \A q \in Procs, v \in Versions : ~RemoverOf(v, q)
  BY <1>1, <1>2 DEF RemoverOf, Removing
<1> QED
  BY <1>1, <1>2, <1>3, <1>4 DEF Tidy, RemoverOf, Removing, CacheInv, CacheTypes

\* The calls of install that only decide where to go on.
LEMMA InstallMoves ==
  ASSUME CacheInv, NEW p \in Procs,
         InstallRefused(p) \/ InstallExists(p) \/ InstallMkdir(p) \/ RenameFails(p)
         \/ CopyStops(p) \/ FirstDefault(p) \/ SetCheck(p) \/ RemoveCheck(p)
         \/ ReadLink(p) \/ RemoveDir(p) \/ RemoveAllDir(p)
  PROVE  CacheInv'
<1> USE DEF Done, Proceed
<1>0. CacheTypes /\ (~crashed => Tidy) /\ Unpublished
  BY DEF CacheInv
<1>1. CASE InstallRefused(p) \/ InstallExists(p)
  <2>1. ~crashed => dir[cmd[p]] \notin {"file", "partial"}
    BY <1>1, OnlyOwner DEF InstallRefused, InstallExists, Removing
  <2>2. dir[cmd[p]] \in {"absent", "partial", "full", "file"}
    BY <1>0, <1>1 DEF CacheTypes, InstallRefused, InstallExists
  <2> QED
    BY <1>0, <1>1, <2>1, <2>2, MovesKeep
    DEF InstallRefused, InstallExists, Present, Tidy, RemoverOf, Installing, Removing
<1>2. CASE InstallMkdir(p)
  BY <1>0, <1>2, MovesKeep DEF InstallMkdir, Tidy, RemoverOf, Installing, Removing, Unpublished
<1>3. CASE RenameFails(p)
  BY <1>0, <1>3, MovesKeep DEF RenameFails, Tidy, RemoverOf, Installing, Removing, Unpublished
<1>4. CASE CopyStops(p)
  BY <1>0, <1>4, MovesKeep
  DEF CopyStops, CopyMayFail, Tidy, RemoverOf, Installing, Removing, Unpublished
<1>5. CASE FirstDefault(p)
  BY <1>0, <1>5, MovesKeep DEF FirstDefault, Tidy, RemoverOf, Installing, Setting, Removing
<1>6. CASE SetCheck(p)
  <2>1. ~crashed => dir[cmd[p]] \notin {"file", "partial"}
    BY <1>6, OnlyOwner DEF SetCheck, Removing
  <2>2. UNCHANGED <<dir, link, staging, cmd, crashed>> /\ bpc[p] = "setCheck"
    BY <1>6 DEF SetCheck
  <2>3. CASE IsDir(cmd[p])
    <3>1. Proceed(p, "unlink")
      BY <1>6, <2>3 DEF SetCheck
    <3> QED
      BY <1>0, <2>1, <2>2, <2>3, <3>1, MovesKeep DEF IsDir, Tidy, RemoverOf, Setting, Removing
  <2>4. CASE ~IsDir(cmd[p])
    <3>1. Proceed(p, "idle")
      BY <1>6, <2>4 DEF SetCheck
    <3> QED
      BY <1>0, <2>2, <3>1, MovesKeep DEF Tidy, RemoverOf, Removing
  <2> QED
    BY <2>3, <2>4
<1>7. CASE RemoveCheck(p)
  BY <1>0, <1>7, MovesKeep DEF RemoveCheck, Tidy, RemoverOf, Removing
<1>8. CASE ReadLink(p)
  BY <1>0, <1>8, MovesKeep DEF ReadLink, Tidy, RemoverOf, Removing
<1>9. CASE RemoveDir(p)
  BY <1>0, <1>9, MovesKeep DEF RemoveDir, Tidy, RemoverOf, Removing
<1>10. CASE RemoveAllDir(p)
  BY <1>0, <1>10, MovesKeep DEF RemoveAllDir, Present, Tidy, RemoverOf, Removing
<1> QED
  BY <1>1, <1>2, <1>3, <1>4, <1>5, <1>6, <1>7, <1>8, <1>9, <1>10

\* A step that changes the version its command is about.
LEMMA VersionMoves ==
  ASSUME CacheInv, NEW p \in Procs, NEW c \in {"absent", "partial", "full"}, NEW l,
         bpc[p] \notin {"idle", "removeAll"}, cmd[p] \in Versions, SetDir(cmd[p], c), Proceed(p, l),
         UNCHANGED <<link, cmd, crashed>>,
         l = "idle" \/ (bpc[p] \in Installing /\ l \in {"copying", "first"})
                    \/ (bpc[p] = "remove" /\ l \in {"remove", "fixLink"}),
         l = "copying" => c # "full",
         ~crashed => /\ staging' = staging \/ (staging' = staging \ {p} /\ l \notin {"copying"})
                     /\ p \in staging' => l = "copying"
                     /\ c = "partial" => l \in {"copying", "remove"}
                     /\ link = cmd[p] /\ c # "full" => bpc[p] = "remove" /\ l # "idle"
                     /\ l = "first" => c = "full"
  PROVE  CacheInv'
<1>0. l \notin {"mkdir", "stage", "rename", "copy", "undo", "unlink", "symlink"}
  OBVIOUS
<1>1. CacheTypes'
  BY DEF SetDir, Proceed, CacheInv, CacheTypes, Installing, Removing
<1>2. Alone'
  BY DEF Proceed, CacheInv, CacheTypes, Alone, Installing, Removing
<1>3. Unpublished'
  BY <1>0 DEF SetDir, Proceed, CacheInv, CacheTypes, Unpublished, Alone
<1>4. ASSUME ~crashed' PROVE Tidy'
  <2>1. Tidy /\ CacheTypes /\ ~crashed
    BY <1>4 DEF CacheInv
  <2>2. \A q \in Procs : q # p /\ bpc[q] # "idle" => cmd[q] # cmd[p]
    BY DEF CacheInv, Alone
  <2>3. \A q \in Procs \ {p} : bpc'[q] = bpc[q] /\ cmd'[q] = cmd[q]
    BY <2>1 DEF Proceed, CacheTypes
  <2>4. bpc'[p] = l /\ cmd'[p] = cmd[p]
    BY <2>1 DEF Proceed, CacheTypes
  <2>5. dir'[cmd[p]] = c /\ \A v \in Versions \ {cmd[p]} : dir'[v] = dir[v]
    BY <2>1 DEF SetDir, CacheTypes
  <2>6. staging' \subseteq {q \in Procs : bpc'[q] \in {"rename", "copy", "copying", "undo"}}
    BY <2>1, <2>3, <2>4, <1>4 DEF Tidy
  <2>7. \A v \in Versions : dir'[v] # "file"
    BY <2>1, <2>5 DEF Tidy
  <2>8. ASSUME NEW v \in Versions, dir'[v] = "partial"
        PROVE  \E q \in Procs : \/ cmd'[q] = v /\ bpc'[q] \in {"copying", "undo", "remove"}
                                \/ bpc'[q] = "removeAll"
    <3>1. CASE v = cmd[p]
      BY <2>1, <2>4, <2>5, <2>8, <3>1
    <3>2. CASE v # cmd[p]
      BY <2>1, <2>3, <2>4, <2>5, <2>8, <3>2 DEF Tidy
    <3> QED
      BY <3>1, <3>2
  <2>9. ASSUME link' # NoVersion
        PROVE  dir'[link'] = "full" \/ \E q \in Procs : RemoverOf(link, q)'
    <3>1. CASE link = cmd[p]
      BY <2>1, <2>4, <2>5, <2>9, <3>1 DEF RemoverOf, Installing
    <3>2. CASE link # cmd[p]
      BY <2>1, <2>3, <2>4, <2>5, <2>9, <3>2 DEF RemoverOf, Tidy, CacheTypes
    <3> QED
      BY <3>1, <3>2
  <2>10. ASSUME NEW q \in Procs, bpc'[q] \in {"first", "unlink", "symlink"}
         PROVE  dir'[cmd'[q]] = "full"
    <3>1. CASE q = p
      BY <1>0, <2>1, <2>4, <2>5, <2>10, <3>1
    <3>2. CASE q # p
      BY <2>1, <2>2, <2>3, <2>5, <2>10, <3>2 DEF Tidy, CacheTypes, Removing
    <3> QED
      BY <3>1, <3>2
  <2> QED
    BY <2>6, <2>7, <2>8, <2>9, <2>10 DEF Tidy, RemoverOf
<1> QED
  BY <1>1, <1>2, <1>3, <1>4 DEF CacheInv

\* The calls that change the tree of the version their command is about.
LEMMA VersionSteps ==
  ASSUME CacheInv, NEW p \in Procs,
         InstallRename(p) \/ CopyBegin(p) \/ CopyEnd(p) \/ Undo(p) \/ RemoveSome(p) \/ RemoveRest(p)
  PROVE  CacheInv'
<1>0. CacheTypes /\ (~crashed => Tidy)
  BY DEF CacheInv
<1>1. cmd[p] \in Versions /\ bpc[p] \notin {"idle", "removeAll"}
  BY <1>0 DEF CacheTypes, InstallRename, CopyBegin, CopyEnd, Undo, RemoveSome, RemoveRest
<1>2. CASE InstallRename(p)
  BY <1>0, <1>1, <1>2, VersionMoves DEF InstallRename, Installing
<1>3. CASE CopyBegin(p)
  <2>1. ~crashed => link # cmd[p]
    BY <1>3, OnlyOwner DEF CopyBegin, Removing
  <2> QED
    BY <1>0, <1>1, <1>3, <2>1, VersionMoves DEF CopyBegin, Installing, Tidy
<1>4. CASE CopyEnd(p)
  BY <1>0, <1>1, <1>4, VersionMoves DEF CopyEnd, Installing
<1>5. CASE Undo(p)
  <2>1. ~crashed => link # cmd[p]
    BY <1>5, OnlyOwner DEF Undo, Removing, CacheInv, Unpublished
  <2> QED
    BY <1>0, <1>1, <1>5, <2>1, VersionMoves DEF Undo, Done
<1>6. CASE RemoveSome(p)
  <2>1. Proceed(p, "remove")
    BY <1>0, <1>6 DEF RemoveSome, Proceed, CacheTypes
  <2> QED
    BY <1>0, <1>1, <1>6, <2>1, VersionMoves DEF RemoveSome, Tidy
<1>7. CASE RemoveRest(p)
  BY <1>0, <1>1, <1>7, VersionMoves DEF RemoveRest, Tidy
<1> QED
  BY <1>2, <1>3, <1>4, <1>5, <1>6, <1>7

\* Steps on the link, the staging directory or everything at once.
LEMMA OtherSteps ==
  ASSUME CacheInv, NEW p \in Procs,
         InstallStage(p) \/ SetUnlink(p) \/ SetLink(p) \/ DropLink(p) \/ RemoveEntry(p)
         \/ RemoveFails(p) \/ Crash(p)
  PROVE  CacheInv'
<1> USE DEF Done, Proceed
<1>0. CacheTypes /\ Alone /\ Unpublished /\ (~crashed => Tidy)
  BY DEF CacheInv
<1>1. CASE InstallStage(p)
  <2>1. CacheTypes' /\ Alone' /\ Unpublished'
    BY <1>0, <1>1 DEF InstallStage, CacheTypes, Alone, Unpublished, Installing, Removing
  <2>2. ~crashed' => Tidy'
    BY <1>0, <1>1 DEF InstallStage, CacheTypes, Tidy, RemoverOf, Removing
  <2> QED
    BY <2>1, <2>2 DEF CacheInv
<1>2. CASE SetUnlink(p)
  <2>1. CacheTypes' /\ Alone' /\ Unpublished'
    BY <1>0, <1>2 DEF SetUnlink, CacheTypes, Alone, Unpublished, Setting, Removing
  <2>2. ~crashed' => Tidy'
    BY <1>0, <1>2 DEF SetUnlink, CacheTypes, Tidy, RemoverOf, Removing
  <2> QED
    BY <2>1, <2>2 DEF CacheInv
<1>3. CASE SetLink(p)
  <2>1. dir' \in [Versions -> {"absent", "partial", "full", "file"}]
        /\ \A v \in Versions : dir'[v] = dir[v] \/ (dir[v] = "absent" /\ dir'[v] = "file")
    BY <1>0, <1>3 DEF SetLink, CacheTypes, Present
  <2>2. link' \in {link, cmd[p]} /\ cmd[p] \in Versions
    BY <1>0, <1>3 DEF SetLink, CacheTypes
  <2>3. CacheTypes' /\ Alone'
    BY <1>0, <1>3, <2>1, <2>2 DEF SetLink, CacheTypes, Alone
  <2>4. Unpublished'
    BY <1>0, <1>3, <2>1 DEF SetLink, CacheTypes, Unpublished, Removing
  <2>5. ASSUME ~crashed' PROVE Tidy'
    <3>1. ~crashed /\ Tidy /\ dir[cmd[p]] = "full"
      BY <1>0, <1>3, <2>5 DEF SetLink, Tidy
    <3>2. \A q \in Procs : ~RemoverOf(link, q)
      BY <1>0, <1>3 DEF SetLink, RemoverOf, Alone, Removing
    <3>3. dir' = dir
      BY <1>0, <1>3, <3>1, <3>2, CommandAssumption DEF SetLink, Tidy, CacheTypes, Present
    <3>4. link' # NoVersion => dir'[link'] = "full"
      BY <2>2, <3>1, <3>2, <3>3 DEF Tidy
    <3> QED
      BY <1>0, <1>3, <3>1, <3>3, <3>4 DEF SetLink, Tidy, CacheTypes, RemoverOf
  <2> QED
    BY <2>3, <2>4, <2>5 DEF CacheInv
<1>4. CASE DropLink(p)
  <2>1. CacheTypes' /\ Alone' /\ Unpublished'
    BY <1>0, <1>4 DEF DropLink, CacheTypes, Alone, Unpublished, Removing
  <2>2. ~crashed' => Tidy'
    BY <1>0, <1>4 DEF DropLink, CacheTypes, Tidy, RemoverOf, Removing
  <2> QED
    BY <2>1, <2>2 DEF CacheInv
<1>5. CASE RemoveEntry(p)
  <2>1. \A q \in Procs : q # p => bpc[q] = "idle"
    BY <1>0, <1>5 DEF RemoveEntry, Alone, Removing
  <2>2. /\ dir' \in [Versions -> {"absent", "partial", "full", "file"}]
        /\ \A v \in Versions : dir[v] # "file" => dir'[v] # "file"
        /\ link' \in {link, NoVersion}
    BY <1>0, <1>5 DEF RemoveEntry, SetDir, CacheTypes
  <2>3. CacheTypes' /\ Alone'
    BY <1>0, <1>5, <2>2 DEF RemoveEntry, CacheTypes, Alone
  <2>4. Unpublished'
    BY <1>0, <1>5, <2>1 DEF RemoveEntry, Unpublished
  <2>5. ~crashed' => Tidy'
    BY <1>0, <1>5, <2>1, <2>2 DEF RemoveEntry, Tidy, RemoverOf
  <2> QED
    BY <2>3, <2>4, <2>5 DEF CacheInv
<1>6. CASE RemoveFails(p) \/ Crash(p)
  BY <1>0, <1>6 DEF RemoveFails, Crash, CacheInv, CacheTypes, Alone, Unpublished
<1> QED
  BY <1>1, <1>2, <1>3, <1>4, <1>5, <1>6

\* Every step keeps the invariant.
LEMMA CacheKeeps ==
  ASSUME ~Races, CacheInv, [CacheNext]_cacheVars
  PROVE  CacheInv'
<1>1. CASE UNCHANGED cacheVars
  BY <1>1 DEF cacheVars, CacheInv, CacheTypes, Alone, Unpublished, Tidy, RemoverOf
<1>2. ASSUME NEW p \in Procs, Install(p) PROVE CacheInv'
  BY <1>2, BeginKeeps, InstallMoves, VersionSteps, OtherSteps DEF Install, InstallCall
<1>3. ASSUME NEW p \in Procs, Default(p) PROVE CacheInv'
  BY <1>3, BeginKeeps, InstallMoves, OtherSteps DEF Default, DefaultCall
<1>4. ASSUME NEW p \in Procs, Remove(p) PROVE CacheInv'
  BY <1>4, BeginKeeps, InstallMoves, VersionSteps, OtherSteps DEF Remove, RemoveCall, RemoveAllCall
<1>5. ASSUME NEW p \in Procs, Crash(p) PROVE CacheInv'
  BY <1>5, OtherSteps
<1> QED
  BY <1>1, <1>2, <1>3, <1>4, <1>5 DEF CacheNext

\* So it always holds, of commands that do not race.
LEMMA CacheInvHolds ==
  ASSUME ~Races PROVE CacheSpec => []CacheInv
<1>1. CacheInit => CacheInv
  BY CacheStarts
<1>2. CacheInv /\ [CacheNext]_cacheVars => CacheInv'
  BY CacheKeeps
<1> QED
  BY <1>1, <1>2, PTL DEF CacheSpec

\* Between commands nothing unfinished is left behind, the default names an installed
\* version, and an install that succeeded left the complete version -- unless a
\* command died half-way or two commands raced (BackendCache.h, BackendCache.cpp:248).
THEOREM CacheIsClean ==
  ASSUME ~Races PROVE CacheSpec => []CacheClean
<1>1. CacheInv => CacheClean
  <2> SUFFICES ASSUME CacheInv PROVE CacheClean
    OBVIOUS
  <2>1. CASE crashed
    BY <2>1 DEF CacheClean, Quiet
  <2>2. CASE ~crashed
    BY <2>2 DEF CacheInv, Tidy, CacheClean, Quiet, RemoverOf, Present
  <2> QED
    BY <2>1, <2>2
<1> QED
  BY <1>1, CacheInvHolds, PTL

-----------------------------------------------------------------------------
\* What the calls other than these six do to the versions that are complete: nothing.
LEMMA VersionsStay ==
  ASSUME CacheInv, CacheNext
  PROVE  \/ \E p \in Procs : InstallRename(p) \/ CopyEnd(p) \/ RemoveSome(p) \/ RemoveEntry(p)
         \/ /\ installed' = installed
            /\ \E p \in Procs : \/ SetUnlink(p) \/ SetLink(p) \/ DropLink(p)
                                \/ link' = link
<1>0. CacheTypes /\ Unpublished
  BY DEF CacheInv
<1> USE DEF installed
<1>1. ASSUME NEW p \in Procs, CopyBegin(p) \/ Undo(p) \/ RemoveRest(p)
      PROVE  installed' = installed /\ link' = link
  BY <1>0, <1>1 DEF CopyBegin, Undo, RemoveRest, SetDir, CacheTypes, Unpublished
<1>2. ASSUME NEW p \in Procs, SetLink(p) PROVE installed' = installed
  BY <1>0, <1>2 DEF SetLink, Present, CacheTypes
<1> QED
  BY <1>1, <1>2
  DEF CacheNext, Install, Default, Remove, InstallCall, DefaultCall, RemoveCall, RemoveAllCall,
      Begin, InstallRefused, InstallExists, InstallMkdir, InstallStage, RenameFails, CopyStops,
      FirstDefault, SetCheck, SetUnlink, RemoveCheck, RemoveFails, ReadLink, DropLink,
      RemoveDir, RemoveAllDir, Crash

\* An installed version changes by a remove command only, also when commands die
\* half-way (BackendCache.h: "immutable once installed").
THEOREM VersionsAreImmutable ==
  ASSUME ~Races PROVE CacheSpec => Immutable
<1> DEFINE Changes(v) ==
      dir[v] = "full" /\ dir'[v] # "full" => \E p \in Procs : bpc[p] \in {"remove", "removeAll"}
<1>1. CacheInv /\ [CacheNext]_cacheVars => [\A v \in Versions : Changes(v)]_cacheVars
  <2> SUFFICES ASSUME CacheInv, CacheNext, NEW v \in Versions,
                      dir[v] = "full", dir'[v] # "full"
               PROVE  \E p \in Procs : bpc[p] \in {"remove", "removeAll"}
    OBVIOUS
  <2>1. ASSUME NEW p \in Procs, InstallRename(p) \/ CopyEnd(p) PROVE FALSE
    BY <2>1 DEF InstallRename, CopyEnd, SetDir, CacheInv, CacheTypes
  <2>2. ASSUME NEW p \in Procs, RemoveSome(p) \/ RemoveEntry(p)
        PROVE  bpc[p] \in {"remove", "removeAll"}
    BY <2>2 DEF RemoveSome, RemoveEntry
  <2>3. CASE installed' = installed
    BY <2>3 DEF installed
  <2> QED
    BY <2>1, <2>2, <2>3, VersionsStay
<1> QED
  BY <1>1, CacheInvHolds, PTL DEF Immutable, CacheSpec

\* Until a command dies, every call of a command either leaves the store as it was or is one
\* of its operations as a whole: that is what makes the directory tree an
\* implementation of the store of immutable versions.
LEMMA StoreStep ==
  ASSUME CacheInv, [CacheNext]_cacheVars
  PROVE  [Store!Next \/ crashed']_<<installed, resolved>>
<1> SUFFICES ASSUME ~crashed', CacheNext
             PROVE  Store!Next \/ UNCHANGED <<installed, resolved>>
  <2>1. CASE UNCHANGED cacheVars
    BY <2>1 DEF cacheVars, installed, resolved
  <2> QED
    BY <2>1
<1>0. ~crashed /\ CacheTypes /\ Tidy /\ Alone /\ NoVersion \notin Versions
  <2>1. crashed => crashed'
    BY DEF CacheNext, Install, Default, Remove, InstallCall, DefaultCall, RemoveCall,
      RemoveAllCall, Begin, InstallRefused, InstallExists, InstallMkdir, InstallStage,
      InstallRename, RenameFails, CopyBegin, CopyEnd, CopyStops, Undo, FirstDefault, SetCheck,
      SetUnlink, SetLink, RemoveCheck, RemoveSome, RemoveRest, RemoveFails, ReadLink, DropLink,
      RemoveDir, RemoveEntry, RemoveAllDir, Crash
  <2> QED
    BY <2>1, CommandAssumption DEF CacheInv
<1>1. ASSUME NEW p \in Procs, InstallRename(p) \/ CopyEnd(p)
      PROVE  Store!Install(cmd[p]) /\ cmd[p] \in Versions
  <2>1. link # cmd[p] /\ cmd[p] \in Versions /\ dir[cmd[p]] # "full"
    BY <1>0, <1>1, OnlyOwner DEF InstallRename, CopyEnd, Present, Removing
  <2>2. dir' = [dir EXCEPT ![cmd[p]] = "full"] /\ link' = link
    BY <1>1 DEF InstallRename, CopyEnd, SetDir
  <2>3. installed' = installed \cup {cmd[p]} /\ cmd[p] \notin installed
    BY <1>0, <2>1, <2>2 DEF installed, CacheTypes
  <2>4. resolved' = resolved
    BY <2>1, <2>2, <2>3 DEF resolved
  <2> QED
    BY <2>1, <2>3, <2>4 DEF Store!Install
<1>2. ASSUME NEW v \in Versions, dir[v] = "full", dir' = [dir EXCEPT ![v] = "partial"], link' = link
      PROVE  Store!Remove(v)
  <2>1. installed' = installed \ {v} /\ v \in installed
    BY <1>0, <1>2 DEF installed, CacheTypes
  <2>2. resolved' = IF resolved = v THEN NoVersion ELSE resolved
    BY <1>0, <1>2, <2>1 DEF resolved
  <2> QED
    BY <2>1, <2>2 DEF Store!Remove
<1>3. ASSUME installed' = installed, link' = NoVersion
      PROVE  Store!ClearDefault \/ UNCHANGED <<installed, resolved>>
  BY <1>3 DEF Store!ClearDefault, resolved
<1>4. ASSUME NEW p \in Procs, RemoveEntry(p)
      PROVE  Store!Next \/ UNCHANGED <<installed, resolved>>
  <2>1. CASE link' = NoVersion /\ UNCHANGED dir
    BY <1>3, <2>1 DEF installed, Store!Next
  <2>2. ASSUME NEW v \in Versions, Present(v), UNCHANGED link,
               SetDir(v, IF dir[v] = "full" THEN "partial" ELSE "absent")
        PROVE  Store!Next \/ UNCHANGED <<installed, resolved>>
    <3>1. CASE dir[v] = "full"
      BY <1>2, <2>2, <3>1 DEF SetDir, Store!Next
    <3>2. CASE dir[v] # "full"
      BY <1>0, <2>2, <3>2 DEF SetDir, installed, resolved, CacheTypes
    <3> QED
      BY <3>1, <3>2
  <2> QED
    BY <1>4, <2>1, <2>2 DEF RemoveEntry
<1>5. ASSUME NEW p \in Procs, SetLink(p), installed' = installed
      PROVE  Store!Next \/ UNCHANGED <<installed, resolved>>
  <2>1. cmd[p] \in installed
    BY <1>0, <1>5 DEF SetLink, Tidy, installed, CacheTypes
  <2>2. CASE link = NoVersion /\ link' = cmd[p]
    <3>1. resolved = NoVersion /\ resolved' = cmd[p]
      BY <1>0, <1>5, <2>1, <2>2 DEF resolved
    <3> QED
      BY <1>0, <1>5, <2>1, <3>1 DEF Store!SetDefault, Store!Next, installed
  <2>3. CASE link' = link
    BY <1>5, <2>3 DEF resolved
  <2> QED
    BY <1>5, <2>2, <2>3 DEF SetLink
<1>6. ASSUME NEW p \in Procs, RemoveSome(p)
      PROVE  Store!Next
  <2>1. cmd[p] \in Versions
    BY <1>0, <1>6 DEF RemoveSome, CacheTypes
  <2> QED
    BY <1>2, <1>6, <2>1 DEF RemoveSome, SetDir, Store!Next
<1>7. ASSUME installed' = installed, NEW p \in Procs, SetUnlink(p) \/ DropLink(p)
      PROVE  Store!Next \/ UNCHANGED <<installed, resolved>>
  BY <1>3, <1>7 DEF SetUnlink, DropLink, Store!Next
<1>8. ASSUME installed' = installed, link' = link
      PROVE  UNCHANGED <<installed, resolved>>
  BY <1>8 DEF resolved
<1> QED
  BY <1>1, <1>4, <1>5, <1>6, <1>7, <1>8, VersionsStay DEF Store!Next

\* The directory tree implements the store of immutable versions, for any number of
\* commands and versions, until a command dies (BackendCache.h).
THEOREM TreeIsStore ==
  ASSUME ~Races PROVE CacheSpec => StoreSpec
<1>1. CacheInit => Store!Init
  BY DEF CacheInit, Store!Init, installed, resolved
<1>2. CacheInv /\ [CacheNext]_cacheVars => [Store!Next \/ crashed']_<<installed, resolved>>
  BY StoreStep
<1> QED
  BY <1>1, <1>2, CacheInvHolds, PTL DEF StoreSpec, CacheSpec

-----------------------------------------------------------------------------
(* The bounded capture.                                                    *)

\* A byte is known by who wrote it.
Written == {"leader", "other"}

\* The state keeps its types.
CaptureTypes ==
  /\ cpc \in {"start", "out", "err", "exited", "deadline", "again", "kill", "reap", "destroy",
              "done"}
  /\ final \in BOOLEAN /\ progress \in BOOLEAN
  /\ kept \in [Streams -> Seq(Written)]
  /\ eof \in [Streams -> BOOLEAN]
  /\ pipe \in [Streams -> Seq(Written)]
  /\ wrote \in [Streams -> Nat]

\* Where a capture may have failed, and what goes with it.
CaptureOutcome ==
  /\ failure # "None" => exitCode = -1
  /\ cpc \in {"start", "out", "err", "again", "exited", "deadline"} => failure = "None"
  /\ cpc = "destroy" => failure = "CleanupFailed"
  /\ cpc \in {"start", "exited", "deadline", "kill", "reap", "destroy"} => ~final
  /\ cpc = "again" => final
  /\ cpc = "done" /\ failure = "None" => final
  /\ cpc \in {"kill", "reap"} /\ failure = "None" => leader = "exited" /\ exitCode = status
  /\ final /\ failure = "None" => leader = "reaped" /\ exitCode = status

\* Nothing has been started, or the group is signalled and its leader reaped
\* (Process.cpp, stop()).
GroupGone ==
  /\ cpc = "start" => /\ leader = "none" /\ kin = "none" /\ escaped = "none"
                      /\ eof = [s \in Streams |-> FALSE]
  /\ cpc = "reap" \/ final => "alive" \notin {leader, kin}
  /\ final => leader = "reaped"
  /\ NoneLeft

\* Every byte of the leader is either kept or still in the pipe; end of file
\* leaves none in it, and the last drain goes on until a round finds both pipes
\* without one.
Drained ==
  /\ failure = "None" =>
       \A s \in Streams : Cardinality(FromLeader(kept[s] \o pipe[s])) = wrote[s]
  /\ \A s \in Streams : eof[s] => pipe[s] = <<>> /\ ~Writers
  /\ final /\ ~progress /\ failure = "None" =>
       /\ cpc \in {"err", "again"} => FromLeader(pipe["out"]) = {}
       /\ cpc = "again" => FromLeader(pipe["err"]) = {}
  /\ cpc = "done" /\ failure = "None" => \A s \in Streams : FromLeader(pipe[s]) = {}

\* What holds at each call of the capture.
CaptureInv == CaptureTypes /\ CaptureOutcome /\ GroupGone /\ Drained

\* It holds in the initial states.
LEMMA CaptureStarts == CaptureInit => CaptureInv
<1> SUFFICES ASSUME CaptureInit PROVE CaptureInv
  OBVIOUS
<1>1. CaptureTypes /\ CaptureOutcome /\ GroupGone
  <2>1. <<>> \in Seq(Written)
    BY EmptySeq
  <2>2. CaptureTypes
    BY <2>1 DEF CaptureInit, CaptureTypes
  <2> QED
    BY <2>2 DEF CaptureInit, CaptureOutcome, GroupGone, NoneLeft, Streams
<1>2. \A s \in Streams : kept[s] \o pipe[s] = <<>>
  BY ConcatEmptySeq DEF CaptureInit
<1>3. FromLeader(<<>>) = {}
  BY DEF FromLeader
<1>4. Drained
  BY <1>2, <1>3, FS_EmptySet DEF CaptureInit, Drained
<1> QED
  BY <1>1, <1>4 DEF CaptureInv

\* What the steps that move no byte keep.
LEMMA DrainedStays ==
  ASSUME CaptureInv, UNCHANGED <<kept, pipe, wrote>>,
         failure' = "None" => failure = "None",
         \A s \in Streams : eof'[s] => eof[s] \/ (pipe[s] = <<>> /\ ~Writers),
         (\E s \in Streams : eof'[s]) /\ Writers' => Writers,
         failure' = "None" /\ final' /\ ~progress' =>
           /\ cpc' \in {"err", "again"} => FromLeader(pipe["out"]) = {}
           /\ cpc' = "again" => FromLeader(pipe["err"]) = {},
         cpc' = "done" /\ failure' = "None" => \A s \in Streams : FromLeader(pipe[s]) = {}
  PROVE  Drained'
  BY DEF CaptureInv, Drained, CaptureTypes

\* The steps of the capture that move no byte.
LEMMA QuietCapture ==
  ASSUME CaptureInv,
         \/ Refuse \/ Start \/ ExitObserved \/ ExitUnknown \/ NotExited \/ TestDeadline
         \/ KillGroup \/ Reap \/ StopFails \/ DestroyCapture \/ DrainAgain \/ DeadlinePasses
         \/ \E s \in Streams : CaptureReadFails(s)
  PROVE  CaptureInv'
<1> USE DEF Refuse, Start, ExitObserved, ExitUnknown, NotExited, TestDeadline, KillGroup, Reap,
            StopFails, DestroyCapture, DrainAgain, DeadlinePasses, CaptureReadFails,
            captured, tool, CaptureFailure, Signalled
<1>1. UNCHANGED <<kept, eof, pipe, wrote, status, escaped>>
  OBVIOUS
<1>2. CaptureTypes'
  BY <1>1 DEF CaptureInv, CaptureTypes
<1>3. CaptureOutcome'
  BY <1>1 DEF CaptureInv, CaptureTypes, CaptureOutcome, Streams
<1>4. GroupGone'
  BY <1>1 DEF CaptureInv, CaptureOutcome, GroupGone, NoneLeft, Streams
<1>5. Drained'
  <2>1. failure' = "None" => failure = "None"
    BY DEF CaptureInv, CaptureOutcome
  <2>2. (\E s \in Streams : eof'[s]) /\ Writers' => Writers
    BY <1>1 DEF CaptureInv, GroupGone, Writers
  <2>3. failure' = "None" /\ final' /\ ~progress' =>
          /\ cpc' \in {"err", "again"} => FromLeader(pipe["out"]) = {}
          /\ cpc' = "again" => FromLeader(pipe["err"]) = {}
    BY DEF CaptureInv, CaptureOutcome, Drained, CaptureTypes
  <2>4. cpc' = "done" /\ failure' = "None" => \A s \in Streams : FromLeader(pipe[s]) = {}
    BY DEF CaptureInv, CaptureOutcome, Drained, CaptureTypes, Streams
  <2> QED
    BY <1>1, <2>1, <2>2, <2>3, <2>4, DrainedStays
<1> QED
  BY <1>2, <1>3, <1>4, <1>5 DEF CaptureInv

\* The steps of the tool that write nothing.
LEMMA QuietTool ==
  ASSUME CaptureInv, Forks \/ LeaderExits \/ OtherExits
  PROVE  CaptureInv'
<1> USE DEF Forks, LeaderExits, OtherExits, captured
<1>1. UNCHANGED <<cpc, final, progress, failure, exitCode, kept, eof, pipe, wrote>>
  OBVIOUS
<1>2. CaptureTypes' /\ CaptureOutcome' /\ GroupGone'
  BY <1>1 DEF CaptureInv, CaptureTypes, CaptureOutcome, GroupGone, NoneLeft
<1>3. Writers' => Writers
  BY DEF Writers
<1>4. Drained'
  BY <1>1, <1>3, DrainedStays DEF CaptureInv, Drained
<1> QED
  BY <1>2, <1>4 DEF CaptureInv

-----------------------------------------------------------------------------
\* One more byte in the pipe.
LEMMA OneMore ==
  ASSUME NEW q \in Seq(Written), NEW r \in Seq(Written), NEW b \in Written
  PROVE  /\ Append(r, b) \in Seq(Written)
         /\ Cardinality(FromLeader(q \o Append(r, b))) =
              Cardinality(FromLeader(q \o r)) + (IF b = "leader" THEN 1 ELSE 0)
         /\ b # "leader" /\ FromLeader(r) = {} => FromLeader(Append(r, b)) = {}
<1> DEFINE t == q \o r
<1>1. t \in Seq(Written) /\ Append(r, b) \in Seq(Written) /\ <<b>> \in Seq(Written)
  BY ConcatProperties, AppendProperties
<1>2. q \o Append(r, b) = Append(t, b)
  <2>1. Append(r, b) = r \o <<b>> /\ Append(t, b) = t \o <<b>>
    BY <1>1, AppendIsConcat
  <2> QED
    BY <1>1, <2>1, ConcatAssociative
<1> HIDE DEF t
<1>3. ASSUME NEW u \in Seq(Written)
      PROVE  /\ FromLeader(Append(u, b)) =
                  FromLeader(u) \cup (IF b = "leader" THEN {Len(u) + 1} ELSE {})
             /\ Len(u) + 1 \notin FromLeader(u)
             /\ FromLeader(u) \subseteq 1..Len(u) /\ Len(u) \in Nat
  <2>1. /\ DOMAIN u = 1..Len(u) /\ Len(u) \in Nat
        /\ DOMAIN Append(u, b) = 1..(Len(u) + 1)
        /\ \A i \in 1..Len(u) : Append(u, b)[i] = u[i]
        /\ Append(u, b)[Len(u) + 1] = b
    BY AppendProperties, LenProperties
  <2> QED
    BY <2>1 DEF FromLeader
<1>4. IsFiniteSet(FromLeader(t))
  <2>1. FromLeader(t) \subseteq 1..Len(t) /\ Len(t) \in Nat
    BY <1>1, <1>3
  <2>2. IsFiniteSet(1..Len(t))
    BY <2>1, FS_Interval
  <2> QED
    BY <2>1, <2>2, FS_Subset
<1>5. Cardinality(FromLeader(t)) \in Nat
  BY <1>4, FS_CardinalityType
<1>6. Cardinality(FromLeader(Append(t, b))) =
        Cardinality(FromLeader(t)) + (IF b = "leader" THEN 1 ELSE 0)
  <2>1. CASE b = "leader"
    <3>1. /\ FromLeader(Append(t, b)) = FromLeader(t) \cup {Len(t) + 1}
          /\ Len(t) + 1 \notin FromLeader(t)
      BY <1>1, <1>3, <2>1
    <3>2. Cardinality(FromLeader(t) \cup {Len(t) + 1}) = Cardinality(FromLeader(t)) + 1
      BY <1>4, <3>1, FS_AddElement
    <3> QED
      BY <2>1, <3>1, <3>2
  <2>2. CASE b # "leader"
    <3>1. FromLeader(Append(t, b)) = FromLeader(t)
      BY <1>1, <1>3, <2>2
    <3> QED
      BY <1>5, <2>2, <3>1
  <2> QED
    BY <2>1, <2>2
<1> QED
  BY <1>1, <1>2, <1>3, <1>6 DEF t

\* A pipe without a byte of the leader adds none to what is kept.
LEMMA NoneInPipe ==
  ASSUME NEW q \in Seq(Written), NEW r \in Seq(Written), FromLeader(r) = {}
  PROVE  FromLeader(q \o r) = FromLeader(q)
<1>1. /\ DOMAIN (q \o r) = 1..(Len(q) + Len(r)) /\ DOMAIN q = 1..Len(q) /\ DOMAIN r = 1..Len(r)
      /\ Len(q) \in Nat /\ Len(r) \in Nat
      /\ \A i \in 1..Len(q) + Len(r) : (q \o r)[i] = IF i <= Len(q) THEN q[i] ELSE r[i - Len(q)]
  BY ConcatProperties, LenProperties
<1>2. ASSUME NEW i \in FromLeader(q \o r), ~(i <= Len(q)) PROVE FALSE
  <2>1. i \in 1..Len(q) + Len(r) /\ (q \o r)[i] = "leader"
    BY <1>1 DEF FromLeader
  <2>2. i - Len(q) \in 1..Len(r)
    BY <1>1, <1>2, <2>1
  <2>3. r[i - Len(q)] = "leader"
    BY <1>1, <1>2, <2>1
  <2> QED
    BY <1>1, <2>2, <2>3 DEF FromLeader
<1> QED
  BY <1>1, <1>2 DEF FromLeader

\* A process writes a byte into a pipe.
LEMMA WriteKeeps ==
  ASSUME CaptureInv, NEW s \in Streams, LeaderWrites(s) \/ OtherWrites(s)
  PROVE  CaptureInv'
<1>1. PICK b \in Written :
         /\ pipe' = [pipe EXCEPT ![s] = Append(@, b)]
         /\ b = "leader" => leader = "alive" /\ wrote' = [wrote EXCEPT ![s] = @ + 1]
         /\ b # "leader" => wrote' = wrote
  BY DEF LeaderWrites, OtherWrites, Append1, Written
<1>2. UNCHANGED <<cpc, final, progress, captured, leader, status, kin, escaped>> /\ Writers
  BY DEF LeaderWrites, OtherWrites, Writers
<1>3. pipe[s] \in Seq(Written) /\ kept[s] \in Seq(Written) /\ wrote[s] \in Nat
  BY DEF CaptureInv, CaptureTypes
<1>4. /\ Append(pipe[s], b) \in Seq(Written)
      /\ Cardinality(FromLeader(kept[s] \o Append(pipe[s], b))) =
           Cardinality(FromLeader(kept[s] \o pipe[s])) + (IF b = "leader" THEN 1 ELSE 0)
      /\ b # "leader" /\ FromLeader(pipe[s]) = {} => FromLeader(Append(pipe[s], b)) = {}
  BY <1>3, OneMore
<1>5. pipe'[s] = Append(pipe[s], b) /\ \A t \in Streams \ {s} : pipe'[t] = pipe[t]
  BY <1>1 DEF CaptureInv, CaptureTypes
<1>6. CaptureTypes'
  <2>1. pipe' \in [Streams -> Seq(Written)]
    BY <1>1, <1>4 DEF CaptureInv, CaptureTypes
  <2>2. wrote' \in [Streams -> Nat]
    <3>1. wrote \in [Streams -> Nat] /\ wrote[s] + 1 \in Nat
      BY <1>3 DEF CaptureInv, CaptureTypes
    <3>2. wrote' = wrote \/ wrote' = [wrote EXCEPT ![s] = wrote[s] + 1]
      BY <1>1
    <3> QED
      BY <3>1, <3>2
  <2> QED
    BY <1>2, <2>1, <2>2 DEF CaptureInv, CaptureTypes, captured
<1>7. CaptureOutcome' /\ GroupGone'
  BY <1>2 DEF CaptureInv, CaptureOutcome, GroupGone, NoneLeft, captured
<1>8. wrote'[s] = wrote[s] + (IF b = "leader" THEN 1 ELSE 0)
      /\ \A t \in Streams \ {s} : wrote'[t] = wrote[t]
  BY <1>1, <1>3 DEF CaptureInv, CaptureTypes
<1>9. \A t \in Streams : ~eof[t]
  BY <1>2 DEF CaptureInv, Drained
<1>10. \A t \in Streams :
         (b # "leader" /\ FromLeader(pipe[t]) = {}) => FromLeader(pipe'[t]) = {}
  BY <1>4, <1>5
<1>11. final \/ (cpc = "done" /\ failure = "None") => b # "leader"
  BY <1>1 DEF CaptureInv, GroupGone, CaptureOutcome
<1>12. failure' = "None" =>
         \A t \in Streams : Cardinality(FromLeader(kept'[t] \o pipe'[t])) = wrote'[t]
  BY <1>2, <1>4, <1>5, <1>8 DEF CaptureInv, Drained, captured
<1>13. Drained'
  BY <1>2, <1>9, <1>10, <1>11, <1>12 DEF CaptureInv, Drained, captured, Streams
<1> QED
  BY <1>6, <1>7, <1>13 DEF CaptureInv

\* A read that finds nothing.
LEMMA NothingKeeps ==
  ASSUME CaptureInv, NEW s \in Streams, ReadNothing(s)
  PROVE  CaptureInv'
<1>1. /\ cpc = s /\ cpc' = AfterRead(s) /\ pipe[s] = <<>>
      /\ eof' = [eof EXCEPT ![s] = @ \/ ~Writers]
      /\ UNCHANGED <<final, progress, exitCode, failure, kept, tool>>
  BY DEF ReadNothing, CaptureInv, Drained
<1>2. CaptureTypes'
  BY <1>1 DEF CaptureInv, CaptureTypes, AfterRead, tool
<1>3. CaptureOutcome' /\ GroupGone'
  BY <1>1 DEF CaptureInv, CaptureTypes, CaptureOutcome, GroupGone, NoneLeft, AfterRead, tool, Streams
<1>4. FromLeader(pipe[s]) = {}
  BY <1>1 DEF FromLeader
<1>5. Drained'
  <2>1. \A t \in Streams : eof'[t] => eof[t] \/ (pipe[t] = <<>> /\ ~Writers)
    BY <1>1 DEF CaptureInv, CaptureTypes
  <2>2. Writers' = Writers
    BY <1>1 DEF Writers, tool
  <2> QED
    BY <1>1, <1>4, <2>1, <2>2, DrainedStays
    DEF CaptureInv, Drained, AfterRead, tool, Streams
<1> QED
  BY <1>2, <1>3, <1>5 DEF CaptureInv

\* A read that takes what fits.
LEMMA TakeKeeps ==
  ASSUME CaptureInv, NEW s \in Streams, TakeBytes(s)
  PROVE  CaptureInv'
<1> DEFINE n == IF Len(pipe[s]) < BufSize THEN Len(pipe[s]) ELSE BufSize
           k == AppendBounded(s, n)
<1>1. /\ cpc = s /\ ~eof[s] /\ pipe[s] # <<>> /\ progress' = TRUE
      /\ pipe' = [pipe EXCEPT ![s] = SubSeq(@, n + 1, Len(@))]
      /\ kept' = [kept EXCEPT ![s] = @ \o SubSeq(pipe[s], 1, k)]
      /\ \/ k = n /\ cpc' = AfterRead(s) /\ UNCHANGED <<exitCode, failure>>
         \/ CaptureFailure("OutputLimitExceeded") /\ cpc' = IF final THEN "done" ELSE "kill"
      /\ UNCHANGED <<final, late, eof, wrote, leader, status, kin, escaped>>
  BY DEF TakeBytes
<1>2. /\ pipe[s] \in Seq(Written) /\ kept[s] \in Seq(Written) /\ Len(pipe[s]) \in Nat \ {0}
      /\ Len(kept[s]) \in Nat
  BY <1>1, EmptySeq, LenProperties DEF CaptureInv, CaptureTypes
<1>3. n \in 1..Len(pipe[s]) /\ BufSize \in Nat
  BY <1>2, CaptureAssumption
<1>4. k \in Int /\ k <= n
  <2>1. Limit(s) \in Nat
    BY CaptureAssumption DEF Limit
  <2> QED
    BY <1>2, <1>3, <2>1 DEF AppendBounded
<1> HIDE DEF n, k
<1>5. SubSeq(pipe[s], n + 1, Len(pipe[s])) \in Seq(Written)
  <2>1. \A i \in (n + 1)..Len(pipe[s]) : pipe[s][i] \in Written
    BY <1>2, <1>3, ElementOfSeq
  <2> QED
    BY <1>2, <1>3, <2>1, SubSeqProperties
<1>6. SubSeq(pipe[s], 1, k) \in Seq(Written)
  <2>1. \A i \in 1..k : pipe[s][i] \in Written
    BY <1>2, <1>3, <1>4, ElementOfSeq
  <2> QED
    BY <1>4, <2>1, SubSeqProperties
<1>7. CaptureTypes'
  <2>1. kept[s] \o SubSeq(pipe[s], 1, k) \in Seq(Written)
    BY <1>2, <1>6, ConcatProperties
  <2> QED
    BY <1>1, <1>5, <2>1 DEF CaptureInv, CaptureTypes, AfterRead
<1>8. CaptureOutcome' /\ GroupGone'
  BY <1>1 DEF CaptureInv, CaptureTypes, CaptureOutcome, GroupGone, NoneLeft, AfterRead,
              CaptureFailure, Streams
<1>9. ASSUME failure' = "None"
      PROVE  kept'[s] \o pipe'[s] = kept[s] \o pipe[s]
  <2>1. k = n
    BY <1>1, <1>9 DEF CaptureFailure
  <2>2. pipe'[s] = SubSeq(pipe[s], n + 1, Len(pipe[s])) /\ kept'[s] = kept[s] \o SubSeq(pipe[s], 1, n)
    BY <1>1, <2>1 DEF CaptureInv, CaptureTypes
  <2>3. SubSeq(pipe[s], 1, n) \o SubSeq(pipe[s], n + 1, Len(pipe[s])) = pipe[s]
    <3>1. SubSeq(pipe[s], 1, n) \o SubSeq(pipe[s], n + 1, Len(pipe[s]))
            = SubSeq(pipe[s], 1, Len(pipe[s]))
      BY <1>2, <1>3, ConcatAdjacentSubSeq
    <3> QED
      BY <1>2, <3>1, SubSeqFull
  <2>4. SubSeq(pipe[s], 1, n) \in Seq(Written)
    BY <1>6, <2>1
  <2>5. (kept[s] \o SubSeq(pipe[s], 1, n)) \o SubSeq(pipe[s], n + 1, Len(pipe[s]))
          = kept[s] \o (SubSeq(pipe[s], 1, n) \o SubSeq(pipe[s], n + 1, Len(pipe[s])))
    <3>1. \A a, b, c \in Seq(Written) : (a \o b) \o c = a \o (b \o c)
      BY ConcatAssociative
    <3>2. kept[s] \in Seq(Written)
      BY <1>2
    <3> QED
      BY <1>5, <2>4, <3>1, <3>2, Zenon
  <2> QED
    BY <2>2, <2>3, <2>5, Zenon
<1>10. \A t \in Streams \ {s} : kept'[t] = kept[t] /\ pipe'[t] = pipe[t]
  BY <1>1 DEF CaptureInv, CaptureTypes
<1>11. failure' = "None" => failure = "None"
  BY <1>1 DEF CaptureFailure
<1>12. failure' = "None" =>
         \A t \in Streams : Cardinality(FromLeader(kept'[t] \o pipe'[t])) = wrote'[t]
  BY <1>1, <1>9, <1>10, <1>11 DEF CaptureInv, Drained
<1>13. \A t \in Streams : eof'[t] => pipe'[t] = <<>> /\ ~Writers'
  BY <1>1, <1>10 DEF CaptureInv, Drained, Writers
<1>14. ~(cpc' = "done" /\ failure' = "None")
  BY <1>1 DEF CaptureInv, CaptureTypes, AfterRead, CaptureFailure, Streams
<1>15. Drained'
  BY <1>1, <1>12, <1>13, <1>14 DEF Drained
<1> QED
  BY <1>7, <1>8, <1>15 DEF CaptureInv

-----------------------------------------------------------------------------
\* Every step keeps the invariant.
LEMMA CaptureKeeps ==
  ASSUME CaptureInv, [CaptureNext]_captureVars
  PROVE  CaptureInv'
<1>1. CASE UNCHANGED captureVars
  BY <1>1 DEF captureVars, captured, tool, CaptureInv, CaptureTypes, CaptureOutcome, GroupGone, NoneLeft,
              Drained, Writers
<1>2. CASE Capture \/ DeadlinePasses
  BY <1>2, QuietCapture, NothingKeeps, TakeKeeps DEF Capture
<1>3. CASE Tool
  BY <1>3, QuietTool, WriteKeeps DEF Tool
<1> QED
  BY <1>1, <1>2, <1>3 DEF CaptureNext

\* So it always holds.
LEMMA CaptureInvHolds == CaptureSpec => []CaptureInv
<1>1. CaptureInit => CaptureInv
  BY CaptureStarts
<1>2. CaptureInv /\ [CaptureNext]_captureVars => CaptureInv'
  BY CaptureKeeps
<1> QED
  BY <1>1, <1>2, PTL DEF CaptureSpec

\* When the call returns, the leader is reaped and whatever stayed in its group has been
\* sent a SIGKILL, unless the cleanup itself failed (Process.h:86, Process.cpp:888-924).
THEOREM GroupIsGone == CaptureSpec => []NoneLeft
<1>1. CaptureInv => NoneLeft
  BY DEF CaptureInv, GroupGone
<1> QED
  BY <1>1, CaptureInvHolds, PTL

\* A failure comes with exit code -1; without one the leader is reaped, its status is the
\* result, and of the bytes it wrote, in whatever order with those of its
\* descendants, not one is missing (Process.h:83, Process.cpp:1019-1022).
THEOREM ResultIsWhole == CaptureSpec => []ResultContract
<1>1. CaptureInv => ResultContract
  <2> SUFFICES ASSUME CaptureInv, cpc = "done", failure = "None", NEW s \in Streams
               PROVE  Cardinality(FromLeader(kept[s])) = wrote[s]
    BY DEF CaptureInv, CaptureOutcome, ResultContract
  <2>1. FromLeader(pipe[s]) = {} /\ Cardinality(FromLeader(kept[s] \o pipe[s])) = wrote[s]
    BY DEF CaptureInv, Drained
  <2> QED
    BY <2>1, NoneInPipe DEF CaptureInv, CaptureTypes
<1> QED
  BY <1>1, CaptureInvHolds, PTL
=============================================================================
