--------------------------- MODULE StubbedSources ---------------------------
(***************************************************************************)
(* Verification by stubbing: the functions of a stage, of a branch of a    *)
(* pipeline, or of the stages below one, are replaced by stubs in the      *)
(* user's own source files, the build and test command runs, and the files *)
(* are written back.  lib/Check/VerificationOrchestrator.cpp has the first *)
(* two kinds, PruningOrchestrator.cpp and StubRewriter.cpp the third.      *)
(*                                                                         *)
(* A file is the set of its functions that are stubbed: {} is the file as  *)
(* the user left it, Destroyed one that was opened to be written back and  *)
(* could not be written.  The stub generator and the command are outside;  *)
(* each of their calls may succeed, fail or throw.  restoreFile() of the   *)
(* generator, the first two kinds', is taken at its word; the third kind   *)
(* writes back itself, and looks only at whether the file opens.           *)
(***************************************************************************)
EXTENDS Integers

CONSTANT Sources        \* the source files

Functions == 1..3       \* in the order of their names
Kinds == {"stage", "branch", "prune"}

VARIABLES
  home,    \* function -> the first file that mentions it, {} when none does
  kind,    \* which check runs
  tasks,   \* what is still to be tested: a number and the functions to stub
  task,    \* the functions of the test at hand
  spc,     \* "next", "stub", "run", "writeBack", "done", "thrown", "unguarded"
  left,    \* the functions of this task still to be stubbed
  tree,    \* file -> its functions that are stubbed
  saved,   \* file -> what it held before its first stub of this task
  succeeded,       \* testSuccess of this task
  passes, fails,   \* passCount and failCount of the result
  lost     \* history: a file could not be opened, or restoreFile() said no

stubVars == <<home, kind, tasks, task, spc, left, tree, saved, succeeded, passes, fails, lost>>

NotSaved == [f \in {} |-> {}]
Destroyed == {0}

Homes == [Functions -> {{}} \cup {{f} : f \in Sources}]

\* A function that is stubbed now.
Stubbed(fn) == \E f \in Sources : fn \in tree[f]

-----------------------------------------------------------------------------
\* verifyStageIsolation(): one task for each function of a stage with two or
\* more.  calls is a set of pairs of a called function and its stage.
StageTasks(calls) ==
  {<<c[2], {c[1]}>> : c \in {d \in calls : \E e \in calls : e # d /\ e[2] = d[2]}}

\* verifyPipelineIndependence(): one task for each root, the functions that
\* the arrows lead to from there; none when there is one root.
Reached(edges, root) ==
  LET next(S) == S \cup {e[2] : e \in {d \in edges : d[1] \in S}}
  IN  next(next({root}))
BranchTasks(edges) ==
  LET starts == {f \in Functions : ~\E e \in edges : e[2] = f}
  IN  {<<f, Reached(edges, f)>> : f \in {g \in starts : \E h \in starts : h # g}}

\* verifyAllStages(): of each stage, all that is below it is stubbed.
PruneTasks(calls) ==
  {<<s, {c[1] : c \in {d \in calls : d[2] < s}}>> : s \in {c[2] : c \in calls}}

Arrows == {<<1, 2>>, <<1, 3>>, <<2, 3>>}

\* A function may be called in two stages; two functions that differ in their
\* namespace alone are one simple name, in two stages.
CallSets ==
  {{<<1, s>>, <<2, t>>, <<3, 1>>} \cup twice :
     s \in 0..1, t \in 0..1, twice \in {{}, {<<3, 0>>}}}

StubInit ==
  /\ home \in Homes
  /\ \/ kind = "stage" /\ tasks \in {StageTasks(c) : c \in CallSets}
     \/ kind = "branch" /\ tasks \in {BranchTasks(e) : e \in SUBSET Arrows}
     \/ kind = "prune" /\ tasks \in {PruneTasks(c) : c \in CallSets}
  /\ spc = "next" /\ task = {} /\ left = {} /\ tree = [f \in Sources |-> {}] /\ saved = NotSaved
  /\ succeeded = FALSE /\ passes = 0 /\ fails = 0 /\ lost = FALSE

-----------------------------------------------------------------------------
\* The test counts, and the next one begins.
Tally(passed) ==
  /\ passes' = passes + (IF passed THEN 1 ELSE 0)
  /\ fails' = fails + (IF passed THEN 0 ELSE 1)
  /\ spc' = "next"
  /\ task' = {} /\ left' = {} /\ saved' = NotSaved /\ succeeded' = FALSE

\* What mentions a function of a torn file from now on is another file, what is
\* left of this one, or none.
Rehome(torn) ==
  home' \in {h \in Homes : \A fn \in Functions : home[fn] \cap torn = {} => h[fn] = home[fn]}

\* The files are written back, each from what was saved of it before its first
\* stub, but for the broken ones, which are seen to fail and stay as they are.
\* StubRewriter opens a file empty and never asks whether the text went in: of
\* the pruned files some may be torn, and nobody is told.
WriteBack(broken) ==
  \E torn \in SUBSET (IF kind = "prune" THEN DOMAIN saved \ broken ELSE {}) :
    /\ tree' = [f \in Sources |->
                  IF f \in torn THEN Destroyed
                  ELSE IF f \in DOMAIN saved \ broken THEN saved[f] ELSE tree[f]]
    /\ Rehome(torn)
    /\ lost' = (lost \/ broken # {})

\* The tests come in any order here.
NextTask ==
  /\ spc = "next"
  /\ \E t \in tasks : t[2] # {} /\ task' = t[2] /\ left' = t[2] /\ tasks' = tasks \ {t}
  /\ spc' = "stub"
  /\ UNCHANGED <<home, kind, tree, saved, succeeded, passes, fails, lost>>

\* verifyStage() of the lowest stage: nothing is below, it passes unrun.
NothingBelow ==
  /\ spc = "next"
  /\ \E t \in tasks : t[2] = {} /\ tasks' = tasks \ {t}
  /\ Tally(TRUE)
  /\ UNCHANGED <<home, kind, tree, lost>>

Finish ==
  /\ spc = "next" /\ tasks = {}
  /\ spc' = "done"
  /\ UNCHANGED <<home, kind, tasks, task, left, tree, saved, succeeded, passes, fails, lost>>

\* What is kept of a file that is stubbed: its content before the first stub.
MutSave(f) == saved' = [g \in DOMAIN saved \cup {f} |->
                          IF g = f THEN tree[f] ELSE saved[g]]
Save(f) == saved' = [g \in DOMAIN saved \cup {f} |->
                       IF g \in DOMAIN saved THEN saved[g] ELSE tree[f]]

Stub(fn) ==
  /\ spc = "stub" /\ fn \in left
  /\ \E f \in home[fn] : tree' = [tree EXCEPT ![f] = @ \cup {fn}] /\ Save(f)
  /\ left' = left \ {fn}
  /\ UNCHANGED <<home, kind, tasks, task, spc, succeeded, passes, fails, lost>>

\* A function of no file fails its test in a stage; elsewhere it is passed over.
NoSource(fn) ==
  /\ spc = "stub" /\ fn \in left /\ home[fn] = {}
  /\ \/ /\ kind = "stage"
        /\ Tally(FALSE)
     \/ /\ kind # "stage"
        /\ left' = left \ {fn}
        /\ UNCHANGED <<task, spc, saved, succeeded, passes, fails>>
  /\ UNCHANGED <<home, kind, tasks, tree, lost>>

\* stubFunction() fails: what this task has stubbed is written back, and
\* whether that worked is not looked at.
StubFails(fn) ==
  /\ spc = "stub" /\ fn \in left /\ home[fn] # {}
  /\ \E broken \in SUBSET DOMAIN saved : WriteBack(broken)
  /\ Tally(FALSE)
  /\ UNCHANGED <<kind, tasks>>

\* stubFunction() throws: the guard of a branch is set before the first stub,
\* that of a pruned stage after the last.
StubThrows(fn) ==
  /\ spc = "stub" /\ fn \in left /\ home[fn] # {}
  /\ \/ /\ kind # "prune"
        /\ \E broken \in SUBSET DOMAIN saved : WriteBack(broken)
        /\ spc' = "thrown"
     \/ /\ kind = "prune"
        /\ spc' = "unguarded"
        /\ UNCHANGED <<home, tree, lost>>
  /\ UNCHANGED <<kind, tasks, task, left, saved, succeeded, passes, fails>>

AllStubbed ==
  /\ spc = "stub" /\ left = {}
  /\ spc' = "run"
  /\ UNCHANGED <<home, kind, tasks, task, left, tree, saved, succeeded, passes, fails, lost>>

Run(passed) ==
  /\ spc = "run"
  /\ succeeded' = passed
  /\ spc' = "writeBack"
  /\ UNCHANGED <<home, kind, tasks, task, left, tree, saved, passes, fails, lost>>

\* The command cannot be run at all: the guard writes back.
RunThrows ==
  /\ spc = "run"
  /\ \E broken \in SUBSET DOMAIN saved : WriteBack(broken)
  /\ spc' = "thrown"
  /\ UNCHANGED <<kind, tasks, task, left, saved, succeeded, passes, fails>>

\* The restore of the normal path.  What it returns is checked before the test
\* counts; a torn file does not show in it, and the test may pass.
Restore ==
  /\ spc = "writeBack"
  /\ \E broken \in SUBSET DOMAIN saved :
       WriteBack(broken) /\ Tally(succeeded /\ broken = {})
  /\ UNCHANGED <<kind, tasks>>

StubNext ==
  \/ NextTask \/ NothingBelow \/ Finish \/ AllStubbed
  \/ \E fn \in Functions : Stub(fn) \/ NoSource(fn) \/ StubFails(fn) \/ StubThrows(fn)
  \/ \E passed \in BOOLEAN : Run(passed)
  \/ RunThrows \/ Restore

StubSpec == StubInit /\ [][StubNext]_stubVars

-----------------------------------------------------------------------------
\* A file that is as the user left it, or that a pruned stage has torn.
AsLeft(content) ==
  \/ content = {}
  \/ kind = "prune" /\ content = Destroyed

\* A stub never outlives its test: between tasks, at the end and after an
\* exception that a guard caught, no file holds a stub, unless a write back was
\* seen to fail; and when one was, the result does not pass, so every test it
\* counts ran with the stubs of its own task and no others.  Two functions of one
\* file, and a task that fails half way, are what could break it.  A file without
\* a stub is the user's own, with one exception: StubRewriter::restore() and the
\* rollback of stubFunctions() look at no write, so that a pruned stage may pass
\* and leave a file torn (StubRewriter.cpp:48-51, 71-83).
SourcesComeBack ==
  /\ spc \in {"next", "done", "thrown"} /\ ~lost =>
       \A f \in Sources : AsLeft(tree[f])
  /\ spc = "done" /\ fails = 0 => ~lost
  /\ spc = "run" /\ fails = 0 =>
       \A fn \in Functions : Stubbed(fn) <=> fn \in task /\ home[fn] # {}
=============================================================================
