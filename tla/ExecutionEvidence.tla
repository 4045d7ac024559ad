-------------------------- MODULE ExecutionEvidence --------------------------
(***************************************************************************)
(* The evidence of a build: ExecutionRecorder observes the commands that   *)
(* several threads dispatch, appends one record per command to a shared    *)
(* manifest and publishes it (lib/Build/ExecutionEvidence.cpp); a consumer *)
(* reads the published manifest and verifies every file it names          *)
(* (lib/Build/ArtifactEvidence.cpp).  Meanwhile an editor changes files,   *)
(* so every look at the disk may see another state than the one before.    *)
(*                                                                         *)
(* A file is its content and a stamp (mtime) that every write moves; a     *)
(* record's id is its position, a digest of everything else in it.         *)
(***************************************************************************)
EXTENDS Integers, Sequences, FiniteSets, SequencesExt

CONSTANTS
  Builders,   \* threads that dispatch commands through one recorder
  Inputs,     \* the files below the observed input directory
  Output,     \* the file every command writes
  Contents,   \* contents of a file
  MaxRuns,    \* bound on the commands dispatched
  MaxEdits,   \* bound on the edits from outside
  MaxDepth    \* the depth graphValid() allows (256 in the code)

ASSUME EvidenceAssumption == Output \notin Inputs /\ MaxDepth \in Nat

VARIABLES
  disk,      \* [content, stamp] of every file; the content "none": absent
  edits,     \* edits so far
  rpc,       \* where each run() is
  taken,     \* per thread: contents snapshotted for the inputs
  began,     \* per thread: stamps when the first input snapshot was taken
  consumed,  \* per thread: contents the command really read
  wrote,     \* per thread: the snapshot of the output
  diags,     \* per thread: something was reported
  twice,     \* per thread: an input was written twice between its two looks
  runs,      \* commands dispatched
  records,   \* manifest_: the records in the order they were appended
  disked,    \* the evidence file: how many records it holds, 0: absent
  staging,   \* a flush holds the mutex, its staging file has so many records
  vpc,       \* the consumer: idle, checking, done
  goal,      \* how many records the manifest it read has
  left,      \* <<file, content>> it has to compare still
  start,     \* stamps when it began
  integrity  \* nothing differed so far

evidenceVars == <<disk, edits, rpc, taken, began, consumed, wrote, diags, twice,
                  runs, records, disked, staging, vpc, goal, left, start, integrity>>

Files == Inputs \cup {Output}
Gone == "none"
Record == [parent : Nat, inputs : [Inputs -> Contents \cup {Gone}],
           output : Contents \cup {Gone}, used : [Inputs -> Contents \cup {Gone}],
           twice : BOOLEAN, clean : BOOLEAN]

EvidenceInit ==
  /\ \E old \in Contents \cup {Gone} : disk =
       [f \in Files |-> [content |-> IF f = Output THEN Gone ELSE old, stamp |-> 0]]
  /\ edits = 0 /\ rpc = [t \in Builders |-> "idle"]
  /\ taken = [t \in Builders |-> [f \in Inputs |-> Gone]]
  /\ began = [t \in Builders |-> [f \in Inputs |-> 0]]
  /\ consumed = taken /\ wrote = [t \in Builders |-> Gone]
  /\ diags = [t \in Builders |-> FALSE] /\ runs = 0
  /\ twice = [t \in Builders |-> FALSE]
  /\ records = <<>> /\ disked = 0 /\ staging = 0
  /\ vpc = "idle" /\ goal = 0 /\ left = {} /\ start = [f \in Files |-> 0] /\ integrity = FALSE

shared == <<records, disked, staging>>
runVars == <<rpc, taken, began, consumed, wrote, diags, twice, runs>>
consumerVars == <<vpc, goal, left, start, integrity>>

Content(f) == disk[f].content
Moved(t, f) == disk[f].stamp # began[t][f]

-----------------------------------------------------------------------------
(* ------------------------- ExecutionRecorder::run ---------------------- *)
\* The input set is expanded and every input snapshotted.  An input that an
\* edit touches while it is hashed is reported and left out of the record.
Snapshot(t) ==
  /\ rpc[t] = "idle" /\ runs < MaxRuns
  /\ runs' = runs + 1
  /\ taken' = [taken EXCEPT ![t] = [f \in Inputs |-> Content(f)]]
  /\ began' = [began EXCEPT ![t] = [f \in Inputs |-> disk[f].stamp]]
  /\ diags' = [diags EXCEPT ![t] = FALSE]
  /\ rpc' = [rpc EXCEPT ![t] = "ready"]
  /\ UNCHANGED <<disk, edits, consumed, wrote, twice, shared, consumerVars>>

\* An input changed between its two stamps: "changed while hashing".
SnapshotRaced(t) ==
  /\ rpc[t] = "ready" /\ \E f \in Inputs : Moved(t, f)
  /\ \E f \in Inputs : /\ Moved(t, f) /\ taken[t][f] # Gone
                       /\ taken' = [taken EXCEPT ![t][f] = Gone]
  /\ diags' = [diags EXCEPT ![t] = TRUE]
  /\ UNCHANGED <<disk, edits, rpc, began, consumed, wrote, twice, runs, shared, consumerVars>>

\* The command runs: it reads its inputs and derives its output from one of
\* them, or fails and leaves the output as it is when none is there.
RunProcess(t) ==
  /\ rpc[t] = "ready"
  /\ consumed' = [consumed EXCEPT ![t] = [f \in Inputs |-> Content(f)]]
  /\ \/ \E f \in Inputs : /\ Content(f) # Gone
                         /\ disk' = [disk EXCEPT ![Output] =
                                      [content |-> Content(f), stamp |-> @.stamp + 1]]
     \/ (\A f \in Inputs : Content(f) = Gone) /\ UNCHANGED disk
  /\ rpc' = [rpc EXCEPT ![t] = "ran"]
  /\ UNCHANGED <<edits, taken, began, wrote, diags, twice, runs, shared, consumerVars>>

\* Mutant: only the recorded inputs are compared, not the set of files.
MutInputsHeld(t) == \A f \in Inputs : taken[t][f] # Gone => Content(f) = taken[t][f]

\* Every recorded input still has its identity, and the directory holds the
\* files it held.
InputsHeld(t) ==
  \A f \in Inputs : /\ taken[t][f] # Gone => Content(f) = taken[t][f]
                    /\ taken[t][f] = Gone => Content(f) = Gone

Verify(t) ==
  /\ rpc[t] = "ran"
  /\ diags' = [diags EXCEPT ![t] = @ \/ ~InputsHeld(t)]
  /\ twice' = [twice EXCEPT ![t] = \E f \in Inputs : disk[f].stamp > began[t][f] + 1]
  /\ rpc' = [rpc EXCEPT ![t] = "verified"]
  /\ UNCHANGED <<disk, edits, taken, began, consumed, wrote, runs, shared, consumerVars>>

SnapshotOutput(t) ==
  /\ rpc[t] = "verified"
  /\ wrote' = [wrote EXCEPT ![t] = Content(Output)]
  /\ diags' = [diags EXCEPT ![t] = @ \/ Content(Output) = Gone]
  /\ rpc' = [rpc EXCEPT ![t] = "append"]
  /\ UNCHANGED <<disk, edits, taken, began, consumed, twice, runs, shared, consumerVars>>

\* Under the mutex: the record's parent is the root of that moment, and the
\* record becomes the root.
Root == Len(records)
Seal(t, parent) ==
  [parent |-> parent, inputs |-> taken[t], output |-> wrote[t], used |-> consumed[t],
   twice |-> twice[t], clean |-> ~diags[t]]

\* Mutant: the root is read before the command runs, the record is appended
\* after it: two commands at once get the same parent.
MutParent == IF Root > 1 THEN Root - 1 ELSE 0
Parent == Root

AppendRecord(t) ==
  /\ rpc[t] = "append" /\ staging = 0
  /\ records' = Append(records, Seal(t, Parent))
  /\ rpc' = [rpc EXCEPT ![t] = "idle"]
  /\ UNCHANGED <<disk, edits, taken, began, consumed, wrote, diags, twice, runs,
                 disked, staging, consumerVars>>

-----------------------------------------------------------------------------
(* --------------------------- graphs and flush -------------------------- *)
\* The records d parents away from the root, the last record.  Every record has
\* at most one parent here.
Ancestors(m) ==
  LET up[d \in 0..MaxDepth + 1] ==
        IF d = 0 THEN {Len(m)} ELSE {m[k].parent : k \in up[d - 1]} \ {0}
  IN  up

\* graphValid(): all records are reached from the root, none too deep.
GraphValid(m) ==
  /\ m # <<>>
  /\ Ancestors(m)[MaxDepth + 1] = {}
  /\ UNION {Ancestors(m)[d] : d \in 0..MaxDepth} = 1..Len(m)

\* flush(): takes the mutex, validates and writes the staging file.
FlushBegin ==
  /\ staging = 0 /\ GraphValid(records) /\ disked # Len(records)
  /\ staging' = Len(records)
  /\ UNCHANGED <<disk, edits, runVars, records, disked, consumerVars>>

\* It is renamed over the evidence file in one step ...
FlushRename ==
  /\ staging # 0
  /\ disked' = staging /\ staging' = 0
  /\ UNCHANGED <<disk, edits, runVars, records, consumerVars>>

\* ... or the write or the rename fails and the staging directory is removed.
FlushFails ==
  /\ staging # 0 /\ staging' = 0
  /\ UNCHANGED <<disk, edits, runVars, records, disked, consumerVars>>

-----------------------------------------------------------------------------
(* ------------------------------ the consumer --------------------------- *)
Published == SubSeq(records, 1, disked)
InputsOf(r) == {<<f, r.inputs[f]>> : f \in {g \in Inputs : r.inputs[g] # Gone}}
OutputOf(r) == IF r.output = Gone THEN {} ELSE {<<Output, r.output>>}

\* Mutant: only what the commands wrote is verified.
MutClaims(m) == UNION {OutputOf(m[k]) : k \in DOMAIN m}

\* What a manifest says of the disk: the inputs and outputs of every record.
Claims(m) == UNION {InputsOf(m[k]) \cup OutputOf(m[k]) : k \in DOMAIN m}

\* verifyManifest() begins on the manifest read.
VerifyBegin ==
  /\ vpc = "idle" /\ disked # 0 /\ GraphValid(Published)
  /\ vpc' = "checking" /\ goal' = disked /\ left' = Claims(Published) /\ integrity' = TRUE
  /\ start' = [f \in Files |-> disk[f].stamp]
  /\ UNCHANGED <<disk, edits, runVars, shared>>

\* verifyFile(): a fresh snapshot of one file against its entry.  The record's
\* other files are looked at whatever it shows.
VerifyFile ==
  /\ vpc = "checking"
  /\ \E p \in left : /\ left' = left \ {p}
                     /\ integrity' = (integrity /\ Content(p[1]) = p[2])
  /\ UNCHANGED <<disk, edits, runVars, shared, vpc, goal, start>>

VerifyEnd ==
  /\ vpc = "checking" /\ left = {} /\ vpc' = "done"
  /\ UNCHANGED <<disk, edits, runVars, shared, goal, left, start, integrity>>

-----------------------------------------------------------------------------
\* Anybody may write or remove an input at any time.
Edit ==
  /\ edits < MaxEdits /\ edits' = edits + 1 /\ vpc # "done"
  /\ \E f \in Inputs, c \in Contents \cup {Gone} :
       disk' = [disk EXCEPT ![f] = [content |-> c, stamp |-> @.stamp + 1]]
  /\ UNCHANGED <<runVars, shared, consumerVars>>

EvidenceNext ==
  \/ \E t \in Builders : \/ Snapshot(t) \/ SnapshotRaced(t) \/ RunProcess(t)
                         \/ Verify(t) \/ SnapshotOutput(t) \/ AppendRecord(t)
  \/ FlushBegin \/ FlushRename \/ FlushFails
  \/ VerifyBegin \/ VerifyFile \/ VerifyEnd
  \/ Edit

EvidenceSpec == EvidenceInit /\ [][EvidenceNext]_evidenceVars

-----------------------------------------------------------------------------
\* However the commands of several threads overlap, their records form one chain
\* whose graph is valid up to the depth limit, so that flush() never refuses what
\* a build of that size recorded (ExecutionEvidence.cpp: parents are the roots of
\* the moment the record is appended), and what is on disk is always a valid
\* manifest although it is replaced while others append.
ChainHolds ==
  /\ records # <<>> => (GraphValid(records) <=> Len(records) <= MaxDepth + 1)
  /\ disked # 0 => GraphValid(Published)

\* Evidence says what happened.  A record without a diagnostic names exactly what
\* the command read, unless an input was replaced and restored behind its back: the
\* snapshot is taken before the command, verified after it, and the set of files
\* compared.  And when nothing moved while a consumer looked, its verdict says
\* whether all the files of all records are what the manifest says.
EvidenceIsTrue ==
  /\ \A k \in DOMAIN records : LET r == records[k] IN
       r.clean => r.inputs = r.used \/ r.twice
  /\ vpc = "done" /\ (\A f \in Files : disk[f].stamp = start[f]) =>
       (integrity <=> \A k \in 1..goal : LET r == records[k] IN
          /\ r.output # Gone => Content(Output) = r.output
          /\ \A f \in Inputs : r.inputs[f] # Gone => Content(f) = r.inputs[f])
=============================================================================
