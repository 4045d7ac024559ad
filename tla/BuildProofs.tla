---------------------------- MODULE BuildProofs -----------------------------
(***************************************************************************)
(* Proofs about what a build keeps and hands on: the incremental cache, the *)
(* evidence of its runs, the verification of results against it, and the   *)
(* JSON codecs; for any number of files, builds, threads, records, changes *)
(* and fields.                                                             *)
(***************************************************************************)
EXTENDS AttestationCache, IncrementalCache, ExecutionEvidence, WireCodec, TLAPS,
        SequenceTheorems, FiniteSetTheorems, WellFoundedInduction

-----------------------------------------------------------------------------
(* Verification with a shared store of records.                            *)

AttestLabels ==
  {"idle", "lookup", "rehash", "fresh", "gh", "bind", "publish", "done"}

AttestTypes ==
  /\ inputs \in Keys \cup {Broken}
  /\ clock \in Nat /\ changes \in Nat
  /\ entry \in [Keys -> [at : Nat, until : Nat]]
  /\ checked \in [Keys -> SUBSET Nat]
  /\ apc \in [Verifiers -> AttestLabels]
  /\ key \in [Verifiers -> Keys \cup {Broken}]
  /\ bound \in [Verifiers -> Keys \cup {Broken}]
  /\ started \in [Verifiers -> Nat]
  /\ verdict \in [Verifiers -> Verdict]

\* Keys are computed of whole inputs.
Keyed ==
  \A v \in Verifiers :
    /\ apc[v] \in {"lookup", "rehash"} => key[v] \in Keys
    /\ apc[v] \in {"gh", "bind", "publish"} => bound[v] \in Keys

\* Inputs that differ from those bound to were changed since.
ChangedSince ==
  \A v \in Verifiers : apc[v] \in {"gh", "bind"} /\ inputs # bound[v] => changes >= 1

\* A check that passed was one of the inputs bound to, if they are still there.
CheckedSince ==
  changes < 2 =>
    \A v \in Verifiers :
      /\ apc[v] = "bind" /\ inputs = bound[v] => started[v] \in checked[bound[v]]
      /\ apc[v] = "publish" => started[v] \in checked[bound[v]]
      /\ apc[v] = "rehash" => checked[key[v]] # {}

EntriesAreChecked ==
  \A k \in Keys : entry[k] # NoEntry /\ changes < 2 =>
    entry[k].at \in checked[k] /\ entry[k].until = entry[k].at + MaxAge

VerdictsAreChecked ==
  \A v \in Verifiers :
    /\ verdict[v].ok /\ changes < 2 =>
         verdict[v].key \in Keys /\ checked[verdict[v].key] # {}
    /\ verdict[v].hit => verdict[v].at < verdict[v].until

AttestInv ==
  /\ AttestTypes /\ Keyed /\ ChangedSince /\ CheckedSince
  /\ EntriesAreChecked /\ VerdictsAreChecked

-----------------------------------------------------------------------------
LEMMA InitHolds == AttestInit => AttestInv
<1> SUFFICES ASSUME AttestInit PROVE AttestInv
  OBVIOUS
<1>1. AttestTypes
  BY DEF AttestInit, AttestTypes, AttestLabels, NoEntry, Refused, Verdict
<1>2. Keyed /\ ChangedSince /\ CheckedSince
  BY DEF AttestInit, Keyed, ChangedSince, CheckedSince
<1>3. EntriesAreChecked /\ VerdictsAreChecked
  BY DEF AttestInit, EntriesAreChecked, VerdictsAreChecked, Refused
<1> QED
  BY <1>1, <1>2, <1>3 DEF AttestInv

\* A verification that is refused, or that is none yet, claims nothing.
LEMMA RefusedIsFine == Refused \in Verdict /\ ~Refused.ok /\ ~Refused.hit
  BY DEF Refused, Verdict

\* An acceptance of a key that was checked is a verdict.
LEMMA AcceptedIsVerdict ==
  ASSUME AttestTypes, NEW v \in Verifiers, NEW hit \in BOOLEAN, NEW until \in Nat
  PROVE  /\ Accepted(v, hit, until) \in Verdict
         /\ Accepted(v, hit, until).ok
         /\ Accepted(v, hit, until).hit = hit
         /\ Accepted(v, hit, until).key = IF hit THEN key[v] ELSE bound[v]
         /\ Accepted(v, hit, until).until = until
         /\ Accepted(v, hit, until).at = clock
  BY DEF Accepted, Verdict, AttestTypes

LEMMA KeyAndLookup ==
  ASSUME AttestInv, NEW v \in Verifiers, ComputeKey(v) \/ Lookup(v)
  PROVE  AttestInv'
<1>1. CASE ComputeKey(v)
  <2>1. AttestTypes'
    BY <1>1, RefusedIsFine DEF ComputeKey, AttestInv, AttestTypes, Goto, Done, world, AttestLabels
  <2>2. Keyed'
    BY <1>1 DEF ComputeKey, AttestInv, AttestTypes, Keyed, Goto, Done, world
  <2>3. ChangedSince' /\ CheckedSince'
    BY <1>1 DEF ComputeKey, AttestInv, AttestTypes, ChangedSince, CheckedSince, Goto, Done, world
  <2>4. EntriesAreChecked' /\ VerdictsAreChecked'
    BY <1>1, RefusedIsFine
    DEF ComputeKey, AttestInv, AttestTypes, EntriesAreChecked, VerdictsAreChecked, Goto, Done, world
  <2> QED
    BY <2>1, <2>2, <2>3, <2>4 DEF AttestInv
<1>2. CASE Lookup(v)
  <2>1. AttestTypes'
    BY <1>2 DEF Lookup, AttestInv, AttestTypes, Keyed, Goto, world, AttestLabels
  <2>2. Keyed' /\ ChangedSince'
    BY <1>2 DEF Lookup, AttestInv, AttestTypes, Keyed, ChangedSince, Goto, world
  <2>3. CheckedSince'
    BY <1>2 DEF Lookup, Usable, AttestInv, AttestTypes, Keyed, CheckedSince, EntriesAreChecked,
                Goto, world
  <2>4. EntriesAreChecked' /\ VerdictsAreChecked'
    BY <1>2 DEF Lookup, AttestInv, EntriesAreChecked, VerdictsAreChecked, world
  <2> QED
    BY <2>1, <2>2, <2>3, <2>4 DEF AttestInv
<1> QED
  BY <1>1, <1>2

LEMMA RehashStep ==
  ASSUME AttestInv, NEW v \in Verifiers, Rehash(v)
  PROVE  AttestInv'
<1>1. /\ apc[v] = "rehash" /\ key[v] \in Keys /\ started[v] \in Nat
      /\ UNCHANGED <<world, entry, checked, key, bound, started>>
  BY DEF Rehash, AttestInv, Keyed, AttestTypes
<1>2. CASE Done(v, Refused)
  <2>1. AttestTypes' /\ Keyed'
    BY <1>1, <1>2, RefusedIsFine
    DEF AttestInv, AttestTypes, Keyed, Goto, Done, world, AttestLabels
  <2>2. ChangedSince' /\ CheckedSince'
    BY <1>1, <1>2, RefusedIsFine
    DEF AttestInv, AttestTypes, ChangedSince, CheckedSince, Goto, Done, world
  <2>3. EntriesAreChecked' /\ VerdictsAreChecked'
    BY <1>1, <1>2, RefusedIsFine
    DEF AttestInv, AttestTypes, EntriesAreChecked, VerdictsAreChecked, Goto, Done, world
  <2> QED
    BY <2>1, <2>2, <2>3 DEF AttestInv
<1>3. CASE StillLives(v) /\ Done(v, Accepted(v, TRUE, started[v]))
  <2> DEFINE r == Accepted(v, TRUE, started[v])
  <2>1. /\ r \in Verdict /\ r.key = key[v] /\ r.until = started[v] /\ r.at = clock
    BY <1>1, AcceptedIsVerdict DEF AttestInv
  <2>2. r.at < r.until
    BY <1>3, <2>1 DEF StillLives
  <2>3. apc' = [apc EXCEPT ![v] = "done"] /\ verdict' = [verdict EXCEPT ![v] = r]
    BY <1>3 DEF Done, Goto
  <2> HIDE DEF r
  <2>4. AttestTypes' /\ Keyed' /\ ChangedSince' /\ CheckedSince'
    BY <1>1, <2>1, <2>3
    DEF AttestInv, AttestTypes, Keyed, ChangedSince, CheckedSince, world, AttestLabels
  <2>5. EntriesAreChecked' /\ VerdictsAreChecked'
    BY <1>1, <2>1, <2>2, <2>3
    DEF AttestInv, AttestTypes, CheckedSince, EntriesAreChecked, VerdictsAreChecked, world
  <2> QED
    BY <2>4, <2>5 DEF AttestInv
<1>4. CASE Goto(v, "fresh") /\ UNCHANGED verdict
  <2>1. AttestTypes' /\ Keyed'
    BY <1>1, <1>4 DEF AttestInv, AttestTypes, Keyed, Goto, world, AttestLabels
  <2>2. ChangedSince' /\ CheckedSince'
    BY <1>1, <1>4 DEF AttestInv, AttestTypes, ChangedSince, CheckedSince, Goto, world
  <2>3. EntriesAreChecked' /\ VerdictsAreChecked'
    BY <1>1, <1>4 DEF AttestInv, EntriesAreChecked, VerdictsAreChecked, world
  <2> QED
    BY <2>1, <2>2, <2>3 DEF AttestInv
<1> QED
  BY <1>2, <1>3, <1>4 DEF Rehash

LEMMA FreshSteps ==
  ASSUME AttestInv, NEW v \in Verifiers, FreshBegin(v) \/ RunGh(v) \/ Bind(v) \/ Again(v)
  PROVE  AttestInv'
<1>1. CASE FreshBegin(v)
  <2>1. AttestTypes' /\ Keyed'
    BY <1>1, RefusedIsFine DEF FreshBegin, AttestInv, AttestTypes, Keyed, Goto, Done, world, AttestLabels
  <2>2. ChangedSince'
    BY <1>1 DEF FreshBegin, AttestInv, AttestTypes, ChangedSince, Goto, Done, world
  <2>3. CheckedSince'
    BY <1>1 DEF FreshBegin, AttestInv, AttestTypes, CheckedSince, Goto, Done, world
  <2>4. EntriesAreChecked' /\ VerdictsAreChecked'
    BY <1>1, RefusedIsFine
    DEF FreshBegin, AttestInv, AttestTypes, EntriesAreChecked, VerdictsAreChecked, Goto, Done, world
  <2> QED
    BY <2>1, <2>2, <2>3, <2>4 DEF AttestInv
<1>2. CASE RunGh(v)
  <2>1. CASE Done(v, Refused) /\ UNCHANGED checked
    <3>1. AttestTypes' /\ Keyed'
      BY <1>2, <2>1, RefusedIsFine
      DEF RunGh, AttestInv, AttestTypes, Keyed, Goto, Done, world, AttestLabels
    <3>2. ChangedSince' /\ CheckedSince'
      BY <1>2, <2>1, RefusedIsFine
      DEF RunGh, AttestInv, AttestTypes, ChangedSince, CheckedSince, Goto, Done, world
    <3>3. EntriesAreChecked' /\ VerdictsAreChecked'
      BY <1>2, <2>1, RefusedIsFine
      DEF RunGh, AttestInv, AttestTypes, EntriesAreChecked, VerdictsAreChecked, Goto, Done, world
    <3> QED
      BY <3>1, <3>2, <3>3 DEF AttestInv
  <2>2. CASE /\ inputs \in Genuine
             /\ checked' = [checked EXCEPT ![inputs] = @ \cup {started[v]}]
             /\ Goto(v, "bind") /\ UNCHANGED verdict
    <3>1. inputs \in Keys
      BY <2>2, CacheAssumption
    <3>2. \A k \in Keys : checked[k] \subseteq checked'[k]
      BY <2>2 DEF AttestInv, AttestTypes
    <3>3. started[v] \in checked'[inputs]
      BY <2>2, <3>1 DEF AttestInv, AttestTypes
    <3>4. AttestTypes' /\ Keyed' /\ ChangedSince'
      BY <1>2, <2>2, <3>1
      DEF RunGh, AttestInv, AttestTypes, Keyed, ChangedSince, Goto, world, AttestLabels
    <3>5. CheckedSince'
      <4> SUFFICES ASSUME changes < 2, NEW w \in Verifiers
                   PROVE  /\ apc'[w] = "bind" /\ inputs = bound[w] =>
                               started[w] \in checked'[bound[w]]
                          /\ apc'[w] = "publish" => started[w] \in checked'[bound[w]]
                          /\ apc'[w] = "rehash" => checked'[key[w]] # {}
        BY <1>2 DEF RunGh, CheckedSince, world
      <4>1. CASE w = v
        BY <2>2, <3>3, <4>1 DEF Goto, AttestInv, AttestTypes
      <4>2. CASE w # v
        BY <1>2, <2>2, <3>2, <4>2
        DEF RunGh, AttestInv, AttestTypes, Keyed, CheckedSince, Goto
      <4> QED
        BY <4>1, <4>2
    <3>6. EntriesAreChecked' /\ VerdictsAreChecked'
      BY <1>2, <2>2, <3>2
      DEF RunGh, AttestInv, AttestTypes, EntriesAreChecked, VerdictsAreChecked, Verdict, world
    <3> QED
      BY <3>4, <3>5, <3>6 DEF AttestInv
  <2> QED
    BY <1>2, <2>1, <2>2 DEF RunGh
<1>3. CASE Bind(v)
  <2>1. AttestTypes' /\ Keyed'
    BY <1>3, RefusedIsFine DEF Bind, AttestInv, AttestTypes, Keyed, Goto, Done, world, AttestLabels
  <2>2. ChangedSince'
    BY <1>3 DEF Bind, AttestInv, AttestTypes, ChangedSince, Goto, Done, world
  <2>3. CheckedSince'
    BY <1>3 DEF Bind, AttestInv, AttestTypes, CheckedSince, Goto, Done, world
  <2>4. EntriesAreChecked' /\ VerdictsAreChecked'
    BY <1>3, RefusedIsFine
    DEF Bind, AttestInv, AttestTypes, EntriesAreChecked, VerdictsAreChecked, Goto, Done, world
  <2> QED
    BY <2>1, <2>2, <2>3, <2>4 DEF AttestInv
<1>4. CASE Again(v)
  <2>1. AttestTypes' /\ Keyed'
    BY <1>4, RefusedIsFine DEF Again, AttestInv, AttestTypes, Keyed, Goto, world, AttestLabels
  <2>2. ChangedSince'
    BY <1>4 DEF Again, AttestInv, AttestTypes, ChangedSince, Goto, world
  <2>3. CheckedSince'
    BY <1>4 DEF Again, AttestInv, AttestTypes, CheckedSince, Goto, world
  <2>4. EntriesAreChecked' /\ VerdictsAreChecked'
    BY <1>4, RefusedIsFine
    DEF Again, AttestInv, AttestTypes, EntriesAreChecked, VerdictsAreChecked, Goto, world
  <2> QED
    BY <2>1, <2>2, <2>3, <2>4 DEF AttestInv
<1> QED
  BY <1>1, <1>2, <1>3, <1>4

LEMMA PublishSteps ==
  ASSUME AttestInv, NEW v \in Verifiers, Publish(v) \/ PublishFails(v)
  PROVE  AttestInv'
<1>1. /\ apc[v] = "publish" /\ bound[v] \in Keys /\ started[v] \in Nat
      /\ changes < 2 => started[v] \in checked[bound[v]]
      /\ UNCHANGED <<world, checked, key, bound, started>>
  BY DEF Publish, PublishFails, AttestInv, Keyed, CheckedSince, AttestTypes
<1>2. CASE Done(v, Refused) /\ UNCHANGED entry
  <2>1. AttestTypes' /\ Keyed'
    BY <1>1, <1>2, RefusedIsFine
    DEF AttestInv, AttestTypes, Keyed, Goto, Done, world, AttestLabels
  <2>2. ChangedSince' /\ CheckedSince'
    BY <1>1, <1>2, RefusedIsFine
    DEF AttestInv, AttestTypes, ChangedSince, CheckedSince, Goto, Done, world
  <2>3. EntriesAreChecked' /\ VerdictsAreChecked'
    BY <1>1, <1>2, RefusedIsFine
    DEF AttestInv, AttestTypes, EntriesAreChecked, VerdictsAreChecked, Goto, Done, world
  <2> QED
    BY <2>1, <2>2, <2>3 DEF AttestInv
<1>3. ASSUME NEW until \in Nat, Done(v, Accepted(v, FALSE, until)),
             UNCHANGED entry \/
               (bound[v] = key[v] /\ entry' = [entry EXCEPT ![key[v]] = Life(v)])
      PROVE  AttestInv'
  <2> DEFINE r == Accepted(v, FALSE, until)
  <2>1. r \in Verdict /\ r.key = bound[v] /\ ~r.hit
    BY AcceptedIsVerdict DEF AttestInv
  <2>2. apc' = [apc EXCEPT ![v] = "done"] /\ verdict' = [verdict EXCEPT ![v] = r]
    BY <1>3 DEF Done, Goto
  <2> HIDE DEF r
  <2>3. Life(v) \in [at : Nat, until : Nat]
    BY <1>1, CacheAssumption DEF Life
  <2>4. AttestTypes'
    BY <1>1, <1>3, <2>1, <2>2, <2>3 DEF AttestInv, AttestTypes, world, AttestLabels
  <2>5. Keyed' /\ ChangedSince' /\ CheckedSince'
    BY <1>1, <2>2 DEF AttestInv, AttestTypes, Keyed, ChangedSince, CheckedSince, world
  <2>6. VerdictsAreChecked'
    BY <1>1, <2>1, <2>2 DEF AttestInv, AttestTypes, VerdictsAreChecked, world
  <2>7. EntriesAreChecked'
    BY <1>1, <1>3 DEF AttestInv, AttestTypes, EntriesAreChecked, Life, world
  <2> QED
    BY <2>4, <2>5, <2>6, <2>7 DEF AttestInv
<1>4. Life(v).until \in Nat
  BY <1>1, CacheAssumption DEF Life
<1> QED
  BY <1>2, <1>3, <1>4 DEF Publish, PublishFails

LEMMA WorldSteps ==
  ASSUME AttestInv, Tick \/ Change
  PROVE  AttestInv'
<1>1. CASE Tick
  BY <1>1 DEF Tick, AttestInv, AttestTypes, Keyed, ChangedSince, CheckedSince,
              EntriesAreChecked, VerdictsAreChecked
<1>2. CASE Change
  <2>1. /\ changes' = changes + 1 /\ changes \in Nat
        /\ inputs' \in Keys \cup {Broken} /\ clock' \in Nat
        /\ UNCHANGED <<entry, checked, apc, key, bound, started, verdict>>
    BY <1>2 DEF Change, AttestInv, AttestTypes
  <2>2. AttestTypes' /\ Keyed' /\ ChangedSince'
    BY <2>1 DEF AttestInv, AttestTypes, Keyed, ChangedSince
  <2>3. CheckedSince'
    <3> SUFFICES ASSUME changes' < 2, NEW v \in Verifiers
                 PROVE  /\ apc[v] = "bind" /\ inputs' = bound[v] =>
                             started[v] \in checked[bound[v]]
                        /\ apc[v] = "publish" => started[v] \in checked[bound[v]]
                        /\ apc[v] = "rehash" => checked[key[v]] # {}
      BY <2>1 DEF CheckedSince
    <3>1. changes = 0
      BY <2>1
    <3>2. apc[v] = "bind" => inputs = bound[v]
      BY <3>1 DEF AttestInv, ChangedSince
    <3> QED
      BY <3>1, <3>2 DEF AttestInv, CheckedSince
  <2>4. EntriesAreChecked' /\ VerdictsAreChecked'
    BY <2>1 DEF AttestInv, EntriesAreChecked, VerdictsAreChecked
  <2> QED
    BY <2>2, <2>3, <2>4 DEF AttestInv
<1> QED
  BY <1>1, <1>2

LEMMA StepHolds == AttestInv /\ [AttestNext]_attestVars => AttestInv'
<1> SUFFICES ASSUME AttestInv, [AttestNext]_attestVars PROVE AttestInv'
  OBVIOUS
<1>1. ASSUME NEW v \in Verifiers,
             \/ ComputeKey(v) \/ Lookup(v) \/ Rehash(v) \/ FreshBegin(v) \/ RunGh(v)
             \/ Bind(v) \/ Publish(v) \/ PublishFails(v) \/ Again(v)
      PROVE  AttestInv'
  BY <1>1, KeyAndLookup, RehashStep, FreshSteps, PublishSteps
<1>2. CASE Tick \/ Change
  BY <1>2, WorldSteps
<1>3. CASE UNCHANGED attestVars
  BY <1>3 DEF attestVars, AttestInv, AttestTypes, Keyed, ChangedSince, CheckedSince,
              EntriesAreChecked, VerdictsAreChecked
<1> QED
  BY <1>1, <1>2, <1>3 DEF AttestNext

\* What is accepted was checked, and lately, for any number of verifications,
\* inputs and moments of time (ArtifactAttestation.cpp:292-380).
THEOREM Checked == AttestSpec => []AcceptedIsChecked
<1>1. AttestSpec => []AttestInv
  BY InitHolds, StepHolds, PTL DEF AttestSpec
<1>2. AttestInv => AcceptedIsChecked
  BY DEF AttestInv, AcceptedIsChecked, EntriesAreChecked, VerdictsAreChecked
<1> QED
  BY <1>1, <1>2, PTL

-----------------------------------------------------------------------------
(* The incremental cache.                                                  *)

\* The times of some .topo files.
Snapshots == UNION {[D -> Nat] : D \in SUBSET TopoFiles}

\* What a save can leave behind.
Saves == {Missing, Torn} \cup {Whole(s) : s \in Snapshots}
Manifests ==
  {Missing, Torn} \cup {Whole(m) : m \in [topo : Snapshots, toml : Nat, config : Configs]}

\* Snapshot b has every file of a, none of them older.
NotOlder(a, b) == \A f \in DOMAIN a : f \in DOMAIN b /\ a[f] <= b[f]

\* The state keeps its types, and no file is newer than now.
IncTypes ==
  /\ mtime \in [TopoFiles \cup {Toml} -> Nat] /\ cfg \in Configs
  /\ touches \in Nat /\ \A f \in DOMAIN mtime : mtime[f] <= touches
  /\ manifest \in Manifests /\ symbols \in Saves /\ result \in Saves
  /\ bpc \in {"idle", "symbols", "visibility", "manifest", "built"}
  /\ cut \in BOOLEAN /\ removed \in BOOLEAN

\* A build that saves goes on with the files as they are, and the symbols it saved
\* are those.
Saving ==
  /\ bpc \in {"symbols", "visibility", "manifest"} => result = Whole(Sources)
  /\ bpc \in {"visibility", "manifest"} => symbols \in {Whole(Sources), Torn}

\* Since the manifest was written, no build was cut short: the symbols are its own.
\* Or no file was removed: then files and symbols are not older than it says.
IncPaired ==
  manifest.state = "whole" =>
    /\ ~cut /\ bpc \in {"idle", "symbols", "built"} /\ symbols.state = "whole" =>
         symbols.is = manifest.is.topo
    /\ ~removed => /\ NotOlder(manifest.is.topo, Sources)
                   /\ symbols.state = "whole" => /\ NotOlder(manifest.is.topo, symbols.is)
                                                 /\ NotOlder(symbols.is, Sources)

\* What holds at each step of a build.
IncInv == IncTypes /\ Saving /\ IncPaired /\ ResultsAreFresh

\* The files of a build, with their times.
LEMMA SourcesType ==
  ASSUME IncTypes
  PROVE  /\ Sources \in Snapshots
         /\ DOMAIN Sources = {f \in TopoFiles : mtime[f] # 0}
         /\ \A f \in DOMAIN Sources : Sources[f] = mtime[f]
<1> DEFINE D == {f \in TopoFiles : mtime[f] # 0}
<1>1. Sources = [f \in D |-> mtime[f]]
  BY DEF Sources, Restrict
<1>2. Sources \in [D -> Nat] /\ D \in SUBSET TopoFiles
  BY <1>1 DEF IncTypes
<1> QED
  BY <1>1, <1>2 DEF Snapshots

\* What was saved whole is what was saved.
LEMMA WholeIs ==
  /\ \A x : Whole(x).state = "whole" /\ Whole(x).is = x
  /\ Missing.state # "whole" /\ Torn.state # "whole"
  /\ \A s \in Saves : s.state = "whole" => s.is \in Snapshots /\ s = Whole(s.is)
  /\ \A m \in Manifests : m.state = "whole" => m.is.topo \in Snapshots
  BY DEF Whole, Missing, Torn, Saves, Manifests

\* A snapshot is not older than itself, and two of which neither is older are one.
LEMMA SnapshotsOrdered ==
  /\ \A a \in Snapshots : NotOlder(a, a)
  /\ \A a, b \in Snapshots : NotOlder(a, b) /\ NotOlder(b, a) => a = b
<1>1. \A a \in Snapshots : a = [f \in DOMAIN a |-> a[f]] /\ \A f \in DOMAIN a : a[f] \in Nat
  BY DEF Snapshots
<1> QED
  BY <1>1 DEF NotOlder

\* A manifest is valid for no other files than those it names.
LEMMA ValidIsSame ==
  ASSUME IncTypes, manifest.state = "whole", FrontendValid(manifest.is)
  PROVE  manifest.is.topo = Sources
<1> DEFINE m == manifest.is.topo
<1>1. m \in Snapshots /\ Sources \in Snapshots
  BY WholeIs, SourcesType DEF IncTypes
<1>2. /\ \A a \in Snapshots : DOMAIN a \subseteq TopoFiles
      /\ \A a \in Snapshots : a = [f \in DOMAIN a |-> a[f]]
  BY DEF Snapshots
<1>3. /\ Cardinality(DOMAIN Sources) = Cardinality(DOMAIN m)
      /\ DOMAIN Sources \subseteq DOMAIN m
      /\ \A f \in DOMAIN Sources : m[f] = Sources[f]
  BY SourcesType DEF FrontendValid
<1> HIDE DEF m
<1>4. IsFiniteSet(DOMAIN m)
  BY <1>1, <1>2, FS_Subset, TomlAssumption
<1>5. DOMAIN Sources = DOMAIN m
  BY <1>3, <1>4, FS_Subset
<1> QED
  BY <1>1, <1>2, <1>3, <1>5 DEF m

\* A hit restores the symbols of the files as they are.
LEMMA HitIsFresh ==
  ASSUME IncInv, BuildHit
  PROVE  symbols = Whole(Sources) \/ (cut /\ removed)
<1>1. /\ manifest.state = "whole" /\ symbols.state = "whole" /\ bpc = "idle"
      /\ manifest.is.topo = Sources
  BY ValidIsSame DEF BuildHit, Hit, ManifestUsable, IncInv
<1>2. symbols = Whole(symbols.is) /\ symbols.is \in Snapshots /\ Sources \in Snapshots
  BY <1>1, WholeIs, SourcesType DEF IncInv, IncTypes
<1>3. CASE ~cut
  BY <1>1, <1>2, <1>3 DEF IncInv, IncPaired
<1>4. CASE ~removed
  BY <1>1, <1>2, <1>4, SnapshotsOrdered DEF IncInv, IncPaired
<1> QED
  BY <1>3, <1>4 DEF IncInv, IncTypes

\* It holds in the initial states.
LEMMA IncStarts == IncInit => IncInv
<1> SUFFICES ASSUME IncInit PROVE IncInv
  OBVIOUS
<1>1. manifest = Missing /\ symbols = Missing /\ result = Missing /\ bpc = "idle"
  BY DEF IncInit
<1>2. IncTypes
  <2>1. Missing \in Manifests /\ Missing \in Saves
    BY DEF Manifests, Saves
  <2>2. mtime \in [TopoFiles \cup {Toml} -> Nat] /\ \A f \in DOMAIN mtime : mtime[f] <= 1
    BY DEF IncInit
  <2> QED
    BY <1>1, <2>1, <2>2 DEF IncInit, IncTypes
<1>3. IncPaired
  BY <1>1, WholeIs DEF IncPaired
<1> QED
  BY <1>1, <1>2, <1>3 DEF IncInv, Saving, ResultsAreFresh

\* The files are those of the times.
LEMMA SourcesStay == mtime' = mtime => Sources' = Sources
  BY DEF Sources

\* A build up to its last save.
LEMMA BuildKeeps ==
  ASSUME IncInv, BuildHit \/ BuildMiss \/ SaveSymbols \/ SaveVisibility \/ SaveRefused
  PROVE  IncInv'
<1> USE DEF cacheFiles, ghosts
<1>0. Sources' = Sources /\ Sources \in Snapshots
  BY SourcesStay, SourcesType
  DEF BuildHit, BuildMiss, SaveSymbols, SaveVisibility, SaveRefused, IncInv
<1>1. Whole(Sources) \in Saves /\ Torn \in Saves
  BY <1>0 DEF Saves
<1>2. CASE BuildHit
  <2>1. IncTypes' /\ Saving' /\ IncPaired'
    BY <1>0, <1>2 DEF BuildHit, IncInv, IncTypes, Saving, IncPaired
  <2>2. ResultsAreFresh'
    BY <1>0, <1>2, HitIsFresh DEF BuildHit, ResultsAreFresh
  <2> QED
    BY <2>1, <2>2 DEF IncInv
<1>3. CASE BuildMiss
  BY <1>0, <1>1, <1>3 DEF BuildMiss, IncInv, IncTypes, Saving, IncPaired, ResultsAreFresh
<1>4. CASE SaveSymbols
  <2>1. IncTypes' /\ Saving' /\ ResultsAreFresh'
    BY <1>0, <1>1, <1>4 DEF SaveSymbols, IncInv, IncTypes, Saving, ResultsAreFresh
  <2>2. symbols' = Whole(Sources) \/ symbols' = Torn
    BY <1>4 DEF SaveSymbols, IncInv, Saving
  <2>3. symbols'.state = "whole" => symbols'.is = Sources
    BY <2>2, WholeIs
  <2>4. NotOlder(Sources, Sources)
    BY <1>0, SnapshotsOrdered
  <2>5. IncPaired'
    BY <1>0, <1>4, <2>3, <2>4 DEF SaveSymbols, IncInv, IncPaired
  <2> QED
    BY <2>1, <2>5 DEF IncInv
<1>5. CASE SaveVisibility
  BY <1>0, <1>5 DEF SaveVisibility, IncInv, IncTypes, Saving, IncPaired, ResultsAreFresh
<1>6. CASE SaveRefused
  BY <1>0, <1>6 DEF SaveRefused, IncInv, IncTypes, Saving, IncPaired, ResultsAreFresh
<1> QED
  BY <1>2, <1>3, <1>4, <1>5, <1>6

\* The last save, that makes the other ones count.
LEMMA ManifestKeeps ==
  ASSUME IncInv, SaveManifest
  PROVE  IncInv'
<1>0. /\ Sources' = Sources /\ Sources \in Snapshots /\ NotOlder(Sources, Sources)
      /\ UNCHANGED <<mtime, cfg, touches, symbols, result>> /\ bpc' = "built"
      /\ cut' = FALSE /\ removed' = FALSE
  BY SourcesStay, SourcesType, SnapshotsOrdered DEF SaveManifest, IncInv
<1>1. result = Whole(Sources) /\ result.is = Sources
  BY WholeIs DEF IncInv, Saving, SaveManifest
<1>2. \/ manifest' = Torn
      \/ manifest' = Whole([topo |-> Sources, toml |-> mtime[Toml], config |-> cfg])
  BY <1>1 DEF SaveManifest
<1>3. manifest' \in Manifests
  <2>1. [topo |-> Sources, toml |-> mtime[Toml], config |-> cfg]
          \in [topo : Snapshots, toml : Nat, config : Configs]
    BY <1>0 DEF IncInv, IncTypes
  <2> QED
    BY <1>2, <2>1 DEF Manifests
<1>4. manifest'.state = "whole" => manifest'.is.topo = Sources
  BY <1>2, WholeIs
<1>5. symbols.state = "whole" => symbols.is = Sources
  BY WholeIs DEF IncInv, Saving, SaveManifest
<1>6. IncTypes' /\ Saving' /\ ResultsAreFresh'
  BY <1>0, <1>1, <1>3 DEF IncInv, IncTypes, Saving, ResultsAreFresh
<1>7. IncPaired'
  BY <1>0, <1>4, <1>5 DEF IncPaired
<1> QED
  BY <1>6, <1>7 DEF IncInv

\* A build that dies, and clean().
LEMMA CrashKeeps ==
  ASSUME IncInv, Crash \/ Clean
  PROVE  IncInv'
<1>0. /\ Sources' = Sources /\ bpc' = "idle" /\ UNCHANGED <<mtime, cfg, touches>>
      /\ result' = Missing
  BY SourcesStay DEF Crash, Clean
<1>1. CASE Clean
  BY <1>0, <1>1, WholeIs
  DEF Clean, IncInv, IncTypes, Saving, IncPaired, ResultsAreFresh, Saves, Manifests
<1>2. CASE Crash
  <2>1. /\ manifest' = manifest \/ manifest' = Torn
        /\ symbols' = symbols \/ symbols' = Torn
        /\ cut' = TRUE /\ removed' = removed
    BY <1>2 DEF Crash
  <2>2. IncTypes' /\ Saving' /\ ResultsAreFresh'
    BY <1>0, <2>1 DEF IncInv, IncTypes, Saving, ResultsAreFresh, Saves, Manifests
  <2>3. IncPaired'
    BY <1>0, <2>1, WholeIs DEF IncInv, IncPaired
  <2> QED
    BY <2>2, <2>3 DEF IncInv
<1> QED
  BY <1>1, <1>2

\* A change from outside.  A file that is written is newer than every file before it.
LEMMA TouchKeeps ==
  ASSUME IncInv, Touch
  PROVE  IncInv'
<1>0. /\ bpc \in {"idle", "built"} /\ bpc' = "idle" /\ result' = Missing
      /\ touches' = touches + 1 /\ UNCHANGED <<manifest, symbols, cut>>
  BY DEF Touch, cacheFiles
<1>1. IncTypes'
  <2>1. CASE UNCHANGED <<mtime, removed>> /\ cfg' \in Configs
    BY <1>0, <2>1 DEF IncInv, IncTypes, Saves
  <2>2. ASSUME UNCHANGED cfg, NEW f \in DOMAIN mtime, NEW t \in {0, touches + 1},
               mtime' = [mtime EXCEPT ![f] = t], removed' = (removed \/ (t = 0 /\ f # Toml))
        PROVE  IncTypes'
    <3>1. mtime' \in [TopoFiles \cup {Toml} -> Nat] /\ \A g \in DOMAIN mtime' : mtime'[g] <= touches'
      BY <1>0, <2>2 DEF IncInv, IncTypes
    <3> QED
      BY <1>0, <2>2, <3>1 DEF IncInv, IncTypes, Saves
  <2> QED
    BY <2>1, <2>2 DEF Touch
<1>2. Saving' /\ ResultsAreFresh'
  BY <1>0 DEF Saving, ResultsAreFresh
<1>3. ~removed' => ~removed /\ \A g \in TopoFiles : mtime[g] # 0 => mtime'[g] # 0 /\ mtime[g] <= mtime'[g]
  <2>1. CASE UNCHANGED <<mtime, removed>>
    BY <2>1 DEF IncInv, IncTypes
  <2>2. ASSUME NEW f \in DOMAIN mtime, NEW t \in {0, touches + 1},
               mtime' = [mtime EXCEPT ![f] = t], removed' = (removed \/ (t = 0 /\ f # Toml))
        PROVE  ~removed' => ~removed /\ \A g \in TopoFiles :
                 mtime[g] # 0 => mtime'[g] # 0 /\ mtime[g] <= mtime'[g]
    <3> SUFFICES ASSUME ~removed', NEW g \in TopoFiles, mtime[g] # 0
                 PROVE  mtime'[g] # 0 /\ mtime[g] <= mtime'[g]
      BY <2>2
    <3>1. /\ g \in DOMAIN mtime /\ mtime[g] \in Nat /\ mtime[g] <= touches /\ touches \in Nat
          /\ g # Toml
      BY TomlAssumption DEF IncInv, IncTypes
    <3>2. mtime'[g] = IF g = f THEN t ELSE mtime[g]
      BY <2>2, <3>1
    <3>3. g = f => t = touches + 1
      BY <2>2, <3>1
    <3> QED
      BY <3>1, <3>2, <3>3
  <2> QED
    BY <2>1, <2>2 DEF Touch
<1>4. ASSUME NEW a \in Snapshots, NotOlder(a, Sources), ~removed' PROVE NotOlder(a, Sources')
  <2> SUFFICES ASSUME NEW f \in DOMAIN a
               PROVE  f \in DOMAIN Sources' /\ a[f] <= Sources'[f]
    BY DEF NotOlder
  <2>1. f \in DOMAIN Sources /\ a[f] <= Sources[f] /\ a[f] \in Nat
    BY <1>4 DEF NotOlder, Snapshots
  <2>2. /\ DOMAIN Sources = {g \in TopoFiles : mtime[g] # 0}
        /\ \A g \in DOMAIN Sources : Sources[g] = mtime[g]
    BY SourcesType DEF IncInv
  <2>3. /\ DOMAIN Sources' = {g \in TopoFiles : mtime'[g] # 0}
        /\ \A g \in DOMAIN Sources' : Sources'[g] = mtime'[g]
    BY <1>1 DEF Sources, Restrict, IncTypes
  <2>4. mtime[f] \in Nat /\ mtime'[f] \in Nat
    BY <1>1, <2>1, <2>2 DEF IncInv, IncTypes
  <2> QED
    BY <1>3, <1>4, <2>1, <2>2, <2>3, <2>4
<1>5. IncPaired'
  <2>1. manifest.state = "whole" => manifest.is.topo \in Snapshots
    BY WholeIs DEF IncInv, IncTypes
  <2>2. symbols.state = "whole" => symbols.is \in Snapshots
    BY WholeIs DEF IncInv, IncTypes
  <2> QED
    BY <1>0, <1>3, <1>4, <2>1, <2>2 DEF IncInv, IncPaired
<1> QED
  BY <1>1, <1>2, <1>5 DEF IncInv

\* Whatever earlier builds left behind, a build goes on with results of the files as they
\* are, for any number of files, builds and changes, but for the one exception
\* (IncrementalCache.cpp:79-89).
THEOREM ResultsFresh == IncSpec => []ResultsAreFresh
<1>1. IncInit => IncInv
  BY IncStarts
<1>2. IncInv /\ [IncNext]_incVars => IncInv'
  <2> SUFFICES ASSUME IncInv, [IncNext]_incVars PROVE IncInv'
    OBVIOUS
  <2>1. CASE UNCHANGED incVars
    BY <2>1 DEF incVars, cacheFiles, IncInv, IncTypes, Saving, IncPaired, ResultsAreFresh, Sources
  <2> QED
    BY <2>1, BuildKeeps, ManifestKeeps, CrashKeeps, TouchKeeps DEF IncNext
<1>3. IncInv => ResultsAreFresh
  BY DEF IncInv
<1> QED
  BY <1>1, <1>2, <1>3, PTL DEF IncSpec

-----------------------------------------------------------------------------
(* The evidence of runs.                                                   *)

\* A set of positions that is not empty has a first one.
LEMMA Least ==
  ASSUME NEW T, T \subseteq Nat, T # {}
  PROVE  \E x \in T : \A y \in T : x <= y
<1> DEFINE W == {0..x : x \in T}
<1>1. W \subseteq FiniteSubsetsOf(Nat) /\ W # {}
  <2>1. \A x \in T : IsFiniteSet(0..x) /\ 0..x \in SUBSET Nat
    BY FS_Interval
  <2> QED
    BY <2>1 DEF FiniteSubsetsOf
<1>2. \E w \in W : \A u \in W : ~(<<u, w>> \in StrictSubsetOrdering(Nat))
  <2>1. IsWellFoundedOn(StrictSubsetOrdering(Nat), FiniteSubsetsOf(Nat))
    BY FS_StrictSubsetOrderingWellFounded, Zenon
  <2> HIDE DEF W
  <2> QED
    BY <1>1, <2>1, WFMin, Zenon
<1>3. PICK x \in T : \A y \in T : ~(<<0..y, 0..x>> \in StrictSubsetOrdering(Nat))
  BY <1>2
<1>4. ASSUME NEW y \in T, ~(x <= y) PROVE FALSE
  <2>1. 0..y \subseteq 0..x /\ x \in 0..x /\ x \notin 0..y
    BY <1>4
  <2>2. 0..y \in SUBSET Nat /\ 0..x \in SUBSET Nat
    BY <1>4
  <2> QED
    BY <1>3, <2>1, <2>2 DEF StrictSubsetOrdering
<1> QED
  BY <1>4

-----------------------------------------------------------------------------
\* Every record names the one before it.
IsChain(m) == \A k \in 1..Len(m) : m[k].parent = k - 1

\* In a chain the only ancestor d steps away is d places before the root.
LEMMA ChainAncestors ==
  ASSUME NEW S, NEW m \in Seq(S), m # <<>>, IsChain(m)
  PROVE  Ancestors(m) =
           [d \in 0..MaxDepth + 1 |-> IF d < Len(m) THEN {Len(m) - d} ELSE {}]
<1> DEFINE n == Len(m)
           D == 0..MaxDepth + 1
           Up(g, d) == IF d = 0 THEN {n} ELSE {m[k].parent : k \in g[d - 1]} \ {0}
           chain == [d \in D |-> IF d < n THEN {n - d} ELSE {}]
<1>1. n \in Nat \ {0} /\ MaxDepth \in Nat
  BY EmptySeq, EvidenceAssumption
<1>2. \A k \in 1..n : m[k].parent = k - 1
  BY DEF IsChain
<1> HIDE DEF n
<1>3. ASSUME NEW d \in D PROVE chain[d] = Up(chain, d)
  <2>1. CASE d = 0
    BY <1>1, <2>1
  <2>2. CASE d # 0 /\ d - 1 < n
    <3>1. d - 1 \in D /\ chain[d - 1] = {n - (d - 1)}
      BY <1>1, <2>2
    <3>2. n - (d - 1) \in 1..n /\ m[n - (d - 1)].parent = n - d
      BY <1>1, <1>2, <2>2
    <3>3. Up(chain, d) = {n - d} \ {0}
      BY <2>2, <3>1, <3>2
    <3>4. chain[d] = IF d < n THEN {n - d} ELSE {}
      OBVIOUS
    <3>5. CASE d < n
      <4>1. n - d # 0
        BY <1>1, <3>5
      <4> QED
        BY <3>3, <3>4, <3>5, <4>1
    <3>6. CASE ~(d < n)
      <4>1. n - d = 0
        BY <1>1, <2>2, <3>6
      <4> QED
        BY <3>3, <3>4, <3>6, <4>1
    <3> QED
      BY <3>5, <3>6
  <2>3. CASE d # 0 /\ ~(d - 1 < n)
    <3>1. d - 1 \in D /\ chain[d - 1] = {} /\ chain[d] = {}
      BY <1>1, <2>3
    <3> QED
      BY <2>3, <3>1
  <2> QED
    BY <2>1, <2>2, <2>3
<1>4. chain = [d \in D |-> Up(chain, d)]
  BY <1>3
<1>5. Ancestors(m) = [d \in D |-> Up(Ancestors(m), d)]
  BY <1>4 DEF Ancestors, n
<1>6. \A d \in D : Ancestors(m)[d] = chain[d]
  <2> DEFINE T == {d \in D : Ancestors(m)[d] # chain[d]}
  <2> SUFFICES ASSUME T # {} PROVE FALSE
    OBVIOUS
  <2>1. PICK d \in T : \A y \in T : d <= y
    <3>1. T \subseteq Nat
      BY <1>1
    <3> QED
      BY <3>1, Least
  <2>2. d \in D /\ Ancestors(m)[d] # chain[d]
    OBVIOUS
  <2>3. d # 0
    BY <1>1, <1>3, <1>5, <2>2
  <2>4. d - 1 \in D /\ ~(d <= d - 1)
    BY <1>1, <2>2, <2>3
  <2>5. Ancestors(m)[d - 1] = chain[d - 1]
    BY <2>1, <2>4
  <2>6. Up(Ancestors(m), d) = Up(chain, d)
    BY <2>5
  <2> HIDE DEF Up, chain
  <2> QED
    BY <1>3, <1>5, <2>2, <2>6
<1>7. Ancestors(m) = [d \in D |-> Ancestors(m)[d]]
  BY <1>5
<1> QED
  BY <1>6, <1>7 DEF n

\* So the graph of a chain is valid up to the depth limit, and not beyond.
LEMMA ChainIsValid ==
  ASSUME NEW S, NEW m \in Seq(S), m # <<>>, IsChain(m)
  PROVE  GraphValid(m) <=> Len(m) <= MaxDepth + 1
<1> DEFINE n == Len(m)
<1>1. n \in Nat \ {0} /\ MaxDepth \in Nat
  BY EmptySeq, EvidenceAssumption
<1>2. \A d \in 0..MaxDepth + 1 : Ancestors(m)[d] = IF d < n THEN {n - d} ELSE {}
  BY ChainAncestors
<1> HIDE DEF n
<1>3. Ancestors(m)[MaxDepth + 1] = {} <=> n <= MaxDepth + 1
  <2>1. MaxDepth + 1 \in 0..MaxDepth + 1
    BY <1>1
  <2>2. Ancestors(m)[MaxDepth + 1] = IF MaxDepth + 1 < n THEN {n - (MaxDepth + 1)} ELSE {}
    BY <1>2, <2>1
  <2> QED
    BY <1>1, <2>2
<1>4. ASSUME n <= MaxDepth + 1
      PROVE  UNION {Ancestors(m)[d] : d \in 0..MaxDepth} = 1..n
  <2>1. ASSUME NEW k \in 1..n PROVE \E d \in 0..MaxDepth : k \in Ancestors(m)[d]
    <3>1. n - k \in 0..MaxDepth /\ n - k < n /\ n - (n - k) = k /\ n - k \in 0..MaxDepth + 1
      BY <1>1, <1>4
    <3>2. k \in Ancestors(m)[n - k]
      BY <1>2, <3>1
    <3> QED
      BY <3>1, <3>2
  <2>2. ASSUME NEW d \in 0..MaxDepth, NEW k \in Ancestors(m)[d] PROVE k \in 1..n
    <3>1. d \in 0..MaxDepth + 1
      BY <1>1
    <3>0. k \in (IF d < n THEN {n - d} ELSE {})
      BY <1>2, <3>1
    <3>2. d < n /\ k = n - d
      BY <3>0
    <3> QED
      BY <1>1, <3>1, <3>2
  <2> QED
    BY <2>1, <2>2
<1> QED
  BY <1>1, <1>3, <1>4 DEF GraphValid, n

-----------------------------------------------------------------------------
\* What a file can hold, and where a run can be.
FileStates == Contents \cup {Gone}
RunLabels == {"idle", "ready", "ran", "verified", "append"}

\* The state keeps its types.
EvidenceTypes ==
  /\ disk \in [Files -> [content : FileStates, stamp : Nat]]
  /\ rpc \in [Builders -> RunLabels]
  /\ taken \in [Builders -> [Inputs -> FileStates]]
  /\ began \in [Builders -> [Inputs -> Nat]]
  /\ consumed \in [Builders -> [Inputs -> FileStates]]
  /\ wrote \in [Builders -> FileStates]
  /\ diags \in [Builders -> BOOLEAN] /\ twice \in [Builders -> BOOLEAN]
  /\ records \in Seq(Record)
  /\ disked \in 0..Len(records) /\ staging \in 0..Len(records)
  /\ vpc \in {"idle", "checking", "done"}
  /\ goal \in 0..Len(records)
  /\ start \in [Files -> Nat] /\ integrity \in BOOLEAN

\* Each record names the one before it, and what is on disk or about to be was valid
\* when it was taken.
Chained ==
  /\ IsChain(records)
  /\ disked <= MaxDepth + 1 /\ staging <= MaxDepth + 1

\* The write stamps tell what may have happened to an input since thread t looked at it:
\* nothing, or one write, before or after the command read it.
Watched(t) ==
  rpc[t] \in {"ready", "ran"} =>
    \A f \in Inputs :
      /\ began[t][f] <= disk[f].stamp
      /\ ~diags[t] /\ disk[f].stamp = began[t][f] =>
           /\ Content(f) = taken[t][f]
           /\ rpc[t] = "ran" => consumed[t][f] = taken[t][f]
      /\ ~diags[t] /\ rpc[t] = "ran" /\ disk[f].stamp = began[t][f] + 1 =>
           consumed[t][f] \in {taken[t][f], Content(f)}

\* A run that passed its verification read what its record will name.
Verified(t) ==
  rpc[t] \in {"verified", "append"} /\ ~diags[t] => taken[t] = consumed[t] \/ twice[t]

\* A record without a diagnostic names what its command read.
RecordsAreTrue ==
  \A k \in DOMAIN records : records[k].clean => records[k].inputs = records[k].used \/ records[k].twice

\* What the consumer has to compare.
Claimed == UNION {InputsOf(records[k]) \cup OutputOf(records[k]) : k \in 1..goal}

\* A claim holds now; no file has moved since the consumer began.
ClaimHolds(p) == Content(p[1]) = p[2]
Unmoved == \A f \in Files : disk[f].stamp = start[f]

\* While nothing moves, the verdict so far is that of the files compared so far.
Compared ==
  vpc # "idle" =>
    /\ left \subseteq Claimed
    /\ vpc = "done" => left = {}
    /\ \A f \in Files : start[f] <= disk[f].stamp
    /\ Unmoved => (integrity <=> \A p \in Claimed \ left : ClaimHolds(p))

\* What holds at each step of the threads, the editor and the consumer.
EvidenceInv ==
  /\ EvidenceTypes /\ Chained /\ RecordsAreTrue /\ Compared
  /\ \A t \in Builders : Watched(t) /\ Verified(t)

\* Records that stay where they are claim what they claimed, and the verdict over them stands.
LEMMA ClaimsStay ==
  ASSUME goal' = goal, \A k \in 1..goal : records'[k] = records[k]
  PROVE  Claimed' = Claimed
<1>1. \A k \in 1..goal : /\ InputsOf(records'[k]) = InputsOf(records[k])
                        /\ OutputOf(records'[k]) = OutputOf(records[k])
  OBVIOUS
<1>2. Claimed' = UNION {InputsOf(records'[k]) \cup OutputOf(records'[k]) : k \in 1..goal}
  BY DEF Claimed, InputsOf, OutputOf
<1> QED
  BY <1>1, <1>2 DEF Claimed

\* A verdict needs only the files and the records it was reached from.
LEMMA VerdictStays ==
  ASSUME Compared, UNCHANGED <<disk, consumerVars>>, \A k \in 1..goal : records'[k] = records[k]
  PROVE  Compared'
<1>1. Claimed' = Claimed
  BY ClaimsStay DEF consumerVars
<1>2. Unmoved' = Unmoved /\ \A q : ClaimHolds(q)' = ClaimHolds(q)
  BY DEF Unmoved, ClaimHolds, Content, consumerVars
<1> QED
  BY <1>1, <1>2 DEF Compared, consumerVars

\* It holds in the initial states.
LEMMA EvidenceStarts == EvidenceInit => EvidenceInv
<1> SUFFICES ASSUME EvidenceInit PROVE EvidenceInv
  OBVIOUS
<1>0. MaxDepth \in Nat /\ <<>> \in Seq(Record) /\ Len(<<>>) = 0
  BY EvidenceAssumption, EmptySeq
<1>1. PICK old \in FileStates :
         disk = [f \in Files |-> [content |-> IF f = Output THEN Gone ELSE old, stamp |-> 0]]
  BY DEF EvidenceInit, FileStates
<1>2. disk \in [Files -> [content : FileStates, stamp : Nat]]
  BY <1>1 DEF FileStates
<1>3. /\ records = <<>> /\ disked = 0 /\ staging = 0 /\ goal = 0 /\ vpc = "idle"
      /\ rpc = [t \in Builders |-> "idle"]
  BY DEF EvidenceInit
<1>4. EvidenceTypes
  <2>1. taken \in [Builders -> [Inputs -> FileStates]] /\ consumed \in [Builders -> [Inputs -> FileStates]]
    BY DEF EvidenceInit, FileStates
  <2>2. began \in [Builders -> [Inputs -> Nat]] /\ start \in [Files -> Nat]
    BY DEF EvidenceInit
  <2>3. rpc \in [Builders -> RunLabels] /\ wrote \in [Builders -> FileStates]
        /\ diags \in [Builders -> BOOLEAN] /\ twice \in [Builders -> BOOLEAN]
        /\ integrity \in BOOLEAN
    BY DEF EvidenceInit, FileStates, RunLabels
  <2> QED
    BY <1>0, <1>2, <1>3, <2>1, <2>2, <2>3 DEF EvidenceTypes
<1>5. Chained /\ RecordsAreTrue /\ Compared
  BY <1>0, <1>3 DEF Chained, IsChain, RecordsAreTrue, Compared
<1>6. \A t \in Builders : Watched(t) /\ Verified(t)
  BY <1>3 DEF Watched, Verified
<1> QED
  BY <1>4, <1>5, <1>6 DEF EvidenceInv

\* A step that leaves the disk alone and appends no record.
LEMMA RunStays ==
  ASSUME EvidenceInv, NEW t \in Builders,
         Snapshot(t) \/ SnapshotRaced(t) \/ Verify(t) \/ SnapshotOutput(t)
  PROVE  EvidenceInv'
<1> USE DEF shared, consumerVars
<1>0. UNCHANGED <<disk, shared, consumerVars>>
  BY DEF Snapshot, SnapshotRaced, Verify, SnapshotOutput
<1>1. EvidenceTypes
  BY DEF EvidenceInv
<1>2. \A f \in Inputs : f \in Files /\ Content(f) \in FileStates /\ disk[f].stamp \in Nat
  BY <1>1 DEF EvidenceTypes, Content, Files
<1>3. Content(Output) \in FileStates
  BY <1>1 DEF EvidenceTypes, Content, Files
<1>4. EvidenceTypes'
  <2>1. CASE Snapshot(t)
    BY <1>0, <1>1, <1>2, <2>1 DEF Snapshot, EvidenceTypes, RunLabels
  <2>2. CASE SnapshotRaced(t)
    BY <1>0, <1>1, <2>2 DEF SnapshotRaced, EvidenceTypes, FileStates
  <2>3. CASE Verify(t)
    BY <1>0, <1>1, <2>3 DEF Verify, EvidenceTypes, RunLabels
  <2>4. CASE SnapshotOutput(t)
    BY <1>0, <1>1, <1>3, <2>4 DEF SnapshotOutput, EvidenceTypes, RunLabels
  <2> QED
    BY <2>1, <2>2, <2>3, <2>4
<1>5. Chained' /\ RecordsAreTrue' /\ Compared'
  BY <1>0 DEF EvidenceInv, Chained, IsChain, RecordsAreTrue, Compared, Claimed, ClaimHolds, Unmoved,
              Content, InputsOf, OutputOf
<1>6. ASSUME NEW u \in Builders, u # t PROVE Watched(u)' /\ Verified(u)'
  <2>1. UNCHANGED <<rpc[u], taken[u], began[u], consumed[u], diags[u], twice[u]>>
    BY <1>1, <1>6 DEF EvidenceTypes, Snapshot, SnapshotRaced, Verify, SnapshotOutput
  <2> QED
    BY <1>0, <2>1 DEF EvidenceInv, Watched, Verified, Content
<1>7. Watched(t)' /\ Verified(t)'
  <2>1. CASE Snapshot(t)
    <3>1. /\ rpc'[t] = "ready" /\ taken'[t] = [f \in Inputs |-> Content(f)]
          /\ began'[t] = [f \in Inputs |-> disk[f].stamp]
      BY <1>1, <2>1 DEF Snapshot, EvidenceTypes
    <3> QED
      BY <1>0, <1>2, <3>1 DEF Watched, Verified, Content
  <2>2. CASE SnapshotRaced(t)
    <3>1. diags'[t] = TRUE /\ rpc' = rpc /\ began' = began
      BY <1>1, <2>2 DEF SnapshotRaced, EvidenceTypes
    <3> QED
      BY <1>0, <3>1 DEF EvidenceInv, Watched, Verified
  <2>3. CASE Verify(t)
    <3>1. /\ rpc[t] = "ran" /\ rpc'[t] = "verified" /\ UNCHANGED <<taken, consumed, began>>
          /\ ~diags'[t] => ~diags[t] /\ InputsHeld(t)
          /\ ~twice'[t] => \A f \in Inputs : ~(disk[f].stamp > began[t][f] + 1)
      BY <1>1, <2>3 DEF Verify, EvidenceTypes
    <3>2. ASSUME ~diags'[t], ~twice'[t] PROVE taken[t] = consumed[t]
      <4>1. taken[t] \in [Inputs -> FileStates] /\ consumed[t] \in [Inputs -> FileStates]
            /\ began[t] \in [Inputs -> Nat]
        BY <1>1 DEF EvidenceTypes
      <4>2. ASSUME NEW f \in Inputs PROVE consumed[t][f] = taken[t][f]
        <5>1. Content(f) = taken[t][f]
          BY <3>1, <3>2 DEF InputsHeld
        <5>2. /\ disk[f].stamp \in Nat /\ began[t][f] \in Nat /\ began[t][f] <= disk[f].stamp
              /\ ~(disk[f].stamp > began[t][f] + 1)
          BY <1>2, <3>1, <3>2, <4>1 DEF EvidenceInv, Watched
        <5>3. disk[f].stamp = began[t][f] \/ disk[f].stamp = began[t][f] + 1
          BY <5>2
        <5> QED
          BY <3>1, <3>2, <5>1, <5>3 DEF EvidenceInv, Watched
      <4> QED
        BY <4>1, <4>2
    <3> QED
      BY <3>1, <3>2 DEF Watched, Verified
  <2>4. CASE SnapshotOutput(t)
    <3>1. /\ rpc[t] = "verified" /\ rpc'[t] = "append" /\ UNCHANGED <<taken, consumed, twice>>
          /\ ~diags'[t] => ~diags[t]
      BY <1>1, <2>4 DEF SnapshotOutput, EvidenceTypes
    <3> QED
      BY <3>1 DEF EvidenceInv, Watched, Verified
  <2> QED
    BY <2>1, <2>2, <2>3, <2>4
<1> QED
  BY <1>4, <1>5, <1>6, <1>7 DEF EvidenceInv

\* A write to one file, by a command or an editor: its stamp moves.
LEMMA WriteStays ==
  ASSUME EvidenceInv, NEW g \in Files, NEW c \in FileStates,
         disk' = [disk EXCEPT ![g] = [content |-> c, stamp |-> @.stamp + 1]],
         UNCHANGED <<records, consumerVars>>
  PROVE  /\ disk' \in [Files -> [content : FileStates, stamp : Nat]]
         /\ RecordsAreTrue' /\ Compared'
         /\ \A f \in Files \ {g} : disk'[f] = disk[f]
         /\ disk'[g].stamp = disk[g].stamp + 1
         /\ disk[g].stamp \in Nat
<1>1. disk[g].stamp \in Nat /\ DOMAIN disk = Files
  BY DEF EvidenceInv, EvidenceTypes
<1>2. \A f \in Files \ {g} : disk'[f] = disk[f]
  BY <1>1
<1>3. disk'[g] = [content |-> c, stamp |-> disk[g].stamp + 1]
  BY <1>1
<1>4. disk' \in [Files -> [content : FileStates, stamp : Nat]]
  BY <1>1 DEF EvidenceInv, EvidenceTypes
<1>5. disk'[g].stamp = disk[g].stamp + 1
  BY <1>3
<1>6. RecordsAreTrue'
  BY DEF EvidenceInv, RecordsAreTrue
<1>7. Compared'
  <2> SUFFICES ASSUME vpc # "idle" PROVE Compared'
    BY DEF Compared, consumerVars
  <2>1. Claimed' = Claimed /\ left \subseteq Claimed /\ (vpc = "done" => left = {})
    BY DEF Claimed, InputsOf, OutputOf, consumerVars, EvidenceInv, Compared
  <2>2. \A f \in Files : start[f] <= disk[f].stamp /\ start[f] \in Nat
    BY DEF EvidenceInv, Compared, EvidenceTypes
  <2>3. ~(disk'[g].stamp = start[g]) /\ start[g] <= disk'[g].stamp
    BY <1>1, <1>5, <2>2
  <2>4. \A f \in Files : start[f] <= disk'[f].stamp
    BY <1>2, <2>2, <2>3
  <2> QED
    BY <2>1, <2>3, <2>4 DEF Compared, Unmoved, consumerVars
<1> QED
  BY <1>1, <1>2, <1>4, <1>5, <1>6, <1>7

\* An editor writes or removes an input.
LEMMA EditStays ==
  ASSUME EvidenceInv, Edit
  PROVE  EvidenceInv'
<1>1. PICK g \in Inputs, c \in FileStates :
         disk' = [disk EXCEPT ![g] = [content |-> c, stamp |-> @.stamp + 1]]
  BY DEF Edit, FileStates
<1>2. g \in Files /\ UNCHANGED <<runVars, shared, consumerVars>>
  BY DEF Edit, Files
<1>3. /\ disk' \in [Files -> [content : FileStates, stamp : Nat]]
      /\ RecordsAreTrue' /\ Compared'
      /\ \A f \in Files \ {g} : disk'[f] = disk[f]
      /\ disk'[g].stamp = disk[g].stamp + 1
      /\ disk[g].stamp \in Nat
  BY <1>1, <1>2, WriteStays DEF shared
<1>4. EvidenceTypes' /\ Chained'
  BY <1>2, <1>3 DEF EvidenceInv, EvidenceTypes, Chained, IsChain, runVars, shared, consumerVars
<1>5. ASSUME NEW t \in Builders PROVE Watched(t)' /\ Verified(t)'
  <2>1. Verified(t)'
    BY <1>2 DEF EvidenceInv, Verified, runVars
  <2>2. ASSUME rpc[t] \in {"ready", "ran"}, NEW f \in Inputs
        PROVE  /\ began[t][f] <= disk'[f].stamp
               /\ ~diags[t] /\ disk'[f].stamp = began[t][f] =>
                    /\ Content(f)' = taken[t][f]
                    /\ rpc[t] = "ran" => consumed[t][f] = taken[t][f]
               /\ ~diags[t] /\ rpc[t] = "ran" /\ disk'[f].stamp = began[t][f] + 1 =>
                    consumed[t][f] \in {taken[t][f], Content(f)'}
    <3>0. /\ began[t][f] \in Nat /\ began[t][f] <= disk[f].stamp
          /\ ~diags[t] /\ disk[f].stamp = began[t][f] =>
               /\ Content(f) = taken[t][f]
               /\ rpc[t] = "ran" => consumed[t][f] = taken[t][f]
          /\ ~diags[t] /\ rpc[t] = "ran" /\ disk[f].stamp = began[t][f] + 1 =>
               consumed[t][f] \in {taken[t][f], Content(f)}
      BY <2>2 DEF EvidenceInv, EvidenceTypes, Watched
    <3>1. CASE f # g
      <4>1. disk'[f] = disk[f] /\ Content(f)' = Content(f)
        BY <1>3, <3>1 DEF Files, Content
      <4> QED
        BY <3>0, <4>1
    <3>2. CASE f = g
      <4>1. ~(disk'[f].stamp = began[t][f])
        BY <1>3, <3>0, <3>2
      <4>2. disk'[f].stamp = began[t][f] + 1 => disk[f].stamp = began[t][f]
        BY <1>3, <3>0, <3>2
      <4>3. began[t][f] <= disk'[f].stamp
        BY <1>3, <3>0, <3>2
      <4> QED
        BY <3>0, <4>1, <4>2, <4>3
    <3> QED
      BY <3>1, <3>2
  <2> QED
    BY <1>2, <2>1, <2>2 DEF Watched, runVars
<1> QED
  BY <1>3, <1>4, <1>5 DEF EvidenceInv

\* The command reads its inputs and writes its output.
LEMMA ProcessStays ==
  ASSUME EvidenceInv, NEW t \in Builders, RunProcess(t)
  PROVE  EvidenceInv'
<1>0. /\ rpc[t] = "ready" /\ rpc' = [rpc EXCEPT ![t] = "ran"]
      /\ consumed' = [consumed EXCEPT ![t] = [f \in Inputs |-> Content(f)]]
      /\ UNCHANGED <<taken, began, wrote, diags, twice, shared, consumerVars>>
  BY DEF RunProcess
<1>1. EvidenceTypes /\ Output \in Files /\ Inputs \subseteq Files /\ Output \notin Inputs
  BY EvidenceAssumption DEF EvidenceInv, Files
<1>2. \A f \in Files : Content(f) \in FileStates /\ disk[f].stamp \in Nat
  BY <1>1 DEF EvidenceTypes, Content
<1>3. /\ disk' \in [Files -> [content : FileStates, stamp : Nat]]
      /\ RecordsAreTrue' /\ Compared'
      /\ \A f \in Inputs : disk'[f] = disk[f]
  <2>1. CASE UNCHANGED disk
    <3>1. Compared'
      BY <1>0, <2>1, VerdictStays DEF EvidenceInv, shared
    <3>2. RecordsAreTrue'
      BY <1>0 DEF EvidenceInv, RecordsAreTrue, shared
    <3> QED
      BY <1>1, <2>1, <3>1, <3>2 DEF EvidenceTypes
  <2>2. ASSUME NEW f \in Inputs,
               disk' = [disk EXCEPT ![Output] = [content |-> Content(f), stamp |-> @.stamp + 1]]
        PROVE  <1>3!1 /\ <1>3!2 /\ <1>3!3
    <3>1. Content(f) \in FileStates
      BY <1>1, <1>2
    <3>2. /\ disk' \in [Files -> [content : FileStates, stamp : Nat]]
          /\ RecordsAreTrue' /\ Compared'
          /\ \A g \in Files \ {Output} : disk'[g] = disk[g]
      BY <1>0, <1>1, <2>2, <3>1, WriteStays DEF shared
    <3> QED
      BY <1>1, <3>2
  <2> QED
    BY <2>1, <2>2 DEF RunProcess
<1>4. EvidenceTypes'
  <2>1. [f \in Inputs |-> Content(f)] \in [Inputs -> FileStates]
    BY <1>1, <1>2
  <2>2. consumed' \in [Builders -> [Inputs -> FileStates]] /\ rpc' \in [Builders -> RunLabels]
    BY <1>0, <1>1, <2>1 DEF EvidenceTypes, RunLabels
  <2> QED
    BY <1>0, <1>1, <1>3, <2>2 DEF EvidenceTypes, shared, consumerVars
<1>5. Chained'
  BY <1>0 DEF EvidenceInv, Chained, IsChain, shared
<1>6. ASSUME NEW u \in Builders PROVE Watched(u)' /\ Verified(u)'
  <2>1. \A f \in Inputs : disk'[f] = disk[f] /\ Content(f)' = Content(f)
    BY <1>3 DEF Content
  <2>2. CASE u = t
    <3>1. rpc'[t] = "ran" /\ consumed'[t] = [f \in Inputs |-> Content(f)]
      BY <1>0, <1>1 DEF EvidenceTypes
    <3> QED
      BY <1>0, <2>1, <2>2, <3>1 DEF EvidenceInv, Watched, Verified
  <2>3. CASE u # t
    <3>1. rpc'[u] = rpc[u] /\ consumed'[u] = consumed[u]
      BY <1>0, <1>1, <2>3 DEF EvidenceTypes
    <3> QED
      BY <1>0, <2>1, <3>1 DEF EvidenceInv, Watched, Verified
  <2> QED
    BY <2>2, <2>3
<1> QED
  BY <1>3, <1>4, <1>5, <1>6 DEF EvidenceInv

\* A record is appended: the others, and what was published of them, stay.
LEMMA AppendStays ==
  ASSUME EvidenceInv, NEW t \in Builders, AppendRecord(t)
  PROVE  EvidenceInv'
<1> DEFINE r == Seal(t, Parent)
<1>0. /\ rpc[t] = "append" /\ rpc' = [rpc EXCEPT ![t] = "idle"] /\ records' = Append(records, r)
      /\ UNCHANGED <<disk, taken, began, consumed, wrote, diags, twice, disked, staging,
                     consumerVars>>
  BY DEF AppendRecord
<1>1. EvidenceTypes
  BY DEF EvidenceInv
<1>2. r \in Record /\ r.parent = Len(records) /\ Len(records) \in Nat
      /\ (r.clean => r.inputs = r.used \/ r.twice)
  <2>1. Len(records) \in Nat
    BY <1>1, LenProperties DEF EvidenceTypes
  <2>2. r = [parent |-> Len(records), inputs |-> taken[t], output |-> wrote[t],
             used |-> consumed[t], twice |-> twice[t], clean |-> ~diags[t]]
    BY DEF Seal, Parent, Root
  <2>3. Verified(t)
    BY DEF EvidenceInv
  <2>4. taken[t] \in [Inputs -> FileStates] /\ consumed[t] \in [Inputs -> FileStates]
        /\ wrote[t] \in FileStates /\ twice[t] \in BOOLEAN
    BY <1>1 DEF EvidenceTypes
  <2>5. r \in Record
    BY <2>1, <2>2, <2>4 DEF Record, FileStates
  <2>7. r.inputs = taken[t] /\ r.used = consumed[t] /\ r.twice = twice[t] /\ r.clean = ~diags[t]
    BY <2>2
  <2>8. ~diags[t] => taken[t] = consumed[t] \/ twice[t]
    BY <1>0, <2>3 DEF Verified
  <2> HIDE DEF r
  <2>6. r.clean => r.inputs = r.used \/ r.twice
    BY <2>7, <2>8
  <2> QED
    BY <2>1, <2>2, <2>5, <2>6
<1> HIDE DEF r
<1>3. /\ records' \in Seq(Record) /\ Len(records') = Len(records) + 1
      /\ records'[Len(records) + 1] = r
      /\ \A k \in 1..Len(records) : records'[k] = records[k]
  BY <1>0, <1>1, <1>2, AppendProperties DEF EvidenceTypes
<1>4. EvidenceTypes'
  BY <1>0, <1>1, <1>2, <1>3 DEF EvidenceTypes, RunLabels, consumerVars
<1>5. Chained'
  <2> SUFFICES ASSUME NEW k \in 1..Len(records') PROVE records'[k].parent = k - 1
    BY <1>0 DEF EvidenceInv, Chained, IsChain
  <2>1. CASE k = Len(records) + 1
    BY <1>2, <1>3, <2>1
  <2>2. CASE k # Len(records) + 1
    <3>1. k \in 1..Len(records)
      BY <1>2, <1>3, <2>2
    <3> QED
      BY <1>3, <3>1 DEF EvidenceInv, Chained, IsChain
  <2> QED
    BY <2>1, <2>2
<1>6. RecordsAreTrue'
  <2>1. DOMAIN records' = 1..(Len(records) + 1) /\ DOMAIN records = 1..Len(records)
    BY <1>1, <1>3, LenProperties DEF EvidenceTypes
  <2> SUFFICES ASSUME NEW k \in DOMAIN records', records'[k].clean
               PROVE  records'[k].inputs = records'[k].used \/ records'[k].twice
    BY DEF RecordsAreTrue
  <2>2. CASE k = Len(records) + 1
    BY <1>2, <1>3, <2>2
  <2>3. CASE k \in 1..Len(records)
    BY <1>3, <2>1, <2>3 DEF EvidenceInv, RecordsAreTrue
  <2> QED
    BY <1>2, <2>1, <2>2, <2>3
<1>7. Compared'
  <2>1. \A k \in 1..goal : records'[k] = records[k]
    BY <1>1, <1>2, <1>3 DEF EvidenceTypes
  <2> QED
    BY <1>0, <2>1, VerdictStays DEF EvidenceInv
<1>8. ASSUME NEW u \in Builders PROVE Watched(u)' /\ Verified(u)'
  <2>1. rpc'[u] = IF u = t THEN "idle" ELSE rpc[u]
    BY <1>0, <1>1 DEF EvidenceTypes
  <2> QED
    BY <1>0, <2>1 DEF EvidenceInv, Watched, Verified, Content
<1> QED
  BY <1>4, <1>5, <1>6, <1>7, <1>8 DEF EvidenceInv

\* What is published is a chain as well.
LEMMA PublishedIsChain ==
  ASSUME EvidenceTypes, IsChain(records), disked # 0
  PROVE  /\ Published \in Seq(Record) /\ Len(Published) = disked /\ IsChain(Published)
         /\ Published # <<>>
         /\ \A k \in 1..disked : Published[k] = records[k]
<1>1. disked \in 1..Len(records) /\ Len(records) \in Nat /\ disked \in Int
  BY LenProperties DEF EvidenceTypes
<1>2. \A i \in 1..disked : records[i] \in Record
  BY <1>1, ElementOfSeq DEF EvidenceTypes
<1>3. /\ Published \in Seq(Record)
      /\ Len(Published) = IF 1 <= disked THEN disked - 1 + 1 ELSE 0
      /\ \A i \in 1..disked - 1 + 1 : Published[i] = records[1 + i - 1]
  BY <1>1, <1>2, SubSeqProperties DEF Published
<1>4. Len(Published) = disked /\ \A k \in 1..disked : Published[k] = records[k]
  BY <1>1, <1>3
<1>5. Published # <<>>
  BY <1>1, <1>4, EmptySeq
<1>6. IsChain(Published)
  <2>1. \A k \in 1..disked : k \in 1..Len(records)
    BY <1>1
  <2>2. \A k \in 1..disked : Published[k].parent = k - 1
    BY <1>4, <2>1 DEF IsChain
  <2> QED
    BY <1>4, <2>2 DEF IsChain
<1> QED
  BY <1>3, <1>4, <1>5, <1>6

\* The records are written to the disk.
LEMMA FlushStays ==
  ASSUME EvidenceInv, FlushBegin \/ FlushRename \/ FlushFails
  PROVE  EvidenceInv'
<1>0. UNCHANGED <<disk, runVars, records, consumerVars>>
  BY DEF FlushBegin, FlushRename, FlushFails
<1>1. /\ disked' \in {disked, staging} /\ staging' \in {0, Len(records)}
      /\ staging' # 0 => GraphValid(records)
  BY DEF FlushBegin, FlushRename, FlushFails
<1>2. Len(records) \in Nat /\ MaxDepth \in Nat
  BY LenProperties, EvidenceAssumption DEF EvidenceInv, EvidenceTypes
<1>3. staging' # 0 => staging' = Len(records) /\ Len(records) <= MaxDepth + 1
  <2> SUFFICES ASSUME staging' # 0 PROVE Len(records) <= MaxDepth + 1 /\ staging' = Len(records)
    OBVIOUS
  <2>1. records # <<>> /\ GraphValid(records)
    BY <1>1 DEF GraphValid
  <2>2. records \in Seq(Record) /\ IsChain(records)
    BY DEF EvidenceInv, EvidenceTypes, Chained
  <2> QED
    BY <1>1, <2>1, <2>2, ChainIsValid
<1>4. EvidenceTypes'
  <2>1. disked' \in 0..Len(records) /\ staging' \in 0..Len(records)
    BY <1>1, <1>2 DEF EvidenceInv, EvidenceTypes
  <2> QED
    BY <1>0, <2>1 DEF EvidenceInv, EvidenceTypes, runVars, consumerVars
<1>5. Chained'
  BY <1>0, <1>1, <1>2, <1>3 DEF EvidenceInv, Chained, IsChain
<1>6. RecordsAreTrue' /\ Compared' /\ \A t \in Builders : Watched(t)' /\ Verified(t)'
  BY <1>0 DEF EvidenceInv, RecordsAreTrue, Compared, Claimed, InputsOf, OutputOf, ClaimHolds, Unmoved,
              Content, Watched, Verified, runVars, consumerVars
<1> QED
  BY <1>4, <1>5, <1>6 DEF EvidenceInv

\* The consumer compares one file after the other.
LEMMA ConsumerStays ==
  ASSUME EvidenceInv, VerifyBegin \/ VerifyFile \/ VerifyEnd
  PROVE  EvidenceInv'
<1>0. UNCHANGED <<disk, runVars, shared>>
  BY DEF VerifyBegin, VerifyFile, VerifyEnd
<1>1. EvidenceTypes /\ IsChain(records)
  BY DEF EvidenceInv, Chained
<1>2. EvidenceTypes'
  <2>1. CASE VerifyBegin
    <3>1. start' \in [Files -> Nat]
      BY <1>1, <2>1 DEF VerifyBegin, EvidenceTypes
    <3> QED
      BY <1>0, <1>1, <2>1, <3>1 DEF VerifyBegin, EvidenceTypes, runVars, shared
  <2>2. CASE VerifyFile
    <3>1. integrity' \in BOOLEAN
      BY <1>1, <2>2 DEF VerifyFile
    <3> QED
      BY <1>0, <1>1, <2>2, <3>1 DEF VerifyFile, EvidenceTypes, runVars, shared
  <2>3. CASE VerifyEnd
    BY <1>0, <1>1, <2>3 DEF VerifyEnd, EvidenceTypes, runVars, shared
  <2> QED
    BY <2>1, <2>2, <2>3
<1>3. Chained' /\ RecordsAreTrue' /\ \A t \in Builders : Watched(t)' /\ Verified(t)'
  BY <1>0 DEF EvidenceInv, Chained, IsChain, RecordsAreTrue, Watched, Verified, Content, runVars,
              shared
<1>4. Compared'
  <2>1. CASE VerifyBegin
    <3>1. disked # 0 /\ goal' = disked /\ left' = Claims(Published) /\ integrity' = TRUE
          /\ vpc' = "checking" /\ start' = [f \in Files |-> disk[f].stamp]
      BY <2>1 DEF VerifyBegin
    <3>2. DOMAIN Published = 1..disked /\ \A k \in 1..disked : Published[k] = records[k]
      BY <1>1, <3>1, PublishedIsChain, LenProperties
    <3>3. Claimed' = left'
      BY <1>0, <3>1, <3>2 DEF Claimed, Claims, InputsOf, OutputOf, shared
    <3>4. \A f \in Files : start'[f] = disk[f].stamp /\ disk[f].stamp \in Nat
      BY <1>1, <3>1 DEF EvidenceTypes
    <3> QED
      BY <1>0, <3>1, <3>3, <3>4 DEF Compared
  <2>2. CASE VerifyFile
    <3>1. PICK p \in left : left' = left \ {p} /\ integrity' = (integrity /\ Content(p[1]) = p[2])
      BY <2>2 DEF VerifyFile
    <3>2. UNCHANGED <<vpc, goal, start>> /\ vpc = "checking"
      BY <2>2 DEF VerifyFile
    <3>3. Claimed' = Claimed /\ p \in Claimed /\ Unmoved' = Unmoved
          /\ \A q : ClaimHolds(q)' = ClaimHolds(q)
      BY <1>0, <3>1, <3>2
      DEF Claimed, InputsOf, OutputOf, Unmoved, ClaimHolds, Content, shared, EvidenceInv, Compared
    <3>4. left \subseteq Claimed /\ left' \subseteq Claimed
          /\ Claimed \ left' = (Claimed \ left) \cup {p}
      BY <3>1, <3>2, <3>3 DEF EvidenceInv, Compared
    <3>5. ASSUME Unmoved' PROVE integrity' <=> \A q \in Claimed' \ left' : ClaimHolds(q)'
      <4>1. integrity <=> \A q \in Claimed \ left : ClaimHolds(q)
        BY <3>2, <3>3, <3>5 DEF EvidenceInv, Compared
      <4>2. integrity' <=> integrity /\ ClaimHolds(p)
        BY <3>1, <1>1 DEF ClaimHolds, EvidenceTypes
      <4> QED
        BY <3>3, <3>4, <4>1, <4>2
    <3>6. \A f \in Files : start'[f] <= disk'[f].stamp
      BY <1>0, <3>2 DEF EvidenceInv, Compared
    <3> QED
      BY <3>2, <3>3, <3>4, <3>5, <3>6 DEF Compared
  <2>3. CASE VerifyEnd
    BY <1>0, <2>3
    DEF VerifyEnd, EvidenceInv, Compared, Claimed, InputsOf, OutputOf, Unmoved, ClaimHolds, Content,
        shared
  <2> QED
    BY <2>1, <2>2, <2>3
<1> QED
  BY <1>2, <1>3, <1>4 DEF EvidenceInv

\* Every step keeps the invariant.
LEMMA EvidenceKeeps ==
  ASSUME EvidenceInv, [EvidenceNext]_evidenceVars
  PROVE  EvidenceInv'
<1>1. CASE UNCHANGED evidenceVars
  <2>0. UNCHANGED <<disk, records, disked, staging, runVars, consumerVars>>
    BY <1>1 DEF evidenceVars, runVars, consumerVars
  <2>1. EvidenceTypes'
    BY <2>0 DEF EvidenceInv, EvidenceTypes, runVars, consumerVars
  <2>2. Chained' /\ RecordsAreTrue'
    BY <2>0 DEF EvidenceInv, Chained, IsChain, RecordsAreTrue
  <2>3. Compared'
    BY <2>0, VerdictStays DEF EvidenceInv
  <2>4. \A t \in Builders : Watched(t)' /\ Verified(t)'
    BY <2>0 DEF EvidenceInv, Watched, Verified, Content, runVars
  <2> QED
    BY <2>1, <2>2, <2>3, <2>4 DEF EvidenceInv
<1> QED
  BY <1>1, RunStays, ProcessStays, AppendStays, FlushStays, ConsumerStays, EditStays
  DEF EvidenceNext

\* So it always holds.
LEMMA EvidenceInvHolds == EvidenceSpec => []EvidenceInv
<1>1. EvidenceInit => EvidenceInv
  BY EvidenceStarts
<1>2. EvidenceInv /\ [EvidenceNext]_evidenceVars => EvidenceInv'
  BY EvidenceKeeps
<1> QED
  BY <1>1, <1>2, PTL DEF EvidenceSpec

\* The records of all threads form one chain, whose graph is valid exactly up to the depth
\* limit, and what is on disk is valid (ExecutionEvidence.cpp).
THEOREM ChainAlwaysHolds == EvidenceSpec => []ChainHolds
<1>1. EvidenceInv => ChainHolds
  <2> SUFFICES ASSUME EvidenceInv PROVE ChainHolds
    OBVIOUS
  <2>1. records \in Seq(Record) /\ IsChain(records) /\ EvidenceTypes
    BY DEF EvidenceInv, EvidenceTypes, Chained
  <2>2. records # <<>> => (GraphValid(records) <=> Len(records) <= MaxDepth + 1)
    BY <2>1, ChainIsValid
  <2>3. disked # 0 => GraphValid(Published)
    <3> SUFFICES ASSUME disked # 0 PROVE GraphValid(Published)
      OBVIOUS
    <3>1. Published \in Seq(Record) /\ Published # <<>> /\ IsChain(Published)
          /\ Len(Published) = disked
      BY <2>1, PublishedIsChain
    <3>2. Len(Published) <= MaxDepth + 1
      BY <3>1 DEF EvidenceInv, Chained
    <3> QED
      BY <3>1, <3>2, ChainIsValid
  <2> QED
    BY <2>2, <2>3 DEF ChainHolds
<1> QED
  BY <1>1, EvidenceInvHolds, PTL

\* Evidence says what happened: a record without a diagnostic names what its command read,
\* and a verdict reached while nothing moved is right about every file
\* (ExecutionEvidence.cpp, ArtifactEvidence.cpp).
THEOREM EvidenceAlwaysTrue == EvidenceSpec => []EvidenceIsTrue
<1>1. EvidenceInv => EvidenceIsTrue
  <2> SUFFICES ASSUME EvidenceInv, vpc = "done", Unmoved
               PROVE  integrity <=> \A k \in 1..goal : LET r == records[k] IN
                        /\ r.output # Gone => Content(Output) = r.output
                        /\ \A f \in Inputs : r.inputs[f] # Gone => Content(f) = r.inputs[f]
    BY DEF EvidenceIsTrue, EvidenceInv, RecordsAreTrue, Unmoved
  <2>1. integrity <=> \A p \in Claimed : ClaimHolds(p)
    BY DEF EvidenceInv, Compared
  <2>2. ASSUME NEW k \in 1..goal
        PROVE  (\A p \in InputsOf(records[k]) \cup OutputOf(records[k]) : ClaimHolds(p)) <=>
                 /\ records[k].output # Gone => Content(Output) = records[k].output
                 /\ \A f \in Inputs : records[k].inputs[f] # Gone =>
                      Content(f) = records[k].inputs[f]
    <3>1. (\A p \in InputsOf(records[k]) : ClaimHolds(p)) <=>
            \A f \in Inputs : records[k].inputs[f] # Gone => Content(f) = records[k].inputs[f]
      <4>1. \A p : p \in InputsOf(records[k]) <=>
              \E f \in Inputs : records[k].inputs[f] # Gone /\ p = <<f, records[k].inputs[f]>>
        BY DEF InputsOf
      <4>2. \A f, c : ClaimHolds(<<f, c>>) <=> Content(f) = c
        BY DEF ClaimHolds
      <4>3. ASSUME \A p \in InputsOf(records[k]) : ClaimHolds(p), NEW f \in Inputs,
                   records[k].inputs[f] # Gone
            PROVE  Content(f) = records[k].inputs[f]
        <5>1. <<f, records[k].inputs[f]>> \in InputsOf(records[k])
          BY <4>1, <4>3
        <5>2. ClaimHolds(<<f, records[k].inputs[f]>>)
          BY <4>3, <5>1
        <5> QED
          BY <4>2, <5>2
      <4>4. ASSUME \A f \in Inputs :
                     records[k].inputs[f] # Gone => Content(f) = records[k].inputs[f],
                   NEW p \in InputsOf(records[k])
            PROVE  ClaimHolds(p)
        <5>1. PICK f \in Inputs : records[k].inputs[f] # Gone /\ p = <<f, records[k].inputs[f]>>
          BY <4>1
        <5>2. Content(f) = records[k].inputs[f]
          BY <4>4, <5>1
        <5> QED
          BY <4>2, <5>1, <5>2
      <4> QED
        BY <4>3, <4>4
    <3>2. (\A p \in OutputOf(records[k]) : ClaimHolds(p)) <=>
            (records[k].output # Gone => Content(Output) = records[k].output)
      <4>1. ClaimHolds(<<Output, records[k].output>>) <=> Content(Output) = records[k].output
        BY DEF ClaimHolds
      <4> QED
        BY <4>1 DEF OutputOf
    <3> QED
      BY <3>1, <3>2
  <2>3. (\A p \in Claimed : ClaimHolds(p)) <=>
          \A k \in 1..goal : \A p \in InputsOf(records[k]) \cup OutputOf(records[k]) : ClaimHolds(p)
    BY DEF Claimed
  <2> QED
    BY <2>1, <2>2, <2>3
<1> QED
  BY <1>1, EvidenceInvHolds, PTL

-----------------------------------------------------------------------------
(* The JSON codecs.                                                        *)

\* The names of the enumerations.
EnumNames ==
  {"Visibility", "OwnershipKind", "AccessPattern", "PriorityLevel", "Modifier", "Style",
   "TemplateKind", "BuildMode", "OutputType", "ObfuscationMode", "HostLanguage", "Fidelity",
   "BinaryOp", "UnaryOp", "LiteralKind", "CaptureMode", "DecompileLevel", "ExprKind", "StmtKind"}

\* What a function symbol says of where it comes from.
Origins == {"isExternal", "externalOwner", "explicitlyExternal"}

\* What is demanded is always written, and what is written is what is known.
Fits(k, c) ==
  /\ c.demands \subseteq c.always
  /\ c.always \cup c.some = c.demands \cup c.takes
  /\ c.demands \cap c.takes = {}
  /\ Lost(k) \cap (c.always \cup c.some) = {}
  /\ {"none", "unknown", "unwritten"} \cap (c.always \cup c.some) = {}
  /\ k \notin EnumNames
  /\ k = "FunctionSymbol" => Origins \subseteq c.some /\ Origins \cap c.always = {}

\* All codecs of a table fit.
Fit(t) == \A k \in DOMAIN t : Fits(k, t[k])

\* A codec that demands all it always writes and takes the rest.
LEMMA PlainFits ==
  ASSUME NEW k, NEW A, NEW B, A \cap B = {}, {"none", "unknown", "unwritten"} \cap (A \cup B) = {},
         Lost(k) \cap (A \cup B) = {}, k \notin EnumNames, k # "FunctionSymbol"
  PROVE  Fits(k, Plain(A, B))
BY DEF Fits, Plain, Codec

\* A section of the configuration, read with defaults.
LEMMA SectionFits ==
  ASSUME NEW k, NEW A, {"none", "unknown", "unwritten"} \cap A = {},
         Lost(k) \cap (A \cup {"mode"}) = {}, k \notin EnumNames, k # "FunctionSymbol"
  PROVE  Fits(k, Section(A))
BY DEF Fits, Section, Codec

\* What no writer knows, type by type.
LEMMA LostIs ==
  ASSUME NEW k
  PROVE  Lost(k) = IF k = "indirectionCfg" THEN {"vtableOptimize"}
                   ELSE IF k = "containmentCfg" THEN {"strictIdentity"}
                   ELSE IF k = "TypeNode" THEN {"assocBindings", "hrtbLifetimes"}
                   ELSE IF k = "ModelType" THEN {"stdlibId", "recordFields"}
                   ELSE IF k = "TemplateParamDecl" THEN {"extraBounds", "defaultValue"}
                   ELSE IF k = "VisibilityEntry" THEN {"priority"}
                   ELSE IF k = "SymbolTable" THEN {"debugEntries"} ELSE {}
BY DEF Lost, Unwritten

\* The tables, one after the other.
LEMMA ParallelSectionsFit == Fit(ParallelSections)
BY LostIs DEF Fit, Fits, Section, Codec, EnumNames, ParallelSections, Benchmarked, Lowerings
LEMMA PassSectionsFit == Fit(PassSections)
BY LostIs DEF Fit, Fits, Section, Codec, EnumNames, PassSections, Benchmarked
LEMMA ParamsFit == Fit(ParamCodecs)
BY LostIs DEF Fit, Fits, Plain, Codec, EnumNames, ParamCodecs
LEMMA FunctionsFit == Fit(FunctionCodec)
BY LostIs DEF Fit, Fits, Plain, Codec, EnumNames, FunctionCodec, Origins
LEMMA ClassesFit == Fit(ClassCodec)
BY LostIs DEF Fit, Fits, Plain, Codec, EnumNames, ClassCodec, Origins
LEMMA ConfigFit == Fit(ConfigCodec)
BY LostIs DEF Fit, Fits, Codec, EnumNames, ConfigCodec, ConfigKeys, ParallelSections, PassSections
LEMMA RequestFit == Fit(RequestCodec)
BY LostIs DEF Fit, Fits, Codec, EnumNames, RequestCodec, RequestInputs, RequestDemands
LEMMA TypesFit == Fit(TypeCodec)
BY LostIs DEF Fit, Fits, Plain, Codec, EnumNames, TypeCodec
LEMMA ConstraintsFit == Fit(ConstraintCodecs)
BY LostIs DEF Fit, Fits, Plain, Codec, EnumNames, ConstraintCodecs
LEMMA PipelinesFit == Fit(PipelineCodecs)
BY LostIs DEF Fit, Fits, Plain, Codec, EnumNames, PipelineCodecs
LEMMA EntriesFit == Fit(EntryCodecs)
BY LostIs DEF Fit, Fits, Plain, Codec, EnumNames, EntryCodecs
LEMMA SymbolTableFit == Fit(TableCodec)
BY LostIs DEF Fit, Fits, Codec, EnumNames, TableCodec, TableKeys
LEMMA ModelTypesFit == Fit(ModelTypeCodec)
BY LostIs DEF Fit, Fits, Plain, Codec, EnumNames, ModelTypeCodec
LEMMA ModelTemplatesFit == Fit(ModelTemplateCodecs)
BY LostIs DEF Fit, Fits, Codec, EnumNames, ModelTemplateCodecs
LEMMA FieldsFit == Fit(FieldCodec)
BY LostIs DEF Fit, Fits, Codec, EnumNames, FieldCodec, Origin
LEMMA TranspileTypesFit == Fit(TranspileTypeCodec)
BY LostIs DEF Fit, Fits, Codec, EnumNames, TranspileTypeCodec, Origin
LEMMA TranspileFunctionsFit == Fit(TranspileFunctionCodec)
BY LostIs DEF Fit, Fits, Codec, EnumNames, TranspileFunctionCodec, Origin, Resolution
LEMMA ModulesFit == Fit(ModuleCodec)
BY LostIs DEF Fit, Fits, Plain, Codec, EnumNames, ModuleCodec

\* The nodes of a body, by what their writers and their readers name.
NodeAgrees(w, r) ==
  /\ r[1] \subseteq w[1] /\ w[1] \cup w[2] = r[1] \cup r[2] /\ r[1] \cap r[2] = {}
  /\ ({"kind", "fidelity", "none", "unknown", "unwritten"} \cup Origin \cup Resolution)
       \cap (w[1] \cup w[2]) = {}

\* A node whose writer and reader agree fits with the keys that all nodes have.
LEMMA NodeFits ==
  ASSUME NEW k, NEW w, NEW r, NEW some, some \subseteq Origin \cup Resolution, NodeAgrees(w, r),
         Lost(k) = {}, k \notin EnumNames, k # "FunctionSymbol"
  PROVE  Fits(k, Codec(w[1] \cup {"kind", "fidelity"}, w[2] \cup some,
                       r[1] \cup {"kind"}, r[2] \cup some \cup {"fidelity"}))
BY DEF Fits, Codec, NodeAgrees, Origin, Resolution

\* They do for statements and expressions.
LEMMA StmtsAgree == \A k \in DOMAIN StmtWrites : NodeAgrees(StmtWrites[k], StmtReads[k])
BY DEF StmtWrites, StmtReads, NodeAgrees, Origin, Resolution
LEMMA ExprsAgree == \A k \in DOMAIN ExprWrites : NodeAgrees(ExprWrites[k], ExprReads[k])
BY SMTT(30) DEF ExprWrites, ExprReads, NodeAgrees, Origin, Resolution
LEMMA StmtNames == \A k \in DOMAIN StmtWrites : Lost(k) = {} /\ k \notin EnumNames /\ k # "FunctionSymbol"
BY LostIs DEF StmtWrites, EnumNames
LEMMA ExprNames == \A k \in DOMAIN ExprWrites : Lost(k) = {} /\ k \notin EnumNames /\ k # "FunctionSymbol"
BY LostIs DEF ExprWrites, EnumNames
LEMMA StmtsFit == Fit(Nodes(StmtWrites, StmtReads, Origin))
BY NodeFits, StmtsAgree, StmtNames DEF Fit, Nodes
LEMMA ExprsFit == Fit(Nodes(ExprWrites, ExprReads, Origin \cup Resolution))
BY NodeFits, ExprsAgree, ExprNames DEF Fit, Nodes
-----------------------------------------------------------------------------
\* Tables that fit do so together.
LEMMA JoinedFits ==
  ASSUME NEW tables, \A t \in tables : Fit(t)
  PROVE  Fit(Joined(tables))
<1> SUFFICES ASSUME NEW k \in DOMAIN Joined(tables)
             PROVE  Fits(k, Joined(tables)[k])
  BY DEF Fit
<1> DEFINE t == CHOOSE t \in tables : k \in DOMAIN t
<1>1. t \in tables /\ k \in DOMAIN t
  BY DEF Joined
<1>2. Joined(tables)[k] = t[k]
  BY DEF Joined
<1> QED
  BY <1>1, <1>2 DEF Fit

LEMMA CodecsFit == \A k \in DOMAIN Codecs : Fits(k, Codecs[k])
<1> DEFINE tables ==
  {ParallelSections, PassSections, ConfigCodec, RequestCodec, TypeCodec, ParamCodecs,
   FunctionCodec, ClassCodec, ConstraintCodecs, PipelineCodecs, EntryCodecs, TableCodec,
   ModelTypeCodec, ModelTemplateCodecs, Nodes(ExprWrites, ExprReads, Origin \cup Resolution),
   Nodes(StmtWrites, StmtReads, Origin), FieldCodec, TranspileTypeCodec,
   TranspileFunctionCodec, ModuleCodec}
<1>1. \A t \in tables : Fit(t)
  BY ParallelSectionsFit, PassSectionsFit, ParamsFit, FunctionsFit, ClassesFit, ConfigFit,
     RequestFit, TypesFit,
     ConstraintsFit, PipelinesFit, EntriesFit, SymbolTableFit, ModelTypesFit, ModelTemplatesFit,
     FieldsFit, TranspileTypesFit, TranspileFunctionsFit, ModulesFit, StmtsFit, ExprsFit
<1>2. Codecs = Joined(tables)
  BY DEF Codecs
<1> HIDE DEF tables
<1> QED
  BY <1>1, <1>2, JoinedFits DEF Fit

\* A word that is written is compared with, or it is the one taken for any other.
WordsFit(t) ==
  \A e \in DOMAIN t : e \in EnumNames /\ t[e].written \subseteq t[e].compared \cup {t[e].otherwise}
LEMMA SymbolWordsFit == WordsFit(SymbolEnums)
BY DEF WordsFit, Words, EnumNames, SymbolEnums
LEMMA RequestWordsFit == WordsFit(RequestEnums)
BY DEF WordsFit, Words, EnumNames, RequestEnums
LEMMA ModelWordsFit == WordsFit(ModelEnums)
BY DEF WordsFit, Words, EnumNames, ModelEnums
LEMMA KindWordsFit == WordsFit(ExprKinds) /\ WordsFit(StmtKinds)
BY DEF WordsFit, Words, EnumNames, ExprKinds, StmtKinds
LEMMA JoinedWords ==
  ASSUME NEW tables, \A t \in tables : WordsFit(t)
  PROVE  WordsFit(Joined(tables))
<1> SUFFICES ASSUME NEW e \in DOMAIN Joined(tables)
             PROVE  /\ e \in EnumNames
                    /\ Joined(tables)[e].written \subseteq
                         Joined(tables)[e].compared \cup {Joined(tables)[e].otherwise}
  BY DEF WordsFit
<1> DEFINE t == CHOOSE t \in tables : e \in DOMAIN t
<1>1. t \in tables /\ e \in DOMAIN t
  BY DEF Joined
<1>2. Joined(tables)[e] = t[e]
  BY DEF Joined
<1> QED
  BY <1>1, <1>2 DEF WordsFit
LEMMA EnumsFit == WordsFit(Enums)
BY SymbolWordsFit, RequestWordsFit, ModelWordsFit, KindWordsFit, JoinedWords DEF Enums

-----------------------------------------------------------------------------
\* The document of the value v, as the writer leaves it.
KeysOf(k, v) == (Codecs[k].always) \cup ((Codecs[k].some) \cap v)

\* The document of the value v when key a was left out, or one was added.
DocumentOf(k, v, a) ==
  IF a = "unknown" THEN [g \in KeysOf(k, v) \cup {"unknown"} |-> g \in KeysOf(k, v) => g \in v]
  ELSE [g \in KeysOf(k, v) \ {a} |-> g \in v]

\* A legal value of a type, or a word of an enumeration.
CodecSubject ==
  \/ type \in DOMAIN Codecs /\ value \subseteq FieldsOf(type) /\ Legal(type, value)
  \/ type \in DOMAIN Enums /\ \E w \in Enums[type].written : value = {w}

\* What became of the document.
CodecAged == IF IsRecord THEN aged \in {"unwritten", "none", "unknown"} \cup Codecs[type].takes
                    ELSE aged \in {"unwritten", "none"}

\* The document is that of the value.
CodecWritten == aged # "unwritten" =>
  wire = IF IsRecord THEN DocumentOf(type, value, aged) ELSE [f \in value |-> TRUE]

\* And what was read was read from it.
CodecRead == got # <<>> =>
  /\ aged # "unwritten"
  /\ got = IF IsRecord THEN ReadRecord(type, wire)
           ELSE <<"read", {ReadWord(Enums[type], w) : w \in DOMAIN wire}>>

\* What holds at each step.
CodecInv == CodecSubject /\ CodecAged /\ CodecWritten /\ CodecRead

\* A legal value writes all of its fields that have a writer.
LEMMA KeysAre ==
  ASSUME NEW k, NEW v, Legal(k, v)
  PROVE  WrittenKeys(k, v) = KeysOf(k, v)
BY DEF WrittenKeys, KeysOf, Legal, GuardedFields

\* It holds in the initial states.
LEMMA CodecInitHolds == CodecInit => CodecInv
BY DEF CodecInit, CodecInv, CodecSubject, CodecAged, CodecWritten, CodecRead, IsRecord, kSubset

\* Every step keeps the invariant.
LEMMA CodecStepHolds == CodecInv /\ [CodecNext]_codecVars => CodecInv'
<1> SUFFICES ASSUME CodecInv, [CodecNext]_codecVars
             PROVE  CodecInv'
  OBVIOUS
<1> USE DEF CodecInv
<1>1. CASE WriteDoc
  <2>0. type' = type /\ value' = value /\ got' = got /\ aged = "unwritten" /\ aged' = "none" /\ got = <<>>
    BY <1>1 DEF WriteDoc, CodecRead
  <2>1. CodecSubject' /\ CodecAged' /\ CodecRead'
    BY <2>0 DEF CodecSubject, CodecAged, CodecRead, IsRecord
  <2>2. CASE IsRecord
    <3>1. Legal(type, value) /\ Fits(type, Codecs[type])
      BY <2>2, CodecsFit, EnumsFit DEF CodecSubject, IsRecord, WordsFit, Fits
    <3>2. KeysOf(type, value) \ {"none"} = KeysOf(type, value)
      BY <3>1 DEF KeysOf, Fits
    <3>3. wire' = [f \in KeysOf(type, value) |-> f \in value]
      BY <1>1, <2>2, <3>1, KeysAre DEF WriteDoc
    <3>4. wire' = DocumentOf(type, value, "none")
      BY <3>2, <3>3 DEF DocumentOf
    <3> QED
      BY <2>0, <2>1, <2>2, <3>4 DEF CodecWritten, IsRecord
  <2>3. CASE ~IsRecord
    BY <1>1, <2>0, <2>1, <2>3 DEF WriteDoc, CodecWritten, IsRecord
  <2> QED
    BY <2>2, <2>3
<1>2. CASE AgeDoc
  <2>0. type' = type /\ value' = value /\ got' = got /\ got = <<>> /\ aged = "none" /\ IsRecord
    BY <1>2 DEF AgeDoc
  <2>1. wire = [g \in KeysOf(type, value) |-> g \in value]
    <3>1. Fits(type, Codecs[type])
      BY <2>0, CodecsFit DEF IsRecord
    <3> QED
      BY <3>1, <2>0 DEF CodecWritten, DocumentOf, KeysOf, Fits
  <2>2. CodecSubject' /\ CodecRead'
    BY <2>0 DEF CodecSubject, CodecRead, IsRecord
  <2>3. CASE \E f \in DOMAIN wire \cap (Codecs[type].takes) :
               aged' = f /\ wire' = [g \in DOMAIN wire \ {f} |-> wire[g]]
    <3>1. PICK f \in DOMAIN wire \cap (Codecs[type].takes) :
               aged' = f /\ wire' = [g \in DOMAIN wire \ {f} |-> wire[g]]
      BY <2>3
    <3>2. f # "unknown" /\ f # "unwritten"
      BY <2>0, CodecsFit DEF IsRecord, Fits
    <3>3. wire' = [g \in KeysOf(type, value) \ {f} |-> g \in value]
      BY <2>1, <3>1
    <3> QED
      BY <2>0, <2>2, <3>1, <3>2, <3>3 DEF CodecAged, CodecWritten, DocumentOf, IsRecord
  <2>4. CASE /\ aged' = "unknown"
             /\ wire' = [g \in DOMAIN wire \cup {"unknown"} |-> g \in DOMAIN wire => wire[g]]
    <3>1. wire' = [g \in KeysOf(type, value) \cup {"unknown"} |-> g \in KeysOf(type, value) => g \in value]
      BY <2>1, <2>4
    <3> QED
      BY <2>0, <2>2, <2>4, <3>1 DEF CodecAged, CodecWritten, DocumentOf, IsRecord
  <2> QED
    BY <1>2, <2>3, <2>4 DEF AgeDoc
<1>3. CASE ReadDoc
  BY <1>3 DEF ReadDoc, CodecSubject, CodecAged, CodecWritten, CodecRead, IsRecord
<1>4. CASE UNCHANGED codecVars
  BY <1>4 DEF codecVars, CodecSubject, CodecAged, CodecWritten, CodecRead, IsRecord
<1> QED
  BY <1>1, <1>2, <1>3, <1>4 DEF CodecNext

-----------------------------------------------------------------------------
\* What was read from the document of a value is that value.
LEMMA CodecUnderstood == CodecInv => Understood
<1> SUFFICES ASSUME CodecInv, got # <<>>
             PROVE  Understood
  BY DEF Understood
<1> USE DEF CodecInv
<1>1. CASE ~IsRecord
  <2>1. PICK w \in Enums[type].written : value = {w}
    BY <1>1 DEF CodecSubject, IsRecord
  <2>2. type \in DOMAIN Enums
    BY <1>1 DEF CodecSubject, IsRecord
  <2>3. ReadWord(Enums[type], w) = w
    BY <2>2, EnumsFit DEF WordsFit, ReadWord
  <2>4. DOMAIN wire = {w}
    BY <1>1, <2>1 DEF CodecWritten, CodecRead
  <2>5. got = <<"read", {w}>>
    BY <1>1, <2>3, <2>4 DEF CodecRead
  <2>6. aged = "none"
    BY <1>1 DEF CodecAged, CodecRead
  <2> QED
    BY <1>1, <2>1, <2>5, <2>6 DEF Understood
<1>2. CASE IsRecord
  <2> DEFINE c == Codecs[type]
             known == (c.demands) \cup (c.takes)
  <2>1. Fits(type, c) /\ Legal(type, value) /\ value \subseteq FieldsOf(type)
    BY <1>2, CodecsFit, EnumsFit DEF IsRecord, CodecSubject, Fits, WordsFit
  <2>2. wire = DocumentOf(type, value, aged) /\ got = ReadRecord(type, wire) /\ aged # "unwritten"
    BY <1>2 DEF CodecWritten, CodecRead
  <2>3. KeysOf(type, value) \subseteq known /\ c.demands \subseteq KeysOf(type, value)
    BY <2>1 DEF Fits, KeysOf
  <2>4. value \cap known = value \ Lost(type) /\ "unknown" \notin known
    BY <2>1 DEF Fits, FieldsOf
  <2>5. CASE aged = "unknown" /\ type \in Strict
    BY <1>2, <2>2, <2>3, <2>4, <2>5 DEF Understood, ReadRecord, DocumentOf
  <2>6. CASE ~(aged = "unknown" /\ type \in Strict)
    <3> DEFINE back == {f \in known : IF f \in DOMAIN wire THEN wire[f] ELSE Absent(type, f, wire)}
    <3>1. c.demands \subseteq DOMAIN wire
      <4>1. aged \notin c.demands
        BY <1>2, <2>1, <2>2 DEF CodecAged, Fits
      <4> QED
        BY <4>1, <2>2, <2>3 DEF DocumentOf
    <3>2. type \in Strict => DOMAIN wire \subseteq known
      BY <2>2, <2>3, <2>6 DEF DocumentOf
    <3>3. got = <<"read", back>>
      BY <2>2, <3>1, <3>2 DEF ReadRecord
    <3>4. \A f \in known \ {aged, "explicitlyExternal"} : f \in back <=> f \in value
      <4> SUFFICES ASSUME NEW f \in known, f # aged, f # "explicitlyExternal"
                   PROVE  f \in back <=> f \in value
        OBVIOUS
      <4>1. CASE f \in DOMAIN wire
        BY <4>1, <2>2, <2>4 DEF DocumentOf
      <4>2. CASE f \notin DOMAIN wire
        <5>1. f \notin value
          BY <4>2, <2>1, <2>2 DEF DocumentOf, KeysOf, Fits
        <5> QED
          BY <4>2, <5>1 DEF Absent
      <4> QED
        BY <4>1, <4>2
    <3> DEFINE kept == value \ Lost(type)
               changed == (kept \ back) \cup (back \ kept)
               origin == "explicitlyExternal"
               owner == "externalOwner"
               legacy == type = "FunctionSymbol" /\ owner \notin value
    <3>5. changed \subseteq {aged, origin} /\ back \subseteq known /\ kept \subseteq known
      BY <2>4, <3>4
    <3>6. SUFFICES \/ changed \subseteq {aged} \ (IF legacy THEN {origin} ELSE {})
                   \/ aged = owner /\ changed = {aged, origin}
      BY <1>2, <2>6, <3>3 DEF Understood
    <3>7. CASE type # "FunctionSymbol"
      <4>1. \A f \in known : f # aged => (f \in back <=> f \in value)
        <5> SUFFICES ASSUME NEW f \in known, f # aged
                     PROVE  f \in back <=> f \in value
          OBVIOUS
        <5>1. CASE f \in DOMAIN wire
          BY <5>1, <2>2, <2>4 DEF DocumentOf
        <5>2. CASE f \notin DOMAIN wire
          <6>1. f \notin value
            BY <5>2, <2>1, <2>2 DEF DocumentOf, KeysOf, Fits
          <6> QED
            BY <5>2, <6>1, <3>7 DEF Absent
        <5> QED
          BY <5>1, <5>2
      <4>2. changed \subseteq {aged}
        BY <4>1, <3>5, <2>4
      <4> QED
        BY <4>2, <3>7
    <3>8. CASE type = "FunctionSymbol"
      <4>1. /\ {origin, owner, "isExternal"} \subseteq c.some
            /\ {origin, owner, "isExternal"} \cap c.always = {}
            /\ {origin, owner, "isExternal"} \subseteq known
            /\ "unknown" \notin {origin, owner, "isExternal"}
        BY <2>1, <3>8 DEF Fits, Origins
      <4>2. /\ origin \in value => "isExternal" \in value
            /\ owner \in value => "isExternal" \in value
            /\ "isExternal" \in value => origin \in value \/ owner \in value
        BY <2>1, <3>8 DEF Legal
      <4>3. \A f \in {origin, owner, "isExternal"} :
              f \in DOMAIN wire <=> f \in value /\ f # aged
        BY <4>1, <2>2 DEF DocumentOf, KeysOf
      <4>4. origin \in DOMAIN wire => (origin \in back <=> origin \in value)
        BY <4>1, <2>2, <2>4 DEF DocumentOf, KeysOf
      <4>5. origin \notin DOMAIN wire =>
              (origin \in back <=> "isExternal" \in DOMAIN wire /\ owner \notin DOMAIN wire)
        BY <4>1, <3>8 DEF Absent
      <4>6. \A f \in {origin, owner} : f \in kept <=> f \in value
        BY <4>1, <2>4
      <4>7. CASE aged = owner
        <5>1. CASE owner \in value
          <6>1. owner \notin back
            BY <4>7, <4>3, <3>8 DEF Absent
          <6>2. owner \in changed
            BY <5>1, <6>1, <4>6
          <6> QED
            BY <4>7, <5>1, <6>2, <3>5
        <5>2. CASE owner \notin value
          <6>1. origin \notin changed
            BY <4>7, <5>2, <4>2, <4>3, <4>4, <4>5, <4>6
          <6> QED
            BY <6>1, <3>5
        <5> QED
          BY <5>1, <5>2
      <4>8. CASE aged = origin
        <5>1. legacy => origin \notin changed
          BY <4>8, <4>2, <4>3, <4>4, <4>5, <4>6
        <5> QED
          BY <5>1, <4>8, <3>5
      <4>9. CASE aged # owner /\ aged # origin
        <5>1. origin \notin changed
          <6>1. CASE aged = "isExternal"
            BY <6>1, <4>9, <4>2, <4>3, <4>4, <4>5, <4>6
          <6>2. CASE aged # "isExternal"
            BY <6>2, <4>9, <4>2, <4>3, <4>4, <4>5, <4>6
          <6> QED
            BY <6>1, <6>2
        <5> QED
          BY <5>1, <3>5
      <4> QED
        BY <4>7, <4>8, <4>9
    <3> QED
      BY <3>7, <3>8
  <2> QED
    BY <2>5, <2>6
<1> QED
  BY <1>1, <1>2

(***************************************************************************)
(* Every reader understands what its own writer wrote and the documents of *)
(* older and newer writers: it reads the legal value that was written, but *)
(* for the fields that have no writer and what the missing field decides,  *)
(* for values that differ from the default in any number of fields         *)
(* (SymbolTableJson.cpp:289-371, BackendProtocol.cpp:434-449).             *)
(***************************************************************************)
THEOREM ReadersUnderstand == CodecSpec => []Understood
BY CodecInitHolds, CodecStepHolds, CodecUnderstood, PTL DEF CodecSpec
=============================================================================
