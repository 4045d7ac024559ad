-------------------------- MODULE IncrementalCache --------------------------
(***************************************************************************)
(* The cache of front-end results between builds (IncrementalCache,        *)
(* lib/Build/IncrementalCache.cpp): a manifest with the times of the .topo *)
(* files, of Topo.toml and the fingerprint of the configuration, beside    *)
(* the symbol table and the visibility entries.  Each is written in place, *)
(* so a build that dies or a disk that fills leaves some old, some new and *)
(* some torn.  The build that calls it is outside this repository and      *)
(* modelled as the tests use the class: results first, the manifest last.  *)
(*                                                                         *)
(* A file is the time it was last written; a result is the set of times it *)
(* was computed from.                                                      *)
(***************************************************************************)
EXTENDS Integers, FiniteSets, Functions

CONSTANTS
  TopoFiles,  \* paths of .topo files
  Toml,       \* Topo.toml
  Configs,    \* compile-affecting configurations
  MaxTouch,   \* bound on the changes of files and configuration
  MaxBuilds   \* bound on the builds

ASSUME TomlAssumption == Toml \notin TopoFiles /\ IsFiniteSet(TopoFiles)

VARIABLES
  mtime,    \* when each file was last written, 0: it does not exist
  cfg,      \* the configuration of the next build
  touches, builds,
  manifest, symbols, visibility,  \* the three files of .topo-cache
  bpc,      \* where the build is
  result,   \* the front-end results it goes on with
  cut,      \* some build since the last complete one did not save everything
  removed   \* some .topo file was removed since the last complete build

cacheFiles == <<manifest, symbols, visibility>>
incVars == <<mtime, cfg, touches, builds, cacheFiles, bpc, result, cut, removed>>
ghosts == <<cut, removed>>

\* What a file of the cache can hold besides a complete document.
Missing == [state |-> "missing"]
Torn == [state |-> "torn"]
Whole(x) == [state |-> "whole", is |-> x]

\* The .topo files that exist, with their times: what the front end reads.
Sources == Restrict(mtime, {f \in TopoFiles : mtime[f] # 0})

IncInit ==
  /\ mtime = [f \in TopoFiles \cup {Toml} |-> 1] /\ cfg \in Configs
  /\ touches = 1 /\ builds = 0
  /\ manifest = Missing /\ symbols = Missing /\ visibility = Missing
  /\ bpc = "idle" /\ result = Missing
  /\ cut = FALSE /\ removed = FALSE

-----------------------------------------------------------------------------
\* Mutant: a file that is not in the manifest does not count.
MutFrontendValid(m) ==
  /\ mtime[Toml] # 0 => mtime[Toml] = m.toml
  /\ \A f \in DOMAIN Sources : f \in DOMAIN m.topo => m.topo[f] = mtime[f]

\* isTopoFrontendValid(): the time of Topo.toml if there is one, as many .topo
\* files as recorded, each of them recorded with its present time.
FrontendValid(m) ==
  /\ mtime[Toml] # 0 => mtime[Toml] = m.toml
  /\ Cardinality(DOMAIN Sources) = Cardinality(DOMAIN m.topo)
  /\ \A f \in DOMAIN Sources : f \in DOMAIN m.topo /\ m.topo[f] = mtime[f]

\* loadManifest(): absent, torn and other versions are all a miss.
ManifestUsable == manifest.state = "whole"

\* A build begins: a hit needs a manifest that is valid for the files and the
\* configuration, and both results whole.
Hit ==
  /\ ManifestUsable
  /\ FrontendValid(manifest.is) /\ manifest.is.config = cfg
  /\ symbols.state = "whole" /\ visibility.state = "whole"

BuildHit ==
  /\ bpc = "idle" /\ builds < MaxBuilds /\ Hit
  /\ builds' = builds + 1 /\ bpc' = "built" /\ result' = symbols
  /\ UNCHANGED <<mtime, cfg, touches, cacheFiles, ghosts>>

\* A miss: the front end runs on the files as they are.
BuildMiss ==
  /\ bpc = "idle" /\ builds < MaxBuilds /\ ~Hit
  /\ builds' = builds + 1 /\ bpc' = "symbols" /\ result' = Whole(Sources)
  /\ UNCHANGED <<mtime, cfg, touches, cacheFiles, ghosts>>

\* saveSymbolTable(), saveVisibilityEntries(): written in place.  An error of the
\* stream is not looked at: a torn file is reported as saved.
SaveSymbols ==
  /\ bpc = "symbols" /\ symbols' \in {result, Torn} /\ bpc' = "visibility"
  /\ UNCHANGED <<mtime, cfg, touches, builds, manifest, visibility, result, ghosts>>
SaveVisibility ==
  /\ bpc = "visibility" /\ visibility' \in {result, Torn} /\ bpc' = "manifest"
  /\ UNCHANGED <<mtime, cfg, touches, builds, manifest, symbols, result, ghosts>>

\* saveManifest(), with the times of the files the results were computed from.
SaveManifest ==
  /\ bpc = "manifest" /\ bpc' = "built"
  /\ manifest' \in {Torn, Whole([topo |-> result.is, toml |-> mtime[Toml], config |-> cfg])}
  /\ cut' = FALSE /\ removed' = FALSE
  /\ UNCHANGED <<mtime, cfg, touches, builds, symbols, visibility, result>>

\* The file cannot be opened, the save says so and the build gives up caching.
SaveRefused ==
  /\ bpc \in {"symbols", "visibility", "manifest"} /\ bpc' = "built" /\ cut' = TRUE
  /\ UNCHANGED <<mtime, cfg, touches, builds, cacheFiles, result, removed>>

\* The process dies in the middle of a save: that file is torn or empty.
Crash ==
  /\ bpc \in {"symbols", "visibility", "manifest"} /\ bpc' = "idle" /\ result' = Missing
  /\ cut' = TRUE /\ UNCHANGED removed
  /\ \/ bpc = "symbols" /\ symbols' \in {symbols, Torn} /\ UNCHANGED <<manifest, visibility>>
     \/ bpc = "visibility" /\ visibility' \in {visibility, Torn} /\ UNCHANGED <<manifest, symbols>>
     \/ bpc = "manifest" /\ manifest' \in {manifest, Torn} /\ UNCHANGED <<symbols, visibility>>
  /\ UNCHANGED <<mtime, cfg, touches, builds>>

\* clean().
Clean ==
  /\ bpc \in {"idle", "built"} /\ bpc' = "idle" /\ result' = Missing
  /\ manifest' = Missing /\ symbols' = Missing /\ visibility' = Missing
  /\ cut' = FALSE /\ removed' = FALSE
  /\ UNCHANGED <<mtime, cfg, touches, builds>>

\* Between builds a file is written or removed, or the configuration changes.
Touch ==
  /\ bpc \in {"idle", "built"} /\ bpc' = "idle" /\ result' = Missing
  /\ touches < MaxTouch /\ touches' = touches + 1
  /\ \/ /\ \E f \in DOMAIN mtime, t \in {0, touches + 1} :
             /\ mtime' = [mtime EXCEPT ![f] = t]
             /\ removed' = (removed \/ (t = 0 /\ f # Toml))
        /\ UNCHANGED cfg
     \/ cfg' \in Configs \ {cfg} /\ UNCHANGED <<mtime, removed>>
  /\ UNCHANGED <<builds, cacheFiles, cut>>

IncNext == \/ BuildHit \/ BuildMiss \/ SaveSymbols \/ SaveVisibility \/ SaveManifest
           \/ SaveRefused \/ Crash \/ Clean \/ Touch

IncSpec == IncInit /\ [][IncNext]_incVars

-----------------------------------------------------------------------------
\* Whatever earlier builds left behind, a build goes on with results of the files
\* as they are: no torn file, no result of other files beside a manifest that fits
\* (IncrementalCache.cpp:81-89).  The exception: a build was cut short after it
\* saved some of its results, and the removal of a file made the manifest of an
\* earlier build fit again.
ResultsAreFresh ==
  bpc = "built" => result = Whole(Sources) \/ (cut /\ removed)
=============================================================================
