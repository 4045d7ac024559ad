---------------------------- MODULE VersionStore ----------------------------
(***************************************************************************)
(* What the backend cache promises for one backend: a set of completely    *)
(* installed, immutable versions, at most one of which is the default.     *)
(* Abstract specification of class BackendCache                            *)
(* (include/topo/Distribution/BackendCache.h).                             *)
(***************************************************************************)
CONSTANTS Versions, NoVersion

VARIABLES installed, default

Init == installed = {} /\ default = NoVersion

\* A version appears as a whole.
Install(v) ==
  /\ v \notin installed
  /\ installed' = installed \cup {v}
  /\ UNCHANGED default

\* A version goes; a default that would dangle goes with it.
Remove(v) ==
  /\ v \in installed
  /\ installed' = installed \ {v}
  /\ default' = IF default = v THEN NoVersion ELSE default

SetDefault(v) ==
  /\ v \in installed
  /\ default = NoVersion
  /\ default' = v
  /\ UNCHANGED installed

ClearDefault ==
  /\ default # NoVersion
  /\ default' = NoVersion
  /\ UNCHANGED installed

Next ==
  \/ \E v \in Versions : Install(v) \/ Remove(v) \/ SetDefault(v)
  \/ ClearDefault

Spec == Init /\ [][Next]_<<installed, default>>
=============================================================================
