-------------------------- MODULE AttestationCache --------------------------
(***************************************************************************)
(* The persistent cache of signature checks (verifyGitHubAttestationCached *)
(* and verifyGitHubAttestation, lib/Build/ArtifactAttestation.cpp).  A     *)
(* verification takes several looks at the inputs and at the clock; others *)
(* replace the artifact, let time pass, set the clock back, withdraw the   *)
(* protection of the store or run a verification of their own meanwhile.   *)
(*                                                                         *)
(* A key stands for the digest of all inputs and of the policy; Broken     *)
(* stands for the inputs no key is made for (a missing file, a verifier or *)
(* root with another digest).                                              *)
(***************************************************************************)
EXTENDS Integers, FiniteSets

CONSTANTS
  Verifiers,  \* processes that verify against one store
  Keys,       \* states of the inputs
  Genuine,    \* the inputs the verifier program accepts
  Broken,     \* inputs that have no key
  MaxAge,     \* maxAgeSeconds
  MaxTime,    \* bound on the clock
  MaxChanges  \* bound on the changes of inputs, store and clock from outside

ASSUME CacheAssumption == Genuine \subseteq Keys /\ Broken \notin Keys /\ MaxAge \in Nat \ {0}

VARIABLES
  inputs,   \* what lies on the disk
  clock,    \* system time
  sealed,   \* the store passes cacheStore(): private, outside the project
  changes,
  entry,    \* per key: the cache record [at, until], or NoEntry
  checked,  \* per key: times at which a signature check that passed began
  apc,      \* where each verification is
  key,      \* the key it computed at the start
  bound,    \* the key its own check computed
  started,  \* when its own check began, or when the record it hit ends
  verdict   \* of its last verification

attestVars == <<inputs, clock, sealed, changes, entry, checked, apc, key, bound, started, verdict>>
world == <<inputs, clock, sealed, changes>>

NoEntry == [at |-> 0, until |-> 0]
Verdict == [ok : BOOLEAN, hit : BOOLEAN, key : Keys \cup {Broken}, until : Nat, at : Nat]
Refused == [ok |-> FALSE, hit |-> FALSE, key |-> Broken, until |-> 0, at |-> 0]

AttestInit ==
  /\ inputs \in Keys \cup {Broken} /\ clock = 1 /\ sealed \in BOOLEAN /\ changes = 0
  /\ entry = [k \in Keys |-> NoEntry] /\ checked = [k \in Keys |-> {}]
  /\ apc = [v \in Verifiers |-> "idle"] /\ key = [v \in Verifiers |-> Broken]
  /\ bound = key
  /\ started = [v \in Verifiers |-> 0] /\ verdict = [v \in Verifiers |-> Refused]

Goto(v, label) == apc' = [apc EXCEPT ![v] = label]
Done(v, r) == Goto(v, "done") /\ verdict' = [verdict EXCEPT ![v] = r]
Accepted(v, hit, until) ==
  [ok |-> TRUE, hit |-> hit, key |-> IF hit THEN key[v] ELSE bound[v],
   until |-> until, at |-> clock]

-----------------------------------------------------------------------------
\* The key of the present inputs; without one, or without a store that is fit,
\* the verification is refused.  The pinned inputs win over any entry.
ComputeKey(v) ==
  /\ apc[v] = "idle"
  /\ key' = [key EXCEPT ![v] = inputs]
  /\ IF inputs = Broken \/ ~sealed THEN Done(v, Refused)
     ELSE Goto(v, "lookup") /\ UNCHANGED verdict
  /\ UNCHANGED <<world, entry, checked, bound, started>>

\* cachedResult(): the record is of this key and of the artifact that lies there
\* now, was made in the past, lives as long as the caller's maximum age and is not
\* over.
Usable(k) ==
  /\ entry[k] # NoEntry /\ inputs = k
  /\ entry[k].at <= clock /\ entry[k].until > clock
  /\ entry[k].until - entry[k].at = MaxAge

\* Lookup.  A record that does not qualify is a miss, not an error.
Lookup(v) ==
  /\ apc[v] = "lookup"
  /\ IF Usable(key[v])
     THEN /\ Goto(v, "rehash") /\ started' = [started EXCEPT ![v] = entry[key[v]].until]
     ELSE /\ Goto(v, "fresh") /\ UNCHANGED started
  /\ UNCHANGED <<world, entry, checked, key, bound, verdict>>

StillLives(v) == started[v] > clock

\* A hit hashes all inputs again and must still be alive after that; a hit that
\* ran out meanwhile becomes a miss.
Rehash(v) ==
  /\ apc[v] = "rehash"
  /\ \/ inputs # key[v] /\ Done(v, Refused)
     \/ inputs = key[v] /\ StillLives(v) /\ Done(v, Accepted(v, TRUE, started[v]))
     \/ inputs = key[v] /\ ~StillLives(v) /\ Goto(v, "fresh") /\ UNCHANGED verdict
  /\ UNCHANGED <<world, entry, checked, key, bound, started>>

\* A check of its own begins: the time is taken, the key computed once more by
\* verifyGitHubAttestation.
FreshBegin(v) ==
  /\ apc[v] = "fresh"
  /\ started' = [started EXCEPT ![v] = clock]
  /\ IF inputs = Broken THEN Done(v, Refused) /\ UNCHANGED bound
     ELSE Goto(v, "gh") /\ bound' = [bound EXCEPT ![v] = inputs] /\ UNCHANGED verdict
  /\ UNCHANGED <<world, entry, checked, key>>

\* The verifier program looks at the files as they are then; it may also fail on
\* its own account (its version, a timeout, an answer without evidence).
RunGh(v) ==
  /\ apc[v] = "gh"
  /\ \/ /\ inputs \in Genuine
        /\ checked' = [checked EXCEPT ![inputs] = @ \cup {started[v]}]
        /\ Goto(v, "bind") /\ UNCHANGED verdict
     \/ Done(v, Refused) /\ UNCHANGED checked
  /\ UNCHANGED <<world, entry, key, bound, started>>

\* Mutant: the result is not bound to the inputs seen before the program ran.
MutBind(v) ==
  /\ apc[v] = "bind" /\ Goto(v, "publish")
  /\ UNCHANGED <<world, entry, checked, key, bound, started, verdict>>

\* The result is bound to the key of before: "inputs changed during verification".
Bind(v) ==
  /\ apc[v] = "bind"
  /\ IF inputs # bound[v] THEN Done(v, Refused) ELSE Goto(v, "publish") /\ UNCHANGED verdict
  /\ UNCHANGED <<world, entry, checked, key, bound, started>>

\* A record's life begins when its check began.
Life(v) == [at |-> started[v], until |-> started[v] + MaxAge]

\* The accepted result is kept, unless the clock went back or the check took the
\* whole life; it is withdrawn when the inputs or the store changed before that.
Publish(v) ==
  /\ apc[v] = "publish"
  /\ \/ /\ clock < started[v] \/ clock >= started[v] + MaxAge
        /\ Done(v, Accepted(v, FALSE, 0)) /\ UNCHANGED entry
     \/ /\ clock >= started[v] /\ clock < started[v] + MaxAge
        /\ bound[v] # key[v] \/ inputs # key[v] \/ ~sealed
        /\ Done(v, Refused) /\ UNCHANGED entry
     \/ /\ clock >= started[v] /\ clock < started[v] + MaxAge
        /\ bound[v] = key[v] /\ inputs = key[v] /\ sealed
        /\ entry' = [entry EXCEPT ![key[v]] = Life(v)]
        /\ Done(v, Accepted(v, FALSE, Life(v).until))
  /\ UNCHANGED <<world, checked, key, bound, started>>

\* The temporary file or the replacement fails: the result stands, nothing is kept.
PublishFails(v) ==
  /\ apc[v] = "publish"
  /\ clock >= started[v] /\ clock < started[v] + MaxAge
  /\ bound[v] = key[v] /\ inputs = key[v] /\ sealed
  /\ Done(v, Accepted(v, FALSE, 0))
  /\ UNCHANGED <<world, entry, checked, key, bound, started>>

\* The next verification of that process.
Again(v) ==
  /\ apc[v] = "done" /\ Goto(v, "idle")
  /\ key' = [key EXCEPT ![v] = Broken] /\ bound' = [bound EXCEPT ![v] = Broken]
  /\ started' = [started EXCEPT ![v] = 0]
  /\ verdict' = [verdict EXCEPT ![v] = Refused]
  /\ UNCHANGED <<world, entry, checked>>

-----------------------------------------------------------------------------
Tick ==
  /\ clock < MaxTime /\ clock' = clock + 1
  /\ UNCHANGED <<inputs, sealed, changes, entry, checked, apc, key, bound, started, verdict>>

\* The files, the store's protection or the clock change from outside.
Change ==
  /\ changes < MaxChanges /\ changes' = changes + 1
  /\ \/ inputs' \in (Keys \cup {Broken}) \ {inputs} /\ UNCHANGED <<clock, sealed>>
     \/ sealed' = ~sealed /\ UNCHANGED <<inputs, clock>>
     \/ clock' \in 1..clock - 1 /\ UNCHANGED <<inputs, sealed>>
  /\ UNCHANGED <<entry, checked, apc, key, bound, started, verdict>>

AttestNext ==
  \/ \E v \in Verifiers :
       \/ ComputeKey(v) \/ Lookup(v) \/ Rehash(v) \/ FreshBegin(v) \/ RunGh(v)
       \/ Bind(v) \/ Publish(v) \/ PublishFails(v) \/ Again(v)
  \/ Tick \/ Change

AttestSpec == AttestInit /\ [][AttestNext]_attestVars

-----------------------------------------------------------------------------
\* What is accepted was checked, whichever process made the record and whatever
\* was replaced meanwhile: a check accepted these very bytes, unless inputs were
\* swapped and swapped back around one run of the verifier program
\* (ArtifactAttestation.cpp:292-297, "binds the result to the same bytes"); and
\* lately, as a hit is taken only while its record lives, a record lives MaxAge
\* from the beginning of a check that passed, and no hit renews it
\* (ArtifactAttestation.cpp:365-380, "never refresh age on a hit").
AcceptedIsChecked ==
  /\ \A v \in Verifiers :
       /\ verdict[v].ok /\ changes < 2 => checked[verdict[v].key] # {}
       /\ verdict[v].hit => verdict[v].at < verdict[v].until
  /\ \A k \in Keys : entry[k] # NoEntry /\ changes < 2 =>
       entry[k].at \in checked[k] /\ entry[k].until = entry[k].at + MaxAge
=============================================================================
