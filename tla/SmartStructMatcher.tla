------------------------- MODULE SmartStructMatcher -------------------------
(***************************************************************************)
(* The matching of return fields to parameters on a pipeline edge          *)
(* (SmartStructMatcher::match, lib/Sema/SmartStructMatcher.cpp).  The      *)
(* target parameters are taken in order, each one binds at most one source *)
(* field, and what an earlier one took decides what is left for the next.  *)
(***************************************************************************)
EXTENDS Naturals, Sequences, FiniteSets

CONSTANTS
  Types,        \* spellings of types
  FieldNames,   \* names of fields and parameters
  MaxFields,    \* bound on the number of source fields
  MaxParams     \* bound on the number of target parameters

ASSUME BoundsAssumption == MaxFields \in Nat /\ MaxParams \in Nat

VARIABLES
  fields,   \* sourceFields: of all predecessors, so a name may occur twice
  params,   \* targetParams
  ti,       \* the parameter looked at
  matches,  \* set of <<source index, target index>>
  failed    \* targets an error was reported for (success = FALSE)

matchVars == <<fields, params, ti, matches, failed>>

Field == [type : Types, name : FieldNames]
SeqUpTo(S, k) == UNION {[1..n -> S] : n \in 0..k}

MatchInit ==
  /\ fields \in SeqUpTo(Field, MaxFields)
  /\ params \in SeqUpTo(Field, MaxParams)
  /\ ti = 1 /\ matches = {} /\ failed = {}

-----------------------------------------------------------------------------
\* Mutant: fields already bound are looked at again.
MutAvailable == {s \in DOMAIN fields : fields[s].type = params[ti].type}

\* The fields of the parameter's type that no earlier parameter took.
Available == {s \in DOMAIN fields : /\ fields[s].type = params[ti].type
                                    /\ \A m \in matches : m[1] # s}

\* Those with the parameter's name.
Named == {s \in Available : fields[s].name = params[ti].name}

\* The fields the parameter may be bound to: the only one there is, or one of
\* several that has its name.
Candidates == IF Cardinality(Available) = 1 THEN Available ELSE Named

Bind(s) ==
  /\ ti \in DOMAIN params
  /\ s \in Candidates /\ \A c \in Candidates : s <= c
  /\ matches' = matches \cup {<<s, ti>>}
  /\ ti' = ti + 1
  /\ UNCHANGED <<fields, params, failed>>

\* The targets an error has been reported for.
Report == failed \cup {ti}

\* No field of the type, all of them taken, or several without the name.
Fail ==
  /\ ti \in DOMAIN params
  /\ Candidates = {}
  /\ failed' = Report
  /\ ti' = ti + 1
  /\ UNCHANGED <<fields, params, matches>>

MatchNext == Fail \/ \E s \in 1..MaxFields : Bind(s)

MatchSpec == MatchInit /\ [][MatchNext]_matchVars

-----------------------------------------------------------------------------
Matched == ti = Len(params) + 1
Success == failed = {}

\* No field is bound to two parameters and no parameter to two fields, and a
\* match is between equal types (SmartStructMatcher.h:24-29).
Injective ==
  /\ \A m \in matches : fields[m[1]].type = params[m[2]].type
  /\ \A m, k \in matches : m[1] = k[1] <=> m[2] = k[2]

\* A parameter for which there was a field of its type and name is bound to such
\* a field.  (Nothing rejects two equal parameters; of those, the first is meant.)
NamesHonoured ==
  \A m \in matches :
    /\ \E s \in DOMAIN fields : fields[s] = params[m[2]]
    /\ \A t \in DOMAIN params : params[t] = params[m[2]] => m[2] <= t
    => fields[m[1]].name = params[m[2]].name

\* "All target params matched -> success", and only then; "same type multiple
\* candidates -> name match" (SmartStructMatcher.h:27-28), when the match
\* succeeds: an earlier parameter may have been given the last field of its type
\* whatever its name, but then a later one is left without any.
MatchIsSound ==
  /\ Injective
  /\ Matched => /\ Success <=> \A t \in DOMAIN params : \E m \in matches : m[2] = t
                /\ Success => NamesHonoured
=============================================================================
