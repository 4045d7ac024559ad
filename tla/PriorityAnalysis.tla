-------------------------- MODULE PriorityAnalysis --------------------------
(***************************************************************************)
(* The propagation of priorities from callers to callees (analyzePriority, *)
(* lib/Analysis/PriorityAnalysis.cpp), with the two forms of               *)
(* calledFunctions that the semantic analyzer hands it: the text of the    *)
(* call for an ordinary fn block, however it names the callee, and the     *)
(* resolved name for a pipeline.                                           *)
(*                                                                         *)
(* A qualified name is the sequence of its segments; a priority level is   *)
(* its priorityRank, 0 (background) to 4 (critical).                       *)
(***************************************************************************)
EXTENDS Naturals, Sequences, FiniteSets

CONSTANTS
  Functions,      \* the qualified names of the declared functions
  Pipelines,      \* those whose fn block is a pipeline
  Declarations,   \* the priority sections used: ranks, or Undeclared for none
  Undeclared,
  MaxCalls        \* the most entries in the calledFunctions of all blocks

Normal == 2
Ranks == 0..4

ASSUME ProgramAssumption ==
  /\ Declarations \subseteq Ranks \cup {Undeclared}
  /\ Undeclared \notin Ranks
  /\ Pipelines \subseteq Functions
  /\ Functions \subseteq Seq(STRING) \ {<<>>}
  /\ MaxCalls \in Nat

VARIABLES
  declared,   \* function -> its priority section
  calls,      \* function -> calledFunctions of its fn block: names as written
  priorityPc, \* "collect", "propagate" or "done"
  eff,        \* effectivePriority; a name without an entry counts as normal
  worklist    \* callers whose callees are still to be raised

program == <<declared, calls>>
priorityVars == <<program, priorityPc, eff, worklist>>

-----------------------------------------------------------------------------
(* Names.                                                                      *)

\* nsPrefix of a block: its name without the last segment.
Prefix(b) == SubSeq(b, 1, Len(b) - 1)

\* The texts that may name a function: its last segments, or all of them.
Texts == UNION {{SubSeq(f, k, Len(f)) : k \in 1..Len(f)} : f \in Functions}

\* The analysis looks a callee up under nsPrefix + callee, whatever it is.
Key(b, text) == Prefix(b) \o text

\* The lengths of the prefixes of b's namespace behind which text is a function.
FoundBehind(b, text) == {k \in 0..Len(b) - 1 : SubSeq(b, 1, k) \o text \in Functions}

\* resolveCallee: the namespace itself, for a qualified text then the absolute
\* name, and then the enclosing namespaces from the inside.
Resolved(b, text) ==
  LET found == FoundBehind(b, text)
      deepest == CHOOSE k \in found : \A l \in found : k >= l
  IN  IF Len(b) - 1 \notin found /\ 0 \in found /\ Len(text) > 1 THEN text
      ELSE SubSeq(b, 1, deepest) \o text

\* What may stand in b's calledFunctions without an error: what resolves, in
\* an ordinary block, and the resolved names of the stages in a pipeline.
Written(b) ==
  IF b \in Pipelines THEN Functions
  ELSE {text \in Texts : FoundBehind(b, text) # {}}

CallNames == Functions \cup {Key(b, text) : b \in Functions, text \in Texts}

\* callGraph[b]; a name that is no function has no fn block.
CallGraph(b) == IF b \in Functions THEN {Key(b, text) : text \in calls[b]} ELSE {}

\* FunctionSymbol::priority, as the parser leaves it.
Priority(f) == IF declared[f] = Undeclared THEN Normal ELSE declared[f]

ExplicitlyAnnotated == {f \in Functions : Priority(f) # Normal}

\* What a name has before anything is propagated.
Own(n) == IF n \in Functions THEN Priority(n) ELSE Normal

-----------------------------------------------------------------------------
PriorityInit ==
  /\ declared \in [Functions -> Declarations]
  /\ \E entries \in SUBSET {e \in Functions \X Texts : e[2] \in Written(e[1])} :
       /\ Cardinality(entries) <= MaxCalls
       /\ calls = [b \in Functions |-> {text \in Texts : <<b, text>> \in entries}]
  /\ priorityPc = "collect"
  /\ eff = [n \in CallNames |-> Normal]
  /\ worklist = {}

\* The callers that start the propagation.
Elevated == {n \in Functions : Priority(n) > Normal}

\* The declared priorities are recorded and the elevated functions queued.
CollectDeclared ==
  /\ priorityPc = "collect"
  /\ priorityPc' = "propagate"
  /\ eff' = [n \in CallNames |-> Own(n)]
  /\ worklist' = Elevated
  /\ UNCHANGED program

\* Mutant: a callee keeps any priority it already inherited.
MutFirstWins(caller) ==
  {n \in CallGraph(caller) \ ExplicitlyAnnotated :
     eff[caller] > eff[n] /\ eff[n] = Normal}

\* The callees that inherit the caller's priority.
Raised(caller) ==
  {n \in CallGraph(caller) \ ExplicitlyAnnotated : eff[caller] > eff[n]}

\* What they inherit.
Inherits(caller) == eff[caller]

\* Mutant: the worklist never shrinks.
MutPop(caller) == worklist

\* A caller leaves the worklist (in the code a queue, that may hold it twice).
Pop(caller) == worklist \ {caller}

\* Raised callees are queued in turn.
Requeue(rest, raised) == rest \cup raised

Propagate(caller) ==
  /\ priorityPc = "propagate" /\ caller \in worklist
  /\ worklist' = Requeue(Pop(caller), Raised(caller))
  /\ eff' = [n \in CallNames |->
               IF n \in Raised(caller) THEN Inherits(caller) ELSE eff[n]]
  /\ UNCHANGED <<program, priorityPc>>

FinishPropagation ==
  /\ priorityPc = "propagate" /\ worklist = {}
  /\ priorityPc' = "done"
  /\ UNCHANGED <<program, eff, worklist>>

-----------------------------------------------------------------------------
PriorityNext ==
  \/ CollectDeclared \/ FinishPropagation
  \/ \E caller \in CallNames : Propagate(caller)

PrioritySpec == PriorityInit /\ [][PriorityNext]_priorityVars

-----------------------------------------------------------------------------
PriorityTypeOK ==
  /\ declared \in [Functions -> Declarations]
  /\ calls \in [Functions -> SUBSET Texts]
  /\ priorityPc \in {"collect", "propagate", "done"}
  /\ eff \in [CallNames -> Ranks]
  /\ worklist \subseteq CallNames

\* "callees inherit the highest priority of their callers, unless explicitly
\* annotated" (PriorityAnalysis.h:22-23): at the end the function that a call
\* resolves to has no less than an elevated caller, where the call is written
\* relative to the caller's namespace.  (One written any other way, an absolute
\* name or one from an enclosing namespace, is looked up under a name no
\* function has, and its function inherits nothing.)
Inherited ==
  priorityPc = "done" => \A b \in Functions \ Pipelines : \A text \in calls[b] :
    LET callee == Resolved(b, text)
    IN  /\ callee = Prefix(b) \o text
        /\ eff[b] > Normal /\ callee \notin ExplicitlyAnnotated
        => eff[callee] >= eff[b]

\* The same of the stages of a pipeline.
InheritedByStages ==
  priorityPc = "done" => \A b \in Pipelines : \A f \in calls[b] :
    eff[b] > Normal /\ f \notin ExplicitlyAnnotated => eff[f] >= eff[b]

\* The inheritance between the names the analysis computes for the callees, however calls
\* are written and whatever their cycles: the propagation has reached its
\* fixed point when the worklist is empty.
Closed ==
  priorityPc = "done" => \A b \in CallNames : \A n \in CallGraph(b) :
    eff[b] > Normal /\ n \notin ExplicitlyAnnotated => eff[n] >= eff[b]

\* n is among the names reached from r by calls to names without annotation
\* (only functions have fn blocks; the other names call nothing).
Reaches(r, n) ==
  \A S \in SUBSET Functions :
    LET called == UNION {CallGraph(m) \ ExplicitlyAnnotated : m \in S}
    IN  r \in S /\ called \cap Functions \subseteq S => n \in S \cup called

\* Nothing is raised without a reason: a priority that is not the name's own is
\* the declared one of an elevated function from which calls lead to it. A
\* cycle of callers cannot keep itself elevated.
Grounded ==
  \A n \in CallNames : priorityPc \in {"propagate", "done"} /\ eff[n] # Own(n) =>
    \E r \in Functions : Own(r) > Normal /\ eff[n] = Own(r) /\ Reaches(r, n)

\* "Explicit annotations always override propagation" (PriorityAnalysis.h:14):
\* a function under a priority section has the priority it names.  (Except in
\* a section of priority(normal), which the analysis cannot tell from none.)
ExplicitWins ==
  priorityPc = "done" => \A f \in Functions :
    declared[f] \notin {Undeclared, Normal} => eff[f] = declared[f]

\* The contract of the propagation (PriorityAnalysis.h:14-23): inherited as far as
\* calls lead, raised for no other reason, and never against an annotation.
PrioritiesAreSound == Inherited /\ Grounded /\ ExplicitWins
=============================================================================
