-------------------------- MODULE GovernanceSpace --------------------------
(***************************************************************************)
(* A walk through the input space of the governance decision: start from   *)
(* an action without marks and without rules, then add marks and rules one *)
(* by one, at most MaxExtras in all.                                       *)
(***************************************************************************)
EXTENDS Governance, FiniteSets

CONSTANT MaxExtras  \* bounds the marks and rules added

ASSUME MaxExtrasAssumption == MaxExtras \in Nat

VARIABLES a, loaded

spaceVars == <<a, loaded>>

Extras == Cardinality(a.command) + Cardinality(a.path) + Cardinality(loaded)

SpaceInit ==
  /\ a \in [hasId : BOOLEAN, hasPayload : BOOLEAN, type : Types,
            command : {{}}, hasPath : BOOLEAN, path : {{}},
            timeout : {"none", "within", "beyond"}]
  /\ loaded = {}

MarkCommand(m) ==
  /\ a' = [a EXCEPT !.command = @ \cup {m}]
  /\ UNCHANGED loaded

MarkPath(m) ==
  /\ a.hasPath
  /\ a' = [a EXCEPT !.path = @ \cup {m}]
  /\ UNCHANGED loaded

LoadRule(r) ==
  /\ loaded' = loaded \cup {r}
  /\ UNCHANGED a

SpaceNext ==
  /\ Extras < MaxExtras
  /\ \/ \E m \in CommandMarks : MarkCommand(m)
     \/ \E m \in PathMarks : MarkPath(m)
     \/ \E r \in RuleIds : LoadRule(r)

SpaceSpec == SpaceInit /\ [][SpaceNext]_spaceVars

(* The stages of Evaluate, with their early returns, decide as the         *)
(* description without stages says.                                        *)
DecisionAsExpected == Decision(a, loaded) = ExpectedDecision(a, loaded)

(* No mark and no rule hides another: adding one to an action never makes  *)
(* the decision of Evaluate more lenient.                                  *)
NothingHides == [][NoStricter(a, loaded, a', loaded')]_spaceVars
=============================================================================
