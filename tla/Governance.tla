----------------------------- MODULE Governance -----------------------------
(***************************************************************************)
(* internal/governance: the five stages of Pipeline.Evaluate and the       *)
(* decision they lead to, as operators on an abstract action.              *)
(*                                                                         *)
(* The stages look at an action only through substring tests on its        *)
(* command and path, a path comparison and a number comparison.  An        *)
(* abstract action records the outcome of these tests: the marks of a      *)
(* command or a path are the kinds of substring found in it.               *)
(***************************************************************************)
EXTENDS Integers, Sequences

CONSTANT Restricted  \* the workspace root is neither "" nor "."

ASSUME RestrictedAssumption == Restricted \in BOOLEAN

RuleIds == {"GIT-001", "GIT-002", "GIT-003", "SHELL-001", "SHELL-002",
            "FILE-001", "NET-001", "PATH-001"}

Types == {"", "shell", "file_read", "file_write", "file_delete", "other"}
FileTypes == {"file_read", "file_write", "file_delete"}

CommandMarks ==
  {"dangerous",     \* rm -rf /, mkfs., dd if=, ...
   "push", "force", \* git push; --force
   "reset",         \* git reset --hard, git clean -fd
   "stage",         \* git add
   "sensitive",     \* .env, id_rsa, credentials, secret
   "network",       \* curl, wget, nc, telnet
   "intensive",     \* tar, npm install, docker build, ...
   "outside"}       \* an absolute path outside the workspace

PathMarks ==
  {"dangerous",     \* /etc/passwd, ~/.ssh, ...
   "dotdot",        \* ../ or ..\
   "outside"}       \* resolves to a path outside the workspace

(* A command that is absent reads as ""; so does a path, but the stages    *)
(* that ask for a path skip an absent one.                                 *)
Action ==
  [hasId : BOOLEAN, hasPayload : BOOLEAN, type : Types,
   command : SUBSET CommandMarks, hasPath : BOOLEAN, path : SUBSET PathMarks,
   timeout : {"none", "within", "beyond"}]

Low == 0
Medium == 1
High == 2
Critical == 3

Decisions == {"allow", "require_approval", "escalate", "deny"}

-----------------------------------------------------------------------------
(* The stages.                                                             *)

WellFormed(a) == a.hasId /\ a.type # "" /\ a.hasPayload

(* MUTANT: the levels are counted from one. *)
RiskFromOne(a) ==
  CASE a.type = "shell" -> IF "dangerous" \in a.command THEN 4 ELSE 3
    [] a.type = "file_write" -> IF "dangerous" \in a.path THEN 4 ELSE 2
    [] a.type = "file_delete" -> 3
    [] OTHER -> 1

Risk(a) ==
  CASE a.type = "shell" -> IF "dangerous" \in a.command THEN Critical ELSE High
    [] a.type = "file_write" ->
         IF "dangerous" \in a.path THEN Critical ELSE Medium
    [] a.type = "file_read" -> Low
    [] a.type = "file_delete" -> High
    [] OTHER -> Medium

(* MUTANT: a rule is broken only if the command breaks no other. *)
FirstMarkOnly(a, rule) ==
  \/ a.type = "shell" /\ \/ rule = "GIT-002" /\ a.command = {"reset"}
                         \/ rule = "SHELL-002" /\ a.command = {"network"}
  \/ rule = "PATH-001" /\ a.hasPath /\ a.path = {"dotdot"}

(* NET-001 is a placeholder that every action satisfies. *)
Violates(a, rule) ==
  \/ /\ a.type = "shell"
     /\ \/ rule = "GIT-001" /\ {"push", "force"} \subseteq a.command
        \/ rule = "GIT-002" /\ "reset" \in a.command
        \/ rule = "GIT-003" /\ {"stage", "sensitive"} \subseteq a.command
        \/ rule = "SHELL-001" /\ "dangerous" \in a.command
        \/ rule = "SHELL-002" /\ "network" \in a.command
  \/ rule = "FILE-001" /\ a.type \in FileTypes /\ "dangerous" \in a.path
  \/ rule = "PATH-001" /\ a.hasPath /\ "dotdot" \in a.path

(* All rules are checked; none loaded, none violated. *)
PolicyPasses(a, rules) == \A r \in rules : ~Violates(a, r)

InBoundary(a) ==
  Restricted => /\ a.hasPath => "outside" \notin a.path
                /\ a.type = "shell" => "outside" \notin a.command

Intensive(a) == a.type = "shell" /\ "intensive" \in a.command

Stage(passed, risk, escalate) ==
  [passed |-> passed, risk |-> risk, escalate |-> escalate]

(* What the five stages would answer. *)
Stages(a, rules) ==
  << Stage(WellFormed(a), Low, FALSE),
     Stage(Risk(a) # Critical, Risk(a), FALSE),
     Stage(PolicyPasses(a, rules), Low, FALSE),
     Stage(InBoundary(a), Low, FALSE),
     Stage(a.timeout # "beyond" /\ ~Intensive(a), Low,
           a.timeout # "beyond" /\ Intensive(a)) >>

-----------------------------------------------------------------------------
(* The decision.                                                           *)

(* A stage runs if all stages before it passed. *)
Ran(a, rules) ==
  {i \in 1 .. 5 : \A j \in 1 .. i - 1 : Stages(a, rules)[j].passed}

MakeDecision(stages) ==
  IF \E i \in 1 .. 5 : stages[i].escalate THEN "escalate"
  ELSE IF \E i \in 1 .. 5 : stages[i].risk >= High THEN "require_approval"
  ELSE "allow"

(* MUTANT: whatever the control stage stops is escalated, even when it     *)
(* never ran.                                                              *)
EscalateEarly(a, rules) ==
  LET s == Stages(a, rules) IN
  IF \A i \in 1 .. 5 : s[i].passed THEN MakeDecision(s)
  ELSE IF s[5].escalate THEN "escalate" ELSE "deny"

(* Pipeline.Evaluate: the first stage that fails decides; only the control *)
(* stage can escalate.                                                     *)
Decision(a, rules) ==
  LET s == Stages(a, rules) IN
  IF \A i \in 1 .. 5 : s[i].passed THEN MakeDecision(s)
  ELSE IF 5 \in Ran(a, rules) /\ s[5].escalate THEN "escalate"
  ELSE "deny"

(* MUTANT: the risk of the last stage that ran. *)
LastRisk(a, rules) == IF 3 \in Ran(a, rules) THEN Low ELSE Risk(a)

(* PipelineResult.ToAuditEntry: the highest risk among the stages that ran. *)
AuditRisk(a, rules) ==
  LET risks == {Stages(a, rules)[i].risk : i \in Ran(a, rules)}
  IN  CHOOSE r \in risks : \A q \in risks : q <= r

-----------------------------------------------------------------------------
(* PROPERTIES                                                              *)

(* How strict a decision is: what a person has to do before the action can *)
(* run.                                                                    *)
Strictness(d) ==
  CASE d = "allow" -> 0
    [] d = "require_approval" -> 1
    [] d = "escalate" -> 2
    [] d = "deny" -> 3

NoStricter(a, rules, b, others) ==
  Strictness(Decision(a, rules)) <= Strictness(Decision(b, others))

(* The decision, said without stages: what is missing, critical, against a *)
(* rule, out of bounds or over time is denied, whatever else it is; what   *)
(* is left is escalated if it is intensive, needs a person if its risk is  *)
(* high, and is allowed otherwise.                                         *)
ExpectedDecision(a, rules) ==
  IF \/ ~WellFormed(a)
     \/ Risk(a) = Critical
     \/ \E r \in rules : Violates(a, r)
     \/ ~InBoundary(a)
     \/ a.timeout = "beyond"
  THEN "deny"
  ELSE IF Intensive(a) THEN "escalate"
  ELSE IF a.type \in {"shell", "file_delete"} THEN "require_approval"
  ELSE "allow"
=============================================================================
