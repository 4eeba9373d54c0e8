------------------------- MODULE GovernancePipeline -------------------------
(***************************************************************************)
(* internal/governance/pipeline.go: one Pipeline, called by one goroutine  *)
(* at a time: Evaluate, ApproveHITL, RejectHITL and SetRules, while time   *)
(* passes.                                                                 *)
(*                                                                         *)
(* A request is an action as the caller holds it: an action of Governance  *)
(* with its ID and the text that ComputeActionHash prints its payload to,  *)
(* "key=value;" for every key.  Two different payloads may print the same  *)
(* text.  The 64-bit hash of that text is taken to have no collisions.     *)
(***************************************************************************)
EXTENDS Governance, FiniteSets

CONSTANTS
  Requests,    \* the requests callers make: records [id, text, action]
  RuleSets,    \* the sets of rules SetRules is called with
  HITLTimeout, \* how long an approval may be given, in ticks
  MaxTime,     \* bounds the clock
  MaxLog       \* bounds the length of the audit log

ASSUME RequestsAssumption == \A q \in Requests : q.action \in Action
ASSUME RuleSetsAssumption == RuleSets \subseteq SUBSET RuleIds
ASSUME TimeAssumption ==
  HITLTimeout \in Nat /\ MaxTime \in Nat /\ MaxLog \in Nat

VARIABLES
  rules,     \* the rules of the policy engine
  auditLog,  \* Pipeline.auditLog
  auths,     \* every GovernanceAuth handed out
  now        \* the clock

vars == <<rules, auditLog, auths, now>>

Hash(q) == <<q.action.type, q.id, q.text>>

Auth == [hash : {Hash(q) : q \in Requests}, expires : Nat]

(* An audit entry; source tells an Evaluate from a decision of a person,   *)
(* and at is its timestamp.                                                *)
Entry == [request : Requests, source : {"evaluate", "hitl"},
          decision : Decisions, risk : Low .. Critical, at : 0 .. MaxTime]

TypeOK ==
  /\ rules \in RuleSets \cup {{}}
  /\ auditLog \in Seq(Entry)
  /\ auths \subseteq Auth
  /\ now \in 0 .. MaxTime

(* DefaultGovernanceContext loads no rules. *)
Init ==
  /\ rules = {}
  /\ auditLog = <<>>
  /\ auths = {}
  /\ now = 0

RecordAudit(q, source, decision, risk) ==
  /\ Len(auditLog) < MaxLog
  /\ auditLog' = Append(auditLog,
       [request |-> q, source |-> source, decision |-> decision,
        risk |-> risk, at |-> now])

Evaluate(q) ==
  LET d == Decision(q.action, rules) IN
  /\ RecordAudit(q, "evaluate", d, AuditRisk(q.action, rules))
  /\ auths' = IF d = "require_approval"
                THEN auths \cup {[hash |-> Hash(q),
                                  expires |-> now + HITLTimeout]}
                ELSE auths
  /\ UNCHANGED <<rules, now>>

(* MUTANT: the expiry is not looked at. *)
ApproveExpired(q, auth) ==
  /\ Hash(q) = auth.hash
  /\ RecordAudit(q, "hitl", "allow", Low)
  /\ UNCHANGED <<rules, auths, now>>

(* An auth that has expired, or that is for another hash, is an error and  *)
(* leaves no trace.  The entry reports only the "hitl" stage: risk low.    *)
ApproveHITL(q, auth) ==
  /\ now <= auth.expires
  /\ Hash(q) = auth.hash
  /\ RecordAudit(q, "hitl", "allow", Low)
  /\ UNCHANGED <<rules, auths, now>>

(* Neither the expiry nor the hash is looked at. *)
RejectHITL(q, auth) ==
  /\ RecordAudit(q, "hitl", "deny", Low)
  /\ UNCHANGED <<rules, auths, now>>

SetRules(r) ==
  /\ rules' = r
  /\ UNCHANGED <<auditLog, auths, now>>

Tick ==
  /\ now < MaxTime
  /\ now' = now + 1
  /\ UNCHANGED <<rules, auditLog, auths>>

Next ==
  \/ \E q \in Requests :
       \/ Evaluate(q)
       \/ \E auth \in auths : ApproveHITL(q, auth) \/ RejectHITL(q, auth)
  \/ \E r \in RuleSets : SetRules(r)
  \/ Tick

Spec == Init /\ [][Next]_vars

-----------------------------------------------------------------------------
(* PROPERTIES                                                              *)

(* Every approval in the log follows a decision that asked for one, made   *)
(* for a request with the same hash at most HITLTimeout earlier.           *)
ApprovalJustified ==
  \A i \in 1 .. Len(auditLog) :
    auditLog[i].source = "hitl" /\ auditLog[i].decision = "allow" =>
      \E j \in 1 .. i - 1 :
        /\ auditLog[j].source = "evaluate"
        /\ auditLog[j].decision = "require_approval"
        /\ Hash(auditLog[j].request) = Hash(auditLog[i].request)
        /\ auditLog[i].at <= auditLog[j].at + HITLTimeout

(* What Evaluate lets pass, or passes on to a person, carries its true     *)
(* risk in the log: low or medium if allowed, high if passed on.           *)
RiskReported ==
  \A i \in 1 .. Len(auditLog) :
    auditLog[i].source = "evaluate" =>
      /\ auditLog[i].decision # "deny" =>
           auditLog[i].risk = Risk(auditLog[i].request.action)
      /\ auditLog[i].risk = Critical => auditLog[i].decision = "deny"
      /\ auditLog[i].decision = "allow" => auditLog[i].risk < High

(* Loading more rules never makes a decision more lenient.                 *)
RulesMonotone ==
  \A q \in Requests, r \in RuleSets :
    rules \subseteq r => NoStricter(q.action, rules, q.action, r)

=============================================================================
