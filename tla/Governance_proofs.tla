------------------------- MODULE Governance_proofs -------------------------
(***************************************************************************)
(* Proofs about the governance decision, for every abstract action and     *)
(* every set of rules, about the walk through them in GovernanceSpace, and *)
(* about the pipeline over time, for any requests, rule sets, timeout and  *)
(* length of the log.                                                      *)
(***************************************************************************)
EXTENDS GovernanceSpace, GovernancePipeline, TLAPS

(* The early returns of Evaluate: which stages have run does not depend on *)
(* the stages behind the first one that failed, and the decision is the    *)
(* one described without stages.                                           *)
LEMMA DecisionCharacterised ==
  ASSUME NEW b \in Action, NEW R \in SUBSET RuleIds
  PROVE  Decision(b, R) = ExpectedDecision(b, R)
<1> DEFINE s == Stages(b, R)
           ok == /\ WellFormed(b) /\ Risk(b) # Critical
                 /\ PolicyPasses(b, R) /\ InBoundary(b)
<1>1. /\ s[1].passed <=> WellFormed(b)
      /\ ~s[1].escalate
      /\ s[1].risk = Low
  BY DEF Stages, Stage
<1>2. /\ s[2].passed <=> (Risk(b) # Critical)
      /\ ~s[2].escalate
      /\ s[2].risk = Risk(b)
  BY DEF Stages, Stage
<1>3. /\ s[3].passed <=> PolicyPasses(b, R)
      /\ ~s[3].escalate
      /\ s[3].risk = Low
  BY DEF Stages, Stage
<1>4. /\ s[4].passed <=> InBoundary(b)
      /\ ~s[4].escalate
      /\ s[4].risk = Low
  BY DEF Stages, Stage
<1>5. /\ s[5].passed <=> (b.timeout # "beyond" /\ ~Intensive(b))
      /\ s[5].escalate <=> (b.timeout # "beyond" /\ Intensive(b))
      /\ s[5].risk = Low
  BY DEF Stages, Stage
<1>6. 1 .. 5 = {1, 2, 3, 4, 5}
  OBVIOUS
<1>7. 5 \in Ran(b, R) <=> ok
  <2>1. 5 \in Ran(b, R) <=> \A j \in {1, 2, 3, 4} : s[j].passed
    BY DEF Ran
  <2> QED BY <2>1, <1>1, <1>2, <1>3, <1>4, Zenon
<1>8. (\A i \in 1 .. 5 : s[i].passed) <=>
        ok /\ b.timeout # "beyond" /\ ~Intensive(b)
  BY <1>1, <1>2, <1>3, <1>4, <1>5, <1>6, Zenon
<1>9. s[5].escalate <=> b.timeout # "beyond" /\ Intensive(b)
  BY <1>5, Zenon
<1>10. ASSUME ok, b.timeout # "beyond", ~Intensive(b)
      PROVE  MakeDecision(s) = IF b.type \in {"shell", "file_delete"}
                                 THEN "require_approval" ELSE "allow"
  <2>1. ~\E i \in 1 .. 5 : s[i].escalate
    BY <1>1, <1>2, <1>3, <1>4, <1>5, <1>6, <1>10, Zenon
  <2>2. (\E i \in 1 .. 5 : s[i].risk >= High) <=> Risk(b) >= High
    BY <1>1, <1>2, <1>3, <1>4, <1>5, <1>6 DEF Low, High
  <2>3. Risk(b) >= High <=> b.type \in {"shell", "file_delete"}
    BY <1>10 DEF Risk, Low, Medium, High, Critical
  <2> QED BY <2>1, <2>2, <2>3 DEF MakeDecision
<1> QED
  BY <1>7, <1>8, <1>9, <1>10
     DEF Decision, ExpectedDecision, PolicyPasses

(* An action with more marks, under more rules, is decided at least as     *)
(* strictly.                                                               *)
LEMMA MoreIsStricter ==
  ASSUME NEW b \in Action, NEW c \in Action,
         NEW r \in SUBSET RuleIds, NEW q \in SUBSET RuleIds,
         c = [b EXCEPT !.command = c.command, !.path = c.path],
         b.command \subseteq c.command, b.path \subseteq c.path, r \subseteq q
  PROVE  NoStricter(b, r, c, q)
<1>0. /\ c.type = b.type /\ c.hasPath = b.hasPath /\ c.timeout = b.timeout
      /\ c.hasId = b.hasId /\ c.hasPayload = b.hasPayload
  BY DEF Action
<1>1. WellFormed(c) <=> WellFormed(b)
  BY <1>0 DEF WellFormed
<1>2. Risk(b) = Critical => Risk(c) = Critical
  BY <1>0 DEF Risk, Low, Medium, High, Critical
<1>3. ASSUME NEW rule \in r, Violates(b, rule) PROVE rule \in q /\ Violates(c, rule)
  BY <1>0, <1>3 DEF Violates
<1>4. InBoundary(c) => InBoundary(b)
  BY <1>0 DEF InBoundary
<1>5. Intensive(b) => Intensive(c)
  BY <1>0 DEF Intensive
<1>6. Strictness(ExpectedDecision(b, r)) <= Strictness(ExpectedDecision(c, q))
  BY <1>0, <1>1, <1>2, <1>3, <1>4, <1>5 DEF ExpectedDecision, Strictness
<1> QED
  BY <1>6, DecisionCharacterised DEF NoStricter

(* The audited risk is the one the classifier found, unless the schema     *)
(* stage stopped the action before it was classified.                      *)
LEMMA AuditRiskCharacterised ==
  ASSUME NEW b \in Action, NEW R \in SUBSET RuleIds
  PROVE  AuditRisk(b, R) = IF WellFormed(b) THEN Risk(b) ELSE Low
<1> DEFINE s == Stages(b, R)
           ran == Ran(b, R)
           risks == {s[i].risk : i \in ran}
<1>1. /\ s[1].passed <=> WellFormed(b)
      /\ s[1].risk = Low /\ s[2].risk = Risk(b) /\ s[3].risk = Low
      /\ s[4].risk = Low /\ s[5].risk = Low
  BY DEF Stages, Stage
<1>2. Risk(b) \in Low .. Critical
  BY DEF Risk, Low, Medium, High, Critical
<1>3. ran \subseteq {1, 2, 3, 4, 5} /\ 1 \in ran
  BY DEF Ran
<1>4. 2 \in ran <=> WellFormed(b)
  BY <1>1 DEF Ran
<1>5. ASSUME NEW i \in ran, i # 1 PROVE s[1].passed
  BY <1>3, <1>5 DEF Ran
<1>6. CASE WellFormed(b)
  <2>1. risks = {Low, Risk(b)}
    BY <1>1, <1>3, <1>4, <1>6
  <2>2. (CHOOSE r \in {Low, Risk(b)} : \A q \in {Low, Risk(b)} : q <= r) = Risk(b)
    BY <1>2 DEF Low, Critical
  <2> QED BY <1>6, <2>1, <2>2 DEF AuditRisk
<1>7. CASE ~WellFormed(b)
  <2>1. ran = {1}
    BY <1>1, <1>3, <1>5, <1>7
  <2>2. risks = {Low}
    BY <1>1, <2>1
  <2>3. (CHOOSE r \in {Low} : \A q \in {Low} : q <= r) = Low
    BY DEF Low
  <2> QED BY <1>7, <2>2, <2>3 DEF AuditRisk
<1> QED BY <1>6, <1>7

-----------------------------------------------------------------------------
(* The walk through actions and rules.                                     *)

(* The walk stays among the actions and the rules.                         *)
LEMMA SpaceType == SpaceSpec => [](a \in Action /\ loaded \in SUBSET RuleIds)
<1> DEFINE T == a \in Action /\ loaded \in SUBSET RuleIds
<1>1. SpaceInit => T
  BY DEF SpaceInit, Action
<1>2. T /\ [SpaceNext]_spaceVars => T'
  BY DEF SpaceNext, MarkCommand, MarkPath, LoadRule, spaceVars, Action
<1> QED BY <1>1, <1>2, PTL DEF SpaceSpec

(* Evaluate decides as the description without stages says.                *)
THEOREM DecisionCorrect == SpaceSpec => []DecisionAsExpected
<1>1. a \in Action /\ loaded \in SUBSET RuleIds => DecisionAsExpected
  BY DecisionCharacterised DEF DecisionAsExpected
<1> QED BY <1>1, SpaceType, PTL

(* No mark and no rule hides another.                                      *)
THEOREM NothingHidesCorrect == SpaceSpec => NothingHides
<1> DEFINE T == a \in Action /\ loaded \in SUBSET RuleIds
<1>1. T /\ T' /\ [SpaceNext]_spaceVars => [NoStricter(a, loaded, a', loaded')]_spaceVars
  <2> SUFFICES ASSUME T, T', SpaceNext PROVE NoStricter(a, loaded, a', loaded')
    BY DEF spaceVars
  <2> QED BY MoreIsStricter DEF SpaceNext, MarkCommand, MarkPath, LoadRule, Action
<1> QED BY <1>1, SpaceType, PTL DEF SpaceSpec, NothingHides

-----------------------------------------------------------------------------
(* The pipeline over time.                                                 *)

(* Appending an entry leaves the others where they are.                    *)
LEMMA Recorded ==
  ASSUME TypeOK, NEW e \in Entry, auditLog' = Append(auditLog, e)
  PROVE  /\ auditLog' \in Seq(Entry)
         /\ Len(auditLog) \in Nat
         /\ Len(auditLog') = Len(auditLog) + 1
         /\ \A i \in 1 .. Len(auditLog) : auditLog'[i] = auditLog[i]
         /\ auditLog'[Len(auditLog) + 1] = e
BY DEF TypeOK

(* What Evaluate records is an entry, and its risk is the true one unless  *)
(* the action is denied.                                                   *)
LEMMA EvaluatedEntry ==
  ASSUME NEW q \in Requests, NEW r \in SUBSET RuleIds
  PROVE  /\ q.action \in Action
         /\ Decision(q.action, r) \in Decisions
         /\ AuditRisk(q.action, r) \in Low .. Critical
         /\ Decision(q.action, r) # "deny" =>
              /\ AuditRisk(q.action, r) = Risk(q.action)
              /\ Risk(q.action) # Critical
         /\ Decision(q.action, r) = "allow" => Risk(q.action) < High
<1>1. q.action \in Action
  BY RequestsAssumption
<1>2. Decision(q.action, r) = ExpectedDecision(q.action, r)
  BY <1>1, DecisionCharacterised
<1>3. ExpectedDecision(q.action, r) \in Decisions
  BY DEF ExpectedDecision, Decisions
<1>4. ExpectedDecision(q.action, r) # "deny" =>
        WellFormed(q.action) /\ Risk(q.action) # Critical
  BY DEF ExpectedDecision
<1>5. Risk(q.action) \in Low .. Critical
  BY DEF Risk, Low, Medium, High, Critical
<1>6. ExpectedDecision(q.action, r) = "allow" => Risk(q.action) < High
  BY DEF ExpectedDecision, Risk, Low, Medium, High, Critical
<1>7. AuditRisk(q.action, r) =
        IF WellFormed(q.action) THEN Risk(q.action) ELSE Low
  BY <1>1, AuditRiskCharacterised
<1>8. Low \in Low .. Critical
  BY DEF Low, Critical
<1> QED BY <1>1, <1>2, <1>3, <1>4, <1>5, <1>6, <1>7, <1>8

LEMMA RulesType == TypeOK => rules \in SUBSET RuleIds
BY RuleSetsAssumption DEF TypeOK

-----------------------------------------------------------------------------
(* The three kinds of step that extend the log.                            *)

NewEntry(q, source, decision, risk) ==
  [request |-> q, source |-> source, decision |-> decision, risk |-> risk,
   at |-> now]

LEMMA EntryType ==
  ASSUME TypeOK, NEW q \in Requests, NEW source \in {"evaluate", "hitl"},
         NEW decision \in Decisions, NEW risk \in Low .. Critical
  PROVE  NewEntry(q, source, decision, risk) \in Entry
BY DEF TypeOK, NewEntry, Entry

(* Every step either records one entry of a known form or keeps the log.   *)
LEMMA StepForms ==
  ASSUME TypeOK, [Next]_vars
  PROVE  \/ \E q \in Requests :
              LET d == Decision(q.action, rules)
                  e == NewEntry(q, "evaluate", d, AuditRisk(q.action, rules))
              IN /\ e \in Entry
                 /\ auditLog' = Append(auditLog, e)
                 /\ Evaluate(q)
         \/ \E q \in Requests, auth \in auths :
              LET e == NewEntry(q, "hitl", "allow", Low)
              IN /\ e \in Entry
                 /\ auditLog' = Append(auditLog, e)
                 /\ ApproveHITL(q, auth)
         \/ \E q \in Requests, auth \in auths :
              LET e == NewEntry(q, "hitl", "deny", Low)
              IN /\ e \in Entry
                 /\ auditLog' = Append(auditLog, e)
                 /\ RejectHITL(q, auth)
         \/ /\ UNCHANGED <<auditLog, auths>>
            /\ rules' \in RuleSets \cup {rules}
            /\ now' \in {now, now + 1} /\ now' \in 0 .. MaxTime
<1>1. rules \in SUBSET RuleIds /\ now \in 0 .. MaxTime
  BY RulesType DEF TypeOK
<1>2. ASSUME NEW q \in Requests, Evaluate(q)
      PROVE  LET d == Decision(q.action, rules)
                 e == NewEntry(q, "evaluate", d, AuditRisk(q.action, rules))
             IN  e \in Entry /\ auditLog' = Append(auditLog, e)
  <2>1. /\ Decision(q.action, rules) \in Decisions
        /\ AuditRisk(q.action, rules) \in Low .. Critical
    BY <1>1, EvaluatedEntry
  <2> QED BY <1>2, <2>1, EntryType DEF Evaluate, RecordAudit, NewEntry
<1>3. Low \in Low .. Critical /\ "allow" \in Decisions /\ "deny" \in Decisions
  BY DEF Low, Critical, Decisions
<1>4. ASSUME NEW q \in Requests, NEW auth \in auths, ApproveHITL(q, auth)
      PROVE  LET e == NewEntry(q, "hitl", "allow", Low)
             IN  e \in Entry /\ auditLog' = Append(auditLog, e)
  BY <1>3, <1>4, EntryType DEF ApproveHITL, RecordAudit, NewEntry
<1>5. ASSUME NEW q \in Requests, NEW auth \in auths, RejectHITL(q, auth)
      PROVE  LET e == NewEntry(q, "hitl", "deny", Low)
             IN  e \in Entry /\ auditLog' = Append(auditLog, e)
  BY <1>3, <1>5, EntryType DEF RejectHITL, RecordAudit, NewEntry
<1>6. ASSUME \/ \E r \in RuleSets : SetRules(r)
             \/ Tick
             \/ UNCHANGED vars
      PROVE  /\ UNCHANGED <<auditLog, auths>>
             /\ rules' \in RuleSets \cup {rules}
             /\ now' \in {now, now + 1} /\ now' \in 0 .. MaxTime
  BY <1>1, <1>6, TimeAssumption DEF SetRules, Tick, vars
<1> QED BY <1>2, <1>4, <1>5, <1>6 DEF Next

(* Every variable of the pipeline keeps its type.                          *)
THEOREM TypeCorrect == Spec => []TypeOK
<1>1. Init => TypeOK
  BY TimeAssumption DEF Init, TypeOK
<1>2. TypeOK /\ [Next]_vars => TypeOK'
  <2> SUFFICES ASSUME TypeOK, [Next]_vars PROVE TypeOK'
    OBVIOUS
  <2>1. ASSUME NEW q \in Requests, Evaluate(q)
        PROVE  auths' \subseteq Auth /\ UNCHANGED <<rules, now>>
    BY <2>1, TimeAssumption DEF Evaluate, TypeOK, Auth
  <2>2. ASSUME NEW q \in Requests, NEW auth \in auths,
               ApproveHITL(q, auth) \/ RejectHITL(q, auth)
        PROVE  UNCHANGED <<auths, rules, now>>
    BY <2>2 DEF ApproveHITL, RejectHITL
  <2> QED BY <2>1, <2>2, StepForms, Recorded DEF TypeOK
<1> QED BY <1>1, <1>2, PTL DEF Spec

-----------------------------------------------------------------------------
(* Approvals.                                                              *)

(* What justifies an authorisation: the entry of the Evaluate that made it.*)
Issued(hash, expires, j) ==
  /\ auditLog[j].source = "evaluate"
  /\ auditLog[j].decision = "require_approval"
  /\ Hash(auditLog[j].request) = hash
  /\ expires = auditLog[j].at + HITLTimeout

AuthsIssued ==
  \A auth \in auths :
    \E j \in 1 .. Len(auditLog) : Issued(auth.hash, auth.expires, j)

Justified(i) ==
  auditLog[i].source = "hitl" /\ auditLog[i].decision = "allow" =>
    \E j \in 1 .. i - 1 :
      /\ auditLog[j].source = "evaluate"
      /\ auditLog[j].decision = "require_approval"
      /\ Hash(auditLog[j].request) = Hash(auditLog[i].request)
      /\ auditLog[i].at <= auditLog[j].at + HITLTimeout

(* Entries that stay keep justifying what they justified.                  *)
LEMMA KeptEntries ==
  ASSUME TypeOK, NEW e \in Entry, auditLog' = Append(auditLog, e)
  PROVE  /\ \A auth \in auths :
              (\E j \in 1 .. Len(auditLog) :
                 Issued(auth.hash, auth.expires, j)) =>
                (\E j \in 1 .. Len(auditLog') :
                   Issued(auth.hash, auth.expires, j)')
         /\ \A i \in 1 .. Len(auditLog) : Justified(i) => Justified(i)'
<1> DEFINE n == Len(auditLog)
<1>1. /\ n \in Nat /\ Len(auditLog') = n + 1
      /\ \A i \in 1 .. n : auditLog'[i] = auditLog[i]
  BY Recorded
<1>2. \A j \in 1 .. n, auth \in auths :
        Issued(auth.hash, auth.expires, j) =>
          Issued(auth.hash, auth.expires, j)'
  BY <1>1 DEF Issued, Hash
<1>3. \A i \in 1 .. n : \A j \in 1 .. i - 1 : j \in 1 .. n
  BY <1>1
<1>4. \A i \in 1 .. n : Justified(i) => Justified(i)'
  BY <1>1, <1>3 DEF Justified, Hash
<1>5. 1 .. n \subseteq 1 .. Len(auditLog')
  BY <1>1
<1> QED BY <1>2, <1>4, <1>5

(* A person's approval in the log always follows a request for approval of *)
(* the same hash, given in time.  The invariant needs the authorisations:  *)
(* each is traced to the entry of the Evaluate that handed it out.         *)
THEOREM ApprovalJustifiedCorrect == Spec => []ApprovalJustified
<1> DEFINE Inv == AuthsIssued /\ \A i \in 1 .. Len(auditLog) : Justified(i)
<1>1. Init => Inv
  BY DEF Init, AuthsIssued
<1>2. TypeOK /\ TypeOK' /\ Inv /\ [Next]_vars => Inv'
  <2> SUFFICES ASSUME TypeOK, TypeOK', Inv, [Next]_vars PROVE Inv'
    OBVIOUS
  <2>0. PICK n \in Nat : n = Len(auditLog)
    BY DEF TypeOK
  <2>1. ASSUME NEW q \in Requests, NEW e \in Entry,
               e = NewEntry(q, "evaluate", Decision(q.action, rules),
                            AuditRisk(q.action, rules)),
               auditLog' = Append(auditLog, e), Evaluate(q)
        PROVE  Inv'
    <3>1. /\ n \in Nat /\ Len(auditLog') = n + 1
          /\ auditLog'[n + 1] = e
      BY <2>0, <2>1, Recorded
    <3>2. Justified(n + 1)'
      BY <2>1, <3>1 DEF Justified, NewEntry
    <3>3. \A i \in 1 .. n + 1 : Justified(i)'
      BY <2>1, <3>1, <3>2, <2>0, KeptEntries
    <3>4. ASSUME NEW auth \in auths', auth \notin auths
          PROVE  Issued(auth.hash, auth.expires, n + 1)'
      <4>1. /\ Decision(q.action, rules) = "require_approval"
            /\ auth = [hash |-> Hash(q), expires |-> now + HITLTimeout]
        BY <2>1, <3>4 DEF Evaluate
      <4> QED BY <2>1, <3>1, <4>1 DEF Issued, NewEntry, Hash
    <3>5. n + 1 \in 1 .. Len(auditLog')
      BY <3>1
    <3>6. \A auth \in auths' :
            \E j \in 1 .. Len(auditLog') : Issued(auth.hash, auth.expires, j)'
      BY <2>1, <3>4, <3>5, <2>0, KeptEntries DEF AuthsIssued
    <3> QED BY <3>1, <3>3, <3>6 DEF AuthsIssued
  <2>2. ASSUME NEW q \in Requests, NEW auth \in auths, NEW e \in Entry,
               e = NewEntry(q, "hitl", "allow", Low),
               auditLog' = Append(auditLog, e), ApproveHITL(q, auth)
        PROVE  Inv'
    <3>1. /\ n \in Nat /\ Len(auditLog') = n + 1
          /\ \A i \in 1 .. n : auditLog'[i] = auditLog[i]
          /\ auditLog'[n + 1] = e
      BY <2>0, <2>2, Recorded
    <3>2. PICK j \in 1 .. n : Issued(auth.hash, auth.expires, j)
      BY <2>0 DEF AuthsIssued
    <3>3. /\ auth.hash = Hash(q) /\ now <= auth.expires /\ auths' = auths
      BY <2>2 DEF ApproveHITL
    <3>4. e.at = now /\ e.request = q
      BY <2>2 DEF NewEntry
    <3>5. j \in 1 .. (n + 1) - 1
      BY <3>1
    <3>6. Justified(n + 1)'
      BY <3>1, <3>2, <3>3, <3>4, <3>5 DEF Justified, Issued, Hash
    <3>7. \A i \in 1 .. n + 1 : Justified(i)'
      BY <2>2, <3>1, <3>6, <2>0, KeptEntries
    <3>8. \A x \in auths' :
            \E k \in 1 .. Len(auditLog') : Issued(x.hash, x.expires, k)'
      BY <2>2, <3>3, <2>0, KeptEntries DEF AuthsIssued
    <3> QED BY <3>1, <3>7, <3>8 DEF AuthsIssued
  <2>3. ASSUME NEW q \in Requests, NEW auth \in auths, NEW e \in Entry,
               e = NewEntry(q, "hitl", "deny", Low),
               auditLog' = Append(auditLog, e), RejectHITL(q, auth)
        PROVE  Inv'
    <3>1. n \in Nat /\ Len(auditLog') = n + 1 /\ auditLog'[n + 1] = e
      BY <2>0, <2>3, Recorded
    <3>2. Justified(n + 1)'
      BY <2>3, <3>1 DEF Justified, NewEntry
    <3>3. \A i \in 1 .. n + 1 : Justified(i)'
      BY <2>3, <3>1, <3>2, <2>0, KeptEntries
    <3>4. auths' = auths
      BY <2>3 DEF RejectHITL
    <3>5. \A x \in auths' :
            \E k \in 1 .. Len(auditLog') : Issued(x.hash, x.expires, k)'
      BY <2>3, <3>4, <2>0, KeptEntries DEF AuthsIssued
    <3> QED BY <3>1, <3>3, <3>5 DEF AuthsIssued
  <2>4. ASSUME UNCHANGED <<auditLog, auths>> PROVE Inv'
    BY <2>4 DEF AuthsIssued, Issued, Justified, Hash
  <2> QED BY <2>1, <2>2, <2>3, <2>4, StepForms
<1>3. Inv => ApprovalJustified
  BY DEF ApprovalJustified, Justified
<1> QED BY <1>1, <1>2, <1>3, TypeCorrect, PTL DEF Spec

-----------------------------------------------------------------------------
(* The log.                                                                *)

TrueRisk(e) ==
  e.source = "evaluate" =>
    /\ e.decision # "deny" => e.risk = Risk(e.request.action)
    /\ e.risk = Critical => e.decision = "deny"
    /\ e.decision = "allow" => e.risk < High

(* No entry of the log understates the risk of what was let pass.          *)
THEOREM RiskReportedCorrect == Spec => []RiskReported
<1> DEFINE Inv == \A i \in 1 .. Len(auditLog) : TrueRisk(auditLog[i])
<1>1. Init => Inv
  BY DEF Init
<1>2. TypeOK /\ Inv /\ [Next]_vars => Inv'
  <2> SUFFICES ASSUME TypeOK, Inv, [Next]_vars PROVE Inv'
    OBVIOUS
  <2>1. ASSUME NEW e \in Entry, auditLog' = Append(auditLog, e), TrueRisk(e)
        PROVE  Inv'
    BY <2>1, Recorded
  <2>2. ASSUME NEW q \in Requests
        PROVE  TrueRisk(NewEntry(q, "evaluate", Decision(q.action, rules),
                                 AuditRisk(q.action, rules)))
    BY EvaluatedEntry, RulesType DEF TrueRisk, NewEntry
  <2>3. ASSUME NEW q \in Requests, NEW d \in {"allow", "deny"}
        PROVE  TrueRisk(NewEntry(q, "hitl", d, Low))
    BY DEF TrueRisk, NewEntry
  <2>4. ASSUME auditLog' = auditLog PROVE Inv'
    BY <2>4 DEF TrueRisk
  <2> QED BY <2>1, <2>2, <2>3, <2>4, StepForms
<1>3. Inv => RiskReported
  BY DEF RiskReported, TrueRisk
<1> QED BY <1>1, <1>2, <1>3, TypeCorrect, PTL DEF Spec

-----------------------------------------------------------------------------
(* Whatever the engine has loaded, loading more rules never makes a        *)
(* decision more lenient.                                                  *)
THEOREM RulesMonotoneCorrect == Spec => []RulesMonotone
<1>1. TypeOK => RulesMonotone
  <2> SUFFICES ASSUME TypeOK, NEW q \in Requests, NEW r \in RuleSets,
                      rules \subseteq r
               PROVE  NoStricter(q.action, rules, q.action, r)
    BY DEF RulesMonotone
  <2>1. q.action \in Action /\ rules \in SUBSET RuleIds /\ r \in SUBSET RuleIds
    BY RequestsAssumption, RuleSetsAssumption, RulesType
  <2>2. q.action = [q.action EXCEPT !.command = q.action.command,
                                    !.path = q.action.path]
    BY <2>1 DEF Action
  <2> QED BY <2>1, <2>2, MoreIsStricter
<1> QED BY <1>1, TypeCorrect, PTL
=============================================================================
