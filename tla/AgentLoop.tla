----------------------------- MODULE AgentLoop -----------------------------
(***************************************************************************)
(* internal/runtime/loop.go: one AgentLoop whose Run is called again and   *)
(* again by one goroutine.  The model provider, the tools, the person who  *)
(* is asked for approval and the context of the run are the environment.   *)
(*                                                                         *)
(* Every tool call becomes an action that Governance decides on.  An       *)
(* action has the position of its audit entry as its identity.             *)
(***************************************************************************)
EXTENDS Governance, AgentState, FiniteSets

CONSTANTS
  Calls,          \* the tool calls a model may make: [parses, action]
  Rules,          \* the rules of the policy engine
  HandlerAnswers, \* what a HITL handler may answer
  MaxIterations,  \* LoopConfig.MaxIterations
  MaxCalls,       \* bounds the tool calls of one response
  MaxRuns         \* bounds the calls of Run

ASSUME CallsAssumption ==
  Calls \subseteq [parses : BOOLEAN, action : Action]
ASSUME RulesAssumption == Rules \subseteq RuleIds
ASSUME HandlerAssumption == HandlerAnswers \subseteq Decisions
ASSUME BoundsAssumption ==
  MaxIterations \in Nat \ {0} /\ MaxCalls \in Nat /\ MaxRuns \in Nat

VARIABLES
  pc,         \* where the goroutine is
  state,      \* AgentLoop.state
  messages,   \* AgentLoop.messages
  iterations, \* AgentLoop.iterations
  auditLog,   \* the audit log of the pipeline
  pending,    \* the tool calls of the last response still to be executed
  cancelled,  \* the context of the run is done
  result,     \* what the last Run returned
  handler     \* a HITL handler is configured

(* History, for the properties only. *)
VARIABLES
  runs,       \* calls of Run so far
  generated,  \* calls of Generate so far
  before,     \* length of auditLog when the run began
  executed,   \* audit positions of the actions a tool executed, in order
  approvals   \* audit positions the handler was asked about, with its answer

loop == <<state, messages, iterations, auditLog, pending, result>>
history == <<runs, generated, before, executed, approvals>>
env == <<cancelled, handler>>
vars == <<pc, loop, env, history>>

Pcs == {"idle", "head", "generate", "call", "ask", "execute", "tool"}
Results == {"none", "text", "failed", "exhausted", "cancelled", "hitl"}

-----------------------------------------------------------------------------
(* Messages.                                                               *)

Kinds == {"unparsed", "denied", "escalated", "rejected", "tool_error",
          "observation"}

Prompt == <<[role |-> "system"], [role |-> "user"]>>
Proposal(calls) == [role |-> "assistant", calls |-> calls]
Reply(call, kind) == [role |-> "tool", call |-> call, kind |-> kind]

Responses == UNION {[1 .. n -> Calls] : n \in 0 .. MaxCalls}

Message ==
  [role : {"system", "user"}] \cup [role : {"assistant"}, calls : Responses]
    \cup [role : {"tool"}, call : Calls, kind : Kinds]

(* MUTANT: an error of the tool is not told to the model. *)
AnswerUnlessToolError(kind) ==
  /\ messages' = IF kind = "tool_error" THEN messages
                 ELSE Append(messages, Reply(Head(pending), kind))
  /\ pending' = Tail(pending)
  /\ pc' = "call"

(* The reply to the first pending call ends its execution. *)
Answer(kind) ==
  /\ messages' = Append(messages, Reply(Head(pending), kind))
  /\ pending' = Tail(pending)
  /\ pc' = "call"

-----------------------------------------------------------------------------
Transition(next) == state' = TransitionTo(state, next)

Return(r) ==
  /\ result' = r
  /\ pc' = "idle"
  /\ UNCHANGED <<env, history>>

Init ==
  /\ pc = "idle"
  /\ state = "idle"
  /\ messages = <<>>
  /\ iterations = 0
  /\ auditLog = <<>>
  /\ pending = <<>>
  /\ cancelled = FALSE
  /\ result = "none"
  /\ handler = FALSE
  /\ runs = 0
  /\ generated = 0
  /\ before = 0
  /\ executed = <<>>
  /\ approvals = <<>>

SetHITLHandler(configured) ==
  /\ pc = "idle"
  /\ handler' = configured
  /\ UNCHANGED <<pc, loop, cancelled, history>>

(* Run starts a new conversation; everything else is kept. *)
Run ==
  /\ pc = "idle"
  /\ runs < MaxRuns
  /\ messages' = Prompt
  /\ pending' = <<>>
  /\ result' = "none"
  /\ cancelled' = FALSE
  /\ runs' = runs + 1
  /\ before' = Len(auditLog)
  /\ pc' = "head"
  /\ UNCHANGED <<state, iterations, auditLog, handler, generated,
                 executed, approvals>>

(* The task is cancelled. *)
CancelContext ==
  /\ pc # "idle"
  /\ ~cancelled
  /\ cancelled' = TRUE
  /\ UNCHANGED <<pc, loop, handler, history>>

-----------------------------------------------------------------------------
(* The head of the loop.                                                   *)

(* MUTANT: the budget is off by one. *)
ThinkOnceMore ==
  /\ pc = "head"
  /\ iterations <= MaxIterations
  /\ ~cancelled
  /\ Transition("thinking")
  /\ generated' = generated + 1
  /\ pc' = "generate"
  /\ UNCHANGED <<messages, iterations, auditLog, pending, result, env, runs,
                 before, executed, approvals>>

Think ==
  /\ pc = "head"
  /\ iterations < MaxIterations
  /\ ~cancelled
  /\ Transition("thinking")
  /\ generated' = generated + 1
  /\ pc' = "generate"
  /\ UNCHANGED <<messages, iterations, auditLog, pending, result, env, runs,
                 before, executed, approvals>>

ReturnCancelled ==
  /\ pc = "head"
  /\ iterations < MaxIterations
  /\ cancelled
  /\ Return("cancelled")
  /\ UNCHANGED <<state, messages, iterations, auditLog, pending>>

ReturnExhausted ==
  /\ pc = "head"
  /\ iterations >= MaxIterations
  /\ Transition("error")
  /\ Return("exhausted")
  /\ UNCHANGED <<messages, iterations, auditLog, pending>>

-----------------------------------------------------------------------------
(* The answers of Generate.                                                *)

GenerateFails ==
  /\ pc = "generate"
  /\ Transition("error")
  /\ Return("failed")
  /\ UNCHANGED <<messages, iterations, auditLog, pending>>

(* Finish reason stop; the content is the result. *)
Stop ==
  /\ pc = "generate"
  /\ messages' = Append(messages, Proposal(<<>>))
  /\ Transition("terminated")
  /\ Return("text")
  /\ UNCHANGED <<iterations, auditLog, pending>>

(* Finish reason error, length or any other. *)
FinishBadly ==
  /\ pc = "generate"
  /\ messages' = Append(messages, Proposal(<<>>))
  /\ Transition("error")
  /\ Return("failed")
  /\ UNCHANGED <<iterations, auditLog, pending>>

Propose(calls) ==
  /\ pc = "generate"
  /\ messages' = Append(messages, Proposal(calls))
  /\ pending' = calls
  /\ pc' = "call"
  /\ UNCHANGED <<state, iterations, auditLog, result, env, history>>

-----------------------------------------------------------------------------
(* executeToolCall.                                                        *)

Parsed == pending # <<>> /\ Head(pending).parses

ParseFails ==
  /\ pc = "call"
  /\ pending # <<>>
  /\ ~Head(pending).parses
  /\ Answer("unparsed")
  /\ UNCHANGED <<state, iterations, auditLog, result, env, history>>

(* MUTANT: an escalated action is treated as an approved one. *)
AfterEscalating(d) ==
  CASE d = "deny" -> Answer("denied") /\ UNCHANGED result
    [] d \in {"escalate", "allow"} ->
         pc' = "execute" /\ UNCHANGED <<messages, pending, result>>
    [] d = "require_approval" /\ ~handler ->
         /\ pc' = "idle"
         /\ result' = "hitl"
         /\ UNCHANGED <<messages, pending>>
    [] OTHER -> pc' = "ask" /\ UNCHANGED <<messages, pending, result>>

(* MUTANT: without a handler the call is answered and the run goes on. *)
AfterDenying(d) ==
  CASE d = "deny" -> Answer("denied") /\ UNCHANGED result
    [] d = "escalate" -> Answer("escalated") /\ UNCHANGED result
    [] d = "require_approval" -> Answer("denied") /\ UNCHANGED result
    [] OTHER -> pc' = "execute" /\ UNCHANGED <<messages, pending, result>>

(* Without a handler Run returns, with the call unanswered. *)
After(d) ==
  CASE d = "deny" -> Answer("denied") /\ UNCHANGED result
    [] d = "escalate" -> Answer("escalated") /\ UNCHANGED result
    [] d = "require_approval" /\ ~handler ->
         /\ pc' = "idle"
         /\ result' = "hitl"
         /\ UNCHANGED <<messages, pending>>
    [] d = "require_approval" /\ handler ->
         pc' = "ask" /\ UNCHANGED <<messages, pending, result>>
    [] d = "allow" -> pc' = "execute" /\ UNCHANGED <<messages, pending, result>>

Evaluate ==
  /\ pc = "call"
  /\ Parsed
  /\ Transition("awaiting_approval")
  /\ LET action == Head(pending).action
         d == Decision(action, Rules)
     IN  /\ auditLog' = Append(auditLog, [action |-> action, decision |-> d])
         /\ After(d)
  /\ UNCHANGED <<iterations, cancelled, handler, history>>

(* Any answer but deny lets the action through; whether the approval has  *)
(* expired by then is not looked at.                                       *)
HandlerReturns(d) ==
  /\ pc = "ask"
  /\ approvals' = Append(approvals, <<Len(auditLog), d>>)
  /\ IF d = "deny" THEN Answer("rejected")
     ELSE pc' = "execute" /\ UNCHANGED <<messages, pending>>
  /\ UNCHANGED <<state, iterations, auditLog, result, env, runs, generated,
                 before, executed>>

(* The tool is not registered, or its Validate refuses the action. *)
ToolRefuses ==
  /\ pc = "execute"
  /\ Transition("executing")
  /\ Answer("tool_error")
  /\ UNCHANGED <<iterations, auditLog, result, env, history>>

Execute ==
  /\ pc = "execute"
  /\ Transition("executing")
  /\ executed' = Append(executed, Len(auditLog))
  /\ pc' = "tool"
  /\ UNCHANGED <<messages, iterations, auditLog, pending, result, env, runs,
                 generated, before, approvals>>

ToolFails ==
  /\ pc = "tool"
  /\ Answer("tool_error")
  /\ UNCHANGED <<state, iterations, auditLog, result, env, history>>

Observe ==
  /\ pc = "tool"
  /\ Transition("observing")
  /\ Answer("observation")
  /\ UNCHANGED <<iterations, auditLog, result, env, history>>

-----------------------------------------------------------------------------
(* MUTANT: rounds in which nothing was executed are not counted. *)
EndRoundIfWorked ==
  /\ pc = "call"
  /\ pending = <<>>
  /\ iterations' = IF state = "observing" THEN iterations + 1 ELSE iterations
  /\ pc' = "head"
  /\ UNCHANGED <<state, messages, auditLog, pending, result, env, history>>

EndRound ==
  /\ pc = "call"
  /\ pending = <<>>
  /\ iterations' = iterations + 1
  /\ pc' = "head"
  /\ UNCHANGED <<state, messages, auditLog, pending, result, env, history>>

(* The steps of the loop between two waits. *)
Internal ==
  \/ Think \/ ReturnCancelled \/ ReturnExhausted
  \/ ParseFails \/ Evaluate \/ ToolRefuses \/ Execute \/ EndRound

Generated ==
  \/ GenerateFails \/ Stop \/ FinishBadly
  \/ \E calls \in Responses : Propose(calls)

ToolReturns == ToolFails \/ Observe

Next ==
  \/ Run \/ CancelContext
  \/ \E configured \in BOOLEAN : SetHITLHandler(configured)
  \/ Internal \/ Generated \/ ToolReturns
  \/ \E d \in HandlerAnswers : HandlerReturns(d)

Spec == Init /\ [][Next]_vars

-----------------------------------------------------------------------------
(* PROPERTIES                                                              *)

TypeOK ==
  /\ pc \in Pcs
  /\ state \in AgentStates
  /\ messages \in Seq(Message)
  /\ iterations \in 0 .. MaxIterations
  /\ auditLog \in Seq([action : Action, decision : Decisions])
  /\ pending \in Seq(Calls)
  /\ cancelled \in BOOLEAN /\ handler \in BOOLEAN
  /\ result \in Results
  /\ runs \in 0 .. MaxRuns
  /\ generated \in Nat
  /\ before \in Nat
  /\ executed \in Seq(Nat)
  /\ approvals \in Seq(Nat \X HandlerAnswers)

(* Pipeline.Evaluate allowed the action of audit entry n, or handed it to  *)
(* a person who did not deny it.                                           *)
LetThrough(n) ==
  \/ auditLog[n].decision = "allow"
  \/ /\ auditLog[n].decision = "require_approval"
     /\ \E i \in 1 .. Len(approvals) :
          approvals[i][1] = n /\ approvals[i][2] # "deny"

(* A tool executes only what was let through, and no decision is used for  *)
(* two executions.                                                         *)
Gated ==
  /\ \A k \in 1 .. Len(executed) :
       executed[k] \in 1 .. Len(auditLog) /\ LetThrough(executed[k])
  /\ \A k \in 1 .. Len(executed) - 1 : executed[k] < executed[k + 1]

(* Whenever the model is asked again, every call it made in this           *)
(* conversation has been answered, once, in order: messages alternate as   *)
(* the provider's protocol demands.                                        *)
AnsweredBeforeThinking ==
  pc = "generate" =>
    \A i \in 1 .. Len(messages) :
      messages[i].role = "assistant" =>
        LET calls == messages[i].calls
            next == i + Len(calls) + 1
        IN  /\ next <= Len(messages) + 1
            /\ \A k \in 1 .. Len(calls) :
                 /\ messages[i + k].role = "tool"
                 /\ messages[i + k].call = calls[k]
            /\ next <= Len(messages) => messages[next].role = "assistant"

(* The positions of the replies to calls that were evaluated, the audit    *)
(* entry each of them belongs to, and the calls that are evaluated but     *)
(* have no reply yet.                                                      *)
Evaluated ==
  {i \in 1 .. Len(messages) :
     messages[i].role = "tool" /\ messages[i].kind # "unparsed"}

EntryOf(i) == auditLog[before + Cardinality({j \in Evaluated : j <= i})]

Unanswered ==
  IF pc \in {"ask", "execute", "tool"} \/ result = "hitl" THEN 1 ELSE 0

(* What the model is told of its calls agrees with the audit log: one      *)
(* entry for each call that could be parsed, in order, and the reply says  *)
(* what the entry says.                                                    *)
AuditMatchesReplies ==
  /\ Len(auditLog) = before + Cardinality(Evaluated) + Unanswered
  /\ \A i \in Evaluated :
       LET entry == EntryOf(i)
           reply == messages[i]
       IN  /\ entry.action = reply.call.action
           /\ reply.kind = "denied" <=> entry.decision = "deny"
           /\ reply.kind = "escalated" <=> entry.decision = "escalate"
           /\ reply.kind = "rejected" => entry.decision = "require_approval"

(* Over all runs of one loop the model is called at most once for every    *)
(* iteration of the budget and once more for every run.                    *)
Budget == generated <= MaxIterations + runs

(* When Run is over, the state tells its outcome: a text means terminated, *)
(* a failure or an exhausted budget means error, or terminated if an       *)
(* earlier run of the same loop has ended with a text.                     *)
OutcomeShowsInState ==
  /\ result = "text" => state = "terminated"
  /\ result \in {"failed", "exhausted"} => state \in {"error", "terminated"}

(* Nothing leads out of terminated, not even another Run.                  *)
TerminatedAbsorbing == [][state = "terminated" => state' = "terminated"]_vars

=============================================================================
