# A TLA+ model of CageHarness

CageHarness runs LLM agents behind a governance layer: a task is handed to an
agent loop, the loop asks a model what to do, and every tool call the model
proposes passes a five-stage governance pipeline before it is executed. Tasks
are submitted and watched over HTTP (web UI) or from a command line.

This directory holds TLA+ modules translated from the Go source, TLC
configurations that check them on small instances, and TLAPS proofs. All line
numbers refer to the files under `src/`; `PROJECT.json` maps every definition to
the lines it models.

## The system: inventory

| Component | State | Operations | Talks to |
|---|---|---|---|
| Task manager, `internal/runtime/task.go` | `tasks`, `cancels` (maps under one RWMutex), atomic `counter`, WaitGroup; one context per task | Submit*, Cancel, Get, List, ListByOwner, Wait; one goroutine per task (`run`, `runWithResult`) | started by web and CLI; runs the agent loop |
| Agent loop, `internal/runtime/loop.go` | `state`, `messages`, `iterations`, `stateTransitions`, no mutex | Run, RunWithResult, executeToolCall, transition, SetHITLHandler | model provider, governance pipeline, tool registry, feedback processor, memory |
| Agent states, `internal/agent` | none | transition table of seven states | used by the loop |
| Actions and results, `internal/protocol` | status of an Action | NewAction, SetStatus, WithResult | loop, governance, tools |
| Governance, `internal/governance` | audit log, rule set | Evaluate (schema, classify, policy, boundary, control), ApproveHITL, RejectHITL, SetRules | called by the loop |
| Feedback, `internal/feedback` | none | parse shell and `go test -json` output into observations | called by the loop |
| Web server, `internal/web` | none of its own (a task carries its owner) | list, submit, get, cancel tasks; visitor = `X-Visitor-ID` header | task manager, ONE shared agent loop |
| Web page, `internal/web/static/index.html` | selected task, refresh timer | poll, render, submit, cancel | web server over HTTP |
| CLI, `internal/cli`, `cmd/harness` | a task manager per process | run, submit, status, key commands | task manager, credential stores, provider |
| Credentials, `internal/credential` | keychain, environment store, `.env` | Set, Get, Delete, Exists, MaskKey | `cmd/harness` |
| Memory, `internal/memory` | entries in memory and one JSON file | Save, Load, Get, Delete, Retrieve | loop's system prompt |
| Tools, `internal/tools` | registry | shell (30 s timeout), file read/write/list, registry | loop |
| Providers, `internal/llm` | call counter of the mock | Generate, finish-reason mapping | loop |
| `internal/config` | none | none (package comment only) | |

### What is hard here

* Task goroutines, HTTP handlers and `Cancel` interleave: the final status is
  decided in one step and written in another.
* The loop has an explicit state machine whose transition table does not cover
  every path of the code, keeps `state` and `iterations` from one `Run` to the
  next, and stops in several ways (cancellation, human rejection) that never
  reach a terminal state.
* Governance has to be a gate: nothing may run that was not evaluated, and
  an approval must be for exactly the action that runs.
* One agent loop without a mutex serves all tasks of the web server.
* The page polls while answers are late, lost or out of order, and it stays open
  when the server restarts and forgets its tasks.
* Files are rewritten in place and without a lock; Save and Delete change the
  memory first and the file second.
* The key of the provider is looked for in several stores through calls of an
  external program, any of which may fail, while other processes change them.
* The verdict over a test run is put together from interleaved lines that may
  end anywhere.

`PROJECT.json` lists each hazard at its line with the properties aimed at it.

### What makes each component correct

* Task manager: unique identifiers; statuses only move forward and are final;
  cancelled only on request, and always when the function could see the
  request; no lost task, no lost waiter.
* Governance: an action is allowed only if every stage let it pass; denial
  stops at the first failing stage; the risk reported is the highest of the
  stages that ran; every decision is audited; an approval is bound to one
  action and expires.
* Agent loop: nothing executes without a decision that lets it; each tool call
  is answered before the model is asked again; budget respected; runs end.
* Shared loop: a task sees its own conversation, log and result (it does not,
  see Findings); whatever tasks do to each other, none is told that the budget is
  used up before it is, it is used up in the end, and every run ends.
* Web: a visitor sees and cancels only own tasks; a final status shown is final;
  nothing is shown as running for ever.
* Memory and credentials: what was reported saved can be read back, also after
  a restart; what was deleted does not come back; a key that was stored is used
  (where the system's keychain allows it), and never that of another name.
* Feedback: success is reported only if nothing failed, failure only if something
  failed or "FAIL" was printed, and every failed test is named.

## Modules

| Module | Models | Role |
|---|---|---|
| `TaskLifecycle` | what clients of a task manager may observe | abstract specification |
| `TaskManager` | `internal/runtime/task.go` | detailed specification, properties |
| `MCTaskManager` | two clients as model values | instances for TLC |
| `TaskManager_proofs` | | TLAPS proofs about `TaskManager` |
| `AgentState` | `internal/agent/state.go` | transition table, operators only |
| `AgentLoop` | `internal/runtime/loop.go` | specification, properties; uses `Governance` and `AgentState` |
| `MCAgentLoop` | five tool calls | instances for TLC |
| `AgentLoop_proofs` | | TLAPS proofs about `AgentLoop` |
| `Governance` | the five stages, the decision, the audited risk | operators only |
| `GovernanceSpace` | a walk through the inputs of the decision | checks and proofs range over it |
| `GovernancePipeline` | `internal/governance/pipeline.go` over time | specification, properties; uses `Governance` |
| `Governance_proofs` | | TLAPS proofs about the decision, `GovernanceSpace` and `GovernancePipeline` |
| `MCGovernancePipeline` | five requests, three rule sets | instances for TLC |
| `SharedLoop` | `runtime/loop.go` under the web server: several runs at once on one loop | specification, properties |
| `MCSharedLoop` | two tasks, three calls | instances for TLC |
| `SharedLoop_proofs` | | TLAPS proofs about `SharedLoop` |
| `Web` | `internal/web/web.go`, its page, the network, restarts | specification, properties; composes the page and the server with `TaskLifecycle` |
| `MCWeb` | a visitor with the page, one with a script | instance for TLC |
| `Web_proofs` | | TLAPS proofs about `Web` |
| `Harness` | `cmd/harness/main.go`, `internal/cli`, `internal/credential` | specification, properties |
| `MCHarness` | two terminals, two names of credentials | instance for TLC |
| `Harness_proofs` | | TLAPS proofs about `Harness` |
| `MemoryStore` | `internal/memory/store.go` | specification, properties |
| `MCMemoryStore` | symmetry of stores and entries | instance for TLC |
| `MemoryStore_proofs` | | TLAPS proofs about `MemoryStore` |
| `Feedback` | `ParseTestOutput` of `internal/feedback/feedback.go` and the lines it reads | specification, properties |
| `MCFeedback` | symmetry of packages and names | instance for TLC |
| `Feedback_proofs` | | TLAPS proofs about `Feedback` |

Definitions marked MUTANT are wrong variants of the definition next to them.
They are not part of the specification: replacing the definition by the mutant
must make a property fail, which shows that the property says something about
the code.

### TaskManager

Every atomic step of `task.go` is an action: the atomic add of `nextID`
(`NextID`), the critical section that fills both maps (`Register`), `wg.Add`
(`AddToGroup`), the `go` statement (`Spawn`); `Cancel` is one critical section;
`Wait` is the algorithm of `sync.WaitGroup` (`WaitCall`, `WaitLoad`,
`WaitWake`). A task goroutine goes through `Start` (status running),
`FnReturn` (any outcome, at any time), `Decide` (the look at `ctx.Err()`),
`Update` (status written under the lock), `CleanUp` (cancel function deleted)
and `Done`. `kind` says whether the goroutine executes `run` ("plain", CLI) or
`runWithResult` ("rich", web), which differ only in `FinalStatus`. `waitFor`
and `sawCancel` are history variables, read by properties only.

### Governance, GovernanceSpace, GovernancePipeline

The stages look at an action through substring tests, a path comparison and a
number comparison. `Governance` abstracts an action to the outcomes of these
tests: the *marks* of a command or a path are the kinds of substring found in
it. `Stages` gives the five answers, `Ran` the stages the early returns of
`Evaluate` reach, `Decision` and `AuditRisk` what follows. `Restricted` says
whether the workspace root limits paths; it does not with the default `"."`.

`GovernanceSpace` starts at an action without marks and adds marks and rules;
it has no counterpart in the code and lets TLC enumerate the inputs and TLAPS
state facts about single steps between inputs.

`GovernancePipeline` is the object `Pipeline`: rules, audit log, the approvals
(`GovernanceAuth`) handed out, and a clock in ticks. A request carries the text
that `ComputeActionHash` prints its payload to, because two payloads may print
alike; the 64-bit hash of that text is taken to have no collisions.

### AgentLoop

`pc` is the place of the goroutine in `Run` or `executeToolCall`: `head` (the
loop condition and the look at the context), `generate` (in the provider),
`call` (before the next tool call), `ask` (in the HITL handler), `execute`
(before the tool), `tool` (in the tool). Everything between two of these places
is one action, because nothing but the context can change in between. The
environment chooses the provider's answer, the handler's answer, what becomes
of the tool, and when the context is cancelled. Time is left out: the loop never
looks at the expiry of an approval.
`messages` keeps roles, the calls and the kind of each reply, no text; the
state transitions recorded for display are left out, since they are the
sequence of `Transition` calls. An action has the position of its audit entry
as its identity; in the code it is a timestamp, which may collide (a hazard
listed in `PROJECT.json`). Cancellation reaches the loop only at `head`.
`runs`, `generated`, `before`, `executed` and `approvals` are history variables.

### SharedLoop

`web.go:187` lets every task call `RunWithResult` on the server's one loop, and
nothing locks its fields. Each task has a `pc` of its own. A statement that reads
and writes a shared field is two steps: an append to `messages` or to the audit
log (`Respond` or `Reply` reads the slice, `AppendMessage` writes it; `Evaluate`
reads the log, `RecordAudit` writes it) and `iterations++` (`ReadIterations`,
`WriteIterations`). Two appends that overlap may overwrite each other's elements,
so the result is any subset of what both saw (`Appended`). Slices are abstracted
to the tasks whose messages or entries they hold, which is what the properties
tell apart. The decision of `Evaluate` is a value of the goroutine, as in the
code. `basis` and `rounds` are history: whose messages the model was shown for a
task, and how many rounds of tool calls have been completed on the loop.

### Web

The server's task manager is `TaskLifecycle` (INSTANCE), the specification that
`TaskManager` implements. A request of a page is a record in `flight`, with a
stage: sent, found (a cancel between its two critical sections), answered. The
network may deliver in any order and lose requests and answers (`Lose`). The
page keeps the rows displayed, the timer, the selected task and what the detail
panel shows; `Render` is `renderTasks` with its early return for an empty list,
which leaves the timer and the panel as they are. A visitor with a script only
makes the server act. `Restart` forgets all tasks and requests in the server,
while pages and requests on the network live on; identifiers start again.
`of` and `at` in rows identify a task across restarts and are not in the answers.

### Harness

One process per terminal. `Start` picks a command; `resolveLLMProvider` is
`FindInKeychain` or `FindInEnvironment`, then `ReadKeychain`: `Exists` and `Get`
are two calls of an external program, each may fail (`ok`), and an error reads as
"not found". Items of the keychain are told apart by what the platform's program
is given: on macOS every name has the same account and service (`SetDarwin`).
Windows gives back a marker instead of the secret. A variable of the environment
may be unset (`None`) or set to nothing (`Empty`); only an unset one lets `.env`
through (`LoadDotEnv`). `key setup` and `key clear`
look, ask and act in steps of their own. `run` waits for the result its task
sends; `submit` leaves (`PrintId`) and takes its task with it. `Interrupt` is
Ctrl+C. `stored`, `promised`, `troubled` and `misled` are history.

### MemoryStore

Stores are opened again and again on one file. A change is made in memory (`Save`,
`Delete`) and then written by `os.WriteFile`: it truncates (`Truncate`), then writes
from the beginning (`Write`). If another store has written in between, the rest of
its text may stay behind and break the file (`WriteMixed`); the file may not open
(`OpenFails`), the write may fail (`WriteFails`), the process may end anywhere
(`Crash`). Nothing keeps two entries from having one identifier, and only
identifiers are looked at, so a slice of entries is the number of entries of each
identifier; `Delete` takes one of them. History: `safe` and `left` bound these
numbers for the file, from below by what was reported as saved, from above by what
was saved and not reported as deleted; `stale` stores were left behind by another's
write, `dirty` ones by a failed write of their own.

### Feedback

`go test` writes a line and the parser's loop takes it in one step (`Scan`), so each
state is an output that ends there. The producers (`Start`, `Output`, `Pass`,
`ReportFailure`, `Fail`, `PassPackage`, `FailPackage`) are external: lines of tests
and packages interleave, a failure is announced as output before its event, a
package may fail without a failed test, and a running test may write anything.
A line mentions a failure by what it says or by the names in it: the parser looks
for "FAIL" in the whole text, fields of JSON included (`Mentions`), and `Loud` is
the set of packages and tests that have the word in their name. The exit status (`success`) is free, because it may have been lost.

## What the runs check

| Run | Instance | Shows |
|---|---|---|
| `task_safety` | 2 clients, 2 tasks, Wait overlapping Submit | identifiers, both maps, contexts, statuses and the WaitGroup agree in every interleaving; statuses are final; Wait returns after what it waits for |
| `task_live` | the same with Wait kept apart from Submit | no panic, every task ends, every Wait returns, `TaskLifecycle` is implemented |
| `task_cancel` | as `task_safety` | finding: an accepted Cancel can be lost |
| `gov_space` | all actions and rule sets with up to 3 marks and rules | the stages decide as a description without stages; no mark hides another |
| `gov_pipeline` | 5 requests, 3 rule sets, log of 3, 2 ticks | approvals follow a request for the same hash in time; the risk of what was not denied is reported |
| `loop_safety` | 5 kinds of call, 2 per response, 2 iterations, 2 runs, without a handler and with one that allows, denies or answers something else | execution is gated; the conversation is well-formed and agrees with the audit log; the budget holds over all runs; the outcome shows in the state |
| `shared_loop` | 2 tasks, one allowed, one denied and one escalated call, budget of 2 rounds | with lost updates, nobody is told that the budget is used up before it is, the counter has a floor, and every run ends |
| `shared_own` | the same | finding: tasks see each other's conversation and log |
| `web` | a page and a script, 2 tasks, 2 requests of the page on their way, 1 restart | ownership, final statuses, no row that runs for ever |
| `harness` | 2 terminals, 4 kinds of keychain, 2 names, 2 secrets of the provider and one of the other name, the variable set, set to nothing or unset, with and without `.env` | a stored key is used on Linux, a key is never that of another name, no silent mock, `run` returns |
| `memory` | 3 stores, 2 identifiers, 3 calls of Save | the file has what was reported saved and no more than was saved and not deleted; memory is the file |
| `feedback` | 2 packages, 3 tests of the same names, one package and one test with "FAIL" in the name | the verdict and the list of failures |

Bounds. Two tasks and two clients give every pair of concurrent operations on
one task and on two. A rule or a mark acts on its own or in pairs (GIT-001 and
GIT-003), so three marks and rules contain every interaction of two causes of a
decision; the theorems lift the bound. In the pipeline, three log entries hold a
request, another and an approval, and two ticks pass the timeout of one. In the
loop, two calls per response give every succession of two outcomes within a
round, two iterations every succession of rounds, two runs what survives from
one run to the next. On the shared loop two tasks and a budget of two let one
task set the counter back by a whole round of the other. On the web, two requests
on their way overtake each other (a list and a list, a cancel and a list), two
tasks are a running and a final row, or one before and one after the restart.
Two terminals give every interleaving of a look and a change; the second name is
there for the collision on macOS. Of three stores, two may write at once while a
third is left behind; three Saves with two identifiers are two entries with one
identifier and one with another. Two packages and equal names are what the map by
name confuses. `MaxRuns`, `MaxCalls`, `MaxLog`, `MaxTime`, `MaxTasks`, `MaxFlight`,
`MaxSaves` and `MaxRestarts` bound what the code or the environment leaves unbounded; runs may
stop at them, or when everything is done, so deadlock is not checked there. It is checked in
`task_live`, `task_cancel`, `gov_pipeline` and `harness`. `MaxIterations` is the code's own bound.

Fairness. Task goroutines, Submit and Wait are weakly fair: the Go scheduler
runs every runnable goroutine. That a task function returns is an assumption of
`task_live` and `harness`, which `RunsEnd` of `shared_loop` supports: the provider
has a 60 s HTTP timeout and the shell a 30 s timeout, so a task in the provider or
in a tool goes on. In `web` the server handles requests (weakly fair), the network
does not lose every list (strong fairness of receiving one) and the timer ticks;
its strong fairness is due to the bound `MaxFlight`, which can hold it up. Nothing
is assumed of clicks, submissions, cancels or restarts. In `harness` nothing is
assumed of a person at a prompt.

## Findings

Each is a statement of the repository that the code does not keep; the run of
that name finds the counterexample, and `PROJECT.json` quotes the statement.

* `task_cancel`: a Cancel accepted after the task function returned does not
  make the task cancelled.
* `shared_own`: the answer of a visitor's task may be built from another
  visitor's conversation, and its audit trail shows everybody's decisions.

Noted while modelling, without a run of their own:

* With `WaitAlone = FALSE` and `NoWaitPanic` as invariant, TLC shows that a
  Submit that overlaps Wait can reuse the WaitGroup before a waiter has left,
  which panics. Only tests call Wait, after every Submit has returned, and
  `task_live` checks that use.
* A cancelled run, and one that stops at an approval without handler, return
  without a transition, so the last state is neither `terminated` nor `error`,
  which SPEC.md:697 calls the final states.
* The answer of the handler is passed to neither `ApproveHITL` nor `RejectHITL`,
  so the audit log lacks the human decision that SPEC.md:76 asks for.
* `ComputeActionHash` (types.go:154) joins "key=value;" texts, so
  `{"path": "x;timeout=90"}` and `{"path": "x", "timeout": 90}` of one identifier
  and type share an approval, though types.go:36 says that the approval is bound
  to the exact action. `ApprovalJustified` is about the hash.
* After a denied call, or for the second call of a response, the transition table
  has no entry and the state stays behind: the model generates in state
  `awaiting_approval`, a tool runs in `observing` (loop.go:136, state.go:14).
* `iterations` is never reset, so all runs of a loop share one budget (loop.go:127)
  and a fresh task on the server fails once others have used it up. `Budget` and
  `BudgetFloor` say what holds instead.
* The loop executes on an approval that has expired (loop.go:240), where SPEC.md:75
  has it rejected.
* The page: a stale list that arrives late clears the timer, and a task submitted
  since is not shown until the next click (`RunningShownEnds` is about rows shown).
  A late answer reopens or overwrites the detail panel; a 404 is shown there as a
  task "undefined". After a restart identifiers are given anew, so an old Cancel
  button may cancel the visitor's own new task; `OnlyOwnerCancels` says it is never
  another's. The page polls a hard-coded address of one deployment.
* On Windows the marker "[keychain: cannot retrieve plaintext ...]" becomes the API
  key of the provider (keychain.go:17, main.go:392), so the environment is not
  asked. `StoredKeyIsUsed` is about Linux only.
* Without a keychain, `key setup` reports "stored successfully in environment
  variables" (main.go:299) and the key ends with the process.
* The task of `submit` dies with its process, and status, list and cancel, which are
  processes of their own, never find a task.
* On macOS storing a second name replaces the secret of the first
  (keychain.go:209): after `key setup` of another name the stored key of the
  provider is gone and the environment is asked, where src/README.md:113 gives the
  keychain priority. Without the premise `backend = "linux"` TLC finds
  `StoredKeyIsUsed` violated so. `KeyIsOwn` says what holds there: one name's secret
  is never taken for the other's.
* A failing call of the keychain reads as "not set": setup then overwrites unasked;
  so do two setups at once (main.go:269).
* A variable OPENAI_API_KEY that is set to nothing hides the key of `.env`
  (store.go:139, store.go:218): the harness falls back to the mock provider though
  `.env` has a key (main.go:402). `NoSilentMock` speaks of `.env` only if the
  variable is not set.
* A crash in `os.WriteFile` loses every memory (against SPEC.md:112), and two stores
  writing at once can break the file though both report success. Two stores that
  write in turn undo each other's Save or Delete, because each writes all it knows.
  `SavedSurvives` and `DeletedStaysDeleted` give up what such writes take out or
  bring back, and nothing else.
* Entries saved under one identifier, which a timestamp in nanoseconds may be
  (entry.go:69), stay side by side, and `Delete` removes the first only and returns
  nil (store.go:65), although the comment says that it removes the entry with that
  identifier. `DeletedStaysDeleted` counts: one Delete, one entry.
* A Save that returned an error stays in memory and is written by the next success;
  a Delete that returned an error returns nil when it is called again, because the
  entry is no longer in memory, and the file still has it (store.go:65).
* No program calls `SetMemory`; the `harness memory` commands of SPEC.md do not exist.
* "FAIL" anywhere in the output makes the verdict a failure, though nothing failed:
  printed by a passing test, or in the name of a test or package, whose JSON events
  are searched by what the comment calls a fallback for output that is not JSON
  (feedback.go:191). `VerdictRight` excepts both. No program registers a `run_tests`
  tool.

## Proofs

Every invariant and action property that a run checks is also a theorem, for every value of the
constants. The proofs use the assumptions on the constants that the modules name
(`RestrictedAssumption`, `PagesAssumption` and so on), which TLC evaluates for
every instance, and nothing else; the one theorem with a hypothesis of its own is
`NoWaitPanicCorrect`, which assumes `WaitAlone`.

`TaskManager_proofs` proves every safety property of `TaskManager` for any set
of clients and any number of tasks, and that each of its steps is a step of
`TaskLifecycle` or a stutter. The inductive invariant is `Coherent` with the
types: it relates the phase of each goroutine and the place of each client in
Submit to the maps and contexts, which `CancelFnPresent` needs because a Cancel
reads both maps. `GroupCount` needs the cardinality of the set of active tasks
to change by one; `WaitSound` rests on it: a waiter leaves at counter zero, when
no task is active. `NoWaitPanic` holds if no Submit overlaps a Wait, the rule of
`sync.WaitGroup` that every caller in the repository keeps. It needs
`WaitAlways`: while a client is woken but has not left Wait, the counter is zero
and nobody is inside Submit, so nothing can raise it.

`Governance_proofs` proves that `Decision` is `ExpectedDecision` for every action
and every rule set: the answers of the five stages are listed, what `Ran`
contains follows, and the decision splits into passed and failed stages. The
description without stages is visibly monotone in marks and rules
(`MoreIsStricter`), and `AuditRisk` is the risk of the classifier unless the
schema stage stopped the action. `DecisionCorrect` and `NothingHidesCorrect`
follow for the walk of `GovernanceSpace`, and every property of the pipeline for
any requests, rule sets, timeout and length of the log. `ApprovalJustified` is not inductive:
`AuthsIssued` traces each authorisation to the entry of the Evaluate that handed
it out.

`AgentLoop_proofs` proves, for any tool calls, rules, handler answers and
bounds, every safety property of the loop. `TypeInv` strengthens the types by two
facts about the place in the code (`CallOpen`, `InRound`). `Gated` needs
`AtGate`: before an execution the last audit entry is about the action to be
executed, lets it pass and has not been used. `Budget` counts at the head of the
loop (`BudgetInv`). `OutcomeShowsInState` and `TerminatedAbsorbing` follow from
`StateMoves`, that a step tries at most one transition, and the table.
`AnsweredBeforeThinking` speaks of the moments when the model is asked;
`ConversationInv` says what holds in between: every proposal is followed by the
replies to a prefix of its calls, the rest of them is `pending`, and only the last
proposal has a rest. `AuditMatchesReplies` numbers the replies by counting
(`Evaluated`, `EntryOf`). It is inductive with `OpenEntry`, that the last entry of
the log belongs to the call that is open and did not stop it; the lemmas
`AuditReply` and `AuditFrame` say once what a new reply, and anything else, does
to the count. `ExecutesSafely` puts governance and the loop together: with the
decision procedure expanded (`DecisionStops`), `Gated` says that whatever the model
proposes, no tool executes an action that any stage objects to, and none runs a
command or deletes a file without the consent of a person. It is a theorem only; no
run checks it.

`SharedLoop_proofs` proves the types, `ExhaustionIsEarned` and `BudgetFloor` for any
tasks, calls, verdicts and bounds. `ExhaustionIsEarned` is inductive with `EarnedInv`:
neither the counter nor a value that a goroutine has read to increment it is above the
number of rounds completed. `BudgetFloor` follows for each action from the values it
writes, all of which are one more than a value read.

`MemoryStore_proofs` proves the three properties for any number of stores,
identifiers and calls of Save. The inductive invariant adds that the file has what
was reported saved unless it is being written (`SavedInFile`), that a store which is
not writing has nothing to report (`Pending`), that who truncates leaves all others
behind (`LeftBehind`), and that what a store not left behind has in memory, with what
it is about to report, lies between `safe` and `left` (`Informed`). `EndOfWrite` and
`BreakFacts` say once what all ends of a write have in common.

`Feedback_proofs` proves both properties for any packages and tests. `ResultRight`
strengthens the verdict: the overall result is lost with the first line that tells of
a failure, and the word FAIL needs a failure, noise or a name that has it.

`Web_proofs` proves the three invariants for any visitors, tasks, requests on
their way and restarts. `FoundServed` is what the two steps of a cancel rest on: a
request that has been found is still of the owner, because a task keeps its owner
and a restart ends the handler. `RowsSound` extends the two invariants of the
display to the answers on their way: each carries rows of its own visitor, and a
final status in them stays true because `TaskLifecycle` leaves no final status
(`ServerKeeps`). `FlightInvariant` and `PageInvariant` say once, for all actions,
where messages, rows and panels come from. `ServerFollowsLifecycle` is the step
part of the composition with `TaskLifecycle`: together with `RefinesLifecycle`, the
server's steps are those the task manager makes. `IdentifiersFresh` shows that the
identifier after the number of tasks is always free (`IdsInOrder`).

`Harness_proofs` proves the three invariants for any terminals, names, secrets, contents
of the environment and kinds of keychain. `StepForms` sorts the steps by what they
do to a process and shows that no other process is touched. `StoredKeyIsUsed` needs
`StoredInv`, that on Linux what setup reported is the one item of that name in the
keychain, and `LookingInv`, that a process
which looks undisturbed was promised what is stored now. `NoSilentMock` and
`KeyIsOwn` need `SecretInv`: what is in the keychain under a name was entered by a
person for that name, so a key from it is never empty and never another's.

Only model-checked, because the prover treats neither fairness nor ENABLED:
`EveryTaskEnds`, `WaitReturns` and the fairness of `ImplementsLifecycle` (its steps
are `RefinesLifecycle`), `RunsEnd`, `RunningShownEnds` and `RunReturns`. The two
findings are counterexamples and need no proof.

## Plan

1. Done: task manager, governance decision and pipeline, the agent loop for one
   caller and for several, the web server with its page, the command line with the
   credential stores, the memory file, the parser of test runs; a proof of every
   invariant checked.
2. Proofs still worth having: what the liveness properties rest on, as far as it is
   safety (a measure that every step of a task goroutine, or of a run on the shared
   loop, lowers).
3. Models still worth having: identifiers from timestamps (action.go:110) in
   `GovernancePipeline`; the path resolution of the file tool and the ranking of the
   memory retriever as operators against a reference definition.

## Not modelled

HTTP and JSON encoding, prompt texts and formatting, layout of the page, terminal
input, masking and redaction, path resolution of the file tool, processes started by
the shell tool, the ranking of memories (the retriever only reads; it never asks
`IsExpired` and sets `AccessedAt` on copies only), MockStore, and `internal/config`,
which is empty. Components of which nothing is modelled are listed as
`not_modelled` in `PROJECT.json`.
