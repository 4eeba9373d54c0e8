------------------------------ MODULE Feedback ------------------------------
(***************************************************************************)
(* What the agent is told of a test run: ParseTestOutput of                *)
(* internal/feedback/feedback.go over the lines of `go test -json`.        *)
(*                                                                         *)
(* The parser reads the whole output at once, line by line.  Here go test  *)
(* writes a line and the parser's loop takes it in the same step, so every *)
(* state shows what the parser makes of an output that ends there: go test *)
(* may have been killed after any line.  Lines of tests and packages come  *)
(* interleaved.  What `go test` writes, and in which order, is external.   *)
(***************************************************************************)
EXTENDS Naturals

CONSTANTS
  Packages,
  Names, \* the names of tests in them
  Loud   \* packages and names of tests that have "FAIL" in them

CONSTANT None
ASSUME NoneAssumption == None \notin Packages \cup Names
ASSUME LoudAssumption == Loud \subseteq Packages \cup Names

(* go test. *)
VARIABLES
  tests, \* how far the test of a name in a package is
  built, \* how far a package is
  noise  \* a test has written of failures

(* The parser. *)
VARIABLES
  success,     \* whether the tool reported success
  overallPass,
  failedTests, \* for every name the package it is listed with, or None
  mentions     \* stdout contains "FAIL", be it in the fields of an event

run == <<tests, built, noise>>
vars == <<run, success, overallPass, failedTests, mentions>>

(* A line: an event, or text that is not JSON; and whether its text says   *)
(* "FAIL" or even "--- FAIL:".                                             *)
Says == {"nothing", "FAIL", "--- FAIL:"}
Event(action, package, test, says) ==
  [action |-> action, package |-> package, test |-> test, says |-> says]
Text(says) == Event("text", None, None, says)

TypeOK ==
  /\ tests \in [Packages -> [Names -> {"new", "running", "failing", "failed", "passed"}]]
  /\ built \in [Packages -> {"running", "failed", "passed"}]
  /\ noise \in BOOLEAN
  /\ success \in BOOLEAN
  /\ overallPass \in BOOLEAN
  /\ failedTests \in [Names -> Packages \cup {None}]
  /\ mentions \in BOOLEAN

Init ==
  /\ tests = [p \in Packages |-> [n \in Names |-> "new"]]
  /\ built = [p \in Packages |-> "running"]
  /\ noise = FALSE
  /\ success \in BOOLEAN
  /\ overallPass = success
  /\ failedTests = [n \in Names |-> None]
  /\ mentions = FALSE

-----------------------------------------------------------------------------
(* The loop over the lines.                                                *)

(* MUTANT: the text of output events is not looked at. *)
FailsByEvent(evt) ==
  \/ evt.action = "text" /\ evt.says # "nothing"
  \/ evt.action = "fail" /\ evt.test = None

Fails(evt) ==
  \/ evt.action = "text" /\ evt.says # "nothing"
  \/ evt.action = "fail" /\ evt.test = None
  \/ evt.action = "output" /\ evt.says = "--- FAIL:"

(* The line has the word "FAIL" in it.                                     *)
Mentions(evt) == evt.says # "nothing" \/ evt.package \in Loud \/ evt.test \in Loud

(* MUTANT: a test that passes is taken off the list. *)
ScanPassing(evt) ==
  /\ overallPass' = (overallPass /\ ~Fails(evt))
  /\ failedTests' =
       IF evt.action \in {"fail", "pass"} /\ evt.test # None
       THEN [failedTests EXCEPT ![evt.test] =
               IF evt.action = "fail" THEN evt.package ELSE None]
       ELSE failedTests
  /\ mentions' = (mentions \/ Mentions(evt))
  /\ UNCHANGED success

(* Failed tests are kept by name.                                          *)
Scan(evt) ==
  /\ overallPass' = (overallPass /\ ~Fails(evt))
  /\ failedTests' =
       IF evt.action = "fail" /\ evt.test # None
       THEN [failedTests EXCEPT ![evt.test] = evt.package]
       ELSE failedTests
  /\ mentions' = (mentions \/ Mentions(evt))
  /\ UNCHANGED success

(* What the observation says after the last line.                          *)
Failures == {n \in Names : failedTests[n] # None}

IsSuccess == overallPass /\ ~(Failures = {} /\ mentions)

-----------------------------------------------------------------------------
(* go test.                                                                *)

Move(p, n, from, to) ==
  /\ built[p] = "running" /\ tests[p][n] = from
  /\ tests' = [tests EXCEPT ![p][n] = to]
  /\ UNCHANGED built

Start(p, n) ==
  /\ Move(p, n, "new", "running")
  /\ Scan(Event("run", p, n, "nothing"))
  /\ UNCHANGED noise

(* A test that runs writes what it likes, as output or past the events.    *)
Output(p, n) ==
  /\ built[p] = "running" /\ tests[p][n] = "running"
  /\ \E says \in Says \ {"nothing"} :
       Scan(Event("output", p, n, says)) \/ Scan(Text(says))
  /\ noise' = TRUE
  /\ UNCHANGED <<tests, built>>

Pass(p, n) ==
  /\ Move(p, n, "running", "passed")
  /\ Scan(Event("pass", p, n, "nothing"))
  /\ UNCHANGED noise

(* A test that fails is reported as output first and as an event later.    *)
ReportFailure(p, n) ==
  /\ Move(p, n, "running", "failing")
  /\ Scan(Event("output", p, n, "--- FAIL:"))
  /\ UNCHANGED noise

Fail(p, n) ==
  /\ Move(p, n, "failing", "failed")
  /\ Scan(Event("fail", p, n, "nothing"))
  /\ UNCHANGED noise

Finished(p) == \A n \in Names : tests[p][n] \in {"new", "failed", "passed"}

PassPackage(p) ==
  /\ built[p] = "running" /\ Finished(p)
  /\ \A n \in Names : tests[p][n] # "failed"
  /\ built' = [built EXCEPT ![p] = "passed"]
  /\ Scan(Event("pass", p, None, "nothing"))
  /\ UNCHANGED <<tests, noise>>

(* With a failed test, or without: a package that exits or does not build. *)
FailPackage(p) ==
  /\ built[p] = "running" /\ Finished(p)
  /\ built' = [built EXCEPT ![p] = "failed"]
  /\ Scan(Event("fail", p, None, "nothing")) \/ Scan(Text("FAIL"))
  /\ UNCHANGED <<tests, noise>>

Next ==
  \E p \in Packages :
    \/ PassPackage(p) \/ FailPackage(p)
    \/ \E n \in Names :
         \/ Start(p, n) \/ Output(p, n) \/ Pass(p, n)
         \/ ReportFailure(p, n) \/ Fail(p, n)

Spec == Init /\ [][Next]_vars

-----------------------------------------------------------------------------
(* PROPERTIES                                                              *)

SomeFailed ==
  \/ \E p \in Packages : built[p] = "failed"
  \/ \E p \in Packages, n \in Names : tests[p][n] \in {"failing", "failed"}

(* An event so far was of a package or a test with "FAIL" in its name.     *)
NamesMention ==
  \E p \in Packages :
    \/ p \in Loud /\ built[p] # "running"
    \/ \E n \in Names : tests[p][n] # "new" /\ (p \in Loud \/ n \in Loud)

(* Wherever the output ends, and even if the exit status was lost, the     *)
(* agent is told of success only if nothing failed; and it is told of      *)
(* failure only if something failed or wrote of failures, or has the word  *)
(* in its name: the last test of feedback.go:193 looks for it in all of    *)
(* the output, the names in the events of passing tests included.          *)
VerdictRight ==
  /\ IsSuccess => success /\ ~SomeFailed
  /\ success /\ ~SomeFailed /\ ~noise /\ ~NamesMention => IsSuccess

(* The list of failures names exactly the names of failed tests, each once *)
(* and with a package in which it failed: a name that failed in one        *)
(* package and passed in another is listed, one that failed in two is      *)
(* listed once.                                                            *)
FailuresNamed ==
  \A n \in Names :
    IF failedTests[n] = None
    THEN \A p \in Packages : tests[p][n] # "failed"
    ELSE tests[failedTests[n]][n] = "failed"
=============================================================================
