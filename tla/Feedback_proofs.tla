-------------------------- MODULE Feedback_proofs --------------------------
(* Proofs about Feedback, for any packages and names of tests. *)
EXTENDS Feedback, TLAPS

-----------------------------------------------------------------------------
(* The overall result is lost with the first line that tells of a failure, *)
(* and the word FAIL needs a failure, noise or a name with it.             *)
ResultRight ==
  /\ overallPass => success /\ ~SomeFailed
  /\ success /\ ~SomeFailed /\ ~noise => overallPass
  /\ success /\ ~SomeFailed /\ ~noise /\ ~NamesMention => ~mentions

Inv == TypeOK /\ ResultRight /\ FailuresNamed

(* The invariant holds initially. *)
LEMMA InitInv == Init => Inv
<1> SUFFICES ASSUME Init PROVE Inv
  OBVIOUS
<1>1. TypeOK
  BY DEF Init, TypeOK
<1>2. ~SomeFailed
  BY DEF Init, SomeFailed
<1>3. ResultRight
  BY <1>2, Zenon DEF Init, ResultRight
<1>4. FailuresNamed
  BY DEF Init, FailuresNamed
<1> QED
  BY <1>1, <1>3, <1>4 DEF Inv

(* Without failures in the list, the verdict is what ResultRight says. *)
LEMMA VerdictFollows == Inv => VerdictRight
<1> SUFFICES ASSUME Inv PROVE VerdictRight
  OBVIOUS
<1>1. IsSuccess => success /\ ~SomeFailed
  BY DEF Inv, ResultRight, IsSuccess
<1>2. success /\ ~SomeFailed /\ ~noise /\ ~NamesMention => IsSuccess
  BY DEF Inv, ResultRight, IsSuccess
<1> QED
  BY <1>1, <1>2 DEF VerdictRight

-----------------------------------------------------------------------------
(* A line keeps the parser's types. *)
LEMMA ScanType ==
  ASSUME TypeOK, NEW evt, Scan(evt), evt.package \in Packages \cup {None}
  PROVE  /\ success' \in BOOLEAN /\ overallPass' \in BOOLEAN
         /\ failedTests' \in [Names -> Packages \cup {None}]
         /\ mentions' \in BOOLEAN
<1>1. success' \in BOOLEAN /\ overallPass' \in BOOLEAN /\ mentions' \in BOOLEAN
  BY Zenon DEF Scan, TypeOK
<1>2. failedTests' \in [Names -> Packages \cup {None}]
  BY DEF Scan, TypeOK
<1> QED
  BY <1>1, <1>2

(* A line that tells of no failure leaves the result as it is, and has the *)
(* word FAIL only in names that NamesMention counts from then on.          *)
LEMMA QuietLine ==
  ASSUME Inv, NEW evt, Scan(evt), ~Fails(evt), evt.says = "nothing",
         UNCHANGED noise, SomeFailed' <=> SomeFailed,
         NamesMention => NamesMention',
         evt.package \in Loud \/ evt.test \in Loud => NamesMention'
  PROVE  ResultRight'
<1>1. /\ success' = success /\ overallPass' = overallPass
      /\ ~mentions => mentions' = (evt.package \in Loud \/ evt.test \in Loud)
  BY Zenon DEF Scan, Mentions, Inv, TypeOK
<1> QED
  BY <1>1 DEF Inv, ResultRight

(* Every step of a test. *)
LEMMA TestStep ==
  ASSUME Inv, NEW p \in Packages, NEW n \in Names,
         \/ Start(p, n) \/ Output(p, n) \/ Pass(p, n)
         \/ ReportFailure(p, n) \/ Fail(p, n)
  PROVE  Inv'
<1> USE DEF Inv, Event, Text
<1>1. CASE Start(p, n)
  <2>1. TypeOK'
    BY <1>1, ScanType DEF Start, Move, TypeOK
  <2>2. ResultRight'
    <3>1. /\ tests' = [tests EXCEPT ![p][n] = "running"]
          /\ tests[p][n] = "new" /\ UNCHANGED <<built, noise>>
      BY <1>1 DEF Start, Move
    <3>2. SomeFailed' <=> SomeFailed
      BY <3>1 DEF TypeOK, SomeFailed
    <3>3. NamesMention => NamesMention'
      BY <3>1 DEF TypeOK, NamesMention
    <3>4. p \in Loud \/ n \in Loud => NamesMention'
      BY <3>1 DEF TypeOK, NamesMention
    <3> DEFINE evt == Event("run", p, n, "nothing")
    <3>5. Scan(evt) /\ ~Fails(evt) /\ evt.says = "nothing"
          /\ evt.package = p /\ evt.test = n
      BY <1>1 DEF Start, Fails
    <3> HIDE DEF evt
    <3> QED
      BY <3>1, <3>2, <3>3, <3>4, <3>5, QuietLine
  <2>3. FailuresNamed'
    BY <1>1 DEF Start, Move, Scan, TypeOK, FailuresNamed
  <2> QED
    BY <2>1, <2>2, <2>3
<1>2. CASE Output(p, n)
  <2>1. PICK evt : /\ evt.package \in Packages \cup {None}
                   /\ evt.action \in {"output", "text"}
                   /\ Scan(evt)
    BY <1>2 DEF Output
  <2>2. UNCHANGED <<tests, built>> /\ noise' = TRUE
    BY <1>2 DEF Output
  <2>3. TypeOK'
    BY <2>1, <2>2, ScanType DEF TypeOK
  <2>4. ResultRight'
    BY <2>1, <2>2 DEF Scan, ResultRight, SomeFailed
  <2>5. FailuresNamed'
    BY <2>1, <2>2 DEF Scan, FailuresNamed
  <2> QED
    BY <2>3, <2>4, <2>5
<1>3. CASE Pass(p, n)
  <2>1. TypeOK'
    BY <1>3, ScanType DEF Pass, Move, TypeOK
  <2>2. ResultRight'
    <3>1. /\ tests' = [tests EXCEPT ![p][n] = "passed"]
          /\ tests[p][n] = "running" /\ UNCHANGED <<built, noise>>
      BY <1>3 DEF Pass, Move
    <3>2. SomeFailed' <=> SomeFailed
      BY <3>1 DEF TypeOK, SomeFailed
    <3>3. NamesMention => NamesMention'
      BY <3>1 DEF TypeOK, NamesMention
    <3>4. p \in Loud \/ n \in Loud => NamesMention'
      BY <3>1 DEF TypeOK, NamesMention
    <3> DEFINE evt == Event("pass", p, n, "nothing")
    <3>5. Scan(evt) /\ ~Fails(evt) /\ evt.says = "nothing"
          /\ evt.package = p /\ evt.test = n
      BY <1>3 DEF Pass, Fails
    <3> HIDE DEF evt
    <3> QED
      BY <3>1, <3>2, <3>3, <3>4, <3>5, QuietLine
  <2>3. FailuresNamed'
    BY <1>3 DEF Pass, Move, Scan, TypeOK, FailuresNamed
  <2> QED
    BY <2>1, <2>2, <2>3
<1>4. CASE ReportFailure(p, n)
  <2>1. TypeOK'
    BY <1>4, ScanType DEF ReportFailure, Move, TypeOK
  <2>2. tests'[p][n] = "failing"
    BY <1>4 DEF ReportFailure, Move, TypeOK
  <2>3. ~overallPass'
    BY <1>4 DEF ReportFailure, Scan, Fails
  <2>4. ResultRight'
    BY <2>2, <2>3 DEF ResultRight, SomeFailed
  <2>5. FailuresNamed'
    BY <1>4 DEF ReportFailure, Move, Scan, TypeOK, FailuresNamed
  <2> QED
    BY <2>1, <2>4, <2>5
<1>5. CASE Fail(p, n)
  <2>1. TypeOK'
    BY <1>5, ScanType DEF Fail, Move, TypeOK
  <2>2. SomeFailed /\ SomeFailed'
    BY <1>5 DEF Fail, Move, TypeOK, SomeFailed
  <2>3. ResultRight'
    BY <1>5, <2>2 DEF Fail, Scan, ResultRight
  <2>4. FailuresNamed'
    BY <1>5, NoneAssumption DEF Fail, Move, Scan, TypeOK, FailuresNamed
  <2> QED
    BY <2>1, <2>3, <2>4
<1> QED
  BY <1>1, <1>2, <1>3, <1>4, <1>5

(* The end of a package. *)
LEMMA PackageStep ==
  ASSUME Inv, NEW p \in Packages, PassPackage(p) \/ FailPackage(p)
  PROVE  Inv'
<1> USE DEF Inv, Event, Text
<1>1. CASE PassPackage(p)
  <2>1. TypeOK'
    BY <1>1, ScanType DEF PassPackage, TypeOK
  <2>2. ResultRight'
    <3>1. /\ built' = [built EXCEPT ![p] = "passed"] /\ built[p] = "running"
          /\ UNCHANGED <<tests, noise>>
      BY <1>1 DEF PassPackage
    <3>2. SomeFailed' <=> SomeFailed
      BY <3>1 DEF TypeOK, SomeFailed
    <3>3. /\ NamesMention => NamesMention'
          /\ p \in Loud => NamesMention'
      BY <3>1 DEF TypeOK, NamesMention
    <3> DEFINE evt == Event("pass", p, None, "nothing")
    <3>4. Scan(evt) /\ ~Fails(evt) /\ evt.says = "nothing"
          /\ evt.package = p /\ evt.test \notin Loud
      BY <1>1, NoneAssumption, LoudAssumption DEF PassPackage, Fails
    <3> HIDE DEF evt
    <3> QED
      BY <3>1, <3>2, <3>3, <3>4, QuietLine
  <2>3. FailuresNamed'
    BY <1>1 DEF PassPackage, Scan, FailuresNamed
  <2> QED
    BY <2>1, <2>2, <2>3
<1>2. CASE FailPackage(p)
  <2>1. TypeOK'
    BY <1>2, ScanType DEF FailPackage, TypeOK
  <2>2. SomeFailed'
    BY <1>2 DEF FailPackage, TypeOK, SomeFailed
  <2>3. ~overallPass'
    BY <1>2 DEF FailPackage, Scan, Fails
  <2>4. ResultRight'
    BY <2>2, <2>3 DEF ResultRight
  <2>5. FailuresNamed'
    BY <1>2 DEF FailPackage, Scan, FailuresNamed
  <2> QED
    BY <2>1, <2>4, <2>5
<1> QED
  BY <1>1, <1>2

(* Inv is an invariant. *)
THEOREM InvCorrect == Spec => []Inv
<1>1. ASSUME Inv, [Next]_vars PROVE Inv'
  <2>1. CASE UNCHANGED vars
    BY <1>1, <2>1 DEF vars, run, Inv, TypeOK, ResultRight, SomeFailed,
                     NamesMention, FailuresNamed
  <2>2. CASE Next
    BY <1>1, <2>2, TestStep, PackageStep DEF Next
  <2> QED
    BY <1>1, <2>1, <2>2
<1> QED
  BY InitInv, <1>1, PTL DEF Spec

(* The verdict agrees with what failed, wherever the output ends, for any  *)
(* number of packages and tests.                                           *)
THEOREM VerdictRightCorrect == Spec => []VerdictRight
BY InvCorrect, VerdictFollows, PTL

(* The list of failures names exactly the names of failed tests.           *)
THEOREM FailuresNamedCorrect == Spec => []FailuresNamed
BY InvCorrect, PTL DEF Inv
=============================================================================
