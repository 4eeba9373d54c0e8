------------------------- MODULE MemoryStore_proofs -------------------------
(* Proofs about MemoryStore, for any number of stores and entries. *)
EXTENDS MemoryStore, TLAPS

-----------------------------------------------------------------------------
(* The inductive invariant. *)

(* What is not open or only being created holds nothing, and so does a     *)
(* file that is not whole.                                                 *)
Known ==
  /\ \A s \in Stores : At(s, "closed") => entries[s] = NoEntries
  /\ \A s \in Stores :
       ~At(s, "open") /\ op[s].kind = "create" => entries[s] = NoEntries
  /\ disk # "whole" => contents = NoEntries

(* The file has what was reported as saved, but while it is written.       *)
SavedInFile ==
  /\ disk = "whole" => \A i \in Ids : contents[i] >= safe[i]
  /\ disk \in {"absent", "broken"} \/ (Quiet /\ disk = "empty") =>
       safe = NoEntries

(* A store is about to write only for something it has changed.            *)
Pending ==
  \A s \in Stores : pc[s] \in {"closed", "open"} => op[s] = Idle

(* Who writes leaves all others behind. *)
LeftBehind ==
  \A s \in Stores :
    At(s, "truncated") => Others(s) \subseteq stale /\ disk # "absent"

(* A store that was not left behind knows of everything reported, and of   *)
(* what it is about to report.                                             *)
Knows(s) ==
  \A i \in Ids :
    /\ safe[i] + One(s, "save", i) <= entries[s][i]
    /\ entries[s][i] + One(s, "delete", i) <= left[i]

Informed ==
  \A s \in Stores : ~At(s, "closed") /\ s \notin stale => Knows(s)

Inv ==
  /\ TypeOK /\ Known /\ SavedInFile /\ Pending /\ LeftBehind /\ Informed
  /\ DeletedStaysDeleted /\ MemoryIsDisk

-----------------------------------------------------------------------------
(* Slices. *)

LEMMA SliceFacts ==
  /\ NoEntries \in Slices
  /\ \A i \in Ids : NoEntries[i] = 0
  /\ \A x \in Slices, i \in Ids :
       /\ Add(x, i) \in Slices
       /\ \A j \in Ids : Add(x, i)[j] = IF j = i THEN x[j] + 1 ELSE x[j]
       /\ x[i] > 0 => Remove(x, i) \in Slices
       /\ \A j \in Ids : Remove(x, i)[j] = IF j = i THEN x[j] - 1 ELSE x[j]
  BY DEF NoEntries, Slices, Add, Remove

LEMMA LessOneFacts ==
  ASSUME NEW x \in Slices, NEW i \in Ids
  PROVE  /\ LessOne(x, i) \in Slices
         /\ \A j \in Ids :
              /\ LessOne(x, i)[j] <= x[j]
              /\ j = i /\ x[j] > 0 => LessOne(x, i)[j] = x[j] - 1
  BY SliceFacts DEF LessOne, Slices

(* What a Save or Delete under way counts for. *)
LEMMA OneFacts ==
  /\ \A s, kind, i : One(s, kind, i) \in {0, 1}
  /\ \A s, i : op[s] = Idle => One(s, "save", i) = 0 /\ One(s, "delete", i) = 0
  BY DEF One, Idle

-----------------------------------------------------------------------------
(* The invariant holds initially. *)
LEMMA InitInv == Init => Inv
<1> SUFFICES ASSUME Init PROVE Inv
  OBVIOUS
<1> USE SliceFacts DEF Init, At
<1>1. TypeOK
  BY DEF TypeOK, Places, Ops
<1>2. Known /\ SavedInFile /\ Pending
  BY DEF Known, SavedInFile, Pending
<1>3. LeftBehind /\ Informed /\ MemoryIsDisk
  BY DEF LeftBehind, Informed, MemoryIsDisk
<1>4. DeletedStaysDeleted
  BY DEF DeletedStaysDeleted
<1> QED BY <1>1, <1>2, <1>3, <1>4 DEF Inv

-----------------------------------------------------------------------------
(* Steps of one store that keep what the others know. *)
OthersKept(s) ==
  \A t \in Stores \ {s} :
    /\ pc'[t] = pc[t] /\ entries'[t] = entries[t] /\ op'[t] = op[t]
    /\ t \notin stale' => t \notin stale
    /\ t \in dirty' <=> t \in dirty

LEMMA OthersInformed ==
  ASSUME Inv, NEW s \in Stores, OthersKept(s), TypeOK',
         \A i \in Ids : safe'[i] <= safe[i] /\ left'[i] >= left[i],
         ~At(s, "closed")' /\ s \notin stale' => Knows(s)'
  PROVE  Informed'
<1> SUFFICES ASSUME NEW t \in Stores, ~At(t, "closed")', t \notin stale'
             PROVE  Knows(t)'
  BY DEF Informed
<1>1. CASE t # s
  <2>1. Knows(t)
    BY <1>1 DEF OthersKept, Inv, Informed, At
  <2>2. \A kind, i : One(t, kind, i)' = One(t, kind, i)
    BY <1>1 DEF OthersKept, One
  <2> SUFFICES ASSUME NEW i \in Ids
               PROVE  /\ safe'[i] + One(t, "save", i) <= entries[t][i]
                      /\ entries[t][i] + One(t, "delete", i) <= left'[i]
    BY <1>1, <2>2 DEF Knows, OthersKept
  <2>3. /\ safe[i] \in Nat /\ safe'[i] \in Nat /\ left[i] \in Nat
        /\ left'[i] \in Nat /\ entries[t][i] \in Nat
        /\ One(t, "save", i) \in Nat /\ One(t, "delete", i) \in Nat
    BY OneFacts DEF Inv, TypeOK, Slices
  <2> QED BY <2>1, <2>3 DEF Knows
<1>2. CASE t = s
  BY <1>2
<1> QED BY <1>1, <1>2

(* A step that does not touch the truncation of the file. *)
LEMMA SameTruncation ==
  ASSUME Inv, NEW s \in Stores, OthersKept(s), TypeOK', UNCHANGED file,
         pc[s] # "truncated", pc'[s] # "truncated",
         pc[s] = "closed" /\ pc'[s] # "closed" /\ Writing(s) => s \in stale',
         pc[s] # "closed" /\ pc'[s] # "closed" /\ s \in stale => s \in stale'
  PROVE  LeftBehind' /\ (Quiet' <=> Quiet)
<1>1. \A t \in Stores : pc'[t] = "truncated" <=> pc[t] = "truncated"
  BY DEF OthersKept
<1>2. Quiet' <=> Quiet
  BY <1>1 DEF Quiet
<1>3. ASSUME NEW t \in Stores, pc'[t] = "truncated", NEW u \in Others(t)'
      PROVE  u \in stale'
  <2>1. t # s /\ pc[t] = "truncated" /\ u \in Stores /\ u # t /\ pc'[u] # "closed"
    BY <1>1, <1>3 DEF Others
  <2>2. CASE u # s
    <3>1. u \in Others(t)
      BY <2>1, <2>2 DEF Others, OthersKept
    <3> QED BY <2>1, <2>2, <3>1 DEF OthersKept, Inv, LeftBehind, At
  <2>3. CASE u = s
    <3>1. CASE pc[s] = "closed"
      BY <2>1, <2>3, <3>1 DEF Writing
    <3>2. CASE pc[s] # "closed"
      BY <2>1, <2>3, <3>2 DEF Others, Inv, LeftBehind, At
    <3> QED BY <3>1, <3>2
  <2> QED BY <2>2, <2>3
<1> QED BY <1>1, <1>2, <1>3 DEF LeftBehind, At, Inv, file
-----------------------------------------------------------------------------
(* Every action preserves the invariant.                                   *)

LEMMA LoadStep == ASSUME Inv, NEW s \in Stores, Load(s) PROVE Inv'
<1>0. /\ pc[s] = "closed" /\ disk \in {"empty", "whole"}
      /\ pc' = [pc EXCEPT ![s] = "open"]
      /\ entries' = [entries EXCEPT ![s] = contents]
      /\ stale' = IF Writing(s) THEN stale \cup {s} ELSE stale \ {s}
      /\ UNCHANGED <<file, op, saves, safe, left, dirty>>
  BY DEF Load, At, GoTo
<1> USE <1>0 DEF Inv
<1>1. TypeOK'
  BY DEF TypeOK, Places, file
<1>2. OthersKept(s)
  BY DEF OthersKept, TypeOK
<1>3. LeftBehind' /\ (Quiet' <=> Quiet)
  BY <1>1, <1>2, SameTruncation DEF TypeOK
<1>4. Writing(s) \/ Quiet
  BY DEF Writing, Quiet
<1>5. Known' /\ Pending' /\ DeletedStaysDeleted'
  BY DEF Idle, Known, Pending, DeletedStaysDeleted, TypeOK, At, file
<1>6. SavedInFile'
  BY <1>3 DEF SavedInFile, file
<1>7. ASSUME s \notin stale' PROVE Knows(s)'
  <2>1. Quiet /\ entries'[s] = contents
    BY <1>4, <1>7 DEF TypeOK
  <2>2. \A i \in Ids : safe[i] <= contents[i]
    <3>1. CASE disk = "whole"
      BY <3>1 DEF SavedInFile
    <3>2. CASE disk = "empty"
      BY <2>1, <3>2, SliceFacts DEF SavedInFile, Known
    <3> QED BY <3>1, <3>2
  <2>3. \A i \in Ids : /\ One(s, "save", i)' = 0 /\ One(s, "delete", i)' = 0
                        /\ safe[i] \in Nat /\ contents[i] \in Nat
    BY OneFacts DEF Pending, TypeOK, Slices, One, Idle
  <2> QED BY <2>1, <2>2, <2>3 DEF Knows, DeletedStaysDeleted
<1>8. Informed'
  <2>1. \A i \in Ids : safe'[i] <= safe[i] /\ left'[i] >= left[i]
    BY DEF TypeOK, Slices
  <2> QED BY <1>1, <1>2, <1>7, <2>1, OthersInformed
<1>9. MemoryIsDisk'
  BY <1>3, <1>4 DEF MemoryIsDisk, At, TypeOK, file
<1> QED BY <1>1, <1>3, <1>5, <1>6, <1>8, <1>9

LEMMA CreateStep == ASSUME Inv, NEW s \in Stores, Create(s) PROVE Inv'
<1>0. /\ pc[s] = "closed" /\ disk = "absent"
      /\ pc' = [pc EXCEPT ![s] = "write"]
      /\ stale' = stale \ {s}
      /\ UNCHANGED <<file, entries, op, saves, safe, left, dirty>>
  BY DEF Create, At, GoTo
<1> USE <1>0 DEF Inv
<1>1. TypeOK'
  BY DEF TypeOK, Places, file
<1>2. OthersKept(s)
  BY DEF OthersKept, TypeOK
<1>3. ~Writing(s)
  BY DEF Writing, LeftBehind, At
<1>4. LeftBehind' /\ (Quiet' <=> Quiet)
  BY <1>1, <1>2, <1>3, SameTruncation DEF TypeOK
<1>5. Known' /\ Pending' /\ DeletedStaysDeleted'
  BY DEF Idle, Known, Pending, DeletedStaysDeleted, TypeOK, At, file
<1>6. SavedInFile'
  BY <1>4 DEF SavedInFile, file
<1>7. Knows(s)'
  <2>1. \A i \in Ids : /\ One(s, "save", i)' = 0 /\ One(s, "delete", i)' = 0
                        /\ safe[i] = 0 /\ entries[s][i] = 0 /\ left[i] \in Nat
    BY SliceFacts DEF Pending, One, Idle, SavedInFile, Known, At, TypeOK, Slices
  <2> QED BY <2>1 DEF Knows
<1>8. Informed'
  <2>1. \A i \in Ids : safe'[i] <= safe[i] /\ left'[i] >= left[i]
    BY DEF TypeOK, Slices
  <2> QED BY <1>1, <1>2, <1>7, <2>1, OthersInformed
<1>9. MemoryIsDisk'
  BY <1>4 DEF MemoryIsDisk, At, TypeOK, file
<1> QED BY <1>1, <1>4, <1>5, <1>6, <1>8, <1>9

LEMMA SaveStep ==
  ASSUME Inv, NEW s \in Stores, NEW i \in Ids, Save(s, i) PROVE Inv'
<1>0. /\ pc[s] = "open" /\ saves' = saves + 1
      /\ entries' = [entries EXCEPT ![s] = Add(entries[s], i)]
      /\ op' = [op EXCEPT ![s] = [kind |-> "save", id |-> i]]
      /\ pc' = [pc EXCEPT ![s] = "write"]
      /\ left' = Add(left, i)
      /\ UNCHANGED <<file, safe, stale, dirty>>
  BY DEF Save, At, GoTo
<1> USE <1>0 DEF Inv
<1>1. TypeOK'
  BY SliceFacts DEF TypeOK, Places, Ops, file
<1>2. OthersKept(s)
  BY DEF OthersKept, TypeOK
<1>3. LeftBehind' /\ (Quiet' <=> Quiet)
  BY <1>1, <1>2, SameTruncation DEF TypeOK
<1>4. ASSUME NEW j \in Ids
      PROVE  /\ left'[j] = IF j = i THEN left[j] + 1 ELSE left[j]
             /\ entries'[s][j] = IF j = i THEN entries[s][j] + 1 ELSE entries[s][j]
             /\ safe[j] \in Nat /\ entries[s][j] \in Nat /\ left[j] \in Nat
             /\ contents[j] \in Nat
  <2>1. left \in Slices /\ entries[s] \in Slices
    BY DEF TypeOK
  <2>2. entries'[s] = Add(entries[s], i)
    BY DEF TypeOK
  <2>3. /\ Add(left, i)[j] = IF j = i THEN left[j] + 1 ELSE left[j]
        /\ Add(entries[s], i)[j] = IF j = i THEN entries[s][j] + 1 ELSE entries[s][j]
    BY <2>1, SliceFacts
  <2> QED BY <2>1, <2>2, <2>3 DEF TypeOK, Slices
<1>5. Known' /\ Pending'
  BY DEF Idle, Known, Pending, TypeOK, At, file
<1>6. DeletedStaysDeleted'
  BY <1>4 DEF DeletedStaysDeleted, file
<1>7. SavedInFile'
  BY <1>3 DEF SavedInFile, file
<1>8. ASSUME s \notin stale' PROVE Knows(s)'
  <2>1. op[s] = Idle /\ op'[s] = [kind |-> "save", id |-> i] /\ Knows(s)
    BY <1>8 DEF Pending, TypeOK, Informed, At
  <2> SUFFICES ASSUME NEW j \in Ids
               PROVE  /\ safe'[j] + One(s, "save", j)' <= entries'[s][j]
                      /\ entries'[s][j] + One(s, "delete", j)' <= left'[j]
    BY DEF Knows
  <2>2. op'[s].kind = "save" /\ op'[s].id = i
    BY <2>1
  <2>3. One(s, "save", j)' = (IF i = j THEN 1 ELSE 0) /\ One(s, "delete", j)' = 0
    BY ONLY <2>2 DEF One
  <2>4. One(s, "save", j) = 0 /\ One(s, "delete", j) = 0
    BY <2>1, OneFacts
  <2>5. safe[j] <= entries[s][j] /\ entries[s][j] <= left[j]
    BY <1>4, <2>1, <2>4 DEF Knows
  <2> QED BY <1>4, <2>3, <2>5
<1>9. Informed'
  <2>1. \A j \in Ids : safe'[j] <= safe[j] /\ left'[j] >= left[j]
    BY <1>4
  <2> QED BY <1>1, <1>2, <1>8, <2>1, OthersInformed
<1>10. MemoryIsDisk'
  BY <1>3 DEF MemoryIsDisk, At, TypeOK, file
<1> QED BY <1>1, <1>3, <1>5, <1>6, <1>7, <1>9, <1>10

LEMMA DeleteStep ==
  ASSUME Inv, NEW s \in Stores, NEW i \in Ids, Delete(s, i) PROVE Inv'
<1>0. /\ pc[s] = "open" /\ entries[s][i] > 0
      /\ entries' = [entries EXCEPT ![s] = Remove(entries[s], i)]
      /\ op' = [op EXCEPT ![s] = [kind |-> "delete", id |-> i]]
      /\ pc' = [pc EXCEPT ![s] = "write"]
      /\ safe' = LessOne(safe, i)
      /\ UNCHANGED <<file, saves, left, stale, dirty>>
  BY DEF Delete, At, GoTo
<1> USE <1>0 DEF Inv
<1>4. ASSUME NEW j \in Ids
      PROVE  /\ entries'[s][j] = IF j = i THEN entries[s][j] - 1 ELSE entries[s][j]
             /\ safe'[j] <= safe[j]
             /\ j = i /\ safe[j] > 0 => safe'[j] = safe[j] - 1
             /\ safe[j] \in Nat /\ entries[s][j] \in Nat /\ left[j] \in Nat
             /\ safe'[j] \in Nat /\ contents[j] \in Nat
  <2>1. safe \in Slices /\ entries[s] \in Slices
    BY DEF TypeOK
  <2>2. entries'[s] = Remove(entries[s], i)
    BY DEF TypeOK
  <2>3. Remove(entries[s], i)[j] = IF j = i THEN entries[s][j] - 1 ELSE entries[s][j]
    BY <2>1, SliceFacts
  <2> QED BY <2>1, <2>2, <2>3, LessOneFacts DEF TypeOK, Slices
<1>1. TypeOK'
  <2>1. Remove(entries[s], i) \in Slices /\ LessOne(safe, i) \in Slices
    BY SliceFacts, LessOneFacts DEF TypeOK
  <2> QED BY <2>1 DEF TypeOK, Places, Ops, file
<1>2. OthersKept(s)
  BY DEF OthersKept, TypeOK
<1>3. LeftBehind' /\ (Quiet' <=> Quiet)
  BY <1>1, <1>2, SameTruncation DEF TypeOK
<1>5. Known' /\ Pending' /\ DeletedStaysDeleted'
  BY DEF Idle, Known, Pending, DeletedStaysDeleted, TypeOK, At, file
<1>7. SavedInFile'
  <2>1. safe = NoEntries => safe' = NoEntries
    BY SliceFacts DEF LessOne
  <2>2. disk = "whole" => \A j \in Ids : contents[j] >= safe'[j]
    BY <1>4 DEF SavedInFile
  <2> QED BY <1>3, <2>1, <2>2 DEF SavedInFile, file
<1>8. ASSUME s \notin stale' PROVE Knows(s)'
  <2>1. op[s] = Idle /\ op'[s] = [kind |-> "delete", id |-> i] /\ Knows(s)
    BY <1>8 DEF Pending, TypeOK, Informed, At
  <2> SUFFICES ASSUME NEW j \in Ids
               PROVE  /\ safe'[j] + One(s, "save", j)' <= entries'[s][j]
                      /\ entries'[s][j] + One(s, "delete", j)' <= left'[j]
    BY DEF Knows
  <2>2. op'[s].kind = "delete" /\ op'[s].id = i
    BY <2>1
  <2>3. One(s, "delete", j)' = (IF i = j THEN 1 ELSE 0) /\ One(s, "save", j)' = 0
    BY ONLY <2>2 DEF One
  <2>4. One(s, "save", j) = 0 /\ One(s, "delete", j) = 0
    BY <2>1, OneFacts
  <2>5. safe[j] <= entries[s][j] /\ entries[s][j] <= left[j]
    BY <1>4, <2>1, <2>4 DEF Knows
  <2> QED BY <1>4, <2>3, <2>5
<1>9. Informed'
  <2>1. \A j \in Ids : safe'[j] <= safe[j] /\ left'[j] >= left[j]
    BY <1>4
  <2> QED BY <1>1, <1>2, <1>8, <2>1, OthersInformed
<1>10. MemoryIsDisk'
  BY <1>3 DEF MemoryIsDisk, At, TypeOK, file
<1> QED BY <1>1, <1>3, <1>5, <1>7, <1>9, <1>10

LEMMA OpenFailsStep ==
  ASSUME Inv, NEW s \in Stores, OpenFails(s) PROVE Inv'
<1>0. PICK place \in {"closed", "open"} :
        /\ pc[s] = "write"
        /\ pc' = [pc EXCEPT ![s] = place]
        /\ place = "closed" <=> op[s].kind = "create"
        /\ op' = [op EXCEPT ![s] = Idle]
        /\ dirty' = IF place = "closed" THEN dirty ELSE dirty \cup {s}
        /\ UNCHANGED <<file, entries, saves, safe, left, stale>>
  BY DEF OpenFails, Return, At, GoTo
<1> USE <1>0 DEF Inv
<1>1. TypeOK'
  BY DEF TypeOK, Places, Ops, file
<1>2. OthersKept(s)
  BY DEF OthersKept, TypeOK
<1>3. LeftBehind' /\ (Quiet' <=> Quiet)
  BY <1>1, <1>2, SameTruncation DEF TypeOK
<1>5. Pending' /\ DeletedStaysDeleted'
  BY DEF Pending, DeletedStaysDeleted, TypeOK, file
<1>6. Known'
  BY DEF Idle, Known, TypeOK, At, file, Pending
<1>7. SavedInFile'
  BY <1>3 DEF SavedInFile, file
<1>8. ASSUME s \notin stale' PROVE Knows(s)'
  <2>1. op'[s] = Idle /\ Knows(s)
    BY <1>8 DEF TypeOK, Informed, At
  <2>2. ASSUME NEW j \in Ids
        PROVE  /\ One(s, "save", j)' = 0 /\ One(s, "delete", j)' = 0
               /\ One(s, "save", j) \in Nat /\ One(s, "delete", j) \in Nat
               /\ safe[j] \in Nat /\ entries[s][j] \in Nat /\ left[j] \in Nat
    BY <2>1, OneFacts DEF One, Idle, TypeOK, Slices
  <2> QED BY <2>1, <2>2 DEF Knows
<1>9. Informed'
  <2>1. \A j \in Ids : safe'[j] <= safe[j] /\ left'[j] >= left[j]
    BY DEF TypeOK, Slices
  <2> QED BY <1>1, <1>2, <1>8, <2>1, OthersInformed
<1>10. MemoryIsDisk'
  BY <1>3 DEF MemoryIsDisk, At, TypeOK, file
<1> QED BY <1>1, <1>3, <1>5, <1>6, <1>7, <1>9, <1>10

LEMMA TruncateStep == ASSUME Inv, NEW s \in Stores, Truncate(s) PROVE Inv'
<1>0. /\ pc[s] = "write"
      /\ pc' = [pc EXCEPT ![s] = "truncated"]
      /\ disk' = "empty" /\ contents' = NoEntries
      /\ stale' = stale \cup Others(s)
      /\ UNCHANGED <<entries, op, saves, safe, left, dirty>>
  BY DEF Truncate, At, GoTo
<1> USE <1>0 DEF Inv
<1>1. TypeOK'
  BY SliceFacts DEF TypeOK, Places, Others
<1>2. OthersKept(s)
  BY DEF OthersKept, TypeOK
<1>3. ~Quiet'
  BY DEF Quiet, TypeOK
<1>4. LeftBehind'
  <2>1. ASSUME NEW t \in Stores, pc'[t] = "truncated", NEW u \in Others(t)'
        PROVE  u \in stale'
    <3>1. u \in Others(t) /\ (t = s \/ pc[t] = "truncated")
      BY <2>1 DEF Others, TypeOK
    <3> QED BY <3>1 DEF LeftBehind, At
  <2> QED BY <2>1 DEF LeftBehind, At
<1>5. Known' /\ Pending' /\ SavedInFile' /\ MemoryIsDisk'
  BY <1>3 DEF Known, Pending, SavedInFile, MemoryIsDisk, TypeOK, At
<1>6. DeletedStaysDeleted'
  BY SliceFacts DEF DeletedStaysDeleted, TypeOK, Slices
<1>7. ASSUME s \notin stale' PROVE Knows(s)'
  BY <1>7 DEF Informed, Knows, One, At
<1>8. Informed'
  <2>1. \A i \in Ids : safe'[i] <= safe[i] /\ left'[i] >= left[i]
    BY DEF TypeOK, Slices
  <2> QED BY <1>1, <1>2, <1>7, <2>1, OthersInformed
<1> QED BY <1>1, <1>4, <1>5, <1>6, <1>8

(* Whoever ends a write has left all others behind. *)
LEMMA EndOfWrite ==
  ASSUME Inv, NEW s \in Stores, OthersKept(s), TypeOK', disk' # "absent",
         pc[s] = "truncated", pc'[s] # "truncated",
         pc'[s] # "closed" /\ Writing(s) => s \in stale'
  PROVE  /\ LeftBehind'
         /\ \A t \in Stores \ {s} : pc'[t] # "closed" => t \in stale'
<1>1. ASSUME NEW t \in Stores, pc'[t] = "truncated", NEW u \in Others(t)'
      PROVE  u \in stale'
  <2>1. t # s /\ pc[t] = "truncated" /\ u \in Stores /\ u # t /\ pc'[u] # "closed"
    BY <1>1 DEF Others, OthersKept
  <2>2. CASE u # s
    <3>1. u \in Others(t)
      BY <2>1, <2>2 DEF Others, OthersKept
    <3> QED BY <2>1, <2>2, <3>1 DEF OthersKept, Inv, LeftBehind, At
  <2>3. CASE u = s
    BY <2>1, <2>3 DEF Writing
  <2> QED BY <2>2, <2>3
<1>2. ASSUME NEW t \in Stores \ {s}, pc'[t] # "closed" PROVE t \in stale'
  BY <1>2 DEF OthersKept, Inv, LeftBehind, Others, At
<1> QED BY <1>1, <1>2 DEF LeftBehind, At

LEMMA WriteStep == ASSUME Inv, NEW s \in Stores, Write(s) PROVE Inv'
<1>0. /\ pc[s] = "truncated"
      /\ disk' = "whole" /\ contents' = entries[s]
      /\ pc' = [pc EXCEPT ![s] = "open"]
      /\ op' = [op EXCEPT ![s] = Idle]
      /\ stale' = IF Writing(s) THEN stale \cup {s} ELSE stale \ {s}
      /\ dirty' = dirty \ {s}
      /\ UNCHANGED <<entries, saves>>
  BY DEF Write, Return, At, GoTo
<1> USE <1>0 DEF Inv
<1>1. ASSUME NEW i \in Ids
      PROVE  /\ safe'[i] \in Nat /\ left'[i] \in Nat
             /\ safe'[i] <= entries[s][i] /\ entries[s][i] <= left'[i]
  <2>1. /\ safe[i] \in Nat /\ left[i] \in Nat /\ entries[s][i] \in Nat
        /\ One(s, "save", i) \in Nat /\ One(s, "delete", i) \in Nat
    BY OneFacts DEF TypeOK, Slices
  <2>2. s \notin stale =>
          /\ safe[i] + One(s, "save", i) <= entries[s][i]
          /\ entries[s][i] + One(s, "delete", i) <= left[i]
    BY DEF Informed, Knows, At
  <2>3. /\ safe'[i] = IF s \in stale /\ entries[s][i] < safe[i] + One(s, "save", i)
                      THEN entries[s][i] ELSE safe[i] + One(s, "save", i)
        /\ left'[i] = IF s \in stale /\ entries[s][i] > left[i] - One(s, "delete", i)
                      THEN entries[s][i] ELSE left[i] - One(s, "delete", i)
    BY DEF Write, Reported
  <2> QED BY <2>1, <2>2, <2>3
<1>2. TypeOK'
  <2>1. safe' \in Slices /\ left' \in Slices
    BY <1>1 DEF Write, Reported, Slices
  <2> QED BY <2>1 DEF TypeOK, Places, Ops
<1>3. OthersKept(s)
  BY DEF OthersKept, TypeOK
<1>4. pc'[s] = "open" /\ op'[s] = Idle
  BY DEF TypeOK
<1>5. /\ LeftBehind'
      /\ \A t \in Stores \ {s} : pc'[t] # "closed" => t \in stale'
  BY <1>2, <1>3, <1>4, EndOfWrite
<1>6. Known' /\ Pending'
  BY <1>4 DEF Known, Pending, TypeOK, At
<1>7. SavedInFile' /\ DeletedStaysDeleted'
  BY <1>1 DEF SavedInFile, DeletedStaysDeleted
<1>8. Informed'
  <2>1. Knows(s)'
    <3>1. ASSUME NEW i \in Ids
          PROVE  One(s, "save", i)' = 0 /\ One(s, "delete", i)' = 0
      BY <1>4 DEF One, Idle
    <3>2. \A i \in Ids : entries[s][i] \in Nat
      BY DEF TypeOK, Slices
    <3> QED BY <1>1, <3>1, <3>2 DEF Knows
  <2> QED BY <1>5, <2>1 DEF Informed, At
<1>9. MemoryIsDisk'
  BY <1>5 DEF MemoryIsDisk, At
<1> QED BY <1>2, <1>5, <1>6, <1>7, <1>8, <1>9

LEMMA WriteMixedStep == ASSUME Inv, NEW s \in Stores, WriteMixed(s) PROVE Inv'
<1>0. /\ pc[s] = "truncated"
      /\ disk' = "broken" /\ contents' = NoEntries /\ safe' = NoEntries
      /\ pc' = [pc EXCEPT ![s] = "open"]
      /\ op' = [op EXCEPT ![s] = Idle]
      /\ dirty' = dirty \cup {s}
      /\ UNCHANGED <<entries, saves, left, stale>>
  BY DEF WriteMixed, Return, At, GoTo
<1> USE <1>0 DEF Inv
<1>1. TypeOK'
  BY SliceFacts DEF TypeOK, Places, Ops
<1>2. OthersKept(s)
  BY DEF OthersKept, TypeOK
<1>3. pc'[s] = "open" /\ op'[s] = Idle
  BY DEF TypeOK
<1>4. Writing(s) => s \in stale
  BY DEF Writing, LeftBehind, Others, At
<1>5. /\ LeftBehind'
      /\ \A t \in Stores \ {s} : pc'[t] # "closed" => t \in stale'
  BY <1>1, <1>2, <1>3, <1>4, EndOfWrite
<1>6. Known' /\ Pending' /\ SavedInFile'
  BY <1>3 DEF Known, Pending, SavedInFile, TypeOK, At
<1>7. DeletedStaysDeleted'
  BY SliceFacts DEF DeletedStaysDeleted, TypeOK, Slices
<1>8. ASSUME s \notin stale' PROVE Knows(s)'
  <2>1. Knows(s)
    BY <1>8 DEF Informed, At
  <2>2. ASSUME NEW j \in Ids
        PROVE  /\ One(s, "save", j)' = 0 /\ One(s, "delete", j)' = 0
               /\ One(s, "delete", j) \in Nat /\ safe'[j] = 0
               /\ entries[s][j] \in Nat /\ left[j] \in Nat
    BY <1>3, SliceFacts, OneFacts DEF One, Idle, TypeOK, Slices
  <2> QED BY <2>1, <2>2 DEF Knows
<1>9. Informed'
  BY <1>3, <1>5, <1>8 DEF Informed, At
<1>10. MemoryIsDisk'
  BY <1>5 DEF MemoryIsDisk, At
<1> QED BY <1>1, <1>5, <1>6, <1>7, <1>9, <1>10

(* What a write that fails, or whose process ends, does to the file. *)
LEMMA BreakFacts ==
  ASSUME Inv, NEW s \in Stores, At(s, "truncated"), Break
  PROVE  /\ disk' \in {"absent", "empty", "broken", "whole"}
         /\ contents' \in Slices /\ safe' \in Slices
         /\ disk' # "absent"
         /\ disk' # "whole" => contents' = NoEntries
         /\ SavedInFile'
         /\ \A i \in Ids : safe'[i] <= safe[i] /\ contents'[i] <= contents[i]
<1> USE SliceFacts DEF Inv
<1>1. CASE disk' = "broken" /\ contents' = NoEntries /\ safe' = NoEntries
  BY <1>1 DEF SavedInFile, TypeOK, Slices
<1>2. CASE UNCHANGED file /\ safe' = IF disk = "whole" THEN safe ELSE NoEntries
  <2>1. disk # "absent" /\ UNCHANGED <<disk, contents>>
    BY <1>2 DEF LeftBehind, file
  <2>2. \A i \in Ids : safe'[i] <= safe[i] /\ contents'[i] <= contents[i]
    BY <1>2, <2>1 DEF TypeOK, Slices
  <2> QED BY <1>2, <2>1, <2>2 DEF SavedInFile, Known, TypeOK
<1> QED BY <1>1, <1>2 DEF Break

LEMMA WriteFailsStep == ASSUME Inv, NEW s \in Stores, WriteFails(s) PROVE Inv'
<1>0. PICK place \in {"closed", "open"} :
        /\ pc[s] = "truncated"
        /\ pc' = [pc EXCEPT ![s] = place]
        /\ place = "closed" <=> op[s].kind = "create"
        /\ op' = [op EXCEPT ![s] = Idle]
        /\ dirty' = IF place = "closed" THEN dirty ELSE dirty \cup {s}
        /\ UNCHANGED <<entries, saves, left, stale>>
  BY DEF WriteFails, Return, At, GoTo
<1> USE <1>0 DEF Inv
<1>f. /\ disk' \in {"absent", "empty", "broken", "whole"}
      /\ contents' \in Slices /\ safe' \in Slices
      /\ disk' # "absent"
      /\ disk' # "whole" => contents' = NoEntries
      /\ SavedInFile'
      /\ \A i \in Ids : safe'[i] <= safe[i] /\ contents'[i] <= contents[i]
  BY BreakFacts DEF WriteFails
<1>1. TypeOK'
  BY <1>f DEF TypeOK, Places, Ops
<1>2. OthersKept(s)
  BY DEF OthersKept, TypeOK
<1>3. pc'[s] = place /\ op'[s] = Idle
  BY DEF TypeOK
<1>4. Writing(s) => s \in stale
  BY DEF Writing, LeftBehind, Others, At
<1>5. /\ LeftBehind'
      /\ \A t \in Stores \ {s} : pc'[t] # "closed" => t \in stale'
  BY <1>f, <1>1, <1>2, <1>3, <1>4, EndOfWrite
<1>6. Known' /\ Pending'
  BY <1>f, <1>3 DEF Idle, Known, Pending, TypeOK, At
<1>7. DeletedStaysDeleted'
  BY <1>f DEF DeletedStaysDeleted, TypeOK, Slices
<1>8. ASSUME s \notin stale' PROVE Knows(s)'
  <2>1. Knows(s)
    BY <1>8 DEF Informed, At
  <2>2. ASSUME NEW j \in Ids
        PROVE  /\ One(s, "save", j)' = 0 /\ One(s, "delete", j)' = 0
               /\ One(s, "save", j) \in Nat /\ One(s, "delete", j) \in Nat
               /\ safe[j] \in Nat /\ safe'[j] \in Nat /\ safe'[j] <= safe[j]
               /\ entries[s][j] \in Nat /\ left[j] \in Nat
    BY <1>f, <1>3, OneFacts DEF One, Idle, TypeOK, Slices
  <2> QED BY <2>1, <2>2 DEF Knows
<1>9. Informed'
  BY <1>3, <1>5, <1>8 DEF Informed, At
<1>10. MemoryIsDisk'
  BY <1>3, <1>5 DEF MemoryIsDisk, TypeOK, At
<1> QED BY <1>f, <1>1, <1>5, <1>6, <1>7, <1>9, <1>10

LEMMA CrashStep == ASSUME Inv, NEW s \in Stores, Crash(s) PROVE Inv'
<1>0. /\ pc[s] # "closed"
      /\ pc' = [pc EXCEPT ![s] = "closed"]
      /\ op' = [op EXCEPT ![s] = Idle]
      /\ entries' = [entries EXCEPT ![s] = NoEntries]
      /\ stale' = stale \ {s}
      /\ dirty' = dirty \ {s}
      /\ UNCHANGED <<saves, left>>
  BY DEF Crash, Return, At, GoTo
<1> USE <1>0 DEF Inv
<1>2. OthersKept(s)
  BY DEF OthersKept, TypeOK
<1>3. pc'[s] = "closed" /\ op'[s] = Idle /\ entries'[s] = NoEntries
  BY DEF TypeOK
<1>4. CASE pc[s] = "truncated"
  <2>f. /\ disk' \in {"absent", "empty", "broken", "whole"}
        /\ contents' \in Slices /\ safe' \in Slices
        /\ disk' # "absent"
        /\ disk' # "whole" => contents' = NoEntries
        /\ SavedInFile'
        /\ \A i \in Ids : safe'[i] <= safe[i] /\ contents'[i] <= contents[i]
    BY <1>4, BreakFacts DEF Crash, At
  <2>1. TypeOK'
    BY <2>f, SliceFacts DEF TypeOK, Places, Ops
  <2>2. /\ LeftBehind'
        /\ \A t \in Stores \ {s} : pc'[t] # "closed" => t \in stale'
    BY <2>f, <1>2, <1>3, <1>4, <2>1, EndOfWrite
  <2>3. Known' /\ Pending'
    BY <2>f, <1>3 DEF Known, Pending, TypeOK, At
  <2>4. DeletedStaysDeleted'
    BY <2>f DEF DeletedStaysDeleted, TypeOK, Slices
  <2>5. Informed'
    BY <1>3, <2>2 DEF Informed, At
  <2>6. MemoryIsDisk'
    BY <1>3, <2>2 DEF MemoryIsDisk, At
  <2> QED BY <2>f, <2>1, <2>2, <2>3, <2>4, <2>5, <2>6
<1>5. CASE pc[s] # "truncated"
  <2>f. UNCHANGED <<file, safe>>
    BY <1>5 DEF Crash, At
  <2>1. TypeOK'
    BY <2>f, SliceFacts DEF TypeOK, Places, Ops, file
  <2>2. LeftBehind' /\ (Quiet' <=> Quiet)
    BY <2>f, <2>1, <1>2, <1>3, <1>5, SameTruncation
  <2>3. Known' /\ Pending' /\ DeletedStaysDeleted'
    BY <2>f, <1>3 DEF Known, Pending, DeletedStaysDeleted, TypeOK, At, file
  <2>4. SavedInFile'
    BY <2>f, <2>2 DEF SavedInFile, file
  <2>5. Informed'
    <3>1. \A j \in Ids : safe'[j] <= safe[j] /\ left'[j] >= left[j]
      BY <2>f DEF TypeOK, Slices
    <3> QED BY <2>1, <1>2, <1>3, <3>1, OthersInformed DEF At
  <2>6. MemoryIsDisk'
    BY <2>f, <2>2, <1>3 DEF MemoryIsDisk, At, TypeOK, file
  <2> QED BY <2>1, <2>2, <2>3, <2>4, <2>5, <2>6
<1> QED BY <1>4, <1>5

LEMMA StepInv == Inv /\ [Next]_vars => Inv'
<1> SUFFICES ASSUME Inv, [Next]_vars PROVE Inv'
  OBVIOUS
<1>1. ASSUME NEW s \in Stores, Load(s) \/ Create(s) PROVE Inv'
  BY <1>1, LoadStep, CreateStep
<1>2. ASSUME NEW s \in Stores, NEW i \in Ids, Save(s, i) \/ Delete(s, i)
      PROVE  Inv'
  BY <1>2, SaveStep, DeleteStep
<1>3. ASSUME NEW s \in Stores, WriteToDisk(s) PROVE Inv'
  BY <1>3, OpenFailsStep, TruncateStep, WriteStep, WriteMixedStep, WriteFailsStep
     DEF WriteToDisk
<1>4. ASSUME NEW s \in Stores, Crash(s) PROVE Inv'
  BY <1>4, CrashStep
<1>5. CASE UNCHANGED vars
  BY <1>5 DEF vars, file, store, history, Inv, TypeOK, Known, SavedInFile,
              Pending, LeftBehind, Informed, Knows, One, Others, Quiet, At,
              DeletedStaysDeleted, MemoryIsDisk
<1> QED BY <1>1, <1>2, <1>3, <1>4, <1>5 DEF Next

-----------------------------------------------------------------------------
(* The inductive invariant holds: what a store that no other left behind   *)
(* has in memory is between what was reported as saved and what was ever   *)
(* saved and not deleted, and whoever truncates the file leaves all others *)
(* behind (store.go:40, store.go:62, store.go:91).                         *)
THEOREM InvCorrect == Spec => []Inv
<1>1. Init => Inv
  BY InitInv
<1>2. Inv /\ [Next]_vars => Inv'
  BY StepInv
<1> QED BY <1>1, <1>2, PTL DEF Spec

(* The variables have their types. *)
THEOREM TypeCorrect == Spec => []TypeOK
<1>1. Inv => TypeOK
  BY DEF Inv
<1> QED BY <1>1, InvCorrect, PTL

(* What Save reported as saved is in the file, with any number of stores   *)
(* and entries, those with one identifier among them (store.go:40).        *)
THEOREM SavedSurvivesCorrect == Spec => []SavedSurvives
<1>1. Inv => SavedSurvives
  <2> SUFFICES ASSUME Inv, Quiet, NEW i \in Ids PROVE contents[i] >= safe[i]
    BY DEF SavedSurvives
  <2>1. CASE disk = "whole"
    BY <2>1 DEF Inv, SavedInFile
  <2>2. CASE disk # "whole"
    <3>1. safe = NoEntries /\ contents = NoEntries
      BY <2>2 DEF Inv, SavedInFile, Known, TypeOK
    <3> QED BY <3>1, SliceFacts
  <2> QED BY <2>1, <2>2
<1> QED BY <1>1, InvCorrect, PTL

(* The file has no more entries than were saved and not deleted: what a    *)
(* Delete reported as gone does not come back but with a store that the    *)
(* Delete left behind (store.go:62).                                       *)
THEOREM DeletedStaysDeletedCorrect == Spec => []DeletedStaysDeleted
<1>1. Inv => DeletedStaysDeleted
  BY DEF Inv
<1> QED BY <1>1, InvCorrect, PTL

(* A store whose last write did not fail and that no other store's write   *)
(* left behind agrees with the file (store.go:91).                         *)
THEOREM MemoryIsDiskCorrect == Spec => []MemoryIsDisk
<1>1. Inv => MemoryIsDisk
  BY DEF Inv
<1> QED BY <1>1, InvCorrect, PTL
=============================================================================
