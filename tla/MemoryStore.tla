---------------------------- MODULE MemoryStore ----------------------------
(***************************************************************************)
(* The memory of the agent: FileStores (internal/memory/store.go) that     *)
(* keep their entries in one JSON file.                                    *)
(*                                                                         *)
(* Every change is made in memory and then written with os.WriteFile,      *)
(* which truncates the file and writes it anew: the two are steps of their *)
(* own, each may fail, and the process may end between them.  Nothing      *)
(* locks the file, so several stores, in one process or in several, may be *)
(* open on it.                                                             *)
(*                                                                         *)
(* Entries are found by their identifiers, and nothing keeps two entries   *)
(* from having the same one.  A slice of entries is abstracted to how many *)
(* there are of every identifier.                                          *)
(***************************************************************************)
EXTENDS Naturals

CONSTANTS
  Stores,  \* the stores that are opened again and again on the file
  Ids,     \* the identifiers of entries
  MaxSaves \* bounds the calls of Save

ASSUME MaxSavesAssumption == MaxSaves \in Nat

VARIABLES
  disk,     \* what the file is: "absent", "empty", "broken" or "whole"
  contents, \* the entries in a whole file
  pc,       \* where a store is
  entries,  \* its entries in memory
  op,       \* what it is about to write for
  saves     \* the calls of Save so far

(* History, for the properties only. *)
VARIABLES
  safe,  \* how many entries Save reported as saved, less those that may
         \* have been taken out: by a Delete, a write that broke the file,
         \* or the write of a stale store that did not have them
  left,  \* how many entries Save was called with, less those that Delete
         \* reported as gone, unless a stale store wrote them again
  stale, \* stores that another store's write left behind
  dirty  \* stores whose last write failed or was mixed with another's

file == <<disk, contents>>
store == <<pc, entries, op>>
history == <<safe, left, stale, dirty>>
vars == <<file, store, saves, history>>

Places == {"closed", "open", "write", "truncated"}

Idle == [kind |-> "create"]
Ops == {Idle} \cup [kind : {"save", "delete"}, id : Ids]

(* Slices of entries.                                                      *)
Slices == [Ids -> Nat]
NoEntries == [i \in Ids |-> 0]
Add(slice, i) == [slice EXCEPT ![i] = @ + 1]
Remove(slice, i) == [slice EXCEPT ![i] = @ - 1]

TypeOK ==
  /\ disk \in {"absent", "empty", "broken", "whole"}
  /\ contents \in Slices
  /\ pc \in [Stores -> Places]
  /\ entries \in [Stores -> Slices]
  /\ op \in [Stores -> Ops]
  /\ saves \in Nat
  /\ safe \in Slices
  /\ left \in Slices
  /\ stale \subseteq Stores
  /\ dirty \subseteq Stores

Init ==
  /\ disk = "absent"
  /\ contents = NoEntries
  /\ pc = [s \in Stores |-> "closed"]
  /\ entries = [s \in Stores |-> NoEntries]
  /\ op = [s \in Stores |-> Idle]
  /\ saves = 0
  /\ safe = NoEntries /\ left = NoEntries
  /\ stale = {} /\ dirty = {}

At(s, place) == pc[s] = place
GoTo(s, place) == pc' = [pc EXCEPT ![s] = place]

Others(s) == {t \in Stores \ {s} : pc[t] # "closed"}
Writing(s) == \E t \in Stores \ {s} : pc[t] = "truncated"

-----------------------------------------------------------------------------
(* NewFileStore.                                                           *)

(* MUTANT: a file that is there is created again. *)
LoadNothing(s) ==
  /\ At(s, "closed") /\ disk \in {"empty", "whole"}
  /\ GoTo(s, "open")
  /\ entries' = [entries EXCEPT ![s] = NoEntries]
  /\ stale' = IF Writing(s) THEN stale \cup {s} ELSE stale \ {s}
  /\ UNCHANGED <<file, op, saves, safe, left, dirty>>

(* An empty file is an empty store, be it that another store is about to   *)
(* write it or that its process ended there.  A broken one is an error.    *)
Load(s) ==
  /\ At(s, "closed") /\ disk \in {"empty", "whole"}
  /\ GoTo(s, "open")
  /\ entries' = [entries EXCEPT ![s] = contents]
  /\ stale' = IF Writing(s) THEN stale \cup {s} ELSE stale \ {s}
  /\ UNCHANGED <<file, op, saves, safe, left, dirty>>

Create(s) ==
  /\ At(s, "closed") /\ disk = "absent"
  /\ GoTo(s, "write")
  /\ stale' = stale \ {s}
  /\ UNCHANGED <<file, entries, op, saves, safe, left, dirty>>

-----------------------------------------------------------------------------
(* Save and Delete.                                                        *)

(* Save does not look whether there is an entry with this identifier.      *)
Save(s, i) ==
  /\ At(s, "open") /\ saves < MaxSaves
  /\ saves' = saves + 1
  /\ entries' = [entries EXCEPT ![s] = Add(@, i)]
  /\ op' = [op EXCEPT ![s] = [kind |-> "save", id |-> i]]
  /\ GoTo(s, "write")
  /\ left' = Add(left, i)
  /\ UNCHANGED <<file, safe, stale, dirty>>

LessOne(slice, i) == IF slice[i] = 0 THEN slice ELSE Remove(slice, i)

(* MUTANT: Delete does not write. *)
DeleteInMemory(s, i) ==
  /\ At(s, "open") /\ entries[s][i] > 0
  /\ entries' = [entries EXCEPT ![s] = Remove(@, i)]
  /\ safe' = LessOne(safe, i)
  /\ UNCHANGED <<file, pc, op, saves, left, stale, dirty>>

(* Delete removes the first of the entries with the identifier.  If there  *)
(* is none in memory it returns nil and does nothing.                      *)
Delete(s, i) ==
  /\ At(s, "open") /\ entries[s][i] > 0
  /\ entries' = [entries EXCEPT ![s] = Remove(@, i)]
  /\ op' = [op EXCEPT ![s] = [kind |-> "delete", id |-> i]]
  /\ GoTo(s, "write")
  /\ safe' = LessOne(safe, i)
  /\ UNCHANGED <<file, saves, left, stale, dirty>>

-----------------------------------------------------------------------------
(* writeToDisk.                                                            *)

(* os.WriteFile opens the file with O_TRUNC ...                            *)
Truncate(s) ==
  /\ At(s, "write")
  /\ GoTo(s, "truncated")
  /\ disk' = "empty" /\ contents' = NoEntries
  /\ stale' = stale \cup Others(s)
  /\ UNCHANGED <<entries, op, saves, safe, left, dirty>>

(* Save or Delete returns nil: one entry more is saved or gone.  What a    *)
(* stale store has written is only what it knows.                          *)
One(s, kind, i) == IF op[s].kind = kind /\ op[s].id = i THEN 1 ELSE 0

Reported(s) ==
  /\ safe' = [i \in Ids |->
       LET n == safe[i] + One(s, "save", i)
       IN  IF s \in stale /\ entries[s][i] < n THEN entries[s][i] ELSE n]
  /\ left' = [i \in Ids |->
       LET n == left[i] - One(s, "delete", i)
       IN  IF s \in stale /\ entries[s][i] > n THEN entries[s][i] ELSE n]

Return(s, place) ==
  /\ GoTo(s, place)
  /\ op' = [op EXCEPT ![s] = Idle]

(* MUTANT: the entry of a Delete is still in what is written. *)
WriteDeleted(s) ==
  /\ At(s, "truncated")
  /\ disk' = "whole"
  /\ contents' = IF op[s].kind = "delete" THEN Add(entries[s], op[s].id)
                 ELSE entries[s]
  /\ Return(s, "open")
  /\ Reported(s)
  /\ stale' = IF Writing(s) THEN stale \cup {s} ELSE stale \ {s}
  /\ dirty' = dirty \ {s}
  /\ UNCHANGED <<entries, saves>>

(* ... and writes it from its beginning.                                   *)
Write(s) ==
  /\ At(s, "truncated")
  /\ disk' = "whole" /\ contents' = entries[s]
  /\ Return(s, "open")
  /\ Reported(s)
  /\ stale' = IF Writing(s) THEN stale \cup {s} ELSE stale \ {s}
  /\ dirty' = dirty \ {s}
  /\ UNCHANGED <<entries, saves>>

(* Unless it covers what another store has written since, the rest of that *)
(* breaks the file, though the write returns nil.                          *)
WriteMixed(s) ==
  /\ At(s, "truncated")
  /\ disk # "empty"
  /\ disk' = "broken" /\ contents' = NoEntries
  /\ Return(s, "open")
  /\ safe' = NoEntries
  /\ dirty' = dirty \cup {s}
  /\ UNCHANGED <<entries, saves, left, stale>>

(* The file cannot be opened: the error is returned, the change stays in   *)
(* memory.  NewFileStore returns no store.                                 *)
OpenFails(s) ==
  /\ At(s, "write")
  /\ Return(s, IF op[s].kind = "create" THEN "closed" ELSE "open")
  /\ dirty' = IF op[s].kind = "create" THEN dirty ELSE dirty \cup {s}
  /\ UNCHANGED <<file, entries, saves, safe, left, stale>>

(* The beginning of the text is in the file, over what another store may   *)
(* have written since, or nothing of it is.                                *)
Break ==
  \/ disk' = "broken" /\ contents' = NoEntries /\ safe' = NoEntries
  \/ UNCHANGED file /\ safe' = IF disk = "whole" THEN safe ELSE NoEntries

WriteFails(s) ==
  /\ At(s, "truncated")
  /\ Break
  /\ Return(s, IF op[s].kind = "create" THEN "closed" ELSE "open")
  /\ dirty' = IF op[s].kind = "create" THEN dirty ELSE dirty \cup {s}
  /\ UNCHANGED <<entries, saves, left, stale>>

-----------------------------------------------------------------------------
(* The process of the store ends, by itself or not.                        *)
Crash(s) ==
  /\ ~At(s, "closed")
  /\ Return(s, "closed")
  /\ entries' = [entries EXCEPT ![s] = NoEntries]
  /\ IF At(s, "truncated") THEN Break ELSE UNCHANGED <<file, safe>>
  /\ stale' = stale \ {s}
  /\ dirty' = dirty \ {s}
  /\ UNCHANGED <<saves, left>>

WriteToDisk(s) ==
  \/ OpenFails(s) \/ Truncate(s)
  \/ Write(s) \/ WriteMixed(s) \/ WriteFails(s)

Next ==
  \E s \in Stores :
    \/ Load(s) \/ Create(s)
    \/ \E i \in Ids : Save(s, i) \/ Delete(s, i)
    \/ WriteToDisk(s)
    \/ Crash(s)

Spec == Init /\ [][Next]_vars

-----------------------------------------------------------------------------
(* PROPERTIES                                                              *)

Quiet == \A s \in Stores : pc[s] # "truncated"

(* "Memory Store persists to a JSON file, still readable after a restart"  *)
(* (SPEC.md:112): of every identifier the file has as many entries as were *)
(* reported as saved, across failures to open it, restarts, and other      *)
(* stores, until a Delete, a write that breaks, or a store that did not    *)
(* know of them writes.                                                    *)
SavedSurvives == Quiet => \A i \in Ids : contents[i] >= safe[i]

(* Every Delete that had an entry to remove and returned nil has taken one *)
(* entry with the identifier away, and it does not come back, whoever      *)
(* fails or restarts, unless a store writes that was left behind by the    *)
(* Delete.  (One entry, not all with that identifier: store.go:65 stops at *)
(* the first.)                                                             *)
DeletedStaysDeleted == \A i \in Ids : contents[i] <= left[i]

(* Save and Delete change the memory first and the file second; but a      *)
(* store whose last write did not fail and that no other store's write     *)
(* left behind agrees with the file.                                       *)
MemoryIsDisk ==
  \A s \in Stores :
    Quiet /\ At(s, "open") /\ s \notin stale \cup dirty
      => contents = entries[s]
=============================================================================
