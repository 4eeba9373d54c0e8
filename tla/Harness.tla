------------------------------ MODULE Harness ------------------------------
(***************************************************************************)
(* The command line: the processes `harness run`, `submit`, `status`,      *)
(* `list`, `cancel`, `key setup` and `key clear` of one user on one        *)
(* machine (cmd/harness/main.go, internal/cli/cli.go), at most one for     *)
(* each terminal, and the credential stores they share                     *)
(* (internal/credential): the keychain of the operating system, the        *)
(* environment and the file .env.                                          *)
(*                                                                         *)
(* Every process first looks for the key of its provider, whatever its     *)
(* command.  The keychain is reached by calls of an external program; each *)
(* call is a step, any of them may fail, and other processes' calls come   *)
(* in between.  A process can be interrupted at any time (Ctrl+C); what it *)
(* keeps in memory, its task manager included, ends with it.               *)
(***************************************************************************)
EXTENDS Naturals

CONSTANTS
  Terminals,
  Backends, \* the keychains looked at
  Names,    \* names of credentials
  Secrets,  \* what a person enters for a name
  Settings  \* what the environment and .env may say of these names

(* The keychain is that of an operating system (runtime.GOOS), or "none"   *)
(* where the program that reaches it is not installed.  A person cannot    *)
(* enter an empty secret.                                                  *)
ASSUME BackendsAssumption ==
  Backends \subseteq {"linux", "darwin", "windows", "none"}

None == "none"     \* there is no value
Empty == ""        \* a value that is set and empty
Marker == "marker" \* keychainGetMarker
ApiKey == "OPENAI_API_KEY"

ASSUME NamesAssumption == ApiKey \in Names
ASSUME SecretsAssumption ==
  \A n \in Names : Secrets[n] \cap {None, Empty, Marker} = {}

(* The machine.  Tools and environment do not change.                      *)
VARIABLES
  backend,  \* the kind of the keychain
  environ,  \* the environment new processes inherit
  dotenv,   \* the file .env
  keychain  \* the items in the keychain

(* The processes. *)
VARIABLES
  pc,        \* where the process of a terminal is
  command,   \* its command
  key,       \* apiKey, as resolveLLMProvider determined it: Empty for
             \* the mock provider, None before and in other commands
  secret,    \* the secret entered
  task,      \* the task of its task manager
  channel    \* resultCh of CLI.Run holds a result

(* History, for the properties only. *)
VARIABLES
  stored,    \* what setup last reported as stored in the keychain
  promised,  \* `stored` for the API key when a process started
  troubled,  \* processes that looked for the key while a call of theirs
             \* failed or the keychain changed
  misled     \* processes whose Get failed after Exists had succeeded

machine == <<backend, environ, dotenv>>
process == <<pc, command, key, secret, task, channel>>
history == <<stored, promised, troubled, misled>>
vars == <<machine, keychain, process, history>>

Commands ==
  [op : {"run", "submit", "query"}, name : {ApiKey}]
    \cup [op : {"setup", "clear"}, name : Names]

-----------------------------------------------------------------------------
(* The keychain.  Items are told apart by what the platform's program is   *)
(* given: on macOS account and service are the same for every name, the    *)
(* name is only a label, and -U updates the item there is.                 *)

IsAvailable == backend # "none"

Has(n) == \E item \in keychain : item.name = n

(* MUTANT: on macOS, an update leaves the label as it is. *)
KeepLabel(n, s) ==
  {[name |-> IF keychain = {} THEN n ELSE (CHOOSE item \in keychain : TRUE).name,
    secret |-> s]}

SetDarwin(n, s) == {[name |-> n, secret |-> s]}

SetNamed(n, s) ==
  {item \in keychain : item.name # n} \cup {[name |-> n, secret |-> s]}

Set(n, s) == IF backend = "darwin" THEN SetDarwin(n, s) ELSE SetNamed(n, s)

Delete(n) == {item \in keychain : item.name # n}

(* Windows does not give secrets back.                                     *)
Get(n) ==
  IF backend = "windows" THEN Marker
  ELSE (CHOOSE item \in keychain : item.name = n).secret

(* Every error is taken for "not found": `ok` says whether the call of the *)
(* platform's program works.                                               *)
Exists(n, ok) == ok /\ Has(n)

(* The environment store: what .env adds, and Exists and Get.  A variable  *)
(* that is set counts, even if it is empty.                                *)
LoadDotEnv(n) == IF environ[n] = None THEN dotenv[n] ELSE None

EnvExists(n) == environ[n] # None \/ LoadDotEnv(n) # None

EnvGet(n) == IF environ[n] # None THEN environ[n] ELSE LoadDotEnv(n)

-----------------------------------------------------------------------------
Init ==
  /\ backend \in Backends
  /\ \E s \in Settings : environ = s.environ /\ dotenv = s.dotenv
  /\ keychain = {}
  /\ pc = [p \in Terminals |-> "off"]
  /\ command = [p \in Terminals |-> [op |-> "query", name |-> ApiKey]]
  /\ key = [p \in Terminals |-> None]
  /\ secret = [p \in Terminals |-> None]
  /\ task = [p \in Terminals |-> "absent"]
  /\ channel = [p \in Terminals |-> FALSE]
  /\ stored = [n \in Names |-> None]
  /\ promised = [p \in Terminals |-> None]
  /\ troubled = {}
  /\ misled = {}

At(p, place) == pc[p] = place

GoTo(p, place) == pc' = [pc EXCEPT ![p] = place]

WithTask == {"run", "submit"}

Op(p) == command[p].op
Name(p) == command[p].name

(* The others that look for the key while the keychain changes.            *)
Looking(p) ==
  {q \in Terminals \ {p} : pc[q] \in {"find", "read"} /\ Op(q) \in WithTask}

(* The process ends, and with it everything it kept in memory.             *)
Exit(p) ==
  /\ GoTo(p, "off")
  /\ command' = [command EXCEPT ![p] = [op |-> "query", name |-> ApiKey]]
  /\ key' = [key EXCEPT ![p] = None]
  /\ secret' = [secret EXCEPT ![p] = None]
  /\ task' = [task EXCEPT ![p] = "absent"]
  /\ channel' = [channel EXCEPT ![p] = FALSE]
  /\ promised' = [promised EXCEPT ![p] = None]
  /\ misled' = misled \ {p}

(* A step that ends the process and has no effect outside of it.           *)
JustExit(p) ==
  /\ Exit(p)
  /\ troubled' = troubled \ {p}
  /\ UNCHANGED <<machine, keychain, stored>>

(* A step that changes the keychain and, but for a message, ends.          *)
ExitChanging(p) ==
  /\ Exit(p)
  /\ troubled' = (troubled \ {p}) \cup Looking(p)
  /\ UNCHANGED machine

(* A step that goes on to another place and has no other effect.           *)
JustGoTo(p, place) ==
  /\ GoTo(p, place)
  /\ UNCHANGED <<machine, keychain, command, key, secret, task, channel,
                 history>>

Interrupt(p) == ~At(p, "off") /\ JustExit(p)

-----------------------------------------------------------------------------
(* resolveLLMProvider.                                                     *)

Start(p) ==
  /\ At(p, "off")
  /\ \E c \in Commands :
       /\ command' = [command EXCEPT ![p] = c]
       /\ promised' = IF c.op \in WithTask
                      THEN [promised EXCEPT ![p] = stored[ApiKey]]
                      ELSE promised
  /\ GoTo(p, "find")
  /\ UNCHANGED <<machine, keychain, key, secret, task, channel, stored,
                 troubled, misled>>

(* Only a task makes use of the provider: otherwise its key is not kept.   *)
Resolved(p, value) ==
  /\ key' = [key EXCEPT ![p] = IF Op(p) \in WithTask THEN value ELSE None]
  /\ GoTo(p, "ready")

Using(p) == {p} \cap {q \in Terminals : Op(q) \in WithTask}

(* The first case of the switch: the keychain has the key ...              *)
FindInKeychain(p) ==
  /\ At(p, "find") /\ IsAvailable
  /\ Exists(ApiKey, TRUE)
  /\ JustGoTo(p, "read")

KeyOfEnvironment == IF EnvExists(ApiKey) THEN EnvGet(ApiKey) ELSE Empty

(* MUTANT: with a keychain, the environment is not asked. *)
KeychainOnly(p) ==
  \E ok \in BOOLEAN :
    /\ At(p, "find")
    /\ ~(IsAvailable /\ Exists(ApiKey, ok))
    /\ Resolved(p, IF IsAvailable THEN Empty ELSE KeyOfEnvironment)
    /\ troubled' = IF ok THEN troubled ELSE troubled \cup Using(p)
    /\ UNCHANGED <<machine, keychain, command, secret, task, channel, stored,
                   promised, misled>>

(* ... or it is not available, has no such key or the call fails: the      *)
(* second case.                                                            *)
FindInEnvironment(p) ==
  \E ok \in BOOLEAN :
    /\ At(p, "find")
    /\ ~(IsAvailable /\ Exists(ApiKey, ok))
    /\ Resolved(p, KeyOfEnvironment)
    /\ troubled' = IF ok THEN troubled ELSE troubled \cup Using(p)
    /\ UNCHANGED <<machine, keychain, command, secret, task, channel, stored,
                   promised, misled>>

(* The environment is not asked again when Get fails.                      *)
ReadKeychain(p) ==
  \E ok \in BOOLEAN :
    /\ At(p, "read")
    /\ Resolved(p, IF Exists(ApiKey, ok) THEN Get(ApiKey) ELSE Empty)
    /\ IF Exists(ApiKey, ok) THEN UNCHANGED <<troubled, misled>>
       ELSE /\ troubled' = troubled \cup Using(p)
            /\ misled' = misled \cup Using(p)
    /\ UNCHANGED <<machine, keychain, command, secret, task, channel, stored,
                   promised>>

-----------------------------------------------------------------------------
(* run, submit, and status, list and cancel ("query").                     *)

TaskStep(p, from, to) ==
  /\ task[p] = from
  /\ task' = [task EXCEPT ![p] = to]

Submit(p) ==
  /\ At(p, "ready") /\ Op(p) \in WithTask
  /\ TaskStep(p, "absent", "pending")
  /\ GoTo(p, IF Op(p) = "run" THEN "wait" ELSE "submitted")
  /\ UNCHANGED <<machine, keychain, command, key, secret, channel, history>>

(* The goroutine of the task; `loop.Run` returns sooner or later, and the  *)
(* channel has room for the result.  What TaskManager has the goroutine do *)
(* after that concerns nobody here.                                        *)
StartTask(p) ==
  /\ TaskStep(p, "pending", "running")
  /\ UNCHANGED <<machine, keychain, pc, command, key, secret, channel, history>>

(* MUTANT: only a successful run sends its result. *)
SendOnSuccess(p) ==
  /\ TaskStep(p, "running", "returned")
  /\ \E ok \in BOOLEAN : channel' = [channel EXCEPT ![p] = Op(p) = "run" /\ ok]
  /\ UNCHANGED <<machine, keychain, pc, command, key, secret, history>>

LoopReturns(p) ==
  /\ TaskStep(p, "running", "returned")
  /\ channel' = [channel EXCEPT ![p] = Op(p) = "run"]
  /\ UNCHANGED <<machine, keychain, pc, command, key, secret, history>>

PrintResult(p) == At(p, "wait") /\ channel[p] /\ JustExit(p)

(* submit prints the identifier and leaves, whatever the task is at.       *)
PrintId(p) == At(p, "submitted") /\ JustExit(p)

(* A new process has no task to show, list or cancel.                      *)
Query(p) == At(p, "ready") /\ Op(p) = "query" /\ JustExit(p)

-----------------------------------------------------------------------------
(* key setup and key clear.                                                *)

(* The store that both look at and write to.                               *)
IsSet(p, ok) ==
  IF IsAvailable THEN Exists(Name(p), ok) ELSE EnvExists(Name(p))

CheckSetup(p) ==
  /\ At(p, "ready") /\ Op(p) = "setup"
  /\ \E ok \in BOOLEAN : JustGoTo(p, IF IsSet(p, ok) THEN "overwrite" ELSE "enter")

Overwrite(p) == At(p, "overwrite") /\ (JustGoTo(p, "enter") \/ JustExit(p))

EnterSecret(p) ==
  /\ At(p, "enter")
  /\ \/ /\ \E s \in Secrets[Name(p)] : secret' = [secret EXCEPT ![p] = s]
        /\ GoTo(p, "store")
        /\ UNCHANGED <<machine, keychain, command, key, task, channel, history>>
     \/ JustExit(p)

(* setup reports `s` as stored under the name.                             *)
Reported(name, s) == stored' = [stored EXCEPT ![name] = s]

(* MUTANT: an existing item is not updated. *)
StoreOnce(p) ==
  /\ At(p, "store") /\ IsAvailable
  /\ keychain' = IF Has(Name(p)) THEN keychain ELSE Set(Name(p), secret[p])
  /\ Reported(Name(p), secret[p])
  /\ ExitChanging(p)

StoreInKeychain(p) ==
  /\ At(p, "store") /\ IsAvailable
  /\ keychain' = Set(Name(p), secret[p])
  /\ Reported(Name(p), secret[p])
  /\ ExitChanging(p)

StoreFails(p) == At(p, "store") /\ IsAvailable /\ JustExit(p)

(* The environment of the process itself, which ends at once.              *)
StoreInProcess(p) == At(p, "store") /\ ~IsAvailable /\ JustExit(p)

CheckClear(p) ==
  /\ At(p, "ready") /\ Op(p) = "clear"
  /\ \E ok \in BOOLEAN : IF IsSet(p, ok) THEN JustGoTo(p, "sure") ELSE JustExit(p)

Sure(p) == At(p, "sure") /\ (JustGoTo(p, "delete") \/ JustExit(p))

DeleteFromKeychain(p) ==
  /\ At(p, "delete") /\ IsAvailable /\ Has(Name(p))
  /\ keychain' = Delete(Name(p))
  /\ stored' = [stored EXCEPT ![Name(p)] = None]
  /\ ExitChanging(p)

DeleteFails(p) == At(p, "delete") /\ IsAvailable /\ JustExit(p)

DeleteInProcess(p) == At(p, "delete") /\ ~IsAvailable /\ JustExit(p)

-----------------------------------------------------------------------------
Resolve(p) == FindInKeychain(p) \/ FindInEnvironment(p) \/ ReadKeychain(p)

Task(p) == StartTask(p) \/ LoopReturns(p)

TaskCommand(p) == Submit(p) \/ PrintResult(p) \/ PrintId(p) \/ Query(p)

KeyCommand(p) ==
  \/ CheckSetup(p) \/ Overwrite(p) \/ EnterSecret(p)
  \/ StoreInKeychain(p) \/ StoreFails(p) \/ StoreInProcess(p)
  \/ CheckClear(p) \/ Sure(p)
  \/ DeleteFromKeychain(p) \/ DeleteFails(p) \/ DeleteInProcess(p)

Next ==
  \E p \in Terminals :
    \/ Start(p) \/ Interrupt(p)
    \/ Resolve(p) \/ Task(p) \/ TaskCommand(p) \/ KeyCommand(p)

Spec == Init /\ [][Next]_vars

(* A process goes on as long as it waits for no person, and its loop       *)
(* returns (RunsEnd of SharedLoop says why).                               *)
Fairness ==
  \A p \in Terminals : WF_vars(Resolve(p) \/ Task(p) \/ TaskCommand(p))

FairSpec == Spec /\ Fairness

-----------------------------------------------------------------------------
(* PROPERTIES                                                              *)

(* The provider is chosen.                                                 *)
Decided(p) == Op(p) \in WithTask /\ pc[p] \in {"ready", "wait", "submitted"}

(* On Linux, a key that setup reported as stored is the key every later    *)
(* process uses, whatever the environment and .env hold and whatever other *)
(* names are stored or cleared, unless calls fail or the keychain changes  *)
(* while the process looks (README.md:113, priority 1).  Nothing of the    *)
(* kind holds elsewhere: on macOS storing another name replaces the key    *)
(* (keychain.go:209), and Windows does not give it back                    *)
(* (keychain.go:91).                                                       *)
StoredKeyIsUsed ==
  \A p \in Terminals :
    /\ Decided(p) /\ p \notin troubled
    /\ backend = "linux"
    /\ promised[p] # None
    => key[p] = promised[p]

(* On every system: a key out of the keychain is one that was entered for  *)
(* the provider's name, never the secret of another name, although on      *)
(* macOS all names share one item and one replaces the other               *)
(* (keychain.go:209) while a process is between Exists and Get             *)
(* (main.go:393).                                                          *)
KeyIsOwn ==
  \A p \in Terminals :
    Decided(p) =>
      \/ key[p] \in Secrets[ApiKey]
      \/ key[p] = Marker /\ backend = "windows"
      \/ key[p] = KeyOfEnvironment
      \/ key[p] = Empty

(* A process goes without a key, that is, with the mock provider, although *)
(* the environment or .env has one for it, only if the keychain failed to  *)
(* give back a key it had just reported: no other failure, and no change   *)
(* made by another process, hides the second store (main.go:390).  .env    *)
(* has one for it if the variable is not set at all: a variable set to     *)
(* nothing has priority (store.go:139, store.go:218).                      *)
NoSilentMock ==
  \A p \in Terminals :
    /\ Decided(p) /\ p \notin misled
    /\ key[p] = Empty
    => /\ environ[ApiKey] \in {None, Empty}
       /\ environ[ApiKey] = None => dotenv[ApiKey] \in {None, Empty}

(* `harness run` waits for nothing but its own task: it prints a result    *)
(* and ends, with or without a key, whatever other processes do.           *)
RunReturns ==
  \A p \in Terminals : command[p].op = "run" ~> At(p, "off")
=============================================================================
