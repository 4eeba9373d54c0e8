--------------------------- MODULE Harness_proofs ---------------------------
(***************************************************************************)
(* Proofs about the command line and the credential stores, for any        *)
(* terminals, names, secrets, environments, .env files and keychains.      *)
(***************************************************************************)
EXTENDS Harness, TLAPS

Places == {"off", "find", "read", "ready", "wait", "submitted", "overwrite",
           "enter", "store", "sure", "delete"}

OnTerminals(f) == f = [p \in Terminals |-> f[p]]

TypeInv ==
  /\ pc \in [Terminals -> Places]
  /\ command \in [Terminals -> Commands]
  /\ OnTerminals(key) /\ OnTerminals(secret) /\ OnTerminals(promised)
  /\ OnTerminals(task) /\ OnTerminals(channel)
  /\ stored = [n \in Names |-> stored[n]]

(* A step of one process leaves the others as they are, but for the note   *)
(* that one of them was troubled.                                          *)
OthersKept(p) ==
  \A q \in Terminals \ {p} :
    /\ pc'[q] = pc[q] /\ command'[q] = command[q]
    /\ key'[q] = key[q] /\ secret'[q] = secret[q]
    /\ promised'[q] = promised[q]
    /\ q \in troubled => q \in troubled'
    /\ q \in misled => q \in misled'

(* What the step makes of the process itself: it ends, it decides on a     *)
(* key, it has a secret to store, or it goes on and keeps what it has.     *)
Ends(p) == pc'[p] = "off"

Goes(p) ==
  /\ pc'[p] \notin {"find", "read"}
  /\ pc'[p] \in {"ready", "wait", "submitted"} =>
       pc[p] \in {"ready", "wait", "submitted"}
  /\ pc'[p] = "store" =>
       \/ secret'[p] \in Secrets[Name(p)]
       \/ pc[p] = "store" /\ secret'[p] = secret[p]
  /\ UNCHANGED <<command, key, promised, troubled, misled>>

Changes(p) == StoreInKeychain(p) \/ DeleteFromKeychain(p)

StepForm(p) ==
  /\ TypeInv' /\ OthersKept(p) /\ UNCHANGED machine
  /\ \/ Ends(p) \/ Goes(p) \/ Start(p)
     \/ FindInKeychain(p) \/ FindInEnvironment(p) \/ ReadKeychain(p)
     \/ UNCHANGED <<pc, command, key, secret, promised, troubled, misled>>
  /\ UNCHANGED <<keychain, stored>> \/ (Changes(p) /\ Ends(p))

(* How the three ways a step is composed of keep to the form.              *)
LEMMA ExitForm ==
  ASSUME TypeInv, NEW p \in Terminals, Exit(p),
         stored' = [n \in Names |-> stored'[n]],
         troubled \ {p} \subseteq troubled'
  PROVE  TypeInv' /\ OthersKept(p) /\ Ends(p)
BY DEF TypeInv, OnTerminals, Exit, GoTo, Commands, Places, OthersKept, Ends

LEMMA JustExitForm ==
  ASSUME TypeInv, NEW p \in Terminals, JustExit(p)
  PROVE  StepForm(p)
<1>1. Exit(p) /\ UNCHANGED <<machine, keychain, stored>>
      /\ troubled \ {p} \subseteq troubled'
  BY DEF JustExit
<1> QED BY <1>1, ExitForm DEF StepForm, TypeInv

LEMMA ExitChangingForm ==
  ASSUME TypeInv, NEW p \in Terminals, ExitChanging(p), Changes(p)
  PROVE  StepForm(p)
<1>1. /\ Exit(p) /\ UNCHANGED machine
      /\ troubled \ {p} \subseteq troubled'
  BY DEF ExitChanging
<1>2. stored' = [n \in Names |-> stored'[n]]
  BY DEF Changes, StoreInKeychain, DeleteFromKeychain, Reported, TypeInv
<1> QED BY <1>1, <1>2, ExitForm DEF StepForm

LEMMA GoForm ==
  ASSUME TypeInv, NEW p \in Terminals, NEW place \in Places, GoTo(p, place),
         UNCHANGED <<machine, keychain, command, key, promised, stored,
                     troubled, misled>>,
         OnTerminals(secret)', OnTerminals(task)', OnTerminals(channel)',
         \A q \in Terminals \ {p} : secret'[q] = secret[q]
  PROVE  /\ TypeInv' /\ OthersKept(p) /\ UNCHANGED <<keychain, stored, machine>>
         /\ pc'[p] = place
BY DEF TypeInv, OnTerminals, GoTo, OthersKept

LEMMA JustGoToForm ==
  ASSUME TypeInv, NEW p \in Terminals,
         NEW place \in Places \ {"find", "read", "ready", "wait", "submitted",
                                 "store"},
         JustGoTo(p, place)
  PROVE  StepForm(p)
<1>1. /\ GoTo(p, place)
      /\ UNCHANGED <<machine, keychain, command, key, promised, stored,
                     troubled, misled, secret, task, channel>>
  BY DEF JustGoTo, history
<1>2. OnTerminals(secret)' /\ OnTerminals(task)' /\ OnTerminals(channel)'
  BY <1>1 DEF TypeInv, OnTerminals
<1>3. /\ TypeInv' /\ OthersKept(p) /\ UNCHANGED <<keychain, stored, machine>>
      /\ pc'[p] = place
  BY <1>1, <1>2, GoForm
<1>4. Goes(p)
  BY <1>1, <1>3 DEF Goes
<1> QED BY <1>3, <1>4 DEF StepForm

LEMMA ResolvedForm ==
  ASSUME TypeInv, NEW p \in Terminals, NEW value, Resolved(p, value),
         UNCHANGED <<machine, keychain, command, secret, task, channel, stored,
                     promised>>,
         troubled \subseteq troubled', misled \subseteq misled'
  PROVE  TypeInv' /\ OthersKept(p) /\ UNCHANGED <<keychain, stored, machine>>
BY DEF TypeInv, OnTerminals, Resolved, GoTo, OthersKept, Places

LEMMA StartForm ==
  ASSUME TypeInv, NEW p \in Terminals, Start(p)
  PROVE  StepForm(p)
<1>1. PICK c \in Commands :
        /\ command' = [command EXCEPT ![p] = c]
        /\ promised' = IF c.op \in WithTask
                       THEN [promised EXCEPT ![p] = stored[ApiKey]]
                       ELSE promised
  BY DEF Start
<1>2. /\ GoTo(p, "find")
      /\ UNCHANGED <<machine, keychain, key, secret, task, channel, stored,
                     troubled, misled>>
  BY DEF Start
<1>3. command' \in [Terminals -> Commands] /\ pc' \in [Terminals -> Places]
  BY <1>1, <1>2 DEF TypeInv, GoTo, Places
<1>4. OnTerminals(promised)'
  BY <1>1 DEF TypeInv, OnTerminals
<1>5. TypeInv'
  BY <1>2, <1>3, <1>4 DEF TypeInv, OnTerminals
<1>6. OthersKept(p)
  <2>1. \A q \in Terminals \ {p} : /\ command'[q] = command[q]
                                   /\ promised'[q] = promised[q]
                                   /\ pc'[q] = pc[q]
    BY <1>1, <1>2 DEF TypeInv, OnTerminals, GoTo
  <2> QED BY <1>2, <2>1 DEF OthersKept
<1> QED BY <1>2, <1>5, <1>6 DEF StepForm

LEMMA ResolveForm ==
  ASSUME TypeInv, NEW p \in Terminals, Resolve(p)
  PROVE  StepForm(p)
<1>1. CASE FindInKeychain(p)
  <2>1. /\ GoTo(p, "read") /\ "read" \in Places
        /\ UNCHANGED <<machine, keychain, command, key, promised, stored,
                       troubled, misled, secret, task, channel>>
    BY <1>1 DEF FindInKeychain, JustGoTo, history, Places
  <2>2. OnTerminals(secret)' /\ OnTerminals(task)' /\ OnTerminals(channel)'
    BY <2>1 DEF TypeInv, OnTerminals
  <2>3. TypeInv' /\ OthersKept(p) /\ UNCHANGED <<keychain, stored, machine>>
    BY <2>1, <2>2, GoForm
  <2> QED BY <1>1, <2>3 DEF StepForm
<1>2. CASE FindInEnvironment(p)
  <2>1. /\ Resolved(p, KeyOfEnvironment)
        /\ UNCHANGED <<machine, keychain, command, secret, task, channel, stored,
                       promised>>
        /\ troubled \subseteq troubled' /\ misled \subseteq misled'
    BY <1>2 DEF FindInEnvironment
  <2>2. TypeInv' /\ OthersKept(p) /\ UNCHANGED <<keychain, stored, machine>>
    BY <2>1, ResolvedForm
  <2> QED BY <1>2, <2>2 DEF StepForm
<1>3. CASE ReadKeychain(p)
  <2>1. PICK ok \in BOOLEAN :
          /\ Resolved(p, IF Exists(ApiKey, ok) THEN Get(ApiKey) ELSE Empty)
          /\ UNCHANGED <<machine, keychain, command, secret, task, channel,
                         stored, promised>>
          /\ troubled \subseteq troubled' /\ misled \subseteq misled'
    BY <1>3 DEF ReadKeychain
  <2>2. TypeInv' /\ OthersKept(p) /\ UNCHANGED <<keychain, stored, machine>>
    BY <2>1, ResolvedForm
  <2> QED BY <1>3, <2>2 DEF StepForm
<1> QED BY <1>1, <1>2, <1>3 DEF Resolve

LEMMA TaskForm ==
  ASSUME TypeInv, NEW p \in Terminals, Task(p)
  PROVE  StepForm(p)
<1>1. UNCHANGED <<machine, keychain, stored, pc, command, key, secret, promised,
                  troubled, misled>>
  BY DEF Task, StartTask, LoopReturns, history
<1>2. OnTerminals(task)' /\ OnTerminals(channel)'
  BY DEF Task, StartTask, LoopReturns, TaskStep, TypeInv, OnTerminals
<1>3. TypeInv' /\ OthersKept(p)
  BY <1>1, <1>2 DEF TypeInv, OnTerminals, OthersKept
<1> QED BY <1>1, <1>3 DEF StepForm

LEMMA SubmitForm ==
  ASSUME TypeInv, NEW p \in Terminals, Submit(p)
  PROVE  StepForm(p)
<1>1. PICK place \in {"wait", "submitted"} : GoTo(p, place)
  BY DEF Submit
<1>2. /\ UNCHANGED <<machine, keychain, command, key, promised, stored,
                     troubled, misled, secret, channel>>
      /\ task' = [task EXCEPT ![p] = "pending"] /\ pc[p] = "ready"
  BY DEF Submit, history, TaskStep, At
<1>3. OnTerminals(secret)' /\ OnTerminals(task)' /\ OnTerminals(channel)'
  BY <1>2 DEF TypeInv, OnTerminals
<1>4. /\ TypeInv' /\ OthersKept(p) /\ UNCHANGED <<keychain, stored, machine>>
      /\ pc'[p] = place
  BY <1>1, <1>2, <1>3, GoForm DEF Places
<1>5. Goes(p)
  BY <1>2, <1>4 DEF Goes
<1> QED BY <1>4, <1>5 DEF StepForm

LEMMA EnterForm ==
  ASSUME TypeInv, NEW p \in Terminals, EnterSecret(p)
  PROVE  StepForm(p)
<1>1. CASE JustExit(p)
  BY <1>1, JustExitForm
<1>2. CASE ~JustExit(p)
  <2>1. PICK s \in Secrets[Name(p)] : secret' = [secret EXCEPT ![p] = s]
    BY <1>2 DEF EnterSecret
  <2>2. /\ GoTo(p, "store")
        /\ UNCHANGED <<machine, keychain, command, key, promised, stored,
                       troubled, misled, task, channel>>
    BY <1>2 DEF EnterSecret, history
  <2>3. /\ OnTerminals(secret)' /\ OnTerminals(task)' /\ OnTerminals(channel)'
        /\ secret'[p] = s
        /\ \A q \in Terminals \ {p} : secret'[q] = secret[q]
    BY <2>1, <2>2 DEF TypeInv, OnTerminals
  <2>4. /\ TypeInv' /\ OthersKept(p) /\ UNCHANGED <<keychain, stored, machine>>
        /\ pc'[p] = "store"
    BY <2>2, <2>3, GoForm DEF Places
  <2>5. Goes(p)
    BY <2>2, <2>3, <2>4 DEF Goes
  <2> QED BY <2>4, <2>5 DEF StepForm
<1> QED BY <1>1, <1>2

LEMMA KeyForm ==
  ASSUME TypeInv, NEW p \in Terminals, KeyCommand(p)
  PROVE  StepForm(p)
<1>1. CASE EnterSecret(p)
  BY <1>1, EnterForm
<1>2. CASE StoreInKeychain(p) \/ DeleteFromKeychain(p)
  <2>1. ExitChanging(p)
    BY <1>2 DEF StoreInKeychain, DeleteFromKeychain
  <2> QED BY <1>2, <2>1, ExitChangingForm DEF Changes
<1>3. CASE ~EnterSecret(p) /\ ~StoreInKeychain(p) /\ ~DeleteFromKeychain(p)
  <2>1. \/ JustExit(p)
        \/ \E place \in {"overwrite", "enter", "sure", "delete"} :
             JustGoTo(p, place)
    BY <1>3 DEF KeyCommand, CheckSetup, Overwrite, StoreFails, StoreInProcess,
                CheckClear, Sure, DeleteFails, DeleteInProcess
  <2> QED BY <2>1, JustExitForm, JustGoToForm DEF Places
<1> QED BY <1>1, <1>2, <1>3

(* Every step is a step of one process and has the form.                   *)
LEMMA StepForms ==
  ASSUME TypeInv, Next
  PROVE  \E p \in Terminals : StepForm(p)
<1>1. PICK p \in Terminals :
        \/ Start(p) \/ Interrupt(p)
        \/ Resolve(p) \/ Task(p) \/ TaskCommand(p) \/ KeyCommand(p)
  BY DEF Next
<1>2. CASE Interrupt(p) \/ PrintResult(p) \/ PrintId(p) \/ Query(p)
  BY <1>2, JustExitForm DEF Interrupt, PrintResult, PrintId, Query
<1> QED
  BY <1>1, <1>2, StartForm, ResolveForm, TaskForm, SubmitForm, KeyForm
     DEF TaskCommand

LEMMA TypeInvariant == Spec => []TypeInv
<1>1. Init => TypeInv
  BY NamesAssumption DEF Init, TypeInv, OnTerminals, Places, Commands
<1>2. TypeInv /\ [Next]_vars => TypeInv'
  <2>1. ASSUME TypeInv, UNCHANGED vars PROVE TypeInv'
    BY <2>1 DEF TypeInv, OnTerminals, vars, process, history
  <2>2. ASSUME TypeInv, Next PROVE TypeInv'
    BY <2>2, StepForms DEF StepForm
  <2> QED BY <2>1, <2>2
<1> QED BY <1>1, <1>2, PTL DEF Spec

-----------------------------------------------------------------------------
(* The keychain.                                                           *)

LEMMA NameType ==
  ASSUME TypeInv, NEW p \in Terminals
  PROVE  Name(p) \in Names
<1>1. command[p] \in Commands
  BY DEF TypeInv
<1> QED BY <1>1, NamesAssumption DEF Commands, Name

(* On Linux, what setup has reported as stored is in the keychain, and     *)
(* nothing else under that name.                                           *)
StoredInv ==
  \A n \in Names :
    backend = "linux" /\ stored[n] # None =>
      /\ IsAvailable /\ Has(n)
      /\ \A item \in keychain : item.name = n => item.secret = stored[n]

LEMMA StoredStep == TypeInv /\ StoredInv /\ [Next]_vars => StoredInv'
<1> SUFFICES ASSUME TypeInv, StoredInv, [Next]_vars PROVE StoredInv'
  OBVIOUS
<1> USE DEF StoredInv, IsAvailable, Has
<1>1. CASE UNCHANGED vars
  BY <1>1 DEF vars, machine, history
<1>2. CASE Next
  <2>1. PICK p \in Terminals : StepForm(p)
    BY <1>2, StepForms
  <2>2. UNCHANGED backend
    BY <2>1 DEF StepForm, machine
  <2>3. CASE UNCHANGED <<keychain, stored>>
    BY <2>2, <2>3
  <2>4. CASE StoreInKeychain(p)
    <3> DEFINE entry == [name |-> Name(p), secret |-> secret[p]]
    <3>1. backend = "linux" =>
            keychain' = {item \in keychain : item.name # Name(p)} \cup {entry}
      BY <2>4 DEF StoreInKeychain, Set, SetNamed
    <3>2. \A n \in Names :
            stored'[n] = IF n = Name(p) THEN secret[p] ELSE stored[n]
      BY <2>4 DEF StoreInKeychain, Reported, TypeInv
    <3>3. entry.name = Name(p) /\ entry.secret = secret[p]
      OBVIOUS
    <3> SUFFICES ASSUME NEW n \in Names, backend = "linux", stored'[n] # None
                 PROVE  /\ \E item \in keychain' : item.name = n
                        /\ \A item \in keychain' :
                             item.name = n => item.secret = stored'[n]
      BY <2>2
    <3> HIDE DEF entry
    <3>4. CASE n = Name(p)
      BY <3>1, <3>2, <3>3, <3>4
    <3>5. CASE n # Name(p)
      BY <3>1, <3>2, <3>3, <3>5
    <3> QED BY <3>4, <3>5
  <2>5. CASE DeleteFromKeychain(p)
    <3>1. keychain' = {item \in keychain : item.name # Name(p)}
      BY <2>5 DEF DeleteFromKeychain, Delete
    <3>2. \A n \in Names : stored'[n] = IF n = Name(p) THEN None ELSE stored[n]
      BY <2>5 DEF DeleteFromKeychain, TypeInv
    <3> QED BY <2>2, <3>1, <3>2
  <2> QED BY <2>1, <2>3, <2>4, <2>5 DEF StepForm, Changes
<1> QED BY <1>1, <1>2

(* What is or will be in the keychain is a secret that a person entered    *)
(* for the name it is under.                                               *)
SecretInv ==
  /\ \A item \in keychain :
       item.name \in Names /\ item.secret \in Secrets[item.name]
  /\ \A p \in Terminals : pc[p] = "store" => secret[p] \in Secrets[Name(p)]

LEMMA SecretStep == TypeInv /\ SecretInv /\ [Next]_vars => SecretInv'
<1> SUFFICES ASSUME TypeInv, SecretInv, [Next]_vars PROVE SecretInv'
  OBVIOUS
<1>1. CASE UNCHANGED vars
  BY <1>1 DEF vars, process, SecretInv, Name
<1>2. CASE Next
  <2>1. PICK p \in Terminals : StepForm(p)
    BY <1>2, StepForms
  <2>2. ASSUME NEW q \in Terminals, pc'[q] = "store"
        PROVE  secret'[q] \in Secrets[Name(q)']
    <3>1. CASE q # p
      BY <2>1, <2>2, <3>1 DEF StepForm, OthersKept, SecretInv, Name
    <3>2. CASE q = p
      <4>1. \/ Goes(p)
            \/ UNCHANGED <<pc, command, key, secret, promised, troubled, misled>>
        BY <2>1, <2>2, <3>2
           DEF StepForm, Ends, Start, FindInKeychain, FindInEnvironment,
               ReadKeychain, Resolved, JustGoTo, GoTo, TypeInv
      <4> QED BY <2>2, <3>2, <4>1 DEF Goes, SecretInv, Name
    <3> QED BY <3>1, <3>2
  <2>3. ASSUME NEW item \in keychain'
        PROVE  item.name \in Names /\ item.secret \in Secrets[item.name]
    <3>1. CASE item \in keychain
      BY <3>1 DEF SecretInv
    <3>2. CASE item \notin keychain
      <4>1. StoreInKeychain(p)
        BY <2>1, <2>3, <3>2 DEF StepForm, Changes, DeleteFromKeychain, Delete
      <4>2. item = [name |-> Name(p), secret |-> secret[p]] /\ pc[p] = "store"
        BY <2>3, <3>2, <4>1
           DEF StoreInKeychain, Set, SetDarwin, SetNamed, At
      <4> QED BY <4>2, NameType DEF SecretInv
    <3> QED BY <3>1, <3>2
  <2> QED BY <2>2, <2>3 DEF SecretInv
<1> QED BY <1>1, <1>2

-----------------------------------------------------------------------------
(* The key of a process.                                                   *)

(* While a process looks for its key undisturbed, what was promised to it  *)
(* is still what is stored.                                                *)
LookingInv ==
  \A p \in Terminals :
    pc[p] \in {"find", "read"} /\ Op(p) \in WithTask /\ p \notin troubled
      => promised[p] = stored[ApiKey]

LEMMA LookingStep == TypeInv /\ LookingInv /\ [Next]_vars => LookingInv'
<1> SUFFICES ASSUME TypeInv, LookingInv, [Next]_vars PROVE LookingInv'
  OBVIOUS
<1>1. CASE UNCHANGED vars
  BY <1>1 DEF vars, process, history, LookingInv, Op
<1>2. CASE Next
  <2>1. PICK p \in Terminals : StepForm(p)
    BY <1>2, StepForms
  <2> SUFFICES ASSUME NEW q \in Terminals, pc'[q] \in {"find", "read"},
                      Op(q)' \in WithTask, q \notin troubled'
               PROVE  promised'[q] = stored'[ApiKey]
    BY DEF LookingInv, WithTask
  <2>2. CASE q # p
    <3>1. /\ pc'[q] = pc[q] /\ Op(q)' = Op(q) /\ promised'[q] = promised[q]
          /\ q \notin troubled
      BY <2>1, <2>2 DEF StepForm, OthersKept, Op
    <3>2. CASE UNCHANGED stored
      BY <3>1, <3>2 DEF LookingInv
    <3>3. CASE Changes(p)
      <4>1. Looking(p) \subseteq troubled'
        BY <3>3 DEF Changes, StoreInKeychain, DeleteFromKeychain, ExitChanging
      <4>2. q \in Looking(p)
        BY <2>2, <3>1 DEF Looking
      <4> QED BY <4>1, <4>2
    <3> QED BY <2>1, <3>2, <3>3 DEF StepForm
  <2>3. CASE q = p
    <3>1. ~Ends(p) /\ ~Goes(p) /\ UNCHANGED stored
      BY <2>1, <2>3 DEF StepForm, Ends, Goes
    <3>2. CASE Start(p)
      BY <2>3, <3>2 DEF Start, Op, TypeInv, OnTerminals
    <3>3. CASE FindInKeychain(p)
      BY <2>3, <3>1, <3>3
         DEF FindInKeychain, JustGoTo, history, At, LookingInv, Op
    <3>4. CASE FindInEnvironment(p) \/ ReadKeychain(p)
      BY <2>3, <3>4
         DEF FindInEnvironment, ReadKeychain, Resolved, GoTo, TypeInv
    <3>5. CASE UNCHANGED <<pc, command, key, secret, promised, troubled, misled>>
      BY <3>1, <3>5 DEF LookingInv, Op
    <3> QED BY <2>1, <3>1, <3>2, <3>3, <3>4, <3>5 DEF StepForm
  <2> QED BY <2>2, <2>3
<1> QED BY <1>1, <1>2

(* A process that has decided has just done so or keeps its key.           *)
LEMMA DecidedForm ==
  ASSUME TypeInv, Next, NEW q \in Terminals, Decided(q)'
  PROVE  \/ FindInEnvironment(q) \/ ReadKeychain(q)
         \/ /\ Decided(q) /\ key'[q] = key[q] /\ promised'[q] = promised[q]
            /\ q \in troubled => q \in troubled'
            /\ q \in misled => q \in misled'
<1>1. PICK p \in Terminals : StepForm(p)
  BY StepForms
<1>2. CASE q # p
  BY <1>1, <1>2 DEF StepForm, OthersKept, Decided, Op, WithTask
<1>3. CASE q = p
  <2>1. pc'[p] \in {"ready", "wait", "submitted"}
    BY <1>3 DEF Decided
  <2>2. ~Start(p) /\ ~FindInKeychain(p) /\ ~Ends(p)
    BY <2>1 DEF Start, FindInKeychain, JustGoTo, GoTo, Ends, TypeInv
  <2>3. CASE Goes(p)
    BY <1>3, <2>1, <2>3 DEF Goes, Decided, Op, WithTask
  <2>4. CASE UNCHANGED <<pc, command, key, secret, promised, troubled, misled>>
    BY <1>3, <2>4 DEF Decided, Op, WithTask
  <2> QED BY <1>1, <1>3, <2>2, <2>3, <2>4 DEF StepForm
<1> QED BY <1>2, <1>3

(* Where the key comes from.                                               *)
LEMMA FoundKey ==
  ASSUME TypeInv, NEW p \in Terminals, Decided(p)',
         FindInEnvironment(p) \/ ReadKeychain(p)
  PROVE  /\ pc[p] \in {"find", "read"} /\ Op(p) \in WithTask
         /\ UNCHANGED <<machine, keychain, stored, promised>>
         /\ troubled \subseteq troubled'
         /\ \/ /\ p \in troubled' \/ ~(IsAvailable /\ Has(ApiKey))
               /\ key'[p] = KeyOfEnvironment
            \/ Has(ApiKey) /\ key'[p] = Get(ApiKey)
            \/ p \in troubled' /\ p \in misled' /\ key'[p] = Empty
<1>1. Op(p) \in WithTask /\ p \in Using(p)
  BY DEF FindInEnvironment, ReadKeychain, Decided, Op, WithTask, Using
<1>2. ASSUME NEW value, Resolved(p, value) PROVE key'[p] = value
  BY <1>1, <1>2 DEF Resolved, TypeInv, OnTerminals
<1>3. CASE FindInEnvironment(p)
  BY <1>1, <1>2, <1>3 DEF FindInEnvironment, At, Exists
<1>4. CASE ReadKeychain(p)
  BY <1>1, <1>2, <1>4 DEF ReadKeychain, At, Exists
<1> QED BY <1>3, <1>4

LEMMA StoredKeyStep ==
  TypeInv /\ StoredInv /\ LookingInv /\ StoredKeyIsUsed /\ [Next]_vars
    => StoredKeyIsUsed'
<1> SUFFICES ASSUME TypeInv, StoredInv, LookingInv, StoredKeyIsUsed, Next
             PROVE  StoredKeyIsUsed'
  BY DEF StoredKeyIsUsed, vars, process, history, machine, Decided, Op
<1> SUFFICES ASSUME NEW q \in Terminals, Decided(q)', q \notin troubled',
                    backend' = "linux", promised'[q] # None
             PROVE  key'[q] = promised'[q]
  BY DEF StoredKeyIsUsed
<1>1. CASE FindInEnvironment(q) \/ ReadKeychain(q)
  <2>1. /\ promised'[q] = stored[ApiKey] /\ backend = "linux"
        /\ \/ ~(IsAvailable /\ Has(ApiKey))
           \/ Has(ApiKey) /\ key'[q] = Get(ApiKey)
    BY <1>1, FoundKey DEF LookingInv, machine
  <2>2. /\ IsAvailable /\ Has(ApiKey)
        /\ \A item \in keychain :
             item.name = ApiKey => item.secret = stored[ApiKey]
    BY <2>1, NamesAssumption DEF StoredInv
  <2>3. Get(ApiKey) = stored[ApiKey]
    BY <2>1, <2>2 DEF Get, Has
  <2> QED BY <2>1, <2>2, <2>3
<1>2. CASE ~(FindInEnvironment(q) \/ ReadKeychain(q))
  <2>1. backend' = backend
    BY StepForms DEF StepForm, machine
  <2>2. /\ Decided(q) /\ key'[q] = key[q] /\ promised'[q] = promised[q]
        /\ q \notin troubled
    BY <1>2, DecidedForm
  <2> QED BY <2>1, <2>2 DEF StoredKeyIsUsed
<1> QED BY <1>1, <1>2

(* On Linux a stored key is the key that later processes use, whatever     *)
(* else is stored, cleared or set in the environment meanwhile.            *)
THEOREM StoredKeyIsUsedCorrect == Spec => []StoredKeyIsUsed
<1>1. Init => StoredInv /\ LookingInv /\ StoredKeyIsUsed
  BY DEF Init, StoredInv, LookingInv, StoredKeyIsUsed, Decided
<1> QED
  BY <1>1, StoredStep, LookingStep, StoredKeyStep, TypeInvariant, PTL DEF Spec

(* What Get gives back of the key that Has found.                          *)
LEMMA GotKey ==
  ASSUME SecretInv, Has(ApiKey)
  PROVE  \/ Get(ApiKey) \in Secrets[ApiKey]
         \/ Get(ApiKey) = Marker /\ backend = "windows"
<1>1. (CHOOSE item \in keychain : item.name = ApiKey) \in
        {item \in keychain : item.name = ApiKey}
  BY DEF Has
<1> QED BY <1>1 DEF Get, SecretInv

LEMMA KeyIsOwnStep ==
  TypeInv /\ SecretInv /\ KeyIsOwn /\ [Next]_vars => KeyIsOwn'
<1> USE DEF KeyOfEnvironment, EnvExists, EnvGet, LoadDotEnv
<1> SUFFICES ASSUME TypeInv, SecretInv, KeyIsOwn, Next
             PROVE  KeyIsOwn'
  BY DEF KeyIsOwn, vars, process, history, machine, Decided, Op
<1>0. UNCHANGED <<backend, environ, dotenv>>
  BY StepForms DEF StepForm, machine
<1> SUFFICES ASSUME NEW q \in Terminals, Decided(q)'
             PROVE  \/ key'[q] \in Secrets[ApiKey]
                    \/ key'[q] = Marker /\ backend = "windows"
                    \/ key'[q] = KeyOfEnvironment
                    \/ key'[q] = Empty
  BY <1>0 DEF KeyIsOwn
<1>1. CASE FindInEnvironment(q) \/ ReadKeychain(q)
  BY <1>1, FoundKey, GotKey
<1>2. CASE ~(FindInEnvironment(q) \/ ReadKeychain(q))
  <2>1. Decided(q) /\ key'[q] = key[q]
    BY <1>2, DecidedForm
  <2> QED BY <2>1 DEF KeyIsOwn
<1> QED BY <1>1, <1>2

(* Whatever the keychain does to other names, no process uses the secret   *)
(* of another name as its key.                                             *)
THEOREM KeyIsOwnCorrect == Spec => []KeyIsOwn
<1>1. Init => SecretInv /\ KeyIsOwn
  BY DEF Init, SecretInv, KeyIsOwn, Decided
<1> QED BY <1>1, SecretStep, KeyIsOwnStep, TypeInvariant, PTL DEF Spec

LEMMA NoSilentMockStep ==
  TypeInv /\ SecretInv /\ NoSilentMock /\ [Next]_vars => NoSilentMock'
<1> SUFFICES ASSUME TypeInv, SecretInv, NoSilentMock, Next
             PROVE  NoSilentMock'
  BY DEF NoSilentMock, vars, process, history, machine, Decided, Op
<1>0. UNCHANGED <<environ, dotenv>>
  BY StepForms DEF StepForm, machine
<1> SUFFICES ASSUME NEW q \in Terminals, Decided(q)', q \notin misled',
                    key'[q] = Empty
             PROVE  /\ environ[ApiKey] \in {None, Empty}
                    /\ environ[ApiKey] = None => dotenv[ApiKey] \in {None, Empty}
  BY <1>0 DEF NoSilentMock
<1>1. CASE FindInEnvironment(q) \/ ReadKeychain(q)
  <2>1. Has(ApiKey) => Get(ApiKey) # Empty
    BY GotKey, NamesAssumption, SecretsAssumption DEF Empty, Marker
  <2>2. KeyOfEnvironment = Empty
    BY <1>1, <2>1, FoundKey
  <2> QED BY <2>2 DEF KeyOfEnvironment, EnvExists, EnvGet, LoadDotEnv
<1>2. CASE ~(FindInEnvironment(q) \/ ReadKeychain(q))
  BY <1>2, DecidedForm DEF NoSilentMock
<1> QED BY <1>1, <1>2

(* A process goes without a key that the environment or .env has for it    *)
(* only when the keychain takes back what it has just reported.            *)
THEOREM NoSilentMockCorrect == Spec => []NoSilentMock
<1>1. Init => SecretInv /\ NoSilentMock
  BY DEF Init, SecretInv, NoSilentMock, Decided
<1> QED BY <1>1, SecretStep, NoSilentMockStep, TypeInvariant, PTL DEF Spec
=============================================================================
