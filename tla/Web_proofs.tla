----------------------------- MODULE Web_proofs -----------------------------
(***************************************************************************)
(* Proofs about the web server and its pages, for any visitors, any number *)
(* of tasks, of requests on their way and of restarts.                     *)
(***************************************************************************)
EXTENDS Web, FiniteSetTheorems, TLAPS

Row == [id : Ids, status : Manager!Statuses, of : Visitors, at : Nat]

Message ==
  [op : {"list", "submit", "cancel", "get"}, id : Ids \cup {None},
   stage : {"sent", "found", "ok", "error"}, rows : SUBSET Row]

Panel == [id : Ids, of : Visitors] \cup {NotFound}

ServerType ==
  /\ Manager!TypeOK
  /\ owner \in [Ids -> Visitors \cup {None}]
  /\ by \in [Ids -> SUBSET Visitors]
  /\ epoch \in Nat

PageType ==
  /\ flight \in [Pages -> SUBSET Message]
  /\ rows \in [Pages -> SUBSET Row]
  /\ selected \in [Pages -> Ids \cup {None}]
  /\ detail \in [Pages -> SUBSET Panel]

TypeInv == ServerType /\ PageType

-----------------------------------------------------------------------------
(* Requests, answers and rows.                                             *)

LEMMA RequestType ==
  ASSUME NEW op \in {"list", "submit", "cancel", "get"},
         NEW id \in Ids \cup {None}
  PROVE  /\ Request(op, id) \in Message
         /\ Request(op, id).rows = {}
         /\ Request(op, id).stage = "sent"
BY DEF Request, Message

LEMMA RowType ==
  ASSUME ServerType, NEW v \in Pages, NEW id \in Ids, Serves(v, id)
  PROVE  RowOf(id) \in Row
<1>1. state[id] \in Manager!Statuses
  BY DEF ServerType, Manager!TypeOK, Serves, Registered
<1>2. owner[id] \in Visitors
  BY PagesAssumption DEF Serves
<1> QED BY <1>1, <1>2 DEF ServerType, RowOf, Row

(* What one page has sent or received, when messages of one page move.     *)
LEMMA FlightType ==
  ASSUME flight \in [Pages -> SUBSET Message], NEW v \in Pages,
         NEW old, NEW new \in SUBSET Message,
         flight' = [flight EXCEPT ![v] = (@ \ old) \cup new]
  PROVE  /\ flight' \in [Pages -> SUBSET Message]
         /\ flight'[v] = (flight[v] \ old) \cup new
         /\ \A w \in Pages : w # v => flight'[w] = flight[w]
OBVIOUS

-----------------------------------------------------------------------------
(* Where the messages come from.                                           *)

ServedTo(v) == {RowOf(id) : id \in {i \in Ids : Serves(v, i)}}

(* A message that a step adds carries rows only if the server has just     *)
(* served them, and says "found" only if the server has just found a task  *)
(* of this visitor.                                                        *)
Genuine(v, m) ==
  /\ m \in Message
  /\ m.rows = {} \/ (m.rows \subseteq ServedTo(v) /\ UNCHANGED server)
  /\ m.stage = "found" => m.id \in Ids /\ Serves(v, m.id) /\ UNCHANGED server

(* Every step leaves a page's messages alone or replaces some of them by   *)
(* genuine ones.                                                           *)
FlightStep ==
  /\ flight' \in [Pages -> SUBSET Message]
  /\ \A v \in Pages : \A m \in flight'[v] \ flight[v] : Genuine(v, m)

LEMMA FlightFrame ==
  ASSUME PageType, UNCHANGED flight
  PROVE  FlightStep
BY DEF FlightStep, PageType

LEMMA FlightChange ==
  ASSUME PageType, NEW v \in Pages, NEW old, NEW new,
         \A m \in new : Genuine(v, m),
         flight' = [flight EXCEPT ![v] = (@ \ old) \cup new]
  PROVE  FlightStep
<1>1. new \in SUBSET Message
  BY DEF Genuine
<1> QED BY <1>1, FlightType DEF FlightStep, PageType

LEMMA MoveStep ==
  ASSUME PageType, NEW v \in Pages, NEW q, NEW new,
         \A m \in new : Genuine(v, m), Move(v, q, new)
  PROVE  FlightStep
BY FlightChange DEF Move

LEMMA SendStep ==
  ASSUME PageType, NEW v \in Pages, NEW new,
         \A m \in new : Genuine(v, m), Send(v, new)
  PROVE  FlightStep
<1>1. flight' = [flight EXCEPT ![v] = (@ \ {}) \cup new]
  BY DEF Send
<1> QED BY <1>1, FlightChange

LEMMA RequestGenuine ==
  ASSUME NEW v \in Pages, NEW op \in {"list", "submit", "cancel", "get"},
         NEW id \in Ids \cup {None}
  PROVE  Genuine(v, Request(op, id))
BY RequestType DEF Genuine

LEMMA FetchGenuine == ASSUME NEW v \in Pages PROVE Genuine(v, FetchTasks)
BY RequestGenuine DEF FetchTasks

(* The server's answer without rows, and the one with rows it serves.      *)
LEMMA AnswerStep ==
  ASSUME TypeInv, NEW v \in Pages, NEW q \in flight[v],
         NEW stage \in {"ok", "error", "found"}, NEW shown,
         Answer(v, q, stage, shown),
         shown = {} \/ (shown \subseteq ServedTo(v) /\ UNCHANGED server),
         stage = "found" => q.id \in Ids /\ Serves(v, q.id) /\ UNCHANGED server
  PROVE  FlightStep
<1> DEFINE answer == [q EXCEPT !.stage = stage, !.rows = shown]
<1>1. q \in Message
  BY DEF TypeInv, PageType
<1>2. shown \in SUBSET Row
  <2>1. ServedTo(v) \subseteq Row
    BY RowType DEF ServedTo, TypeInv
  <2> QED BY <2>1
<1>3. /\ answer \in Message
      /\ answer.stage = stage /\ answer.rows = shown /\ answer.id = q.id
  BY <1>1, <1>2 DEF Message
<1>4. Genuine(v, answer)
  BY <1>3 DEF Genuine
<1> QED BY <1>4, MoveStep DEF Answer, TypeInv

LEMMA FlightInvariant == TypeInv /\ [Next]_vars => FlightStep
<1> SUFFICES ASSUME TypeInv, [Next]_vars PROVE FlightStep
  OBVIOUS
<1>0. PageType
  BY DEF TypeInv
<1>1. CASE UNCHANGED vars
  BY <1>0, <1>1, FlightFrame DEF vars
<1>2. ASSUME NEW v \in Pages, Tick(v) PROVE FlightStep
  BY <1>0, <1>2, FetchGenuine, SendStep DEF Tick
<1>3. ASSUME NEW v \in Pages, Click(v) PROVE FlightStep
  <2>1. CASE ClickSubmit(v)
    BY <1>0, <2>1, RequestGenuine, SendStep DEF ClickSubmit
  <2>2. CASE ClickCancel(v)
    <3>1. PICK row \in rows[v] : Send(v, {Request("cancel", row.id)})
      BY <2>2 DEF ClickCancel
    <3>2. row.id \in Ids
      BY <1>0 DEF PageType, Row
    <3> QED BY <1>0, <3>1, <3>2, RequestGenuine, SendStep
  <2>3. CASE SelectTask(v)
    <3>1. PICK row \in rows[v] : Send(v, {FetchTasks, Request("get", row.id)})
      BY <2>3 DEF SelectTask
    <3>2. row.id \in Ids
      BY <1>0 DEF PageType, Row
    <3> QED BY <1>0, <3>1, <3>2, RequestGenuine, FetchGenuine, SendStep
  <2>4. CASE CloseDetail(v)
    BY <1>0, <2>4, FetchGenuine, SendStep DEF CloseDetail
  <2> QED BY <1>3, <2>1, <2>2, <2>3, <2>4 DEF Click
<1>4. ASSUME NEW v \in Pages, NEW q \in flight[v], Serve(v, q)
      PROVE  FlightStep
  <2>1. CASE SubmitTask(v, q)
    BY <2>1, AnswerStep DEF SubmitTask
  <2>2. CASE ListTasks(v, q)
    BY <2>2, AnswerStep DEF ListTasks, ServedTo
  <2>3. CASE GetTask(v, q)
    <3>1. CASE Serves(v, q.id)
      <4>1. {RowOf(q.id)} \subseteq ServedTo(v)
        BY <3>1 DEF ServedTo, Serves, Registered
      <4> QED BY <2>3, <3>1, <4>1, AnswerStep DEF GetTask
    <3>2. CASE ~Serves(v, q.id)
      BY <2>3, <3>2, AnswerStep DEF GetTask
    <3> QED BY <3>1, <3>2
  <2>4. CASE FindTask(v, q)
    <3>1. Serves(v, q.id) => q.id \in Ids
      BY DEF Serves, Registered
    <3> QED BY <2>4, <3>1, AnswerStep DEF FindTask
  <2>5. CASE CancelTask(v, q)
    BY <2>5, AnswerStep DEF CancelTask
  <2> QED BY <1>4, <2>1, <2>2, <2>3, <2>4, <2>5 DEF Serve
<1>5. ASSUME NEW v \in Pages, NEW q \in flight[v], Receive(v, q) \/ Lose(v, q)
      PROVE  FlightStep
  <2>1. Move(v, q, {}) \/ Move(v, q, {FetchTasks})
    BY <1>5 DEF Receive, ReceiveList, ReceiveTask, ReceiveDone, Lose
  <2> QED BY <1>0, <2>1, FetchGenuine, MoveStep
<1>6. ASSUME NEW v \in Visitors \ Pages, Script(v) PROVE FlightStep
  BY <1>0, <1>6, FlightFrame DEF Script
<1>7. ASSUME NEW id \in Ids, TaskProgress(id) PROVE FlightStep
  BY <1>0, <1>7, FlightFrame DEF TaskProgress
<1>8. CASE Restart
  <2>1. flight' = [v \in Pages |-> {q \in flight[v] : q.stage # "found"}]
    BY <1>8 DEF Restart
  <2> QED BY <1>0, <2>1 DEF FlightStep, PageType
<1> QED
  BY <1>1, <1>2, <1>3, <1>4, <1>5, <1>6, <1>7, <1>8 DEF Next

-----------------------------------------------------------------------------
(* What a step does to the lists and panels displayed.                     *)

PageStep ==
  /\ rows' \in [Pages -> SUBSET Row]
  /\ \A v \in Pages :
       rows'[v] = rows[v] \/ \E q \in flight[v] : rows'[v] = q.rows
  /\ selected' \in [Pages -> Ids \cup {None}]
  /\ detail' \in [Pages -> SUBSET Panel]
  /\ \A v \in Pages :
       \/ detail'[v] \subseteq detail[v] \cup {NotFound}
       \/ \E q \in flight[v] : detail'[v] \subseteq PanelOf(q.rows)

LEMMA PageFrame ==
  ASSUME PageType, UNCHANGED <<rows, selected, detail>>
  PROVE  PageStep
BY DEF PageStep, PageType

LEMMA PanelType ==
  ASSUME NEW list \in SUBSET Row
  PROVE  PanelOf(list) \in SUBSET Panel
BY DEF PanelOf, Row, Panel

LEMMA PageInvariant == TypeInv /\ [Next]_vars => PageStep
<1> SUFFICES ASSUME TypeInv, [Next]_vars PROVE PageStep
  OBVIOUS
<1>0. PageType
  BY DEF TypeInv
<1>1. CASE UNCHANGED <<rows, selected, detail>>
  BY <1>0, <1>1, PageFrame
<1>2. ASSUME NEW v \in Pages, SelectTask(v) PROVE PageStep
  <2>1. PICK row \in rows[v] : selected' = [selected EXCEPT ![v] = row.id]
    BY <1>2 DEF SelectTask
  <2>2. row.id \in Ids /\ UNCHANGED <<rows, detail>>
    BY <1>0, <1>2 DEF PageType, Row, SelectTask
  <2> QED BY <1>0, <2>1, <2>2 DEF PageType, PageStep
<1>3. ASSUME NEW v \in Pages, CloseDetail(v) PROVE PageStep
  BY <1>0, <1>3 DEF CloseDetail, PageType, PageStep
<1>4. ASSUME NEW v \in Pages, NEW q \in flight[v], ReceiveList(v, q)
      PROVE  PageStep
  <2> DEFINE chosen == {row \in q.rows : row.id = selected[v]}
  <2>1. q.rows \in SUBSET Row
    BY <1>0 DEF PageType, Message
  <2>2. rows' = [rows EXCEPT ![v] = q.rows] /\ UNCHANGED selected
    BY <1>4 DEF ReceiveList, Render
  <2>3. detail' = detail \/ detail' = [detail EXCEPT ![v] = PanelOf(chosen)]
    BY <1>4 DEF ReceiveList, Render
  <2>4. PanelOf(chosen) \in SUBSET Panel /\ PanelOf(chosen) \subseteq PanelOf(q.rows)
    BY <2>1, PanelType DEF PanelOf
  <2>5. /\ detail' \in [Pages -> SUBSET Panel]
        /\ \A w \in Pages : \/ detail'[w] = detail[w]
                            \/ w = v /\ detail'[w] \subseteq PanelOf(q.rows)
    BY <1>0, <2>3, <2>4 DEF PageType
  <2>6. /\ rows' \in [Pages -> SUBSET Row]
        /\ \A w \in Pages : rows'[w] = rows[w] \/ (w = v /\ rows'[w] = q.rows)
    BY <1>0, <2>1, <2>2 DEF PageType
  <2> QED BY <1>0, <2>2, <2>5, <2>6 DEF PageType, PageStep
<1>5. ASSUME NEW v \in Pages, NEW q \in flight[v], ReceiveTask(v, q)
      PROVE  PageStep
  <2>1. PanelOf(q.rows) \in SUBSET Panel /\ {NotFound} \in SUBSET Panel
    <3>1. q.rows \in SUBSET Row
      BY <1>0 DEF PageType, Message
    <3> QED BY <3>1, PanelType DEF Panel
  <2>2. PICK shown \in {PanelOf(q.rows), {NotFound}} :
          detail' = [detail EXCEPT ![v] = shown]
    BY <1>5 DEF ReceiveTask
  <2>3. /\ detail' \in [Pages -> SUBSET Panel]
        /\ \A w \in Pages : detail'[w] = detail[w] \/ (w = v /\ detail'[w] = shown)
    BY <1>0, <2>1, <2>2 DEF PageType
  <2>4. UNCHANGED <<rows, selected>>
    BY <1>5 DEF ReceiveTask
  <2> QED BY <1>0, <2>2, <2>3, <2>4 DEF PageType, PageStep
<1> QED
  BY <1>1, <1>2, <1>3, <1>4, <1>5
     DEF Next, vars, page, Tick, Click, ClickSubmit, ClickCancel, Serve,
         SubmitTask, ListTasks, GetTask, FindTask, CancelTask, Receive,
         ReceiveDone, Lose, Script, TaskProgress, Restart

-----------------------------------------------------------------------------
(* What a step does to the tasks of the server.                            *)

(* A request that has been found is still of the owner of the task.        *)
FoundServed ==
  \A v \in Pages : \A q \in flight[v] :
    q.stage = "found" => Serves(v, q.id)

(* A page or a script submits, a visitor cancels a task found to be his,   *)
(* a task proceeds, nothing happens, or the server restarts.               *)
LEMMA ServerStep ==
  ASSUME TypeInv, FoundServed, [Next]_vars
  PROVE  \/ UNCHANGED server
         \/ \E v \in Visitors : Submit(v)
         \/ \E v \in Visitors, id \in Ids : Serves(v, id) /\ Cancel(v, id)
         \/ \E id \in Ids : TaskProgress(id)
         \/ Restart
<1> DEFINE Goal == \/ UNCHANGED server
                   \/ \E v \in Visitors : Submit(v)
                   \/ \E v \in Visitors, id \in Ids : Serves(v, id) /\ Cancel(v, id)
                   \/ \E id \in Ids : TaskProgress(id)
                   \/ Restart
<1>1. CASE UNCHANGED vars
  BY <1>1 DEF vars
<1>2. ASSUME NEW v \in Pages, Tick(v) \/ Click(v) PROVE Goal
  BY <1>2 DEF Tick, Click, ClickSubmit, ClickCancel, SelectTask, CloseDetail,
              server
<1>3. ASSUME NEW v \in Pages, NEW q \in flight[v], Serve(v, q) PROVE Goal
  <2>1. v \in Visitors
    BY PagesAssumption
  <2>2. CASE SubmitTask(v, q)
    BY <2>1, <2>2 DEF SubmitTask
  <2>3. CASE ListTasks(v, q) \/ GetTask(v, q) \/ FindTask(v, q)
    BY <2>3 DEF ListTasks, GetTask, FindTask
  <2>4. CASE CancelTask(v, q)
    <3>1. Serves(v, q.id) /\ q.id \in Ids
      BY <2>4 DEF CancelTask, FoundServed, Serves, Registered
    <3> QED BY <2>1, <2>4, <3>1 DEF CancelTask
  <2> QED BY <1>3, <2>2, <2>3, <2>4 DEF Serve
<1>4. ASSUME NEW v \in Pages, NEW q \in flight[v], Receive(v, q) \/ Lose(v, q)
      PROVE  Goal
  BY <1>4 DEF Receive, ReceiveList, ReceiveTask, ReceiveDone, Lose
<1>5. ASSUME NEW v \in Visitors \ Pages, Script(v) PROVE Goal
  BY <1>5 DEF Script
<1>6. ASSUME NEW id \in Ids, TaskProgress(id) PROVE Goal
  BY <1>6
<1> QED
  BY <1>1, <1>2, <1>3, <1>4, <1>5, <1>6 DEF Next

LEMMA ServerTypeStep == TypeInv /\ FoundServed /\ [Next]_vars => ServerType'
<1> SUFFICES ASSUME TypeInv, FoundServed, [Next]_vars PROVE ServerType'
  OBVIOUS
<1> USE DEF ServerType, Manager!TypeOK, Manager!Statuses, Manager!Terminal
<1>0. ServerType
  BY DEF TypeInv
<1>1. CASE UNCHANGED server
  BY <1>0, <1>1 DEF server
<1>2. ASSUME NEW v \in Visitors, Submit(v) PROVE ServerType'
  BY <1>0, <1>2 DEF Submit, Manager!Submit, Manager!Move
<1>3. ASSUME NEW v \in Visitors, NEW id \in Ids, Cancel(v, id)
      PROVE  ServerType'
  BY <1>0, <1>3 DEF Cancel, Manager!Request
<1>4. ASSUME NEW id \in Ids, TaskProgress(id) PROVE ServerType'
  BY <1>0, <1>4, EndsAssumption
     DEF TaskProgress, Manager!Start, Manager!Finish, Manager!Move
<1>5. CASE Restart
  BY <1>0, <1>5 DEF Restart
<1> QED BY <1>1, <1>2, <1>3, <1>4, <1>5, ServerStep

(* As long as the server runs, final states are final, and a task that is  *)
(* there stays there and keeps its owner.                                  *)
LEMMA ServerKeeps ==
  ASSUME TypeInv, FoundServed, [Next]_vars
  PROVE  \/ Restart
         \/ /\ epoch' = epoch
            /\ \A id \in Ids :
                 /\ state[id] \in Manager!Terminal => state'[id] = state[id]
                 /\ id \in Registered => id \in Registered' /\ owner'[id] = owner[id]
<1> DEFINE Goal ==
      /\ epoch' = epoch
      /\ \A id \in Ids :
           /\ state[id] \in Manager!Terminal => state'[id] = state[id]
           /\ id \in Registered => id \in Registered' /\ owner'[id] = owner[id]
<1> USE DEF ServerType, Manager!TypeOK, Manager!Statuses, Manager!Terminal,
            Registered
<1>0. ServerType
  BY DEF TypeInv
<1>1. CASE UNCHANGED server
  BY <1>0, <1>1 DEF server
<1>2. ASSUME NEW v \in Visitors, Submit(v) PROVE Goal
  BY <1>0, <1>2 DEF Submit, Manager!Submit, Manager!Move
<1>3. ASSUME NEW v \in Visitors, NEW id \in Ids, Cancel(v, id) PROVE Goal
  BY <1>0, <1>3 DEF Cancel, Manager!Request
<1>4. ASSUME NEW id \in Ids, TaskProgress(id) PROVE Goal
  BY <1>0, <1>4, EndsAssumption
     DEF TaskProgress, Manager!Start, Manager!Finish, Manager!Move
<1> QED BY <1>1, <1>2, <1>3, <1>4, ServerStep

(* The inductive part of the invariants below.                             *)
WebInv == TypeInv /\ FoundServed

LEMMA WebStep == WebInv /\ [Next]_vars => WebInv'
<1> SUFFICES ASSUME WebInv, [Next]_vars PROVE WebInv'
  OBVIOUS
<1>1. TypeInv /\ FoundServed
  BY DEF WebInv
<1>2. FlightStep /\ PageStep /\ ServerType'
  BY <1>1, FlightInvariant, PageInvariant, ServerTypeStep
<1>3. TypeInv'
  BY <1>2 DEF TypeInv, PageType, FlightStep, PageStep
<1>4. ASSUME NEW v \in Pages, NEW q \in flight'[v], q.stage = "found"
      PROVE  Serves(v, q.id)'
  <2>1. CASE q \notin flight[v]
    <3>1. Serves(v, q.id) /\ UNCHANGED server
      BY <1>2, <1>4, <2>1 DEF FlightStep, Genuine
    <3> QED BY <3>1 DEF Serves, Registered, server
  <2>2. CASE q \in flight[v]
    <3>1. Serves(v, q.id)
      BY <1>1, <1>4, <2>2 DEF FoundServed
    <3>2. ~Restart
      <4>1. flight \in [Pages -> SUBSET Message]
        BY <1>1 DEF TypeInv, PageType
      <4> QED BY <1>4, <4>1 DEF Restart
    <3> QED BY <1>1, <3>1, <3>2, ServerKeeps DEF Serves, Registered
  <2> QED BY <2>1, <2>2
<1> QED BY <1>3, <1>4 DEF WebInv, FoundServed

LEMMA WebInvariant == Spec => []WebInv
<1>1. Init => WebInv
  <2> SUFFICES ASSUME Init PROVE WebInv
    OBVIOUS
  <2>1. ServerType
    BY DEF Init, ServerType, Manager!Init, Manager!TypeOK
  <2>2. FetchTasks \in Message /\ FetchTasks.stage = "sent"
    BY RequestType DEF FetchTasks
  <2>3. PageType
    BY <2>2 DEF Init, PageType
  <2>4. FoundServed
    BY <2>2 DEF Init, FoundServed
  <2> QED BY <2>1, <2>3, <2>4 DEF WebInv, TypeInv
<1> QED BY <1>1, WebStep, PTL DEF Spec

-----------------------------------------------------------------------------
(* A cancellation comes from the owner.                                    *)

ByOwner ==
  /\ OnlyOwnerCancels
  /\ \A id \in Ids : id \notin Registered => by[id] = {}

(* Nobody cancels another visitor's task, whatever answers are on their    *)
(* way and however often the server restarts.                              *)
THEOREM OnlyOwnerCancelsCorrect == Spec => []OnlyOwnerCancels
<1>1. Init => ByOwner
  BY DEF Init, ByOwner, OnlyOwnerCancels
<1>2. WebInv /\ ByOwner /\ [Next]_vars => ByOwner'
  <2> SUFFICES ASSUME WebInv, ByOwner, [Next]_vars PROVE ByOwner'
    OBVIOUS
  <2> USE DEF ByOwner, OnlyOwnerCancels, Registered
  <2>0. ServerType
    BY DEF WebInv, TypeInv
  <2>1. CASE UNCHANGED server
    BY <2>1 DEF server
  <2>2. ASSUME NEW v \in Visitors, Submit(v) PROVE ByOwner'
    <3>1. PICK new : /\ state[new] = "absent"
                     /\ state' = [state EXCEPT ![new] = "pending"]
                     /\ owner' = [owner EXCEPT ![new] = v]
                     /\ UNCHANGED by
      BY <2>2 DEF Submit, Manager!Submit, Manager!Move
    <3>2. ASSUME NEW id \in Ids, id = new
          PROVE  by'[id] = {}
      BY <3>1, <3>2
    <3>3. ASSUME NEW id \in Ids, id # new
          PROVE  by'[id] = by[id] /\ owner'[id] = owner[id] /\ state'[id] = state[id]
      BY <2>0, <3>1, <3>3 DEF ServerType, Manager!TypeOK
    <3> QED BY <3>2, <3>3
  <2>3. ASSUME NEW v \in Visitors, NEW id \in Ids, Serves(v, id), Cancel(v, id)
        PROVE  ByOwner'
    BY <2>0, <2>3 DEF Serves, Cancel, Manager!Request, ServerType
  <2>4. ASSUME NEW id \in Ids, TaskProgress(id) PROVE ByOwner'
    <3>1. \A other \in Ids : other \in Registered => other \in Registered'
      <4>1. PICK new : /\ new # "absent"
                       /\ state' = [state EXCEPT ![id] = new]
        BY <2>4, EndsAssumption
           DEF TaskProgress, Manager!Start, Manager!Finish, Manager!Move
      <4> QED BY <2>0, <4>1 DEF ServerType, Manager!TypeOK
    <3>2. UNCHANGED <<owner, by>>
      BY <2>4 DEF TaskProgress
    <3> QED BY <3>1, <3>2
  <2>5. CASE Restart
    BY <2>5 DEF Restart
  <2> QED BY <2>1, <2>2, <2>3, <2>4, <2>5, ServerStep DEF WebInv
<1>3. ByOwner => OnlyOwnerCancels
  BY DEF ByOwner
<1> QED BY <1>1, <1>2, <1>3, WebInvariant, PTL DEF Spec

-----------------------------------------------------------------------------
(* What a page displays.                                                   *)

(* A row displayed, or on its way to be displayed, is of the visitor's own *)
(* task, and what it says of a task that has ended is still true unless    *)
(* the server has been restarted since.                                    *)
Sound(v, row) ==
  /\ row.of = v
  /\ row.at <= epoch
  /\ Final(row) /\ row.at = epoch => state[row.id] = row.status

RowsSound ==
  \A v \in Pages :
    /\ \A row \in rows[v] : Sound(v, row)
    /\ \A q \in flight[v] : \A row \in q.rows : Sound(v, row)

PanelOwn == \A v \in Pages : \A shown \in detail[v] \ {NotFound} : shown.of = v

(* A row that is sound stays so.                                           *)
LEMMA StaysSound ==
  ASSUME WebInv, [Next]_vars, NEW v \in Pages, NEW row \in Row, Sound(v, row)
  PROVE  Sound(v, row)'
<1>1. row.id \in Ids /\ row.at \in Nat /\ epoch \in Nat
  BY DEF Row, WebInv, TypeInv, ServerType
<1>2. CASE Restart
  BY <1>1, <1>2 DEF Restart, Sound
<1>3. CASE ~Restart
  <2>1. /\ epoch' = epoch
        /\ state[row.id] \in Manager!Terminal => state'[row.id] = state[row.id]
    BY <1>1, <1>3, ServerKeeps DEF WebInv
  <2> QED BY <2>1 DEF Sound, Final
<1> QED BY <1>2, <1>3

LEMMA RowsStep == WebInv /\ RowsSound /\ [Next]_vars => RowsSound'
<1> SUFFICES ASSUME WebInv, RowsSound, [Next]_vars PROVE RowsSound'
  OBVIOUS
<1>1. FlightStep /\ PageStep /\ TypeInv
  BY FlightInvariant, PageInvariant DEF WebInv
<1>2. ASSUME NEW v \in Pages, NEW q \in flight[v], NEW row \in q.rows
      PROVE  Sound(v, row)'
  <2>1. row \in Row
    BY <1>1 DEF TypeInv, PageType, Message
  <2> QED BY <2>1, StaysSound DEF RowsSound
<1>3. ASSUME NEW v \in Pages, NEW row \in rows[v] PROVE Sound(v, row)'
  <2>1. row \in Row
    BY <1>1 DEF TypeInv, PageType
  <2> QED BY <2>1, StaysSound DEF RowsSound
<1>4. ASSUME NEW v \in Pages, NEW row \in rows'[v] PROVE Sound(v, row)'
  BY <1>1, <1>2, <1>3 DEF PageStep
<1>5. ASSUME NEW v \in Pages, NEW q \in flight'[v], q \notin flight[v],
             NEW row \in q.rows
      PROVE  Sound(v, row)'
  <2>1. row \in ServedTo(v) /\ UNCHANGED server
    BY <1>1, <1>5 DEF FlightStep, Genuine
  <2>2. PICK id \in Ids : Serves(v, id) /\ row = RowOf(id)
    BY <2>1 DEF ServedTo
  <2>3. /\ row.of = v /\ row.at = epoch
        /\ row.id = id /\ row.status = state[id]
    BY <2>2 DEF RowOf, Serves
  <2>4. epoch' = epoch /\ state' = state /\ epoch \in Nat
    BY <1>1, <2>1 DEF server, TypeInv, ServerType
  <2> QED BY <2>3, <2>4 DEF Sound
<1> QED BY <1>2, <1>4, <1>5 DEF RowsSound

LEMMA PanelStep == WebInv /\ RowsSound /\ PanelOwn /\ [Next]_vars => PanelOwn'
<1> SUFFICES ASSUME WebInv, RowsSound, PanelOwn, [Next]_vars,
                    NEW v \in Pages, NEW shown \in detail'[v], shown # NotFound
             PROVE  shown.of = v
  BY DEF PanelOwn
<1>1. PageStep
  BY PageInvariant DEF WebInv
<1>2. CASE detail'[v] \subseteq detail[v] \cup {NotFound}
  BY <1>2 DEF PanelOwn
<1>3. ASSUME NEW q \in flight[v], detail'[v] \subseteq PanelOf(q.rows)
      PROVE  shown.of = v
  BY <1>3 DEF PanelOf, RowsSound, Sound
<1> QED BY <1>1, <1>2, <1>3 DEF PageStep

LEMMA DisplayInvariant == Spec => [](RowsSound /\ PanelOwn)
<1>1. Init => RowsSound /\ PanelOwn
  BY RequestType DEF Init, RowsSound, PanelOwn, FetchTasks
<1> QED BY <1>1, RowsStep, PanelStep, WebInvariant, PTL DEF Spec

(* List and panel show a visitor nothing but his own tasks.                *)
THEOREM ShowsOwnTasksCorrect == Spec => []ShowsOwnTasks
<1>1. RowsSound /\ PanelOwn => ShowsOwnTasks
  BY DEF RowsSound, PanelOwn, ShowsOwnTasks, Sound
<1> QED BY <1>1, DisplayInvariant, PTL

(* A final status that a page displays is the status of the task, in       *)
(* whatever order the answers came, as long as the server runs.            *)
THEOREM FinalShownIsFinalCorrect == Spec => []FinalShownIsFinal
<1>1. RowsSound => FinalShownIsFinal
  BY DEF RowsSound, FinalShownIsFinal, Sound
<1> QED BY <1>1, DisplayInvariant, PTL

-----------------------------------------------------------------------------
(* The server and the task manager.                                        *)

(* Between two restarts the server uses the task manager as TaskLifecycle  *)
(* allows, which TaskManager implements.                                   *)
THEOREM ServerFollowsLifecycle ==
  Spec => [][Manager!Next \/ Restart]_(Manager!vars)
<1>1. WebInv /\ [Next]_vars => [Manager!Next \/ Restart]_(Manager!vars)
  <2> SUFFICES ASSUME WebInv, [Next]_vars
               PROVE  Manager!Next \/ Restart \/ UNCHANGED <<state, requested>>
    BY DEF Manager!vars
  <2>1. ASSUME NEW v \in Visitors, Submit(v)
        PROVE  Manager!Next \/ UNCHANGED <<state, requested>>
    <3> DEFINE new == Cardinality(Registered) + 1
    <3>1. Manager!Submit(new)
      BY <2>1 DEF Submit
    <3>2. CASE new \in Ids
      BY <3>1, <3>2 DEF Manager!Next
    <3>3. CASE new \notin Ids
      <4>1. DOMAIN state = Ids
        BY DEF WebInv, TypeInv, ServerType, Manager!TypeOK
      <4> QED BY <3>1, <3>3, <4>1 DEF Manager!Submit, Manager!Move,
                                      WebInv, TypeInv, ServerType, Manager!TypeOK
    <3> QED BY <3>2, <3>3
  <2>2. ASSUME NEW v \in Visitors, NEW id \in Ids, Cancel(v, id)
        PROVE  Manager!Next
    BY <2>2 DEF Cancel, Manager!Next
  <2>3. ASSUME NEW id \in Ids, TaskProgress(id) PROVE Manager!Next
    BY <2>3, EndsAssumption
       DEF TaskProgress, Manager!Next, Manager!Progress, Manager!Terminal
  <2> QED BY <2>1, <2>2, <2>3, ServerStep DEF WebInv, server
<1> QED BY <1>1, WebInvariant, PTL DEF Spec

(* The identifiers given are 1, 2, 3 and so on.                            *)
IdsInOrder ==
  /\ IsFiniteSet(Registered)
  /\ Registered = 1 .. Cardinality(Registered)

LEMMA IdsStep == WebInv /\ IdsInOrder /\ [Next]_vars => IdsInOrder'
<1> SUFFICES ASSUME WebInv, IdsInOrder, [Next]_vars PROVE IdsInOrder'
  OBVIOUS
<1>0. state \in [Ids -> Manager!Statuses \cup {"absent"}]
  BY DEF WebInv, TypeInv, ServerType, Manager!TypeOK
<1>1. ASSUME Registered' = Registered PROVE IdsInOrder'
  BY <1>1 DEF IdsInOrder
<1>2. ASSUME NEW v \in Visitors, Submit(v) PROVE IdsInOrder'
  <2> DEFINE n == Cardinality(Registered)
  <2>1. n \in Nat
    BY FS_CardinalityType DEF IdsInOrder
  <2>2. /\ state[n + 1] = "absent"
        /\ state' = [state EXCEPT ![n + 1] = "pending"]
    BY <1>2 DEF Submit, Manager!Submit, Manager!Move
  <2>3. CASE n + 1 \notin Ids
    <3>1. state' = state
      BY <1>0, <2>2, <2>3
    <3> QED BY <1>1, <3>1 DEF Registered
  <2>4. CASE n + 1 \in Ids
    <3>1. Registered' = Registered \cup {n + 1} /\ n + 1 \notin Registered
      BY <1>0, <2>2, <2>4 DEF Registered
    <3>2. IsFiniteSet(Registered') /\ Cardinality(Registered') = n + 1
      BY <3>1, FS_AddElement DEF IdsInOrder
    <3>3. Registered' = 1 .. n + 1
      BY <2>1, <3>1 DEF IdsInOrder
    <3> QED BY <3>2, <3>3 DEF IdsInOrder
  <2> QED BY <2>3, <2>4
<1>3. ASSUME NEW v \in Visitors, NEW id \in Ids, Cancel(v, id)
      PROVE  IdsInOrder'
  BY <1>1, <1>3 DEF Cancel, Manager!Request, Registered
<1>4. ASSUME NEW id \in Ids, TaskProgress(id) PROVE IdsInOrder'
  <2>1. PICK new : /\ new # "absent" /\ state[id] # "absent"
                   /\ state' = [state EXCEPT ![id] = new]
    BY <1>4, EndsAssumption
       DEF TaskProgress, Manager!Start, Manager!Finish, Manager!Move
  <2>2. Registered' = Registered
    BY <1>0, <2>1 DEF Registered
  <2> QED BY <1>1, <2>2
<1>5. CASE Restart
  <2>1. Registered' = {}
    BY <1>5 DEF Restart, Registered
  <2> QED BY <2>1, FS_EmptySet DEF IdsInOrder
<1>6. CASE UNCHANGED server
  BY <1>1, <1>6 DEF server, Registered
<1> QED BY <1>2, <1>3, <1>4, <1>5, <1>6, ServerStep DEF WebInv

(* Submit's identifier is that of no registered task: it is never refused, *)
(* and never takes the place of another task's.                            *)
THEOREM IdentifiersFresh ==
  Spec => [](Cardinality(Registered) + 1 \notin Registered)
<1>1. Init => IdsInOrder
  <2> SUFFICES ASSUME Init PROVE IdsInOrder
    OBVIOUS
  <2>1. Registered = {}
    BY DEF Init, Manager!Init, Registered
  <2> QED BY <2>1, FS_EmptySet DEF IdsInOrder
<1>2. IdsInOrder => Cardinality(Registered) + 1 \notin Registered
  <2> SUFFICES ASSUME IdsInOrder PROVE Cardinality(Registered) + 1 \notin Registered
    OBVIOUS
  <2>1. Cardinality(Registered) \in Nat
    BY FS_CardinalityType DEF IdsInOrder
  <2> QED BY <2>1 DEF IdsInOrder
<1> QED BY <1>1, <1>2, IdsStep, WebInvariant, PTL DEF Spec
=============================================================================
