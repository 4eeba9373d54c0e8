-------------------------------- MODULE Web --------------------------------
(***************************************************************************)
(* The web server (internal/web/web.go), the page it serves                *)
(* (internal/web/static/index.html) in the browsers of some visitors, and  *)
(* the network between them; other visitors use the API from scripts.  The *)
(* task manager behind the server is TaskLifecycle, which TaskManager      *)
(* implements.                                                             *)
(*                                                                         *)
(* A page's request is sent, handled and answered in steps of its own;     *)
(* requests overtake each other and may be lost, and so may answers.  Of a *)
(* script only what it makes the server do is of interest.  The server    *)
(* keeps its tasks in memory: when it is restarted they are gone, and      *)
(* identifiers are given anew, while the pages stay open.                  *)
(***************************************************************************)
EXTENDS Naturals, FiniteSets

CONSTANTS
  Visitors,   \* the values of the header X-Visitor-ID
  Pages,      \* the visitors who use the page
  Ends,       \* how tasks end
  MaxTasks,   \* bounds the tasks submitted, over all restarts
  MaxFlight,  \* bounds the requests of one page on their way
  MaxRestarts \* bounds the restarts of the server

ASSUME PagesAssumption == Pages \subseteq Visitors
ASSUME EndsAssumption == Ends \subseteq {"completed", "failed", "cancelled"}
ASSUME BoundsAssumption ==
  MaxTasks \in Nat /\ MaxFlight \in Nat /\ MaxRestarts \in Nat

Ids == 1 .. MaxTasks
None == 0

(* The server. *)
VARIABLES
  state,     \* the status of every task, "absent" if there is none
  requested, \* the tasks whose cancellation was accepted
  owner,     \* the owner of every task
  epoch,     \* restarts so far
  total      \* tasks submitted so far

(* The pages. *)
VARIABLES
  flight,    \* requests and answers on their way
  rows,      \* the task list displayed
  timer,     \* refreshTimer is set
  selected,  \* selectedTaskId
  detail     \* the task the detail panel shows: a set of at most one

(* History, for the properties only: who had a task cancelled. *)
VARIABLE by

server == <<state, requested, owner, epoch, total, by>>
page == <<rows, timer, selected, detail>>
vars == <<server, flight, page>>

Manager == INSTANCE TaskLifecycle

(* What the detail panel shows: a task, or an error as if it were one.     *)
NotFound == [id |-> None]
PanelOf(list) == {[id |-> row.id, of |-> row.of] : row \in list}

(* MUTANT: a task is shown as cancelled once its cancellation is accepted. *)
RowOfRequested(id) ==
  [id |-> id, status |-> IF id \in requested THEN "cancelled" ELSE state[id],
   of |-> owner[id], at |-> epoch]

(* A task as an answer shows it; `of` and `at` tell tasks with one         *)
(* identifier apart and are not part of the answer.                        *)
RowOf(id) == [id |-> id, status |-> state[id], of |-> owner[id], at |-> epoch]

Request(op, id) == [op |-> op, id |-> id, stage |-> "sent", rows |-> {}]

FetchTasks == Request("list", None)

(* Every page has just been loaded: its first fetch is under way and the   *)
(* timer runs.                                                             *)
Init ==
  /\ Manager!Init
  /\ owner = [id \in Ids |-> None]
  /\ epoch = 0
  /\ total = 0
  /\ by = [id \in Ids |-> {}]
  /\ flight = [v \in Pages |-> {FetchTasks}]
  /\ rows = [v \in Pages |-> {}]
  /\ timer = [v \in Pages |-> TRUE]
  /\ selected = [v \in Pages |-> None]
  /\ detail = [v \in Pages |-> {}]

-----------------------------------------------------------------------------
(* The server.                                                             *)

Registered == {id \in Ids : state[id] # "absent"}

(* MUTANT: the owner is not looked at. *)
ServesAnybody(v, id) == id \in Registered

(* A task that is not there and one of another visitor are both "not       *)
(* found".                                                                 *)
Serves(v, id) == id \in Registered /\ owner[id] = v

Move(v, q, new) ==
  /\ q \in flight[v]
  /\ flight' = [flight EXCEPT ![v] = (@ \ {q}) \cup new]

Answer(v, q, stage, shown) ==
  Move(v, q, {[q EXCEPT !.stage = stage, !.rows = shown]})

(* Keeps the tasks within MaxTasks. *)
Room ==
  LET submitting == {v \in Pages : Request("submit", None) \in flight[v]}
  IN  total + Cardinality(submitting) < MaxTasks

Submit(v) ==
  LET id == Cardinality(Registered) + 1 IN
  /\ Manager!Submit(id)
  /\ owner' = [owner EXCEPT ![id] = v]
  /\ total' = total + 1
  /\ UNCHANGED <<epoch, by>>

Cancel(v, id) ==
  /\ Manager!Request(id)
  /\ by' = [by EXCEPT ![id] = @ \cup {v}]
  /\ UNCHANGED <<owner, epoch, total>>

SubmitTask(v, q) ==
  /\ q.op = "submit" /\ q.stage = "sent"
  /\ Submit(v)
  /\ Answer(v, q, "ok", {})
  /\ UNCHANGED page

(* MUTANT: the list is not filtered. *)
ListAllTasks(v, q) ==
  /\ q.op = "list" /\ q.stage = "sent"
  /\ Answer(v, q, "ok", {RowOf(id) : id \in Registered})
  /\ UNCHANGED <<server, page>>

ListTasks(v, q) ==
  /\ q.op = "list" /\ q.stage = "sent"
  /\ Answer(v, q, "ok", {RowOf(id) : id \in {i \in Ids : Serves(v, i)}})
  /\ UNCHANGED <<server, page>>

GetTask(v, q) ==
  /\ q.op = "get" /\ q.stage = "sent"
  /\ IF Serves(v, q.id) THEN Answer(v, q, "ok", {RowOf(q.id)})
     ELSE Answer(v, q, "error", {})
  /\ UNCHANGED <<server, page>>

(* cancelTask: Get, and later Cancel. *)
FindTask(v, q) ==
  /\ q.op = "cancel" /\ q.stage = "sent"
  /\ Answer(v, q, IF Serves(v, q.id) THEN "found" ELSE "error", {})
  /\ UNCHANGED <<server, page>>

CancelTask(v, q) ==
  /\ q.op = "cancel" /\ q.stage = "found"
  /\ \/ Cancel(v, q.id) /\ Answer(v, q, "ok", {})
     \/ /\ state[q.id] \in Manager!Terminal
        /\ Answer(v, q, "error", {})
        /\ UNCHANGED server
  /\ UNCHANGED page

(* Requests of a script. *)
Script(v) ==
  /\ \/ Room /\ Submit(v)
     \/ \E id \in Ids : Serves(v, id) /\ Cancel(v, id)
  /\ UNCHANGED <<flight, page>>

TaskProgress(id) ==
  /\ Manager!Start(id) \/ \E s \in Ends : Manager!Finish(id, s)
  /\ UNCHANGED <<owner, epoch, total, by, flight, page>>

(* The process ends, and with it tasks, handlers and their connections; a  *)
(* new one starts.                                                         *)
Restart ==
  /\ epoch < MaxRestarts
  /\ epoch' = epoch + 1
  /\ state' = [id \in Ids |-> "absent"]
  /\ requested' = {}
  /\ owner' = [id \in Ids |-> None]
  /\ by' = [id \in Ids |-> {}]
  /\ flight' = [v \in Pages |-> {q \in flight[v] : q.stage # "found"}]
  /\ UNCHANGED <<total, page>>

-----------------------------------------------------------------------------
(* The page.                                                               *)

Final(row) == row.status \in Manager!Terminal

Send(v, new) ==
  /\ Cardinality(flight[v] \cup new) <= MaxFlight
  /\ new \cap flight[v] = {}
  /\ flight' = [flight EXCEPT ![v] = @ \cup new]

(* The interval elapses. *)
Tick(v) ==
  /\ timer[v]
  /\ Send(v, {FetchTasks})
  /\ UNCHANGED <<server, page>>

ClickSubmit(v) ==
  /\ Room
  /\ Send(v, {Request("submit", None)})
  /\ UNCHANGED <<server, page>>

ClickCancel(v) ==
  /\ \E row \in rows[v] : ~Final(row) /\ Send(v, {Request("cancel", row.id)})
  /\ UNCHANGED <<server, page>>

SelectTask(v) ==
  \E row \in rows[v] :
    /\ selected' = [selected EXCEPT ![v] = row.id]
    /\ Send(v, {FetchTasks, Request("get", row.id)})
    /\ UNCHANGED <<server, rows, timer, detail>>

CloseDetail(v) ==
  /\ detail[v] # {}
  /\ selected' = [selected EXCEPT ![v] = None]
  /\ detail' = [detail EXCEPT ![v] = {}]
  /\ Send(v, {FetchTasks})
  /\ UNCHANGED <<server, rows, timer>>

(* MUTANT: the timer is stopped with the first final task. *)
RenderStopping(v, list) ==
  /\ rows' = [rows EXCEPT ![v] = list]
  /\ timer' = [timer EXCEPT ![v] = \A row \in list : ~Final(row)]
  /\ UNCHANGED detail

(* renderTasks.  An empty list leaves timer and panel as they are. *)
Render(v, list) ==
  /\ rows' = [rows EXCEPT ![v] = list]
  /\ timer' = IF list = {} THEN timer
              ELSE [timer EXCEPT ![v] = \E row \in list : ~Final(row)]
  /\ LET chosen == {row \in list : row.id = selected[v]} IN
     detail' = IF chosen = {} THEN detail
               ELSE [detail EXCEPT ![v] = PanelOf(chosen)]

ReceiveList(v, q) ==
  /\ q.op = "list" /\ q.stage = "ok"
  /\ Move(v, q, {})
  /\ Render(v, q.rows)
  /\ UNCHANGED <<server, selected>>

(* The panel shows the answer, whatever is selected by now, and an error   *)
(* as if it were a task.                                                   *)
ReceiveTask(v, q) ==
  /\ q.op = "get" /\ q.stage \in {"ok", "error"}
  /\ Move(v, q, {})
  /\ detail' = [detail EXCEPT ![v] = IF q.stage = "ok" THEN PanelOf(q.rows)
                                    ELSE {NotFound}]
  /\ UNCHANGED <<server, rows, timer, selected>>

(* After a success the list is fetched, after an error there is an alert.  *)
ReceiveDone(v, q) ==
  /\ q.op \in {"submit", "cancel"} /\ q.stage \in {"ok", "error"}
  /\ Move(v, q, IF q.stage = "ok" THEN {FetchTasks} ELSE {})
  /\ UNCHANGED <<server, page>>

(* The network loses a request or an answer: the page logs it or alerts.   *)
(* When nothing but a look at the server is asked for, a lost request is   *)
(* no different from a lost answer.                                        *)
Lose(v, q) ==
  /\ q.stage = "sent" => q.op \in {"submit", "cancel"}
  /\ q.stage # "found"
  /\ Move(v, q, {})
  /\ UNCHANGED <<server, page>>

-----------------------------------------------------------------------------
Serve(v, q) ==
  \/ SubmitTask(v, q) \/ ListTasks(v, q) \/ GetTask(v, q)
  \/ FindTask(v, q) \/ CancelTask(v, q)

Receive(v, q) == ReceiveList(v, q) \/ ReceiveTask(v, q) \/ ReceiveDone(v, q)

Click(v) == ClickSubmit(v) \/ ClickCancel(v) \/ SelectTask(v) \/ CloseDetail(v)

Next ==
  \/ \E v \in Pages :
       \/ Tick(v) \/ Click(v)
       \/ \E q \in flight[v] : Serve(v, q) \/ Receive(v, q) \/ Lose(v, q)
  \/ \E v \in Visitors \ Pages : Script(v)
  \/ \E id \in Ids : TaskProgress(id)
  \/ Restart

Spec == Init /\ [][Next]_vars

(* Tasks end, requests are handled, and the network does not lose every    *)
(* list.  The timer is strongly fair because MaxFlight may hold it up,     *)
(* which nothing does in the browser.                                      *)
Fairness ==
  /\ \A id \in Ids : WF_vars(TaskProgress(id))
  /\ \A v \in Pages :
       /\ WF_vars(\E q \in flight[v] :
                    Serve(v, q) \/ Receive(v, q) \/ Lose(v, q))
       /\ WF_vars(\E q \in flight[v] : ListTasks(v, q))
       /\ SF_vars(\E q \in flight[v] : ReceiveList(v, q))
       /\ SF_vars(Tick(v))

FairSpec == Spec /\ Fairness

-----------------------------------------------------------------------------
(* PROPERTIES                                                              *)

(* "Tasks are stored with their owner and the list/status/cancel endpoints *)
(* only serve the caller's own tasks" (web.go:79): list and panel show     *)
(* nothing else, ...                                                       *)
ShowsOwnTasks ==
  \A v \in Pages :
    \A shown \in rows[v] \cup (detail[v] \ {NotFound}) : shown.of = v

(* ... and nobody cancels another visitor's task, even with an identifier  *)
(* remembered from before a restart.                                       *)
OnlyOwnerCancels == \A id \in Ids : by[id] \subseteq {owner[id]}

(* Answers arrive in any order, but a final status that a page displays is *)
(* the status of the task, as long as the server runs.                     *)
FinalShownIsFinal ==
  \A v \in Pages :
    \A row \in rows[v] :
      Final(row) /\ row.at = epoch => state[row.id] = row.status

(* No page goes on displaying a task as running for ever: late answers,    *)
(* lost ones, empty lists and restarts do not stop the refreshing timer    *)
(* while it is needed.                                                     *)
RunningShownEnds ==
  \A v \in Pages, id \in Ids :
    (\E row \in rows[v] : row.id = id /\ ~Final(row))
      ~> ~\E row \in rows[v] : row.id = id /\ ~Final(row)
=============================================================================
