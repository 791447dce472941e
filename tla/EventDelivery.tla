--------------------------- MODULE EventDelivery ---------------------------
(***************************************************************************)
(* The delivery of events to one browser tab.  On the server: the event    *)
(* queue of the tab in a Tornado process (zerver/tornado/event_queue.py),  *)
(* the long-poll handler attached to it, and the file in which the queues  *)
(* survive a restart.  In the browser: the loop of web/src/server_events.js*)
(* that fetches events and applies them.  In between: requests that are    *)
(* delayed or overtaken, responses that are lost, connections whose end    *)
(* the server has not noticed yet.                                         *)
(*                                                                         *)
(* The server numbers the events it generates for the tab; an event        *)
(* carries its number in the list "messages", which is what compression of *)
(* flag events concatenates.  The history variable applied is the list of  *)
(* numbers the tab has applied.                                            *)
(*                                                                         *)
(* A process that stops writes its queues to the file first and can still  *)
(* be given events and requests after that.  What it does then is not in   *)
(* the file: a tab whose queue went on without the file is stale, until it *)
(* is loaded again.                                                        *)
(***************************************************************************)
EXTENDS EventQueue, FiniteSetsExt

CONSTANTS
  MaxEvents,     \* how many events the server generates
  MaxConns,      \* HTTP connections that exist at one time
  MaxFaults,     \* aborts, network failures, expiries, stops and crashes
  MaxBeatId      \* no heartbeat once the queue has given out this many ids

ASSUME BoundsAssumption ==
  /\ MaxEvents \in Nat /\ MaxConns \in Nat \ {0}
  /\ MaxFaults \in Nat /\ MaxBeatId \in Nat

Conns == 1..MaxConns
None == 0            \* no connection
NoFile == << >>      \* no dump to load
NoResponse == << >>

VARIABLES
  (* the Tornado process *)
  phase,       \* "up", "stopping" (queues dumped, not yet gone) or "down"
  alive,       \* is the queue of the tab in clients?
  eq,          \* that queue
  handler,     \* current_handler_id: the connection waiting for events
  disk,        \* what a start would load
  (* the network *)
  reqs,        \* GET /json/events requests the server has not processed
  closing,     \* connections the tab closed and the server still thinks open
  inbox,       \* the response on its way to get_events_xhr
  (* the tab *)
  xhr,         \* get_events_xhr
  timer,       \* is get_events_timeout set?
  failing,     \* get_events_failures > 0
  last,        \* get_events_params.last_event_id
  waiting,     \* waiting_on_initial_fetch
  stored,      \* events_stored_while_loading
  reloading,   \* reload_state.is_in_progress()
  (* history *)
  generated,   \* the class of each event the server generated for the tab
  message_ids, \* the id of the message each of them brings, 0 if it brings none
  applied,     \* the numbers of the events the tab has applied
  stale,       \* did its queue go on after the file it was loaded from?
  faults       \* how many faults have happened

server == <<phase, alive, eq, handler, disk>>
network == <<reqs, closing, inbox>>
tab == <<xhr, timer, failing, last, waiting, stored, reloading, applied>>
history == <<generated, message_ids, stale>>
vars == <<server, network, tab, history, faults>>

-----------------------------------------------------------------------------
(* Events. *)

Classes == {"normal", "message", "update", "post"}

(* An event of each class: "presence" stands for those that take the       *)
(* default case of dispatch_event; update_message_flags is compressed.     *)
(* delete_message and submessage, of the class of flag changes too but not *)
(* compressed, are left out.                                               *)
Event(class, n) ==
  CASE class = "normal"  -> [type |-> "presence", messages |-> <<n>>]
    [] class = "message" -> [type |-> "message", messages |-> <<n>>]
    [] class = "update"  -> [type |-> "update_message", messages |-> <<n>>]
    [] class = "post"    -> [type |-> "update_message_flags", all |-> FALSE,
                             operation |-> "add", flag |-> "read", messages |-> <<n>>]

SystemEvent(type) == [type |-> type, messages |-> << >>]

ClassOf(event) ==
  CASE event.type = "message"              -> "message"
    [] event.type = "update_message"       -> "update"
    [] event.type = "update_message_flags" -> "post"
    [] OTHER                               -> "normal"

(* The places of the numbers a list of events carries: event, position.    *)
Items(events) == UNION {{<<i, j>> : j \in DOMAIN events[i].messages} : i \in DOMAIN events}

NumberAt(events, x) == events[x[1]].messages[x[2]]

MessageIdAt(events, x) == message_ids[NumberAt(events, x)]

(* The numbers of a batch, the classes ordered by their ranks: messages    *)
(* sorted by their ids, the other classes as they came.                    *)
Arranged(events, rank) ==
  LET Class(x) == ClassOf(events[x[1]])
      Earlier(x, y) == x[1] < y[1] \/ (x[1] = y[1] /\ x[2] < y[2])
      SortedBefore(x, y) ==
        \/ MessageIdAt(events, x) < MessageIdAt(events, y)
        \/ MessageIdAt(events, x) = MessageIdAt(events, y) /\ Earlier(x, y)
      Before(x, y) ==
        \/ rank[Class(x)] < rank[Class(y)]
        \/ /\ Class(x) = Class(y)
           /\ IF Class(x) = "message" THEN SortedBefore(x, y) ELSE Earlier(x, y)
      order == InOrder(Items(events), Before)
  IN  [k \in 1..Cardinality(Items(events)) |-> NumberAt(events, order[k])]

(* Fault: flag changes are applied before the messages they are about. *)
DispatchFlagsFirst(events) ==
  Arranged(events, [normal |-> 1, post |-> 2, message |-> 3, update |-> 4])

(* The order in which get_events_success applies a batch. *)
Dispatch(events) ==
  Arranged(events, [normal |-> 1, message |-> 2, update |-> 3, post |-> 4])

-----------------------------------------------------------------------------
(* Responses.  Only the response to get_events_xhr can reach the tab. *)

Response(result, events) == [result |-> result, events |-> events]

Respond(conn, response) == inbox' = IF conn = xhr THEN response ELSE inbox

(* add_event: push, then finish_current_handler.  The response is lost if  *)
(* the connection is closed.                                               *)
AddEvent(event) ==
  LET pushed == push(eq, event)
  IN  IF handler = None
      THEN eq' = pushed /\ UNCHANGED <<handler, inbox>>
      ELSE /\ eq' = AfterContents(pushed)
           /\ handler' = None
           /\ Respond(handler, Response("success", contents(pushed)))

-----------------------------------------------------------------------------
(* The Tornado process. *)

(* The id of the message an event of this class may bring: messages reach  *)
(* the process in another order than they got their ids.                   *)
NewMessageIds(class) ==
  IF class = "message" THEN 1..MaxEvents \ ToSet(message_ids) ELSE {0}

(* process_event: an event for the user of the tab arrives. *)
Generate(class) ==
  /\ phase # "down"
  /\ Len(generated) < MaxEvents
  /\ generated' = Append(generated, class)
  /\ \E id \in NewMessageIds(class) : message_ids' = Append(message_ids, id)
  /\ IF alive THEN AddEvent(Event(class, Len(generated) + 1))
              ELSE UNCHANGED <<eq, handler, inbox>>
  /\ UNCHANGED <<phase, alive, disk, reqs, closing, tab, stale, faults>>

(* timeout_callback of connect_handler. *)
Heartbeat ==
  /\ phase # "down"
  /\ handler # None
  /\ eq.next_event_id < MaxBeatId
  /\ AddEvent(SystemEvent("heartbeat"))
  /\ UNCHANGED <<phase, alive, disk, reqs, closing, tab, history, faults>>

BadEventQueueId(req) ==
  /\ ~alive
  /\ Respond(req.conn, Response("bad_event_queue_id", << >>))
  /\ UNCHANGED <<eq, handler>>

(* An acknowledgement the queue cannot place: an event newer than it has   *)
(* been pruned, or it is of an event the queue never held.  In the second  *)
(* case the queue has been pruned before the request is rejected.          *)
Rejected(req) ==
  LET pruned == IF req.last < eq.newest_pruned_id THEN eq ELSE prune(eq, req.last)
  IN  /\ alive
      /\ req.last # pruned.newest_pruned_id
      /\ eq' = pruned
      /\ Respond(req.conn, Response("error", << >>))
      /\ UNCHANGED handler

(* finish_current_handler gives the contents to the connection waiting so  *)
(* far; then the request is answered, or waits in its place.               *)
Accepted(req) ==
  LET pruned == prune(eq, req.last)
      batch == contents(pruned)
      answer == Response("success", batch)
      immediate == batch # << >> \/ req.dont_block
  IN  /\ alive
      /\ req.last = pruned.newest_pruned_id
      /\ eq' = IF handler # None \/ immediate THEN AfterContents(pruned) ELSE pruned
      /\ inbox' = IF xhr # None /\ (xhr = handler \/ (xhr = req.conn /\ immediate))
                  THEN answer ELSE inbox
      /\ handler' = IF immediate THEN None ELSE req.conn

FetchEvents ==
  /\ phase # "down"
  /\ \E req \in reqs :
       /\ reqs' = reqs \ {req}
       /\ BadEventQueueId(req) \/ Rejected(req) \/ Accepted(req)
  /\ UNCHANGED <<phase, alive, disk, closing, tab, history, faults>>

OnConnectionClose ==
  /\ phase # "down"
  /\ \E c \in closing :
       /\ closing' = closing \ {c}
       /\ handler' = IF handler = c THEN None ELSE handler
  /\ UNCHANGED <<phase, alive, eq, disk, reqs, inbox, tab, history, faults>>

Fault == faults < MaxFaults /\ faults' = faults + 1

(* gc_event_queues: the queue has been idle for queue_timeout. *)
Expire ==
  /\ Fault
  /\ phase = "up" /\ alive /\ handler = None
  /\ alive' = FALSE
  /\ eq' = NewQueue
  /\ UNCHANGED <<phase, handler, disk, network, tab, history>>

(* The exit stack of runtornado: dump_event_queues runs first, the         *)
(* connections are closed after it and RabbitMQ last.                      *)
Stop ==
  /\ Fault
  /\ phase = "up"
  /\ phase' = "stopping"
  /\ disk' = IF alive THEN eq ELSE NoFile
  /\ UNCHANGED <<alive, eq, handler, network, tab, history>>

(* What is left when the process is gone. *)
ProcessGone ==
  /\ phase' = "down"
  /\ alive' = FALSE /\ eq' = NewQueue /\ handler' = None
  /\ reqs' = {} /\ closing' = {}
  /\ UNCHANGED <<disk, inbox, tab, generated, message_ids>>

(* The queue has given out an id, or made its virtual events real, since   *)
(* the file was written.                                                   *)
BeyondFile ==
  /\ alive
  /\ \/ eq.next_event_id # disk.next_event_id
     \/ eq.virtual_events # disk.virtual_events

Exit ==
  /\ phase = "stopping"
  /\ ProcessGone
  /\ stale' = (stale \/ BeyondFile)
  /\ UNCHANGED faults

Crash == Fault /\ phase = "up" /\ ProcessGone /\ UNCHANGED stale

(* load_event_queues, the rename of the file to *.last, and                *)
(* send_restart_events, with nothing in between.                           *)
Start ==
  /\ phase = "down"
  /\ phase' = "up"
  /\ alive' = (disk # NoFile)
  /\ eq' = IF disk # NoFile THEN push(disk, SystemEvent("restart")) ELSE NewQueue
  /\ disk' = NoFile
  /\ UNCHANGED <<handler, network, tab, history, faults>>

-----------------------------------------------------------------------------
(* The tab. *)

(* The connections that mean something to the server. *)
Held == ({handler} \cup {r.conn : r \in reqs}) \ {None}

(* The numbers of connections mean nothing: a new one gets the smallest    *)
(* that is not in use.                                                     *)
FreeConns == Conns \ (closing \cup Held \cup {xhr})

(* get_events: abort the request that is out, send another one. *)
get_events(dont_block) ==
  /\ ~reloading
  /\ FreeConns # {}
  /\ xhr' = Min(FreeConns)
  /\ reqs' = IF phase = "down" THEN reqs
             ELSE reqs \cup {[conn |-> xhr', last |-> last,
                              dont_block |-> dont_block \/ failing]}
  /\ closing' = closing \cup ({xhr} \cap Held)
  /\ inbox' = NoResponse
  /\ timer' = FALSE
  /\ UNCHANGED <<failing, last, waiting, stored, reloading, applied>>

TimerFires ==
  /\ timer
  /\ get_events(FALSE)
  /\ UNCHANGED <<server, history, faults>>

(* restart_get_events, from the watchdog, a button or a sent message that  *)
(* has not come back.                                                      *)
RestartGetEvents ==
  /\ Fault
  /\ \E dont_block \in BOOLEAN : get_events(dont_block)
  /\ UNCHANGED <<server, history>>

(* get_events_success. *)
GetEventsSuccess(events) ==
  /\ IF waiting
     THEN stored' = stored \o events /\ UNCHANGED applied
     ELSE stored' = << >> /\ applied' = applied \o Dispatch(stored \o events)

Delivered(result) ==
  /\ xhr # None
  /\ inbox # NoResponse
  /\ inbox.result = result
  /\ xhr' = None
  /\ inbox' = NoResponse
  /\ UNCHANGED <<reqs, closing, server, waiting, history, faults>>

DeliverSuccess ==
  /\ Delivered("success")
  /\ failing' = FALSE
  /\ last' = Max({last} \cup {e.id : e \in ToSet(inbox.events)})
  /\ GetEventsSuccess(inbox.events)
  /\ timer' = TRUE
  /\ UNCHANGED reloading

DeliverBadEventQueueId ==
  /\ Delivered("bad_event_queue_id")
  /\ reloading' = TRUE
  /\ UNCHANGED <<failing, last, stored, timer, applied>>

(* Fault: a request that times out is not made again. *)
RequestFailsForGood(kind) ==
  /\ xhr # None
  /\ xhr' = None
  /\ inbox' = NoResponse
  /\ closing' = closing \cup ({xhr} \cap Held)
  /\ failing' = (kind = "error")
  /\ timer' = (kind = "error")
  /\ UNCHANGED <<reqs, server, last, waiting, stored, reloading, applied, history>>

(* The error callback, for every error but BAD_EVENT_QUEUE_ID and for the  *)
(* timeout of the request: the tab tries again.                            *)
RequestFails(kind) ==
  /\ xhr # None
  /\ xhr' = None
  /\ inbox' = NoResponse
  /\ closing' = closing \cup ({xhr} \cap Held)
  /\ failing' = (kind = "error")
  /\ timer' = TRUE
  /\ UNCHANGED <<reqs, server, last, waiting, stored, reloading, applied, history>>

NetworkFails == Fault /\ \E kind \in {"error", "timeout"} : RequestFails(kind)

(* The request will bring no events: the server rejected it, or is not     *)
(* going to answer it any more.                                            *)
Hopeless ==
  IF inbox # NoResponse THEN inbox.result = "error" ELSE xhr \notin Held

HopelessRequestFails ==
  /\ Hopeless
  /\ \E kind \in IF inbox = NoResponse THEN {"error", "timeout"} ELSE {"error"} :
       RequestFails(kind)
  /\ UNCHANGED faults

(* finished_initial_fetch. *)
FinishedInitialFetch ==
  /\ waiting /\ ~reloading
  /\ waiting' = FALSE
  /\ stored' = << >>
  /\ applied' = applied \o Dispatch(stored)
  /\ UNCHANGED <<server, network, xhr, timer, failing, last, reloading, history, faults>>

(* The page is loaded again: do_events_register allocates a queue and      *)
(* returns the state of the server, which reflects every event generated,  *)
(* in the order of the server.                                             *)
Reload ==
  /\ reloading /\ phase = "up"
  /\ alive' = TRUE /\ eq' = NewQueue /\ handler' = None
  /\ reqs' = {} /\ closing' = {} /\ inbox' = NoResponse
  /\ xhr' = None /\ timer' = TRUE /\ failing' = FALSE
  /\ last' = -1 /\ waiting' = TRUE /\ stored' = << >> /\ reloading' = FALSE
  /\ applied' = [n \in DOMAIN generated |-> n] /\ stale' = FALSE
  /\ UNCHANGED <<phase, disk, generated, message_ids, faults>>

-----------------------------------------------------------------------------

Init ==
  /\ phase = "up" /\ alive = TRUE /\ eq = NewQueue /\ handler = None /\ disk = NoFile
  /\ reqs = {} /\ closing = {} /\ inbox = NoResponse
  /\ xhr = None /\ timer = TRUE /\ failing = FALSE /\ last = -1
  /\ waiting = TRUE /\ stored = << >> /\ reloading = FALSE
  /\ generated = << >> /\ message_ids = << >> /\ stale = FALSE
  /\ applied = << >> /\ faults = 0

Next ==
  \/ \E class \in Classes : Generate(class)
  \/ Heartbeat \/ FetchEvents \/ OnConnectionClose
  \/ Expire \/ Stop \/ Exit \/ Crash \/ Start
  \/ TimerFires \/ RestartGetEvents
  \/ DeliverSuccess \/ DeliverBadEventQueueId
  \/ NetworkFails \/ HopelessRequestFails
  \/ FinishedInitialFetch \/ Reload

Spec == Init /\ [][Next]_vars

(* Tornado's loop runs every callback that is ready and supervisord starts *)
(* the process again; a browser runs its timers and callbacks, a request   *)
(* ends by its "timeout" at the latest, the initial fetch is retried until *)
(* it succeeds and do_reload_app retries the reload every 30 seconds.      *)
Fairness ==
  /\ WF_vars(FetchEvents) /\ WF_vars(OnConnectionClose)
  /\ WF_vars(Exit) /\ WF_vars(Start)
  /\ WF_vars(TimerFires) /\ WF_vars(HopelessRequestFails)
  /\ WF_vars(DeliverSuccess) /\ WF_vars(DeliverBadEventQueueId)
  /\ WF_vars(FinishedInitialFetch) /\ WF_vars(Reload)

FairSpec == Spec /\ Fairness

-----------------------------------------------------------------------------
(* Properties. *)

(* The queue an event must still be found in: the one in memory, or the    *)
(* one on disk between two processes.                                      *)
Surviving == IF phase = "down" THEN disk ELSE eq
QueueSurvives == IF phase = "down" THEN disk # NoFile ELSE alive

Fetchable == {e \in HeldEvents(Surviving) : e.id > last}

(* Where event n is applied, stored or still to be fetched by the tab. *)
Occurrences(n) ==
  {<<"applied", i>> : i \in {i \in DOMAIN applied : applied[i] = n}}
  \cup {<<"stored", x>> : x \in {x \in Items(stored) : NumberAt(stored, x) = n}}
  \cup UNION {{<<"queued", e, j>> : j \in {j \in DOMAIN e.messages : e.messages[j] = n}} :
                e \in Fetchable}

(* No event is lost and none is doubled (push, prune and contents of       *)
(* EventQueue, fetch_events, dump and load, get_events_success): as long   *)
(* as the queue of the tab survives, and has not gone on without its file, *)
(* each event generated for it is in exactly one place, whatever was       *)
(* aborted, overtaken, lost or restarted.                                  *)
EachEventInOnePlace ==
  (QueueSurvives /\ ~reloading /\ ~stale) =>
    \A n \in DOMAIN generated : Cardinality(Occurrences(n)) = 1

(* fetch_events never answers the request the tab is waiting for with      *)
(* "already pruned" or "not in this queue", unless the queue has gone on   *)
(* without its file: the tab would send the same last_event_id again, for  *)
(* ever.                                                                   *)
NeverRejected == (inbox # NoResponse /\ ~stale) => inbox.result # "error"

ClassBefore(c, d) ==
  <<c, d>> \in {<<"normal", "message">>, <<"normal", "update">>, <<"normal", "post">>,
               <<"message", "update">>, <<"message", "post">>, <<"update", "post">>}

(* A stale tab has lost its place in the stream, and what it applies means *)
(* nothing.                                                                *)
Stream == INSTANCE EventStream WITH
  Before <- ClassBefore, MessageIds <- 0..MaxEvents,
  applied <- IF stale THEN << >> ELSE applied, broken <- stale

(* The whole arrangement implements the stream of EventStream: the tab     *)
(* applies each event once, leaves no gap, sorts the messages of a batch   *)
(* by their ids, keeps the order of every other class, and applies edits   *)
(* and then flag changes after the messages they arrive with.              *)
ImplementsEventStream == Stream!Spec

(* Every event is eventually applied, however the faults fall, unless the  *)
(* queue has gone on without its file.                                     *)
EventuallyApplied ==
  \A n \in 1..MaxEvents : (n <= Len(generated)) ~> (n \in ToSet(applied) \/ stale)
=============================================================================
