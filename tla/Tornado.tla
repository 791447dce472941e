------------------------------- MODULE Tornado -------------------------------
(***************************************************************************)
(* The registry of event queues in one Tornado process: the dictionaries   *)
(* clients, user_clients, realm_clients_all_streams and web_reload_clients *)
(* of zerver/tornado/event_queue.py, the two maps by handler id            *)
(* (descriptors_by_handler_id of descriptors.py, handlers of handlers.py), *)
(* and everything that keeps them in step: registration of queues,         *)
(* long-polling GET requests, events, heartbeats, connections that close,  *)
(* garbage collection, DELETE requests and restarts of the process.        *)
(*                                                                         *)
(* A queue is reduced to whether it holds events; EventQueue and           *)
(* EventDelivery model its contents.  A queue id is a fresh UUID, so what  *)
(* is fixed when the queue is registered is a constant of its id.          *)
(***************************************************************************)
EXTENDS Integers

CONSTANTS
  Queues,            \* queue ids
  Users, Realms,
  Owner,             \* the user a queue belongs to
  RealmOf,           \* the realm of a user
  Wide,              \* queues with all_public_streams or a narrow
  Reloadable,        \* queues that accept web_reload_client events
  MaxHandlers,       \* requests one process accepts
  NoQueue

ASSUME QueuesAssumption ==
  /\ Owner \in [Queues -> Users]
  /\ RealmOf \in [Users -> Realms]
  /\ Wide \subseteq Queues
  /\ Reloadable \subseteq Queues
  /\ NoQueue \notin Queues

ASSUME HandlersAssumption == MaxHandlers \in Nat \ {0}

Handlers == 0..(MaxHandlers - 1)
NoHandler == -1

VARIABLES
  fresh,                      \* queue ids not given out yet
  clients,                    \* the keys of clients
  user_clients,               \* the queues listed for each user
  realm_clients_all_streams,  \* and for each realm
  web_reload_clients,
  interrupted,                \* queues whose removal a hook has cut short
  holding,                    \* the queues that hold events
  current_handler_id,         \* of each client descriptor
  timeout_handle,             \* the descriptors with a heartbeat timer
  descriptors_by_handler_id,
  handlers,                   \* the keys of handlers
  next_handler_id,            \* current_handler_id of handlers.py
  asked,                      \* the queue each handler asks for
  stage,                      \* how far the request of each handler is
  cleaning                    \* DELETE requests past access_client_descriptor

registry ==
  <<fresh, clients, user_clients, realm_clients_all_streams, web_reload_clients, interrupted>>
waits == <<current_handler_id, timeout_handle, descriptors_by_handler_id>>
vars == <<registry, holding, waits, handlers, next_handler_id, asked, stage, cleaning>>

(* "queued": allocated, and Django has not called fetch_events yet;        *)
(* "parked": fetch_events returned "async"; "answered": a response has     *)
(* been handed to Tornado; "done": finished, or closed by the client.      *)
Stages == {"none", "queued", "parked", "answered", "done"}

-----------------------------------------------------------------------------
(* finish_current_handler, for each queue of S.  A handler whose           *)
(* connection has closed is not in handlers any more and gets no response. *)
(* disconnect_handler tests the truth of current_handler_id, so it leaves  *)
(* the descriptor of handler 0 in place.                                   *)

Waiting(S) == {current_handler_id[q] : q \in S} \ {NoHandler}

(* Fault: the handlers get no response. *)
StageUnfinished(S) == stage

StageAfterFinish(S) ==
  [h \in Handlers |->
     IF h \notin Waiting(S) THEN stage[h]
     ELSE IF h \in handlers THEN "answered" ELSE "done"]

CurrentAfterDisconnect(S) ==
  [q \in Queues |-> IF q \in S THEN NoHandler ELSE current_handler_id[q]]

DescriptorsAfterDisconnect(S) ==
  [h \in Handlers |-> IF h \in Waiting(S) \ {0} THEN NoQueue
                      ELSE descriptors_by_handler_id[h]]

finish_current_handler(S) ==
  /\ stage' = StageAfterFinish(S)
  /\ current_handler_id' = CurrentAfterDisconnect(S)
  /\ descriptors_by_handler_id' = DescriptorsAfterDisconnect(S)
  /\ timeout_handle' = timeout_handle \ S

(* add_event, for each queue of S. *)
add_event(S) ==
  /\ holding' = holding \cup S
  /\ finish_current_handler(S)

-----------------------------------------------------------------------------
(* Requests. *)

AllocateHandlerId ==
  /\ next_handler_id < MaxHandlers
  /\ next_handler_id' = next_handler_id + 1

(* allocate_client_descriptor, for a registration request: it is answered  *)
(* at once, so its handler id is only used up.                             *)
Register(q) ==
  /\ q \in fresh
  /\ AllocateHandlerId
  /\ fresh' = fresh \ {q}
  /\ clients' = clients \cup {q}
  /\ user_clients' = [user_clients EXCEPT ![Owner[q]] = @ \cup {q}]
  /\ realm_clients_all_streams' =
       IF q \in Wide
       THEN [realm_clients_all_streams EXCEPT ![RealmOf[Owner[q]]] = @ \cup {q}]
       ELSE realm_clients_all_streams
  /\ UNCHANGED <<web_reload_clients, interrupted, holding, waits>>
  /\ UNCHANGED <<handlers, asked, stage, cleaning>>

(* A GET request for a queue some client knows of. *)
GetArrives(q) ==
  /\ q \notin fresh
  /\ AllocateHandlerId
  /\ handlers' = handlers \cup {next_handler_id}
  /\ asked' = [asked EXCEPT ![next_handler_id] = q]
  /\ stage' = [stage EXCEPT ![next_handler_id] = "queued"]
  /\ UNCHANGED <<registry, holding, waits, cleaning>>

(* fetch_events refuses the request: the queue is gone, belongs to another *)
(* user, or the acknowledgement is of an event it never held, in which     *)
(* case it may have been pruned.                                           *)
FetchRefused(h) ==
  /\ stage[h] = "queued"
  /\ stage' = [stage EXCEPT ![h] = IF h \in handlers THEN "answered" ELSE "done"]
  /\ holding' \in {holding, holding \ ({asked[h]} \cap clients)}
  /\ UNCHANGED <<registry, waits, handlers, next_handler_id, asked, cleaning>>

(* The queue still holds events after the prune, or the client would not   *)
(* wait: the request is answered.                                          *)
FetchAnswered(h) ==
  LET q == asked[h]
  IN  /\ stage[h] = "queued"
      /\ q \in clients
      /\ holding' \in {holding, holding \ {q}}
      /\ stage' = [StageAfterFinish({q}) EXCEPT
                     ![h] = IF h \in handlers THEN "answered" ELSE "done"]
      /\ current_handler_id' = CurrentAfterDisconnect({q})
      /\ descriptors_by_handler_id' = DescriptorsAfterDisconnect({q})
      /\ timeout_handle' = timeout_handle \ {q}
      /\ UNCHANGED <<registry, handlers, next_handler_id, asked, cleaning>>

(* Faults: the handler waiting so far is not finished; no timer is set. *)
FetchParkedOverOther(h) ==
  LET q == asked[h]
  IN  /\ stage[h] = "queued"
      /\ q \in clients
      /\ holding' = holding \ {q}
      /\ stage' = [stage EXCEPT ![h] = "parked"]
      /\ current_handler_id' = [current_handler_id EXCEPT ![q] = h]
      /\ descriptors_by_handler_id' = [descriptors_by_handler_id EXCEPT ![h] = q]
      /\ timeout_handle' = timeout_handle \cup {q}
      /\ UNCHANGED <<registry, handlers, next_handler_id, asked, cleaning>>

FetchParkedWithoutTimer(h) ==
  LET q == asked[h]
  IN  /\ stage[h] = "queued"
      /\ q \in clients
      /\ holding' = holding \ {q}
      /\ stage' = [StageAfterFinish({q}) EXCEPT ![h] = "parked"]
      /\ current_handler_id' = [current_handler_id EXCEPT ![q] = h]
      /\ descriptors_by_handler_id' = [DescriptorsAfterDisconnect({q}) EXCEPT ![h] = q]
      /\ timeout_handle' = timeout_handle \ {q}
      /\ UNCHANGED <<registry, handlers, next_handler_id, asked, cleaning>>

(* The acknowledgement has emptied the queue: connect_handler. *)
FetchParked(h) ==
  LET q == asked[h]
  IN  /\ stage[h] = "queued"
      /\ q \in clients
      /\ holding' = holding \ {q}
      /\ stage' = [StageAfterFinish({q}) EXCEPT ![h] = "parked"]
      /\ current_handler_id' = [current_handler_id EXCEPT ![q] = h]
      /\ descriptors_by_handler_id' = [DescriptorsAfterDisconnect({q}) EXCEPT ![h] = q]
      /\ timeout_handle' = timeout_handle \cup {q}
      /\ UNCHANGED <<registry, handlers, next_handler_id, asked, cleaning>>

(* The response is written: on_finish. *)
OnFinish(h) ==
  /\ stage[h] = "answered"
  /\ stage' = [stage EXCEPT ![h] = "done"]
  /\ handlers' = handlers \ {h}
  /\ UNCHANGED <<registry, holding, waits, next_handler_id, asked, cleaning>>

(* The client goes away before its response is written; a request Django   *)
(* has not processed yet is processed all the same.                        *)
OnConnectionClose(h) ==
  LET q == descriptors_by_handler_id[h]
      S == {q} \ {NoQueue}
  IN  /\ h \in handlers
      /\ handlers' = handlers \ {h}
      /\ stage' = [stage EXCEPT ![h] = IF @ = "queued" THEN @ ELSE "done"]
      /\ current_handler_id' = CurrentAfterDisconnect(S)
      /\ descriptors_by_handler_id' = DescriptorsAfterDisconnect(S)
      /\ timeout_handle' = timeout_handle \ S
      /\ UNCHANGED <<registry, holding, next_handler_id, asked, cleaning>>

-----------------------------------------------------------------------------
(* Events. *)

(* process_event and its variants, for the queues among S that accept the  *)
(* event.                                                                  *)
ProcessEvent(u, S) ==
  /\ S \subseteq user_clients[u]
  /\ add_event(S)
  /\ UNCHANGED <<registry, handlers, next_handler_id, asked, cleaning>>

(* process_message_event to a public stream of the realm of u. *)
ProcessMessageEvent(u, S) ==
  /\ S \subseteq user_clients[u] \cup realm_clients_all_streams[RealmOf[u]]
  /\ add_event(S)
  /\ UNCHANGED <<registry, handlers, next_handler_id, asked, cleaning>>

(* timeout_callback of connect_handler. *)
Heartbeat(q) ==
  /\ q \in timeout_handle
  /\ add_event({q})
  /\ UNCHANGED <<registry, handlers, next_handler_id, asked, cleaning>>

(* send_web_reload_client_events, for some number of queues. *)
SendWebReloadClientEvents(S) ==
  /\ S \subseteq web_reload_clients
  /\ web_reload_clients' = web_reload_clients \ S
  /\ add_event(S)
  /\ UNCHANGED <<fresh, clients, user_clients, realm_clients_all_streams, interrupted>>
  /\ UNCHANGED <<handlers, next_handler_id, asked, cleaning>>

-----------------------------------------------------------------------------
(* Removal of queues. *)

(* Faults: the list of the realm is not filtered; web_reload_clients keeps *)
(* queues that are removed.                                                *)
DoGcForgettingRealms(to_remove, removed, unmarked) ==
  /\ user_clients' = [u \in Users |-> user_clients[u] \ to_remove]
  /\ UNCHANGED realm_clients_all_streams
  /\ web_reload_clients' = web_reload_clients \ unmarked
  /\ clients' = clients \ removed
  /\ interrupted' = (interrupted \cup to_remove) \ removed
  /\ holding' = holding \ removed
  /\ UNCHANGED fresh

(* do_gc_event_queues(to_remove, ...).  removed and unmarked are what its  *)
(* last loop has got to: all of to_remove, unless a hook raises.           *)
do_gc_event_queues(to_remove, removed, unmarked) ==
  /\ user_clients' = [u \in Users |-> user_clients[u] \ to_remove]
  /\ realm_clients_all_streams' =
       [r \in Realms |-> realm_clients_all_streams[r] \ to_remove]
  /\ web_reload_clients' = web_reload_clients \ unmarked
  /\ clients' = clients \ removed
  /\ interrupted' = (interrupted \cup to_remove) \ removed
  /\ holding' = holding \ removed
  /\ UNCHANGED fresh

(* Fault: expired looks at the time of the last connection only. *)
GcQueuesInUse(to_remove) ==
  /\ to_remove # {}
  /\ to_remove \subseteq clients
  /\ do_gc_event_queues(to_remove, to_remove, to_remove)
  /\ UNCHANGED <<waits, handlers, next_handler_id, asked, stage, cleaning>>

(* gc_event_queues: queues without a handler, idle for their queue_timeout. *)
GcEventQueues(to_remove) ==
  /\ to_remove # {}
  /\ to_remove \subseteq {q \in clients : current_handler_id[q] = NoHandler}
  /\ do_gc_event_queues(to_remove, to_remove, to_remove)
  /\ UNCHANGED <<waits, handlers, next_handler_id, asked, stage, cleaning>>

(* The hook raises for one queue; those after it are not reached. *)
GcEventQueuesFails(to_remove) ==
  /\ to_remove \subseteq {q \in clients : current_handler_id[q] = NoHandler}
  /\ \E failed \in to_remove : \E removed \in SUBSET (to_remove \ {failed}) :
       do_gc_event_queues(to_remove, removed, removed \cup {failed})
  /\ UNCHANGED <<waits, handlers, next_handler_id, asked, stage, cleaning>>

(* cleanup_event_queue, in Django's thread: the queue is looked up. *)
DeleteArrives(q) ==
  /\ q \in clients
  /\ AllocateHandlerId
  /\ cleaning' = cleaning \cup {q}
  /\ UNCHANGED <<registry, holding, waits, handlers, asked, stage>>

(* ClientDescriptor.cleanup, in Tornado's thread.  A queue collected in    *)
(* the meantime is a KeyError and no change.                               *)
Cleanup(q) ==
  /\ q \in cleaning
  /\ cleaning' = cleaning \ {q}
  /\ finish_current_handler({q})
  /\ do_gc_event_queues({q}, {q}, {q})
  /\ UNCHANGED <<handlers, next_handler_id, asked>>

(* The hook raises: the queue stays in clients. *)
CleanupFails(q) ==
  /\ q \in cleaning \cap clients
  /\ cleaning' = cleaning \ {q}
  /\ finish_current_handler({q})
  /\ do_gc_event_queues({q}, {}, {q})
  /\ UNCHANGED <<handlers, next_handler_id, asked>>

-----------------------------------------------------------------------------
(* The process. *)

(* The process ends and another one loads what it dumped, kept; a crash    *)
(* dumps nothing.  restarted are the queues that accept restart events.    *)
Restart(kept, restarted) ==
  /\ kept \in {clients, {}}
  /\ restarted \subseteq kept
  /\ clients' = kept
  /\ user_clients' = [u \in Users |-> {q \in kept : Owner[q] = u}]
  /\ realm_clients_all_streams' =
       [r \in Realms |-> {q \in kept \cap Wide : RealmOf[Owner[q]] = r}]
  /\ web_reload_clients' = kept \cap Reloadable
  /\ interrupted' = {}
  /\ holding' = (holding \cap kept) \cup restarted
  /\ current_handler_id' = [q \in Queues |-> NoHandler]
  /\ timeout_handle' = {}
  /\ descriptors_by_handler_id' = [h \in Handlers |-> NoQueue]
  /\ handlers' = {}
  /\ next_handler_id' = 0
  /\ asked' = [h \in Handlers |-> NoQueue]
  /\ stage' = [h \in Handlers |-> "none"]
  /\ cleaning' = {}
  /\ UNCHANGED fresh

Init ==
  /\ fresh = Queues
  /\ clients = {}
  /\ user_clients = [u \in Users |-> {}]
  /\ realm_clients_all_streams = [r \in Realms |-> {}]
  /\ web_reload_clients = {}
  /\ interrupted = {}
  /\ holding = {}
  /\ current_handler_id = [q \in Queues |-> NoHandler]
  /\ timeout_handle = {}
  /\ descriptors_by_handler_id = [h \in Handlers |-> NoQueue]
  /\ handlers = {}
  /\ next_handler_id = 0
  /\ asked = [h \in Handlers |-> NoQueue]
  /\ stage = [h \in Handlers |-> "none"]
  /\ cleaning = {}

Next ==
  \/ \E q \in Queues : Register(q) \/ GetArrives(q) \/ Heartbeat(q)
  \/ \E q \in Queues : DeleteArrives(q) \/ Cleanup(q) \/ CleanupFails(q)
  \/ \E h \in Handlers : FetchRefused(h) \/ FetchAnswered(h) \/ FetchParked(h)
  \/ \E h \in Handlers : OnFinish(h) \/ OnConnectionClose(h)
  \/ \E u \in Users, S \in SUBSET Queues : ProcessEvent(u, S) \/ ProcessMessageEvent(u, S)
  \/ \E S \in SUBSET Queues : SendWebReloadClientEvents(S)
  \/ \E S \in SUBSET Queues : GcEventQueues(S) \/ GcEventQueuesFails(S)
  \/ \E kept, restarted \in SUBSET Queues : Restart(kept, restarted)

Spec == Init /\ [][Next]_vars

(* Tornado's loop runs a timer that is due and a callback that is ready.   *)
FairSpec ==
  /\ Spec
  /\ \A q \in Queues : WF_vars(Heartbeat(q))
  /\ \A h \in Handlers : WF_vars(OnFinish(h))

-----------------------------------------------------------------------------
(* Properties. *)

TypeOK ==
  /\ fresh \subseteq Queues
  /\ clients \subseteq Queues \ fresh
  /\ user_clients \in [Users -> SUBSET Queues]
  /\ realm_clients_all_streams \in [Realms -> SUBSET Queues]
  /\ web_reload_clients \subseteq Queues
  /\ interrupted \subseteq clients
  /\ holding \subseteq Queues
  /\ current_handler_id \in [Queues -> Handlers \cup {NoHandler}]
  /\ timeout_handle \subseteq Queues
  /\ descriptors_by_handler_id \in [Handlers -> Queues \cup {NoQueue}]
  /\ handlers \subseteq Handlers
  /\ next_handler_id \in 0..MaxHandlers
  /\ asked \in [Handlers -> Queues \cup {NoQueue}]
  /\ stage \in [Handlers -> Stages]
  /\ cleaning \subseteq Queues

(* The lists by user and by realm name exactly the queues in clients, each *)
(* under its owner and, if it follows public streams, under its realm, so  *)
(* that an event reaches every queue it should and no queue that is gone.  *)
(* The only queues in clients that get no events are those whose removal   *)
(* the exception of a gc hook has interrupted.  clients[qid] of            *)
(* send_web_reload_client_events finds its queue: a queue that is gone is  *)
(* never left in web_reload_clients.                                       *)
ListsMatchClients ==
  LET listed == clients \ interrupted
  IN  /\ \A u \in Users : user_clients[u] = {q \in listed : Owner[q] = u}
      /\ \A r \in Realms :
           realm_clients_all_streams[r] = {q \in listed \cap Wide : RealmOf[Owner[q]] = r}
      /\ web_reload_clients \subseteq clients \cap Reloadable

(* The two directions of "handler h waits for queue q" agree, so that      *)
(* clear_descriptor_by_handler_id never meets a missing key and a closing  *)
(* connection disconnects its own queue.  disconnect_handler leaves the    *)
(* entry of handler 0 behind.                                              *)
HandlersMatchDescriptors ==
  /\ \A q \in Queues : current_handler_id[q] # NoHandler
       => descriptors_by_handler_id[current_handler_id[q]] = q
  /\ \A h \in Handlers \ {0} : descriptors_by_handler_id[h] # NoQueue
       => current_handler_id[descriptors_by_handler_id[h]] = h

(* A queue with a handler is in clients, holds nothing, and has a timer    *)
(* that will answer the handler: nobody waits for events that are there,   *)
(* on a queue that is gone ("event queues are idle when passed to          *)
(* do_gc_event_queues"), or for ever.                                      *)
WaitersAreServed ==
  \A q \in Queues :
    /\ current_handler_id[q] # NoHandler => q \in clients \ holding
    /\ q \in timeout_handle <=> current_handler_id[q] # NoHandler

(* Handler ids are given out in order: nothing is known of one to come,    *)
(* and a request Django has not processed has no descriptor.               *)
HandlerIdsInOrder ==
  \A h \in Handlers :
    /\ h >= next_handler_id =>
         stage[h] = "none" /\ h \notin handlers /\ descriptors_by_handler_id[h] = NoQueue
    /\ stage[h] = "queued" => descriptors_by_handler_id[h] = NoQueue

(* Handler 0 has been answered and is still in descriptors_by_handler_id. *)
HandlerZeroLeft ==
  /\ descriptors_by_handler_id[0] # NoQueue
  /\ current_handler_id[descriptors_by_handler_id[0]] # 0

Stranded(h) ==
  /\ stage[h] = "parked" /\ h \in handlers
  /\ \A q \in Queues : current_handler_id[q] # h

(* A parked request whose client is still there is the current handler of  *)
(* its queue, so that the next event or heartbeat answers it.              *)
NoneStrandedUnlessZeroLeft == HandlerZeroLeft \/ \A h \in Handlers : ~Stranded(h)

(* Each long poll ends: by an event, a heartbeat, a newer request, the end *)
(* of its connection or of the process.                                    *)
LongPollsEnd ==
  \A h \in Handlers : stage[h] = "parked" ~> (stage[h] # "parked" \/ HandlerZeroLeft)
=============================================================================
