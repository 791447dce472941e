---------------------------- MODULE RabbitQueues ----------------------------
(***************************************************************************)
(* The way of a notice through RabbitMQ: Django publishes it for Tornado   *)
(* (SimpleQueueClient), Tornado processes it for each user, publishes jobs *)
(* for a worker and retries what fails (TornadoQueueClient,                *)
(* get_wrapped_process_notification), and the worker consumes the jobs in  *)
(* batches (LoopQueueProcessingWorker).  zerver/lib/queue.py,              *)
(* zerver/worker/base.py and their uses.  No one asks RabbitMQ to confirm  *)
(* a publication; it keeps what has not been acknowledged and delivers it  *)
(* again, in its old place, when a connection ends.                        *)
(***************************************************************************)
EXTENDS Integers, Sequences, FiniteSets, SequencesExt

CONSTANTS
  NumNotices,            \* Django publishes notices 1..NumNotices, in this order
  NumUsers,              \* users of a notice
  Idle,                  \* the users for whom a notice leads to a job
  NumHookJobs,           \* jobs Tornado publishes on its own, as missedmessage_hook does
  Prefetch,              \* unacknowledged notices Tornado asks for
  BatchSize,             \* batch_size of the worker
  MAX_REQUEST_RETRIES,
  MaxFaults              \* bound on failures and lost connections

ASSUME BoundsAssumption ==
  /\ NumNotices \in Nat /\ NumUsers \in Nat \ {0} /\ NumHookJobs \in Nat
  /\ Idle \subseteq 1..NumUsers
  /\ Prefetch \in Nat \ {0} /\ BatchSize \in Nat \ {0}
  /\ MAX_REQUEST_RETRIES \in Nat /\ MaxFaults \in Nat

(* What an item in a queue is about: notice n is <<n, 0>>, its part for    *)
(* user u is <<n, u>>, and the hooks' jobs are <<0, i>>.                   *)
Notices == {<<n, 0>> : n \in 1..NumNotices}
HookJobs == {<<0, i>> : i \in 1..NumHookJobs}
Jobs == ((1..NumNotices) \X Idle) \cup HookJobs
NewItem(about) == [about |-> about, tries |-> 0]

(* A callback of ensure_queue: publish an item, or consume the queue. *)
Consume == NewItem(<<0, 0>>)
ConsumeNotices == [queue |-> "notify_tornado", item |-> Consume]

VARIABLES
  (* RabbitMQ and the TornadoQueueClient.  conn is "opening" while the     *)
  (* channel is None, "stale" when the connection has ended and Tornado    *)
  (* has not noticed, "closed" until the timer for _reconnect.  lost and   *)
  (* ran are history: what is gone with a connection, and how many of the  *)
  (* on_open_cbs have run before.                                          *)
  rabbit,
  published,             \* the notices and hook jobs that have been published
  delivered,             \* pairs of notice and user in the order of first delivery
  batch,                 \* the items the worker has taken
  finished,              \* the jobs the worker has done
  given_up,              \* retried too often
  errors,                \* in the worker's file of errors
  failed,                \* failed and retried
  again,                 \* published or delivered again after a fault
  twice,                 \* delivered to a user, or done, more than once
  faults

vars == <<rabbit, published, delivered, batch, finished, given_up, errors,
          failed, again, twice, faults>>

Fault == faults < MaxFaults /\ faults' = faults + 1
MaybeFault(is_fault) == IF is_fault THEN Fault ELSE UNCHANGED faults

About(items) == {items[i].about : i \in DOMAIN items}

(* What a sequence of callbacks publishes. *)
Published(cbs) == {cbs[i].item.about : i \in DOMAIN cbs} \ {Consume.about}
Callbacks(waiting) == [i \in DOMAIN waiting |-> waiting[i].cb]

(* The numbers of a finite set in ascending order. *)
Ascending(S) ==
  CHOOSE s \in [1..Cardinality(S) -> S] : \A i, k \in DOMAIN s : i < k => s[i] < s[k]

-----------------------------------------------------------------------------
(* TornadoQueueClient, as operators on rabbit. *)

(* Callbacks run on the channel, one for each item; on a stale channel the *)
(* frames are lost.                                                        *)
Call(r, queue, items) ==
  IF items = <<Consume>> THEN [r EXCEPT !.consumers = @ + 1]
  ELSE IF r.conn = "open" THEN [r EXCEPT !.ready[queue] = @ \o items]
  ELSE [r EXCEPT !.lost = @ \cup About(items)]

Declared(cbs) == [i \in DOMAIN cbs |-> [cb |-> cbs[i], stage |-> "queue_declare"]]
Publishing(queue, items) == [i \in DOMAIN items |-> [queue |-> queue, item |-> items[i]]]

(* Fault: the queue is declared again although the callbacks have run. *)
ensure_queue_always(r, queue, items) ==
  LET cbs == Publishing(queue, items)
      called == IF queue \in r.queues THEN Call(r, queue, items) ELSE r
  IN  IF r.conn = "opening" THEN [r EXCEPT !.on_open_cbs = @ \o cbs]
      ELSE [called EXCEPT !.waiting = @ \o Declared(cbs)]

(* ensure_queue, called for each of the items with a callback that         *)
(* publishes it: no call changes what the next one finds in conn and       *)
(* queues.                                                                 *)
ensure_queue(r, queue, items) ==
  LET cbs == Publishing(queue, items)
  IN  IF queue \in r.queues THEN Call(r, queue, items)
      ELSE IF r.conn = "opening" THEN [r EXCEPT !.on_open_cbs = @ \o cbs]
      ELSE [r EXCEPT !.waiting = @ \o Declared(cbs)]

(* retry_event, in two parts: whether the event is published once more,    *)
(* and what is published.  Fault: the tries are compared before they are   *)
(* counted.                                                                *)
CanRetryOneMore(item) == item.tries <= MAX_REQUEST_RETRIES
CanRetry(item) == item.tries + 1 <= MAX_REQUEST_RETRIES
Retried(item) == [item EXCEPT !.tries = @ + 1]

FirstWaiting(stage) ==
  LET at == {i \in DOMAIN rabbit.waiting : rabbit.waiting[i].stage = stage}
  IN  CHOOSE i \in at : \A j \in at : i <= j

IsWaiting(stage) ==
  /\ rabbit.conn = "open"
  /\ \E i \in DOMAIN rabbit.waiting : rabbit.waiting[i].stage = stage

(* set_qos: RabbitMQ has declared the queue. *)
SetQos ==
  /\ IsWaiting("queue_declare")
  /\ LET i == FirstWaiting("queue_declare")
     IN  rabbit' = [rabbit EXCEPT !.queues = @ \cup {rabbit.waiting[i].cb.queue},
                                  !.waiting[i].stage = "basic_qos"]
  /\ UNCHANGED <<published, delivered, batch, finished, given_up, errors,
                 failed, again, twice, faults>>

(* finish: the callback that was waiting for the queue runs. *)
FinishQos ==
  /\ IsWaiting("basic_qos")
  /\ LET i == FirstWaiting("basic_qos")
         cb == rabbit.waiting[i].cb
     IN  rabbit' = Call([rabbit EXCEPT !.waiting = RemoveAt(@, i)], cb.queue, <<cb.item>>)
  /\ UNCHANGED <<published, delivered, batch, finished, given_up, errors,
                 failed, again, twice, faults>>

(* Fault: the consumers are not connected to the new channel. *)
OnChannelOpenWithoutConsumers ==
  /\ rabbit.conn = "opening"
  /\ rabbit' = [rabbit EXCEPT !.conn = "open", !.ran = Len(rabbit.on_open_cbs),
                              !.waiting = @ \o Declared(rabbit.on_open_cbs)]
  /\ again' = again \cup Published(SubSeq(rabbit.on_open_cbs, 1, rabbit.ran))
  /\ UNCHANGED <<published, delivered, batch, finished, given_up, errors, failed, twice, faults>>

(* _on_open and _on_channel_open: each callback calls ensure_queue, and    *)
(* nothing is in queues yet.  _on_open_cbs is not emptied, so what it      *)
(* publishes is published again when the next channel opens.               *)
OnChannelOpen ==
  /\ rabbit.conn = "opening"
  /\ rabbit' = [rabbit EXCEPT !.conn = "open", !.ran = Len(rabbit.on_open_cbs),
                              !.waiting = @ \o Declared(Append(rabbit.on_open_cbs, ConsumeNotices))]
  /\ again' = again \cup Published(SubSeq(rabbit.on_open_cbs, 1, rabbit.ran))
  /\ UNCHANGED <<published, delivered, batch, finished, given_up, errors, failed, twice, faults>>

(* The connection ends: RabbitMQ has the unacknowledged notices ready      *)
(* again; some of them have reached Tornado and wait to be processed.      *)
ConnectionEnds ==
  /\ rabbit.conn = "open"
  /\ \E received \in 0..Len(rabbit.inflight) :
       rabbit' = [rabbit EXCEPT !.conn = "stale", !.consumers = 0,
                                !.ready["notify_tornado"] = rabbit.inflight \o @,
                                !.inflight = SubSeq(@, 1, received)]
  /\ again' = again \cup About(rabbit.inflight)
  /\ Fault
  /\ UNCHANGED <<published, delivered, batch, finished, given_up, errors, failed, twice>>

(* Fault: _on_connection_closed does not ask for a reconnection. *)
OnConnectionClosedForGood ==
  /\ rabbit.conn = "stale"
  /\ UNCHANGED vars

(* _on_connection_closed: the channel object is kept until _reconnect. *)
OnConnectionClosed ==
  /\ rabbit.conn = "stale"
  /\ rabbit' = [rabbit EXCEPT !.conn = "closed", !.inflight = <<>>, !.waiting = <<>>,
                              !.lost = @ \cup Published(Callbacks(rabbit.waiting))]
  /\ UNCHANGED <<published, delivered, batch, finished, given_up, errors,
                 failed, again, twice, faults>>

(* _reconnect, two seconds later; it is repeated while it fails. *)
Reconnect ==
  /\ rabbit.conn = "closed"
  /\ rabbit' = [rabbit EXCEPT !.conn = "opening", !.queues = {}]
  /\ UNCHANGED <<published, delivered, batch, finished, given_up, errors,
                 failed, again, twice, faults>>

(* The Tornado process ends and is started again. *)
RestartTornado ==
  /\ rabbit' = [rabbit EXCEPT
       !.conn = "opening", !.queues = {}, !.consumers = 0, !.ran = 0,
       !.waiting = <<>>, !.on_open_cbs = <<>>, !.inflight = <<>>,
       !.ready["notify_tornado"] = IF rabbit.conn = "open" THEN rabbit.inflight \o @ ELSE @,
       !.lost = @ \cup Published(Callbacks(rabbit.waiting)) \cup Published(rabbit.on_open_cbs)]
  /\ again' = again \cup About(rabbit.inflight)
  /\ Fault
  /\ UNCHANGED <<published, delivered, batch, finished, given_up, errors, failed, twice>>

-----------------------------------------------------------------------------
(* Publishing, and processing in Tornado. *)

(* json_publish of a SimpleQueueClient.  It publishes again on another     *)
(* connection if the first one fails, which may repeat the notice; one     *)
(* that is written to a dead connection, or fails twice, is lost.          *)
DjangoPublish(n, copies) ==
  /\ <<n, 0>> \notin published /\ \A m \in 1..(n - 1) : <<m, 0>> \in published
  /\ published' = published \cup {<<n, 0>>}
  /\ rabbit' = [rabbit EXCEPT
       !.ready["notify_tornado"] = @ \o [i \in 1..copies |-> NewItem(<<n, 0>>)],
       !.lost = IF copies = 0 THEN @ \cup {<<n, 0>>} ELSE @]
  /\ again' = IF copies = 2 THEN again \cup {<<n, 0>>} ELSE again
  /\ MaybeFault(copies # 1)
  /\ UNCHANGED <<delivered, batch, finished, given_up, errors, failed, twice>>

(* Tornado publishes a job outside the processing of notices.  On a closed *)
(* channel basic_publish raises an exception that json_publish does not    *)
(* catch, and nothing changes.                                             *)
HookPublish(j) ==
  /\ j \in HookJobs \ published
  /\ rabbit.conn # "closed"
  /\ published' = published \cup {j}
  /\ rabbit' = ensure_queue(rabbit, "jobs", <<NewItem(j)>>)
  /\ UNCHANGED <<delivered, batch, finished, given_up, errors, failed, again, twice, faults>>

Deliver ==
  /\ rabbit.conn = "open" /\ rabbit.consumers > 0
  /\ rabbit.ready["notify_tornado"] # <<>>
  /\ Len(rabbit.inflight) < Prefetch
  /\ rabbit' = [rabbit EXCEPT !.inflight = Append(@, Head(rabbit.ready["notify_tornado"])),
                              !.ready["notify_tornado"] = Tail(@)]
  /\ UNCHANGED <<published, delivered, batch, finished, given_up, errors,
                 failed, again, twice, faults>>

(* process_notification for the first users of the notice: an event, and a *)
(* job for the worker if the user is idle, for each.                       *)
ProcessUsers(notice, done) ==
  LET Pair(u) == <<notice.about[1], u>>
      new == Ascending({u \in 1..done : Pair(u) \notin ToSet(delivered)})
  IN  /\ delivered' = delivered \o [i \in DOMAIN new |-> Pair(new[i])]
      /\ twice' = twice \cup ({Pair(u) : u \in 1..done} \cap ToSet(delivered))

AfterUsers(notice, done) ==
  LET idle == Ascending((1..done) \cap Idle)
  IN  ensure_queue([rabbit EXCEPT !.inflight = Tail(@)], "jobs",
                   [i \in DOMAIN idle |-> NewItem(<<notice.about[1], idle[i]>>)])

(* Fault: wrapped_process_notification only logs the exception. *)
ProcessNotificationOnce(done) ==
  /\ rabbit.conn \in {"open", "stale"} /\ rabbit.inflight # <<>>
  /\ LET notice == Head(rabbit.inflight)
     IN  /\ ProcessUsers(notice, done)
         /\ rabbit' = AfterUsers(notice, done)
  /\ MaybeFault(done < NumUsers)
  /\ UNCHANGED <<published, batch, finished, errors, given_up, failed, again>>

(* Fault: the notice that was received last is processed first. *)
ProcessNewestNotification(done) ==
  /\ rabbit.conn \in {"open", "stale"} /\ rabbit.inflight # <<>>
  /\ done = NumUsers
  /\ ProcessUsers(Last(rabbit.inflight), done)
  /\ rabbit' = [AfterUsers(Last(rabbit.inflight), done) EXCEPT !.inflight = Front(rabbit.inflight)]
  /\ UNCHANGED <<published, batch, finished, errors, given_up, failed, again, faults>>

(* wrapped_process_notification and the acknowledgement.  If the           *)
(* processing fails when some users are done, all of it is retried.        *)
ProcessNotification(done) ==
  /\ rabbit.conn \in {"open", "stale"} /\ rabbit.inflight # <<>>
  /\ LET notice == Head(rabbit.inflight)
         fails == done < NumUsers
     IN  /\ ProcessUsers(notice, done)
         /\ rabbit' = IF fails /\ CanRetry(notice)
                      THEN ensure_queue(AfterUsers(notice, done), "notify_tornado", <<Retried(notice)>>)
                      ELSE AfterUsers(notice, done)
         /\ given_up' = IF fails /\ ~ CanRetry(notice) THEN given_up \cup {notice.about}
                        ELSE given_up
         /\ failed' = IF fails THEN failed \cup {notice.about} ELSE failed
         /\ MaybeFault(fails)
  /\ UNCHANGED <<published, batch, finished, errors, again>>

-----------------------------------------------------------------------------
(* The worker. *)

WorkerTakes ==
  /\ rabbit.ready["jobs"] # <<>>
  /\ Len(batch) < BatchSize
  /\ batch' = Append(batch, Head(rabbit.ready["jobs"]))
  /\ rabbit' = [rabbit EXCEPT !.ready["jobs"] = Tail(@)]
  /\ UNCHANGED <<published, delivered, finished, errors, given_up, failed, again, twice, faults>>

(* consume_batch gets through the first items of the batch; those at the   *)
(* positions in failing are retried, the others are done.                  *)
ConsumeSome(done, failing) ==
  LET sent == (1..done) \ failing
  IN  /\ finished' = finished \cup {batch[i].about : i \in sent}
      /\ twice' = twice \cup {batch[i].about : i \in
                    {i \in sent : \/ batch[i].about \in finished
                                  \/ \E j \in sent : j < i /\ batch[j].about = batch[i].about}}
      /\ given_up' = given_up \cup {batch[i].about : i \in {i \in failing : ~ CanRetry(batch[i])}}
      /\ failed' = failed \cup {batch[i].about : i \in failing}

RetriedOf(failing) ==
  LET at == Ascending({i \in failing : CanRetry(batch[i])})
  IN  [k \in DOMAIN at |-> Retried(batch[at[k]])]

(* start_json_consumer calls do_consume when the batch is full or the time *)
(* is up, and acknowledges the batch.                                      *)
ConsumeBatch(failing) ==
  /\ batch # <<>>
  /\ ConsumeSome(Len(batch), failing)
  /\ rabbit' = [rabbit EXCEPT !.ready["jobs"] = @ \o RetriedOf(failing)]
  /\ batch' = <<>>
  /\ MaybeFault(failing # {})
  /\ UNCHANGED <<published, delivered, errors, again>>

(* _handle_consume_exception: the whole batch goes to the file of errors,  *)
(* and is acknowledged.                                                    *)
ConsumeError(done, failing) ==
  /\ done < Len(batch)
  /\ ConsumeSome(done, failing)
  /\ rabbit' = [rabbit EXCEPT !.ready["jobs"] = @ \o RetriedOf(failing)]
  /\ errors' = errors \cup About(batch)
  /\ batch' = <<>>
  /\ Fault
  /\ UNCHANGED <<published, delivered, again>>

(* A signal or a crash: the batch is not acknowledged, or is with          *)
(* basic_nack, and RabbitMQ has it ready again.                            *)
WorkerExits(done, failing) ==
  /\ batch # <<>>
  /\ ConsumeSome(done, failing)
  /\ rabbit' = [rabbit EXCEPT !.ready["jobs"] = batch \o @ \o RetriedOf(failing)]
  /\ again' = again \cup About(batch)
  /\ batch' = <<>>
  /\ Fault
  /\ UNCHANGED <<published, delivered, errors>>

-----------------------------------------------------------------------------

Init ==
  /\ rabbit = [ready |-> [queue \in {"notify_tornado", "jobs"} |-> <<>>],
               conn |-> "opening", queues |-> {}, waiting |-> <<>>, on_open_cbs |-> <<>>,
               consumers |-> 0, inflight |-> <<>>, lost |-> {}, ran |-> 0]
  /\ published = {} /\ delivered = <<>> /\ batch = <<>>
  /\ finished = {} /\ given_up = {} /\ errors = {}
  /\ failed = {} /\ again = {} /\ twice = {}
  /\ faults = 0

TornadoLoop ==
  \/ SetQos \/ FinishQos \/ OnChannelOpen \/ OnConnectionClosed \/ Reconnect \/ Deliver
  \/ \E done \in 0..NumUsers : ProcessNotification(done)

Worker ==
  \/ WorkerTakes
  \/ \E failing \in SUBSET DOMAIN batch : ConsumeBatch(failing)
  \/ \E done \in 0..Len(batch) : \E failing \in SUBSET (1..done) :
       ConsumeError(done, failing) \/ WorkerExits(done, failing)

Next ==
  \/ TornadoLoop \/ Worker \/ ConnectionEnds \/ RestartTornado
  \/ \E n \in 1..NumNotices, copies \in 0..2 : DjangoPublish(n, copies)
  \/ \E j \in HookJobs : HookPublish(j)

Spec == Init /\ [][Next]_vars

(* Tornado's loop and the worker keep going. *)
FairSpec == Spec /\ WF_vars(TornadoLoop) /\ WF_vars(Worker)

-----------------------------------------------------------------------------
(* Properties. *)

Items == [about : Notices \cup Jobs, tries : 0..MAX_REQUEST_RETRIES]

(* The shape of the state.  No item is in a queue with more tries than     *)
(* retry_event allows; while the connection is not open nothing is waiting *)
(* for an answer but on a stale one.                                       *)
TypeOK ==
  /\ rabbit.conn \in {"opening", "open", "stale", "closed"}
  /\ \A queue \in {"notify_tornado", "jobs"} : ToSet(rabbit.ready[queue]) \subseteq Items
  /\ ToSet(batch) \subseteq Items /\ ToSet(rabbit.inflight) \subseteq Items
  /\ rabbit.conn \in {"opening", "closed"} =>
       rabbit.inflight = <<>> /\ rabbit.waiting = <<>> /\ rabbit.consumers = 0
  /\ rabbit.ran <= Len(rabbit.on_open_cbs)
  /\ faults \in 0..MaxFaults

OnTheWay ==
  About(rabbit.ready["notify_tornado"]) \cup About(rabbit.ready["jobs"])
    \cup About(rabbit.inflight) \cup About(batch)
    \cup Published(Callbacks(rabbit.waiting)) \cup Published(rabbit.on_open_cbs)

DeadEnds == given_up \cup rabbit.lost

(* Whatever fails, a notice that Django has published has been delivered   *)
(* to its users, is still on the way, was retried too often, or was lost   *)
(* in one of the ways of losing a publication; and so has each job         *)
(* published for the worker been done, or is in its file of errors.        *)
NothingForgotten ==
  /\ \A n \in published \cap Notices :
       \/ n \in OnTheWay \cup DeadEnds
       \/ \A u \in 1..NumUsers : <<n[1], u>> \in ToSet(delivered)
  /\ \A j \in (ToSet(delivered) \cup published) \cap Jobs :
       j \in OnTheWay \cup DeadEnds \cup finished \cup errors

(* Nothing reaches a user or is done by the worker twice, but for what has *)
(* failed and been retried as a whole (retry_event), and what a lost       *)
(* connection, a crash or _on_open_cbs has repeated.                       *)
OnceUnlessRepeated ==
  \A j \in twice :
    j \in failed \cup again \/ <<j[1], 0>> \in failed \cup again

(* Each user gets the events in the order in which Django has published    *)
(* them, through redelivery and reconnection, but for those of notices     *)
(* that failed: retry_event puts a notice at the end of the queue.         *)
DeliveredInOrder ==
  \A i, k \in DOMAIN delivered :
    i < k /\ delivered[i][2] = delivered[k][2] /\ delivered[k][1] < delivered[i][1]
      => <<delivered[k][1], 0>> \in failed

(* Once the answers to its requests are there, the channel has one         *)
(* consumer: _on_channel_open connects it, and nobody a second time.       *)
OneConsumer ==
  rabbit.conn = "open" =>
    rabbit.consumers
      + Cardinality({i \in DOMAIN rabbit.waiting : rabbit.waiting[i].cb = ConsumeNotices}) = 1

Settled(key) ==
  \/ key \in DeadEnds \cup finished \cup errors
  \/ key \in Notices /\ \A u \in 1..NumUsers : <<key[1], u>> \in ToSet(delivered)

(* Every notice and every job is dealt with in the end: whatever has been  *)
(* published, there comes a time at which all of it has.                   *)
EventuallySettled ==
  []<>(\A key \in published \cup (ToSet(delivered) \cap Jobs) : Settled(key))
=============================================================================
