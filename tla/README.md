# TLA+ models of Zulip's concurrent machinery

Zulip is a chat server. Django handles requests and keeps its data in PostgreSQL;
a Tornado process keeps one *event queue* per connected client in memory and
delivers events over HTTP long polling; RabbitMQ carries events from Django to
Tornado and jobs to a set of worker processes; the web app applies the events it
gets to its own copy of the state. This project models the parts of the server in
which concurrency, restarts, lost messages and timeouts decide whether the program
is right: the event queues, the long-poll handlers, the web app's event loop, the
RabbitMQ clients, the notifications for messages nobody has received and the worker
that sends them by e-mail; and, on the side of the database, the rows of users who
were away for long, the deletion of messages and files, and billing. Paths below are
relative to the root of the repository.

Contents: [inventory](#inventory), [modules](#modules), [runs](#runs),
[bounds](#bounds), [fairness](#fairness), [proofs](#proofs),
[disagreements](#disagreements-between-the-code-and-its-documentation),
[what is not modelled](#what-is-not-modelled), [plan](#plan).

## Inventory

### Event queue (`zerver/tornado/event_queue.py`, class `EventQueue`)

*State:* a deque of events with increasing ids, `next_event_id`,
`newest_pruned_id`, and `virtual_events`: at most one pending event for each kind of
flag change, to which further changes are appended. *Operations:* `push`, `pop`,
`prune`, `empty`, `contents` (which turns virtual events into real ones), `to_dict`
and `from_dict` (for the file that survives a restart). *Hard:* an event is given
out many times until it is acknowledged; the id of a virtual event moves.
*Correct if* each event is delivered once, in order, and an acknowledgement prunes
exactly what the client has.

### Queue registry and long-poll handlers (`event_queue.py`, `handlers.py`, `descriptors.py`, `views.py`)

*State:* `clients` (queue id to descriptor), `user_clients`,
`realm_clients_all_streams`, `web_reload_clients`; in each descriptor
`current_handler_id` and a heartbeat timer; `handlers` and
`descriptors_by_handler_id` in the other direction. *Operations:* registration,
GET requests (`fetch_events`), the end of a connection (`on_connection_close`),
events, heartbeats, reload events, `gc_event_queues`, DELETE requests, dump and load.
*Interaction:* requests run Django code in threads and come back to Tornado's loop
to change these maps; the gc hooks call into notifications. *Hard:* a request, a
closing connection, a newer request, a heartbeat and the garbage collection meet on
one queue; a hook that raises leaves `do_gc_event_queues` in the middle. *Correct if*
the maps agree, nobody waits for what is already there or on a queue that is gone,
and every wait ends.

### Tornado process (`zerver/management/commands/runtornado.py`, `zerver/tornado/application.py`)

*State:* the exit stack (dump of queues, HTTP server, RabbitMQ consumer) and the file
of queues. *Operations:* start, shutdown, crash. *Hard:* what arrives between the
dump and the end. *Correct if* a restart neither loses nor repeats an event.

### Event loop of the web app (`web/src/server_events.js`, `server_events_dispatch.js`, `reload.js`)

*State:* `get_events_xhr`, `get_events_timeout`, `last_event_id`, the failure count,
`events_stored_while_loading`, `waiting_on_initial_fetch`. *Operations:* `get_events`,
its success and error callbacks, `restart_get_events` (watchdog, unsuspend, a sent
message that has not come back), `finished_initial_fetch`, reload. *Hard:* requests
that are aborted but reach the server later than their successors; responses lost on
the way; events that arrive before the initial fetch is done; the order in which a
batch is applied. *Correct if* each event is applied once, with no gap.

### Message flags (`zerver/actions/message_flags.py`)

*State:* the flags of `UserMessage` rows. *Operation:* `do_update_message_flags`:
a transaction, and after its commit an event. *Hard:* two requests commit in one order
and send in the other; compression in the event queue. *Correct if* a tab that has
fetched everything shows what the database has.

### Missed-message notifications (`event_queue.py`, `zerver/lib/notification_data.py`)

*State:* who has queues, what they still hold, and with each message event what has
already been notified (`push_notified`, `email_notified`). *Operations:*
`process_message_event`, the message-edit path, `missedmessage_hook` when a queue is
removed. *Hard:* ten minutes lie between the end of a client and the end of its queue;
several queues of a user go at once. *Correct if* what was missed is notified, once.

### Missed-message e-mail worker (`zerver/worker/missedmessage_emails.py`, `zerver/worker/base.py`, `process_queue.py`)

*State:* rows of `ScheduledMessageNotificationEmail`, the condition variable `cv` with
`stopping` and `has_timeout`, the unacknowledged notice, the worker thread's position.
*Operations:* `consume` in the main thread; `background_loop`,
`maybe_send_batched_emails` and the backoff after an exception in the worker thread;
`stop` in a signal handler. *Hard:* two threads over rows and a lock, an alarm that
raises anywhere in `consume`, signals, crashes between sending and deleting. *Correct
if* every notice is eventually sent or its message deleted, no wakeup is lost, and
the process can be stopped.

### RabbitMQ clients and worker framework (`zerver/lib/queue.py`, `zerver/worker/base.py`)

*State:* of a `TornadoQueueClient` its connection and channel, the set of declared
`queues`, `consumers`, `_on_open_cbs`; in RabbitMQ the queues and what is not
acknowledged; of a `LoopQueueProcessingWorker` its batch; in each event `failed_tries`.
*Operations:* `publish` and `ensure_queue` with its callbacks, the connection callbacks,
`_reconnect`, `start_json_consumer` of both clients, `retry_event`,
`get_wrapped_process_notification`, `do_consume` and `_handle_consume_exception`.
*Hard:* nothing is confirmed; a connection ends without notice; a whole notice or batch
is repeated when a part of it fails. *Correct if* nothing vanishes, only what was
repeated arrives twice, order is kept, and retries end.

### Soft deactivation (`zerver/lib/soft_deactivation.py`, with `message_send.py`, `streams.py`, `message_edit.py`)

*State:* `UserMessage` rows, `long_term_idle`, `last_active_message_id`, `Subscription`
rows and the `RealmAuditLog`. *Operations:* sending (recipients, id, commit),
subscribing and unsubscribing, archiving channels, moving and deleting messages,
`do_soft_deactivate_user`, `add_missing_messages` in batches, reactivation. *Hard:* the
rows are reconstructed from a log that is written by other processes, and the
reconstruction is no transaction. *Correct if* nobody can tell that the user was away.

### Message retention and uploads (`zerver/lib/retention.py`, `zerver/actions/uploads.py`, `zerver/lib/attachments.py`)

*State:* messages, archive tables, `ArchiveTransaction`s, attachments, archived
attachments, their links, the storage. *Operations:* archiving in chunks, restoring,
vacuuming, claiming and removing attachments, the sweep of unclaimed ones. *Hard:* five
kinds of processes over the same tables; what one looked up another changes; processes
that die halfway. *Correct if* a deletion can be undone until it is vacuumed, files stay
while anything refers to them, and go afterwards.

### Billing (`corporate/lib/stripe.py`, `corporate/models.py`)

*State:* `CustomerPlan` (status, schedule, anchor, `next_invoice_date`,
`invoiced_through`, `invoicing_status`), `LicenseLedger`, the invoice items at Stripe.
*Operations:* upgrade, free trial, schedule and tier changes, cancellation,
`make_end_of_cycle_updates_if_needed`, the ledger updates of user transactions, the
daily `invoice_plans_as_needed`. *Hard:* no row is locked; the job works on copies and
talks to Stripe between its writes. *Correct if* every license of every period is
charged exactly once.

### Other parts

Event registration (`zerver/lib/events.py`), routing to Tornado shards, rate limiter,
push notifications, presence, scheduled messages, analytics counts, cache, groups, users
and settings, confirmation links, outgoing webhooks and e-mail, the push bouncer, the
rest of the web app, integrations and deployment. `PROJECT.json` lists each with its
status; see [what is not modelled](#what-is-not-modelled) and the [plan](#plan).

`PROJECT.json` also lists the hazards: the places in the code where something can go
wrong that tests hardly reach, each with the properties that would show it.

## Modules

| module | models |
|---|---|
| `EventQueue` | the class `EventQueue`, as operators on a record |
| `EventStream` | what the events system promises a tab: the abstract specification |
| `EventDelivery`, `EventDeliveryProofs` | one tab, its queue, the network, the Tornado process and its file; implements `EventStream` |
| `FlagEvents` | one flag: database, events, compression, tab |
| `Tornado`, `MCTornado`, `TornadoProofs` | the registry of queues and handlers |
| `MissedMessages`, `MCMissedMessages`, `MissedMessagesProofs` | when a user is notified of messages |
| `MissedMessageWorker`, `MCMissedMessageWorker`, `MissedMessageWorkerProofs` | the e-mail worker |
| `RabbitQueues`, `RabbitQueuesProofs` | notices and jobs on their way through RabbitMQ, Tornado and a worker |
| `SoftDeactivation`, `SoftDeactivationProofs` | the `UserMessage` rows of one user, and of a twin who is never soft-deactivated |
| `Retention`, `RetentionProofs` | messages, their archive and uploaded files |
| `Billing`, `MCBilling`, `BillingInvariants`, `BillingProofs` | plans, ledger and invoices of one organization |

`EventDelivery` and `FlagEvents` extend `EventQueue`. `EventDelivery` instantiates
`EventStream`, which has the variables `generated`, `message_ids`, `applied` and
`broken`; the refinement mapping is the identity on the first three and `stale` for the
last, but that a tab that has lost its place counts as having applied nothing. `Tornado` reduces a queue to whether it holds events,
`MissedMessages` to the set of message events it holds: the three views of a queue are
separate so that each stays small enough to be explored with the interleavings that
matter to it.

The MC modules define the constants of the small instances. Definitions introduced by
a comment "Fault:" are plausible bugs in the operation that follows them; no
specification uses them. For each property, `PROJECT.json` names one such fault with
which the property fails.

**EventQueue.** `push`, `prune`, `contents` and `empty` are the methods; as
`contents` both returns the merged list and changes the object, it is two operators
(`contents`, `AfterContents`). The code merges the virtual events, sorted by id, into a
deque whose ids ascend: the model lists all events by their ids (`InOrder`). `Compressed` is
the treatment of the virtual events in `push`. The name `flags/add/read` of
`compute_full_event_type` is the tuple of its parts. Of an event the model keeps its
type, flag, operation and list of messages.

**EventDelivery.** The server numbers the events it generates; `applied` is the list of
numbers the tab has applied. `Dispatch` orders the numbers of a batch as
`get_events_success` applies them: first the events of the default case, then the messages
sorted by their ids (`message_ids`: messages reach Tornado in another order than they got
their ids), then `update_message` events and last flag changes, each as they come.
`delete_message` and `submessage`, which are applied with the flag changes but are not
compressed, are left out; `Items` are the places of the numbers in the batch. `AddEvent` is `add_event` with `finish_current_handler`;
`FetchEvents` is `fetch_events` with its three outcomes (unknown queue; an
acknowledgement the queue cannot place; accepted, when the request is answered or
parked and the handler that was waiting gets the contents); `Stop`, `Exit`, `Crash` and
`Start` are the life of the process: `Stop` is the first step of the exit stack,
`dump_event_queues`. The file holds the value of the queue: `to_dict` and `from_dict`
carry every attribute of `EventQueue`. Between that step and its end the process is "stopping":
RabbitMQ and the connections are closed after the dump, so events, heartbeats and requests
are still served, and what they do to the queue is not in the file. `Exit` marks the tab
`stale` if its queue has by then given out an id or made virtual events real that the file
knows nothing of (`BeyondFile`); acknowledgements alone, which the file lacks too, do not
count, and the properties have to hold through them. A stale tab is excused until it is
loaded again. The tab's `get_events` aborts the
request that is out; the server may still process it (`reqs`) and learns of the
closed connection later (`closing`). `Reload` is the reload after BAD_EVENT_QUEUE_ID:
the registration returns the state of the server, so it counts as applying what the tab
had not applied.

**FlagEvents.** `Commit` is the transaction of `do_update_message_flags`, `SendEvent`
the rest. `crossed` records the messages for which opposite changes were pending at the
same time.

**Tornado.** One variable for each dictionary, and for each request the stage it has
reached: queued for Django's thread, parked, answered, done. `do_gc_event_queues` is
one definition with the point its loop has reached as parameter, so that a hook that
raises is the same code with a smaller `removed`. `interrupted` is a history variable:
the queues whose removal was cut short. DELETE requests are two steps, since the queue
is looked up in Django's thread and removed in Tornado's.

**MissedMessages.** For one user. Why a message is notifiable (`notification_data.py`)
is reduced to the set of media an idle user would be notified through. A queue listens
to all messages (a tab), to a narrow, or to none. An edit may add a mention or remove
one; a mention that is removed and added again notifies again, so `NotifiedAtMostOnce`
counts how often a message became notifiable. `gc_event_queues` may remove any of the
user's queues at once; `together` records the messages that several of the last queues
removed by one collection held, which are notified once for each. It, `seen`, `lost` and
`overlooked` are history variables.

**MissedMessageWorker.** The main thread's steps are the points at which the worker
thread can run in between: the query for pending rows (before the lock), the lock, the
insertion, the notification, the acknowledgement. What the worker thread does under the
lock is one step. A `scheduled_timestamp` is a token that becomes due at any time.
Deletion of rows is a query of its own, as `QuerySet.delete()` executes it again.

**RabbitQueues.** The `TornadoQueueClient` and what RabbitMQ holds for it are the record
`rabbit`; its methods are operators on it. `ensure_queue` takes all the items a step
publishes to a queue: between its calls nothing changes what decides where they go (the
channel and `queues`), so each of them joins the same place, in this order. `conn` distinguishes a connection that has ended from one that Tornado knows to
have ended. A notice is processed for its users one after the other, and processing may
fail after any of them; an idle user needs a job for the worker, whose batch may likewise
fail, die or be stopped anywhere. `again`, `failed`, `twice`, `lost` and `ran` are history.

**SoftDeactivation.** A send is three steps, since recipients are read before the
transaction and other transactions cannot see an id before the commit.
`add_missing_messages` reads the log, reads the messages and inserts batches, in steps of
their own. `twin` has the rows that a user with the same history gets who is never
soft-deactivated: every action treats both, the reconstruction only the user. Archiving
and unarchiving change who sees the history of a channel (`privacy`); the notice that the
code sends within the transaction that unarchives is an ordinary send here. `raced`,
`moved` and `touched` record the messages for which the code cannot or does not keep its
promise.

**Retention.** A `version` stands for the content of a message and all rows with a
message key. A link has the number of its row, as the archive has unique pairs of message
and attachment besides unique ids. The archiver is either the policy command or a user's
deletion (`type`), and finds attachments in one step and deletes them in another; the
sweep does the same for each attachment and removes files last. `raced` records files that
were claimed after a process had found them unclaimed.

**Billing.** Time advances in parts of a month when no transaction or job is under way.
`Reading` is what a transaction reads, `make_end_of_cycle_updates_if_needed` what it
writes. `invoice_plan` is split at every call to Stripe and every save (`StartEntry`,
`CreateItem`, `FinishEntry`, `CreateInvoice`, `FinishInvoicing`), and the job may die
between any two. The job invoices a plan as of its next invoice date, a tier change both
plans as of the time of the request. A request of the billing page renews the plan in a
transaction of its own (`do_update_plan`), and what was asked for is written later, with
the copy of the plan it holds (`FinishUpdate`): the job, transactions and another request
can come in between, and the request can fail or die there. `crossed` becomes true when an
actor writes what others have changed since it read; the properties say nothing from there
on, and the run does not explore it. For a request that is `Overtaken`: the current plan is
another one, or its status, schedule, end of the cycle or last renewal have changed, or,
for a change of the schedule, which copies more of it, anything of its row.
The billing page offers the changes of `Offered`; `Accepted` are the assertions of
`do_update_plan`.

## Runs

| run | expected | shows |
|---|---|---|
| `delivery` | pass | `EachEventInOnePlace`, `NeverRejected`, `ImplementsEventStream`: through aborted and overtaken requests, lost responses, expiry, restarts and crashes, each event is applied once, without gaps and in the order of its class; a request the tab waits for is never rejected |
| `delivery_live` | pass | `EventuallyApplied`: every event is eventually applied, if necessary through a reload |
| `flags` | pass | `ConvergesUnlessCrossed`: compression loses no change, but for messages with opposite changes pending at the same time |
| `tornado` | pass | `ListsMatchClients`, `HandlersMatchDescriptors`, `WaitersAreServed`, `NoneStrandedUnlessZeroLeft`, `LongPollsEnd` |
| `missed` | pass | `NotifiedAtMostOnce`, `MissedIsNotified`: queues of every kind, any of which may be removed by one collection |
| `emails` | pass | `OneBatchPerUser`, `SentOnceWithoutFaults`, with three notices and any two faults |
| `emails_faults` | pass | `NoLostWakeup`, `ProcessedUnlessLate`, `EventuallySettled`, `StopEndsUnlessLocked`: any three faults, exceptions that escape `consume` and its alarm included |
| `rabbit` | pass | `NothingForgotten`, `OnceUnlessRepeated`, `DeliveredInOrder`, `OneConsumer`, `EventuallySettled`: through lost connections, restarts, failures halfway, retries and dying workers |
| `soft` | pass | `SameRowsAsTwin`, `RowsOfKnownChannels`: reactivation leaves no trace, but for the races listed below |
| `retention` | pass | `FilesStay`, `DeletionCanBeUndone`, `ComesBackOnlyByUndo`, `EventuallyCleaned` |
| `retention_undo` | violation | a message deleted, restored, edited and deleted again is restored without the edit |
| `billing` | pass | `OneLivePlan`, `NeverBilledTwice`, `EveryLicensePaid`, `NoPeriodPaidTwice`, `NoUnpaidPeriod`, `CancellationHonoured`, `LicensesForAllUsers` |

`Tornado`, `MissedMessages`, `RabbitQueues` and `Retention` check a type
invariant; the runs of the other modules check only properties that relate parts of the
state to each other. Deadlock is checked for `Tornado`
(it can always be restarted). In the other modules the system may come to rest: no more
events to generate, no notices left, no request out.

## Bounds

| module | bounds | why they are enough |
|---|---|---|
| `EventDelivery` | `MaxEvents` 2 (1 for liveness), `MaxConns` 3, `MaxFaults` 2, `MaxBeatId` 2 | two events of any classes suffice for a swap, a gap, a merge into one virtual event, or a virtual event among real ones; three connections are one that waits at the server, one aborted and one current; two faults are enough to abort a request and then lose a response, or to restart twice |
| `FlagEvents` | two messages, four updates, two requests at a time | the swap of two virtual events needs three updates of two messages |
| `Tornado` | two queues of one user, one of which follows public streams, three requests per process | a request that waits, one that supplants it and a third that ends either; the theorems hold for any number |
| `MissedMessages` | five queues (three tabs, which are interchangeable, a narrow, one that gets no messages), one message, which becomes notifiable at most three times | no action lets one message depend on another, so one message stands for all; it may be sent before or after each arrival and departure of a queue |
| `MissedMessageWorker` | three notices for two users and two faults; or two notices of one user and three faults | a notice read, inserted and sent while another one of the same user is pending, and one of another user in the same batch |
| `RabbitQueues` | two notices for two users, one of them idle, one job of a hook, batches and prefetch of two, one retry, two faults | a fault in the first notice while the second is queued, in flight or being retried; a fault during the recovery from another; jobs of a notice and of a hook in one batch |
| `SoftDeactivation` | two channels, one with protected history, three messages, one send under way besides those that have their ids, batches of one row, three changes | unsubscribing, subscribing again and deactivation with a message in each interval; a message between any two reads of a catch-up; a catch-up interrupted between batches |
| `Retention` | two messages, one file, two transactions with chunks of one message, one edit (two for `retention_undo`), one death | a file linked from two messages of which one is archived; a message deleted twice; an edit before or after a restoration |
| `Billing` | a month of two units, a year of two months, two users, three plans, four entries, three changes, one death, two transactions or requests at a time (interchangeable), trials of zero or one unit | annual and monthly cycles meet and differ; a plan is replaced twice; a change before, at and after each renewal; two requests overlap with each other or with the job; the job dies at every call and runs again after the keys are forgotten |

Heartbeats are bounded by the ids the queue has given out, faults by a counter that
stands for aborts, network failures, expiries, signals, exceptions and crashes together.
A request id or timestamp token is used again once nothing refers to it.

## Fairness

- `EventDelivery`: weak fairness of what Tornado's loop and the browser's loop run when
  it is ready (processing a request, noticing a closed connection, timers, callbacks), of
  the end of a shutdown and of the start by supervisord, of the initial fetch (retried
  until it succeeds) and of the reload (`do_reload_app` retries every 30 seconds).
  `HopelessRequestFails` is fair because the request has a `timeout` in the browser.
  None of the faults is fair, and neither are events, heartbeats and expiry.
- `Tornado`: weak fairness of the heartbeat timer and of the callback that writes a
  response. Clients need not do anything.
- `RabbitQueues`: weak fairness of Tornado's loop as a whole and of the worker as a whole;
  `_reconnect` repeats until it succeeds, and supervisord starts processes again. Faults
  are bounded, but not excluded by fairness.
- `Retention`: weak fairness of what cron runs daily (vacuuming of `archive_messages`, and
  `delete_old_unclaimed_attachments`), and of the archiver's going on to the attachments.
  Its death is always possible.
- `MissedMessageWorker`: weak fairness of each thread as a whole, and of the passing of
  time. A thread that is blocked on the lock is not enabled, so nothing is assumed about
  who gets it. `Start` belongs to the main thread: supervisord starts the process again.

## Proofs

TLAPS proves these theorems for every value of the constants that satisfies the named
assumptions of the modules (`QueuesAssumption`, `HandlersAssumption`,
`EventsAssumption`, `FaultsAssumption`, `ConstantsAssumption`, `BillingAssumption`,
`BoundsAssumption`, `YearAssumption`); they give the constants their types, and
`YearAssumption` says that a year is longer than a month. TLC evaluates them in the runs.

`EventDeliveryProofs`, with no assumption on what the process serves after the dump:

- `InvIsInvariant`: the inductive invariant `Inv`, with `IdsInv` and `DiskInv`. Neither property is inductive: both need what the server and the tab know of each other. `QueueOK` says of
  a queue that its ids ascend and that a virtual event is newer than the real events of its
  class, `Known` how a queue and a tab that has acknowledged `last` fit together: `last` has
  been pruned or is in the deque, no virtual event is older, and the response on its way, if
  any, is the oldest part of what the tab has not had. `RequestsInv` says that the request
  the tab waits for acknowledges `last` and older ones no more, and that a request that
  has been answered is not waiting at the server; `ServerInv` that a queue with a handler is
  empty. `Frontier` divides the stream: what is applied, then what is stored, in the response, and
  in the queue (`Covers`, `SetCovers`), each number once and each class in order. `DiskInv`
  says of a process that stops that its queue, until it goes beyond its file, is that of the
  file but for what has been pruned since (`FileOf`); `KnownFile` shows that such a file holds
  for the tab what the queue held.
- `EventsInOnePlace`: `EachEventInOnePlace`, from `Frontier` (`InvOnePlace`).
- `AcknowledgementsMakeSense`: `NeverRejected`, from `Known` and `RequestsInv`.
- `DeliveryImplementsStream`: `ImplementsEventStream`. Each step keeps `Inv` and is a step
  of `EventStream` or leaves its variables as they are (`NextStep`); a process that ends
  beyond its file is the step `Break`. The lemma
  `DispatchFacts` shows that `Dispatch` arranges the numbers of a list that covers
  an interval as `EventStream` allows, `AppliedStep` that the tab then has a longer prefix.

The lemmas about `EventQueue` stand on their own: `ContentsFacts` and `AfterContentsFacts`
(`contents` returns every event once, by id), `PushPlainFacts`, `PushPostFacts`, `PruneFacts`;
`KnownPlain`, `PushClass`, `KnownContents`, `KnownAnswer`, `KnownPrune` and `KnownDeliver`
say what each operation does to `Known`.

`TornadoProofs`:

- `TypeCorrect`: a lemma the others rest on; `TypeOK` includes that a queue in `clients` is not
  fresh and that `interrupted` queues are in `clients`. It rests on `FinishType`, what
  `finish_current_handler` does to the types.
- `RegistryCorrect`: `ListsMatchClients` (both lists of clients and the callbacks that
  reloads await), inductive given `TypeOK`. The lemma `GcRegistry` treats `do_gc_event_queues` once, wherever it
  ends; the five actions that remove queues cite it. `TypeOK` is needed for
  `Register`: a new id is not among the interrupted ones.
- `WaitCorrect`: `HandlersMatchDescriptors` and `WaitersAreServed`. The inductive
  invariant `WaitInv` adds `HandlerIdsInOrder`: a handler id not given out, or whose
  request Django has not processed, has no descriptor; without it `FetchParked` could
  overwrite one. The lemmas `DisconnectMatches`, `FinishOrder`, `FinishServed` and
  `FinishWait` say what finishing the handlers of any set of queues preserves.
- `HandlersCorrect`: `HandlersMatchDescriptors` alone, from `WaitCorrect`.
- `NoneStrandedCorrect`: `NoneStrandedUnlessZeroLeft`, from `WaitInv`. The lemma
  `ZeroStaysLeft` shows that the entry of handler 0, once left behind, stays until the
  process ends or its own connection closes, which is what makes the exception
  inductive.

`MissedMessagesProofs`:

- `TypeCorrect`: `TypeOK`, which includes that only queues of the user that receive
  messages hold any, and only messages that have been sent. `UnsentIsNew` (a message not
  sent has never been notifiable) bounds `mentions` when a message is sent.
- `AtMostOnceCorrect`: `NotifiedAtMostOnce`, whichever queues a collection removes. The
  inductive invariant adds `Pending`: a medium that some held event asks for and does not
  record as notified has been used less often than the message has become notifiable, but
  for messages in `together`. It is kept because the hook publishes only when no other queue is
  left that could hold the event too (`GcOnce`), and because an edit publishes only when
  it makes the message notifiable (`EditOnce`).
- `MissedCorrect`: `MissedIsNotified`. The inductive invariant `HookInv` follows what is owed
  (`Owed`: a message that was notifiable when it was sent, for a medium it was not notified
  by) to the queue that will settle it: while the user has a queue that receives all
  messages, each such queue holds the message events it has not shown (`Kept`), and they say
  truthfully what is notifiable and notified (`Truthful`); with none left, everything owed
  is notified or excepted (`Accounted`). There is a lemma for each operation (`RegisterHook`,
  `FetchHook`, `CrashHook`, `EditHook`, `SendHook`, `GcHook`).

`MissedMessageWorkerProofs`:

- `WakeupCorrect`: `NoLostWakeup`, through any exceptions and alarms. The invariant is
  inductive as it stands.
- `BatchCorrect`: `OneBatchPerUser`, with every fault. The inductive invariant adds what
  `consume` has read before it took the lock: the rows of its user, if there are any,
  still have the timestamp it is going to use. It is kept because only the main thread
  inserts rows and the worker thread only removes them (`FewerRows`).
- `OnceCorrect`: `SentOnceWithoutFaults`. A batch is selected by event and deleted by user and
  timestamp, so that the two agree only if the pending rows of a user share a timestamp:
  the inductive invariant `OnceInv`, which is about states before the first fault, rests on
  `OneBatchPerUser` and says that a row of what has been sent is about to be deleted.
- `ProcessedCorrect`: `ProcessedUnlessLate`: each acknowledged event has a row, was sent, or
  is in the file of errors, into which any exception that escapes `consume` takes it; but for
  the late ones, which the repeated query of the deletion takes along.

`RabbitQueuesProofs`: all safety properties, for any notices, users, jobs, prefetch, batch
size, retries and faults. The theorem `RabbitInvariant` is that `RabbitInv` is inductive; the
run's bounds play no part in it, and its only assumption is `BoundsAssumption`. `RabbitInv`
names the parts of `rabbit` (`notices`, `jobs`, `asked` for what waits for an answer,
`unsent` for the callbacks in `_on_open_cbs` that have not run) and has a lemma for each
conjunct and group of actions:

- `RabbitTypes`: `TypeOK`, from `Typed`, which adds that the callbacks publish jobs or
  consume the notices, and what each state of the connection excludes.
- `RabbitForgetsNothing`: `NothingForgotten`. `Known` says that whatever is anywhere has been
  published or is a job of a notice that was delivered; `Followed` and `Carried` reduce a step
  to where it puts what it takes away. A stale connection needs `Stale`: what Tornado still
  processes from it is ready in RabbitMQ too, so losing it forgets nothing.
- `RabbitOnce`: `OnceUnlessRepeated`. What has not been repeated is in one place at most:
  a notice in the queue or in flight, and then delivered to nobody (`NoticesOnce`); a job in
  its queue, the batch, the callbacks that wait or those that have not run, and then not
  finished (`JobsOnce`, `OneJob`). It is kept because a retry is recorded in `failed` and every
  redelivery and second run of `_on_open_cbs` in `again`.
- `RabbitInOrder`: `DeliveredInOrder`. `InLine` says that the notices in flight and then
  those that are ready, as one `Line`, are in order but for failed ones, and that nobody has
  been given a later event before an earlier one in it, but for failed ones and
  those already delivered. The end of a connection keeps `Line` as it is, and on a
  stale connection, where Tornado goes on with a copy, `Stale` says that what is
  ready before what it processes has been dealt with (`LineProcessed`).
- `RabbitOneConsumer`: `OneConsumer`, inductive with `Typed`, which says that a connection
  that opens has no requests.

`RetentionProofs`:

- `TypeCorrect`: `TypeOK`, inductive as it stands. `TransactionFacts` says what restoring
  and vacuuming do to the sequence of transactions.
- `FilesCorrect`: `FilesStay`. The inductive invariant `FilesInv` adds that what the
  archiver and the sweep have found and are going to delete is not in use, but for the
  excepted files (`ArchiverSafe`, `SweepSafe`), and that a file that can be claimed is in
  the storage (`ClaimableStored`). `ClaimFiles` treats every claim, `UnlinkFiles` every
  deletion of links.
- `UndoCorrect`: `DeletionCanBeUndone`. It needs `FilesInv`, as the links that are archived
  must be those of the message, and `ArchiveMatches`: a message that is only in the archive
  is there under the transaction of its last deletion. Most actions keep what the archive
  has of a message (`Kept`); archiving, restoring and vacuuming are treated one by one.
- `ComeBackCorrect`: the action property `ComesBackOnlyByUndo`, from the same invariant: only
  `Restore` revives a message, and `ArchiveMatches` says which transaction that takes.

`SoftDeactivationProofs`:

- `RowsCorrect`: `RowsOfKnownChannels`. The inductive invariant adds that a send which is
  going to give the user a row has found the user subscribed (`SendsKnown`, which also says
  that a committed message gives no more rows: a move could take it elsewhere), and that
  catch-ups have read, and are going to insert, messages of channels the user has been in
  (`CatchersKnow`). It is kept because no subscription becomes "none" again
  (`SubscriptionChanged`).
- `SameRowsCorrect`: `SameRowsAsTwin`. The property compares tables, and catching up decides
  from the log, so `TwinInv` says what the log is worth: for each message without a row and
  without an exception (`Open`), the twin is entitled to a row, now or when the send
  commits, exactly when `filter_by_subscription_history` would take it from the log as it
  is now (`HistoryTells`), and a send that nothing overtook agrees with the last entry
  (`SendRight`). Of a soft-deactivated user nothing is missing up to
  `last_active_message_id` (`CaughtUp`, `BehindSince`), of another nothing at all. A
  catch-up that has read the log holds one that tells the same of the messages it can see
  (`LogsRight`), and one that has read the messages is going to insert exactly what the twin
  has (`TodoRight`). `WantedAfter` shows that a new entry does not change what the log says
  of older messages, `OrderedSame` that sorting by `event_last_message_id` leaves a log
  that is in order as it is, and `BatchIsOldest` that an interrupted catch-up has inserted
  the oldest messages, so that the next one can start where it stopped. Steps that exempt
  or reveal nothing (`Calm`) keep what catch-ups know (`CatcherStays`); three lemmas
  (`MessageStep`, `SubscriptionStep`, `CatchUpStep`) treat the kinds of steps, and one lemma
  each action. TLC checked `TwinInv` as an invariant first, on this configuration and with
  two catch-ups at once.

`BillingProofs`:

- `OneLivePlanCorrect`: `OneLivePlan`. The inductive invariant is `Sound` tables until
  `crossed`: the rows are typed, each plan has a renewal entry in the ledger (its cycle is
  counted from there), at most one plan is live, and that one has a next invoice date; the
  job's copies and what a transaction has read refer to rows that exist. The lemma
  `CycleKeepsSound` treats `make_end_of_cycle_updates_if_needed` once, for the job and for
  the transactions. A writer that holds an old row sets `crossed`, so that a write that
  does not is one to the row as it stands (`WriteKeepsSound`).
- `NeverBilledTwiceCorrect`: `NeverBilledTwice`, from the same invariant and `Bills`. What
  was charged is not after the `invoiced_through` of its plan, which is neither `INITIAL`
  nor in a trial (`Booked`); what the job is going to charge is after everything that was
  charged for the plan, and `invoice_plan` marks the plan before it calls Stripe
  (`JobBooked`). `Advances` names the writes, of any actor, that keep this.
- `CancellationHonouredCorrect`: `CancellationHonoured`, from the same invariant and
  `Honoured`. When a plan is cancelled, it must end after every renewal there has been;
  later no actor may renew anything while it is live. `Kept` says both. The first holds
  because the end of the cycle is counted from the last renewal of the plan, which is the
  last of all (`Dated`, `CycleIsLater`), or is the end of a trial, and that is why
  `Dated` dates renewals: none is in the future or, while a trial is live, after its end.
  Transactions that have read and not yet written, and a tier change halfway, have times
  that are past (`ReadsDated`). `CycleKeepsDated` treats
  `make_end_of_cycle_updates_if_needed` once, for all who call it.
- `NoUnpaidPeriodCorrect`: `NoUnpaidPeriod`, from the same invariants, `Aligned` and
  `JobAligned`. Invoice dates and ends of cycles are on one grid of months from the anchor
  of the plan, so the next invoice is due no later than the end of the cycle (`Aligned`),
  and a plan that is not due is renewed for the present time. That is inductive only with
  what the job has done before it moves the date on: when invoice and end of the cycle fall
  together the renewal is written first, so that the date is before the new end
  (`JobAligned`), and the next date of the grid is not after it (`GridBetween`, for any
  length of the month and the cycle). `KeepsTime` names the writes, of any actor, that keep
  both, and composes; `CycleKeepsTime` treats `make_end_of_cycle_updates_if_needed`. The
  proof showed that the mark `late` was missing for plans made while a tier change is under
  way, which needs a fourth request and is beyond the bounds of the run.
- `NoPeriodPaidTwiceCorrect`: `NoPeriodPaidTwice`, from the same invariants and `Ordered`.
  Of any two renewals in the ledger, the period of the first has ended when the second
  begins, whether charged or not, but for customers who were cut off or credited and the
  entry that begins a trial (`Paired`). This is inductive with: the periods of plans that
  are over have ended by now (`Over`), a live plan has the last renewal of all
  (`LastOfAll`), and a plan in a trial has none but the one that began it (`TrialRows`).
  That entry is exempt because it is free: the plan was invoiced through it from the start
  (`FreeTrials`), and the job neither has charged it nor is going to (`JobFree`).
  `CycleWrites` says once what `make_end_of_cycle_updates_if_needed` writes in each of its
  cases, and `TermsKeepPeriods` that a write that keeps the anchor and the schedule of a
  plan keeps its periods.
- `LicensesForAllUsersCorrect`: `LicensesForAllUsers`, from the invariant of
  `CancellationHonoured` and `Licensed`. The job renews a plan as of its next invoice date,
  for the licenses of the last entry by then, and would forget the users added since. It
  does not, unless there was an outage: an invoice date that has passed lies in a cycle the
  plan has been renewed for (`Timely`, `OnTime`), so there is nothing to renew. Everybody
  else renews as of the present time before adding the entry for the present number of
  users, also when the plan was read before (`ReadsNow`); and no entry is in the future
  (`Past`), so that entry is the last one (`Enough`). `Timely` is inductive with a bound on
  how far the next invoice may be behind the end of the cycle: none for an annual plan, a
  month for a monthly one (`Near`), and a month more while the job has moved the date on
  and not yet renewed the plan. The job's copies are near or due, and so is the plan that a
  tier change puts in the place of one of them (`JobReady`); `StaysNear` names the writes,
  of any actor, that leave this so. `CycleKeepsLicenses` treats the end of a cycle once.
  Here the proof needs that a year is longer than a month.

The invariants and the operators they are made of are in `BillingInvariants`, where each
one extends those before it; `BillingProofs` has the theorems.
`UpdateWrites` says once what the second step of a request writes in each of its cases, as
`CycleWrites` does for the end of a cycle and `SaveInvoicingWrites` for the job, and the
proofs of all the properties use these. Between its two steps a request relies on what it
has read, so the invariants say of that, too, that it is dated and that the plan it may
replace was not renewed after its anchor (`RequestDated`, `RequestsOrdered`).

Only model-checked: the liveness properties (`EventuallyApplied`, `LongPollsEnd`,
`EventuallySettled`, `StopEndsUnlessLocked`, `EventuallyCleaned`), which need fairness;
`ConvergesUnlessCrossed` of `FlagEvents`, about a fold over the events of a queue (an
induction over the sequence); and `EveryLicensePaid` of `Billing` (sums over the items).

## Disagreements between the code and its documentation

With a run (`PROJECT.json`, "findings", has the quotation):

- **`retention_undo`.** The insertions into the archive resolve a conflict of ids by
  changing only the transaction of the row that is there, and restoring leaves the rows in
  the archive. A message that is restored, edited and deleted again is therefore archived
  with its old content, and undoing the second deletion loses the edit.

Others show in the exceptions the passing properties make. They can be reproduced by
dropping the exception or changing the constant:

- `stale` in `EachEventInOnePlace`, `NeverRejected` and `EventuallyApplied`: `runtornado.py`
  pushes `dump_event_queues` last on its exit stack, so it runs first, and RabbitMQ is closed
  last. An event consumed in between is acknowledged, pushed to a queue that is already on
  disk, and lost; the tab cannot see the gap. A fetch served after the dump makes virtual
  events real in memory only, and the tab gets them again after the restart; and a tab that
  has got an id the loaded queue has not given out is rejected until the queue gives it out
  again, to an event the tab then never gets.
- `crossed` in `ConvergesUnlessCrossed`: `push` moves a virtual event to the id of its last
  addition, so that star *m*, unstar *m*, star another message arrives as removal, then
  addition, and *m* stays starred in the tab. The comment in `push` knows of the same
  fault for marking as unread.
- `HandlerZeroLeft` in `NoneStrandedUnlessZeroLeft`: `disconnect_handler` tests the truth of the handler
  id, so the entry of handler 0 is never cleared; if its connection closes late it
  disconnects whoever waits on that queue.
- `together` in `NotifiedAtMostOnce`: `do_gc_event_queues` empties the lists before it calls
  the hook for any queue, so that each of several expired queues is "the last one".
- `late` in `ProcessedUnlessLate`: `events_to_process.delete()` repeats the query of
  `events_to_process`; a row inserted meanwhile with the timestamp of pending rows is
  deleted with the batch and never sent.
- `again` and `failed` in `OnceUnlessRepeated`: `_on_open_cbs` is never cleared, so what was
  published before a channel was open is published again with each later one; a notice
  that failed for its last user is processed again for all.
- `lost` in `NothingForgotten`: what waits for `ensure_queue`, or is written to a connection
  that has ended, is gone, as nothing asks RabbitMQ for confirmations.
- `raced`, `moved` and the order of the log in `SameRowsAsTwin`: the docstring of
  `add_missing_messages` says that "it should be impossible to tell that the user was
  soft-deactivated at all". It is possible after a send that read its recipients before
  the reactivation and commits after it, a channel that was archived (its subscriptions
  end without a log entry), a move between channels, out-of-order commits, and a deletion
  of the newest message, which makes `get_last_message_id` go back.
- `touched` in `RowsOfKnownChannels`: a row that a user got by reacting to a message stays
  when the message is moved to a channel the user has never been in, if the user was never
  subscribed to the old one either.
- `Refused` in `Retention`: a link that is restored, removed and added again has a new row
  id; archiving it conflicts with the pair that is still in the archive, and the deletion
  fails until the first transaction is vacuumed.
- `raced` in `FilesStay`: a file claimed between the query for unclaimed files and their
  deletion is removed under a new message.
- `crossed` in `Billing`: the job's copies, user transactions and upgrades overwrite each
  other, which can leave two live plans, a live plan without a next invoice date, a cycle
  renewed twice, or a user without a license. The comment at `stripe.py:5108` admits the
  race of upgrades.
- `outage` in `EveryLicensePaid`: if the job does not run for a cycle, an entry can be
  skipped (compare the TODO at `stripe.py:4092`).
- `late` marks in `NoUnpaidPeriod`: an upgrade with more users than licenses calls
  `invoice_plan` at once, which moves `next_invoice_date` two months on, although the
  comment at `stripe.py:5079` says "It is always the next month". So does a tier change
  whose new plan was replaced, before the request invoices it, by a downgrade and a new
  upgrade: `do_change_plan_to_new_tier` then invoices the plan of the upgrade at once.
- `SWITCH_PLAN_TIER_NOW` in `NoUnpaidPeriod`: a tier change that is interrupted before
  `switch_plan_tier` stays in that status for ever.
- `pending` in `Billing`: if the job dies between the last item and the invoice, the items
  wait for the customer's next invoice; the plan is not left as interrupted.
- `interrupted` in `ListsMatchClients`: a queue whose gc hook raised answers GET
  requests but gets no events until it is collected again.
- `edited` in `MissedIsNotified`: a mention added by an edit while the client is hard
  disconnected is never notified, as the hook looks at message events only.
- `overlooked` in `MissedIsNotified`: a queue that does not receive (all) messages keeps
  the hook from notifying what is left in the last queue that does, as `last_for_client`
  counts queues of any kind.
- `errors` in `NoLostWakeup`: `WorkerTimeoutError` raised after the insertion and before
  `cv.notify` leaves the worker thread asleep with a row to send, until the next notice. The
  notice is in the file of errors, and yet its e-mail may still go out.
- `holding` in `StopEndsUnlessLocked` (and `StopHangs` in `EventuallySettled`): SIGTERM
  that finds `consume` under the lock makes `stop()`, in the same thread and with the
  re-entrant lock, join a thread that waits for that lock. If the alarm of the interrupted
  `consume` goes off before SIGKILL comes, its exception ends `stop()` too: `sys.exit` is
  never reached, and the process goes on consuming without a worker thread to send the rows.

## What is not modelled

- The contents of events beyond what decides delivery, and their transformation for old
  clients (`process_deletion_event` and others); permissions; narrow matching, which is
  an arbitrary choice; presence, which is an arbitrary Boolean; the options of a client
  that decide how its events look (`from_dict`, `event_queue.py:150`, does not restore
  `sender_apply_raw_content`, which a restart therefore loses).
- Several Tornado shards and several tabs in `EventDelivery`; queues of different clients
  only interact through the registry, which `Tornado` models.
- In `RabbitQueues`, the e-mail worker stands for all loop workers; workers that handle
  one event at a time differ in the size of the batch. Several consumers of one queue do
  not occur in the code.
- In `SoftDeactivation`, flags of rows; in `Retention`, submessages, reactions and the like
  one by one; files younger than the weeks for which unclaimed ones are kept.
- In `Billing`, manual license management, payment by invoice, fixed prices, discounts,
  sponsorship, legacy and self-hosted plans, and a tier change while the job runs.
- In `Billing`, deaths within some sequences of saves that are one step of the model. An
  upgrade for an organization with more users than licenses calls Stripe, through
  `invoice_plan`, inside its `transaction.atomic` (`stripe.py:1759-1899`): the status
  `STARTED` is not durable there, and a rollback would leave a charge for an entry that does
  not exist. `switch_plan_tier` (`stripe.py:2951-2992`), the writes of
  `do_change_schedule_after_free_trial` (`stripe.py:2035-2065`) and those of
  `downgrade_now_without_creating_additional_invoices` are separate saves without a
  transaction: a death between them could leave no live plan, or one without an entry, and
  another actor that reads there is neither modelled nor counted in `crossed`.
- PostgreSQL, RabbitMQ, Django's ORM and the browser, except for the behaviour the code
  relies on.
- The parts with status `not_modelled` in `PROJECT.json`, each with its reason: some are
  planned, others are sequential database or permission logic, formatting, user
  interface, or exchanges with external services.

## Plan

The most important behaviour came first: delivery of events, the registry under it,
notifications and the worker; then the RabbitMQ clients under them, and the data whose
correctness depends on several processes. Next, in this order:

1. `EventRegister`: `do_events_register` and `apply_events`, the race between reading
   the state and the events queued meanwhile; composed with `EventDelivery`.
2. `ScheduledMessages` (sent once), `Presence` (monotone rows), analytics `FillState`.
3. Algorithms against reference definitions: the rate limiters against a sliding window,
   `notification_data` against its table of triggers.
4. Push notifications with the bouncer: registration, sending, removal.
