------------------------- MODULE MissedMessageWorker -------------------------
(***************************************************************************)
(* The process of the missedmessage_emails queue                           *)
(* (zerver/worker/missedmessage_emails.py): its main thread consumes       *)
(* notices from RabbitMQ and turns each into a row of                      *)
(* ScheduledMessageNotificationEmail; its worker thread sends the rows     *)
(* that are due, one e-mail per user, and deletes them.  The threads share *)
(* the rows and the condition variable cv.  SIGTERM runs stop() in the     *)
(* main thread, wherever it is.                                            *)
(*                                                                         *)
(* A scheduled_timestamp is a token.  due holds the tokens whose time has  *)
(* come; a token is used again once nothing refers to it.                  *)
(***************************************************************************)
EXTENDS Integers, FiniteSets, FiniteSetsExt

CONSTANTS
  Events,        \* the notices in the queue, each about a message of its own
  Users,
  Recipient,     \* the user a notice is for
  MaxFaults,     \* exceptions, signals, timeouts, crashes and deleted messages
  NoEvent

ASSUME EventsAssumption ==
  /\ IsFiniteSet(Events)
  /\ Recipient \in [Events -> Users]
  /\ NoEvent \notin Events

ASSUME FaultsAssumption == MaxFaults \in Nat

NoTime == 0
Times == 1..(Cardinality(Events) + 2)

VARIABLES
  (* RabbitMQ and the database *)
  queue,         \* notices to deliver
  rows,          \* ScheduledMessageNotificationEmail
  due,           \* the timestamps that have come
  deleted,       \* notices whose message has been deleted
  errors,        \* notices in the worker's file of errors
  (* the main thread *)
  main,          \* what it is doing
  event,         \* the notice it is consuming
  timestamp,     \* scheduled_timestamp of consume
  (* the condition variable *)
  holding,       \* does the main thread hold the lock of cv?
  notified,      \* has the waiting worker thread been notified?
  stopping,
  has_timeout,
  (* the worker thread *)
  worker,        \* what it is doing
  current,       \* the timestamps up to current_time
  batch,         \* the notices of events_by_recipient not handled yet
  (* history *)
  handled,       \* how often each notice has been given to handle_missedmessage_emails
  late,          \* notices that got a row of a batch that was being sent
  faults

db == <<queue, rows, due, deleted, errors>>
mainthread == <<main, event, timestamp>>
cv == <<holding, notified, stopping, has_timeout>>
workerthread == <<worker, current, batch>>
history == <<handled, late>>
vars == <<db, mainthread, cv, workerthread, history, faults>>

(* The worker thread takes the lock only between steps of the main thread  *)
(* that hold it; what it does under the lock is one step of the model.     *)
LockFree == ~holding

Fault == faults < MaxFaults /\ faults' = faults + 1

TimesInUse == {r.timestamp : r \in rows} \cup {timestamp} \cup current

(* Time passes. *)
Comes(t) ==
  /\ t \in TimesInUse \ (due \cup {NoTime})
  /\ due' = due \cup {t}
  /\ UNCHANGED <<queue, rows, deleted, errors, mainthread, cv, workerthread, history, faults>>

(* A message is deleted, and its rows with it; not while                   *)
(* select_for_update has locked them.                                      *)
DeleteMessage(e) ==
  /\ Fault
  /\ e \notin deleted
  /\ worker = "sending" => \A r \in rows : r.event = e => r.timestamp \notin current
  /\ deleted' = deleted \cup {e}
  /\ rows' = {r \in rows : r.event # e}
  /\ UNCHANGED <<queue, due, errors, mainthread, cv, workerthread, history>>

-----------------------------------------------------------------------------
(* The main thread. *)

(* Fault: each row gets a timestamp of its own. *)
ReadNothing(e) ==
  /\ main = "idle"
  /\ e \in queue
  /\ main' = "scheduled"
  /\ event' = e
  /\ timestamp' = Min(Times \ TimesInUse)
  /\ due' = due \ {timestamp'}
  /\ UNCHANGED <<queue, rows, deleted, errors, cv, workerthread, history, faults>>

(* consume: the timestamp of the rows the user has, or a new one. *)
ReadPending(e) ==
  LET pending == {r.timestamp : r \in {r \in rows : Recipient[r.event] = Recipient[e]}}
  IN  /\ main = "idle"
      /\ e \in queue
      /\ main' = "scheduled"
      /\ event' = e
      /\ IF pending # {}
         THEN timestamp' \in pending /\ UNCHANGED due
         ELSE /\ timestamp' = Min(Times \ TimesInUse)
              /\ due' = due \ {timestamp'}
      /\ UNCHANGED <<queue, rows, deleted, errors, cv, workerthread, history, faults>>

AcquireLock ==
  /\ main = "scheduled"
  /\ LockFree
  /\ holding' = TRUE
  /\ main' = "locked"
  /\ UNCHANGED <<db, event, timestamp, notified, stopping, has_timeout>>
  /\ UNCHANGED <<workerthread, history, faults>>

(* The row is created, unless its message is gone: IntegrityError. *)
CreateRow ==
  /\ main = "locked"
  /\ IF event \in deleted
     THEN main' = "created" /\ UNCHANGED <<rows, late>>
     ELSE /\ main' = "inserted"
          /\ rows' = rows \cup {[event |-> event, timestamp |-> timestamp]}
          /\ late' = late \cup IF timestamp \in current THEN {event} ELSE {}
  /\ UNCHANGED <<queue, due, deleted, errors, event, timestamp, cv, workerthread, handled, faults>>

(* Fault: the test of has_timeout is the wrong way round. *)
NotifyIfTimeout ==
  /\ main = "inserted"
  /\ main' = "created"
  /\ notified' = (notified \/ (has_timeout /\ worker \in {"waiting", "backoff"}))
  /\ UNCHANGED <<db, event, timestamp, holding, stopping, has_timeout>>
  /\ UNCHANGED <<workerthread, history, faults>>

NotifyWorker ==
  /\ main = "inserted"
  /\ main' = "created"
  /\ notified' = (notified \/ (~has_timeout /\ worker \in {"waiting", "backoff"}))
  /\ UNCHANGED <<db, event, timestamp, holding, stopping, has_timeout>>
  /\ UNCHANGED <<workerthread, history, faults>>

(* consume returns: the lock is released and the notice acknowledged. *)
Acknowledge ==
  /\ main = "created"
  /\ main' = "idle"
  /\ holding' = FALSE
  /\ queue' = queue \ {event}
  /\ event' = NoEvent /\ timestamp' = NoTime
  /\ UNCHANGED <<rows, due, deleted, errors, notified, stopping, has_timeout>>
  /\ UNCHANGED <<workerthread, history, faults>>

(* consume has been called and has not returned; a signal handler that     *)
(* calls stop() may have interrupted it.                                   *)
Consuming == event # NoEvent

(* An exception other than IntegrityError escapes consume: a query fails,  *)
(* or the alarm of timer_expired raises one, wherever consume is, even     *)
(* from within a stop() that interrupted it.  The lock is released, the    *)
(* notice goes to the file of errors and is acknowledged.                  *)
ConsumeFails ==
  /\ Fault
  /\ Consuming
  /\ main' = "idle"
  /\ holding' = FALSE
  /\ queue' = queue \ {event}
  /\ errors' = errors \cup {event}
  /\ event' = NoEvent /\ timestamp' = NoTime
  /\ UNCHANGED <<rows, due, deleted, notified, stopping, has_timeout>>
  /\ UNCHANGED <<workerthread, history>>

(* Fault: stop() does not notify. *)
StopQuietly ==
  /\ Fault
  /\ main \notin {"joining", "down"}
  /\ stopping' = TRUE
  /\ main' = "joining"
  /\ UNCHANGED <<db, event, timestamp, holding, notified, has_timeout, workerthread, history>>

(* SIGTERM: signal_handler of process_queue calls stop().  The lock is     *)
(* re-entrant; one that consume holds is held until the thread has joined. *)
Stop ==
  /\ Fault
  /\ main \notin {"joining", "down"}
  /\ stopping' = TRUE
  /\ notified' = (notified \/ worker \in {"waiting", "backoff"})
  /\ main' = "joining"
  /\ UNCHANGED <<db, event, timestamp, holding, has_timeout, workerthread, history>>

(* The process is gone: what it had not acknowledged is delivered again,   *)
(* a transaction that was open is rolled back.                             *)
ProcessGone ==
  /\ main' = "down" /\ worker' = "finished"
  /\ event' = NoEvent /\ timestamp' = NoTime
  /\ holding' = FALSE /\ notified' = FALSE /\ has_timeout' = FALSE
  /\ current' = {} /\ batch' = {}
  /\ UNCHANGED <<db, stopping, history>>

(* worker_thread.join() returns and the process exits. *)
Exit == main = "joining" /\ worker = "finished" /\ ProcessGone /\ UNCHANGED faults

Crash == Fault /\ main # "down" /\ ProcessGone

Start ==
  /\ main = "down"
  /\ main' = "idle" /\ worker' = "looping"
  /\ stopping' = FALSE
  /\ UNCHANGED <<db, event, timestamp, holding, notified, has_timeout>>
  /\ UNCHANGED <<current, batch, history, faults>>

-----------------------------------------------------------------------------
(* The worker thread. *)

(* background_loop, up to the point where wait_for releases the lock. *)
BackgroundLoop ==
  /\ worker = "looping"
  /\ LockFree
  /\ IF stopping
     THEN worker' = "finished" /\ UNCHANGED has_timeout
     ELSE worker' = "waiting" /\ has_timeout' = (rows # {})
  /\ UNCHANGED <<db, mainthread, holding, notified, stopping, current, batch, history, faults>>

WaitCondition == stopping \/ (~has_timeout /\ rows # {})

(* wait_for has been notified and has the lock again. *)
WakeUp ==
  /\ worker = "waiting" /\ notified
  /\ LockFree
  /\ notified' = FALSE
  /\ worker' = IF WaitCondition THEN "looping" ELSE "waiting"
  /\ UNCHANGED <<db, mainthread, holding, stopping, has_timeout, current, batch, history, faults>>

(* The timeout of wait_for ends. *)
WaitTimesOut ==
  /\ worker = "waiting" /\ has_timeout
  /\ LockFree
  /\ notified' = FALSE
  /\ worker' = IF WaitCondition THEN "looping" ELSE "selecting"
  /\ UNCHANGED <<db, mainthread, holding, stopping, has_timeout, current, batch, history, faults>>

(* maybe_send_batched_emails. *)
SelectRows ==
  /\ worker = "selecting"
  /\ worker' = "sending"
  /\ current' = due \cap TimesInUse
  /\ batch' = {r.event : r \in {r \in rows : r.timestamp \in due}}
  /\ UNCHANGED <<db, mainthread, cv, history, faults>>

(* handle_missedmessage_emails for one user, which may raise an exception. *)
HandleUser(u) ==
  LET events == {e \in batch : Recipient[e] = u}
  IN  /\ worker = "sending"
      /\ events # {}
      /\ batch' = batch \ events
      /\ handled' = [e \in Events |-> handled[e] + IF e \in events THEN 1 ELSE 0]
      /\ UNCHANGED <<db, mainthread, cv, worker, current, late, faults>>

(* Faults: nothing is deleted; everything is. *)
DeleteNothing ==
  /\ worker = "sending"
  /\ batch = {}
  /\ worker' = "looping"
  /\ current' = {}
  /\ UNCHANGED <<db, mainthread, cv, batch, history, faults>>

DeleteEverything ==
  /\ worker = "sending"
  /\ batch = {}
  /\ worker' = "looping"
  /\ rows' = {}
  /\ current' = {}
  /\ UNCHANGED <<queue, due, deleted, errors, mainthread, cv, batch, history, faults>>

(* events_to_process.delete() runs the query again: it deletes the rows    *)
(* whose time is at most current_time, also those inserted since.          *)
DeleteRows ==
  /\ worker = "sending"
  /\ batch = {}
  /\ worker' = "looping"
  /\ rows' = {r \in rows : r.timestamp \notin current}
  /\ current' = {}
  /\ UNCHANGED <<queue, due, deleted, errors, mainthread, cv, batch, history, faults>>

(* An exception escapes background_loop, in one of its queries. *)
LoopFails ==
  /\ Fault
  /\ \/ worker = "looping" /\ LockFree /\ ~stopping
     \/ worker = "waiting" /\ notified /\ LockFree /\ ~stopping /\ ~has_timeout
     \/ worker = "selecting"
     \/ worker = "sending" /\ batch = {}
  /\ worker' = "failed"
  /\ notified' = FALSE
  /\ current' = {} /\ batch' = {}
  /\ UNCHANGED <<db, mainthread, holding, stopping, has_timeout, history>>

BackOff ==
  /\ worker = "failed"
  /\ LockFree
  /\ worker' = "backoff"
  /\ has_timeout' = TRUE
  /\ UNCHANGED <<db, mainthread, holding, notified, stopping, current, batch, history, faults>>

(* Fault: the backoff waits without a timeout. *)
BackOffEndsIfNotified ==
  /\ worker = "backoff" /\ notified
  /\ LockFree
  /\ worker' = "looping"
  /\ notified' = FALSE
  /\ UNCHANGED <<db, mainthread, holding, stopping, has_timeout, current, batch, history, faults>>

BackOffEnds ==
  /\ worker = "backoff"
  /\ LockFree
  /\ worker' = "looping"
  /\ notified' = FALSE
  /\ UNCHANGED <<db, mainthread, holding, stopping, has_timeout, current, batch, history, faults>>

-----------------------------------------------------------------------------

Init ==
  /\ queue = Events /\ rows = {} /\ due = {} /\ deleted = {} /\ errors = {}
  /\ main = "idle" /\ event = NoEvent /\ timestamp = NoTime
  /\ holding = FALSE /\ notified = FALSE /\ stopping = FALSE /\ has_timeout = FALSE
  /\ worker = "looping" /\ current = {} /\ batch = {}
  /\ handled = [e \in Events |-> 0] /\ late = {} /\ faults = 0

MainNext ==
  \/ \E e \in Events : ReadPending(e)
  \/ AcquireLock \/ CreateRow \/ NotifyWorker \/ Acknowledge
  \/ Exit \/ Start

WorkerNext ==
  \/ BackgroundLoop \/ WakeUp \/ WaitTimesOut
  \/ SelectRows \/ (\E u \in Users : HandleUser(u)) \/ DeleteRows
  \/ BackOff \/ BackOffEnds

Next ==
  \/ MainNext \/ WorkerNext
  \/ \E t \in Times : Comes(t)
  \/ \E e \in Events : DeleteMessage(e)
  \/ ConsumeFails \/ Stop \/ Crash \/ LoopFails

Spec == Init /\ [][Next]_vars

(* The threads run, time passes, and supervisord starts the process again. *)
FairSpec ==
  /\ Spec
  /\ WF_vars(MainNext) /\ WF_vars(WorkerNext)
  /\ \A t \in Times : WF_vars(Comes(t))

-----------------------------------------------------------------------------
(* Properties. *)

(* No wakeup is lost (case 3 of the comment in consume): while the worker  *)
(* thread waits without a timeout and nobody has notified it, there is no  *)
(* row but the one the main thread is about to notify it of, and those     *)
(* whose consume was interrupted between the insertion and the             *)
(* notification, which are in the file of errors too.                      *)
NoLostWakeup ==
  (worker = "waiting" /\ ~has_timeout /\ ~notified) =>
    \A r \in rows : r.event \in errors \/ (main = "inserted" /\ r.event = event)

(* The rows of a user have one scheduled_timestamp, so that a batch takes  *)
(* them all: consume reads it without the lock, and the rows it read may   *)
(* be gone when it inserts its own.                                        *)
OneBatchPerUser ==
  \A r, s \in rows :
    Recipient[r.event] = Recipient[s.event] => r.timestamp = s.timestamp

(* Without exceptions, signals and crashes no notice is sent twice. *)
SentOnceWithoutFaults == faults = 0 => \A e \in Events : handled[e] <= 1

(* The notice has left the queue and the table. *)
Settled(e) == e \notin queue /\ e \notin {r.event : r \in rows}

(* By no exception, signal or crash is a notice dropped: what has left the *)
(* queue and the table has been processed or is in the file of errors, but *)
(* for a row that was inserted into a batch that was being sent.           *)
ProcessedUnlessLate ==
  \A e \in Events \ (deleted \cup late) : Settled(e) => handled[e] > 0 \/ e \in errors

(* stop() has been called by a signal in the middle of consume.  Either    *)
(* consume holds the lock, and stop() joins a thread that needs it, or the *)
(* alarm of consume has ended stop(), and the process goes on without a    *)
(* worker thread.                                                          *)
StopHangs == stopping /\ main # "down" /\ (holding \/ main # "joining")

(* Each notice is dealt with: it leaves the queue and then the table, or   *)
(* it is in the file of errors.                                            *)
EventuallySettled == \A e \in Events : []<>(Settled(e) \/ e \in errors \/ StopHangs)

(* stop() ends, if the signal did not find consume under the lock: with    *)
(* the process or, if it takes too long, by the alarm of the consume it    *)
(* interrupted; a notification lost in the backoff only delays it.         *)
StopEndsUnlessLocked == (main = "joining" /\ ~holding) ~> main # "joining"
=============================================================================
