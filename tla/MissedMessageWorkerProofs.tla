---------------------- MODULE MissedMessageWorkerProofs ----------------------
(***************************************************************************)
(* Proofs of the invariants of MissedMessageWorker, for any notices, users  *)
(* and number of faults.                                                   *)
(***************************************************************************)
EXTENDS MissedMessageWorker, TLAPS

(* No wakeup is lost: the worker thread does not wait without a timeout    *)
(* while there are rows, but for those of an interrupted consume.  The     *)
(* invariant is inductive as it stands.                                    *)
THEOREM WakeupCorrect == Spec => []NoLostWakeup
<1>1. Init => NoLostWakeup
  BY DEF Init, NoLostWakeup
<1>2. NoLostWakeup /\ [Next]_vars => NoLostWakeup'
  <2> SUFFICES ASSUME NoLostWakeup, [Next]_vars
               PROVE  NoLostWakeup'
    OBVIOUS
  <2> USE DEF NoLostWakeup
  <2>1. ASSUME NEW t \in Times, Comes(t)
        PROVE  NoLostWakeup'
    BY <2>1 DEF Comes, mainthread, cv, workerthread
  <2>2. ASSUME NEW e \in Events, DeleteMessage(e)
        PROVE  NoLostWakeup'
    BY <2>2 DEF DeleteMessage, mainthread, cv, workerthread
  <2>3. ASSUME NEW e \in Events, ReadPending(e)
        PROVE  NoLostWakeup'
    BY <2>3 DEF ReadPending, cv, workerthread
  <2>4. CASE AcquireLock
    BY <2>4 DEF AcquireLock, db, workerthread
  <2>5. CASE CreateRow
    BY <2>5 DEF CreateRow, cv, workerthread
  <2>6. CASE NotifyWorker
    BY <2>6 DEF NotifyWorker, db, workerthread
  <2>7. CASE Acknowledge
    BY <2>7 DEF Acknowledge, workerthread
  <2>8. CASE ConsumeFails
    BY <2>8 DEF ConsumeFails, workerthread
  <2>9. CASE Stop
    BY <2>9 DEF Stop, db, workerthread
  <2>10. CASE Exit \/ Crash
    BY <2>10 DEF Exit, Crash, ProcessGone
  <2>11. CASE Start
    BY <2>11 DEF Start
  <2>12. CASE BackgroundLoop
    BY <2>12 DEF BackgroundLoop, db, mainthread
  <2>13. CASE WakeUp
    BY <2>13 DEF WakeUp, WaitCondition, db, mainthread
  <2>14. CASE WaitTimesOut
    BY <2>14 DEF WaitTimesOut
  <2>15. CASE SelectRows
    BY <2>15 DEF SelectRows
  <2>16. ASSUME NEW u \in Users, HandleUser(u)
         PROVE  NoLostWakeup'
    BY <2>16 DEF HandleUser, db, mainthread, cv
  <2>17. CASE DeleteRows
    BY <2>17 DEF DeleteRows
  <2>18. CASE LoopFails \/ BackOff \/ BackOffEnds
    BY <2>18 DEF LoopFails, BackOff, BackOffEnds
  <2>19. CASE UNCHANGED vars
    BY <2>19 DEF vars, db, mainthread, cv, workerthread
  <2>20. QED
    BY <2>1, <2>2, <2>3, <2>4, <2>5, <2>6, <2>7, <2>8, <2>9, <2>10, <2>11, <2>12,
       <2>13, <2>14, <2>15, <2>16, <2>17, <2>18, <2>19
    DEF Next, MainNext, WorkerNext
<1>3. QED
  BY <1>1, <1>2, PTL DEF Spec

(* What consume has read of the rows still holds when it makes its own:    *)
(* the timestamp it is going to use is that of all rows of the user.       *)
ReadIsCurrent ==
  main \in {"scheduled", "locked"} =>
    \A r \in rows : Recipient[r.event] = Recipient[event] => r.timestamp = timestamp

(* Steps that only remove rows, and let consume get no further than the    *)
(* lock, keep both.                                                        *)
LEMMA FewerRows ==
  ASSUME OneBatchPerUser, ReadIsCurrent,
         rows' \subseteq rows,
         main' \in {"scheduled", "locked"} =>
           main \in {"scheduled", "locked"} /\ UNCHANGED <<event, timestamp>>
  PROVE  OneBatchPerUser' /\ ReadIsCurrent'
BY DEF OneBatchPerUser, ReadIsCurrent

(* The rows of one user share one scheduled_timestamp, whatever happens    *)
(* between the read of consume and its insertion.                          *)
THEOREM BatchCorrect == Spec => []OneBatchPerUser
<1> DEFINE IInv == OneBatchPerUser /\ ReadIsCurrent
<1>1. Init => IInv
  BY DEF Init, OneBatchPerUser, ReadIsCurrent
<1>2. IInv /\ [Next]_vars => IInv'
  <2> SUFFICES ASSUME OneBatchPerUser, ReadIsCurrent, [Next]_vars
               PROVE  OneBatchPerUser' /\ ReadIsCurrent'
    OBVIOUS
  <2>1. ASSUME NEW e \in Events, ReadPending(e)
        PROVE  OneBatchPerUser' /\ ReadIsCurrent'
    BY <2>1 DEF ReadPending, OneBatchPerUser, ReadIsCurrent
  <2>2. CASE CreateRow
    <3>1. CASE event \in deleted
      BY <3>1, <2>2, FewerRows DEF CreateRow
    <3>2. CASE event \notin deleted
      BY <3>2, <2>2 DEF CreateRow, OneBatchPerUser, ReadIsCurrent
    <3>3. QED
      BY <3>1, <3>2
  <2>3. ASSUME NEW t \in Times, Comes(t)
        PROVE  OneBatchPerUser' /\ ReadIsCurrent'
    BY <2>3, FewerRows DEF Comes, mainthread
  <2>4. ASSUME NEW e \in Events, DeleteMessage(e)
        PROVE  OneBatchPerUser' /\ ReadIsCurrent'
    BY <2>4, FewerRows DEF DeleteMessage, mainthread
  <2>5. CASE AcquireLock \/ NotifyWorker \/ Acknowledge \/ ConsumeFails \/ Stop
    BY <2>5, FewerRows DEF AcquireLock, NotifyWorker, Acknowledge, ConsumeFails, Stop, db
  <2>6. CASE Exit \/ Crash \/ Start
    BY <2>6, FewerRows DEF Exit, Crash, Start, ProcessGone, db
  <2>7. CASE BackgroundLoop \/ WakeUp \/ WaitTimesOut \/ SelectRows
    BY <2>7, FewerRows DEF BackgroundLoop, WakeUp, WaitTimesOut, SelectRows, db, mainthread
  <2>8. ASSUME NEW u \in Users, HandleUser(u)
        PROVE  OneBatchPerUser' /\ ReadIsCurrent'
    BY <2>8, FewerRows DEF HandleUser, db, mainthread
  <2>9. CASE DeleteRows
    BY <2>9, FewerRows DEF DeleteRows, mainthread
  <2>10. CASE LoopFails \/ BackOff \/ BackOffEnds
    BY <2>10, FewerRows DEF LoopFails, BackOff, BackOffEnds, db, mainthread
  <2>11. CASE UNCHANGED vars
    BY <2>11, FewerRows DEF vars, db, mainthread
  <2>12. QED
    BY <2>1, <2>2, <2>3, <2>4, <2>5, <2>6, <2>7, <2>8, <2>9, <2>10, <2>11
    DEF Next, MainNext, WorkerNext
<1>3. QED
  BY <1>1, <1>2, PTL DEF Spec

-----------------------------------------------------------------------------
(* The events the rows are about.                                          *)
Noticed == {r.event : r \in rows}

(* Where consume is in the main thread.                                    *)
Stages == {"scheduled", "locked", "inserted", "created"}

(* What both proofs below need to know of the values of the variables.     *)
Typed ==
  /\ faults \in Nat
  /\ handled \in [Events -> Nat]
  /\ queue \subseteq Events /\ batch \subseteq Events
  /\ \A r \in rows : r.event \in Events
  /\ Consuming => event \in queue
  /\ main \in Stages => Consuming

(* Steps that make no row and let consume get no further.                  *)
LEMMA TypedStep ==
  ASSUME Typed, faults' \in Nat, UNCHANGED <<queue, handled>>,
         rows' \subseteq rows, batch' \subseteq batch,
         \/ event' = NoEvent /\ main' \in {"idle", "down"}
         \/ event' = event /\ (main' \in Stages => main \in Stages)
  PROVE  Typed'
BY DEF Typed, Consuming, Stages

LEMMA TypedInvariant == Spec => []Typed
<1>1. Init => Typed
  BY DEF Init, Typed, Consuming, Stages
<1>2. Typed /\ [Next]_vars => Typed'
  <2> SUFFICES ASSUME Typed, [Next]_vars
               PROVE  Typed'
    OBVIOUS
  <2>1. faults' \in Nat \/ ~ UNCHANGED faults
    BY DEF Typed
  <2>2. Fault => faults' \in Nat
    BY DEF Typed, Fault
  <2>3. ASSUME NEW e \in Events, ReadPending(e)
        PROVE  Typed'
    BY <2>3, EventsAssumption DEF ReadPending, cv, workerthread, history, Typed, Consuming, Stages
  <2>4. CASE CreateRow
    <3>1. /\ rows' \subseteq rows \cup {[event |-> event, timestamp |-> timestamp]}
          /\ UNCHANGED <<queue, event, batch, handled, faults>> /\ Consuming
      BY <2>4 DEF CreateRow, workerthread, Typed, Stages
    <3>2. \A r \in rows' : r.event \in Events
      BY <3>1 DEF Typed
    <3> QED
      BY <3>1, <3>2 DEF Typed, Consuming
  <2>5. CASE Acknowledge \/ ConsumeFails
    <3>1. /\ queue' \subseteq queue /\ UNCHANGED <<rows, batch, handled>> /\ ~ Consuming'
          /\ faults' \in Nat /\ main' \notin Stages
      BY <2>1, <2>2, <2>5 DEF Acknowledge, ConsumeFails, workerthread, history, Consuming, Stages
    <3> QED
      BY <3>1 DEF Typed
  <2>6. CASE SelectRows
    <3>1. /\ batch' \subseteq Noticed /\ UNCHANGED <<queue, rows, main, event, handled, faults>>
      BY <2>6 DEF SelectRows, db, mainthread, history, Noticed
    <3>2. Noticed \subseteq Events
      BY DEF Typed, Noticed
    <3> QED
      BY <3>1, <3>2 DEF Typed, Consuming, Stages
  <2>7. ASSUME NEW u \in Users, HandleUser(u)
        PROVE  Typed'
    <3>1. /\ batch' \subseteq batch /\ UNCHANGED <<queue, rows, main, event, faults>>
      BY <2>7 DEF HandleUser, db, mainthread
    <3>2. handled' \in [Events -> Nat]
      BY <2>7 DEF HandleUser, Typed
    <3> QED
      BY <3>1, <3>2 DEF Typed, Consuming, Stages
  <2>8. ASSUME NEW t \in Times, Comes(t)
        PROVE  Typed'
    BY <2>1, <2>8, TypedStep DEF Comes, mainthread, workerthread, history, Consuming, Stages
  <2>9. ASSUME NEW e \in Events, DeleteMessage(e)
        PROVE  Typed'
    BY <2>2, <2>9, TypedStep DEF DeleteMessage, mainthread, workerthread, history, Consuming, Stages
  <2>10. CASE AcquireLock \/ NotifyWorker
    BY <2>1, <2>10, TypedStep DEF AcquireLock, NotifyWorker, db, workerthread, history, Consuming, Stages
  <2>11. CASE Stop
    BY <2>2, <2>11, TypedStep DEF Stop, db, workerthread, history, Consuming, Stages
  <2>12. CASE Exit \/ Crash
    BY <2>1, <2>2, <2>12, TypedStep DEF Exit, Crash, ProcessGone, db, history, Consuming, Stages
  <2>13. CASE Start
    BY <2>1, <2>13, TypedStep DEF Start, db, history, Consuming, Stages
  <2>14. CASE BackgroundLoop \/ WakeUp \/ WaitTimesOut \/ BackOff \/ BackOffEnds
    BY <2>1, <2>14, TypedStep
    DEF BackgroundLoop, WakeUp, WaitTimesOut, BackOff, BackOffEnds, db, mainthread, history, Consuming, Stages
  <2>15. CASE DeleteRows
    BY <2>1, <2>15, TypedStep DEF DeleteRows, mainthread, history, Consuming, Stages
  <2>16. CASE LoopFails
    BY <2>2, <2>16, TypedStep DEF LoopFails, db, mainthread, history, Consuming, Stages
  <2>17. CASE UNCHANGED vars
    BY <2>1, <2>17, TypedStep DEF vars, db, mainthread, workerthread, history, Consuming, Stages
  <2> QED
    BY <2>3, <2>4, <2>5, <2>6, <2>7, <2>8, <2>9, <2>10, <2>11, <2>12, <2>13, <2>14, <2>15,
       <2>16, <2>17
    DEF Next, MainNext, WorkerNext
<1> QED
  BY <1>1, <1>2, PTL DEF Spec

-----------------------------------------------------------------------------
(* Without faults, no notice is sent twice. *)

(* The notices the main thread has not made a row of yet.                  *)
Untouched == queue \ (IF main \in {"inserted", "created"} THEN {event} ELSE {})

(* A notice is untouched, then has a row and perhaps is in a batch, then   *)
(* has been handled and, if it still has a row, the worker thread is about *)
(* to delete that row.                                                     *)
OnceInv ==
  /\ main \in {"idle", "scheduled", "locked", "inserted", "created"}
  /\ batch # {} => worker = "sending"
  /\ \A e \in Untouched : handled[e] = 0 /\ e \notin Noticed /\ e \notin batch
  /\ \A e \in batch : handled[e] = 0
  /\ \A r \in rows : r.event \in batch \/ handled[r.event] > 0 =>
       worker = "sending" /\ r.timestamp \in current
  /\ \A e \in Events : handled[e] <= 1

(* Steps that neither make a row nor handle one.                           *)
LEMMA OnceStep ==
  ASSUME OnceInv, UNCHANGED <<rows, batch, handled, current, worker>>,
         main' \in {"idle", "scheduled", "locked", "inserted", "created"},
         Untouched' \subseteq Untouched
  PROVE  OnceInv'
<1>1. Noticed' = Noticed
  BY DEF Noticed
<1> QED
  BY <1>1 DEF OnceInv

(* Steps of the worker thread before it selects a batch.                   *)
LEMMA OnceWaitingStep ==
  ASSUME OnceInv, UNCHANGED <<rows, batch, handled, main, event, queue>>,
         worker # "sending", worker' # "sending"
  PROVE  OnceInv'
<1>1. Noticed' = Noticed /\ Untouched' = Untouched
  BY DEF Noticed, Untouched
<1>2. batch = {} /\ \A r \in rows : ~ (handled[r.event] > 0)
  BY DEF OnceInv
<1> QED
  BY <1>1, <1>2 DEF OnceInv

(* Without exceptions, signals and crashes consume, the lock-free queries  *)
(* of maybe_send_batched_emails and the deletion of the batch send no      *)
(* notice twice.                                                           *)
THEOREM OnceCorrect == Spec => []SentOnceWithoutFaults
<1> DEFINE IInv == faults = 0 => OnceInv
<1>1. Init => IInv
  BY DEF Init, OnceInv, Untouched, Noticed
<1>2. Typed /\ OneBatchPerUser /\ IInv /\ [Next]_vars => IInv'
  <2> SUFFICES ASSUME Typed, OneBatchPerUser, IInv, [Next]_vars, faults' = 0
               PROVE  OnceInv'
    OBVIOUS
  <2>1. ~ Fault
    BY DEF Fault, Typed
  <2>2. UNCHANGED faults
    BY <2>1
    DEF Next, MainNext, WorkerNext, vars, ReadPending, AcquireLock, CreateRow, NotifyWorker,
        Acknowledge, Exit, Start, BackgroundLoop, WakeUp, WaitTimesOut, SelectRows, HandleUser,
        DeleteRows, BackOff, BackOffEnds, Comes, DeleteMessage, ConsumeFails, Stop, Crash,
        LoopFails
  <2>3. OnceInv
    BY <2>2
  <2>4. ASSUME NEW e \in Events, ReadPending(e)
        PROVE  OnceInv'
    <3>1. Untouched' \subseteq Untouched
      BY <2>4 DEF ReadPending, Untouched
    <3> QED
      BY <2>3, <2>4, <3>1, OnceStep DEF ReadPending, workerthread, history
  <2>5. CASE AcquireLock \/ NotifyWorker
    <3>1. Untouched' \subseteq Untouched
      BY <2>5 DEF AcquireLock, NotifyWorker, db, Untouched
    <3> QED
      BY <2>3, <2>5, <3>1, OnceStep DEF AcquireLock, NotifyWorker, db, workerthread, history
  <2>6. CASE CreateRow
    <3>1. UNCHANGED <<queue, event, batch, handled, current, worker>> /\ main = "locked"
      BY <2>6 DEF CreateRow, workerthread
    <3>2. Untouched' = queue \ {event} /\ event \in queue /\ Untouched = queue
      BY <2>6, <3>1 DEF CreateRow, Untouched, Typed, Stages
    <3>3. CASE event \in deleted
      BY <2>3, <2>6, <3>1, <3>2, <3>3, OnceStep DEF CreateRow
    <3>4. CASE event \notin deleted
      <4> DEFINE row == [event |-> event, timestamp |-> timestamp]
      <4>1. row.event = event /\ rows' = rows \cup {row} /\ main' = "inserted"
        BY <2>6, <3>4 DEF CreateRow
      <4> HIDE DEF row
      <4>2. handled[event] = 0 /\ event \notin batch
        BY <2>3, <3>2 DEF OnceInv
      <4>3. Noticed' = Noticed \cup {event}
        BY <4>1 DEF Noticed
      <4>4. \A e \in Untouched' : handled[e] = 0 /\ e \notin Noticed' /\ e \notin batch
        BY <2>3, <3>2, <4>3 DEF OnceInv
      <4> QED
        BY <2>3, <3>1, <4>1, <4>2, <4>4 DEF OnceInv
    <3> QED
      BY <3>3, <3>4
  <2>7. CASE Acknowledge
    <3>1. Untouched' \subseteq Untouched
      BY <2>7 DEF Acknowledge, Untouched
    <3> QED
      BY <2>3, <2>7, <3>1, OnceStep DEF Acknowledge, workerthread, history
  <2>8. CASE Exit \/ Start
    BY <2>3, <2>8 DEF Exit, Start, OnceInv
  <2>9. CASE BackgroundLoop \/ WakeUp \/ WaitTimesOut \/ BackOff \/ BackOffEnds
    BY <2>3, <2>9, OnceWaitingStep
    DEF BackgroundLoop, WakeUp, WaitTimesOut, BackOff, BackOffEnds, db, mainthread, history
  <2>10. CASE SelectRows
    <3>1. /\ UNCHANGED <<rows, queue, main, event, handled>>
          /\ worker = "selecting" /\ worker' = "sending"
          /\ current' = due \cap TimesInUse
          /\ batch' = {r.event : r \in {r \in rows : r.timestamp \in due}}
      BY <2>10 DEF SelectRows, db, mainthread, history
    <3>2. \A r \in rows : handled[r.event] = 0
      BY <2>3, <3>1 DEF OnceInv, Typed
    <3>3. \A e \in batch' : e \in Noticed /\ handled[e] = 0
      BY <3>1, <3>2 DEF Noticed
    <3>4. ASSUME NEW r \in rows, r.event \in batch' PROVE r.timestamp \in current'
      <4>1. PICK s \in rows : s.timestamp \in due /\ s.event = r.event
        BY <3>1, <3>4
      <4>2. r.timestamp = s.timestamp
        BY <4>1 DEF OneBatchPerUser
      <4> QED
        BY <3>1, <4>1, <4>2 DEF TimesInUse
    <3>5. Noticed' = Noticed /\ Untouched' = Untouched
      BY <3>1 DEF Noticed, Untouched
    <3> QED
      BY <2>3, <3>1, <3>2, <3>3, <3>4, <3>5 DEF OnceInv
  <2>11. ASSUME NEW u \in Users, HandleUser(u)
         PROVE  OnceInv'
    <3> DEFINE events == {e \in batch : Recipient[e] = u}
    <3>1. /\ UNCHANGED <<rows, queue, main, event, worker, current>> /\ worker = "sending"
          /\ batch' = batch \ events
          /\ handled' = [e \in Events |-> handled[e] + IF e \in events THEN 1 ELSE 0]
      BY <2>11 DEF HandleUser, db, mainthread
    <3>2. events \subseteq batch
      OBVIOUS
    <3> HIDE DEF events
    <3>3. \A e \in Events : handled[e] \in Nat /\ (e \in batch => handled[e] = 0)
      BY <2>3 DEF OnceInv, Typed
    <3>4. /\ \A e \in Events \ events : handled'[e] = handled[e]
          /\ \A e \in events : handled'[e] = 1
      BY <3>1, <3>2, <3>3 DEF Typed
    <3>5. Noticed' = Noticed /\ Untouched' = Untouched
      BY <3>1 DEF Noticed, Untouched
    <3>6. \A e \in Untouched : handled'[e] = 0 /\ e \notin Noticed /\ e \notin batch'
      BY <2>3, <3>1, <3>2, <3>4 DEF OnceInv, Untouched, Typed
    <3>7. \A e \in batch' : handled'[e] = 0
      BY <2>3, <3>1, <3>4 DEF OnceInv, Typed
    <3>8. ASSUME NEW r \in rows, r.event \in batch' \/ handled'[r.event] > 0
          PROVE  r.timestamp \in current
      <4>1. r.event \in batch \/ handled[r.event] > 0
        BY <3>1, <3>2, <3>4, <3>8 DEF Typed
      <4> QED
        BY <2>3, <4>1 DEF OnceInv
    <3>9. \A e \in Events : handled'[e] <= 1
      BY <2>3, <3>4 DEF OnceInv
    <3> QED
      BY <2>3, <3>1, <3>5, <3>6, <3>7, <3>8, <3>9 DEF OnceInv
  <2>12. CASE DeleteRows
    <3>1. /\ UNCHANGED <<queue, main, event, batch, handled>> /\ batch = {}
          /\ rows' = {r \in rows : r.timestamp \notin current}
      BY <2>12 DEF DeleteRows, mainthread, history
    <3>2. Noticed' \subseteq Noticed /\ Untouched' = Untouched
      BY <3>1 DEF Noticed, Untouched
    <3>3. \A r \in rows' : ~ (handled[r.event] > 0)
      BY <2>3, <3>1 DEF OnceInv
    <3> QED
      BY <2>3, <3>1, <3>2, <3>3 DEF OnceInv
  <2>13. ASSUME NEW t \in Times, Comes(t)
         PROVE  OnceInv'
    <3>1. Untouched' \subseteq Untouched
      BY <2>13 DEF Comes, mainthread, Untouched
    <3> QED
      BY <2>3, <2>13, <3>1, OnceStep DEF Comes, mainthread, workerthread, history, OnceInv
  <2>14. CASE UNCHANGED vars
    <3>1. Untouched' \subseteq Untouched
      BY <2>14 DEF vars, db, mainthread, Untouched
    <3> QED
      BY <2>3, <2>14, <3>1, OnceStep DEF vars, db, mainthread, workerthread, history, OnceInv
  <2> QED
    BY <2>1, <2>4, <2>5, <2>6, <2>7, <2>8, <2>9, <2>10, <2>11, <2>12, <2>13, <2>14
    DEF Next, MainNext, WorkerNext, DeleteMessage, ConsumeFails, Stop, Crash, LoopFails
<1>3. IInv => SentOnceWithoutFaults
  BY DEF OnceInv, SentOnceWithoutFaults
<1> QED
  BY <1>1, <1>2, <1>3, TypedInvariant, BatchCorrect, PTL DEF Spec

-----------------------------------------------------------------------------
(* No notice is dropped. *)

Present(e) == e \in deleted \cup late \cup errors \/ (\E r \in rows : r.event = e) \/ handled[e] > 0

(* A notice that the queue has given away, or whose row has been made, is  *)
(* in the table or has been dealt with; a row that is going to be deleted  *)
(* is about to be handled or has been.                                     *)
PresentInv ==
  /\ \A e \in Events \ queue : Present(e)
  /\ main \in {"inserted", "created"} => Present(event)
  /\ worker = "sending" \/ current = {}
  /\ main = "down" => worker = "finished"
  /\ \A r \in rows : r.timestamp \in current =>
       r.event \in batch \cup late \/ handled[r.event] > 0

(* Steps that take no row and no mark away.                                *)
LEMMA PresentStep ==
  ASSUME Typed, PresentInv, UNCHANGED <<queue, rows, late, errors, handled>>, deleted \subseteq deleted',
         main' \in {"inserted", "created"} =>
           main \in {"inserted", "created"} /\ UNCHANGED event,
         main' = "down" => main = "down" \/ worker' = "finished",
         \/ UNCHANGED <<worker, current, batch>>
         \/ current' = {} /\ (worker = "finished" => worker' = "finished")
  PROVE  PresentInv'
<1>1. \A e : Present(e) => Present(e)'
  BY DEF Present
<1> QED
  BY <1>1 DEF PresentInv

(* No exception, signal or crash makes the process drop a notice: what     *)
(* leaves the queue has a row or is in the file of errors, and DeleteRows  *)
(* takes only rows of notices that have been handled, or late ones.        *)
THEOREM ProcessedCorrect == Spec => []ProcessedUnlessLate
<1>1. Init => PresentInv
  BY DEF Init, PresentInv
<1>2. Typed /\ PresentInv /\ [Next]_vars => PresentInv'
  <2> SUFFICES ASSUME Typed, PresentInv, [Next]_vars
               PROVE  PresentInv'
    OBVIOUS
  <2>1. ASSUME NEW e \in Events, ReadPending(e)
        PROVE  PresentInv'
    BY <2>1, PresentStep DEF ReadPending, workerthread, history
  <2>2. CASE AcquireLock
    BY <2>2, PresentStep DEF AcquireLock, db, workerthread, history
  <2>3. CASE CreateRow
    <3> DEFINE row == [event |-> event, timestamp |-> timestamp]
    <3>1. /\ UNCHANGED <<queue, deleted, errors, event, timestamp, worker, current, batch, handled>>
          /\ late \subseteq late' /\ rows \subseteq rows'
      BY <2>3 DEF CreateRow, workerthread
    <3>2. \A e : Present(e) => Present(e)'
      BY <3>1 DEF Present
    <3>3. CASE event \in deleted
      BY <2>3, <3>1, <3>2, <3>3 DEF CreateRow, PresentInv, Present
    <3>4. CASE event \notin deleted
      <4>1. /\ row.event = event /\ row.timestamp = timestamp
            /\ rows' = rows \cup {row} /\ main' = "inserted"
            /\ timestamp \in current => event \in late'
        BY <2>3, <3>4 DEF CreateRow
      <4> HIDE DEF row
      <4>2. Present(event)'
        BY <3>1, <4>1 DEF Present
      <4>3. \A r \in rows' : r.timestamp \in current =>
              r.event \in batch \cup late' \/ handled[r.event] > 0
        BY <3>1, <4>1 DEF PresentInv
      <4>4. worker' = "sending" \/ current' = {}
        BY <3>1 DEF PresentInv
      <4> QED
        BY <3>1, <3>2, <4>1, <4>2, <4>3, <4>4 DEF PresentInv
    <3> QED
      BY <3>3, <3>4
  <2>4. CASE NotifyWorker
    BY <2>4, PresentStep DEF NotifyWorker, db, workerthread, history
  <2>5. CASE Acknowledge
    <3>1. /\ UNCHANGED <<rows, deleted, errors, late, handled, worker, current, batch>>
          /\ main = "created" /\ main' = "idle" /\ queue' = queue \ {event}
      BY <2>5 DEF Acknowledge, workerthread, history
    <3>2. \A e : Present(e) => Present(e)'
      BY <3>1 DEF Present
    <3> QED
      BY <3>1, <3>2 DEF PresentInv
  <2>6. CASE Exit \/ Crash
    BY <2>6, PresentStep DEF Exit, Crash, ProcessGone, db, history
  <2>7. CASE Start
    <3>1. /\ UNCHANGED <<queue, rows, deleted, errors, late, handled, current, batch>>
          /\ main = "down" /\ main' = "idle"
      BY <2>7 DEF Start, db, history
    <3>2. \A e : Present(e) => Present(e)'
      BY <3>1 DEF Present
    <3>3. current = {}
      BY <3>1 DEF PresentInv
    <3> QED
      BY <3>1, <3>2, <3>3 DEF PresentInv
  <2>8. CASE Stop
    BY <2>8, PresentStep DEF Stop, db, workerthread, history
  <2>9. CASE BackgroundLoop \/ WakeUp \/ WaitTimesOut \/ BackOff \/ BackOffEnds
    <3>1. current = {} /\ UNCHANGED current
      BY <2>9 DEF BackgroundLoop, WakeUp, WaitTimesOut, BackOff, BackOffEnds, PresentInv
    <3> QED
      BY <2>9, <3>1, PresentStep
      DEF BackgroundLoop, WakeUp, WaitTimesOut, BackOff, BackOffEnds, db, mainthread, history
  <2>10. CASE SelectRows
    <3>1. /\ UNCHANGED <<queue, rows, deleted, errors, late, handled, main, event>>
          /\ worker = "selecting" /\ worker' = "sending" /\ current' \subseteq due
          /\ batch' = {r.event : r \in {r \in rows : r.timestamp \in due}}
      BY <2>10 DEF SelectRows, db, mainthread, history
    <3>2. \A e : Present(e) => Present(e)'
      BY <3>1 DEF Present
    <3>3. \A r \in rows : r.timestamp \in current' => r.event \in batch'
      BY <3>1
    <3> QED
      BY <3>1, <3>2, <3>3 DEF PresentInv
  <2>11. ASSUME NEW u \in Users, HandleUser(u)
         PROVE  PresentInv'
    <3> DEFINE events == {e \in batch : Recipient[e] = u}
    <3>1. /\ UNCHANGED <<queue, rows, deleted, errors, late, main, event, worker, current>>
          /\ batch' = batch \ events
          /\ handled' = [e \in Events |-> handled[e] + IF e \in events THEN 1 ELSE 0]
      BY <2>11 DEF HandleUser, db, mainthread
    <3>2. events \subseteq batch
      OBVIOUS
    <3> HIDE DEF events
    <3>3. \A e \in Events : handled[e] \in Nat
      BY DEF Typed
    <3>4. /\ \A e \in Events : handled[e] > 0 => handled'[e] > 0
          /\ \A e \in events : handled'[e] > 0
      BY <3>1, <3>2, <3>3 DEF Typed
    <3>5. \A e \in Events : Present(e) => Present(e)'
      BY <3>1, <3>4 DEF Present
    <3>6. main \in {"inserted", "created"} => event \in Events
      BY DEF Typed, Stages
    <3>7. \A r \in rows : r.timestamp \in current =>
            r.event \in batch' \cup late \/ handled'[r.event] > 0
      BY <3>1, <3>4 DEF PresentInv, Typed
    <3> QED
      BY <3>1, <3>5, <3>6, <3>7 DEF PresentInv
  <2>12. CASE DeleteRows
    <3>1. /\ UNCHANGED <<queue, deleted, errors, late, handled, main, event>> /\ batch = {}
          /\ worker = "sending"
          /\ rows' = {r \in rows : r.timestamp \notin current} /\ current' = {}
      BY <2>12 DEF DeleteRows, mainthread, history
    <3>2. \A e : Present(e) => Present(e)'
      BY <3>1 DEF Present, PresentInv
    <3> QED
      BY <3>1, <3>2 DEF PresentInv
  <2>13. ASSUME NEW t \in Times, Comes(t)
         PROVE  PresentInv'
    BY <2>13, PresentStep DEF Comes, mainthread, workerthread, history
  <2>14. ASSUME NEW e \in Events, DeleteMessage(e)
         PROVE  PresentInv'
    <3>1. /\ UNCHANGED <<queue, errors, late, handled, main, event, worker, current, batch>>
          /\ deleted' = deleted \cup {e} /\ rows' = {r \in rows : r.event # e}
      BY <2>14 DEF DeleteMessage, mainthread, workerthread, history
    <3>2. \A f : Present(f) => Present(f)'
      BY <3>1 DEF Present
    <3> QED
      BY <3>1, <3>2 DEF PresentInv
  <2>15. CASE LoopFails
    BY <2>15, PresentStep DEF LoopFails, db, mainthread, history
  <2>16. CASE ConsumeFails
    <3>1. /\ UNCHANGED <<rows, deleted, late, handled, worker, current, batch>>
          /\ main' = "idle" /\ queue' = queue \ {event} /\ errors' = errors \cup {event}
      BY <2>16 DEF ConsumeFails, workerthread, history
    <3>2. \A e : Present(e) => Present(e)'
      BY <3>1 DEF Present
    <3>3. \A e : e = event => Present(e)'
      BY <3>1 DEF Present
    <3>4. \A e \in Events \ queue' : Present(e)'
      BY <3>1, <3>2, <3>3 DEF PresentInv
    <3> QED
      BY <3>1, <3>4 DEF PresentInv
  <2>17. CASE UNCHANGED vars
    BY <2>17, PresentStep DEF vars, db, mainthread, workerthread, history
  <2> QED
    BY <2>1, <2>2, <2>3, <2>4, <2>5, <2>6, <2>7, <2>8, <2>9, <2>10, <2>11, <2>12, <2>13, <2>14,
       <2>15, <2>16, <2>17
    DEF Next, MainNext, WorkerNext
<1>3. PresentInv => ProcessedUnlessLate
  BY DEF PresentInv, Present, ProcessedUnlessLate, Settled
<1> QED
  BY <1>1, <1>2, <1>3, TypedInvariant, PTL DEF Spec
=============================================================================
