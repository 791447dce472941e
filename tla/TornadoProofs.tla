---------------------------- MODULE TornadoProofs ----------------------------
(***************************************************************************)
(* Proofs about Tornado, for any queues, users, realms and number of       *)
(* requests.                                                               *)
(***************************************************************************)
EXTENDS Tornado, TLAPS

LEMMA NoHandlerIsNone == NoHandler \notin Handlers /\ 0 \in Handlers
BY HandlersAssumption DEF NoHandler, Handlers

(* finish_current_handler, for any set of queues, keeps the types. *)
LEMMA FinishType ==
  ASSUME TypeOK, NEW S \in SUBSET Queues
  PROVE  /\ StageAfterFinish(S) \in [Handlers -> Stages]
         /\ CurrentAfterDisconnect(S) \in [Queues -> Handlers \cup {NoHandler}]
         /\ DescriptorsAfterDisconnect(S) \in [Handlers -> Queues \cup {NoQueue}]
BY DEF TypeOK, Stages, StageAfterFinish, CurrentAfterDisconnect, DescriptorsAfterDisconnect

(* Every action keeps the types. *)
LEMMA TypeStep == TypeOK /\ [Next]_vars => TypeOK'
<1> SUFFICES ASSUME TypeOK, [Next]_vars PROVE TypeOK'
  OBVIOUS
<1> USE QueuesAssumption, HandlersAssumption, NoHandlerIsNone DEF TypeOK, Stages
<1>1. ASSUME NEW q \in Queues, Register(q) PROVE TypeOK'
  BY <1>1 DEF Register, AllocateHandlerId, waits
<1>2. ASSUME NEW q \in Queues, GetArrives(q) PROVE TypeOK'
  <2>1. next_handler_id \in Handlers
    BY <1>2 DEF GetArrives, AllocateHandlerId, Handlers
  <2> QED
    BY <1>2, <2>1 DEF GetArrives, AllocateHandlerId, registry, waits
<1>3. ASSUME NEW q \in Queues, Heartbeat(q) PROVE TypeOK'
  BY <1>3, FinishType DEF Heartbeat, add_event, finish_current_handler, registry
<1>4. ASSUME NEW q \in Queues, DeleteArrives(q) PROVE TypeOK'
  BY <1>4 DEF DeleteArrives, AllocateHandlerId, registry, waits
<1>5. ASSUME NEW q \in Queues, Cleanup(q) PROVE TypeOK'
  BY <1>5, FinishType DEF Cleanup, finish_current_handler, do_gc_event_queues
<1>6. ASSUME NEW q \in Queues, CleanupFails(q) PROVE TypeOK'
  BY <1>6, FinishType DEF CleanupFails, finish_current_handler, do_gc_event_queues
<1>7. ASSUME NEW h \in Handlers, FetchRefused(h) PROVE TypeOK'
  BY <1>7 DEF FetchRefused, registry, waits
<1>8. ASSUME NEW h \in Handlers, FetchAnswered(h) PROVE TypeOK'
  BY <1>8, FinishType DEF FetchAnswered, registry
<1>9. ASSUME NEW h \in Handlers, FetchParked(h) PROVE TypeOK'
  BY <1>9, FinishType DEF FetchParked, registry
<1>10. ASSUME NEW h \in Handlers, OnFinish(h) PROVE TypeOK'
  BY <1>10 DEF OnFinish, registry, waits
<1>11. ASSUME NEW h \in Handlers, OnConnectionClose(h) PROVE TypeOK'
  BY <1>11, FinishType DEF OnConnectionClose, registry
<1>12. ASSUME NEW u \in Users, NEW S \in SUBSET Queues, ProcessEvent(u, S) PROVE TypeOK'
  BY <1>12, FinishType DEF ProcessEvent, add_event, finish_current_handler, registry
<1>13. ASSUME NEW u \in Users, NEW S \in SUBSET Queues, ProcessMessageEvent(u, S) PROVE TypeOK'
  BY <1>13, FinishType DEF ProcessMessageEvent, add_event, finish_current_handler, registry
<1>14. ASSUME NEW S \in SUBSET Queues, SendWebReloadClientEvents(S) PROVE TypeOK'
  BY <1>14, FinishType DEF SendWebReloadClientEvents, add_event, finish_current_handler
<1>15. ASSUME NEW S \in SUBSET Queues, GcEventQueues(S) PROVE TypeOK'
  BY <1>15 DEF GcEventQueues, do_gc_event_queues, waits
<1>16. ASSUME NEW S \in SUBSET Queues, GcEventQueuesFails(S) PROVE TypeOK'
  BY <1>16 DEF GcEventQueuesFails, do_gc_event_queues, waits
<1>17. ASSUME NEW kept \in SUBSET Queues, NEW restarted \in SUBSET Queues,
              Restart(kept, restarted)
       PROVE  TypeOK'
  BY <1>17 DEF Restart
<1>18. ASSUME UNCHANGED vars PROVE TypeOK'
  BY <1>18 DEF vars, registry, waits
<1> QED
  BY <1>1, <1>2, <1>3, <1>4, <1>5, <1>6, <1>7, <1>8, <1>9, <1>10, <1>11, <1>12,
     <1>13, <1>14, <1>15, <1>16, <1>17, <1>18 DEF Next

(* The variables keep their types in every behaviour of the process. *)
LEMMA TypeCorrect == Spec => []TypeOK
<1>1. Init => TypeOK
  BY HandlersAssumption, NoHandlerIsNone DEF Init, TypeOK, Stages
<1> QED
  BY <1>1, TypeStep, PTL DEF Spec
-----------------------------------------------------------------------------
(* The lists of queues. *)

(* do_gc_event_queues keeps the lists and clients in step, wherever it     *)
(* ends.                                                                   *)
LEMMA GcRegistry ==
  ASSUME TypeOK, ListsMatchClients,
         NEW S, NEW T \in SUBSET S, NEW M, T \subseteq M, do_gc_event_queues(S, T, M)
  PROVE  ListsMatchClients'
BY QueuesAssumption
DEF TypeOK, ListsMatchClients, do_gc_event_queues

(* Every action keeps the lists and clients in step. *)
LEMMA RegistryStep == TypeOK /\ ListsMatchClients /\ [Next]_vars => ListsMatchClients'
<1> SUFFICES ASSUME TypeOK, ListsMatchClients, [Next]_vars PROVE ListsMatchClients'
  OBVIOUS
<1>1. ASSUME NEW q \in Queues, Register(q) PROVE ListsMatchClients'
  BY <1>1, QueuesAssumption
  DEF Register, TypeOK, ListsMatchClients
<1>2. ASSUME UNCHANGED registry PROVE ListsMatchClients'
  BY <1>2 DEF registry, ListsMatchClients
<1>3. ASSUME NEW S \in SUBSET Queues, SendWebReloadClientEvents(S) PROVE ListsMatchClients'
  BY <1>3 DEF SendWebReloadClientEvents, ListsMatchClients
<1>4. ASSUME NEW S \in SUBSET Queues, GcEventQueues(S) PROVE ListsMatchClients'
  BY <1>4, GcRegistry DEF GcEventQueues
<1>5. ASSUME NEW S \in SUBSET Queues, GcEventQueuesFails(S) PROVE ListsMatchClients'
  <2>1. PICK failed \in S : \E removed \in SUBSET (S \ {failed}) :
          do_gc_event_queues(S, removed, removed \cup {failed})
    BY <1>5 DEF GcEventQueuesFails
  <2>2. PICK removed \in SUBSET (S \ {failed}) :
          do_gc_event_queues(S, removed, removed \cup {failed})
    BY <2>1
  <2>3. removed \in SUBSET S /\ removed \subseteq removed \cup {failed}
    BY <2>2
  <2> QED
    BY <2>2, <2>3, GcRegistry
<1>6. ASSUME NEW q \in Queues, Cleanup(q) PROVE ListsMatchClients'
  <2>1. do_gc_event_queues({q}, {q}, {q})
    BY <1>6 DEF Cleanup
  <2> QED
    BY <2>1, GcRegistry
<1>7. ASSUME NEW q \in Queues, CleanupFails(q) PROVE ListsMatchClients'
  <2>1. do_gc_event_queues({q}, {}, {q})
    BY <1>7 DEF CleanupFails
  <2> QED
    BY <2>1, GcRegistry
<1>8. ASSUME NEW kept \in SUBSET Queues, NEW restarted \in SUBSET Queues,
             Restart(kept, restarted)
      PROVE  ListsMatchClients'
  BY <1>8, QueuesAssumption DEF Restart, ListsMatchClients
<1> QED
  BY <1>1, <1>2, <1>3, <1>4, <1>5, <1>6, <1>7, <1>8
  DEF Next, vars, GetArrives, Heartbeat, DeleteArrives, FetchRefused, FetchAnswered,
      FetchParked, OnFinish, OnConnectionClose, ProcessEvent, ProcessMessageEvent

(* Whatever the gc hooks do, the lists by user and realm name exactly the  *)
(* queues in clients that no hook has interrupted, and what waits for a    *)
(* web_reload_client event is a queue in clients.                          *)
THEOREM RegistryCorrect == Spec => []ListsMatchClients
<1>1. Init => ListsMatchClients
  BY DEF Init, ListsMatchClients
<1> QED
  BY <1>1, TypeCorrect, RegistryStep, PTL DEF Spec

-----------------------------------------------------------------------------
(* Handlers and the queues they wait for. *)

WaitInv == HandlersMatchDescriptors /\ WaitersAreServed /\ HandlerIdsInOrder

(* finish_current_handler keeps the two maps in step, for any queues. *)
LEMMA DisconnectMatches ==
  ASSUME TypeOK, HandlersMatchDescriptors, NEW S \in SUBSET Queues,
         current_handler_id' = CurrentAfterDisconnect(S),
         descriptors_by_handler_id' = DescriptorsAfterDisconnect(S)
  PROVE  HandlersMatchDescriptors'
<1> USE QueuesAssumption, NoHandlerIsNone
    DEF TypeOK, HandlersMatchDescriptors, CurrentAfterDisconnect,
        DescriptorsAfterDisconnect, Waiting
<1>1. ASSUME NEW q \in Queues, current_handler_id'[q] # NoHandler
      PROVE  descriptors_by_handler_id'[current_handler_id'[q]] = q
  <2>1. q \notin S /\ current_handler_id'[q] = current_handler_id[q]
    BY <1>1
  <2>2. current_handler_id[q] \in Handlers
        /\ descriptors_by_handler_id[current_handler_id[q]] = q
    BY <1>1, <2>1
  <2>3. \A r \in S : current_handler_id[r] # current_handler_id[q]
    BY <1>1, <2>1, <2>2
  <2> QED
    BY <2>1, <2>2, <2>3
<1>2. ASSUME NEW h \in Handlers \ {0}, descriptors_by_handler_id'[h] # NoQueue
      PROVE  current_handler_id'[descriptors_by_handler_id'[h]] = h
  <2>1. h \notin Waiting(S) /\ descriptors_by_handler_id'[h] = descriptors_by_handler_id[h]
    BY <1>2
  <2>2. descriptors_by_handler_id[h] \in Queues
        /\ current_handler_id[descriptors_by_handler_id[h]] = h
    BY <1>2, <2>1
  <2>3. descriptors_by_handler_id[h] \notin S
    BY <2>1, <2>2
  <2> QED
    BY <2>1, <2>2, <2>3
<1> QED
  BY <1>1, <1>2

(* finish_current_handler touches no handler that is still to come, puts   *)
(* none back in the queue and gives none a descriptor.                     *)
LEMMA FinishOrder ==
  ASSUME TypeOK, WaitInv, NEW S \in SUBSET Queues, NEW h \in Handlers
  PROVE  /\ h >= next_handler_id => StageAfterFinish(S)[h] = "none"
         /\ StageAfterFinish(S)[h] = "queued" => stage[h] = "queued"
         /\ DescriptorsAfterDisconnect(S)[h] \in {NoQueue, descriptors_by_handler_id[h]}
<1>1. h \in Waiting(S) => descriptors_by_handler_id[h] # NoQueue
  BY QueuesAssumption, NoHandlerIsNone
  DEF TypeOK, WaitInv, HandlersMatchDescriptors, Waiting
<1> QED
  BY <1>1 DEF WaitInv, HandlerIdsInOrder, StageAfterFinish, DescriptorsAfterDisconnect

(* A handler that still waits after finish_current_handler waited before,  *)
(* for a queue that was not finished; timers follow.                       *)
LEMMA FinishServed ==
  ASSUME TypeOK, WaitInv, NEW S \in SUBSET Queues, NEW q \in Queues
  PROVE  /\ CurrentAfterDisconnect(S)[q] # NoHandler
              => q \notin S /\ q \in clients \ holding
         /\ q \in timeout_handle \ S <=> CurrentAfterDisconnect(S)[q] # NoHandler
BY DEF TypeOK, WaitInv, WaitersAreServed, CurrentAfterDisconnect

(* The actions that finish the handlers of some queues, may add events to  *)
(* them and may then remove them.                                          *)
LEMMA FinishWait ==
  ASSUME TypeOK, WaitInv, NEW S \in SUBSET Queues, finish_current_handler(S),
         handlers' = handlers, next_handler_id' = next_handler_id,
         clients \ S \subseteq clients', holding' \subseteq holding \cup S
  PROVE  WaitInv'
<1>1. HandlersMatchDescriptors'
  BY DisconnectMatches DEF WaitInv, finish_current_handler
<1>2. WaitersAreServed'
  BY FinishServed DEF WaitersAreServed, finish_current_handler
<1>3. HandlerIdsInOrder'
  BY FinishOrder DEF WaitInv, HandlerIdsInOrder, finish_current_handler
<1> QED
  BY <1>1, <1>2, <1>3 DEF WaitInv

(* Every action keeps the handlers and queues in step. *)
LEMMA WaitStep == TypeOK /\ WaitInv /\ [Next]_vars => WaitInv'
<1> SUFFICES ASSUME TypeOK, WaitInv, [Next]_vars PROVE WaitInv'
  OBVIOUS
<1>1. ASSUME NEW q \in Queues, Register(q) PROVE WaitInv'
  BY <1>1 DEF Register, AllocateHandlerId, waits, TypeOK, WaitInv, HandlersMatchDescriptors,
              WaitersAreServed, HandlerIdsInOrder, Handlers
<1>2. ASSUME NEW q \in Queues, GetArrives(q) PROVE WaitInv'
  <2>1. next_handler_id \in Handlers
    BY <1>2, HandlersAssumption DEF GetArrives, AllocateHandlerId, Handlers, TypeOK
  <2>2. HandlerIdsInOrder'
    BY <1>2, <2>1 DEF GetArrives, AllocateHandlerId, waits, TypeOK, WaitInv,
                      HandlerIdsInOrder, Handlers
  <2> QED
    BY <1>2, <2>2 DEF GetArrives, registry, waits, WaitInv, HandlersMatchDescriptors,
                      WaitersAreServed
<1>3. ASSUME NEW q \in Queues, DeleteArrives(q) PROVE WaitInv'
  BY <1>3 DEF DeleteArrives, AllocateHandlerId, registry, waits, TypeOK, WaitInv,
              HandlersMatchDescriptors, WaitersAreServed, HandlerIdsInOrder, Handlers
<1>4. ASSUME NEW S \in SUBSET Queues, add_event(S), clients' = clients,
             handlers' = handlers, next_handler_id' = next_handler_id
      PROVE  WaitInv'
  BY <1>4, FinishWait DEF add_event
<1>5. ASSUME NEW q \in Queues, Heartbeat(q) PROVE WaitInv'
  <2>1. add_event({q}) /\ UNCHANGED <<clients, handlers, next_handler_id>>
    BY <1>5 DEF Heartbeat, registry
  <2> QED
    BY <1>4, <2>1
<1>6. ASSUME NEW u \in Users, NEW S \in SUBSET Queues,
             ProcessEvent(u, S) \/ ProcessMessageEvent(u, S)
      PROVE  WaitInv'
  BY <1>4, <1>6 DEF ProcessEvent, ProcessMessageEvent, registry
<1>7. ASSUME NEW S \in SUBSET Queues, SendWebReloadClientEvents(S) PROVE WaitInv'
  BY <1>4, <1>7 DEF SendWebReloadClientEvents
<1>8. ASSUME NEW q \in Queues, Cleanup(q) \/ CleanupFails(q) PROVE WaitInv'
  <2>1. finish_current_handler({q}) /\ UNCHANGED <<handlers, next_handler_id>>
    BY <1>8 DEF Cleanup, CleanupFails
  <2>2. clients \ {q} \subseteq clients' /\ holding' \subseteq holding \cup {q}
    BY <1>8 DEF Cleanup, CleanupFails, do_gc_event_queues
  <2> QED
    BY <2>1, <2>2, FinishWait
<1>9. ASSUME NEW S \in SUBSET Queues, GcEventQueues(S) \/ GcEventQueuesFails(S)
      PROVE  WaitInv'
  <2>1. UNCHANGED <<waits, handlers, next_handler_id, stage>>
    BY <1>9 DEF GcEventQueues, GcEventQueuesFails
  <2>2. /\ {q \in clients : current_handler_id[q] # NoHandler} \subseteq clients'
        /\ holding' \subseteq holding
    BY <1>9 DEF GcEventQueues, GcEventQueuesFails, do_gc_event_queues
  <2> QED
    BY <2>1, <2>2 DEF waits, WaitInv, HandlersMatchDescriptors, WaitersAreServed,
                      HandlerIdsInOrder
<1>10. ASSUME NEW h \in Handlers, FetchRefused(h) PROVE WaitInv'
  BY <1>10 DEF FetchRefused, registry, waits, TypeOK, WaitInv, HandlersMatchDescriptors,
               WaitersAreServed, HandlerIdsInOrder
<1>11. ASSUME NEW h \in Handlers, OnFinish(h) PROVE WaitInv'
  BY <1>11 DEF OnFinish, registry, waits, TypeOK, WaitInv, HandlersMatchDescriptors,
               WaitersAreServed, HandlerIdsInOrder
<1>12. ASSUME NEW h \in Handlers, FetchAnswered(h) PROVE WaitInv'
  <2> DEFINE q == asked[h]
  <2>1. q \in Queues /\ {q} \in SUBSET Queues
    BY <1>12 DEF FetchAnswered, TypeOK
  <2>2. HandlersMatchDescriptors'
    BY <1>12, <2>1, DisconnectMatches DEF FetchAnswered, WaitInv
  <2>3. WaitersAreServed'
    BY <1>12, <2>1, FinishServed DEF FetchAnswered, WaitersAreServed, registry
  <2>4. HandlerIdsInOrder'
    BY <1>12, <2>1, FinishOrder, FinishType
    DEF FetchAnswered, WaitInv, HandlerIdsInOrder
  <2> QED
    BY <2>2, <2>3, <2>4 DEF WaitInv
<1>13. ASSUME NEW h \in Handlers, OnConnectionClose(h) PROVE WaitInv'
  <2> DEFINE S == {descriptors_by_handler_id[h]} \ {NoQueue}
  <2>1. S \in SUBSET Queues
    BY DEF TypeOK
  <2>2. HandlersMatchDescriptors'
    BY <1>13, <2>1, DisconnectMatches DEF OnConnectionClose, WaitInv
  <2>3. WaitersAreServed'
    BY <1>13, <2>1, FinishServed DEF OnConnectionClose, WaitersAreServed, registry
  <2>4. HandlerIdsInOrder'
    BY <1>13, <2>1, FinishOrder
    DEF OnConnectionClose, TypeOK, WaitInv, HandlerIdsInOrder
  <2> QED
    BY <2>2, <2>3, <2>4 DEF WaitInv
<1>14. ASSUME NEW h \in Handlers, FetchParked(h) PROVE WaitInv'
  <2> DEFINE q == asked[h]
  <2>1. q \in Queues /\ {q} \in SUBSET Queues /\ q \in clients
    BY <1>14 DEF FetchParked, TypeOK
  <2>2. HandlersMatchDescriptors'
    <3>1. descriptors_by_handler_id[h] = NoQueue
      BY <1>14 DEF FetchParked, WaitInv, HandlerIdsInOrder
    <3>2. /\ current_handler_id' = [current_handler_id EXCEPT ![q] = h]
          /\ descriptors_by_handler_id' = [DescriptorsAfterDisconnect({q}) EXCEPT ![h] = q]
      BY <1>14 DEF FetchParked
    <3>3. ASSUME NEW r \in Queues, current_handler_id'[r] # NoHandler
          PROVE  descriptors_by_handler_id'[current_handler_id'[r]] = r
      <4>1. CASE r = q
        BY <2>1, <3>2, <4>1, FinishType DEF TypeOK
      <4>2. CASE r # q
        <5>1. /\ current_handler_id'[r] = current_handler_id[r]
              /\ current_handler_id[r] \in Handlers
              /\ descriptors_by_handler_id[current_handler_id[r]] = r
          BY <2>1, <3>2, <3>3, <4>2 DEF TypeOK, WaitInv, HandlersMatchDescriptors
        <5>2. current_handler_id[r] # h /\ current_handler_id[r] \notin Waiting({q})
          BY <2>1, <3>1, <4>2, <5>1, QueuesAssumption
          DEF WaitInv, HandlersMatchDescriptors, Waiting
        <5> QED
          BY <3>2, <5>1, <5>2, FinishType DEF DescriptorsAfterDisconnect
      <4> QED
        BY <4>1, <4>2
    <3>4. ASSUME NEW g \in Handlers \ {0}, descriptors_by_handler_id'[g] # NoQueue
          PROVE  current_handler_id'[descriptors_by_handler_id'[g]] = g
      <4>1. CASE g = h
        BY <2>1, <3>2, <4>1, FinishType DEF TypeOK
      <4>2. CASE g # h
        <5>1. /\ descriptors_by_handler_id'[g] = descriptors_by_handler_id[g]
              /\ g \notin Waiting({q})
          BY <2>1, <3>2, <3>4, <4>2 DEF DescriptorsAfterDisconnect
        <5>2. /\ descriptors_by_handler_id[g] \in Queues
              /\ current_handler_id[descriptors_by_handler_id[g]] = g
          BY <3>4, <5>1 DEF TypeOK, WaitInv, HandlersMatchDescriptors
        <5>3. descriptors_by_handler_id[g] # q
          BY <5>1, <5>2, NoHandlerIsNone DEF Waiting
        <5> QED
          BY <2>1, <3>2, <5>1, <5>2, <5>3 DEF TypeOK
      <4> QED
        BY <4>1, <4>2
    <3> QED
      BY <3>3, <3>4 DEF HandlersMatchDescriptors
  <2>3. WaitersAreServed'
    BY <1>14, <2>1, NoHandlerIsNone
    DEF FetchParked, TypeOK, WaitInv, WaitersAreServed, registry
  <2>4. HandlerIdsInOrder'
    BY <1>14, <2>1, FinishOrder, FinishType
    DEF FetchParked, WaitInv, HandlerIdsInOrder
  <2> QED
    BY <2>2, <2>3, <2>4 DEF WaitInv
<1>15. ASSUME NEW kept \in SUBSET Queues, NEW restarted \in SUBSET Queues,
              Restart(kept, restarted)
       PROVE  WaitInv'
  BY <1>15 DEF Restart, WaitInv, HandlersMatchDescriptors, WaitersAreServed,
               HandlerIdsInOrder
<1>16. ASSUME UNCHANGED vars PROVE WaitInv'
  BY <1>16 DEF vars, registry, waits, WaitInv, HandlersMatchDescriptors, WaitersAreServed,
               HandlerIdsInOrder
<1> QED
  BY <1>1, <1>2, <1>3, <1>5, <1>6, <1>7, <1>8, <1>9, <1>10, <1>11, <1>12, <1>13, <1>14,
     <1>15, <1>16 DEF Next

(* The two maps by handler id agree, and every queue with a handler is in  *)
(* clients, holds nothing and has its heartbeat timer, in every behaviour  *)
(* of the process.                                                         *)
THEOREM WaitCorrect == Spec => [](HandlersMatchDescriptors /\ WaitersAreServed)
<1>1. Init => WaitInv
  BY NoHandlerIsNone
  DEF Init, WaitInv, HandlersMatchDescriptors, WaitersAreServed, HandlerIdsInOrder
<1> QED
  BY <1>1, TypeCorrect, WaitStep, PTL DEF Spec, WaitInv

(* handlers and their descriptors, which finish_current_handler,           *)
(* disconnect_handler and on_connection_close update one after the other,  *)
(* agree whenever the loop is between two callbacks.                       *)
THEOREM HandlersCorrect == Spec => []HandlersMatchDescriptors
  BY WaitCorrect, PTL

-----------------------------------------------------------------------------
(* Parked requests. *)

(* The descriptor left behind for handler 0 stays, and is not handler 0's  *)
(* again, whichever other handlers are disconnected.                       *)
LEMMA ZeroStaysLeft ==
  ASSUME TypeOK, HandlerZeroLeft, NEW S \in SUBSET Queues,
         current_handler_id' = CurrentAfterDisconnect(S),
         descriptors_by_handler_id' = DescriptorsAfterDisconnect(S)
  PROVE  HandlerZeroLeft'
BY QueuesAssumption, NoHandlerIsNone
DEF TypeOK, HandlerZeroLeft, CurrentAfterDisconnect, DescriptorsAfterDisconnect, NoHandler

(* finish_current_handler strands nobody: a handler it disconnects is not  *)
(* parked any more.                                                        *)
LEMMA FinishStrandsNone ==
  ASSUME TypeOK, NoneStrandedUnlessZeroLeft, NEW S \in SUBSET Queues,
         finish_current_handler(S), handlers' = handlers
  PROVE  NoneStrandedUnlessZeroLeft'
<1>1. CASE HandlerZeroLeft
  BY <1>1, ZeroStaysLeft DEF NoneStrandedUnlessZeroLeft, finish_current_handler
<1>2. CASE ~HandlerZeroLeft
  <2>1. ASSUME NEW h \in Handlers, stage'[h] = "parked", h \in handlers
        PROVE  \E q \in Queues : current_handler_id'[q] = h
    <3>1. h \notin Waiting(S) /\ stage[h] = "parked"
      BY <2>1 DEF finish_current_handler, StageAfterFinish
    <3>2. PICK q \in Queues : current_handler_id[q] = h
      BY <1>2, <2>1, <3>1 DEF NoneStrandedUnlessZeroLeft, Stranded
    <3>3. q \notin S
      BY <3>1, <3>2, NoHandlerIsNone DEF Waiting
    <3> QED
      BY <3>2, <3>3 DEF finish_current_handler, CurrentAfterDisconnect
  <2> QED
    BY <2>1 DEF NoneStrandedUnlessZeroLeft, Stranded
<1> QED
  BY <1>1, <1>2

(* Every action leaves each parked request with a client attached to its   *)
(* queue, unless the descriptor of handler 0 has been left behind.         *)
LEMMA StrandStep ==
  TypeOK /\ WaitInv /\ NoneStrandedUnlessZeroLeft /\ [Next]_vars
    => NoneStrandedUnlessZeroLeft'
<1> SUFFICES ASSUME TypeOK, WaitInv, NoneStrandedUnlessZeroLeft, [Next]_vars
             PROVE  NoneStrandedUnlessZeroLeft'
  OBVIOUS
<1> USE DEF NoneStrandedUnlessZeroLeft
<1>1. ASSUME UNCHANGED <<waits, handlers, stage>> PROVE NoneStrandedUnlessZeroLeft'
  BY <1>1 DEF waits, Stranded, HandlerZeroLeft
<1>2. ASSUME NEW q \in Queues, Register(q) \/ DeleteArrives(q)
      PROVE  NoneStrandedUnlessZeroLeft'
  BY <1>1, <1>2 DEF Register, DeleteArrives
<1>3. ASSUME NEW q \in Queues, GetArrives(q) PROVE NoneStrandedUnlessZeroLeft'
  <2>1. next_handler_id \in Handlers
    BY <1>3, HandlersAssumption DEF GetArrives, AllocateHandlerId, Handlers, TypeOK
  <2> QED
    BY <1>3, <2>1 DEF GetArrives, waits, TypeOK, Stranded, HandlerZeroLeft
<1>4. ASSUME NEW q \in Queues, Heartbeat(q) \/ Cleanup(q) \/ CleanupFails(q)
      PROVE  NoneStrandedUnlessZeroLeft'
  <2>1. finish_current_handler({q}) /\ handlers' = handlers
    BY <1>4 DEF Heartbeat, add_event, Cleanup, CleanupFails
  <2> QED
    BY <2>1, FinishStrandsNone
<1>5. ASSUME NEW u \in Users, NEW S \in SUBSET Queues,
             ProcessEvent(u, S) \/ ProcessMessageEvent(u, S)
      PROVE  NoneStrandedUnlessZeroLeft'
  <2>1. finish_current_handler(S) /\ handlers' = handlers
    BY <1>5 DEF ProcessEvent, ProcessMessageEvent, add_event
  <2> QED
    BY <2>1, FinishStrandsNone
<1>6. ASSUME NEW S \in SUBSET Queues, SendWebReloadClientEvents(S)
      PROVE  NoneStrandedUnlessZeroLeft'
  <2>1. finish_current_handler(S) /\ handlers' = handlers
    BY <1>6 DEF SendWebReloadClientEvents, add_event
  <2> QED
    BY <2>1, FinishStrandsNone
<1>7. ASSUME NEW S \in SUBSET Queues, GcEventQueues(S) \/ GcEventQueuesFails(S)
      PROVE  NoneStrandedUnlessZeroLeft'
  BY <1>1, <1>7 DEF GcEventQueues, GcEventQueuesFails
<1>8. ASSUME NEW h \in Handlers, FetchRefused(h) PROVE NoneStrandedUnlessZeroLeft'
  BY <1>8 DEF FetchRefused, waits, TypeOK, Stranded, HandlerZeroLeft
<1>9. ASSUME NEW h \in Handlers, OnFinish(h) PROVE NoneStrandedUnlessZeroLeft'
  BY <1>9 DEF OnFinish, waits, TypeOK, Stranded, HandlerZeroLeft
<1>10. ASSUME NEW h \in Handlers, FetchAnswered(h) PROVE NoneStrandedUnlessZeroLeft'
  <2> DEFINE q == asked[h]
  <2>1. {q} \in SUBSET Queues
    BY <1>10 DEF FetchAnswered, TypeOK
  <2>2. CASE HandlerZeroLeft
    BY <1>10, <2>1, <2>2, ZeroStaysLeft DEF FetchAnswered
  <2>3. CASE ~HandlerZeroLeft
    <3>1. ASSUME NEW g \in Handlers, stage'[g] = "parked", g \in handlers
          PROVE  \E r \in Queues : current_handler_id'[r] = g
      <4>1. g \notin Waiting({q}) /\ stage[g] = "parked"
        BY <1>10, <3>1 DEF FetchAnswered, StageAfterFinish
      <4>2. PICK r \in Queues : current_handler_id[r] = g
        BY <2>3, <3>1, <4>1 DEF Stranded
      <4>3. r # q
        BY <4>1, <4>2, NoHandlerIsNone DEF Waiting
      <4> QED
        BY <1>10, <4>2, <4>3 DEF FetchAnswered, CurrentAfterDisconnect
    <3> QED
      BY <1>10, <3>1 DEF FetchAnswered, Stranded
  <2> QED
    BY <2>2, <2>3
<1>11. ASSUME NEW h \in Handlers, FetchParked(h) PROVE NoneStrandedUnlessZeroLeft'
  <2> DEFINE q == asked[h]
  <2>1. q \in Queues /\ stage[h] = "queued"
    BY <1>11 DEF FetchParked, TypeOK
  <2>2. CASE HandlerZeroLeft
    <3>1. h # 0
      BY <2>1, <2>2 DEF WaitInv, HandlerIdsInOrder, HandlerZeroLeft
    <3>2. descriptors_by_handler_id'[0] = descriptors_by_handler_id[0]
      BY <1>11, <3>1, NoHandlerIsNone DEF FetchParked, DescriptorsAfterDisconnect
    <3>3. descriptors_by_handler_id[0] \in Queues
      BY <2>2, NoHandlerIsNone DEF TypeOK, HandlerZeroLeft
    <3>4. current_handler_id'[descriptors_by_handler_id[0]] # 0
      BY <1>11, <2>1, <2>2, <3>1, <3>3 DEF FetchParked, TypeOK, HandlerZeroLeft
    <3> QED
      BY <2>2, <3>2, <3>4 DEF HandlerZeroLeft
  <2>3. CASE ~HandlerZeroLeft
    <3>1. ASSUME NEW g \in Handlers, stage'[g] = "parked", g \in handlers
          PROVE  \E r \in Queues : current_handler_id'[r] = g
      <4>1. CASE g = h
        BY <1>11, <2>1, <4>1 DEF FetchParked, TypeOK
      <4>2. CASE g # h
        <5>1. g \notin Waiting({q}) /\ stage[g] = "parked"
          BY <1>11, <3>1, <4>2 DEF FetchParked, StageAfterFinish
        <5>2. PICK r \in Queues : current_handler_id[r] = g
          BY <2>3, <3>1, <5>1 DEF Stranded
        <5>3. r # q
          BY <5>1, <5>2, NoHandlerIsNone DEF Waiting
        <5> QED
          BY <1>11, <5>2, <5>3 DEF FetchParked, TypeOK
      <4> QED
        BY <4>1, <4>2
    <3> QED
      BY <1>11, <3>1 DEF FetchParked, Stranded
  <2> QED
    BY <2>2, <2>3
<1>12. ASSUME NEW h \in Handlers, OnConnectionClose(h) PROVE NoneStrandedUnlessZeroLeft'
  <2> DEFINE S == {descriptors_by_handler_id[h]} \ {NoQueue}
  <2>1. S \in SUBSET Queues
    BY DEF TypeOK
  <2>2. CASE HandlerZeroLeft
    BY <1>12, <2>1, <2>2, ZeroStaysLeft DEF OnConnectionClose
  <2>3. CASE ~HandlerZeroLeft
    <3>1. Waiting(S) \subseteq {h}
      BY <2>1, <2>3 DEF Waiting, TypeOK, WaitInv, HandlersMatchDescriptors, HandlerZeroLeft
    <3>2. ASSUME NEW g \in Handlers, stage'[g] = "parked", g \in handlers'
          PROVE  \E r \in Queues : current_handler_id'[r] = g
      <4>1. g # h /\ g \in handlers /\ stage[g] = "parked"
        BY <1>12, <3>2 DEF OnConnectionClose, TypeOK
      <4>2. PICK r \in Queues : current_handler_id[r] = g
        BY <2>3, <4>1 DEF Stranded
      <4>3. r \notin S
        BY <3>1, <4>1, <4>2, NoHandlerIsNone DEF Waiting
      <4> QED
        BY <1>12, <4>2, <4>3 DEF OnConnectionClose, CurrentAfterDisconnect
    <3> QED
      BY <3>2 DEF Stranded
  <2> QED
    BY <2>2, <2>3
<1>13. ASSUME NEW kept \in SUBSET Queues, NEW restarted \in SUBSET Queues,
              Restart(kept, restarted)
       PROVE  NoneStrandedUnlessZeroLeft'
  BY <1>13 DEF Restart, Stranded
<1> QED
  BY <1>1, <1>2, <1>3, <1>4, <1>5, <1>6, <1>7, <1>8, <1>9, <1>10, <1>11, <1>12, <1>13
  DEF Next, vars

(* A parked request whose client is there is attached to its queue, unless *)
(* the descriptor of handler 0 was left behind.                            *)
THEOREM NoneStrandedCorrect == Spec => []NoneStrandedUnlessZeroLeft
<1>1. Init => WaitInv /\ NoneStrandedUnlessZeroLeft
  BY NoHandlerIsNone
  DEF Init, WaitInv, HandlersMatchDescriptors, WaitersAreServed, HandlerIdsInOrder,
      NoneStrandedUnlessZeroLeft, Stranded
<1> QED
  BY <1>1, TypeCorrect, WaitStep, StrandStep, PTL DEF Spec

=============================================================================
