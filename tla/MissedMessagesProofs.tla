------------------------ MODULE MissedMessagesProofs ------------------------
(***************************************************************************)
(* Proofs about MissedMessages, for any queues, messages and number of     *)
(* mentions.                                                               *)
(***************************************************************************)
EXTENDS MissedMessages, FiniteSetTheorems, TLAPS

(* Publishing keeps the type of the counters. *)
LEMMA PublishType ==
  ASSUME TypeOK, NEW m \in Messages, NEW media, Publish(m, media)
  PROVE  notices' \in [Messages -> [Media -> Nat]]
BY DEF TypeOK, Publish

(* The hook publishes a whole number of notices for each message. *)
LEMMA HookType ==
  ASSUME TypeOK, NEW to_remove \in SUBSET Queues, do_gc_event_queues(to_remove)
  PROVE  notices' \in [Messages -> [Media -> Nat]]
<1> DEFINE last == user_clients \subseteq to_remove
           By(m, medium) == {q \in to_remove : medium \in missedmessage_hook(q, m, last)}
<1>1. ASSUME NEW m \in Messages, NEW medium \in Media
      PROVE  Cardinality(By(m, medium)) \in Nat
  <2>1. IsFiniteSet(By(m, medium))
    BY QueuesAssumption, FS_Subset
  <2> QED
    BY <2>1, FS_CardinalityType
<1> HIDE DEF By
<1>2. notices' = [m \in Messages |->
                    [medium \in Media |-> notices[m][medium] + Cardinality(By(m, medium))]]
  BY DEF do_gc_event_queues, By
<1> QED
  BY <1>1, <1>2 DEF TypeOK

(* do_gc_event_queues keeps the types. *)
LEMMA GcType ==
  ASSUME TypeOK, NEW to_remove \in SUBSET Queues, do_gc_event_queues(to_remove)
  PROVE  TypeOK'
<1>1. notices' \in [Messages -> [Media -> Nat]]
  BY HookType
<1>2. overlooked' \subseteq sent
  BY DEF TypeOK, do_gc_event_queues, HeldBy
<1>3. held' \in [Queues -> SUBSET EventTypes]
  BY DEF TypeOK, do_gc_event_queues
<1>4. ASSUME NEW q \in Queues, held'[q] # {}
      PROVE  q \in user_clients' /\ accepts_messages(q) /\ HeldBy(q)' \subseteq sent'
  <2>1. q \notin to_remove /\ held'[q] = held[q] /\ sent' = sent
    BY <1>4 DEF do_gc_event_queues, about
  <2>2. user_clients' = user_clients \ to_remove
    BY DEF do_gc_event_queues
  <2> QED
    BY <1>4, <2>1, <2>2 DEF TypeOK, HeldBy
<1>5. UNCHANGED <<fresh, about, seen, lost>> /\ user_clients' = user_clients \ to_remove
  BY DEF do_gc_event_queues
<1>6. together' \subseteq sent'
  BY <1>5 DEF do_gc_event_queues, InSeveral, TypeOK, about
<1> QED
  BY <1>1, <1>2, <1>3, <1>4, <1>5, <1>6 DEF TypeOK, about

(* A message that has not been sent has never been notifiable. *)
UnsentIsNew == \A m \in Messages \ sent : mentions[m] = 0

(* Every action keeps the types; sending a message makes it notifiable for *)
(* the first time.                                                         *)
LEMMA TypeStep == TypeOK /\ UnsentIsNew /\ [Next]_vars => TypeOK'
<1> SUFFICES ASSUME TypeOK, UnsentIsNew, [Next]_vars PROVE TypeOK'
  OBVIOUS
<1>1. ASSUME NEW q \in Queues, Register(q) PROVE TypeOK'
  BY <1>1 DEF Register, TypeOK, about, HeldBy
<1>2. ASSUME NEW q \in Queues, FetchEvents(q) PROVE TypeOK'
  BY <1>2 DEF FetchEvents, TypeOK, about, HeldBy
<1>3. ASSUME NEW q \in Queues, Cleanup(q) PROVE TypeOK'
  <2>1. do_gc_event_queues({q})
    BY <1>3 DEF Cleanup
  <2> QED
    BY <2>1, GcType
<1>4. ASSUME NEW to_remove \in SUBSET Queues, GcEventQueues(to_remove) PROVE TypeOK'
  BY <1>4, GcType DEF GcEventQueues
<1>5. ASSUME NEW m \in Messages, NEW wanted \in SUBSET Media,
             NEW presence_idle \in BOOLEAN, NEW online_push_enabled \in BOOLEAN,
             ProcessMessageEvent(m, wanted, presence_idle, online_push_enabled)
      PROVE  TypeOK'
  <2> DEFINE idle == receiver_is_off_zulip \/ presence_idle
             notified == maybe_enqueue_notifications(wanted, idle, online_push_enabled, {})
             event == [message |-> m, wanted |-> wanted, notified |-> notified]
  <2>1. event \in EventTypes
    BY DEF EventTypes, maybe_enqueue_notifications
  <2> HIDE DEF event, notified
  <2>2. m \notin sent /\ Publish(m, notified) /\ Becomes(m, wanted)
    BY <1>5 DEF ProcessMessageEvent, notified
  <2>3. notices' \in [Messages -> [Media -> Nat]]
    BY <2>2, PublishType
  <2>4. PICK matching \in SUBSET {q \in user_clients : Listening[q] = "narrow"} :
          held' = [q \in Queues |->
             IF q \in user_clients /\ (Listening[q] = "all" \/ q \in matching)
             THEN held[q] \cup {event} ELSE held[q]]
    BY <1>5 DEF ProcessMessageEvent, event, notified
  <2>5. held' \in [Queues -> SUBSET EventTypes]
    BY <2>1, <2>4 DEF TypeOK
  <2>6. sent' = sent \cup {m} /\ UNCHANGED <<fresh, user_clients, edited, seen, lost, together>>
    BY <1>5 DEF ProcessMessageEvent
  <2>7. ASSUME NEW q \in Queues, held'[q] # {}
        PROVE  q \in user_clients' /\ accepts_messages(q) /\ HeldBy(q)' \subseteq sent'
    BY <2>4, <2>6, <2>7 DEF TypeOK, HeldBy, accepts_messages, event
  <2>8. notifiable' \in [Messages -> SUBSET Media] /\ mentions' \in [Messages -> 0..MaxMentions]
    BY <2>2, QueuesAssumption DEF Becomes, TypeOK, UnsentIsNew
  <2>9. overlooked' \subseteq sent'
    BY <1>5, <2>6 DEF ProcessMessageEvent, TypeOK
  <2> QED
    BY <2>3, <2>5, <2>6, <2>7, <2>8, <2>9 DEF TypeOK
<1>6. ASSUME NEW m \in Messages, NEW wanted \in SUBSET Media,
             NEW presence_idle \in BOOLEAN, NEW online_push_enabled \in BOOLEAN,
             ProcessMessageUpdateEvent(m, wanted, presence_idle, online_push_enabled)
      PROVE  TypeOK'
  <2>1. notices' \in [Messages -> [Media -> Nat]]
    BY <1>6, PublishType DEF ProcessMessageUpdateEvent
  <2>2. /\ m \in sent /\ Becomes(m, wanted) /\ (wanted # {} => mentions[m] < MaxMentions)
        /\ edited' = IF wanted # {} THEN edited \cup {m} ELSE edited
        /\ UNCHANGED <<fresh, user_clients, held, sent, seen, lost, overlooked, together>>
    BY <1>6 DEF ProcessMessageUpdateEvent
  <2>3. notifiable' \in [Messages -> SUBSET Media] /\ mentions' \in [Messages -> 0..MaxMentions]
    BY <2>2, QueuesAssumption DEF Becomes, TypeOK
  <2>4. \A q \in Queues : HeldBy(q)' = HeldBy(q)
    BY <2>2 DEF HeldBy
  <2> QED
    BY <2>1, <2>2, <2>3, <2>4 DEF TypeOK
<1>7. CASE Crash
  BY <1>7 DEF Crash, TypeOK, about, HeldBy
<1>8. CASE UNCHANGED vars
  BY <1>8 DEF vars, about, TypeOK, HeldBy
<1> QED
  BY <1>1, <1>2, <1>3, <1>4, <1>5, <1>6, <1>7, <1>8 DEF Next

(* Only sending a message, and editing one that is sent, makes it          *)
(* notifiable.                                                             *)
LEMMA UnsentStep == TypeOK /\ UnsentIsNew /\ [Next]_vars => UnsentIsNew'
<1> SUFFICES ASSUME TypeOK, UnsentIsNew, [Next]_vars PROVE UnsentIsNew'
  OBVIOUS
<1>1. ASSUME NEW m \in Messages, NEW wanted \in SUBSET Media,
             NEW presence_idle \in BOOLEAN, NEW online_push_enabled \in BOOLEAN,
             ProcessMessageEvent(m, wanted, presence_idle, online_push_enabled)
      PROVE  UnsentIsNew'
  BY <1>1 DEF ProcessMessageEvent, Becomes, TypeOK, UnsentIsNew
<1>2. ASSUME NEW m \in Messages, NEW wanted \in SUBSET Media,
             NEW presence_idle \in BOOLEAN, NEW online_push_enabled \in BOOLEAN,
             ProcessMessageUpdateEvent(m, wanted, presence_idle, online_push_enabled)
      PROVE  UnsentIsNew'
  BY <1>2 DEF ProcessMessageUpdateEvent, Becomes, TypeOK, UnsentIsNew
<1>3. CASE UNCHANGED about
  BY <1>3 DEF about, UnsentIsNew
<1> QED
  BY <1>1, <1>2, <1>3
  DEF Next, vars, Register, FetchEvents, Cleanup, GcEventQueues, do_gc_event_queues, Crash

(* The state keeps its shape: only queues of the user that receive         *)
(* messages hold any, and only messages that have been sent.               *)
THEOREM TypeCorrect == Spec => []TypeOK
<1>1. Init => TypeOK /\ UnsentIsNew
  BY QueuesAssumption DEF Init, TypeOK, UnsentIsNew, HeldBy
<1>2. TypeOK /\ UnsentIsNew /\ [Next]_vars => (TypeOK /\ UnsentIsNew)'
  BY TypeStep, UnsentStep
<1> QED
  BY <1>1, <1>2, PTL DEF Spec

-----------------------------------------------------------------------------

(* A medium that an event still asks for has been used less often than the *)
(* message has become notifiable.                                          *)
Pending ==
  \A q \in Queues : \A e \in held[q] : \A medium \in e.wanted \ e.notified :
    e.message \notin together => notices[e.message][medium] < mentions[e.message]

OnceInv == TypeOK /\ UnsentIsNew /\ NotifiedAtMostOnce /\ Pending

(* Queues are removed: the hook publishes what their events still ask for, *)
(* once if no two of the queues hold the message, and only if no other     *)
(* queue is left to hold it.                                               *)
LEMMA GcOnce ==
  ASSUME OnceInv, NEW to_remove \in SUBSET Queues, to_remove \subseteq user_clients,
         do_gc_event_queues(to_remove)
  PROVE  (NotifiedAtMostOnce /\ Pending)'
<1> DEFINE last == user_clients \subseteq to_remove
           By(m, medium) == {q \in to_remove : medium \in missedmessage_hook(q, m, last)}
<1>1. ASSUME NEW m \in Messages, NEW medium \in Media, NEW q \in By(m, medium)
      PROVE  /\ last
             /\ m \in HeldBy(q)
             /\ m \notin together => notices[m][medium] < mentions[m]
  <2>1. PICK e \in held[q] :
          /\ last /\ e.message = m
          /\ medium \in maybe_enqueue_notifications(e.wanted, TRUE, FALSE, e.notified)
    BY <1>1 DEF missedmessage_hook
  <2>2. medium \in e.wanted \ e.notified
    BY <2>1 DEF maybe_enqueue_notifications, IsNotifiable
  <2>3. m \notin together => notices[m][medium] < mentions[m]
    BY <2>1, <2>2 DEF OnceInv, Pending
  <2> QED
    BY <2>1, <2>3 DEF HeldBy
<1> HIDE DEF By
<1>2. /\ notices' = [m \in Messages |->
                       [medium \in Media |-> notices[m][medium] + Cardinality(By(m, medium))]]
      /\ held' = [q \in Queues |-> IF q \in to_remove THEN {} ELSE held[q]]
      /\ together' = IF last THEN together \cup InSeveral(to_remove) ELSE together
      /\ UNCHANGED about
  BY DEF do_gc_event_queues, By
<1>3. ASSUME NEW m \in Messages, m \notin together', NEW medium \in Media
      PROVE  \/ Cardinality(By(m, medium)) = 0
             \/ /\ Cardinality(By(m, medium)) = 1
                /\ last
                /\ notices[m][medium] < mentions[m]
  <2>1. CASE By(m, medium) = {}
    BY <2>1, FS_EmptySet
  <2>2. CASE By(m, medium) # {}
    <3>1. PICK q \in to_remove : q \in By(m, medium)
      BY <2>2 DEF By
    <3>2. last /\ m \in HeldBy(q) /\ m \notin together
      BY <1>1, <1>2, <1>3, <3>1
    <3>3. m \in sent /\ m \notin InSeveral(to_remove)
      BY <1>2, <1>3, <3>2 DEF OnceInv, TypeOK, HeldBy
    <3>4. ASSUME NEW r \in By(m, medium) PROVE r = q
      <4>1. r \in to_remove
        BY DEF By
      <4>2. m \in HeldBy(r)
        BY <1>1
      <4> QED
        BY <3>1, <3>2, <3>3, <4>1, <4>2 DEF InSeveral
    <3>5. By(m, medium) = {q}
      BY <3>1, <3>4
    <3> QED
      BY <1>1, <3>1, <3>2, <3>5, FS_Singleton
  <2> QED
    BY <2>1, <2>2
<1>4. NotifiedAtMostOnce'
  <2> SUFFICES ASSUME NEW m \in Messages \ together', NEW medium \in Media
               PROVE  notices'[m][medium] <= mentions'[m]
    BY DEF NotifiedAtMostOnce
  <2>1. m \notin together
    BY <1>2
  <2>2. notices[m][medium] \in Nat /\ mentions[m] \in Nat /\ notices[m][medium] <= mentions[m]
    BY <2>1 DEF OnceInv, TypeOK, NotifiedAtMostOnce
  <2>3. notices'[m][medium] = notices[m][medium] + Cardinality(By(m, medium))
    BY <1>2
  <2>4. mentions'[m] = mentions[m]
    BY <1>2 DEF about
  <2> QED
    BY <1>3, <2>2, <2>3, <2>4
<1>5. Pending'
  <2> SUFFICES ASSUME NEW q \in Queues, NEW e \in held'[q], NEW medium \in e.wanted \ e.notified,
                      e.message \notin together'
               PROVE  notices'[e.message][medium] < mentions'[e.message]
    BY DEF Pending
  <2>1. q \notin to_remove /\ e \in held[q] /\ e.message \notin together
    BY <1>2
  <2>2. q \in user_clients /\ e.message \in Messages /\ medium \in Media
    BY <2>1 DEF OnceInv, TypeOK, EventTypes
  <2>3. ~ last
    BY <2>1, <2>2
  <2>4. notices[e.message][medium] < mentions[e.message]
    BY <2>1 DEF OnceInv, Pending
  <2>5. notices[e.message][medium] \in Nat
    BY <2>2 DEF OnceInv, TypeOK
  <2>6. notices'[e.message][medium] = notices[e.message][medium] + Cardinality(By(e.message, medium))
    BY <1>2, <2>2
  <2>7. Cardinality(By(e.message, medium)) = 0
    BY <1>3, <2>2, <2>3
  <2> QED
    BY <1>2, <2>4, <2>5, <2>6, <2>7 DEF about
<1> QED
  BY <1>4, <1>5

(* A message is sent: it is new, so it has been notified through the media *)
(* the event records and through no other.                                 *)
LEMMA SendOnce ==
  ASSUME OnceInv, NEW m \in Messages, NEW wanted \in SUBSET Media,
         NEW presence_idle \in BOOLEAN, NEW online_push_enabled \in BOOLEAN,
         ProcessMessageEvent(m, wanted, presence_idle, online_push_enabled)
  PROVE  (NotifiedAtMostOnce /\ Pending)'
<1> DEFINE idle == receiver_is_off_zulip \/ presence_idle
           notified == maybe_enqueue_notifications(wanted, idle, online_push_enabled, {})
           event == [message |-> m, wanted |-> wanted, notified |-> notified]
<1>1. notified \subseteq wanted
  BY DEF maybe_enqueue_notifications, IsNotifiable
<1> HIDE DEF notified
<1>2. m \notin sent /\ Publish(m, notified) /\ Becomes(m, wanted) /\ together' = together
  BY DEF ProcessMessageEvent, notified
<1>3. mentions[m] = 0 /\ \A medium \in Media : notices[m][medium] = 0
  BY <1>2 DEF OnceInv, TypeOK, UnsentIsNew, NotifiedAtMostOnce
<1>4. /\ mentions' = [mentions EXCEPT ![m] = IF wanted # {} THEN 1 ELSE 0]
      /\ mentions \in [Messages -> Nat]
      /\ notices \in [Messages -> [Media -> Nat]]
  BY <1>2, <1>3, QueuesAssumption DEF OnceInv, TypeOK, Becomes
<1>5. /\ \A medium \in Media : notices'[m][medium] = IF medium \in notified THEN 1 ELSE 0
      /\ \A n \in Messages \ {m} : notices'[n] = notices[n] /\ mentions'[n] = mentions[n]
      /\ mentions'[m] = IF wanted # {} THEN 1 ELSE 0
  BY <1>2, <1>3, <1>4 DEF Publish
<1>6. NotifiedAtMostOnce'
  BY <1>1, <1>2, <1>4, <1>5 DEF OnceInv, NotifiedAtMostOnce
<1>7. Pending'
  <2> SUFFICES ASSUME NEW q \in Queues, NEW e \in held'[q], NEW medium \in e.wanted \ e.notified,
                      e.message \notin together'
               PROVE  notices'[e.message][medium] < mentions'[e.message]
    BY DEF Pending
  <2>1. e = event \/ e \in held[q]
    BY DEF ProcessMessageEvent, event, notified
  <2>2. CASE e = event
    <3>1. e.message = m /\ medium \in wanted /\ medium \notin notified
      BY <2>2
    <3> QED
      BY <3>1, <1>5
  <2>3. CASE e \in held[q]
    <3>1. e.message \in sent /\ medium \in Media
      BY <2>3 DEF OnceInv, TypeOK, HeldBy, EventTypes
    <3>2. e.message \in Messages \ {m}
      BY <1>2, <3>1 DEF OnceInv, TypeOK
    <3> QED
      BY <1>2, <1>5, <2>3, <3>2 DEF OnceInv, Pending
  <2> QED
    BY <2>1, <2>2, <2>3
<1> QED
  BY <1>6, <1>7

(* A message is edited: it is notified again only when it was not          *)
(* notifiable and becomes so.                                              *)
LEMMA EditOnce ==
  ASSUME OnceInv, NEW m \in Messages, NEW wanted \in SUBSET Media,
         NEW presence_idle \in BOOLEAN, NEW online_push_enabled \in BOOLEAN,
         ProcessMessageUpdateEvent(m, wanted, presence_idle, online_push_enabled)
  PROVE  (NotifiedAtMostOnce /\ Pending)'
<1> DEFINE media == maybe_enqueue_notifications_for_message_update(
                      notifiable[m], wanted, presence_idle, online_push_enabled)
<1>1. wanted = {} => media = {}
  BY DEF ProcessMessageUpdateEvent, maybe_enqueue_notifications_for_message_update
<1> HIDE DEF media
<1>2. Publish(m, media) /\ Becomes(m, wanted) /\ UNCHANGED <<held, together>>
  BY DEF ProcessMessageUpdateEvent, media
<1>3. mentions \in [Messages -> Nat] /\ notices \in [Messages -> [Media -> Nat]]
  BY QueuesAssumption DEF OnceInv, TypeOK
<1>4. ASSUME NEW n \in Messages, NEW medium \in Media
      PROVE  notices'[n][medium] - notices[n][medium] <= mentions'[n] - mentions[n]
  <2>1. CASE n = m
    BY <1>1, <1>2, <1>3, <2>1 DEF Publish, Becomes
  <2>2. CASE n # m
    BY <1>2, <1>3, <2>2 DEF Publish, Becomes
  <2> QED
    BY <2>1, <2>2
<1>5. ASSUME NEW n \in Messages, NEW medium \in Media
      PROVE  /\ notices[n][medium] \in Nat /\ notices'[n][medium] \in Int
             /\ mentions[n] \in Nat /\ mentions'[n] \in Int
  BY <1>2, <1>3 DEF Publish, Becomes
<1>6. NotifiedAtMostOnce'
  BY <1>2, <1>4, <1>5 DEF OnceInv, NotifiedAtMostOnce
<1>7. Pending'
  <2> SUFFICES ASSUME NEW q \in Queues, NEW e \in held[q], NEW medium \in e.wanted \ e.notified,
                      e.message \notin together
               PROVE  notices'[e.message][medium] < mentions'[e.message]
    BY <1>2 DEF Pending
  <2>1. e.message \in Messages /\ medium \in Media
    BY DEF OnceInv, TypeOK, EventTypes
  <2>2. notices[e.message][medium] < mentions[e.message]
    BY DEF OnceInv, Pending
  <2> QED
    BY <1>4, <1>5, <2>1, <2>2
<1> QED
  BY <1>6, <1>7

(* The user is notified through each medium at most once each time a       *)
(* message becomes notifiable, but for messages in several queues that one *)
(* pass of gc_event_queues removes together.                               *)
THEOREM AtMostOnceCorrect == Spec => []NotifiedAtMostOnce
<1>1. Init => OnceInv
  BY QueuesAssumption
  DEF Init, OnceInv, TypeOK, UnsentIsNew, HeldBy, NotifiedAtMostOnce, Pending
<1>2. OnceInv /\ [Next]_vars => OnceInv'
  <2> SUFFICES ASSUME OnceInv, [Next]_vars PROVE OnceInv'
    OBVIOUS
  <2>1. TypeOK' /\ UnsentIsNew'
    BY TypeStep, UnsentStep DEF OnceInv
  <2>2. ASSUME NEW q \in Queues, Register(q) PROVE (NotifiedAtMostOnce /\ Pending)'
    BY <2>2 DEF Register, about, OnceInv, NotifiedAtMostOnce, Pending
  <2>3. ASSUME NEW q \in Queues, FetchEvents(q) PROVE (NotifiedAtMostOnce /\ Pending)'
    BY <2>3 DEF FetchEvents, about, OnceInv, TypeOK, NotifiedAtMostOnce, Pending
  <2>4. ASSUME NEW q \in Queues, Cleanup(q) PROVE (NotifiedAtMostOnce /\ Pending)'
    <3>1. {q} \in SUBSET Queues /\ {q} \subseteq user_clients /\ do_gc_event_queues({q})
      BY <2>4 DEF Cleanup
    <3> QED
      BY <3>1, GcOnce
  <2>5. ASSUME NEW to_remove \in SUBSET Queues, GcEventQueues(to_remove)
        PROVE  (NotifiedAtMostOnce /\ Pending)'
    BY <2>5, GcOnce DEF GcEventQueues
  <2>6. ASSUME NEW m \in Messages, NEW wanted \in SUBSET Media,
               NEW presence_idle \in BOOLEAN, NEW online_push_enabled \in BOOLEAN,
               \/ ProcessMessageEvent(m, wanted, presence_idle, online_push_enabled)
               \/ ProcessMessageUpdateEvent(m, wanted, presence_idle, online_push_enabled)
        PROVE  (NotifiedAtMostOnce /\ Pending)'
    BY <2>6, SendOnce, EditOnce
  <2>7. ASSUME Crash PROVE (NotifiedAtMostOnce /\ Pending)'
    <3>1. UNCHANGED <<about, together, notices>> /\ \A q \in Queues : held'[q] = {}
      BY <2>7 DEF Crash
    <3>2. NotifiedAtMostOnce'
      BY <3>1 DEF about, OnceInv, NotifiedAtMostOnce
    <3>3. Pending'
      BY <3>1 DEF Pending
    <3> QED
      BY <3>2, <3>3
  <2>8. ASSUME UNCHANGED vars PROVE (NotifiedAtMostOnce /\ Pending)'
    <3>1. UNCHANGED <<mentions, notices, held, together>>
      BY <2>8 DEF vars, about
    <3>2. NotifiedAtMostOnce'
      BY <3>1 DEF OnceInv, NotifiedAtMostOnce
    <3>3. Pending'
      BY <3>1 DEF OnceInv, Pending
    <3> QED
      BY <3>2, <3>3
  <2>9. (NotifiedAtMostOnce /\ Pending)'
    BY <2>2, <2>3, <2>4, <2>5, <2>6, <2>7, <2>8 DEF Next
  <2> QED
    BY <2>1, <2>9 DEF OnceInv
<1>3. OnceInv => NotifiedAtMostOnce
  BY DEF OnceInv
<1> QED
  BY <1>1, <1>2, <1>3, PTL DEF Spec
-----------------------------------------------------------------------------

(* The messages the hook answers for: those that no client has received,   *)
(* that no crash has lost, and that are not among the two kinds            *)
(* MissedIsNotified excepts.                                               *)
Owed(m) == m \in Messages \ (edited \cup overlooked) /\ Missed(m)

Settled(m) == \A medium \in notifiable[m] : notices[m][medium] > 0

(* Every queue that receives all messages holds those the hook answers     *)
(* for.                                                                    *)
Kept ==
  \A m \in Messages : Owed(m) =>
    \A q \in user_clients : Listening[q] = "all" => m \in HeldBy(q)

(* The event of such a message asks for all media the message is to be     *)
(* notified through, and records only media that have been used.           *)
Truthful ==
  \A q \in Queues : \A e \in held[q] : Owed(e.message) =>
    /\ notifiable[e.message] \subseteq e.wanted
    /\ \A medium \in e.notified : notices[e.message][medium] > 0

(* When no queue receives all messages, they have all been notified.       *)
Accounted ==
  (\A q \in user_clients : Listening[q] # "all") =>
    \A m \in Messages : Owed(m) => Settled(m)

HookInv == TypeOK /\ UnsentIsNew /\ Kept /\ Truthful /\ Accounted

(* A queue is registered: one that receives all messages fetches those     *)
(* sent so far, so that none of them is owed; another changes nothing.     *)
LEMMA RegisterHook ==
  ASSUME HookInv, NEW q \in Queues, Register(q)
  PROVE  (Kept /\ Truthful /\ Accounted)'
<1>1. /\ UNCHANGED <<held, about, lost, overlooked, notices>>
      /\ user_clients' = user_clients \cup {q}
      /\ seen' = IF Listening[q] = "all" THEN sent ELSE seen
  BY DEF Register
<1>2. UNCHANGED <<sent, notifiable, edited>>
  BY <1>1 DEF about
<1>3. CASE Listening[q] = "all"
  <2>1. \A m : ~ Owed(m)'
    BY <1>1, <1>2, <1>3 DEF Owed, Missed
  <2> QED
    BY <2>1 DEF Kept, Truthful, Accounted
<1>4. CASE Listening[q] # "all"
  <2>1. \A m : Owed(m)' <=> Owed(m)
    BY <1>1, <1>2, <1>4 DEF Owed, Missed
  <2>2. \A r : HeldBy(r)' = HeldBy(r)
    BY <1>1 DEF HeldBy
  <2>3. Kept'
    BY <1>1, <1>4, <2>1, <2>2 DEF HookInv, Kept
  <2>4. Truthful'
    BY <1>1, <1>2, <2>1 DEF HookInv, Truthful
  <2>5. Accounted'
    BY <1>1, <1>2, <1>4, <2>1 DEF HookInv, Accounted, Settled
  <2> QED
    BY <2>3, <2>4, <2>5
<1> QED
  BY <1>3, <1>4

(* A client fetches what its queue holds, which is then received.          *)
LEMMA FetchHook ==
  ASSUME HookInv, NEW q \in Queues, FetchEvents(q)
  PROVE  (Kept /\ Truthful /\ Accounted)'
<1>1. /\ UNCHANGED <<user_clients, about, lost, overlooked, notices>>
      /\ seen' = seen \cup HeldBy(q)
      /\ held' = [held EXCEPT ![q] = {}]
  BY DEF FetchEvents
<1>2. UNCHANGED <<sent, notifiable, edited>>
  BY <1>1 DEF about
<1>3. ASSUME NEW m, Owed(m)' PROVE Owed(m) /\ m \notin HeldBy(q)
  BY <1>1, <1>2, <1>3 DEF Owed, Missed
<1>4. \A r \in Queues \ {q} : held'[r] = held[r] /\ HeldBy(r)' = HeldBy(r)
  BY <1>1 DEF HookInv, TypeOK, HeldBy
<1>5. user_clients \subseteq Queues /\ held'[q] = {}
  BY <1>1 DEF HookInv, TypeOK
<1>6. Kept'
  BY <1>1, <1>3, <1>4, <1>5 DEF HookInv, Kept
<1>7. Truthful'
  BY <1>1, <1>2, <1>3, <1>4, <1>5 DEF HookInv, Truthful
<1>8. Accounted'
  BY <1>1, <1>2, <1>3 DEF HookInv, Accounted, Settled
<1> QED
  BY <1>6, <1>7, <1>8

(* The process dies: what a queue held is lost, and what none held has     *)
(* been notified if it was owed.                                           *)
LEMMA CrashHook ==
  ASSUME HookInv, Crash
  PROVE  (Kept /\ Truthful /\ Accounted)'
<1>1. /\ UNCHANGED <<about, seen, overlooked, notices>>
      /\ user_clients' = {}
      /\ held' = [q \in Queues |-> {}]
      /\ lost' = lost \cup UNION {HeldBy(q) : q \in Queues}
  BY DEF Crash
<1>2. UNCHANGED <<sent, notifiable, edited>>
  BY <1>1 DEF about
<1>3. ASSUME NEW m, Owed(m)' PROVE Owed(m) /\ \A q \in Queues : m \notin HeldBy(q)
  BY <1>1, <1>2, <1>3 DEF Owed, Missed
<1>4. Kept' /\ Truthful'
  BY <1>1 DEF Kept, Truthful
<1>5. ASSUME NEW m \in Messages, Owed(m)' PROVE Settled(m)
  <2>1. Owed(m) /\ \A q \in Queues : m \notin HeldBy(q)
    BY <1>3, <1>5
  <2>2. \A q \in user_clients : Listening[q] # "all"
    BY <2>1 DEF HookInv, TypeOK, Kept
  <2> QED
    BY <2>1, <2>2 DEF HookInv, Accounted
<1>6. Accounted'
  BY <1>1, <1>2, <1>5 DEF Accounted, Settled
<1> QED
  BY <1>4, <1>6

(* A message is edited: it is excepted if it becomes notifiable, and there *)
(* is nothing to notify of if it ceases to be.                             *)
LEMMA EditHook ==
  ASSUME HookInv, NEW m \in Messages, NEW wanted \in SUBSET Media,
         NEW presence_idle \in BOOLEAN, NEW online_push_enabled \in BOOLEAN,
         ProcessMessageUpdateEvent(m, wanted, presence_idle, online_push_enabled)
  PROVE  (Kept /\ Truthful /\ Accounted)'
<1> DEFINE media == maybe_enqueue_notifications_for_message_update(
                      notifiable[m], wanted, presence_idle, online_push_enabled)
<1> HIDE DEF media
<1>1. /\ UNCHANGED <<user_clients, held, sent, seen, lost, overlooked>>
      /\ Becomes(m, wanted) /\ Publish(m, media)
      /\ edited' = IF wanted # {} THEN edited \cup {m} ELSE edited
  BY DEF ProcessMessageUpdateEvent, media
<1>2. \A n \in Messages : notifiable'[n] = IF n = m THEN wanted ELSE notifiable[n]
  BY <1>1 DEF Becomes, HookInv, TypeOK
<1>3. ASSUME NEW n \in Messages, NEW medium \in Media, notices[n][medium] > 0
      PROVE  notices'[n][medium] > 0
  <2>1. notices[n][medium] \in Nat
    BY DEF HookInv, TypeOK
  <2>2. notices'[n][medium] \in {notices[n][medium], notices[n][medium] + 1}
    BY <1>1 DEF Publish, HookInv, TypeOK
  <2> QED
    BY <1>3, <2>1, <2>2
<1>4. ASSUME NEW n, Owed(n)'
      PROVE  Owed(n) /\ n \in Messages /\ (notifiable'[n] = {} \/ notifiable'[n] = notifiable[n])
  BY <1>1, <1>2, <1>4 DEF Owed, Missed
<1>5. \A q : HeldBy(q)' = HeldBy(q)
  BY <1>1 DEF HeldBy
<1>6. Kept'
  BY <1>1, <1>4, <1>5 DEF HookInv, Kept
<1>7. Truthful'
  <2> SUFFICES ASSUME NEW q \in Queues, NEW e \in held[q], Owed(e.message)'
               PROVE  /\ notifiable'[e.message] \subseteq e.wanted
                      /\ \A medium \in e.notified : notices'[e.message][medium] > 0
    BY <1>1 DEF Truthful
  <2>1. e.message \in Messages /\ e.notified \subseteq Media
    BY DEF HookInv, TypeOK, EventTypes
  <2>2. /\ notifiable[e.message] \subseteq e.wanted
        /\ \A medium \in e.notified : notices[e.message][medium] > 0
    BY <1>4 DEF HookInv, Truthful
  <2> QED
    BY <1>3, <1>4, <2>1, <2>2
<1>8. Accounted'
  <2> SUFFICES ASSUME \A q \in user_clients : Listening[q] # "all",
                      NEW n \in Messages, Owed(n)', NEW medium \in notifiable'[n]
               PROVE  notices'[n][medium] > 0
    BY <1>1 DEF Accounted, Settled
  <2>1. Owed(n) /\ medium \in notifiable[n] /\ medium \in Media
    BY <1>4 DEF HookInv, TypeOK
  <2>2. notices[n][medium] > 0
    BY <2>1 DEF HookInv, Accounted, Settled
  <2> QED
    BY <1>3, <2>1, <2>2
<1> QED
  BY <1>6, <1>7, <1>8

(* A message is sent: to a user without queues it is notified at once,     *)
(* with queues that all miss some it is overlooked, and otherwise those    *)
(* that receive all messages hold it, with what has been notified.         *)
LEMMA SendHook ==
  ASSUME HookInv, NEW m \in Messages, NEW wanted \in SUBSET Media,
         NEW presence_idle \in BOOLEAN, NEW online_push_enabled \in BOOLEAN,
         ProcessMessageEvent(m, wanted, presence_idle, online_push_enabled)
  PROVE  (Kept /\ Truthful /\ Accounted)'
<1> DEFINE idle == receiver_is_off_zulip \/ presence_idle
           notified == maybe_enqueue_notifications(wanted, idle, online_push_enabled, {})
           event == [message |-> m, wanted |-> wanted, notified |-> notified]
<1>1. notified \subseteq Media /\ (user_clients = {} => wanted \subseteq notified)
  BY DEF maybe_enqueue_notifications, IsNotifiable, receiver_is_off_zulip
<1> HIDE DEF notified
<1>2. event.message = m /\ event.wanted = wanted /\ event.notified = notified
  OBVIOUS
<1>3. PICK matching \in SUBSET {q \in user_clients : Listening[q] = "narrow"} :
        held' = [q \in Queues |->
           IF q \in user_clients /\ (Listening[q] = "all" \/ q \in matching)
           THEN held[q] \cup {event} ELSE held[q]]
  BY DEF ProcessMessageEvent, event, notified
<1> HIDE DEF event
<1>4. /\ m \notin sent /\ sent' = sent \cup {m}
      /\ Becomes(m, wanted) /\ Publish(m, notified)
      /\ overlooked' = IF Deaf(user_clients) THEN overlooked \cup {m} ELSE overlooked
      /\ UNCHANGED <<user_clients, edited, seen, lost>>
  BY DEF ProcessMessageEvent, notified
<1>5. \A n \in Messages : notifiable'[n] = IF n = m THEN wanted ELSE notifiable[n]
  BY <1>4 DEF Becomes, HookInv, TypeOK
<1>6. \A n \in Messages \ {m} : notices'[n] = notices[n]
  BY <1>4 DEF Publish, HookInv, TypeOK
<1>7. ASSUME NEW medium \in notified PROVE notices'[m][medium] > 0
  <2>1. medium \in Media /\ notices[m][medium] \in Nat
    BY <1>1 DEF HookInv, TypeOK
  <2>2. notices'[m][medium] = notices[m][medium] + 1
    BY <1>4, <2>1 DEF Publish, HookInv, TypeOK
  <2> QED
    BY <2>1, <2>2
<1>8. ASSUME NEW n \in Messages \ {m}, Owed(n)' PROVE Owed(n)
  BY <1>4, <1>8 DEF Owed, Missed
<1>9. \A q \in Queues : HeldBy(q) \subseteq HeldBy(q)'
  BY <1>3 DEF HeldBy
<1>10. user_clients \subseteq Queues
  BY DEF HookInv, TypeOK
<1>11. Kept'
  <2> SUFFICES ASSUME NEW n \in Messages, Owed(n)', NEW q \in user_clients, Listening[q] = "all"
               PROVE  n \in HeldBy(q)'
    BY <1>4 DEF Kept
  <2>1. CASE n = m
    <3>1. event \in held'[q]
      BY <1>3, <1>10
    <3> QED
      BY <1>2, <2>1, <3>1 DEF HeldBy
  <2>2. CASE n # m
    BY <1>8, <1>9, <1>10, <2>2 DEF HookInv, Kept
  <2> QED
    BY <2>1, <2>2
<1>12. Truthful'
  <2> SUFFICES ASSUME NEW q \in Queues, NEW e \in held'[q], Owed(e.message)'
               PROVE  /\ notifiable'[e.message] \subseteq e.wanted
                      /\ \A medium \in e.notified : notices'[e.message][medium] > 0
    BY DEF Truthful
  <2>1. e = event \/ e \in held[q]
    BY <1>3
  <2>2. CASE e = event
    BY <1>2, <1>5, <1>7, <2>2
  <2>3. CASE e \in held[q]
    <3>1. e.message \in Messages \ {m}
      BY <1>4, <2>3 DEF HookInv, TypeOK, HeldBy
    <3> QED
      BY <1>5, <1>6, <1>8, <2>3, <3>1 DEF HookInv, Truthful
  <2> QED
    BY <2>1, <2>2, <2>3
<1>13. Accounted'
  <2> SUFFICES ASSUME \A q \in user_clients : Listening[q] # "all",
                      NEW n \in Messages, Owed(n)', NEW medium \in notifiable'[n]
               PROVE  notices'[n][medium] > 0
    BY <1>4 DEF Accounted, Settled
  <2>1. CASE n = m
    <3>1. ~ Deaf(user_clients)
      BY <1>4, <2>1 DEF Owed
    <3>2. user_clients = {}
      BY <3>1 DEF Deaf
    <3> QED
      BY <1>1, <1>5, <1>7, <2>1, <3>2
  <2>2. CASE n # m
    BY <1>5, <1>6, <1>8, <2>2 DEF HookInv, Accounted, Settled
  <2> QED
    BY <2>1, <2>2
<1> QED
  BY <1>11, <1>12, <1>13

(* Queues are removed.  If queues are left that all miss some messages,    *)
(* what the removed ones held is overlooked; if none is left, the hook     *)
(* publishes what their events have not recorded as notified.              *)
LEMMA GcHook ==
  ASSUME HookInv, NEW to_remove \in SUBSET Queues, to_remove \subseteq user_clients,
         do_gc_event_queues(to_remove)
  PROVE  (Kept /\ Truthful /\ Accounted)'
<1> DEFINE last == user_clients \subseteq to_remove
           By(m, medium) == {q \in to_remove : medium \in missedmessage_hook(q, m, last)}
<1>1. ASSUME NEW m \in Messages, NEW medium \in Media
      PROVE  /\ Cardinality(By(m, medium)) \in Nat
             /\ By(m, medium) # {} => Cardinality(By(m, medium)) > 0
  <2>1. IsFiniteSet(By(m, medium))
    BY QueuesAssumption, FS_Subset
  <2> HIDE DEF By
  <2>2. Cardinality(By(m, medium)) \in Nat
    BY <2>1, FS_CardinalityType
  <2>3. By(m, medium) # {} => Cardinality(By(m, medium)) # 0
    BY <2>1, FS_EmptySet
  <2> QED
    BY <2>2, <2>3
<1> HIDE DEF By
<1>2. /\ user_clients' = user_clients \ to_remove
      /\ notices' = [m \in Messages |->
                       [medium \in Media |-> notices[m][medium] + Cardinality(By(m, medium))]]
      /\ held' = [q \in Queues |-> IF q \in to_remove THEN {} ELSE held[q]]
      /\ overlooked' = IF Deaf(user_clients \ to_remove)
                       THEN overlooked \cup UNION {HeldBy(q) : q \in to_remove}
                       ELSE overlooked
      /\ UNCHANGED <<about, seen, lost>>
  BY DEF do_gc_event_queues, By
<1>3. UNCHANGED <<sent, notifiable, edited>>
  BY <1>2 DEF about
<1>4. ASSUME NEW m, Owed(m)' PROVE Owed(m)
  BY <1>2, <1>3, <1>4 DEF Owed, Missed
<1>5. ASSUME NEW m \in Messages, NEW medium \in Media
      PROVE  /\ notices[m][medium] > 0 => notices'[m][medium] > 0
             /\ By(m, medium) # {} => notices'[m][medium] > 0
  <2>1. notices[m][medium] \in Nat
    BY DEF HookInv, TypeOK
  <2>2. notices'[m][medium] = notices[m][medium] + Cardinality(By(m, medium))
    BY <1>2
  <2> QED
    BY <1>1, <2>1, <2>2
<1>6. user_clients \subseteq Queues
  BY DEF HookInv, TypeOK
<1>7. Kept'
  <2> SUFFICES ASSUME NEW m \in Messages, Owed(m)',
                      NEW q \in user_clients', Listening[q] = "all"
               PROVE  m \in HeldBy(q)'
    BY DEF Kept
  <2>1. q \in user_clients /\ q \notin to_remove /\ held'[q] = held[q]
    BY <1>2, <1>6
  <2>2. m \in HeldBy(q)
    BY <1>4, <2>1 DEF HookInv, Kept
  <2> QED
    BY <2>1, <2>2 DEF HeldBy
<1>8. Truthful'
  <2> SUFFICES ASSUME NEW q \in Queues, NEW e \in held'[q], Owed(e.message)'
               PROVE  /\ notifiable'[e.message] \subseteq e.wanted
                      /\ \A medium \in e.notified : notices'[e.message][medium] > 0
    BY DEF Truthful
  <2>1. e \in held[q]
    BY <1>2
  <2>2. e.message \in Messages /\ e.notified \subseteq Media
    BY <2>1 DEF HookInv, TypeOK, EventTypes
  <2>3. /\ notifiable[e.message] \subseteq e.wanted
        /\ \A medium \in e.notified : notices[e.message][medium] > 0
    BY <1>4, <2>1 DEF HookInv, Truthful
  <2> QED
    BY <1>3, <1>5, <2>2, <2>3
<1>9. Accounted'
  <2> SUFFICES ASSUME \A q \in user_clients' : Listening[q] # "all",
                      NEW m \in Messages, Owed(m)', NEW medium \in notifiable[m]
               PROVE  notices'[m][medium] > 0
    BY <1>3 DEF Accounted, Settled
  <2>1. Owed(m) /\ medium \in Media
    BY <1>4 DEF HookInv, TypeOK
  <2>2. CASE \A q \in user_clients : Listening[q] # "all"
    BY <1>5, <2>1, <2>2 DEF HookInv, Accounted, Settled
  <2>3. CASE \E q \in user_clients : Listening[q] = "all"
    <3>1. PICK q \in user_clients : Listening[q] = "all"
      BY <2>3
    <3>2. q \in to_remove /\ m \in HeldBy(q)
      BY <1>2, <2>1, <3>1 DEF HookInv, Kept
    <3>3. ~ Deaf(user_clients \ to_remove)
      BY <1>2, <3>2 DEF Owed
    <3>4. last
      BY <1>2, <3>3 DEF Deaf
    <3>5. PICK e \in held[q] : e.message = m
      BY <3>2 DEF HeldBy
    <3>6. medium \in e.wanted /\ (medium \in e.notified => notices[m][medium] > 0)
      BY <2>1, <3>5, <1>6 DEF HookInv, Truthful
    <3>7. CASE medium \in e.notified
      BY <1>5, <2>1, <3>6, <3>7
    <3>8. CASE medium \notin e.notified
      <4>1. medium \in maybe_enqueue_notifications(e.wanted, TRUE, FALSE, e.notified)
        BY <2>1, <3>6, <3>8 DEF maybe_enqueue_notifications, IsNotifiable
      <4>2. medium \in missedmessage_hook(q, m, last)
        BY <3>4, <3>5, <4>1 DEF missedmessage_hook
      <4>3. q \in By(m, medium)
        BY <3>2, <4>2 DEF By
      <4> QED
        BY <1>5, <2>1, <4>3
    <3> QED
      BY <3>7, <3>8
  <2> QED
    BY <2>2, <2>3
<1> QED
  BY <1>7, <1>8, <1>9

(* The hard disconnect problem is solved: once the user has no queue left, *)
(* every message that is notifiable and that no client has received has    *)
(* been notified through all its media, but for the kinds of messages that *)
(* MissedIsNotified names.                                                 *)
THEOREM MissedCorrect == Spec => []MissedIsNotified
<1>1. Init => HookInv
  BY QueuesAssumption
  DEF Init, HookInv, TypeOK, UnsentIsNew, HeldBy, Kept, Truthful, Accounted, Owed, Missed
<1>2. HookInv /\ [Next]_vars => HookInv'
  <2> SUFFICES ASSUME HookInv, [Next]_vars PROVE HookInv'
    OBVIOUS
  <2>1. TypeOK' /\ UnsentIsNew'
    BY TypeStep, UnsentStep DEF HookInv
  <2>2. ASSUME NEW q \in Queues, Cleanup(q) PROVE (Kept /\ Truthful /\ Accounted)'
    <3>1. {q} \in SUBSET Queues /\ {q} \subseteq user_clients /\ do_gc_event_queues({q})
      BY <2>2 DEF Cleanup
    <3> QED
      BY <3>1, GcHook
  <2>3. ASSUME NEW to_remove \in SUBSET Queues, GcEventQueues(to_remove)
        PROVE  (Kept /\ Truthful /\ Accounted)'
    BY <2>3, GcHook DEF GcEventQueues
  <2>4. ASSUME UNCHANGED vars PROVE (Kept /\ Truthful /\ Accounted)'
    BY <2>4
    DEF vars, about, HookInv, Kept, Truthful, Accounted, Settled, Owed, Missed, HeldBy
  <2>5. (Kept /\ Truthful /\ Accounted)'
    BY <2>2, <2>3, <2>4, RegisterHook, FetchHook, SendHook, EditHook, CrashHook DEF Next
  <2> QED
    BY <2>1, <2>5 DEF HookInv
<1>3. HookInv => MissedIsNotified
  BY DEF HookInv, Accounted, MissedIsNotified, Owed, Settled
<1> QED
  BY <1>1, <1>2, <1>3, PTL DEF Spec
=============================================================================
