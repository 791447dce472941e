--------------------------- MODULE MissedMessages ---------------------------
(***************************************************************************)
(* When Tornado has one user notified of messages, by e-mail or by a push  *)
(* to mobile devices: at once if the user is idle or has no queue that     *)
(* receives messages (process_message_event), or later, when the last      *)
(* queue of the user is removed and messages are left in it                *)
(* (missedmessage_hook).  All in zerver/tornado/event_queue.py; what makes *)
(* a message notifiable is zerver/lib/notification_data.py, of which the   *)
(* model keeps the outcome: the set of media an idle user would be         *)
(* notified through.                                                       *)
(***************************************************************************)
EXTENDS Integers, FiniteSets

CONSTANTS
  Queues,          \* queue ids
  Listening,       \* what of "all", "narrow" and "none" each queue receives
  Messages,
  MaxMentions      \* how often a message becomes notifiable

ASSUME QueuesAssumption ==
  /\ IsFiniteSet(Queues)
  /\ Listening \in [Queues -> {"all", "narrow", "none"}]
  /\ MaxMentions \in Nat \ {0}

Media == {"email", "push"}

VARIABLES
  fresh,           \* queue ids not given out yet
  user_clients,    \* the queues of the user
  held,            \* the message events each queue holds, with their internal_data
  sent,            \* the messages sent
  notifiable,      \* the media an idle user would be notified through
  mentions,        \* how often each message has become notifiable
  edited,          \* messages that became notifiable by an edit
  seen,            \* the messages a client has received or fetched
  lost,            \* the messages in queues lost in a crash
  overlooked,      \* messages no queue was left to account for; see Deaf
  together,        \* messages in two of the last queues, which one collection removed
  notices          \* how many notices have been published

about == <<sent, notifiable, mentions, edited>>
vars == <<fresh, user_clients, held, about, seen, lost, overlooked, together, notices>>

-----------------------------------------------------------------------------
(* Notifications. *)

HeldBy(q) == {e.message : e \in held[q]}

(* get_email_notification_trigger and get_push_notification_trigger are    *)
(* not None.                                                               *)
IsNotifiable(medium, wanted, idle, online_push_enabled) ==
  /\ medium \in wanted
  /\ idle \/ (medium = "push" /\ online_push_enabled)

(* maybe_enqueue_notifications: the media it publishes a notice for. *)
maybe_enqueue_notifications(wanted, idle, online_push_enabled, already_notified) ==
  {medium \in Media \ already_notified :
     IsNotifiable(medium, wanted, idle, online_push_enabled)}

accepts_messages(q) == Listening[q] # "none"

receiver_is_off_zulip == ~ \E q \in user_clients : accepts_messages(q)

(* The user has queues, none of which receives every message.  They keep   *)
(* the user online for receiver_is_off_zulip or for missedmessage_hook,    *)
(* and may hold nothing of a message that is sent, or whose last other     *)
(* queue is removed, in the meantime.                                      *)
Deaf(queues) == queues # {} /\ \A q \in queues : Listening[q] # "all"

(* What m is notifiable through changes. *)
Becomes(m, wanted) ==
  /\ notifiable' = [notifiable EXCEPT ![m] = wanted]
  /\ mentions' = [mentions EXCEPT ![m] = @ + IF wanted # {} THEN 1 ELSE 0]

Publish(m, media) ==
  notices' = [notices EXCEPT ![m] =
                [medium \in Media |-> @[medium] + IF medium \in media THEN 1 ELSE 0]]

-----------------------------------------------------------------------------

(* A client registers a queue.  One that shows messages fetches those that *)
(* have been sent.                                                         *)
Register(q) ==
  /\ q \in fresh
  /\ fresh' = fresh \ {q}
  /\ user_clients' = user_clients \cup {q}
  /\ seen' = IF Listening[q] = "all" THEN sent ELSE seen
  /\ UNCHANGED <<held, about, lost, overlooked, together, notices>>

(* Fault: accepts_event is not asked, so every queue gets the event. *)
ProcessMessageEventForAll(m, wanted, presence_idle, online_push_enabled) ==
  LET idle == receiver_is_off_zulip \/ presence_idle
      notified == maybe_enqueue_notifications(wanted, idle, online_push_enabled, {})
      event == [message |-> m, wanted |-> wanted, notified |-> notified]
  IN  /\ m \in Messages \ sent
      /\ sent' = sent \cup {m}
      /\ Becomes(m, wanted)
      /\ Publish(m, notified)
      /\ held' = [q \in Queues |-> held[q] \cup {event}]
      /\ overlooked' = IF Deaf(user_clients) THEN overlooked \cup {m} ELSE overlooked
      /\ UNCHANGED <<fresh, user_clients, edited, seen, lost, together>>

(* process_message_event. *)
ProcessMessageEvent(m, wanted, presence_idle, online_push_enabled) ==
  LET idle == receiver_is_off_zulip \/ presence_idle
      notified == maybe_enqueue_notifications(wanted, idle, online_push_enabled, {})
      event == [message |-> m, wanted |-> wanted, notified |-> notified]
  IN  /\ m \in Messages \ sent
      /\ sent' = sent \cup {m}
      /\ Becomes(m, wanted)
      /\ Publish(m, notified)
      /\ \E matching \in SUBSET {q \in user_clients : Listening[q] = "narrow"} :
           held' = [q \in Queues |->
             IF q \in user_clients /\ (Listening[q] = "all" \/ q \in matching)
             THEN held[q] \cup {event} ELSE held[q]]
      /\ overlooked' = IF Deaf(user_clients) THEN overlooked \cup {m} ELSE overlooked
      /\ UNCHANGED <<fresh, user_clients, edited, seen, lost, together>>

(* maybe_enqueue_notifications_for_message_update: a user whom the message *)
(* was notifiable to (a direct message, a prior mention, a channel or      *)
(* topic with notifications) is not notified again.                        *)
maybe_enqueue_notifications_for_message_update(prior, wanted, presence_idle, online_push_enabled) ==
  IF prior # {} THEN {}
  ELSE maybe_enqueue_notifications(wanted, presence_idle \/ receiver_is_off_zulip,
                                   online_push_enabled, {})

(* process_message_update_event, for an edit that adds or removes a        *)
(* mention of the user; other updates change nothing here.  The hook       *)
(* ignores the update_message events this adds to the queues.              *)
ProcessMessageUpdateEvent(m, wanted, presence_idle, online_push_enabled) ==
  /\ m \in sent
  /\ wanted = {} <=> notifiable[m] # {}
  /\ wanted # {} => mentions[m] < MaxMentions
  /\ Becomes(m, wanted)
  /\ edited' = IF wanted # {} THEN edited \cup {m} ELSE edited
  /\ Publish(m, maybe_enqueue_notifications_for_message_update(
                  notifiable[m], wanted, presence_idle, online_push_enabled))
  /\ UNCHANGED <<fresh, user_clients, held, sent, seen, lost, overlooked, together>>

(* fetch_events: the client acknowledges the events it has received. *)
FetchEvents(q) ==
  /\ q \in user_clients
  /\ held[q] # {}
  /\ seen' = seen \cup HeldBy(q)
  /\ held' = [held EXCEPT ![q] = {}]
  /\ UNCHANGED <<fresh, user_clients, about, lost, overlooked, together, notices>>

(* Faults: the hook forgets what has been notified; it takes the user for  *)
(* active.                                                                 *)
HookForgetting(q, m, last_for_client) ==
  UNION {maybe_enqueue_notifications(e.wanted, TRUE, FALSE, {}) :
           e \in {e \in held[q] : last_for_client /\ e.message = m}}

HookWhenActive(q, m, last_for_client) ==
  UNION {maybe_enqueue_notifications(e.wanted, FALSE, FALSE, e.notified) :
           e \in {e \in held[q] : last_for_client /\ e.message = m}}

(* missedmessage_hook for a queue: what it publishes for message m. *)
missedmessage_hook(q, m, last_for_client) ==
  UNION {maybe_enqueue_notifications(e.wanted, TRUE, FALSE, e.notified) :
           e \in {e \in held[q] : last_for_client /\ e.message = m}}

(* The messages that several of the queues hold. *)
InSeveral(queues) ==
  {m \in sent : \E q, r \in queues : q # r /\ m \in HeldBy(q) /\ m \in HeldBy(r)}

(* do_gc_event_queues: the lists are filtered first, then the hook runs    *)
(* for each queue, so that each may be taken for the last one.             *)
do_gc_event_queues(to_remove) ==
  LET last_for_client == user_clients \subseteq to_remove
      Published(m, medium) ==
        Cardinality({q \in to_remove : medium \in missedmessage_hook(q, m, last_for_client)})
  IN  /\ user_clients' = user_clients \ to_remove
      /\ notices' = [m \in Messages |->
                       [medium \in Media |-> notices[m][medium] + Published(m, medium)]]
      /\ held' = [q \in Queues |-> IF q \in to_remove THEN {} ELSE held[q]]
      /\ overlooked' = IF Deaf(user_clients \ to_remove)
                       THEN overlooked \cup UNION {HeldBy(q) : q \in to_remove}
                       ELSE overlooked
      /\ together' = IF last_for_client THEN together \cup InSeveral(to_remove) ELSE together
      /\ UNCHANGED <<fresh, about, seen, lost>>

GcEventQueues(to_remove) ==
  /\ to_remove # {}
  /\ to_remove \subseteq user_clients
  /\ do_gc_event_queues(to_remove)

(* ClientDescriptor.cleanup, for a DELETE request. *)
Cleanup(q) == q \in user_clients /\ do_gc_event_queues({q})

(* The process dies without dump_event_queues. *)
Crash ==
  /\ user_clients # {}
  /\ user_clients' = {}
  /\ held' = [q \in Queues |-> {}]
  /\ lost' = lost \cup UNION {HeldBy(q) : q \in Queues}
  /\ UNCHANGED <<fresh, about, seen, overlooked, together, notices>>

-----------------------------------------------------------------------------

Init ==
  /\ fresh = Queues
  /\ user_clients = {}
  /\ held = [q \in Queues |-> {}]
  /\ sent = {} /\ edited = {} /\ seen = {} /\ lost = {}
  /\ overlooked = {} /\ together = {}
  /\ notifiable = [m \in Messages |-> {}]
  /\ mentions = [m \in Messages |-> 0]
  /\ notices = [m \in Messages |-> [medium \in Media |-> 0]]

Next ==
  \/ \E q \in Queues : Register(q) \/ FetchEvents(q) \/ Cleanup(q)
  \/ \E m \in Messages, wanted \in SUBSET Media, presence_idle, online_push_enabled \in BOOLEAN :
       \/ ProcessMessageEvent(m, wanted, presence_idle, online_push_enabled)
       \/ ProcessMessageUpdateEvent(m, wanted, presence_idle, online_push_enabled)
  \/ \E to_remove \in SUBSET Queues : GcEventQueues(to_remove)
  \/ Crash

Spec == Init /\ [][Next]_vars

-----------------------------------------------------------------------------
(* Properties. *)

EventTypes == [message : Messages, wanted : SUBSET Media, notified : SUBSET Media]

(* The shape of the state; only queues of the user hold messages, and only *)
(* queues that receive them.                                               *)
TypeOK ==
  /\ fresh \subseteq Queues /\ user_clients \subseteq Queues \ fresh
  /\ held \in [Queues -> SUBSET EventTypes]
  /\ \A q \in Queues :
       held[q] # {} => /\ q \in user_clients /\ accepts_messages(q)
                       /\ HeldBy(q) \subseteq sent
  /\ sent \subseteq Messages
  /\ edited \subseteq sent /\ seen \subseteq sent
  /\ lost \subseteq sent /\ overlooked \subseteq sent /\ together \subseteq sent
  /\ notifiable \in [Messages -> SUBSET Media]
  /\ mentions \in [Messages -> 0..MaxMentions]
  /\ notices \in [Messages -> [Media -> Nat]]

(* process_message_event, the message-edit path and missedmessage_hook     *)
(* together publish at most one notice per medium each time a message      *)
(* becomes notifiable, whichever tabs come and go: push_notified and       *)
(* email_notified travel with the event, and the hook runs for the last    *)
(* queue only.  Excepted are the messages in several queues of a user that *)
(* expired in one pass: do_gc_event_queues takes each for the last one.    *)
NotifiedAtMostOnce ==
  \A m \in Messages \ together, medium \in Media : notices[m][medium] <= mentions[m]

Missed(m) == m \in sent /\ m \notin seen \cup lost

(* The hard disconnect problem: once no queue of the user is left, every   *)
(* notifiable message that no client has received has been notified, at    *)
(* once or by the hook for the last queue.  Two kinds of messages are      *)
(* excepted: those that became notifiable by an edit, since the hook looks *)
(* at message events only, and those overlooked while the user had only    *)
(* queues that do not receive every message.                               *)
MissedIsNotified ==
  user_clients = {} =>
    \A m \in Messages \ (edited \cup overlooked) :
      Missed(m) => \A medium \in notifiable[m] : notices[m][medium] > 0
=============================================================================
