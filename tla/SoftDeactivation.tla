-------------------------- MODULE SoftDeactivation --------------------------
(***************************************************************************)
(* The UserMessage rows of one user while the user is subscribed to and    *)
(* unsubscribed from channels, is soft-deactivated, and comes back.  To a  *)
(* soft-deactivated user do_send_messages gives no row for most channel    *)
(* messages; add_missing_messages reconstructs the rows from the           *)
(* RealmAuditLog (zerver/lib/soft_deactivation.py).  A send reads its      *)
(* recipients, takes its message id and commits in three steps, and        *)
(* add_missing_messages is not in a transaction, so that everything here   *)
(* interleaves.                                                            *)
(***************************************************************************)
EXTENDS Integers, Sequences, FiniteSets, SequencesExt, FiniteSetsExt

CONSTANTS
  Channels,
  ProtectedHistory,       \* the channels that are private and protect their history at first
  Subscribed,             \* the channels to which the user is subscribed at first
  Catchers,               \* processes that call add_missing_messages
  DirectMessage,          \* the recipient of a direct message to the user
  BULK_CREATE_BATCH_SIZE,
  MaxMessages, MaxPending, MaxChanges     \* bounds

ASSUME ConstantsAssumption ==
  /\ ProtectedHistory \subseteq Channels /\ Subscribed \subseteq Channels
  /\ DirectMessage \notin Channels
  /\ BULK_CREATE_BATCH_SIZE \in Nat \ {0}
  /\ {MaxMessages, MaxPending, MaxChanges} \subseteq Nat

VARIABLES
  messages,        \* id -> recipient and whether it is uncommitted, in the table or gone
  pending,         \* sends that have read their recipients and have no id yet
  subs,            \* the user's Subscription to each channel
  archived,        \* the channels that are deactivated
  privacy,         \* channel -> "public", or "private" with its history public to
                   \* subscribers or "protected"
  logs,            \* RealmAuditLog entries of the user and each channel
  user,            \* long_term_idle and last_active_message_id
  rows,            \* ids of the user's UserMessage rows
  catching,        \* what each catcher has read and still has to insert
  twin,            \* history: the rows of a user who is never soft-deactivated
  raced,           \* history: messages overtaken by a step of another process
  moved,           \* history: messages that were moved
  touched,         \* history: messages that got a row because the user acted on them
  changes          \* of subscriptions, channels, messages and the user's state

vars == <<messages, pending, subs, archived, privacy, logs, user, rows, catching, twin,
          raced, moved, touched, changes>>

Change == changes < MaxChanges /\ changes' = changes + 1

Ids == DOMAIN messages
Committed == {m \in Ids : messages[m].state = "committed"}
Uncommitted == {m \in Ids : messages[m].state = "inserted"}
MaxOr(S, default) == IF S = {} THEN default ELSE Max(S)

NotCatching == [step |-> "no", last |-> 0, logs |-> [c \in Channels |-> <<>>],
                channels |-> {}, seen |-> {}, stale |-> {}, todo |-> {}]

Gone == [to |-> DirectMessage, eligible |-> FALSE, row |-> FALSE, state |-> "gone"]

-----------------------------------------------------------------------------
(* Sending. *)

(* A channel whose subscription was ended without a log entry.             *)
Unlogged(c) == subs[c] = "inactive" /\ Last(logs[c]).type # "deactivated"

(* The part of create_user_messages and get_subscriptions_for_send_message *)
(* that concerns this user: a soft-deactivated one gets a row only if      *)
(* flags or notifications need it.                                         *)
create_user_messages(eligible, idle, needed) == eligible /\ (idle => needed)

Recipients(to, needed, active) ==
  LET eligible == to = DirectMessage \/ active
  IN  [to |-> to, eligible |-> eligible,
       row |-> create_user_messages(eligible, user.idle, needed \/ to = DirectMessage),
       raced |-> FALSE]

RoomToSend ==
  /\ Cardinality(pending) < MaxPending
  /\ Len(messages) + Cardinality(pending) < MaxMessages

(* get_recipient_info, before the transaction of do_send_messages. *)
ReadRecipients(to, needed) ==
  /\ RoomToSend
  /\ to \in Channels => ~ archived[to]
  /\ pending' = pending \cup
       {[Recipients(to, needed, to \in Channels /\ subs[to] = "active")
           EXCEPT !.raced = to \in Channels /\ Unlogged(to)]}
  /\ UNCHANGED <<messages, subs, archived, privacy, logs, user, rows, catching, twin, raced, moved, touched, changes>>

(* do_send_messages takes the next message id. *)
InsertMessage(send) ==
  /\ send \in pending
  /\ pending' = pending \ {send}
  /\ messages' = Append(messages, [to |-> send.to, eligible |-> send.eligible,
                                   row |-> send.row, state |-> "inserted"])
  /\ raced' = IF send.raced THEN raced \cup {Len(messages) + 1} ELSE raced
  /\ UNCHANGED <<subs, archived, privacy, logs, user, rows, catching, twin, moved, touched, changes>>

(* The transaction commits: the message and its rows can be seen. *)
CommitSend(m) ==
  /\ m \in Uncommitted
  /\ messages' = [messages EXCEPT ![m] = [@ EXCEPT !.state = "committed",
                                           !.eligible = FALSE, !.row = FALSE]]
  /\ rows' = IF messages[m].row THEN rows \cup {m} ELSE rows
  /\ twin' = IF messages[m].eligible THEN twin \cup {m} ELSE twin
  /\ UNCHANGED <<pending, subs, archived, privacy, logs, user, catching, raced, moved, touched, changes>>

(* The transaction fails; its id is not used again. *)
RollBackSend(m) ==
  /\ m \in Uncommitted
  /\ messages' = [messages EXCEPT ![m] = Gone]
  /\ raced' = raced \ {m}
  /\ UNCHANGED <<pending, subs, archived, privacy, logs, user, rows, catching, twin, moved, touched>>
  /\ Change

-----------------------------------------------------------------------------
(* Channels and subscriptions. *)

get_last_message_id == MaxOr(Committed, -1)

(* The sends that a change of the subscription overtakes: their recipients *)
(* are those before it, their ids will be after it in the log.             *)
Overtaken(c, last) == {m \in Uncommitted : messages[m].to = c /\ m > last}
PendingOvertaken(c) ==
  {[p EXCEPT !.raced = p.raced \/ p.to = c] : p \in pending}

(* A catcher that has read the log does not see the change. *)
Overtakes(c) ==
  [k \in Catchers |-> IF catching[k].step = "logs"
                      THEN [catching[k] EXCEPT !.stale = @ \cup {c}]
                      ELSE catching[k]]

Log(c, type) == logs' = [logs EXCEPT ![c] = Append(@, [type |-> type, last |-> get_last_message_id])]

(* bulk_add_subscriptions and bulk_add_subs_to_db_with_logging. *)
Activate(c) ==
  /\ subs' = [subs EXCEPT ![c] = "active"]
  /\ Log(c, IF subs[c] = "none" THEN "created" ELSE "activated")
  /\ catching' = Overtakes(c)
  /\ raced' = raced \cup Overtaken(c, get_last_message_id)
                    \cup IF Unlogged(c) THEN {m \in twin \ rows : messages[m].to = c} ELSE {}

Subscribe(c) ==
  /\ subs[c] # "active" /\ ~ archived[c]
  /\ Activate(c)
  /\ pending' = PendingOvertaken(c)
  /\ UNCHANGED <<messages, archived, privacy, user, rows, twin, moved, touched>>
  /\ Change

(* bulk_remove_subscriptions; do_deactivate_stream archives a private      *)
(* channel that has become vacant.                                         *)
Unsubscribe(c, vacant) ==
  /\ subs[c] = "active"
  /\ subs' = [subs EXCEPT ![c] = "inactive"]
  /\ Log(c, "deactivated")
  /\ vacant => privacy[c] # "public"
  /\ archived' = [archived EXCEPT ![c] = @ \/ vacant]
  /\ catching' = Overtakes(c)
  /\ raced' = raced \cup Overtaken(c, get_last_message_id)
  /\ pending' = PendingOvertaken(c)
  /\ UNCHANGED <<messages, privacy, user, rows, twin, moved, touched>>
  /\ Change

(* do_deactivate_stream ends every subscription without a log entry, and   *)
(* makes the channel private.                                              *)
DeactivateChannel(c) ==
  /\ ~ archived[c]
  /\ archived' = [archived EXCEPT ![c] = TRUE]
  /\ privacy' = [privacy EXCEPT ![c] = IF @ = "public" THEN "private" ELSE @]
  /\ subs' = [subs EXCEPT ![c] = IF @ = "active" THEN "inactive" ELSE @]
  /\ raced' = IF subs[c] = "active" THEN raced \cup Overtaken(c, -1) ELSE raced
  /\ pending' = PendingOvertaken(c)
  /\ catching' = Overtakes(c)
  /\ UNCHANGED <<messages, logs, user, rows, twin, moved, touched>>
  /\ Change

(* do_unarchive_stream: the channel is private and its history public to   *)
(* subscribers, the owners are subscribed again, and a notification is     *)
(* sent to the channel.  The code sends it in the same transaction; here   *)
(* it goes the way of every send, so that other steps may come between.    *)
UnarchiveChannel(c, owner) ==
  /\ archived[c]
  /\ RoomToSend
  /\ archived' = [archived EXCEPT ![c] = FALSE]
  /\ privacy' = [privacy EXCEPT ![c] = "private"]
  /\ IF owner THEN Activate(c) ELSE UNCHANGED <<subs, logs, catching, raced>>
  /\ pending' = PendingOvertaken(c) \cup
       {[Recipients(c, FALSE, owner) EXCEPT !.raced = ~ owner /\ Unlogged(c)]}
  /\ UNCHANGED <<messages, user, rows, twin, moved, touched>>
  /\ Change

-----------------------------------------------------------------------------
(* Messages that move, go away, or get a row later. *)

(* Fault: the rows of users who cannot see the message any more stay.      *)
MoveKeepingRows(m, c) ==
  /\ m \in Committed /\ messages[m].to \in Channels \ {c}
  /\ messages' = [messages EXCEPT ![m].to = c]
  /\ moved' = moved \cup {m}
  /\ UNCHANGED <<pending, subs, archived, privacy, logs, user, rows, twin, catching, raced, touched>>
  /\ Change

(* do_update_message with a new channel.  Rows are given to the            *)
(* subscribers of a channel with protected history, and taken from the old *)
(* channel's past and present subscribers who are not in the new one.      *)
Move(m, c) ==
  LET losing == subs[messages[m].to] # "none" /\ subs[c] # "active"
      gaining == privacy[c] = "protected" /\ subs[c] = "active"
      After(R) == IF losing THEN R \ {m} ELSE IF gaining THEN R \cup {m} ELSE R
  IN  /\ m \in Committed /\ messages[m].to \in Channels \ {c} /\ ~ archived[c]
      /\ messages' = [messages EXCEPT ![m].to = c]
      /\ rows' = After(rows) /\ twin' = After(twin)
      /\ moved' = moved \cup {m}
      /\ raced' = IF \E k \in Catchers : m \in catching[k].todo THEN raced \cup {m} ELSE raced
      /\ UNCHANGED <<pending, subs, archived, privacy, logs, user, catching, touched>>
      /\ Change

(* do_delete_messages: the message and its rows are archived. *)
Delete(m) ==
  /\ m \in Committed
  /\ messages' = [messages EXCEPT ![m] = Gone]
  /\ rows' = rows \ {m} /\ twin' = twin \ {m}
  /\ raced' = raced \ {m} /\ touched' = touched \ {m}
  /\ UNCHANGED <<pending, subs, archived, privacy, logs, user, catching, moved>>
  /\ Change

(* create_historical_user_messages: the user flags or reacts to a message  *)
(* of a channel with public history, if has_message_access allows it.      *)
TouchMessage(m) ==
  /\ m \in Committed \ rows
  /\ LET c == messages[m].to
     IN  c \in Channels /\ (privacy[c] = "public" \/ (privacy[c] = "private" /\ subs[c] = "active"))
  /\ rows' = rows \cup {m} /\ twin' = twin \cup {m}
  /\ touched' = touched \cup {m}
  /\ UNCHANGED <<messages, pending, subs, archived, privacy, logs, user, catching, raced, moved>>
  /\ Change

-----------------------------------------------------------------------------
(* Soft deactivation. *)

do_soft_deactivate_user == [idle |-> TRUE, last |-> MaxOr(rows, MaxOr(Committed, 0))]

SoftDeactivate ==
  /\ ~ user.idle
  /\ rows # {} \/ Committed # {}
  /\ user' = do_soft_deactivate_user
  /\ Change
  /\ UNCHANGED <<messages, pending, subs, archived, privacy, logs, rows, catching, twin, raced, moved, touched>>

(* The entries in the order of add_missing_messages: by last message, and  *)
(* for the same one as they were written.                                  *)
Precedes(entries, i, j) ==
  entries[i].last < entries[j].last \/ (entries[i].last = entries[j].last /\ i < j)

Ordered(entries) ==
  LET Rank(i) == Cardinality({j \in DOMAIN entries : ~ Precedes(entries, i, j)})
  IN  [n \in DOMAIN entries |-> entries[CHOOSE i \in DOMAIN entries : Rank(i) = n]]

(* filter_by_subscription_history for one channel: the messages in one of  *)
(* the intervals that end with unsubscribing or deactivation, and those    *)
(* after the last entry if it is not such an end.                          *)
Begun(m, entries, i) ==
  \A j \in 1..i : entries[j].type # "deactivated" => m > entries[j].last

(* Fault: the messages that remain are taken whatever the last entry is.   *)
filter_ignoring_last_entry(ids, entries) ==
  {m \in ids :
     \/ \E i \in DOMAIN entries : /\ entries[i].type = "deactivated"
                                 /\ m <= entries[i].last /\ Begun(m, entries, i)
     \/ Begun(m, entries, Len(entries))}

filter_by_subscription_history(ids, entries) ==
  {m \in ids :
     \/ \E i \in DOMAIN entries : /\ entries[i].type = "deactivated"
                                 /\ m <= entries[i].last /\ Begun(m, entries, i)
     \/ Last(entries).type # "deactivated" /\ Begun(m, entries, Len(entries))}

(* add_missing_messages begins with a soft-deactivated user; it reads the  *)
(* subscriptions and the log.                                              *)
ReadLogs(k) ==
  /\ catching[k].step = "no" /\ user.idle
  /\ LET ordered == [c \in Channels |-> Ordered(logs[c])]
     IN  catching' = [catching EXCEPT ![k] =
           [NotCatching EXCEPT !.step = "logs", !.last = user.last, !.logs = ordered,
              !.seen = Ids,
              !.channels = {c \in Channels :
                 /\ subs[c] # "none"
                 /\ ~ (Last(ordered[c]).type = "deactivated"
                         /\ Last(ordered[c]).last <= user.last)}]]
  /\ UNCHANGED <<messages, pending, subs, archived, privacy, logs, user, rows, twin, raced, moved, touched, changes>>

(* It reads the messages that have no row, and filters them. *)
ReadMessages(k) ==
  LET missing(c) == {m \in Committed \ rows : messages[m].to = c /\ m > catching[k].last}
      found == UNION {filter_by_subscription_history(missing(c), catching[k].logs[c]) :
                        c \in {c \in catching[k].channels : missing(c) # {}}}
      changed == {m \in Ids \ catching[k].seen : messages[m].to \in catching[k].stale}
  IN  /\ catching[k].step = "logs"
      /\ catching' = [catching EXCEPT ![k] =
           [NotCatching EXCEPT !.step = "insert", !.todo = found, !.seen = Committed]]
      /\ raced' = raced \cup changed
      /\ UNCHANGED <<messages, pending, subs, archived, privacy, logs, user, rows, twin, moved, touched, changes>>

(* One batch: the rows, and last_active_message_id.  A message that has    *)
(* been deleted meanwhile violates the foreign key, and ends it.           *)
InsertBatch(k) ==
  LET batch == {m \in catching[k].todo :
                  Cardinality({x \in catching[k].todo : x < m}) < BULK_CREATE_BATCH_SIZE}
      last == Max({user.last} \cup batch)
  IN  /\ catching[k].step = "insert" /\ catching[k].todo # {}
      /\ IF batch \subseteq Committed
         THEN /\ rows' = rows \cup batch
              /\ user' = [user EXCEPT !.last = last]
              /\ catching' = [catching EXCEPT ![k].todo = @ \ batch]
              /\ raced' = raced \cup {m \in Ids \ catching[k].seen : m <= last}
         ELSE /\ catching' = [catching EXCEPT ![k] = NotCatching]
              /\ UNCHANGED <<rows, user, raced>>
      /\ UNCHANGED <<messages, pending, subs, archived, privacy, logs, twin, moved, touched, changes>>

(* The messages that leave the user without a row. *)
Lazy(ids) == {m \in ids : ~ messages[m].row /\ m \notin rows}

(* The catch-up is done; reactivate_user_if_soft_deactivated goes on to    *)
(* save long_term_idle.  What was sent to the idle user in between is not  *)
(* among the messages that it has seen.                                    *)
FinishCatchUp(k, reactivates) ==
  /\ catching[k].step = "insert" /\ catching[k].todo = {}
  /\ catching' = [catching EXCEPT ![k] = NotCatching]
  /\ IF reactivates
     THEN /\ user' = [user EXCEPT !.idle = FALSE]
          /\ raced' = raced \cup Lazy(Ids \ catching[k].seen)
          /\ pending' = {[p EXCEPT !.raced = @ \/ ~ p.row] : p \in pending}
     ELSE UNCHANGED <<user, raced, pending>>
  /\ UNCHANGED <<messages, subs, archived, privacy, logs, rows, twin, moved, touched, changes>>

-----------------------------------------------------------------------------

Init ==
  /\ messages = <<>> /\ pending = {}
  /\ subs = [c \in Channels |-> IF c \in Subscribed THEN "active" ELSE "none"]
  /\ archived = [c \in Channels |-> FALSE]
  /\ privacy = [c \in Channels |-> IF c \in ProtectedHistory THEN "protected" ELSE "public"]
  /\ logs = [c \in Channels |-> IF c \in Subscribed
                               THEN <<[type |-> "created", last |-> -1]>> ELSE <<>>]
  /\ user = [idle |-> FALSE, last |-> 0]
  /\ rows = {} /\ twin = {} /\ raced = {} /\ moved = {} /\ touched = {}
  /\ catching = [k \in Catchers |-> NotCatching]
  /\ changes = 0

Next ==
  \/ \E to \in Channels \cup {DirectMessage}, needed \in BOOLEAN : ReadRecipients(to, needed)
  \/ \E send \in pending : InsertMessage(send)
  \/ \E m \in Ids : CommitSend(m) \/ RollBackSend(m) \/ Delete(m) \/ TouchMessage(m)
  \/ \E m \in Ids, c \in Channels : Move(m, c)
  \/ \E c \in Channels : Subscribe(c) \/ DeactivateChannel(c)
  \/ \E c \in Channels, b \in BOOLEAN : Unsubscribe(c, b) \/ UnarchiveChannel(c, b)
  \/ SoftDeactivate
  \/ \E k \in Catchers : ReadLogs(k) \/ ReadMessages(k) \/ InsertBatch(k)
  \/ \E k \in Catchers, reactivates \in BOOLEAN : FinishCatchUp(k, reactivates)

Spec == Init /\ [][Next]_vars

-----------------------------------------------------------------------------
(* Properties. *)

(* The entries of a channel are in order unless messages were deleted      *)
(* between them: get_last_message_id then goes back.                       *)
Ascending(entries) ==
  \A i, j \in DOMAIN entries : i < j => entries[i].last <= entries[j].last

InOrder(c) == Ascending(logs[c])

Excepted(m) ==
  \/ m \in raced \cup moved
  \/ messages[m].to \in Channels /\ ~ InOrder(messages[m].to)

(* A user who is not soft-deactivated has exactly the rows of a user who   *)
(* never was, and a soft-deactivated one has no others: through any        *)
(* history of subscriptions, catch-ups, batches and deactivations.  The    *)
(* exceptions are messages that were moved to another channel, messages    *)
(* overtaken by a process that had read older data or by the deactivation  *)
(* of a channel, and channels whose log entries are out of order.          *)
SameRowsAsTwin ==
  /\ \A m \in rows \ twin : Excepted(m)
  /\ ~ user.idle => \A m \in twin \ rows : Excepted(m)

(* A message is never in a channel to which the user has never been        *)
(* subscribed while the user has a row for it, unless it was moved between *)
(* the reading and the inserting of a catch-up.                            *)
RowsOfKnownChannels ==
  \A m \in rows \ (raced \cup touched) :
    messages[m].to \in Channels => subs[messages[m].to] # "none"
=============================================================================
