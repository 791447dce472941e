----------------------- MODULE SoftDeactivationProofs -----------------------
(***************************************************************************)
(* Proof, for any channels, number of catch-ups, messages and changes,     *)
(* that the user has rows only for messages of channels in which the user  *)
(* has been, and, but for the exceptions that the property names, exactly  *)
(* the rows of a user who was never soft-deactivated.                      *)
(***************************************************************************)
EXTENDS SoftDeactivation, FiniteSetTheorems, WellFoundedInduction, TLAPS

To == Channels \cup {DirectMessage}
Message == [to : To, eligible : BOOLEAN, row : BOOLEAN,
            state : {"inserted", "committed", "gone"}]
Send == [to : To, eligible : BOOLEAN, row : BOOLEAN, raced : BOOLEAN]

(* A catcher, of which only what the proof is about is typed. *)
Fields == {"step", "last", "logs", "channels", "seen", "stale", "todo"}

CatcherTyped(x) ==
  /\ Fields \subseteq DOMAIN x
  /\ x.todo \subseteq Ids /\ x.channels \subseteq Channels

Typed ==
  /\ messages \in Seq(Message) /\ pending \subseteq Send
  /\ subs \in [Channels -> {"none", "active", "inactive"}]
  /\ rows \subseteq Ids
  /\ DOMAIN catching = Catchers /\ \A k \in Catchers : CatcherTyped(catching[k])

(* The user has been in the channel, if it is one. *)
Known(to) == to \in Channels => subs[to] # "none"

(* A send that is going to give the user a row has found the user among    *)
(* the recipients; after it has committed it gives no more rows.           *)
SendsKnown ==
  /\ \A m \in Committed : ~ messages[m].row
  /\ \A p \in pending : p.row => Known(p.to)
  /\ \A m \in Ids : messages[m].row => Known(messages[m].to)

(* The same for the rows that a catch-up is going to insert, and for the   *)
(* channels whose messages it is going to read.                            *)
CatchersKnow ==
  \A k \in Catchers :
    /\ \A c \in catching[k].channels : Known(c)
    /\ \A m \in catching[k].todo \ raced : Known(messages[m].to)

KnownInv == Typed /\ RowsOfKnownChannels /\ SendsKnown /\ CatchersKnow

-----------------------------------------------------------------------------

(* The recipients read for a send to the user. *)
LEMMA RecipientsTyped ==
  ASSUME NEW to \in To, NEW needed \in BOOLEAN, NEW active \in BOOLEAN
  PROVE  /\ Recipients(to, needed, active) \in Send
         /\ Recipients(to, needed, active).row => to = DirectMessage \/ active
         /\ Recipients(to, needed, active).to = to
  BY DEF Recipients, create_user_messages, Send

(* What overtakes a send changes nothing but its mark. *)
LEMMA PendingKept ==
  ASSUME pending \subseteq Send, NEW c
  PROVE  /\ PendingOvertaken(c) \subseteq Send
         /\ \A q \in PendingOvertaken(c) : \E p \in pending : q.to = p.to /\ q.row = p.row
  BY DEF PendingOvertaken, Send

LEMMA CatchersKept ==
  ASSUME Typed, NEW c
  PROVE  /\ DOMAIN Overtakes(c) = Catchers
         /\ \A k \in Catchers :
              /\ CatcherTyped(Overtakes(c)[k])
              /\ Overtakes(c)[k].todo = catching[k].todo
              /\ Overtakes(c)[k].channels = catching[k].channels
  BY DEF Overtakes, Typed, CatcherTyped

(* What a change of one message leaves. *)
LEMMA MessageChanged ==
  ASSUME messages \in Seq(Message), NEW m \in Ids, NEW new \in Message,
         messages' = [messages EXCEPT ![m] = new]
  PROVE  /\ messages' \in Seq(Message) /\ Ids' = Ids /\ messages'[m] = new
         /\ \A x \in Ids : x # m => messages'[x] = messages[x]
  BY DEF Ids

(* Steps that only add to what is known: subscriptions begin or end, and   *)
(* the marks of sends and catchers change.                                 *)
LEMMA SubscriptionChanged ==
  ASSUME KnownInv, UNCHANGED <<messages, rows, touched>>, raced \subseteq raced',
         subs' \in [Channels -> {"none", "active", "inactive"}],
         \A c \in Channels : subs[c] # "none" => subs'[c] # "none",
         pending' \subseteq Send, \A q \in pending' : q.row =>
            (q.to \in Channels => subs'[q.to] # "none") \/ \E p \in pending : q.to = p.to /\ p.row,
         DOMAIN catching' = Catchers,
         \A k \in Catchers : /\ CatcherTyped(catching'[k])
                             /\ catching'[k].todo = catching[k].todo
                             /\ catching'[k].channels = catching[k].channels
  PROVE  KnownInv'
<1>1. \A to : Known(to) => Known(to)'
  BY DEF Known
<1>2. Typed'
  BY DEF KnownInv, Typed, CatcherTyped, Ids
<1>3. RowsOfKnownChannels'
  BY DEF KnownInv, Typed, RowsOfKnownChannels
<1>4. SendsKnown'
  BY <1>1 DEF KnownInv, SendsKnown, Committed, Known, Ids
<1>5. CatchersKnow'
  BY <1>1 DEF KnownInv, CatchersKnow
<1> QED
  BY <1>2, <1>3, <1>4, <1>5 DEF KnownInv

LEMMA KnownStep == KnownInv /\ [Next]_vars => KnownInv'
<1> SUFFICES ASSUME KnownInv, [Next]_vars PROVE KnownInv'
  OBVIOUS
<1> USE ConstantsAssumption
<1>1. ASSUME NEW to \in To, NEW needed \in BOOLEAN, ReadRecipients(to, needed) PROVE KnownInv'
  <2> DEFINE active == to \in Channels /\ subs[to] = "active"
             send == [Recipients(to, needed, active) EXCEPT !.raced = to \in Channels /\ Unlogged(to)]
  <2>1. pending' = pending \cup {send} /\ UNCHANGED <<messages, subs, rows, catching, raced, touched>>
    BY <1>1 DEF ReadRecipients
  <2>2. send \in Send /\ send.to = to /\ (send.row => to = DirectMessage \/ active)
    <3> DEFINE r == Recipients(to, needed, active)
               mark == to \in Channels /\ Unlogged(to)
    <3>1. active \in BOOLEAN /\ mark \in BOOLEAN
      OBVIOUS
    <3> HIDE DEF active
    <3>2. r \in Send /\ (r.row => to = DirectMessage \/ active) /\ r.to = to
      BY <3>1, RecipientsTyped
    <3>3. send = [r EXCEPT !.raced = mark]
      OBVIOUS
    <3> HIDE DEF r, send, mark
    <3> QED
      BY <3>1, <3>2, <3>3 DEF Send
  <2>3. send.row => Known(to)
    BY <2>2 DEF Known
  <2> HIDE DEF send, active
  <2> QED
    BY <2>1, <2>2, <2>3 DEF KnownInv, Typed, RowsOfKnownChannels, SendsKnown, Committed,
       CatchersKnow, Known, CatcherTyped, Ids
<1>2. ASSUME NEW send \in pending, InsertMessage(send) PROVE KnownInv'
  <2> DEFINE new == [to |-> send.to, eligible |-> send.eligible, row |-> send.row, state |-> "inserted"]
  <2>1. /\ pending' \subseteq pending /\ messages' = Append(messages, new) /\ raced \subseteq raced'
        /\ UNCHANGED <<subs, rows, catching, touched>>
    BY <1>2 DEF InsertMessage
  <2>2. new \in Message /\ (new.row => Known(new.to)) /\ new.state # "committed"
    BY DEF KnownInv, Typed, SendsKnown, Send, Message
  <2> HIDE DEF new
  <2>3. /\ messages' \in Seq(Message) /\ Ids' = Ids \cup {Len(messages) + 1}
        /\ \A m \in Ids : messages'[m] = messages[m]
        /\ messages'[Len(messages) + 1] = new
    BY <2>1, <2>2 DEF KnownInv, Typed, Ids
  <2>4. Typed'
    BY <2>1, <2>3 DEF KnownInv, Typed, CatcherTyped
  <2>5. RowsOfKnownChannels'
    BY <2>1, <2>3 DEF KnownInv, Typed, RowsOfKnownChannels
  <2>6. SendsKnown'
    BY <2>1, <2>2, <2>3 DEF KnownInv, SendsKnown, Committed, Known
  <2>7. CatchersKnow'
    BY <2>1, <2>3 DEF KnownInv, Typed, CatcherTyped, CatchersKnow, Known
  <2> QED
    BY <2>4, <2>5, <2>6, <2>7 DEF KnownInv
<1>3. ASSUME NEW m \in Ids, CommitSend(m) PROVE KnownInv'
  <2> DEFINE new == [messages[m] EXCEPT !.state = "committed", !.eligible = FALSE, !.row = FALSE]
  <2>1. /\ messages' = [messages EXCEPT ![m] = new]
        /\ rows' = IF messages[m].row THEN rows \cup {m} ELSE rows
        /\ UNCHANGED <<pending, subs, catching, raced, touched>>
    BY <1>3 DEF CommitSend
  <2>2. messages \in Seq(Message) /\ messages[m] \in Message
    BY DEF KnownInv, Typed, Ids
  <2>3. new \in Message /\ new.to = messages[m].to /\ ~ new.row
    BY <2>2 DEF Message
  <2> HIDE DEF new
  <2>4. /\ messages' \in Seq(Message) /\ Ids' = Ids /\ messages'[m] = new
        /\ \A x \in Ids : x # m => messages'[x] = messages[x]
    BY <2>1, <2>2, <2>3, MessageChanged
  <2>5. \A x \in Ids : messages'[x].to = messages[x].to
    BY <2>3, <2>4
  <2>6. Typed'
    BY <2>1, <2>4 DEF KnownInv, Typed, CatcherTyped
  <2>7. RowsOfKnownChannels'
    BY <2>1, <2>5 DEF KnownInv, Typed, RowsOfKnownChannels, SendsKnown, Known
  <2>8. SendsKnown'
    BY <2>1, <2>3, <2>4 DEF KnownInv, SendsKnown, Committed, Known
  <2>9. CatchersKnow'
    BY <2>1, <2>5 DEF KnownInv, Typed, CatcherTyped, CatchersKnow, Known
  <2> QED
    BY <2>6, <2>7, <2>8, <2>9 DEF KnownInv
<1>4. ASSUME NEW m \in Ids, RollBackSend(m) \/ Delete(m) PROVE KnownInv'
  <2>1. /\ messages' = [messages EXCEPT ![m] = Gone] /\ rows' \subseteq rows
        /\ raced' = raced \ {m} /\ UNCHANGED <<pending, subs, catching>>
        /\ touched' = touched \/ (touched' = touched \ {m} /\ m \notin rows')
    BY <1>4 DEF RollBackSend, Delete
  <2>2. Gone \in Message /\ Gone.to \notin Channels /\ ~ Gone.row
    BY DEF Gone, Message, To
  <2>3. /\ messages' \in Seq(Message) /\ Ids' = Ids /\ messages'[m] = Gone
        /\ \A x \in Ids : x # m => messages'[x] = messages[x]
    BY <2>1, <2>2, MessageChanged DEF KnownInv, Typed
  <2>4. Typed'
    BY <2>1, <2>3 DEF KnownInv, Typed, CatcherTyped
  <2>5. RowsOfKnownChannels'
    BY <2>1, <2>2, <2>3 DEF KnownInv, Typed, RowsOfKnownChannels
  <2>6. SendsKnown'
    BY <2>1, <2>2, <2>3 DEF KnownInv, SendsKnown, Committed, Known
  <2>7. CatchersKnow'
    BY <2>1, <2>2, <2>3 DEF KnownInv, Typed, CatcherTyped, CatchersKnow, Known
  <2> QED
    BY <2>4, <2>5, <2>6, <2>7 DEF KnownInv
<1>5. ASSUME NEW m \in Ids, TouchMessage(m) PROVE KnownInv'
  <2>1. /\ rows' = rows \cup {m} /\ touched' = touched \cup {m}
        /\ UNCHANGED <<messages, pending, subs, catching, raced>>
    BY <1>5 DEF TouchMessage
  <2> QED
    BY <2>1 DEF KnownInv, Typed, CatcherTyped, Ids, RowsOfKnownChannels, SendsKnown,
        Committed, CatchersKnow, Known
<1>6. ASSUME NEW m \in Ids, NEW c \in Channels, Move(m, c) PROVE KnownInv'
  <2> DEFINE new == [messages[m] EXCEPT !.to = c]
             losing == subs[messages[m].to] # "none" /\ subs[c] # "active"
             gaining == privacy[c] = "protected" /\ subs[c] = "active"
  <2>1. /\ m \in Committed /\ messages[m].to \in Channels
        /\ messages' = [messages EXCEPT ![m] = new]
        /\ rows' = IF losing THEN rows \ {m} ELSE IF gaining THEN rows \cup {m} ELSE rows
        /\ raced' = IF \E k \in Catchers : m \in catching[k].todo THEN raced \cup {m} ELSE raced
        /\ UNCHANGED <<pending, subs, catching, touched>>
    BY <1>6 DEF Move
  <2>2. messages \in Seq(Message) /\ messages[m] \in Message
    BY DEF KnownInv, Typed, Ids
  <2>3. new \in Message /\ new.to = c /\ new.row = messages[m].row
    BY <2>2 DEF Message, To
  <2> HIDE DEF new
  <2>4. /\ messages' \in Seq(Message) /\ Ids' = Ids /\ messages'[m] = new
        /\ \A x \in Ids : x # m => messages'[x] = messages[x]
    BY <2>1, <2>2, <2>3, MessageChanged
  <2>5. Typed'
    BY <2>1, <2>4 DEF KnownInv, Typed, CatcherTyped
  <2>6. RowsOfKnownChannels'
    <3>1. m \in rows' \ (raced' \cup touched') => subs[c] # "none"
      BY <2>1 DEF KnownInv, RowsOfKnownChannels
    <3> QED
      BY <2>1, <2>3, <2>4, <3>1 DEF KnownInv, Typed, RowsOfKnownChannels
  <2>7. SendsKnown'
    BY <2>1, <2>3, <2>4 DEF KnownInv, SendsKnown, Committed, Known
  <2>8. CatchersKnow'
    BY <2>1, <2>4 DEF KnownInv, Typed, CatcherTyped, CatchersKnow, Known
  <2> QED
    BY <2>5, <2>6, <2>7, <2>8 DEF KnownInv
<1>7. ASSUME NEW c \in Channels, Subscribe(c) PROVE KnownInv'
  <2>1. /\ UNCHANGED <<messages, rows, touched>> /\ raced \subseteq raced'
        /\ subs' = [subs EXCEPT ![c] = "active"] /\ catching' = Overtakes(c)
        /\ pending' = PendingOvertaken(c)
    BY <1>7 DEF Subscribe, Activate
  <2> QED
    BY <2>1, PendingKept, CatchersKept, SubscriptionChanged DEF KnownInv, Typed
<1>8. ASSUME NEW c \in Channels, NEW b \in BOOLEAN, Unsubscribe(c, b) PROVE KnownInv'
  <2>1. /\ UNCHANGED <<messages, rows, touched>> /\ raced \subseteq raced'
        /\ subs' = [subs EXCEPT ![c] = "inactive"] /\ catching' = Overtakes(c)
        /\ pending' = PendingOvertaken(c)
    BY <1>8 DEF Unsubscribe
  <2> QED
    BY <2>1, PendingKept, CatchersKept, SubscriptionChanged DEF KnownInv, Typed
<1>9. ASSUME NEW c \in Channels, DeactivateChannel(c) PROVE KnownInv'
  <2>1. /\ UNCHANGED <<messages, rows, touched>> /\ raced \subseteq raced'
        /\ subs' = [subs EXCEPT ![c] = IF subs[c] = "active" THEN "inactive" ELSE subs[c]]
        /\ catching' = Overtakes(c) /\ pending' = PendingOvertaken(c)
    BY <1>9 DEF DeactivateChannel
  <2> QED
    BY <2>1, PendingKept, CatchersKept, SubscriptionChanged DEF KnownInv, Typed
<1>10. ASSUME NEW c \in Channels, NEW b \in BOOLEAN, UnarchiveChannel(c, b) PROVE KnownInv'
  <2> DEFINE send == [Recipients(c, FALSE, b) EXCEPT !.raced = ~ b /\ Unlogged(c)]
  <2>1. send \in Send /\ send.to = c /\ (send.row => c = DirectMessage \/ b)
    <3> DEFINE r == Recipients(c, FALSE, b)
               mark == ~ b /\ Unlogged(c)
    <3>1. c \in To /\ mark \in BOOLEAN
      BY DEF To
    <3>2. r \in Send /\ (r.row => c = DirectMessage \/ b) /\ r.to = c
      BY <3>1, RecipientsTyped
    <3>3. send = [r EXCEPT !.raced = mark]
      OBVIOUS
    <3> HIDE DEF r, send, mark
    <3> QED
      BY <3>1, <3>2, <3>3 DEF Send
  <2>2. /\ UNCHANGED <<messages, rows, touched>> /\ raced \subseteq raced'
        /\ subs' = IF b THEN [subs EXCEPT ![c] = "active"] ELSE subs
        /\ catching' = IF b THEN Overtakes(c) ELSE catching
        /\ pending' = PendingOvertaken(c) \cup {send}
    BY <1>10 DEF UnarchiveChannel, Activate
  <2>3. send.row => subs'[c] # "none"
    BY <2>1, <2>2 DEF KnownInv, Typed
  <2> HIDE DEF send
  <2>4. /\ pending' \subseteq Send
        /\ \A q \in pending' : q.row =>
            (q.to \in Channels => subs'[q.to] # "none") \/ \E p \in pending : q.to = p.to /\ p.row
    BY <2>1, <2>2, <2>3, PendingKept DEF KnownInv, Typed
  <2>5. /\ DOMAIN catching' = Catchers
        /\ \A k \in Catchers : /\ CatcherTyped(catching'[k])
                               /\ catching'[k].todo = catching[k].todo
                               /\ catching'[k].channels = catching[k].channels
    BY <2>2, CatchersKept DEF KnownInv, Typed
  <2>6. /\ subs' \in [Channels -> {"none", "active", "inactive"}]
        /\ \A x \in Channels : subs[x] # "none" => subs'[x] # "none"
    BY <2>2 DEF KnownInv, Typed
  <2> QED
    BY <2>2, <2>4, <2>5, <2>6, SubscriptionChanged
<1>11. CASE SoftDeactivate \/ UNCHANGED vars
  <2>1. UNCHANGED <<messages, pending, subs, rows, catching, raced, touched>>
    BY <1>11 DEF SoftDeactivate, vars
  <2> QED
    BY <2>1 DEF KnownInv, Typed, CatcherTyped, Ids, RowsOfKnownChannels, SendsKnown,
        Committed, CatchersKnow, Known
<1>12. ASSUME NEW k \in Catchers, ReadLogs(k) PROVE KnownInv'
  <2>1. /\ UNCHANGED <<messages, pending, subs, rows, raced, touched>>
        /\ DOMAIN catching' = Catchers /\ \A x \in Catchers : x # k => catching'[x] = catching[x]
        /\ catching'[k].todo = {} /\ CatcherTyped(catching'[k])
        /\ \A c \in catching'[k].channels : c \in Channels /\ subs[c] # "none"
    BY <1>12 DEF ReadLogs, NotCatching, KnownInv, Typed, CatcherTyped, Fields
  <2> QED
    BY <2>1 DEF KnownInv, Typed, CatcherTyped, Ids, RowsOfKnownChannels, SendsKnown,
        Committed, CatchersKnow, Known
<1>13. ASSUME NEW k \in Catchers, ReadMessages(k) PROVE KnownInv'
  <2> DEFINE missing(c) == {m \in Committed \ rows : messages[m].to = c /\ m > catching[k].last}
             found == UNION {filter_by_subscription_history(missing(c), catching[k].logs[c]) :
                        c \in {c \in catching[k].channels : missing(c) # {}}}
  <2>1. \A m \in found : m \in Ids /\ messages[m].to \in catching[k].channels
    BY DEF filter_by_subscription_history, Committed
  <2>2. catching' = [catching EXCEPT ![k] =
           [NotCatching EXCEPT !.step = "insert", !.todo = found, !.seen = Committed]]
    BY <1>13 DEF ReadMessages
  <2> HIDE DEF found
  <2>3. /\ UNCHANGED <<messages, pending, subs, rows, touched>> /\ raced \subseteq raced'
    BY <1>13 DEF ReadMessages
  <2>4. /\ DOMAIN catching' = Catchers /\ \A x \in Catchers : x # k => catching'[x] = catching[x]
        /\ catching'[k].todo = found /\ catching'[k].channels = {}
        /\ Fields \subseteq DOMAIN catching'[k]
    BY <2>2 DEF NotCatching, KnownInv, Typed, Fields
  <2>5. \A m \in found : Known(messages[m].to)
    BY <2>1 DEF KnownInv, CatchersKnow
  <2> QED
    BY <2>1, <2>3, <2>4, <2>5
    DEF KnownInv, Typed, CatcherTyped, Ids, RowsOfKnownChannels, SendsKnown,
        Committed, CatchersKnow, Known
<1>14. ASSUME NEW k \in Catchers, InsertBatch(k) PROVE KnownInv'
  <2>1. /\ UNCHANGED <<messages, pending, subs, touched>> /\ raced \subseteq raced'
        /\ rows \subseteq rows' /\ rows' \subseteq rows \cup catching[k].todo
        /\ DOMAIN catching' = Catchers /\ \A x \in Catchers : x # k => catching'[x] = catching[x]
        /\ CatcherTyped(catching'[k]) /\ catching'[k].todo \subseteq catching[k].todo
        /\ catching'[k].channels \subseteq catching[k].channels
    <3> DEFINE batch == {m \in catching[k].todo :
                  Cardinality({x \in catching[k].todo : x < m}) < BULK_CREATE_BATCH_SIZE}
    <3>1. /\ UNCHANGED <<messages, pending, subs, touched>> /\ batch \subseteq catching[k].todo
          /\ CatcherTyped(catching[k]) /\ DOMAIN catching = Catchers
      BY <1>14 DEF InsertBatch, KnownInv, Typed
    <3>2. \/ /\ rows' = rows \cup batch /\ raced \subseteq raced'
             /\ catching' = [catching EXCEPT ![k].todo = catching[k].todo \ batch]
          \/ /\ rows' = rows /\ raced' = raced
             /\ catching' = [catching EXCEPT ![k] = NotCatching]
      BY <1>14 DEF InsertBatch
    <3> HIDE DEF batch
    <3>3. CASE catching' = [catching EXCEPT ![k].todo = catching[k].todo \ batch]
      <4>1. /\ catching'[k].todo = catching[k].todo \ batch
            /\ catching'[k].channels = catching[k].channels
            /\ Fields \subseteq DOMAIN catching'[k]
            /\ DOMAIN catching' = Catchers /\ \A x \in Catchers : x # k => catching'[x] = catching[x]
        BY <3>1, <3>3 DEF CatcherTyped, Fields
      <4> QED
        BY <3>1, <3>2, <4>1 DEF CatcherTyped, Ids
    <3>4. CASE catching' = [catching EXCEPT ![k] = NotCatching]
      <4>1. /\ catching'[k].todo = {} /\ catching'[k].channels = {}
            /\ Fields \subseteq DOMAIN catching'[k]
            /\ DOMAIN catching' = Catchers /\ \A x \in Catchers : x # k => catching'[x] = catching[x]
        BY <3>1, <3>4 DEF NotCatching, Fields
      <4> QED
        BY <3>1, <3>2, <4>1 DEF CatcherTyped, Ids
    <3> QED
      BY <3>2, <3>3, <3>4
  <2> QED
    BY <2>1 DEF KnownInv, Typed, CatcherTyped, Ids, RowsOfKnownChannels, SendsKnown,
        Committed, CatchersKnow, Known
<1>15. ASSUME NEW k \in Catchers, NEW reactivates \in BOOLEAN, FinishCatchUp(k, reactivates)
       PROVE  KnownInv'
  <2>1. /\ UNCHANGED <<messages, subs, rows, touched>> /\ raced \subseteq raced'
        /\ DOMAIN catching' = Catchers /\ \A x \in Catchers : x # k => catching'[x] = catching[x]
        /\ CatcherTyped(catching'[k]) /\ catching'[k].todo = {} /\ catching'[k].channels = {}
    BY <1>15 DEF FinishCatchUp, NotCatching, KnownInv, Typed, CatcherTyped, Fields
  <2>2. \/ pending' = pending
        \/ pending' = {[p EXCEPT !.raced = p.raced \/ ~ p.row] : p \in pending}
    BY <1>15 DEF FinishCatchUp
  <2>3. pending' \subseteq Send /\ \A q \in pending' : q.row => Known(q.to)
    BY <2>2 DEF KnownInv, Typed, SendsKnown, Send
  <2> QED
    BY <2>1, <2>3
    DEF KnownInv, Typed, CatcherTyped, Ids, RowsOfKnownChannels, SendsKnown,
        Committed, CatchersKnow, Known
<1> QED
  BY <1>1, <1>2, <1>3, <1>4, <1>5, <1>6, <1>7, <1>8, <1>9, <1>10, <1>11, <1>12, <1>13, <1>14,
     <1>15 DEF Next, To

LEMMA KnownInit == Init => KnownInv
<1> SUFFICES ASSUME Init PROVE KnownInv
  OBVIOUS
<1>1. messages \in Seq(Message) /\ Ids = {}
  BY DEF Init, Ids
<1>2. subs \in [Channels -> {"none", "active", "inactive"}]
  BY DEF Init
<1>3. DOMAIN catching = Catchers /\ \A k \in Catchers : /\ CatcherTyped(catching[k])
         /\ catching[k].todo = {} /\ catching[k].channels = {}
  BY DEF Init, CatcherTyped, NotCatching, Fields
<1>4. pending = {} /\ rows = {}
  BY DEF Init
<1> QED
  BY <1>1, <1>2, <1>3, <1>4
  DEF KnownInv, Typed, RowsOfKnownChannels, SendsKnown, Committed, CatchersKnow

(* Neither a send that read its recipients long before it commits, nor     *)
(* add_missing_messages, nor moving a message (do_update_message) leaves   *)
(* the user with a row for a message of a channel in which the user never  *)
(* was, but for the exceptions of RowsOfKnownChannels.                     *)
THEOREM RowsCorrect == Spec => []RowsOfKnownChannels
<1>1. KnownInv => RowsOfKnownChannels
  BY DEF KnownInv
<1> QED
  BY <1>1, KnownInit, KnownStep, PTL DEF Spec

-----------------------------------------------------------------------------
(* The user has the rows of the twin.                                      *)

Types == {"created", "activated", "deactivated"}
Entry == [type : Types, last : Int]

(* The number of the last message is an upper bound of all that is known.  *)
LogTyped(es) == es \in Seq(Entry) /\ \A i \in DOMAIN es : es[i].last <= Len(messages)

TablesTyped ==
  /\ {rows, twin} \subseteq SUBSET Committed
  /\ user \in [idle : BOOLEAN, last : Int] /\ user.last <= Len(messages)
  /\ logs \in [Channels -> Seq(Entry)] /\ \A c \in Channels : LogTyped(logs[c])
  /\ archived \in [Channels -> BOOLEAN]

(* Subscriptions and their log: only an archived channel ends one without  *)
(* an entry.                                                               *)
SubscriptionsLogged ==
  \A c \in Channels :
    /\ subs[c] = "none" <=> logs[c] = <<>>
    /\ subs[c] = "active" => Last(logs[c]).type # "deactivated" /\ ~ archived[c]

(* The messages without a row to which no exception applies.               *)
Open == {m \in Ids \ rows : messages[m].state # "gone" /\ ~ Excepted(m)}

(* Whether the twin has a row or gets it when the send commits, and        *)
(* whether the user does not.                                              *)
Entitled(m) == IF messages[m].state = "committed" THEN m \in twin ELSE messages[m].eligible
Behind(m) == Entitled(m) /\ ~ (messages[m].state = "inserted" /\ messages[m].row)

BehindSince(id) == \A m \in Open : Behind(m) => m > id

(* The history of the subscription tells who is entitled.                  *)
Wanted(m, entries) == entries # <<>> /\ m \in filter_by_subscription_history({m}, entries)

HistoryTells == \A m \in Open : messages[m].to \in Channels => (Entitled(m) <=> Wanted(m, logs[messages[m].to]))

DirectHaveRows == \A m \in Open : messages[m].to = DirectMessage => ~ Behind(m)

(* A send that nothing has overtaken knows the state of the subscription.  *)
SendRight(p) ==
  /\ p.to \in Channels => /\ p.eligible <=> logs[p.to] # <<>> /\ Last(logs[p.to]).type # "deactivated"
                          /\ ~ Unlogged(p.to)
  /\ p.to = DirectMessage \/ ~ user.idle => (p.eligible => p.row)

PendingRight ==
  /\ \A p \in pending : (p.row => p.eligible) /\ (~ p.raced => SendRight(p))
  /\ \A m \in Ids : messages[m].row => messages[m].eligible

(* A subscription that has ended without an entry has no open sends.       *)
UnloggedAreRaced ==
  \A c \in Channels : Unlogged(c) => \A m \in Open : messages[m].to = c => messages[m].state # "inserted"

NoOthers == \A m \in rows \ twin : Excepted(m)

CaughtUp == IF user.idle THEN BehindSince(user.last) ELSE \A m \in Open : ~ Behind(m)

(* What a catcher has read of the log.                                     *)
LogsRight(x) ==
  /\ x.last \in Int /\ x.last <= Len(messages) /\ BehindSince(x.last)
  /\ x.seen \subseteq Ids /\ DOMAIN x.logs = Channels
  /\ \A m \in Open \cap x.seen : messages[m].to \in Channels =>
       (Entitled(m) <=> Wanted(m, x.logs[messages[m].to]))
  /\ \A c \in Channels : InOrder(c) =>
       /\ c \notin x.stale => x.logs[c] = logs[c]
       /\ LogTyped(x.logs[c]) /\ Ascending(x.logs[c])
       /\ c \in x.channels <=>
            x.logs[c] # <<>> /\ ~ (Last(x.logs[c]).type = "deactivated" /\ Last(x.logs[c]).last <= x.last)

(* What it is going to insert.                                             *)
TodoRight(x) ==
  /\ x.todo \subseteq x.seen
  /\ \A m \in x.seen : m \in Ids /\ messages[m].state # "inserted"
  /\ \A m \in Open \cap x.seen : m \in x.todo <=> m \in twin

CatcherRight(x) == (x.step = "logs" => LogsRight(x)) /\ (x.step = "insert" => TodoRight(x))

CatchersRight == \A k \in Catchers : CatcherRight(catching[k])

TwinInv ==
  /\ KnownInv /\ TablesTyped /\ SubscriptionsLogged /\ HistoryTells /\ DirectHaveRows
  /\ PendingRight /\ UnloggedAreRaced /\ NoOthers /\ CaughtUp /\ CatchersRight

-----------------------------------------------------------------------------
(* What the operators on ids and logs return.                              *)

(* A nonempty set of ids has a maximum: the member with the smallest       *)
(* distance from the bound.                                                *)
LEMMA HasMax ==
  ASSUME NEW n \in Nat, NEW S, S \subseteq 1..n, S # {}
  PROVE  Max(S) \in S /\ \A y \in S : y <= Max(S)
<1> DEFINE D == {n - y : y \in S}
<1>1. D \subseteq Nat /\ D # {}
  <2>1. \A y \in S : n - y \in Nat
    OBVIOUS
  <2> QED
    BY <2>1
<1>2. \A y \in S : n - y \in D
  OBVIOUS
<1> HIDE DEF D
<1>3. PICK d \in D : \A e \in D : ~ (<<e, d>> \in OpToRel(<, Nat))
  BY <1>1, WFMin, NatLessThanWellFounded
<1>4. ASSUME NEW e \in D PROVE d <= e
  <2> SUFFICES ASSUME e < d PROVE FALSE
    BY <1>1
  <2>1. <<e, d>> \in OpToRel(<, Nat)
    BY <1>1 DEF OpToRel
  <2> QED
    BY <1>3, <2>1, Zenon
<1>5. PICK x \in S : d = n - x
  BY DEF D
<1>6. \A y \in S : x >= y
  BY <1>2, <1>4, <1>5
<1> QED
  BY <1>6 DEF Max

(* Every committed message is at most get_last_message_id, which is known. *)
LEMMA LastMessageId ==
  ASSUME messages \in Seq(Message)
  PROVE  /\ get_last_message_id \in Int /\ get_last_message_id <= Len(messages)
         /\ \A m \in Committed : m <= get_last_message_id
<1>1. Committed \subseteq 1..Len(messages) /\ Len(messages) \in Nat
  BY DEF Committed, Ids
<1>2. CASE Committed = {}
  BY <1>1, <1>2 DEF get_last_message_id, MaxOr
<1>3. CASE Committed # {}
  <2>1. Max(Committed) \in Committed /\ \A m \in Committed : m <= Max(Committed)
    BY <1>1, <1>3, HasMax
  <2>2. get_last_message_id = Max(Committed)
    BY <1>3 DEF get_last_message_id, MaxOr
  <2>3. Max(Committed) \in 1..Len(messages)
    BY <1>1, <2>1
  <2> QED
    BY <1>1, <2>1, <2>2, <2>3
<1> QED
  BY <1>2, <1>3

LEMMA EntriesTyped ==
  ASSUME NEW es \in Seq(Entry)
  PROVE  /\ DOMAIN es = 1..Len(es) /\ Len(es) \in Nat
         /\ \A i \in DOMAIN es : es[i] \in Entry /\ es[i].last \in Int
<1>1. \A i \in DOMAIN es : es[i] \in Entry
  OBVIOUS
<1> QED
  BY <1>1 DEF Entry

(* Entries that ascend are in the order of add_missing_messages.           *)
LEMMA OrderedSame ==
  ASSUME NEW es \in Seq(Entry), Ascending(es)
  PROVE  Ordered(es) = es
<1> DEFINE Rank(i) == Cardinality({j \in DOMAIN es : ~ Precedes(es, i, j)})
<1>1. DOMAIN es = 1..Len(es) /\ Len(es) \in Nat /\ \A i \in DOMAIN es : es[i].last \in Int
  BY EntriesTyped
<1>2. \A i, j \in DOMAIN es : Precedes(es, i, j) <=> i < j
  BY <1>1 DEF Precedes, Ascending
<1>3. ASSUME NEW i \in DOMAIN es PROVE Rank(i) = i
  <2>1. {j \in DOMAIN es : ~ Precedes(es, i, j)} = 1..i
    BY <1>1, <1>2
  <2>2. Cardinality(1..i) = i
    BY <1>1, FS_Interval
  <2> QED
    BY <2>1, <2>2
<1> HIDE DEF Rank
<1>4. \A n \in DOMAIN es : (CHOOSE i \in DOMAIN es : Rank(i) = n) = n
  BY <1>3
<1>5. Ordered(es) = [n \in DOMAIN es |-> es[CHOOSE i \in DOMAIN es : Rank(i) = n]]
  BY DEF Ordered, Rank
<1>6. Ordered(es) = [n \in DOMAIN es |-> es[n]]
  BY <1>4, <1>5
<1> QED
  BY <1>1, <1>6

LEMMA EntryAppended ==
  ASSUME NEW es \in Seq(Entry), NEW e \in Entry
  PROVE  LET new == Append(es, e)
         IN  /\ new \in Seq(Entry) /\ new # <<>> /\ Last(new) = e
             /\ Len(new) = Len(es) + 1 /\ DOMAIN new = DOMAIN es \cup {Len(es) + 1}
             /\ \A i \in DOMAIN es : new[i] = es[i]
             /\ Ascending(new) => Ascending(es)
  BY DEF Last, Ascending

(* filter_by_subscription_history looks at one message at a time.          *)
LEMMA FilterOfOne ==
  ASSUME NEW ids, NEW es, NEW m
  PROVE  /\ m \in filter_by_subscription_history(ids, es)
              <=> m \in ids /\ m \in filter_by_subscription_history({m}, es)
         /\ m \in filter_by_subscription_history({m}, es) <=>
              \/ \E i \in DOMAIN es : es[i].type = "deactivated" /\ m <= es[i].last /\ Begun(m, es, i)
              \/ Last(es).type # "deactivated" /\ Begun(m, es, Len(es))
  BY DEF filter_by_subscription_history

(* An entry written when the message was there already does not change     *)
(* whether it is wanted, if subscribing and unsubscribing alternate.       *)
LEMMA WantedAfter ==
  ASSUME NEW es \in Seq(Entry), NEW e \in Entry, NEW m \in Nat, m <= e.last,
         e.type = "deactivated" => es # <<>> /\ Last(es).type # "deactivated"
  PROVE  /\ Wanted(m, Append(es, e)) => Wanted(m, es)
         /\ e.type = "deactivated" \/ es = <<>> \/ Last(es).type = "deactivated" =>
              (Wanted(m, es) => Wanted(m, Append(es, e)))
<1> DEFINE new == Append(es, e)
           n == Len(es) + 1
<1>1. /\ new # <<>> /\ Last(new) = e /\ new[n] = e /\ Len(new) = n /\ DOMAIN new = DOMAIN es \cup {n}
      /\ DOMAIN es = 1..Len(es) /\ Len(es) \in Nat /\ \A i \in DOMAIN es : new[i] = es[i]
  BY EntryAppended
<1> HIDE DEF new, n
<1>2. n = Len(es) + 1
  BY DEF n
<1>3. \A i \in 1..Len(es) : Begun(m, new, i) <=> Begun(m, es, i)
  BY <1>1 DEF Begun
<1>4. Begun(m, new, n) <=> Begun(m, es, Len(es)) /\ e.type = "deactivated"
  <2>1. e.last \in Int /\ ~ m > e.last
    BY DEF Entry
  <2> QED
    BY <1>1, <1>2, <2>1 DEF Begun
<1>5. Wanted(m, new) <=> \/ \E i \in 1..Len(es) : es[i].type = "deactivated" /\ m <= es[i].last /\ Begun(m, es, i)
                         \/ e.type = "deactivated" /\ Begun(m, es, Len(es))
  BY <1>1, <1>2, <1>3, <1>4, FilterOfOne DEF Wanted
<1>6. Wanted(m, es) <=> /\ es # <<>>
                        /\ \/ \E i \in 1..Len(es) : es[i].type = "deactivated" /\ m <= es[i].last /\ Begun(m, es, i)
                           \/ Last(es).type # "deactivated" /\ Begun(m, es, Len(es))
  BY <1>1, FilterOfOne DEF Wanted
<1>7. es = <<>> => 1..Len(es) = {}
  OBVIOUS
<1> QED
  BY <1>5, <1>6, <1>7 DEF new

(* A message that is newer than all entries is wanted if the last of them  *)
(* is not the end of a subscription.                                       *)
LEMMA WantedNew ==
  ASSUME NEW es \in Seq(Entry), NEW m \in Nat, \A i \in DOMAIN es : es[i].last < m
  PROVE  Wanted(m, es) <=> es # <<>> /\ Last(es).type # "deactivated"
<1>1. \A i \in DOMAIN es : ~ m <= es[i].last
  BY EntriesTyped
<1>2. Begun(m, es, Len(es))
  BY <1>1 DEF Begun
<1> QED
  BY <1>1, <1>2, FilterOfOne DEF Wanted

(* None is wanted that is newer than the end of the subscription.          *)
LEMMA WantedBeforeEnd ==
  ASSUME NEW es \in Seq(Entry), Ascending(es), NEW m \in Nat, Wanted(m, es),
         Last(es).type = "deactivated"
  PROVE  m <= Last(es).last
<1>1. PICK i \in DOMAIN es : m <= es[i].last
  BY FilterOfOne DEF Wanted
<1>2. es[i].last <= Last(es).last /\ es[i].last \in Int /\ Last(es).last \in Int
  <2>1. Len(es) \in DOMAIN es /\ i <= Len(es) /\ Last(es) = es[Len(es)] /\ es[i] \in Entry /\ es[Len(es)] \in Entry
    BY DEF Last
  <2> QED
    BY <2>1 DEF Ascending, Entry
<1> QED
  BY <1>1, <1>2

(* A batch has the oldest messages.                                        *)
LEMMA BatchIsOldest ==
  ASSUME NEW n \in Nat, NEW todo, todo \subseteq 1..n, NEW size \in Nat, NEW b \in todo,
         Cardinality({x \in todo : x < b}) < size, NEW m \in todo, m <= b
  PROVE  Cardinality({x \in todo : x < m}) < size
<1> DEFINE S == {x \in todo : x < b}
           T == {x \in todo : x < m}
<1>1. S \in SUBSET (1..n) /\ T \in SUBSET S
  <2>1. m \in Int /\ b \in Int /\ \A x \in todo : x \in 1..n /\ x \in Int
    OBVIOUS
  <2>2. \A x \in todo : x < m => x < b
    BY <2>1
  <2> QED
    BY <2>1, <2>2
<1> HIDE DEF S, T
<1>0. IsFiniteSet(1..n)
  BY FS_Interval
<1>2. IsFiniteSet(S)
  BY <1>0, <1>1, FS_Subset
<1>3. IsFiniteSet(T) /\ Cardinality(T) <= Cardinality(S)
  BY <1>1, <1>2, FS_Subset
<1>4. Cardinality(S) \in Nat /\ Cardinality(T) \in Nat
  BY <1>2, <1>3, FS_CardinalityType
<1>5. Cardinality(S) < size
  BY DEF S
<1>6. Cardinality(T) < size
  BY <1>3, <1>4, <1>5
<1> QED
  BY <1>6 DEF T

-----------------------------------------------------------------------------
(* Steps that take nothing from anybody: no other messages come to be      *)
(* without a row, exempt or not, and nobody's right to one changes.        *)
Passes(m) ==
  m \in Open' => /\ m \in Open /\ messages'[m].to = messages[m].to
                 /\ Entitled(m)' <=> Entitled(m)
                 /\ Behind(m)' => Behind(m)

Calm ==
  /\ Len(messages) <= Len(messages')
  /\ \A m \in Ids : Passes(m) /\ (messages'[m].state = "inserted" => messages[m].state = "inserted")
  /\ \A c \in Channels : InOrder(c)' => InOrder(c)

Same(x, y) ==
  /\ y.step = x.step /\ y.last = x.last /\ y.logs = x.logs /\ y.seen = x.seen
  /\ y.todo = x.todo /\ y.channels = x.channels /\ x.stale \subseteq y.stale

LEMMA MessagesTyped ==
  ASSUME messages \in Seq(Message)
  PROVE  /\ Ids = 1..Len(messages) /\ Len(messages) \in Nat
         /\ \A m \in Ids : m \in Nat /\ messages[m] \in Message
         /\ \A m \in Ids : /\ messages[m].to \in To /\ messages[m].eligible \in BOOLEAN
                           /\ messages[m].row \in BOOLEAN
                           /\ messages[m].state \in {"inserted", "committed", "gone"}
<1>1. \A m \in Ids : messages[m] \in Message
  BY DEF Ids
<1> QED
  BY <1>1 DEF Ids, Message

LEMMA OpenFacts ==
  ASSUME messages \in Seq(Message), NEW m \in Open
  PROVE  /\ m \in Ids /\ m \notin rows /\ messages[m].state \in {"inserted", "committed"}
         /\ m \notin raced /\ m \notin moved
         /\ messages[m].to \in Channels => InOrder(messages[m].to)
  BY MessagesTyped DEF Open, Excepted

(* Messages to which no exception applies are those before, if the         *)
(* exceptions grow.                                                        *)
LEMMA ExceptionsGrow ==
  ASSUME NEW m, m \in raced => m \in raced', moved \subseteq moved',
         messages'[m].to = messages[m].to,
         \A c \in Channels : InOrder(c)' => InOrder(c)
  PROVE  Excepted(m) => Excepted(m)'
  BY DEF Excepted

(* Steps that leave the tables of messages and rows alone, and add         *)
(* exceptions, are calm.                                                   *)
LEMMA CalmIfUnchanged ==
  ASSUME messages \in Seq(Message), UNCHANGED <<messages, twin>>, rows \subseteq rows',
         raced \subseteq raced', moved \subseteq moved',
         \A c \in Channels : InOrder(c)' => InOrder(c)
  PROVE  Calm
<1>1. \A m \in Ids : Excepted(m) => Excepted(m)'
  BY ExceptionsGrow
<1>2. \A m \in Ids : (Entitled(m)' <=> Entitled(m)) /\ (Behind(m)' <=> Behind(m))
  BY DEF Entitled, Behind
<1>3. \A m \in Ids : m \in Open' => m \in Open
  BY <1>1 DEF Open, Ids
<1>4. Len(messages) <= Len(messages')
  BY MessagesTyped
<1> QED
  BY <1>2, <1>3, <1>4 DEF Calm, Passes

LEMMA BehindSinceStays ==
  ASSUME messages \in Seq(Message), messages' \in Seq(Message), Calm,
         NEW id \in Int, id <= Len(messages), BehindSince(id)
  PROVE  BehindSince(id)'
<1>1. SUFFICES ASSUME NEW m \in Open', Behind(m)' PROVE m > id
  BY DEF BehindSince
<1>2. m \in Ids' /\ Ids' = 1..Len(messages') /\ Ids = 1..Len(messages) /\ Len(messages) \in Nat /\ Len(messages') \in Nat
  BY MessagesTyped DEF Open, Ids
<1>3. CASE m \in Ids
  BY <1>1, <1>3 DEF Calm, Passes, BehindSince
<1>4. CASE m \notin Ids
  BY <1>2, <1>4
<1> QED
  BY <1>3, <1>4

(* What a catcher knows stays right through such a step of others.         *)
LEMMA CatcherStays ==
  ASSUME messages \in Seq(Message), messages' \in Seq(Message), Calm, NEW k,
         CatcherRight(catching[k]), Same(catching[k], catching'[k]),
         \A c \in Channels : InOrder(c)' => logs'[c] = logs[c] \/ c \in catching'[k].stale \/ catching[k].step # "logs"
  PROVE  CatcherRight(catching[k])'
<1> DEFINE x == catching[k]
<1>1. /\ Ids = 1..Len(messages) /\ Ids' = 1..Len(messages') /\ Len(messages) \in Nat
      /\ Len(messages') \in Nat /\ Len(messages) <= Len(messages') /\ Ids \subseteq Ids'
  BY MessagesTyped DEF Ids, Calm
<1>2. ASSUME x'.step = "logs" PROVE LogsRight(x)'
  <2>1. LogsRight(x)
    BY <1>2 DEF Same, CatcherRight
  <2>2. x'.last \in Int /\ x'.last <= Len(messages') /\ BehindSince(x.last)'
    <3>1. x.last \in Int /\ x.last <= Len(messages) /\ BehindSince(x.last)
      BY <2>1 DEF LogsRight
    <3>2. x'.last = x.last
      BY DEF Same
    <3>3. PICK id : id = x.last
      OBVIOUS
    <3>4. BehindSince(id)'
      BY <3>1, <3>3, BehindSinceStays
    <3> QED
      BY <1>1, <3>1, <3>2, <3>3, <3>4 DEF BehindSince
  <2>3. x'.seen \subseteq Ids' /\ DOMAIN x'.logs = Channels
    BY <1>1, <2>1 DEF Same, LogsRight
  <2>4. ASSUME NEW m \in Open', m \in x'.seen, messages'[m].to \in Channels
        PROVE  Entitled(m)' <=> Wanted(m, x'.logs[messages'[m].to])
    BY <2>1, <2>4 DEF Same, LogsRight, Calm, Passes
  <2>5. ASSUME NEW c \in Channels, InOrder(c)'
        PROVE  /\ c \notin x'.stale => x'.logs[c] = logs'[c]
               /\ LogTyped(x.logs[c])' /\ Ascending(x'.logs[c])
               /\ c \in x'.channels <=>
                    x'.logs[c] # <<>> /\ ~ (Last(x'.logs[c]).type = "deactivated" /\ Last(x'.logs[c]).last <= x'.last)
    <3>1. InOrder(c) /\ x'.logs = x.logs /\ x'.channels = x.channels /\ x'.last = x.last /\ x.stale \subseteq x'.stale
          /\ x.step = "logs"
      BY <1>2, <2>5 DEF Same, Calm
    <3>2. /\ c \notin x.stale => x.logs[c] = logs[c]
          /\ LogTyped(x.logs[c]) /\ Ascending(x.logs[c])
          /\ c \in x.channels <=>
               x.logs[c] # <<>> /\ ~ (Last(x.logs[c]).type = "deactivated" /\ Last(x.logs[c]).last <= x.last)
      BY <2>1, <3>1 DEF LogsRight
    <3>3. LogTyped(x.logs[c])'
      <4>0. x'.logs[c] = x.logs[c] /\ x.logs[c] \in Seq(Entry)
        BY <3>1, <3>2 DEF LogTyped
      <4>1. \A i \in DOMAIN x.logs[c] : x.logs[c][i].last \in Int /\ x.logs[c][i].last <= Len(messages)
        BY <3>2, EntriesTyped DEF LogTyped
      <4> QED
        BY <1>1, <4>0, <4>1 DEF LogTyped
    <3>4. c \notin x'.stale => logs'[c] = logs[c]
      BY <2>5, <3>1
    <3> QED
      BY <3>1, <3>2, <3>3, <3>4
  <2> QED
    BY <2>2, <2>3, <2>4, <2>5 DEF LogsRight
<1>3. ASSUME x'.step = "insert" PROVE TodoRight(x)'
  <2>1. TodoRight(x) /\ x'.todo = x.todo /\ x'.seen = x.seen
    BY <1>3 DEF Same, CatcherRight
  <2>2. \A m \in x'.seen : m \in Ids' /\ messages'[m].state # "inserted"
    BY <1>1, <2>1 DEF TodoRight, Calm
  <2>3. ASSUME NEW m \in Open', m \in x'.seen PROVE m \in x'.todo <=> m \in twin'
    <3>1. m \in Open /\ (m \in x.todo <=> m \in twin) /\ (Entitled(m)' <=> Entitled(m)) /\ m \in Ids
      BY <2>1, <2>3 DEF TodoRight, Calm, Passes
    <3>2. messages[m].state = "committed"
      BY <2>1, <2>3, <3>1, OpenFacts DEF TodoRight
    <3>3. messages'[m].state = "committed"
      <4>1. messages'[m] \in Message
        BY <1>1, <3>1
      <4> QED
        BY <2>2, <2>3, <4>1 DEF Open, Message
    <3> QED
      BY <2>1, <3>1, <3>2, <3>3 DEF Entitled
  <2> QED
    BY <2>1, <2>2, <2>3 DEF TodoRight
<1> QED
  BY <1>2, <1>3 DEF CatcherRight

(* So do the facts about messages.                                         *)
LEMMA CatchersStay ==
  ASSUME TwinInv, KnownInv', Calm, \A k \in Catchers : Same(catching[k], catching'[k]),
         \A c \in Channels, k \in Catchers :
            InOrder(c)' => logs'[c] = logs[c] \/ c \in catching'[k].stale \/ catching[k].step # "logs"
  PROVE  CatchersRight'
<1>1. messages \in Seq(Message) /\ messages' \in Seq(Message)
  BY DEF TwinInv, KnownInv, Typed
<1>2. ASSUME NEW k \in Catchers PROVE CatcherRight(catching[k])'
  <2>1. CatcherRight(catching[k]) /\ Same(catching[k], catching'[k])
    BY DEF TwinInv, CatchersRight
  <2> QED
    BY <1>1, <2>1, CatcherStays
<1> QED
  BY <1>2 DEF CatchersRight

(* A new message.                                                          *)
NewRight(m) ==
  /\ messages[m].to \in Channels => /\ Entitled(m) <=> Wanted(m, logs[messages[m].to])
                                    /\ ~ Unlogged(messages[m].to)
  /\ messages[m].to = DirectMessage \/ ~ user.idle => ~ Behind(m)

(* Steps that change messages, and nothing of subscriptions or catch-ups.  *)
LEMMA MessageStep ==
  ASSUME TwinInv, KnownInv', Calm, UNCHANGED <<subs, archived, logs, user, catching>>,
         pending' \subseteq pending, {rows', twin'} \subseteq SUBSET Committed',
         \A m \in Ids' : messages'[m].row => messages'[m].eligible,
         \A m \in Open' : m \notin Ids => NewRight(m)', NoOthers'
  PROVE  TwinInv'
<1>1. /\ messages \in Seq(Message) /\ messages' \in Seq(Message) /\ Len(messages) <= Len(messages')
      /\ Ids = 1..Len(messages) /\ Ids' = 1..Len(messages')
      /\ Len(messages) \in Nat /\ Len(messages') \in Nat
  BY MessagesTyped DEF TwinInv, KnownInv, Typed, Calm, Ids
<1>2. TablesTyped'
  <2>1. user.last \in Int /\ user.last <= Len(messages)
    BY DEF TwinInv, TablesTyped
  <2>2. ASSUME NEW c \in Channels PROVE LogTyped(logs[c])'
    <3>1. LogTyped(logs[c]) /\ logs'[c] = logs[c]
      BY DEF TwinInv, TablesTyped
    <3>2. \A i \in DOMAIN logs[c] : logs[c][i].last \in Int
      BY <3>1, EntriesTyped DEF LogTyped
    <3> QED
      BY <1>1, <3>1, <3>2 DEF LogTyped
  <2>3. logs' = logs /\ archived' = archived /\ user' = user /\ {rows', twin'} \subseteq SUBSET Committed'
    OBVIOUS
  <2> QED
    BY <1>1, <2>1, <2>2, <2>3 DEF TwinInv, TablesTyped
<1>3. SubscriptionsLogged'
  BY DEF TwinInv, SubscriptionsLogged
<1>4. ASSUME NEW m \in Open' PROVE m \in Ids => Passes(m) /\ m \in Open
  BY DEF Calm, Passes
<1>5. HistoryTells'
  BY <1>4 DEF TwinInv, HistoryTells, Passes, NewRight
<1>6. DirectHaveRows'
  BY <1>4 DEF TwinInv, DirectHaveRows, Passes, NewRight
<1>7. PendingRight'
  BY DEF TwinInv, PendingRight, SendRight, Unlogged
<1>8. UnloggedAreRaced'
  <2>1. \A c : Unlogged(c)' <=> Unlogged(c)
    BY DEF Unlogged
  <2>2. ASSUME NEW c \in Channels, Unlogged(c), NEW m \in Open', messages'[m].to = c
        PROVE  messages'[m].state # "inserted"
    BY <1>4, <2>1, <2>2 DEF TwinInv, UnloggedAreRaced, Passes, Calm, NewRight
  <2> QED
    BY <2>1, <2>2 DEF TwinInv, UnloggedAreRaced
<1>9. CaughtUp'
  <2>1. CASE user.idle
    <3>1. user.last \in Int /\ user.last <= Len(messages) /\ BehindSince(user.last)
      BY <2>1 DEF TwinInv, TablesTyped, CaughtUp
    <3>2. PICK id : id = user.last
      OBVIOUS
    <3>3. BehindSince(id)'
      BY <1>1, <3>1, <3>2, BehindSinceStays
    <3> QED
      BY <2>1, <3>2, <3>3 DEF CaughtUp, BehindSince
  <2>2. CASE ~ user.idle
    BY <1>4, <2>2 DEF TwinInv, CaughtUp, Passes, NewRight
  <2> QED
    BY <2>1, <2>2
<1>10. CatchersRight'
  <2>1. \A k \in Catchers : Same(catching[k], catching'[k])
    BY DEF Same
  <2> QED
    BY <2>1, CatchersStay
<1> QED
  BY <1>2, <1>3, <1>5, <1>6, <1>7, <1>8, <1>9, <1>10 DEF TwinInv

-----------------------------------------------------------------------------
(* The steps that change messages.                                         *)

LEMMA LogsUnchanged ==
  ASSUME UNCHANGED logs
  PROVE  \A c : InOrder(c)' <=> InOrder(c)
  BY DEF InOrder

LEMMA InsertMessageTwin ==
  ASSUME TwinInv, KnownInv', NEW send \in pending, InsertMessage(send)
  PROVE  TwinInv'
<1> DEFINE n == Len(messages) + 1
           new == [to |-> send.to, eligible |-> send.eligible, row |-> send.row, state |-> "inserted"]
<1>1. /\ messages' = Append(messages, new) /\ pending' \subseteq pending /\ raced \subseteq raced'
      /\ send.raced => n \in raced'
      /\ UNCHANGED <<subs, archived, logs, user, rows, catching, twin, moved>>
  BY DEF InsertMessage
<1>2. /\ messages \in Seq(Message) /\ send \in Send /\ (send.row => send.eligible)
      /\ rows \subseteq Committed /\ twin \subseteq Committed
  BY DEF TwinInv, KnownInv, Typed, TablesTyped, PendingRight
<1>3. new \in Message /\ new.to = send.to /\ new.eligible = send.eligible /\ new.row = send.row /\ new.state = "inserted"
  BY <1>2 DEF Send, Message
<1> HIDE DEF new
<1>4. /\ Ids = 1..Len(messages) /\ Len(messages) \in Nat /\ Ids' = Ids \cup {n} /\ n \notin Ids
      /\ Len(messages') = n /\ messages'[n] = new /\ \A m \in Ids : messages'[m] = messages[m]
  BY <1>1, <1>2, <1>3, MessagesTyped DEF Ids
<1> HIDE DEF n
<1>5. \A m \in Ids : Excepted(m) => Excepted(m)'
  BY <1>1, <1>4, LogsUnchanged, ExceptionsGrow
<1>6. Calm
  <2>1. ASSUME NEW m \in Ids PROVE Passes(m)
    <3>1. messages'[m] = messages[m] /\ twin' = twin /\ (m \in Open' => m \in Open)
      BY <1>1, <1>4, <1>5, <2>1 DEF Open
    <3> QED
      BY <3>1 DEF Passes, Entitled, Behind
  <2>2. Len(messages) <= Len(messages')
    BY <1>4 DEF n
  <2>3. \A c \in Channels : InOrder(c)' => InOrder(c)
    BY <1>1, LogsUnchanged
  <2> QED
    BY <1>4, <2>1, <2>2, <2>3 DEF Calm
<1>7. {rows', twin'} \subseteq SUBSET Committed'
  BY <1>1, <1>2, <1>4 DEF Committed
<1>8. \A m \in Ids' : messages'[m].row => messages'[m].eligible
  BY <1>2, <1>3, <1>4 DEF TwinInv, PendingRight
<1>9. NoOthers'
  BY <1>1, <1>2, <1>5 DEF TwinInv, NoOthers, Committed
<1>10. ASSUME NEW m \in Open', m \notin Ids PROVE NewRight(m)'
  <2>1. m = n /\ ~ send.raced
    BY <1>1, <1>4, <1>10 DEF Open, Excepted
  <2>2. Entitled(m)' = send.eligible
    BY <1>3, <1>4, <2>1 DEF Entitled
  <2>3. ASSUME send.to \in Channels
        PROVE  (send.eligible <=> Wanted(n, logs[send.to])) /\ ~ Unlogged(send.to)
    <3>1. send.eligible <=> logs[send.to] # <<>> /\ Last(logs[send.to]).type # "deactivated"
      BY <2>1, <2>3 DEF TwinInv, PendingRight, SendRight
    <3>2. logs[send.to] \in Seq(Entry) /\ \A i \in DOMAIN logs[send.to] : logs[send.to][i].last <= Len(messages)
      BY <2>3 DEF TwinInv, TablesTyped, LogTyped
    <3>3. \A i \in DOMAIN logs[send.to] : logs[send.to][i].last < n
      BY <1>4, <3>2, EntriesTyped DEF n
    <3>4. n \in Nat
      BY <1>4 DEF n
    <3>5. Wanted(n, logs[send.to]) <=> logs[send.to] # <<>> /\ Last(logs[send.to]).type # "deactivated"
      BY <3>2, <3>3, <3>4, WantedNew
    <3> QED
      BY <2>1, <2>3, <3>1, <3>5 DEF TwinInv, PendingRight, SendRight
  <2>4. send.to = DirectMessage \/ ~ user.idle => (send.eligible => send.row)
    BY <2>1 DEF TwinInv, PendingRight, SendRight
  <2>5. send.to = DirectMessage \/ ~ user.idle => ~ Behind(m)'
    BY <1>3, <1>4, <2>1, <2>2, <2>4 DEF Behind
  <2>6. /\ messages'[m].to = send.to /\ logs' = logs /\ user' = user
        /\ Unlogged(send.to)' <=> Unlogged(send.to)
    BY <1>1, <1>3, <1>4, <2>1 DEF Unlogged
  <2> QED
    BY <2>1, <2>2, <2>3, <2>5, <2>6 DEF NewRight
<1> QED
  BY <1>1, <1>6, <1>7, <1>8, <1>9, <1>10, MessageStep

(* A step that changes one message, and no rows of others.                 *)
LEMMA OneMessageTwin ==
  ASSUME TwinInv, KnownInv', NEW m \in Ids, NEW new \in Message, messages' = [messages EXCEPT ![m] = new],
         UNCHANGED <<pending, subs, archived, logs, user, catching>>,
         new.row => new.eligible, new.state = "inserted" => messages[m].state = "inserted",
         rows' \subseteq Committed', twin' \subseteq Committed',
         \A x \in Ids : x # m => /\ (x \in rows' <=> x \in rows) /\ (x \in twin' <=> x \in twin)
                                 /\ x \in raced => x \in raced',
         moved \subseteq moved', Passes(m), m \in rows' \ twin' => Excepted(m)'
  PROVE  TwinInv'
<1>1. messages \in Seq(Message) /\ rows \subseteq Committed /\ twin \subseteq Committed
  BY DEF TwinInv, KnownInv, Typed, TablesTyped
<1>2. /\ Ids' = Ids /\ Len(messages') = Len(messages) /\ Len(messages) \in Nat /\ messages'[m] = new
      /\ \A x \in Ids : x # m => messages'[x] = messages[x]
  BY <1>1 DEF Ids
<1>3. \A x \in Ids : x # m => (Excepted(x) => Excepted(x)')
  BY <1>2, LogsUnchanged, ExceptionsGrow
<1>4. Calm
  <2>1. ASSUME NEW x \in Ids, x # m PROVE Passes(x)
    <3>1. messages'[x] = messages[x] /\ (x \in twin' <=> x \in twin) /\ (x \in Open' => x \in Open)
      BY <1>2, <1>3, <2>1 DEF Open
    <3> QED
      BY <3>1 DEF Passes, Entitled, Behind
  <2>2. \A c \in Channels : InOrder(c)' => InOrder(c)
    BY LogsUnchanged
  <2> QED
    BY <1>2, <2>1, <2>2 DEF Calm
<1>5. \A x \in Ids' : messages'[x].row => messages'[x].eligible
  BY <1>2 DEF TwinInv, PendingRight
<1>6. NoOthers'
  <2> SUFFICES ASSUME NEW x \in rows' \ twin' PROVE Excepted(x)'
    BY DEF NoOthers
  <2>1. x \in Ids
    BY <1>2 DEF Committed
  <2>2. CASE x # m
    BY <1>3, <2>1, <2>2 DEF TwinInv, NoOthers
  <2> QED
    BY <2>2
<1>7. \A x \in Open' : x \in Ids
  BY <1>2 DEF Open
<1>8. {rows', twin'} \subseteq SUBSET Committed'
  OBVIOUS
<1> QED
  BY <1>4, <1>5, <1>6, <1>7, <1>8, MessageStep

LEMMA CommitSendTwin ==
  ASSUME TwinInv, KnownInv', NEW m \in Ids, CommitSend(m)
  PROVE  TwinInv'
<1> DEFINE new == [messages[m] EXCEPT !.state = "committed", !.eligible = FALSE, !.row = FALSE]
<1>1. /\ messages' = [messages EXCEPT ![m] = new] /\ messages[m].state = "inserted"
      /\ rows' = IF messages[m].row THEN rows \cup {m} ELSE rows
      /\ twin' = IF messages[m].eligible THEN twin \cup {m} ELSE twin
      /\ UNCHANGED <<pending, subs, archived, logs, user, catching, raced, moved>>
  BY DEF CommitSend, Uncommitted
<1>2. /\ messages \in Seq(Message) /\ messages[m] \in Message /\ rows \subseteq Committed /\ twin \subseteq Committed
      /\ messages[m].row => messages[m].eligible
  BY MessagesTyped DEF TwinInv, KnownInv, Typed, TablesTyped, PendingRight
<1>3. new \in Message /\ new.to = messages[m].to /\ ~ new.row /\ new.state = "committed"
  BY <1>2 DEF Message
<1> HIDE DEF new
<1>4. /\ Ids' = Ids /\ messages'[m] = new /\ \A x \in Ids : x # m => messages'[x] = messages[x]
  BY <1>1, <1>2, <1>3, MessageChanged
<1>5. m \notin rows /\ m \notin twin
  BY <1>1, <1>2 DEF Committed
<1>6. rows' \subseteq Committed' /\ twin' \subseteq Committed'
  BY <1>1, <1>2, <1>3, <1>4 DEF Committed
<1>7. Passes(m)
  <2>1. Excepted(m) => Excepted(m)'
    BY <1>1, <1>3, <1>4, LogsUnchanged, ExceptionsGrow
  <2>2. m \in Open' => m \in Open /\ ~ messages[m].row
    BY <1>1, <1>5, <2>1 DEF Open
  <2>3. Entitled(m)' <=> Entitled(m)
    BY <1>1, <1>3, <1>4, <1>5 DEF Entitled
  <2>4. messages'[m].to = messages[m].to
    BY <1>3, <1>4
  <2> QED
    BY <2>2, <2>3, <2>4 DEF Passes, Behind
<1>8. m \notin rows' \ twin'
  BY <1>1, <1>2, <1>5
<1> QED
  BY <1>1, <1>3, <1>6, <1>7, <1>8, OneMessageTwin

LEMMA GoneTwin ==
  ASSUME TwinInv, KnownInv', NEW m \in Ids, RollBackSend(m) \/ Delete(m)
  PROVE  TwinInv'
<1>1. /\ messages \in Seq(Message) /\ rows \subseteq Committed /\ twin \subseteq Committed
  BY DEF TwinInv, KnownInv, Typed, TablesTyped
<1>2. /\ messages' = [messages EXCEPT ![m] = Gone] /\ rows' = rows \ {m} /\ twin' = twin \ {m}
      /\ raced' = raced \ {m}
      /\ UNCHANGED <<pending, subs, archived, logs, user, catching, moved>>
  BY <1>1 DEF RollBackSend, Delete, Committed, Uncommitted
<1>3. Gone \in Message /\ ~ Gone.row /\ Gone.state = "gone"
  BY DEF Gone, Message, To
<1>4. /\ Ids' = Ids /\ messages'[m] = Gone /\ \A x \in Ids : x # m => messages'[x] = messages[x]
  BY <1>1, <1>2, <1>3, MessageChanged
<1>5. rows' \subseteq Committed' /\ twin' \subseteq Committed'
  BY <1>1, <1>2, <1>4 DEF Committed
<1>6. Passes(m)
  BY <1>3, <1>4 DEF Passes, Open
<1> QED
  BY <1>2, <1>3, <1>5, <1>6, OneMessageTwin

LEMMA TouchMessageTwin ==
  ASSUME TwinInv, KnownInv', NEW m \in Ids, TouchMessage(m)
  PROVE  TwinInv'
<1>1. /\ m \in Committed /\ rows' = rows \cup {m} /\ twin' = twin \cup {m}
      /\ UNCHANGED <<messages, pending, subs, archived, logs, user, catching, raced, moved>>
  BY DEF TouchMessage
<1>2. /\ messages \in Seq(Message) /\ messages[m] \in Message /\ rows \subseteq Committed /\ twin \subseteq Committed
      /\ messages[m].row => messages[m].eligible
  BY MessagesTyped DEF TwinInv, KnownInv, Typed, TablesTyped, PendingRight
<1>3. messages' = [messages EXCEPT ![m] = messages[m]]
  BY <1>1, <1>2
<1>4. rows' \subseteq Committed' /\ twin' \subseteq Committed'
  BY <1>1, <1>2 DEF Committed, Ids
<1>5. Passes(m)
  BY <1>1 DEF Passes, Open
<1> QED
  BY <1>1, <1>2, <1>3, <1>4, <1>5, OneMessageTwin

LEMMA MoveTwin ==
  ASSUME TwinInv, KnownInv', NEW m \in Ids, NEW c \in Channels, Move(m, c)
  PROVE  TwinInv'
<1> DEFINE new == [messages[m] EXCEPT !.to = c]
<1>1. /\ m \in Committed /\ messages' = [messages EXCEPT ![m] = new]
      /\ rows' \in {rows, rows \cup {m}, rows \ {m}} /\ twin' \in {twin, twin \cup {m}, twin \ {m}}
      /\ moved' = moved \cup {m} /\ raced \subseteq raced'
      /\ UNCHANGED <<pending, subs, archived, logs, user, catching>>
  BY DEF Move
<1>2. /\ messages \in Seq(Message) /\ messages[m] \in Message /\ rows \subseteq Committed /\ twin \subseteq Committed
      /\ messages[m].row => messages[m].eligible
  BY MessagesTyped DEF TwinInv, KnownInv, Typed, TablesTyped, PendingRight
<1>3. /\ new \in Message /\ new.state = messages[m].state /\ new.row = messages[m].row
      /\ new.eligible = messages[m].eligible
  BY <1>2 DEF Message, To
<1> HIDE DEF new
<1>4. /\ Ids' = Ids /\ messages'[m] = new /\ \A x \in Ids : x # m => messages'[x] = messages[x]
  BY <1>1, <1>2, <1>3, MessageChanged
<1>5. rows' \subseteq Committed' /\ twin' \subseteq Committed'
  BY <1>1, <1>2, <1>3, <1>4 DEF Committed
<1>6. Excepted(m)'
  BY <1>1 DEF Excepted
<1>7. Passes(m)
  BY <1>6 DEF Passes, Open
<1> QED
  BY <1>1, <1>2, <1>3, <1>5, <1>6, <1>7, OneMessageTwin

-----------------------------------------------------------------------------
(* The steps that change subscriptions.                                    *)

(* The log after a new entry, of which every committed message is part.    *)
LEMMA Logged ==
  ASSUME TwinInv, UNCHANGED messages, NEW c \in Channels, NEW type \in Types, Log(c, type)
  PROVE  /\ logs' \in [Channels -> Seq(Entry)] /\ LogTyped(logs[c])'
         /\ logs'[c] # <<>> /\ Last(logs'[c]).type = type /\ (InOrder(c)' => InOrder(c))
         /\ \A d \in Channels : d # c => logs'[d] = logs[d]
         /\ logs'[c] = Append(logs[c], [type |-> type, last |-> get_last_message_id])
<1> DEFINE e == [type |-> type, last |-> get_last_message_id]
           es == logs[c]
<1>1. /\ messages \in Seq(Message) /\ logs \in [Channels -> Seq(Entry)] /\ LogTyped(es)
  BY DEF TwinInv, KnownInv, Typed, TablesTyped
<1>2. get_last_message_id \in Int /\ get_last_message_id <= Len(messages)
  BY <1>1, LastMessageId
<1>3. e \in Entry /\ es \in Seq(Entry) /\ e.type = type /\ e.last = get_last_message_id
  BY <1>1, <1>2 DEF Entry
<1>4. logs' = [logs EXCEPT ![c] = Append(es, e)]
  BY DEF Log
<1> HIDE DEF e
<1>5. /\ Append(es, e) \in Seq(Entry) /\ Append(es, e) # <<>> /\ Last(Append(es, e)) = e
      /\ DOMAIN Append(es, e) = DOMAIN es \cup {Len(es) + 1}
      /\ \A i \in DOMAIN es : Append(es, e)[i] = es[i]
      /\ Append(es, e)[Len(es) + 1] = e
      /\ Ascending(Append(es, e)) => Ascending(es)
  BY <1>3, EntryAppended
<1>6. LogTyped(logs[c])'
  BY <1>1, <1>2, <1>3, <1>4, <1>5 DEF LogTyped
<1> QED
  BY <1>1, <1>3, <1>4, <1>5, <1>6 DEF InOrder, e

(* Whether a message without an exception is wanted does not change.       *)
LEMMA LoggedKeepsWanted ==
  ASSUME TwinInv, UNCHANGED <<messages, rows, twin, moved>>, NEW c \in Channels, NEW type \in Types,
         Log(c, type), Overtaken(c, get_last_message_id) \subseteq raced', raced \subseteq raced',
         type = "deactivated" <=> subs[c] = "active",
         Unlogged(c) => {m \in twin \ rows : messages[m].to = c} \subseteq raced',
         NEW m \in Open', messages[m].to = c
  PROVE  m \in Open => (Wanted(m, logs'[c]) <=> Wanted(m, logs[c]))
<1> SUFFICES ASSUME m \in Open PROVE Wanted(m, logs'[c]) <=> Wanted(m, logs[c])
  OBVIOUS
<1> DEFINE e == [type |-> type, last |-> get_last_message_id]
           es == logs[c]
<1>1. /\ messages \in Seq(Message) /\ es \in Seq(Entry)
  BY DEF TwinInv, KnownInv, Typed, TablesTyped
<1>2. get_last_message_id \in Int /\ \A x \in Committed : x <= get_last_message_id
  BY <1>1, LastMessageId
<1>3. e \in Entry /\ e.type = type /\ e.last = get_last_message_id /\ logs'[c] = Append(es, e)
  BY <1>1, <1>2, Logged DEF Entry
<1> HIDE DEF e
<1>4. m \in Ids /\ m \in Nat /\ messages[m].state \in {"inserted", "committed"} /\ m \notin rows
  BY <1>1, OpenFacts, MessagesTyped
<1>5. m <= e.last
  <2>1. CASE messages[m].state = "committed"
    BY <1>2, <1>3, <1>4, <2>1 DEF Committed
  <2>2. CASE messages[m].state = "inserted"
    BY <1>2, <1>3, <1>4, <2>2 DEF Overtaken, Uncommitted, Open, Excepted
  <2> QED
    BY <1>4, <2>1, <2>2
<1>6. e.type = "deactivated" => es # <<>> /\ Last(es).type # "deactivated"
  BY <1>3 DEF TwinInv, SubscriptionsLogged
<1>7. /\ Wanted(m, Append(es, e)) => Wanted(m, es)
      /\ e.type = "deactivated" \/ es = <<>> \/ Last(es).type = "deactivated" =>
           (Wanted(m, es) => Wanted(m, Append(es, e)))
  BY <1>1, <1>3, <1>4, <1>5, <1>6, WantedAfter
<1>8. CASE Unlogged(c)
  <2>1. messages[m].state = "committed"
    BY <1>4, <1>8 DEF TwinInv, UnloggedAreRaced
  <2>2. m \notin twin
    BY <1>4, <1>8 DEF Open, Excepted
  <2>3. ~ Wanted(m, es)
    BY <2>1, <2>2 DEF TwinInv, HistoryTells, Entitled
  <2> QED
    BY <1>3, <1>7, <2>3
<1>9. CASE ~ Unlogged(c)
  <2>1. subs[c] \in {"none", "active", "inactive"}
    BY DEF TwinInv, KnownInv, Typed
  <2>2. e.type = "deactivated" \/ es = <<>> \/ Last(es).type = "deactivated"
    BY <1>3, <1>9, <2>1 DEF TwinInv, SubscriptionsLogged, Unlogged
  <2> QED
    BY <1>3, <1>7, <2>2
<1> QED
  BY <1>8, <1>9

(* Steps that change the subscription to one channel.                      *)
LEMMA SubscriptionStep ==
  ASSUME TwinInv, KnownInv', UNCHANGED <<messages, rows, twin, user, moved>>, raced \subseteq raced',
         NEW c \in Channels, logs' \in [Channels -> Seq(Entry)], LogTyped(logs[c])',
         InOrder(c)' => InOrder(c), archived' \in [Channels -> BOOLEAN],
         \A d \in Channels : d # c =>
            logs'[d] = logs[d] /\ subs'[d] = subs[d] /\ archived'[d] = archived[d],
         subs'[c] = "none" <=> logs'[c] = <<>>,
         subs'[c] = "active" => Last(logs'[c]).type # "deactivated" /\ ~ archived'[c],
         \A k \in Catchers :
            /\ Same(catching[k], catching'[k])
            /\ logs'[c] = logs[c] \/ c \in catching'[k].stale \/ catching[k].step # "logs",
         \A m \in Open' : messages[m].to = c /\ m \in Open =>
            /\ Wanted(m, logs'[c]) <=> Wanted(m, logs[c])
            /\ Unlogged(c)' => messages[m].state # "inserted",
         \A p \in pending' :
            /\ p.row => p.eligible
            /\ ~ p.raced => (p \in pending /\ p.to # c) \/ SendRight(p)'
  PROVE  TwinInv'
<1>1. messages \in Seq(Message) /\ messages' = messages
  BY DEF TwinInv, KnownInv, Typed
<1>2. \A d \in Channels : InOrder(d)' => InOrder(d)
  BY DEF InOrder
<1>3. Calm
  BY <1>1, <1>2, CalmIfUnchanged
<1>4. ASSUME NEW m \in Open' PROVE m \in Open /\ Passes(m)
  BY <1>3 DEF Calm, Passes, Open, Ids
<1>5. TablesTyped'
  <2>1. ASSUME NEW d \in Channels PROVE LogTyped(logs[d])'
    <3>1. CASE d # c
      <4>1. LogTyped(logs[d]) /\ logs'[d] = logs[d]
        BY <3>1 DEF TwinInv, TablesTyped
      <4> QED
        BY <1>1, <4>1 DEF LogTyped
    <3> QED
      BY <3>1
  <2>2. {rows', twin'} \subseteq SUBSET Committed'
    BY DEF TwinInv, TablesTyped, Committed, Ids
  <2> QED
    BY <1>1, <2>1, <2>2 DEF TwinInv, TablesTyped
<1>6. SubscriptionsLogged'
  BY DEF TwinInv, SubscriptionsLogged
<1>7. HistoryTells'
  BY <1>1, <1>4 DEF TwinInv, HistoryTells, Passes
<1>8. DirectHaveRows'
  BY <1>4 DEF TwinInv, DirectHaveRows, Passes
<1>9. PendingRight'
  <2>1. ASSUME NEW p \in pending, p.to # c, SendRight(p) PROVE SendRight(p)'
    <3>1. p.to \in Channels => logs'[p.to] = logs[p.to] /\ subs'[p.to] = subs[p.to]
      BY <2>1
    <3>2. p.to \in Channels => (Unlogged(p.to)' <=> Unlogged(p.to))
      BY <3>1 DEF Unlogged
    <3> QED
      BY <2>1, <3>1, <3>2 DEF SendRight
  <2>2. \A m \in Ids' : messages'[m].row => messages'[m].eligible
    BY DEF TwinInv, PendingRight, Ids
  <2> QED
    BY <2>1, <2>2 DEF TwinInv, PendingRight
<1>10. UnloggedAreRaced'
  <2> SUFFICES ASSUME NEW d \in Channels, Unlogged(d)', NEW m \in Open', messages'[m].to = d
               PROVE  messages'[m].state # "inserted"
    BY DEF UnloggedAreRaced
  <2>1. CASE d # c
    BY <1>1, <1>4, <2>1 DEF TwinInv, UnloggedAreRaced, Unlogged
  <2> QED
    BY <1>1, <1>4, <2>1
<1>11. NoOthers'
  <2>1. \A m : Excepted(m) => Excepted(m)'
    BY <1>1, <1>2, ExceptionsGrow
  <2> QED
    BY <2>1 DEF TwinInv, NoOthers
<1>12. CaughtUp'
  <2>1. BehindSince(user.last) => BehindSince(user.last)'
    BY <1>4 DEF BehindSince, Passes
  <2> QED
    BY <1>4, <2>1 DEF TwinInv, CaughtUp, Passes
<1>13. CatchersRight'
  <2>1. \A d \in Channels, k \in Catchers :
          InOrder(d)' => logs'[d] = logs[d] \/ d \in catching'[k].stale \/ catching[k].step # "logs"
    OBVIOUS
  <2>2. \A k \in Catchers : Same(catching[k], catching'[k])
    OBVIOUS
  <2> QED
    BY <1>3, <2>1, <2>2, CatchersStay
<1> QED
  BY <1>5, <1>6, <1>7, <1>8, <1>9, <1>10, <1>11, <1>12, <1>13 DEF TwinInv

LEMMA PendingMarked ==
  ASSUME TwinInv, NEW c
  PROVE  \A p \in PendingOvertaken(c) : /\ p.row => p.eligible
                                        /\ ~ p.raced => p \in pending /\ p.to # c
<1> SUFFICES ASSUME NEW q \in pending
             PROVE  LET p == [q EXCEPT !.raced = q.raced \/ q.to = c]
                    IN  /\ p.row => p.eligible
                        /\ ~ p.raced => p \in pending /\ p.to # c
  BY DEF PendingOvertaken
<1> DEFINE mark == q.raced \/ q.to = c
           p == [q EXCEPT !.raced = mark]
<1>1. q \in Send /\ (q.row => q.eligible)
  BY DEF TwinInv, KnownInv, Typed, PendingRight
<1>2. p.row = q.row /\ p.eligible = q.eligible /\ p.to = q.to /\ p.raced = mark
  BY <1>1 DEF Send
<1>3. ~ mark => p = q
  <2> HAVE ~ mark
  <2>1. q.raced = FALSE /\ mark = FALSE
    BY <1>1 DEF Send
  <2> QED
    BY <1>1, <2>1 DEF Send
<1> QED
  BY <1>1, <1>2, <1>3

LEMMA OvertakesSame ==
  ASSUME TwinInv, NEW c, NEW k \in Catchers
  PROVE  /\ Same(catching[k], catching[k])
         /\ Same(catching[k], Overtakes(c)[k])
         /\ c \in Overtakes(c)[k].stale \/ catching[k].step # "logs"
<1> DEFINE x == catching[k]
           y == [x EXCEPT !.stale = x.stale \cup {c}]
<1>1. Overtakes(c)[k] = IF x.step = "logs" THEN y ELSE x
  BY DEF Overtakes
<1>2. Fields \subseteq DOMAIN x
  BY DEF TwinInv, KnownInv, Typed, CatcherTyped
<1>3. Same(x, y) /\ c \in y.stale /\ Same(x, x)
  BY <1>2 DEF Same, Fields
<1> QED
  BY <1>1, <1>3

LEMMA UnsubscribeTwin ==
  ASSUME TwinInv, KnownInv', NEW c \in Channels, NEW vacant \in BOOLEAN, Unsubscribe(c, vacant)
  PROVE  TwinInv'
<1>1. /\ subs[c] = "active" /\ subs' = [subs EXCEPT ![c] = "inactive"] /\ Log(c, "deactivated")
      /\ archived' = [archived EXCEPT ![c] = archived[c] \/ vacant]
      /\ catching' = Overtakes(c) /\ pending' = PendingOvertaken(c)
      /\ raced \subseteq raced' /\ Overtaken(c, get_last_message_id) \subseteq raced'
      /\ UNCHANGED <<messages, user, rows, twin, moved>>
  BY DEF Unsubscribe
<1>2. "deactivated" \in Types
  BY DEF Types
<1>3. /\ logs' \in [Channels -> Seq(Entry)] /\ LogTyped(logs[c])'
      /\ logs'[c] # <<>> /\ Last(logs'[c]).type = "deactivated" /\ (InOrder(c)' => InOrder(c))
      /\ \A d \in Channels : d # c => logs'[d] = logs[d]
  BY <1>1, <1>2, Logged
<1>4. subs \in [Channels -> {"none", "active", "inactive"}] /\ archived \in [Channels -> BOOLEAN]
  BY DEF TwinInv, KnownInv, Typed, TablesTyped
<1>5. /\ subs'[c] = "inactive" /\ archived' \in [Channels -> BOOLEAN]
      /\ \A d \in Channels : d # c => subs'[d] = subs[d] /\ archived'[d] = archived[d]
  BY <1>1, <1>4
<1>6. ~ Unlogged(c) /\ ~ Unlogged(c)'
  BY <1>1, <1>3 DEF Unlogged
<1>7. \A m \in Open' : messages[m].to = c /\ m \in Open => (Wanted(m, logs'[c]) <=> Wanted(m, logs[c]))
  BY <1>1, <1>2, <1>6, LoggedKeepsWanted
<1>8. \A k \in Catchers : /\ Same(catching[k], catching'[k])
                          /\ c \in catching'[k].stale \/ catching[k].step # "logs"
  BY <1>1, OvertakesSame
<1>9. \A p \in pending' : /\ p.row => p.eligible
                          /\ ~ p.raced => p \in pending /\ p.to # c
  BY <1>1, PendingMarked
<1> QED
  BY <1>1, <1>3, <1>5, <1>6, <1>7, <1>8, <1>9, SubscriptionStep

LEMMA DeactivateChannelTwin ==
  ASSUME TwinInv, KnownInv', NEW c \in Channels, DeactivateChannel(c)
  PROVE  TwinInv'
<1>1. /\ archived' = [archived EXCEPT ![c] = TRUE]
      /\ subs' = [subs EXCEPT ![c] = IF subs[c] = "active" THEN "inactive" ELSE subs[c]]
      /\ raced' = IF subs[c] = "active" THEN raced \cup Overtaken(c, -1) ELSE raced
      /\ catching' = Overtakes(c) /\ pending' = PendingOvertaken(c)
      /\ UNCHANGED <<messages, logs, user, rows, twin, moved>>
  BY DEF DeactivateChannel
<1>2. /\ subs \in [Channels -> {"none", "active", "inactive"}] /\ archived \in [Channels -> BOOLEAN]
      /\ logs \in [Channels -> Seq(Entry)] /\ LogTyped(logs[c]) /\ messages \in Seq(Message)
  BY DEF TwinInv, KnownInv, Typed, TablesTyped
<1>3. /\ logs' = logs /\ LogTyped(logs[c])' /\ (InOrder(c)' => InOrder(c))
  BY <1>1, <1>2, LogsUnchanged DEF LogTyped
<1>4. /\ subs'[c] = (IF subs[c] = "active" THEN "inactive" ELSE subs[c]) /\ archived' \in [Channels -> BOOLEAN]
      /\ \A d \in Channels : d # c => subs'[d] = subs[d] /\ archived'[d] = archived[d]
  BY <1>1, <1>2
<1>5. (subs'[c] = "none" <=> logs'[c] = <<>>) /\ subs'[c] # "active"
  BY <1>2, <1>3, <1>4 DEF TwinInv, SubscriptionsLogged
<1>6. ASSUME NEW m \in Open', messages[m].to = c, m \in Open, Unlogged(c)' PROVE messages[m].state # "inserted"
  <2>1. CASE subs[c] = "active"
    <3>1. m \in Ids /\ m \in Nat /\ m \notin raced'
      BY <1>2, <1>6, OpenFacts, MessagesTyped DEF Open, Excepted
    <3> QED
      BY <1>1, <1>6, <2>1, <3>1 DEF Overtaken, Uncommitted
  <2>2. CASE subs[c] # "active"
    <3>1. Unlogged(c)
      BY <1>3, <1>4, <1>6, <2>2 DEF Unlogged
    <3> QED
      BY <1>6, <3>1 DEF TwinInv, UnloggedAreRaced
  <2> QED
    BY <2>1, <2>2
<1>7. raced \subseteq raced' /\ \A d \in Channels : logs'[d] = logs[d]
  BY <1>1
<1>8. \A k \in Catchers : Same(catching[k], catching'[k])
  BY <1>1, OvertakesSame
<1>9. \A p \in pending' : /\ p.row => p.eligible
                          /\ ~ p.raced => p \in pending /\ p.to # c
  BY <1>1, PendingMarked
<1> QED
  BY <1>1, <1>2, <1>3, <1>4, <1>5, <1>6, <1>7, <1>8, <1>9, SubscriptionStep

LEMMA Activated ==
  ASSUME TwinInv, NEW c \in Channels, Activate(c), subs[c] # "active",
         UNCHANGED <<messages, rows, twin, moved>>
  PROVE  /\ logs' \in [Channels -> Seq(Entry)] /\ LogTyped(logs[c])'
         /\ logs'[c] # <<>> /\ Last(logs'[c]).type # "deactivated" /\ (InOrder(c)' => InOrder(c))
         /\ \A d \in Channels : d # c => logs'[d] = logs[d] /\ subs'[d] = subs[d]
         /\ subs'[c] = "active" /\ ~ Unlogged(c)' /\ raced \subseteq raced'
         /\ \A m \in Open' : messages[m].to = c /\ m \in Open => (Wanted(m, logs'[c]) <=> Wanted(m, logs[c]))
         /\ \A k \in Catchers : /\ Same(catching[k], catching'[k])
                                /\ c \in catching'[k].stale \/ catching[k].step # "logs"
<1> DEFINE type == IF subs[c] = "none" THEN "created" ELSE "activated"
<1>1. /\ subs' = [subs EXCEPT ![c] = "active"] /\ Log(c, type) /\ catching' = Overtakes(c)
      /\ raced \subseteq raced' /\ Overtaken(c, get_last_message_id) \subseteq raced'
      /\ Unlogged(c) => {m \in twin \ rows : messages[m].to = c} \subseteq raced'
  BY DEF Activate
<1>2. type \in Types /\ type # "deactivated"
  BY DEF Types
<1> HIDE DEF type
<1>3. /\ logs' \in [Channels -> Seq(Entry)] /\ LogTyped(logs[c])'
      /\ logs'[c] # <<>> /\ Last(logs'[c]).type = type /\ (InOrder(c)' => InOrder(c))
      /\ \A d \in Channels : d # c => logs'[d] = logs[d]
  BY <1>1, <1>2, Logged
<1>4. subs \in [Channels -> {"none", "active", "inactive"}]
  BY DEF TwinInv, KnownInv, Typed
<1>5. subs'[c] = "active" /\ \A d \in Channels : d # c => subs'[d] = subs[d]
  BY <1>1, <1>4
<1>6. ~ Unlogged(c)'
  BY <1>5 DEF Unlogged
<1>7. \A m \in Open' : messages[m].to = c /\ m \in Open => (Wanted(m, logs'[c]) <=> Wanted(m, logs[c]))
  BY <1>1, <1>2, LoggedKeepsWanted
<1>8. \A k \in Catchers : /\ Same(catching[k], catching'[k])
                          /\ c \in catching'[k].stale \/ catching[k].step # "logs"
  BY <1>1, OvertakesSame
<1> QED
  BY <1>1, <1>2, <1>3, <1>5, <1>6, <1>7, <1>8

LEMMA SubscribeTwin ==
  ASSUME TwinInv, KnownInv', NEW c \in Channels, Subscribe(c)
  PROVE  TwinInv'
<1>1. /\ subs[c] # "active" /\ ~ archived[c] /\ Activate(c) /\ pending' = PendingOvertaken(c)
      /\ UNCHANGED <<messages, archived, user, rows, twin, moved>>
  BY DEF Subscribe
<1>2. archived' \in [Channels -> BOOLEAN]
  BY <1>1 DEF TwinInv, TablesTyped
<1>3. \A p \in pending' : /\ p.row => p.eligible
                          /\ ~ p.raced => p \in pending /\ p.to # c
  BY <1>1, PendingMarked
<1>4. /\ logs' \in [Channels -> Seq(Entry)] /\ LogTyped(logs[c])'
      /\ logs'[c] # <<>> /\ Last(logs'[c]).type # "deactivated" /\ (InOrder(c)' => InOrder(c))
      /\ \A d \in Channels : d # c => logs'[d] = logs[d] /\ subs'[d] = subs[d]
      /\ subs'[c] = "active" /\ ~ Unlogged(c)' /\ raced \subseteq raced'
      /\ \A m \in Open' : messages[m].to = c /\ m \in Open => (Wanted(m, logs'[c]) <=> Wanted(m, logs[c]))
      /\ \A k \in Catchers : /\ Same(catching[k], catching'[k])
                             /\ c \in catching'[k].stale \/ catching[k].step # "logs"
  BY <1>1, Activated
<1> QED
  BY <1>1, <1>2, <1>3, <1>4, SubscriptionStep

LEMMA UnarchiveChannelTwin ==
  ASSUME TwinInv, KnownInv', NEW c \in Channels, NEW owner \in BOOLEAN, UnarchiveChannel(c, owner)
  PROVE  TwinInv'
<1> DEFINE r == Recipients(c, FALSE, owner)
           mark == ~ owner /\ Unlogged(c)
           send == [r EXCEPT !.raced = mark]
<1>1. /\ archived[c] /\ archived' = [archived EXCEPT ![c] = FALSE]
      /\ IF owner THEN Activate(c) ELSE UNCHANGED <<subs, logs, catching, raced>>
      /\ pending' = PendingOvertaken(c) \cup {send}
      /\ UNCHANGED <<messages, user, rows, twin, moved>>
  BY DEF UnarchiveChannel
<1>2. /\ subs \in [Channels -> {"none", "active", "inactive"}] /\ archived \in [Channels -> BOOLEAN]
      /\ logs \in [Channels -> Seq(Entry)] /\ LogTyped(logs[c]) /\ messages \in Seq(Message)
      /\ user \in [idle : BOOLEAN, last : Int]
  BY DEF TwinInv, KnownInv, Typed, TablesTyped
<1>3. /\ ~ archived'[c] /\ archived' \in [Channels -> BOOLEAN]
      /\ \A d \in Channels : d # c => archived'[d] = archived[d]
  BY <1>1, <1>2
<1>4. subs[c] # "active"
  BY <1>1 DEF TwinInv, SubscriptionsLogged
<1>5. \A p \in PendingOvertaken(c) : /\ p.row => p.eligible
                                     /\ ~ p.raced => p \in pending /\ p.to # c
  BY PendingMarked
<1>6. /\ send.to = c /\ send.eligible = owner /\ send.raced = mark
      /\ send.row => owner
      /\ ~ user.idle => (send.eligible => send.row)
  <2>1. /\ r.to = c /\ r.eligible = owner /\ (r.row => owner) /\ (~ user.idle => (owner => r.row))
        /\ DOMAIN r = {"to", "eligible", "row", "raced"}
    BY ConstantsAssumption DEF Recipients, create_user_messages
  <2>2. send.to = r.to /\ send.eligible = r.eligible /\ send.row = r.row /\ send.raced = mark
    BY <2>1
  <2> QED
    BY <2>1, <2>2
<1> HIDE DEF r, send
<1>0. PICK p : p = send
  OBVIOUS
<1>7. user' = user /\ c # DirectMessage
  BY <1>1, ConstantsAssumption
<1>8. CASE owner
  <2>1. Activate(c)
    BY <1>1, <1>8
  <2>2. /\ logs' \in [Channels -> Seq(Entry)] /\ LogTyped(logs[c])'
        /\ logs'[c] # <<>> /\ Last(logs'[c]).type # "deactivated" /\ (InOrder(c)' => InOrder(c))
        /\ \A d \in Channels : d # c => logs'[d] = logs[d] /\ subs'[d] = subs[d]
        /\ subs'[c] = "active" /\ ~ Unlogged(c)' /\ raced \subseteq raced'
        /\ \A m \in Open' : messages[m].to = c /\ m \in Open => (Wanted(m, logs'[c]) <=> Wanted(m, logs[c]))
        /\ \A k \in Catchers : /\ Same(catching[k], catching'[k])
                               /\ c \in catching'[k].stale \/ catching[k].step # "logs"
    BY <1>1, <1>4, <2>1, Activated
  <2>3. SendRight(p)'
    BY <1>0, <1>6, <1>7, <1>8, <2>2 DEF SendRight
  <2>4. \A q \in pending' : /\ q.row => q.eligible
                            /\ ~ q.raced => (q \in pending /\ q.to # c) \/ SendRight(q)'
    BY <1>0, <1>1, <1>5, <1>6, <2>3
  <2>5. /\ \A m \in Open' : messages[m].to = c /\ m \in Open =>
            /\ Wanted(m, logs'[c]) <=> Wanted(m, logs[c])
            /\ Unlogged(c)' => messages[m].state # "inserted"
        /\ subs'[c] = "none" <=> logs'[c] = <<>>
        /\ UNCHANGED <<messages, rows, twin, user, moved>>
    BY <1>1, <2>2
  <2>6. \A k \in Catchers :
            /\ Same(catching[k], catching'[k])
            /\ logs'[c] = logs[c] \/ c \in catching'[k].stale \/ catching[k].step # "logs"
    BY <2>2
  <2> QED
    BY <1>3, <2>2, <2>4, <2>5, <2>6, SubscriptionStep
<1>9. CASE ~ owner
  <2>1. UNCHANGED <<subs, logs, catching, raced>>
    BY <1>1, <1>9
  <2>2. /\ logs' \in [Channels -> Seq(Entry)] /\ LogTyped(logs[c])' /\ (InOrder(c)' => InOrder(c))
        /\ \A d \in Channels : d # c => logs'[d] = logs[d] /\ subs'[d] = subs[d]
    BY <1>1, <1>2, <2>1, LogsUnchanged DEF LogTyped
  <2>3. (subs'[c] = "none" <=> logs'[c] = <<>>) /\ subs'[c] # "active"
    BY <1>4, <2>1 DEF TwinInv, SubscriptionsLogged
  <2>4. \A k \in Catchers : /\ Same(catching[k], catching'[k]) /\ logs'[c] = logs[c]
    BY <2>1, OvertakesSame
  <2>5. Unlogged(c)' <=> Unlogged(c)
    BY <2>1 DEF Unlogged
  <2>6. \A m \in Open' : messages[m].to = c /\ m \in Open =>
            /\ Wanted(m, logs'[c]) <=> Wanted(m, logs[c])
            /\ Unlogged(c)' => messages[m].state # "inserted"
    BY <2>1, <2>5 DEF TwinInv, UnloggedAreRaced
  <2>7. ~ p.raced => SendRight(p)'
    <3> SUFFICES ASSUME ~ p.raced PROVE SendRight(p)'
      OBVIOUS
    <3>1. ~ Unlogged(c)
      BY <1>0, <1>6, <1>9 DEF mark
    <3>2. logs[c] = <<>> \/ Last(logs[c]).type = "deactivated"
      BY <1>2, <1>4, <3>1 DEF TwinInv, SubscriptionsLogged, Unlogged
    <3> QED
      BY <1>0, <1>6, <1>7, <1>9, <2>1, <2>5, <3>1, <3>2 DEF SendRight
  <2>8. \A q \in pending' : /\ q.row => q.eligible
                            /\ ~ q.raced => (q \in pending /\ q.to # c) \/ SendRight(q)'
    BY <1>0, <1>1, <1>5, <1>6, <2>7
  <2>9. raced \subseteq raced'
    BY <2>1
  <2> QED
    BY <1>1, <1>3, <2>2, <2>3, <2>4, <2>6, <2>8, <2>9, SubscriptionStep
<1> QED
  BY <1>8, <1>9

-----------------------------------------------------------------------------
(* The steps of sends before the transaction, of soft deactivation and of  *)
(* add_missing_messages.                                                   *)

(* They leave messages and subscriptions alone; rows and exceptions grow.  *)
LEMMA CatchUpStep ==
  ASSUME TwinInv, KnownInv', UNCHANGED <<messages, subs, archived, logs, twin, moved>>,
         rows \subseteq rows', rows' \subseteq Committed, raced \subseteq raced',
         user' \in [idle : BOOLEAN, last : Int], user'.last <= Len(messages),
         \A p \in pending' : (p.row => p.eligible) /\ (~ p.raced => SendRight(p)'),
         NoOthers', CaughtUp',
         \A k \in Catchers : catching'[k] = catching[k] \/ CatcherRight(catching[k])'
  PROVE  TwinInv'
<1>1. messages \in Seq(Message) /\ messages' \in Seq(Message)
  BY DEF TwinInv, KnownInv, Typed
<1>2. \A d \in Channels : InOrder(d)' => InOrder(d)
  BY LogsUnchanged
<1>3. Calm
  BY <1>1, <1>2, CalmIfUnchanged
<1>4. ASSUME NEW m \in Open' PROVE m \in Open /\ Passes(m)
  BY <1>3 DEF Calm, Passes, Open, Ids
<1>5. TablesTyped'
  <2>1. \A c \in Channels : LogTyped(logs[c])'
    BY DEF TwinInv, TablesTyped, LogTyped
  <2>2. Committed' = Committed
    BY DEF Committed, Ids
  <2>3. {rows', twin'} \subseteq SUBSET Committed'
    BY <2>2 DEF TwinInv, TablesTyped
  <2> QED
    BY <2>1, <2>3 DEF TwinInv, TablesTyped
<1>6. SubscriptionsLogged'
  BY DEF TwinInv, SubscriptionsLogged
<1>7. HistoryTells'
  BY <1>4 DEF TwinInv, HistoryTells, Passes
<1>8. DirectHaveRows'
  BY <1>4 DEF TwinInv, DirectHaveRows, Passes
<1>9. PendingRight'
  <2>1. \A m \in Ids' : messages'[m].row => messages'[m].eligible
    BY DEF TwinInv, PendingRight, Ids
  <2> QED
    BY <2>1 DEF PendingRight
<1>10. UnloggedAreRaced'
  <2>1. \A c : Unlogged(c)' <=> Unlogged(c)
    BY DEF Unlogged
  <2> QED
    BY <1>4, <2>1 DEF TwinInv, UnloggedAreRaced
<1>11. CatchersRight'
  <2> SUFFICES ASSUME NEW k \in Catchers, catching'[k] = catching[k] PROVE CatcherRight(catching[k])'
    BY DEF CatchersRight
  <2>1. CatcherRight(catching[k]) /\ Same(catching[k], catching'[k])
    BY DEF TwinInv, CatchersRight, Same
  <2>2. \A c \in Channels : logs'[c] = logs[c]
    OBVIOUS
  <2> QED
    BY <1>1, <1>3, <2>1, <2>2, CatcherStays
<1> QED
  BY <1>5, <1>6, <1>7, <1>8, <1>9, <1>10, <1>11 DEF TwinInv

(* The invariant about the tables, if only exceptions are added.           *)
LEMMA TablesKept ==
  ASSUME TwinInv, UNCHANGED <<messages, logs, rows, twin, moved>>, raced \subseteq raced'
  PROVE  /\ NoOthers' /\ rows' \subseteq Committed
         /\ \A m \in Open' : m \in Open /\ (Behind(m)' <=> Behind(m))
         /\ user' = user => CaughtUp'
<1>1. \A m \in Ids : Excepted(m) => Excepted(m)'
  BY LogsUnchanged, ExceptionsGrow
<1>2. rows \subseteq Committed /\ Committed \subseteq Ids /\ Ids' = Ids
  BY DEF TwinInv, TablesTyped, Committed, Ids
<1>3. NoOthers'
  BY <1>1, <1>2 DEF TwinInv, NoOthers
<1>4. \A m \in Open' : m \in Open /\ (Behind(m)' <=> Behind(m))
  BY <1>1, <1>2 DEF Open, Behind, Entitled
<1>5. user' = user => CaughtUp'
  BY <1>4 DEF TwinInv, CaughtUp, BehindSince
<1> QED
  BY <1>2, <1>3, <1>4, <1>5

LEMMA ReadRecipientsTwin ==
  ASSUME TwinInv, KnownInv', NEW to \in To, NEW needed \in BOOLEAN, ReadRecipients(to, needed)
  PROVE  TwinInv'
<1> DEFINE active == to \in Channels /\ subs[to] = "active"
           r == Recipients(to, needed, active)
           mark == to \in Channels /\ Unlogged(to)
           send == [r EXCEPT !.raced = mark]
<1>1. /\ pending' = pending \cup {send}
      /\ UNCHANGED <<messages, subs, archived, logs, user, rows, catching, twin, raced, moved>>
  BY DEF ReadRecipients
<1>2. /\ subs \in [Channels -> {"none", "active", "inactive"}]
      /\ user \in [idle : BOOLEAN, last : Int] /\ user.last <= Len(messages)
  BY DEF TwinInv, KnownInv, Typed, TablesTyped
<1>3. /\ send.to = to /\ send.raced = mark
      /\ send.eligible <=> to = DirectMessage \/ active
      /\ send.row => send.eligible
      /\ to = DirectMessage \/ ~ user.idle => (send.eligible => send.row)
  <2> DEFINE eligible == to = DirectMessage \/ active
  <2>1. /\ r.to = to /\ r.eligible = eligible /\ (r.row => eligible)
        /\ to = DirectMessage \/ ~ user.idle => (eligible => r.row)
        /\ DOMAIN r = {"to", "eligible", "row", "raced"}
    BY ConstantsAssumption DEF Recipients, create_user_messages
  <2>2. send.to = r.to /\ send.eligible = r.eligible /\ send.row = r.row /\ send.raced = mark
    BY <2>1
  <2> QED
    BY <2>1, <2>2
<1> HIDE DEF r, send
<1>4. PICK p : p = send
  OBVIOUS
<1>5. ~ p.raced => SendRight(p)'
  <2> SUFFICES ASSUME ~ mark PROVE SendRight(p)'
    BY <1>3, <1>4
  <2>1. /\ p.to = to /\ (p.eligible <=> to = DirectMessage \/ active)
        /\ to = DirectMessage \/ ~ user'.idle => (p.eligible => p.row)
    BY <1>1, <1>3, <1>4
  <2>2. ASSUME to \in Channels
        PROVE  /\ p.eligible <=> logs'[to] # <<>> /\ Last(logs'[to]).type # "deactivated"
               /\ ~ Unlogged(to)'
    <3>1. logs' = logs /\ ~ Unlogged(to) /\ ~ Unlogged(to)'
      BY <1>1, <2>2 DEF Unlogged
    <3>2. p.eligible <=> subs[to] = "active"
      BY <2>1, <2>2, ConstantsAssumption
    <3> QED
      BY <1>2, <2>2, <3>1, <3>2 DEF TwinInv, SubscriptionsLogged, Unlogged
  <2> QED
    BY <2>1, <2>2 DEF SendRight
<1>6. ASSUME NEW q \in pending' PROVE (q.row => q.eligible) /\ (~ q.raced => SendRight(q)')
  <2>1. ASSUME q \in pending, ~ q.raced PROVE SendRight(q)'
    <3>1. SendRight(q) /\ (Unlogged(q.to)' <=> Unlogged(q.to))
      BY <1>1, <2>1 DEF TwinInv, PendingRight, Unlogged
    <3> QED
      BY <1>1, <3>1 DEF SendRight
  <2> QED
    BY <1>1, <1>3, <1>4, <1>5, <2>1 DEF TwinInv, PendingRight
<1>7. NoOthers' /\ rows' \subseteq Committed /\ CaughtUp'
  BY <1>1, TablesKept
<1> QED
  BY <1>1, <1>2, <1>6, <1>7, CatchUpStep

LEMMA SoftDeactivateTwin ==
  ASSUME TwinInv, KnownInv', SoftDeactivate
  PROVE  TwinInv'
<1>1. /\ ~ user.idle /\ user' = do_soft_deactivate_user
      /\ UNCHANGED <<messages, pending, subs, archived, logs, rows, catching, twin, raced, moved>>
  BY DEF SoftDeactivate
<1>2. messages \in Seq(Message) /\ rows \subseteq Committed
  BY DEF TwinInv, KnownInv, Typed, TablesTyped
<1>3. Committed \subseteq 1..Len(messages) /\ Len(messages) \in Nat
  BY <1>2, MessagesTyped DEF Committed
<1>4. user' \in [idle : BOOLEAN, last : Int] /\ user'.idle /\ user'.last <= Len(messages)
  <2>1. ASSUME NEW S, S \subseteq Committed, S # {} PROVE Max(S) \in 1..Len(messages)
    <3>1. Max(S) \in S
      BY <1>3, <2>1, HasMax
    <3> QED
      BY <1>3, <2>1, <3>1
  <2>2. MaxOr(Committed, 0) \in 0..Len(messages)
    <3>1. Committed # {} => Max(Committed) \in 1..Len(messages)
      BY <2>1
    <3> QED
      BY <1>3, <3>1 DEF MaxOr
  <2>3. MaxOr(rows, MaxOr(Committed, 0)) \in 0..Len(messages)
    <3>1. rows # {} => Max(rows) \in 1..Len(messages)
      BY <1>2, <2>1
    <3> QED
      BY <1>3, <2>2, <3>1 DEF MaxOr
  <2> QED
    BY <1>1, <1>3, <2>3 DEF do_soft_deactivate_user
<1>5. NoOthers' /\ rows' \subseteq Committed /\ \A m \in Open' : ~ Behind(m)'
  BY <1>1, TablesKept DEF TwinInv, CaughtUp
<1>6. CaughtUp'
  BY <1>4, <1>5 DEF CaughtUp, BehindSince
<1>7. ASSUME NEW p \in pending' PROVE (p.row => p.eligible) /\ (~ p.raced => SendRight(p)')
  <2>1. Unlogged(p.to)' <=> Unlogged(p.to)
    BY <1>1 DEF Unlogged
  <2> QED
    BY <1>1, <1>4, <1>7, <2>1 DEF TwinInv, PendingRight, SendRight
<1> QED
  BY <1>1, <1>4, <1>5, <1>6, <1>7, CatchUpStep

LEMMA ReadLogsTwin ==
  ASSUME TwinInv, KnownInv', NEW k \in Catchers, ReadLogs(k)
  PROVE  TwinInv'
<1> DEFINE x == catching[k]
           ordered == [c \in Channels |-> Ordered(logs[c])]
<1>1. /\ user.idle /\ UNCHANGED <<messages, pending, subs, archived, logs, user, rows, twin, raced, moved>>
      /\ catching' = [catching EXCEPT ![k] =
           [NotCatching EXCEPT !.step = "logs", !.last = user.last, !.logs = ordered,
              !.seen = Ids,
              !.channels = {c \in Channels :
                 /\ subs[c] # "none"
                 /\ ~ (Last(ordered[c]).type = "deactivated"
                         /\ Last(ordered[c]).last <= user.last)}]]
  BY DEF ReadLogs
<1>2. DOMAIN catching = Catchers
  BY DEF TwinInv, KnownInv, Typed
<1> HIDE DEF ordered
<1>3. /\ x'.step = "logs" /\ x'.last = user.last /\ x'.logs = ordered /\ x'.seen = Ids /\ x'.stale = {}
      /\ x'.channels = {c \in Channels :
                 /\ subs[c] # "none"
                 /\ ~ (Last(ordered[c]).type = "deactivated"
                         /\ Last(ordered[c]).last <= user.last)}
      /\ \A j \in Catchers : j # k => catching'[j] = catching[j]
  BY <1>1, <1>2 DEF NotCatching
<1>4. /\ user \in [idle : BOOLEAN, last : Int] /\ user.last <= Len(messages)
      /\ \A c \in Channels : logs[c] \in Seq(Entry) /\ LogTyped(logs[c])
  BY DEF TwinInv, TablesTyped
<1>5. ASSUME NEW c \in Channels, InOrder(c) PROVE ordered[c] = logs[c]
  BY <1>4, <1>5, OrderedSame DEF InOrder, ordered
<1>6. DOMAIN ordered = Channels /\ messages' = messages /\ Ids' = Ids
  BY <1>1 DEF ordered, Ids
<1>7. /\ NoOthers' /\ rows' \subseteq Committed /\ CaughtUp'
      /\ \A m \in Open' : m \in Open /\ (Behind(m)' <=> Behind(m))
  BY <1>1, TablesKept
<1>8. LogsRight(x)'
  <2>1. BehindSince(x.last)'
    BY <1>1, <1>3, <1>7 DEF TwinInv, CaughtUp, BehindSince
  <2>2. ASSUME NEW m \in Open', messages'[m].to \in Channels
        PROVE  Entitled(m)' <=> Wanted(m, x'.logs[messages'[m].to])
    <3>1. m \in Open /\ InOrder(messages[m].to) /\ messages'[m].to = messages[m].to
      BY <1>6, <1>7, <2>2 DEF Open, Excepted
    <3>2. x'.logs[messages'[m].to] = logs[messages[m].to]
      BY <1>3, <1>5, <1>6, <2>2, <3>1
    <3>3. Entitled(m)' <=> Entitled(m)
      BY <1>1 DEF Entitled
    <3> QED
      BY <1>6, <2>2, <3>1, <3>2, <3>3 DEF TwinInv, HistoryTells
  <2>3. ASSUME NEW c \in Channels, InOrder(c)'
        PROVE  /\ c \notin x'.stale => x'.logs[c] = logs'[c]
               /\ LogTyped(x.logs[c])' /\ Ascending(x'.logs[c])
               /\ c \in x'.channels <=>
                    x'.logs[c] # <<>> /\ ~ (Last(x'.logs[c]).type = "deactivated" /\ Last(x'.logs[c]).last <= x'.last)
    <3>1. InOrder(c) /\ logs' = logs
      BY <1>1, <2>3, LogsUnchanged
    <3>2. x'.logs[c] = logs[c] /\ ordered[c] = logs[c]
      BY <1>3, <1>5, <3>1
    <3>3. LogTyped(x.logs[c])'
      BY <1>4, <1>6, <3>2 DEF LogTyped
    <3>4. c \in x'.channels <=>
            logs[c] # <<>> /\ ~ (Last(logs[c]).type = "deactivated" /\ Last(logs[c]).last <= user.last)
      BY <1>3, <3>2 DEF TwinInv, SubscriptionsLogged
    <3> QED
      BY <1>3, <3>1, <3>2, <3>3, <3>4 DEF InOrder
  <2>4. x'.last \in Int /\ x'.last <= Len(messages') /\ x'.seen \subseteq Ids' /\ DOMAIN x'.logs = Channels
    BY <1>3, <1>4, <1>6
  <2> QED
    BY <2>1, <2>2, <2>3, <2>4 DEF LogsRight
<1>9. CatcherRight(x)'
  BY <1>3, <1>8 DEF CatcherRight
<1>10. ASSUME NEW p \in pending' PROVE (p.row => p.eligible) /\ (~ p.raced => SendRight(p)')
  <2>1. Unlogged(p.to)' <=> Unlogged(p.to)
    BY <1>1 DEF Unlogged
  <2> QED
    BY <1>1, <1>10, <2>1 DEF TwinInv, PendingRight, SendRight
<1>11. \A j \in Catchers : catching'[j] = catching[j] \/ CatcherRight(catching[j])'
  <2> SUFFICES ASSUME NEW j \in Catchers, j = k PROVE CatcherRight(catching[j])'
    BY <1>3
  <2> QED
    BY <1>9
<1> QED
  BY <1>1, <1>4, <1>7, <1>10, <1>11, CatchUpStep

(* The messages that are found are those of which the twin has a row.      *)
LEMMA FoundRight ==
  ASSUME TwinInv, NEW k \in Catchers, catching[k].step = "logs",
         NEW found, NEW m \in Open, messages[m].state = "committed",
         m \in found <=> \E c \in catching[k].channels :
            m \in filter_by_subscription_history(
                    {i \in Committed \ rows : messages[i].to = c /\ i > catching[k].last}, catching[k].logs[c]),
         m \in catching[k].seen \/ messages[m].to \notin catching[k].stale
  PROVE  m \in found <=> m \in twin
<1> DEFINE x == catching[k]
           missing(c) == {i \in Committed \ rows : messages[i].to = c /\ i > x.last}
           es == x.logs[messages[m].to]
<1>1. messages \in Seq(Message) /\ m \in Ids /\ m \in Nat /\ m \notin rows /\ messages[m].to \in To
      /\ x.channels \subseteq Channels /\ LogsRight(x)
  BY OpenFacts, MessagesTyped DEF TwinInv, KnownInv, Typed, CatchersRight, CatcherRight, CatcherTyped
<1>2. (Entitled(m) <=> m \in twin) /\ (Behind(m) <=> m \in twin)
  BY DEF Entitled, Behind
<1>3. m \in found <=> /\ messages[m].to \in x.channels /\ m > x.last
                      /\ m \in filter_by_subscription_history({m}, es)
  <2>1. \A c : m \in filter_by_subscription_history(missing(c), x.logs[c])
                 <=> m \in missing(c) /\ m \in filter_by_subscription_history({m}, x.logs[c])
    BY FilterOfOne
  <2>2. \A c : m \in missing(c) <=> messages[m].to = c /\ m > x.last
    BY <1>1 DEF Committed
  <2> QED
    BY <2>1, <2>2
<1>4. CASE messages[m].to \in Channels
  <2>1. InOrder(messages[m].to)
    BY <1>1, <1>4, OpenFacts
  <2>2. /\ es \in Seq(Entry) /\ Ascending(es)
        /\ messages[m].to \notin x.stale => es = logs[messages[m].to]
        /\ messages[m].to \in x.channels <=> es # <<>> /\ ~ (Last(es).type = "deactivated" /\ Last(es).last <= x.last)
    BY <1>1, <1>4, <2>1 DEF LogsRight, LogTyped
  <2>3. m \in twin <=> Wanted(m, es)
    <3>1. CASE m \in x.seen
      BY <1>1, <1>2, <1>4, <3>1 DEF LogsRight
    <3>2. CASE m \notin x.seen
      BY <1>2, <1>4, <2>2, <3>2 DEF TwinInv, HistoryTells
    <3> QED
      BY <3>1, <3>2
  <2>4. m \in found => m \in twin
    BY <1>3, <2>2, <2>3 DEF Wanted
  <2>5. ASSUME m \in twin PROVE m \in found
    <3>1. Wanted(m, es) /\ es # <<>> /\ m \in filter_by_subscription_history({m}, es)
      BY <2>3, <2>5 DEF Wanted
    <3>2. m > x.last /\ x.last \in Int
      BY <1>1, <1>2, <2>5 DEF LogsRight, BehindSince
    <3>3. Last(es).last \in Int
      BY <2>2, <3>1, EntriesTyped DEF Last
    <3>4. Last(es).type = "deactivated" => m <= Last(es).last
      BY <1>1, <2>2, <3>1, WantedBeforeEnd
    <3>5. messages[m].to \in x.channels
      BY <1>1, <2>2, <3>1, <3>2, <3>3, <3>4
    <3> QED
      BY <1>3, <3>1, <3>2, <3>5
  <2> QED
    BY <2>4, <2>5
<1>5. CASE messages[m].to \notin Channels
  BY <1>1, <1>2, <1>3, <1>5 DEF TwinInv, DirectHaveRows, To
<1> QED
  BY <1>4, <1>5

LEMMA ReadMessagesTwin ==
  ASSUME TwinInv, KnownInv', NEW k \in Catchers, ReadMessages(k)
  PROVE  TwinInv'
<1> DEFINE x == catching[k]
           missing(c) == {m \in Committed \ rows : messages[m].to = c /\ m > x.last}
           found == UNION {filter_by_subscription_history(missing(c), x.logs[c]) :
                             c \in {c \in x.channels : missing(c) # {}}}
           changed == {m \in Ids \ x.seen : messages[m].to \in x.stale}
<1>1. /\ x.step = "logs" /\ raced' = raced \cup changed
      /\ catching' = [catching EXCEPT ![k] =
           [NotCatching EXCEPT !.step = "insert", !.todo = found, !.seen = Committed]]
      /\ UNCHANGED <<messages, pending, subs, archived, logs, user, rows, twin, moved>>
  BY DEF ReadMessages
<1>2. /\ DOMAIN catching = Catchers /\ messages \in Seq(Message)
      /\ user \in [idle : BOOLEAN, last : Int] /\ user.last <= Len(messages)
  BY DEF TwinInv, KnownInv, Typed, TablesTyped
<1>3. \A m : m \in found <=> \E c \in x.channels : m \in filter_by_subscription_history(missing(c), x.logs[c])
  BY DEF filter_by_subscription_history
<1>4. found \subseteq Committed
  BY DEF filter_by_subscription_history
<1> HIDE DEF found
<1>5. PICK todo : todo = found
  OBVIOUS
<1>6. /\ x'.step = "insert" /\ x'.todo = todo /\ x'.seen = Committed
      /\ \A j \in Catchers : j # k => catching'[j] = catching[j]
  BY <1>1, <1>2, <1>5 DEF NotCatching
<1>7. /\ NoOthers' /\ rows' \subseteq Committed /\ CaughtUp' /\ \A m \in Open' : m \in Open
  BY <1>1, TablesKept
<1>8. TodoRight(x)'
  <2>1. \A m \in Committed : m \in Ids' /\ messages'[m].state = "committed"
    BY <1>1 DEF Committed, Ids
  <2>2. ASSUME NEW m \in Open', m \in Committed PROVE m \in todo <=> m \in twin'
    <3>1. m \in Open /\ messages[m].state = "committed" /\ m \notin changed
      BY <1>1, <1>7, <2>2 DEF Open, Excepted, Committed
    <3>2. m \in x.seen \/ messages[m].to \notin x.stale
      BY <3>1 DEF Open
    <3>3. m \in todo <=> \E c \in x.channels : m \in filter_by_subscription_history(missing(c), x.logs[c])
      BY <1>3, <1>5
    <3>4. m \in todo <=> m \in twin
      BY <1>1, <3>1, <3>2, <3>3, FoundRight
    <3> QED
      BY <1>1, <3>4
  <2>3. x'.todo \subseteq x'.seen
    BY <1>4, <1>5, <1>6
  <2> QED
    BY <1>6, <2>1, <2>2, <2>3 DEF TodoRight
<1>9. CatcherRight(x)'
  BY <1>6, <1>8 DEF CatcherRight
<1>10. ASSUME NEW p \in pending' PROVE (p.row => p.eligible) /\ (~ p.raced => SendRight(p)')
  <2>1. Unlogged(p.to)' <=> Unlogged(p.to)
    BY <1>1 DEF Unlogged
  <2> QED
    BY <1>1, <1>10, <2>1 DEF TwinInv, PendingRight, SendRight
<1>11. \A j \in Catchers : catching'[j] = catching[j] \/ CatcherRight(catching[j])'
  <2> SUFFICES ASSUME NEW j \in Catchers, j = k PROVE CatcherRight(catching[j])'
    BY <1>6
  <2> QED
    BY <1>9
<1>12. UNCHANGED <<messages, subs, archived, logs, twin, moved>> /\ rows \subseteq rows' /\ raced \subseteq raced' /\ user' = user
  BY <1>1
<1> QED
  BY <1>2, <1>7, <1>10, <1>11, <1>12, CatchUpStep

(* The greatest of a bound and some ids. *)
LEMMA MaxWith ==
  ASSUME NEW n \in Nat, NEW S, S \subseteq 1..n, NEW a \in Int
  PROVE  Max({a} \cup S) \in {a} \cup S /\ \A y \in {a} \cup S : y <= Max({a} \cup S)
<1>1. \E x \in {a} \cup S : \A y \in {a} \cup S : x >= y
  <2>1. CASE S = {}
    BY <2>1
  <2>2. CASE S # {}
    <3>1. PICK b \in S : \A y \in S : y <= b
      BY <2>2, HasMax
    <3>2. \A y \in S : y \in Int
      OBVIOUS
    <3>3. CASE a >= b
      <4>1. \A y \in {a} \cup S : a >= y
        BY <3>1, <3>2, <3>3
      <4> QED
        BY <4>1
    <3>4. CASE ~ a >= b
      <4>1. \A y \in {a} \cup S : b >= y
        BY <3>1, <3>2, <3>4
      <4> QED
        BY <4>1
    <3> QED
      BY <3>3, <3>4
  <2> QED
    BY <2>1, <2>2
<1>2. \A y \in {a} \cup S : y \in Int
  OBVIOUS
<1> DEFINE T == {a} \cup S
<1> HIDE DEF T
<1>3. Max(T) \in T /\ \A y \in T : Max(T) >= y
  BY <1>1 DEF Max, T
<1> QED
  BY <1>2, <1>3 DEF T

(* A batch of messages that are still there.                               *)
Batch(todo) == {m \in todo : Cardinality({x \in todo : x < m}) < BULK_CREATE_BATCH_SIZE}

LEMMA BatchTwin ==
  ASSUME TwinInv, KnownInv', NEW k \in Catchers, catching[k].step = "insert",
         NEW batch, NEW last,
         batch = Batch(catching[k].todo),
         last = Max({user.last} \cup batch), batch \subseteq Committed,
         rows' = rows \cup batch, user' = [user EXCEPT !.last = last],
         catching' = [catching EXCEPT ![k].todo = catching[k].todo \ batch],
         raced' = raced \cup {m \in Ids \ catching[k].seen : m <= last},
         UNCHANGED <<messages, pending, subs, archived, logs, twin, moved>>
  PROVE  TwinInv'
<1> DEFINE x == catching[k]
<1>1. /\ messages \in Seq(Message) /\ DOMAIN catching = Catchers /\ rows \subseteq Committed
      /\ user \in [idle : BOOLEAN, last : Int] /\ user.last <= Len(messages)
      /\ x.todo \subseteq Ids /\ Fields \subseteq DOMAIN x
  BY DEF TwinInv, KnownInv, Typed, TablesTyped, CatcherTyped
<1>2. Ids = 1..Len(messages) /\ Len(messages) \in Nat /\ Ids' = Ids /\ \A m \in Ids : m \in Nat
  BY <1>1, MessagesTyped DEF Ids
<1>3. TodoRight(x)
  BY DEF TwinInv, CatchersRight, CatcherRight
<1>4. batch \subseteq x.todo /\ batch \subseteq 1..Len(messages)
  BY <1>1, <1>2 DEF Batch
<1>5. last \in {user.last} \cup batch /\ \A y \in {user.last} \cup batch : y <= last
  BY <1>1, <1>2, <1>4, MaxWith
<1>6. last \in Int /\ last <= Len(messages)
  BY <1>1, <1>2, <1>4, <1>5
<1>7. user' \in [idle : BOOLEAN, last : Int] /\ user'.last = last /\ user'.idle = user.idle
  BY <1>1, <1>6
<1>8. \A m \in Ids : Excepted(m) => Excepted(m)'
  BY LogsUnchanged, ExceptionsGrow
<1>9. ASSUME NEW m \in Open' PROVE m \in Open /\ m \notin batch /\ (m \notin x.seen => ~ m <= last)
  BY <1>2, <1>8 DEF Open, Excepted
<1>10. \A m : (Behind(m)' <=> Behind(m)) /\ (Entitled(m)' <=> Entitled(m))
  BY DEF Behind, Entitled
<1>11. NoOthers'
  <2> SUFFICES ASSUME NEW m \in rows', m \notin twin, ~ Excepted(m)' PROVE FALSE
    BY DEF NoOthers
  <2>1. m \in Ids /\ ~ Excepted(m)
    BY <1>1, <1>4, <1>8 DEF Committed
  <2>2. m \in batch /\ m \notin rows
    BY <2>1 DEF TwinInv, NoOthers
  <2>3. m \in Open
    BY <2>1, <2>2 DEF Open, Committed
  <2> QED
    BY <1>3, <1>4, <2>2, <2>3 DEF TodoRight
<1>12. CaughtUp'
  <2>1. CASE ~ user.idle
    BY <1>7, <1>9, <1>10, <2>1 DEF TwinInv, CaughtUp
  <2>2. CASE user.idle
    <3> SUFFICES ASSUME NEW m \in Open', Behind(m) PROVE m > last
      BY <1>7, <1>10, <2>2 DEF CaughtUp, BehindSince
    <3>1. m \in Open /\ m \notin batch /\ m \in Nat /\ m > user.last /\ m \in Ids
      BY <1>2, <1>9, <2>2 DEF TwinInv, CaughtUp, BehindSince, Open
    <3>2. CASE m \notin x.seen
      <4>1. ~ m <= last
        BY <1>9, <3>2
      <4> QED
        BY <1>6, <3>1, <4>1
    <3>3. CASE m \in x.seen
      <4>1. messages[m].state = "committed"
        BY <1>1, <1>3, <3>1, <3>3, OpenFacts DEF TodoRight
      <4>2. m \in x.todo
        BY <1>3, <3>1, <3>3, <4>1 DEF TodoRight, Behind, Entitled
      <4>3. ASSUME NEW b \in batch PROVE m > b
        <5>1. Cardinality({y \in x.todo : y < b}) < BULK_CREATE_BATCH_SIZE /\ b \in x.todo
          BY DEF Batch
        <5>2. ~ Cardinality({y \in x.todo : y < m}) < BULK_CREATE_BATCH_SIZE
          BY <3>1, <4>2 DEF Batch
        <5>3. BULK_CREATE_BATCH_SIZE \in Nat
          BY ConstantsAssumption
        <5>4. ~ m <= b
          <6>1. x.todo \subseteq 1..Len(messages) /\ Len(messages) \in Nat
            BY <1>1, <1>2
          <6> QED
            BY <4>2, <5>1, <5>2, <5>3, <6>1, BatchIsOldest
        <5>5. b \in Int /\ m \in Int
          BY <1>4, <3>1
        <5> QED
          BY <5>4, <5>5
      <4> QED
        BY <1>5, <3>1, <4>3
    <3> QED
      BY <3>2, <3>3
  <2> QED
    BY <2>1, <2>2
<1>13. /\ x'.todo = x.todo \ batch /\ x'.seen = x.seen /\ x'.step = x.step
       /\ \A j \in Catchers : j # k => catching'[j] = catching[j]
  BY <1>1 DEF Fields
<1>14. TodoRight(x)'
  <2>1. x'.todo \subseteq x'.seen
    BY <1>3, <1>13 DEF TodoRight
  <2>2. \A m \in x'.seen : m \in Ids' /\ messages'[m].state # "inserted"
    BY <1>2, <1>3, <1>13 DEF TodoRight
  <2>3. \A m \in Open' \cap x'.seen : m \in x'.todo <=> m \in twin'
    BY <1>3, <1>9, <1>13 DEF TodoRight
  <2> QED
    BY <2>1, <2>2, <2>3 DEF TodoRight
<1>15. CatcherRight(x)'
  BY <1>13, <1>14 DEF CatcherRight
<1>16. \A j \in Catchers : catching'[j] = catching[j] \/ CatcherRight(catching[j])'
  <2> SUFFICES ASSUME NEW j \in Catchers, j = k PROVE CatcherRight(catching[j])'
    BY <1>13
  <2> QED
    BY <1>15
<1>17. ASSUME NEW p \in pending' PROVE (p.row => p.eligible) /\ (~ p.raced => SendRight(p)')
  <2>1. Unlogged(p.to)' <=> Unlogged(p.to)
    BY DEF Unlogged
  <2> QED
    BY <1>7, <1>17, <2>1 DEF TwinInv, PendingRight, SendRight
<1>18. rows \subseteq rows' /\ rows' \subseteq Committed /\ raced \subseteq raced' /\ user'.last <= Len(messages)
  BY <1>1, <1>6, <1>7
<1> QED
  BY <1>7, <1>11, <1>12, <1>16, <1>17, <1>18, CatchUpStep

LEMMA InsertBatchTwin ==
  ASSUME TwinInv, KnownInv', NEW k \in Catchers, InsertBatch(k)
  PROVE  TwinInv'
<1> DEFINE batch == {m \in catching[k].todo :
                       Cardinality({x \in catching[k].todo : x < m}) < BULK_CREATE_BATCH_SIZE}
           last == Max({user.last} \cup batch)
<1>1. /\ catching[k].step = "insert"
      /\ UNCHANGED <<messages, pending, subs, archived, logs, twin, moved>>
      /\ IF batch \subseteq Committed
         THEN /\ rows' = rows \cup batch
              /\ user' = [user EXCEPT !.last = last]
              /\ catching' = [catching EXCEPT ![k].todo = catching[k].todo \ batch]
              /\ raced' = raced \cup {m \in Ids \ catching[k].seen : m <= last}
         ELSE /\ catching' = [catching EXCEPT ![k] = NotCatching]
              /\ UNCHANGED <<rows, user, raced>>
  BY DEF InsertBatch
<1>2. CASE batch \subseteq Committed
  <2>1. PICK b, l : b = batch /\ l = last
    OBVIOUS
  <2>2. /\ rows' = rows \cup b /\ user' = [user EXCEPT !.last = l] /\ b \subseteq Committed
        /\ catching' = [catching EXCEPT ![k].todo = catching[k].todo \ b]
        /\ raced' = raced \cup {m \in Ids \ catching[k].seen : m <= l}
    BY <1>1, <1>2, <2>1
  <2>3. b = Batch(catching[k].todo) /\ l = Max({user.last} \cup b)
    BY <2>1 DEF Batch
  <2>4. /\ catching[k].step = "insert"
        /\ UNCHANGED <<messages, pending, subs, archived, logs, twin, moved>>
    BY <1>1
  <2> HIDE DEF batch, last
  <2> QED
    BY <2>2, <2>3, <2>4, BatchTwin
<1>3. CASE ~ batch \subseteq Committed
  <2>1. /\ catching' = [catching EXCEPT ![k] = NotCatching]
        /\ UNCHANGED <<messages, pending, subs, archived, logs, twin, moved, rows, user, raced>>
    BY <1>1, <1>3
  <2>2. DOMAIN catching = Catchers /\ user \in [idle : BOOLEAN, last : Int] /\ user.last <= Len(messages)
    BY DEF TwinInv, KnownInv, Typed, TablesTyped
  <2>3. \A j \in Catchers : catching'[j] = catching[j] \/ CatcherRight(catching[j])'
    BY <2>1, <2>2 DEF CatcherRight, NotCatching
  <2>4. ASSUME NEW p \in pending' PROVE (p.row => p.eligible) /\ (~ p.raced => SendRight(p)')
    <3>1. Unlogged(p.to)' <=> Unlogged(p.to)
      BY <2>1 DEF Unlogged
    <3> QED
      BY <2>1, <2>4, <3>1 DEF TwinInv, PendingRight, SendRight
  <2>5. NoOthers' /\ rows' \subseteq Committed /\ CaughtUp'
    BY <2>1, TablesKept
  <2> QED
    BY <2>1, <2>2, <2>3, <2>4, <2>5, CatchUpStep
<1> QED
  BY <1>2, <1>3

LEMMA FinishCatchUpTwin ==
  ASSUME TwinInv, KnownInv', NEW k \in Catchers, NEW reactivates \in BOOLEAN, FinishCatchUp(k, reactivates)
  PROVE  TwinInv'
<1> DEFINE x == catching[k]
<1>1. /\ x.step = "insert" /\ x.todo = {} /\ catching' = [catching EXCEPT ![k] = NotCatching]
      /\ UNCHANGED <<messages, subs, archived, logs, rows, twin, moved>>
  BY DEF FinishCatchUp
<1>2. /\ \/ ~ reactivates /\ UNCHANGED <<user, raced, pending>>
         \/ /\ user' = [user EXCEPT !.idle = FALSE]
            /\ raced' = raced \cup Lazy(Ids \ x.seen)
            /\ pending' = {[p EXCEPT !.raced = p.raced \/ ~ p.row] : p \in pending}
  BY DEF FinishCatchUp
<1>3. /\ DOMAIN catching = Catchers /\ user \in [idle : BOOLEAN, last : Int] /\ user.last <= Len(messages)
      /\ messages \in Seq(Message) /\ pending \subseteq Send /\ TodoRight(x)
  BY <1>1 DEF TwinInv, KnownInv, Typed, TablesTyped, CatchersRight, CatcherRight
<1>4. \A j \in Catchers : catching'[j] = catching[j] \/ CatcherRight(catching[j])'
  BY <1>1, <1>3 DEF CatcherRight, NotCatching
<1>5. user' \in [idle : BOOLEAN, last : Int] /\ user'.last <= Len(messages) /\ raced \subseteq raced'
  BY <1>2, <1>3
<1>6. /\ NoOthers' /\ rows' \subseteq Committed /\ (user' = user => CaughtUp')
      /\ \A m \in Open' : m \in Open /\ (Behind(m)' <=> Behind(m))
  BY <1>1, <1>5, TablesKept
<1>7. CASE ~ reactivates /\ UNCHANGED <<user, raced, pending>>
  <2>1. ASSUME NEW p \in pending' PROVE (p.row => p.eligible) /\ (~ p.raced => SendRight(p)')
    <3>1. Unlogged(p.to)' <=> Unlogged(p.to)
      BY <1>1 DEF Unlogged
    <3> QED
      BY <1>1, <1>7, <2>1, <3>1 DEF TwinInv, PendingRight, SendRight
  <2>2. CaughtUp'
    BY <1>6, <1>7
  <2> QED
    BY <1>1, <1>4, <1>5, <1>6, <2>1, <2>2, CatchUpStep
<1>8. CASE /\ user' = [user EXCEPT !.idle = FALSE]
           /\ raced' = raced \cup Lazy(Ids \ x.seen)
           /\ pending' = {[p EXCEPT !.raced = p.raced \/ ~ p.row] : p \in pending}
  <2>1. ~ user'.idle
    BY <1>3, <1>8
  <2>2. ASSUME NEW m \in Open' PROVE ~ Behind(m)
    <3>1. m \in Open /\ m \in Ids /\ m \notin rows /\ m \notin Lazy(Ids \ x.seen)
      <4>1. m \in Open /\ m \notin Lazy(Ids \ x.seen)
        BY <1>6, <1>8 DEF Open, Excepted
      <4> QED
        BY <1>3, <4>1, OpenFacts
    <3>2. messages[m].state \in {"inserted", "committed"}
      BY <1>3, <3>1, OpenFacts
    <3>3. CASE m \in x.seen
      BY <1>1, <1>3, <3>1, <3>2, <3>3 DEF TodoRight, Behind, Entitled
    <3>4. CASE m \notin x.seen
      <4>1. messages[m].row
        BY <3>1, <3>4 DEF Lazy
      <4>2. messages[m].state # "committed"
        BY <3>1, <4>1 DEF TwinInv, KnownInv, SendsKnown, Committed
      <4> QED
        BY <3>2, <4>1, <4>2 DEF Behind
    <3> QED
      BY <3>3, <3>4
  <2>3. CaughtUp'
    BY <1>6, <2>1, <2>2 DEF CaughtUp
  <2>4. ASSUME NEW q \in pending' PROVE (q.row => q.eligible) /\ (~ q.raced => SendRight(q)')
    <3>1. PICK p \in pending : q = [p EXCEPT !.raced = p.raced \/ ~ p.row]
      BY <1>8
    <3> DEFINE mark == p.raced \/ ~ p.row
    <3>2. p \in Send /\ (p.row => p.eligible)
      BY <1>3 DEF TwinInv, PendingRight
    <3>3. q.row = p.row /\ q.eligible = p.eligible /\ q.to = p.to /\ q.raced = mark
      BY <3>1, <3>2 DEF Send
    <3>4. ASSUME ~ mark PROVE SendRight(q)'
      <4>1. SendRight(p) /\ p.row
        BY <3>4 DEF TwinInv, PendingRight
      <4>2. Unlogged(q.to)' <=> Unlogged(q.to)
        BY <1>1 DEF Unlogged
      <4> QED
        BY <1>1, <3>3, <4>1, <4>2 DEF SendRight
    <3> QED
      BY <3>2, <3>3, <3>4
  <2> QED
    BY <1>1, <1>4, <1>5, <1>6, <2>3, <2>4, CatchUpStep
<1> QED
  BY <1>2, <1>7, <1>8

LEMMA UnchangedTwin ==
  ASSUME TwinInv, KnownInv', UNCHANGED vars
  PROVE  TwinInv'
<1>1. UNCHANGED <<messages, pending, subs, archived, logs, user, rows, twin, catching, raced, moved>>
  BY DEF vars
<1>2. user \in [idle : BOOLEAN, last : Int] /\ user.last <= Len(messages)
  BY DEF TwinInv, TablesTyped
<1>3. ASSUME NEW p \in pending' PROVE (p.row => p.eligible) /\ (~ p.raced => SendRight(p)')
  <2>1. Unlogged(p.to)' <=> Unlogged(p.to)
    BY <1>1 DEF Unlogged
  <2> QED
    BY <1>1, <1>3, <2>1 DEF TwinInv, PendingRight, SendRight
<1>4. NoOthers' /\ rows' \subseteq Committed /\ CaughtUp'
  BY <1>1, TablesKept
<1> QED
  BY <1>1, <1>2, <1>3, <1>4, CatchUpStep

-----------------------------------------------------------------------------

LEMMA TwinStep == TwinInv /\ [Next]_vars => TwinInv'
<1> SUFFICES ASSUME TwinInv, [Next]_vars PROVE TwinInv'
  OBVIOUS
<1>1. KnownInv'
  BY KnownStep DEF TwinInv
<1>2. ASSUME NEW to \in Channels \cup {DirectMessage}, NEW needed \in BOOLEAN, ReadRecipients(to, needed)
      PROVE TwinInv'
  BY <1>1, <1>2, ReadRecipientsTwin DEF To
<1>3. ASSUME NEW send \in pending, InsertMessage(send) PROVE TwinInv'
  BY <1>1, <1>3, InsertMessageTwin
<1>4. ASSUME NEW m \in Ids, CommitSend(m) \/ RollBackSend(m) \/ Delete(m) \/ TouchMessage(m)
      PROVE TwinInv'
  BY <1>1, <1>4, CommitSendTwin, GoneTwin, TouchMessageTwin
<1>5. ASSUME NEW m \in Ids, NEW c \in Channels, Move(m, c) PROVE TwinInv'
  BY <1>1, <1>5, MoveTwin
<1>6. ASSUME NEW c \in Channels, Subscribe(c) \/ DeactivateChannel(c) PROVE TwinInv'
  BY <1>1, <1>6, SubscribeTwin, DeactivateChannelTwin
<1>7. ASSUME NEW c \in Channels, NEW b \in BOOLEAN, Unsubscribe(c, b) \/ UnarchiveChannel(c, b)
      PROVE TwinInv'
  BY <1>1, <1>7, UnsubscribeTwin, UnarchiveChannelTwin
<1>8. CASE SoftDeactivate
  BY <1>1, <1>8, SoftDeactivateTwin
<1>9. ASSUME NEW k \in Catchers, ReadLogs(k) \/ ReadMessages(k) \/ InsertBatch(k) PROVE TwinInv'
  BY <1>1, <1>9, ReadLogsTwin, ReadMessagesTwin, InsertBatchTwin
<1>10. ASSUME NEW k \in Catchers, NEW reactivates \in BOOLEAN, FinishCatchUp(k, reactivates)
       PROVE TwinInv'
  BY <1>1, <1>10, FinishCatchUpTwin
<1>11. CASE UNCHANGED vars
  BY <1>1, <1>11, UnchangedTwin
<1> QED
  BY <1>2, <1>3, <1>4, <1>5, <1>6, <1>7, <1>8, <1>9, <1>10, <1>11 DEF Next

(* Soft deactivation leaves no trace: once reactivated, the user has the   *)
(* rows that create_user_messages would have given all along, and never    *)
(* others.  filter_by_subscription_history decides from the audit log as   *)
(* do_send_messages decided from the subscription, whatever batch of       *)
(* add_missing_messages was the last to be inserted, but for the           *)
(* exceptions of SameRowsAsTwin.                                           *)
THEOREM SameRowsCorrect == Spec => []SameRowsAsTwin
<1>1. Init => TwinInv
  <2> SUFFICES ASSUME Init PROVE TwinInv
    OBVIOUS
  <2>1. KnownInv
    BY KnownInit
  <2>2. /\ messages = <<>> /\ Ids = {} /\ Committed = {} /\ Open = {} /\ Len(messages) = 0
        /\ pending = {} /\ rows = {} /\ twin = {} /\ ~ user.idle
    BY DEF Init, Ids, Committed, Open
  <2>3. TablesTyped
    <3> DEFINE e == [type |-> "created", last |-> -1]
    <3>0. e \in Entry /\ e.last <= 0
      BY DEF Entry, Types
    <3> HIDE DEF e
    <3>1. <<e>> \in Seq(Entry) /\ \A i \in DOMAIN <<e>> : <<e>>[i].last <= 0
      BY <3>0
    <3>2. \A c \in Channels : logs[c] \in {<<e>>, <<>>}
      BY DEF Init, e
    <3>3. \A c \in Channels : LogTyped(logs[c])
      <4>1. ASSUME NEW es, es \in {<<e>>, <<>>} PROVE LogTyped(es)
        <5>1. CASE es = <<e>>
          BY <2>2, <3>1, <5>1 DEF LogTyped
        <5>2. CASE es = <<>>
          BY <5>2 DEF LogTyped
        <5> QED
          BY <4>1, <5>1, <5>2
      <4> QED
        BY <3>2, <4>1
    <3>4. logs \in [Channels -> Seq(Entry)]
      BY <3>3 DEF Init, LogTyped
    <3>5. archived \in [Channels -> BOOLEAN] /\ user \in [idle : BOOLEAN, last : Int] /\ user.last <= 0
      BY DEF Init
    <3> QED
      BY <2>2, <3>3, <3>4, <3>5 DEF TablesTyped
  <2>4. SubscriptionsLogged
    BY DEF Init, SubscriptionsLogged, Last
  <2>5. HistoryTells /\ DirectHaveRows /\ PendingRight /\ UnloggedAreRaced /\ NoOthers /\ CaughtUp
    BY <2>2 DEF HistoryTells, DirectHaveRows, PendingRight, UnloggedAreRaced, NoOthers, CaughtUp
  <2>6. CatchersRight
    BY DEF Init, CatchersRight, CatcherRight, NotCatching
  <2> QED
    BY <2>1, <2>3, <2>4, <2>5, <2>6 DEF TwinInv
<1>2. TwinInv => SameRowsAsTwin
  <2> SUFFICES ASSUME TwinInv, ~ user.idle, NEW m \in twin \ rows, ~ Excepted(m) PROVE FALSE
    BY DEF SameRowsAsTwin, TwinInv, NoOthers
  <2>1. m \in Ids /\ messages[m].state = "committed"
    BY DEF TwinInv, TablesTyped, Committed
  <2> QED
    BY <2>1 DEF TwinInv, CaughtUp, Open, Behind, Entitled
<1> QED
  BY <1>1, <1>2, TwinStep, PTL DEF Spec
=============================================================================
