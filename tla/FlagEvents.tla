----------------------------- MODULE FlagEvents -----------------------------
(***************************************************************************)
(* One flag of one user's messages: the database rows that                 *)
(* do_update_message_flags (zerver/actions/message_flags.py) updates, the  *)
(* update_message_flags events it sends, their compression in the event    *)
(* queue of a tab, and the tab's own copy of the flag.  A request commits  *)
(* its transaction before it sends its event, so the events of requests    *)
(* that run at the same time may leave in either order.                    *)
(***************************************************************************)
EXTENDS EventQueue, FiniteSets

CONSTANTS
  Messages,
  Flag,          \* "starred" or "read"
  Workers,       \* requests of the user that run at one time
  MaxUpdates     \* requests in all

ASSUME FlagAssumption ==
  /\ IsFiniteSet(Messages)
  /\ Flag \in {"starred", "read"}
  /\ Workers \in Nat \ {0} /\ MaxUpdates \in Nat

VARIABLES
  flagged,       \* UserMessage rows that have the flag
  committed,     \* requests between their commit and send_event
  updates,       \* how many requests have been made
  eq,            \* the event queue of the tab
  shown,         \* the messages the tab shows as flagged
  crossed        \* history: messages with events of both operations in one batch
                 \* or in requests that ran at the same time

vars == <<flagged, committed, updates, eq, shown, crossed>>

Operations == {"add", "remove"}

FlagEvent(operation, messages) ==
  [type |-> "update_message_flags", all |-> FALSE, flag |-> Flag,
   operation |-> operation, messages |-> messages]

(* The messages an operation is both asked for and changes. *)
Changing(operation, messages) ==
  IF operation = "add" THEN messages \ flagged ELSE messages \cap flagged

(* Are there unfetched events for message m of the other operation? *)
Meets(operation, m, events) ==
  \E e \in events : e.operation # operation /\ m \in ToSet(e.messages)

Commit(operation, messages) ==
  LET changing == Changing(operation, messages)
      pending == HeldEvents(eq) \cup {c.event : c \in committed}
  IN  /\ updates < MaxUpdates
      /\ Cardinality(committed) < Workers
      /\ flagged' = IF operation = "add" THEN flagged \cup changing ELSE flagged \ changing
      /\ committed' = committed \cup
           {[no |-> updates, event |-> FlagEvent(operation, SetToSeq(changing))]}
      /\ crossed' = crossed \cup {m \in changing : Meets(operation, m, pending)}
      /\ updates' = updates + 1
      /\ UNCHANGED <<eq, shown>>

SendEvent ==
  /\ \E c \in committed :
       /\ eq' = push(eq, c.event)
       /\ committed' = committed \ {c}
  /\ UNCHANGED <<flagged, updates, shown, crossed>>

(* The tab applies one update_message_flags event. *)
ApplyFlagEvent(showing, event) ==
  IF event.operation = "add" THEN showing \cup ToSet(event.messages)
                             ELSE showing \ ToSet(event.messages)

(* fetch_events and get_events_success: the tab takes and acknowledges     *)
(* everything the queue holds.                                             *)
FetchAndApply ==
  /\ ~empty(eq)
  /\ shown' = FoldLeft(ApplyFlagEvent, shown, contents(eq))
  /\ eq' = prune(AfterContents(eq), eq.next_event_id - 1)
  /\ UNCHANGED <<flagged, committed, updates, crossed>>

Init ==
  /\ flagged = {} /\ shown = {} /\ crossed = {}
  /\ committed = {} /\ updates = 0
  /\ eq = NewQueue

Next ==
  \/ \E operation \in Operations, messages \in SUBSET Messages : Commit(operation, messages)
  \/ SendEvent
  \/ FetchAndApply

Spec == Init /\ [][Next]_vars

-----------------------------------------------------------------------------

UpToDate == committed = {} /\ empty(eq)

(* Compression of flag events (EventQueue.push) loses no change: a tab     *)
(* that has fetched everything shows each message as the database has it,  *)
(* but for the messages that were flagged and unflagged between two        *)
(* fetches, or by requests that ran at the same time.                      *)
ConvergesUnlessCrossed ==
  UpToDate => \A m \in Messages \ crossed : m \in shown <=> m \in flagged
=============================================================================
