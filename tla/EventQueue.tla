----------------------------- MODULE EventQueue -----------------------------
(***************************************************************************)
(* The class EventQueue of zerver/tornado/event_queue.py: the deque of     *)
(* events one client has not acknowledged yet, and the virtual events that *)
(* compress update_message_flags events.  Each operator takes the value of *)
(* the object and returns its new value.  An event is a record with its    *)
(* type and the list "messages" it is about; what else an event carries is *)
(* abstracted away.                                                        *)
(***************************************************************************)
EXTENDS Integers, Sequences, SequencesExt

NewQueue ==
  [queue            |-> << >>,
   next_event_id    |-> 0,
   newest_pruned_id |-> -1,
   virtual_events   |-> << >>]     \* the function with the empty domain

(* The slash-separated name of the code is the tuple of its parts. *)
compute_full_event_type(event) ==
  IF event.type # "update_message_flags" THEN <<event.type>>
  ELSE IF event.all THEN <<"all_flags", event.flag, event.operation>>
  ELSE <<"flags", event.operation, event.flag>>

Compressible(full_event_type) ==
  /\ full_event_type[1] = "flags"
  /\ full_event_type # <<"flags", "remove", "read">>

(* The event with its id. *)
Numbered(orig_event, id) ==
  [field \in DOMAIN orig_event \cup {"id"} |-> IF field = "id" THEN id ELSE orig_event[field]]

(* Fault: the messages of a compressed event replace those before. *)
CompressedReplacing(virtual_events, event) ==
  [t \in DOMAIN virtual_events \cup {compute_full_event_type(event)} |->
     IF t = compute_full_event_type(event) THEN event ELSE virtual_events[t]]

(* The virtual events with one more: the event of its type, if there is    *)
(* one, takes the id and the messages of the new one.                      *)
Compressed(virtual_events, event) ==
  LET full_event_type == compute_full_event_type(event)
  IN  [t \in DOMAIN virtual_events \cup {full_event_type} |->
         IF t # full_event_type THEN virtual_events[t]
         ELSE IF t \notin DOMAIN virtual_events THEN event
         ELSE [virtual_events[t] EXCEPT !.id = event.id, !.messages = @ \o event.messages]]

push(eq, orig_event) ==
  LET event == Numbered(orig_event, eq.next_event_id)
  IN  IF Compressible(compute_full_event_type(event))
      THEN [eq EXCEPT !.next_event_id = @ + 1,
                      !.virtual_events = Compressed(@, event)]
      ELSE [eq EXCEPT !.next_event_id = @ + 1,
                      !.queue = Append(@, event)]

empty(eq) == eq.queue = << >> /\ DOMAIN eq.virtual_events = {}

(* Fault: the event acknowledged last is not popped. *)
PrunedCountBelow(eq, through_id) ==
  CHOOSE k \in 0..Len(eq.queue) :
    /\ \A i \in 1..k : eq.queue[i].id < through_id
    /\ k < Len(eq.queue) => eq.queue[k + 1].id >= through_id

(* How many events the loop of prune pops: the longest prefix of the deque *)
(* whose ids are at most through_id.                                       *)
PrunedCount(eq, through_id) ==
  CHOOSE k \in 0..Len(eq.queue) :
    /\ \A i \in 1..k : eq.queue[i].id <= through_id
    /\ k < Len(eq.queue) => eq.queue[k + 1].id > through_id

prune(eq, through_id) ==
  LET k == PrunedCount(eq, through_id)
  IN  [eq EXCEPT
         !.queue = SubSeq(@, k + 1, Len(@)),
         !.newest_pruned_id = IF k = 0 THEN @ ELSE eq.queue[k].id]

(* Every event the object holds, real or virtual. *)
HeldEvents(eq) ==
  ToSet(eq.queue) \cup {eq.virtual_events[t] : t \in DOMAIN eq.virtual_events}

(* The elements of a finite set, in the order Before: the k-th has k - 1   *)
(* elements before it.                                                     *)
InOrder(S, Before(_, _)) ==
  [k \in 1..Cardinality(S) |->
     CHOOSE x \in S : Cardinality({y \in S : Before(y, x)}) = k - 1]

(* The virtual events, sorted by id, go into the deque, each before the    *)
(* first event that has a larger id.  The ids of the deque ascend, so this  *)
(* lists all events by their ids.                                          *)
contents(eq) == InOrder(HeldEvents(eq), LAMBDA v, w : v.id < w.id)

(* Fault: virtual_events is not cleared. *)
AfterContentsUncleared(eq) == [eq EXCEPT !.queue = contents(eq)]

(* The object after contents(): the virtual events have become real. *)
AfterContents(eq) == [eq EXCEPT !.queue = contents(eq), !.virtual_events = << >>]
=============================================================================
