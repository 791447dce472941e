---------------------------- MODULE EventStream ----------------------------
(***************************************************************************)
(* What the events system promises a browser tab, with no queue, network   *)
(* or process in sight: the server generates a stream of events and the    *)
(* tab applies each of them exactly once.  The tab may take several events *)
(* at a time, but never leaves a gap behind: the events applied are always *)
(* a prefix of the stream.  Within one batch events of different classes   *)
(* may be reordered, and messages are put in the order of their ids; other *)
(* events of one class keep their order, and what changes a message is     *)
(* applied after the message itself.  The promise can be broken; a tab     *)
(* that loads again is told all there is and promised the rest anew.       *)
(***************************************************************************)
EXTENDS Integers, Sequences, FiniteSets

CONSTANT Classes,       \* how the tab groups the events of a batch
         Before(_, _),  \* Before(c, d): in one batch, class c is applied before d
         MessageIds     \* the ids of messages; 0 is the id of an event that is none

VARIABLES generated,    \* the class of each event the server generated, in order
          message_ids,  \* the id of the message each of them brings
          applied,      \* the numbers of the events the tab applied, in its order
          broken        \* has the tab lost its place in the stream?

vars == <<generated, message_ids, applied, broken>>

Init == generated = << >> /\ message_ids = << >> /\ applied = << >> /\ broken = FALSE

Generate(c) ==
  /\ generated' = Append(generated, c)
  /\ \E id \in MessageIds : message_ids' = Append(message_ids, id)
  /\ UNCHANGED <<applied, broken>>

(* The orders in which the tab may apply the events numbered from..to. *)
Arrangements(from, to) ==
  {batch \in [1..(to - from + 1) -> from..to] :
     \A i, j \in DOMAIN batch : i < j =>
       \/ Before(generated[batch[i]], generated[batch[j]])
       \/ /\ generated[batch[i]] = generated[batch[j]]
          /\ \/ message_ids[batch[i]] < message_ids[batch[j]]
             \/ message_ids[batch[i]] = message_ids[batch[j]] /\ batch[i] < batch[j]}

Apply ==
  /\ ~broken
  /\ \E to \in (Len(applied) + 1)..Len(generated) :
       \E batch \in Arrangements(Len(applied) + 1, to) :
         applied' = applied \o batch
  /\ UNCHANGED <<generated, message_ids, broken>>

Break ==
  /\ broken' = TRUE /\ applied' = << >>
  /\ UNCHANGED <<generated, message_ids>>

Reload ==
  /\ broken' = FALSE
  /\ applied' = [n \in 1..Len(generated) |-> n]
  /\ UNCHANGED <<generated, message_ids>>

Next == (\E c \in Classes : Generate(c)) \/ Apply \/ Break \/ Reload

Spec == Init /\ [][Next]_vars
=============================================================================
