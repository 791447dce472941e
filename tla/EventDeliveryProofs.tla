------------------------ MODULE EventDeliveryProofs ------------------------
(***************************************************************************)
(* Proofs about EventDelivery: no event is lost or doubled, a tab is never *)
(* told that its acknowledgement makes no sense, and the arrangement of    *)
(* queue, network and browser implements the stream of EventStream, for    *)
(* any numbers of events, connections and faults.                          *)
(***************************************************************************)
EXTENDS EventDelivery, FiniteSetTheorems, SequenceTheorems, WellFoundedInduction, TLAPS

(* The events of a queue: those that are compressed and all others.        *)
PlainTypes == {"presence", "message", "update_message", "heartbeat", "restart"}
PlainEvents == [type : PlainTypes, messages : Seq(Nat), id : Nat]
FlagsEvents ==
  [type : {"update_message_flags"}, all : {FALSE}, operation : {"add"}, flag : {"read"},
   messages : Seq(Nat), id : Nat]
QueuedEvents == PlainEvents \cup FlagsEvents

FlagsType == <<"flags", "add", "read">>

VirtualEvents == [{} -> FlagsEvents] \cup [{FlagsType} -> FlagsEvents]

Queues ==
  [queue : Seq(QueuedEvents), next_event_id : Nat, newest_pruned_id : Nat \cup {-1},
   virtual_events : VirtualEvents]

Virtual(q) == {q.virtual_events[t] : t \in DOMAIN q.virtual_events}

(* The ids of a queue: given out already, in the order of the deque; a     *)
(* virtual event is newer than the real events of its class.               *)
QueueOK(q) ==
  /\ q.newest_pruned_id < q.next_event_id
  /\ \A e \in HeldEvents(q) : e.id < q.next_event_id
  /\ \A i, j \in DOMAIN q.queue : i < j => q.queue[i].id < q.queue[j].id
  /\ \A v \in Virtual(q) : \A e \in ToSet(q.queue) :
       e.id # v.id /\ (ClassOf(e) = "post" => e.id < v.id)

-----------------------------------------------------------------------------
(* Lists in order. *)

(* R orders the elements of S. *)
Orders(R, S) ==
  /\ \A x \in S : <<x, x>> \notin R
  /\ \A x, y, z \in S : <<x, y>> \in R /\ <<y, z>> \in R => <<x, z>> \in R
  /\ \A x, y \in S : x # y => <<x, y>> \in R \/ <<y, x>> \in R

Below(x, R, S) == {y \in S : <<y, x>> \in R}

(* The k-th element of an ordered set is the one with k - 1 elements       *)
(* before it: there is one for each k.                                     *)
LEMMA RanksAreAll ==
  ASSUME NEW S, IsFiniteSet(S), NEW R, Orders(R, S)
  PROVE  /\ \A x \in S : Cardinality(Below(x, R, S)) \in Nat
         /\ \A x, y \in S : <<x, y>> \in R =>
              Cardinality(Below(x, R, S)) < Cardinality(Below(y, R, S))
         /\ \A k \in 1..Cardinality(S) : \E x \in S : Cardinality(Below(x, R, S)) = k - 1
<1> DEFINE B(x) == Below(x, R, S)
           n == Cardinality(S)
<1>1. \A x \in S : B(x) \in SUBSET S /\ x \notin B(x)
  BY DEF Below, Orders
<1>2. n \in Nat
  BY FS_CardinalityType
<1>3. \A x \in S : IsFiniteSet(B(x)) /\ Cardinality(B(x)) \in Nat
  BY <1>1, FS_Subset, FS_CardinalityType
<1>4. ASSUME NEW x \in S PROVE Cardinality(B(x)) \in 0..(n - 1)
  <2>1. Cardinality(B(x)) <= n /\ (n = Cardinality(B(x)) => S = B(x))
    BY <1>1, FS_Subset
  <2> QED
    BY <2>1, <1>1, <1>2, <1>3
<1>5. ASSUME NEW x \in S, NEW y \in S, <<x, y>> \in R
      PROVE  Cardinality(B(x)) < Cardinality(B(y))
  <2>1. B(x) \in SUBSET B(y) /\ x \in B(y) /\ x \notin B(x)
    BY <1>5 DEF Below, Orders
  <2>2. /\ Cardinality(B(x)) <= Cardinality(B(y))
        /\ Cardinality(B(y)) = Cardinality(B(x)) => B(y) = B(x)
    BY <2>1, <1>3, FS_Subset
  <2> QED
    BY <2>1, <2>2, <1>3
<1>6. ASSUME NEW k \in 1..n PROVE \E x \in S : Cardinality(B(x)) = k - 1
  <2> DEFINE f == [x \in S |-> Cardinality(B(x))]
  <2>1. f \in [S -> 0..(n - 1)]
    BY <1>4
  <2>2. \A x, y \in S : x # y => f[x] # f[y]
    <3> SUFFICES ASSUME NEW x \in S, NEW y \in S, x # y PROVE f[x] # f[y]
      OBVIOUS
    <3>1. <<x, y>> \in R \/ <<y, x>> \in R
      BY DEF Orders
    <3> QED
      BY <3>1, <1>5, <1>3
  <2> HIDE DEF f
  <2>3. f \in Injection(S, 0..(n - 1))
    BY <2>1, <2>2 DEF Injection, IsInjective
  <2>4. IsFiniteSet(0..(n - 1)) /\ Cardinality(0..(n - 1)) = n
    <3>1. 0 \in Int /\ n - 1 \in Int /\ (n - 1) - 0 + 1 = n /\ (0 > n - 1 => n = 0)
      BY <1>2
    <3> HIDE DEF n
    <3> QED
      BY <3>1, FS_Interval
  <2>5. f \in Surjection(S, 0..(n - 1))
    BY <2>3, <2>4, FS_Injection
  <2>6. k - 1 \in 0..(n - 1)
    BY <1>2
  <2>7. \E x \in S : f[x] = k - 1
    BY <2>5, <2>6 DEF Surjection
  <2> QED
    BY <2>7 DEF f
<1> QED
  BY <1>3, <1>5, <1>6

(* A list that numbers the elements of a set by their ranks holds each of  *)
(* them, in order.                                                         *)
LEMMA OrderedSeq ==
  ASSUME NEW S, IsFiniteSet(S), NEW R, Orders(R, S), NEW f,
         f \in [1..Cardinality(S) -> S],
         \A k \in 1..Cardinality(S) : Cardinality(Below(f[k], R, S)) = k - 1
  PROVE  /\ f \in Seq(S) /\ Len(f) = Cardinality(S) /\ DOMAIN f = 1..Cardinality(S)
         /\ ToSet(f) = S
         /\ \A j, k \in DOMAIN f : j < k => <<f[j], f[k]>> \in R
         /\ \A j, k \in DOMAIN f : f[j] = f[k] => j = k
<1> DEFINE n == Cardinality(S)
           C(x) == Cardinality(Below(x, R, S))
<1>1. n \in Nat /\ DOMAIN f = 1..n
  BY FS_CardinalityType
<1>2. /\ \A x \in S : C(x) \in Nat
      /\ \A x, y \in S : <<x, y>> \in R => C(x) < C(y)
  BY RanksAreAll
<1>3. \A k \in 1..n : f[k] \in S /\ C(f[k]) = k - 1
  OBVIOUS
<1>4. ASSUME NEW x \in S PROVE C(x) + 1 \in 1..n
  <2>1. Below(x, R, S) \in SUBSET S /\ x \notin Below(x, R, S)
    BY DEF Below, Orders
  <2>2. C(x) <= n /\ (n = C(x) => S = Below(x, R, S))
    BY <2>1, FS_Subset
  <2> QED
    BY <2>1, <2>2, <1>1, <1>2
<1>5. \A x, y \in S : C(x) = C(y) => x = y
  <2> SUFFICES ASSUME NEW x \in S, NEW y \in S, C(x) = C(y), x # y PROVE FALSE
    OBVIOUS
  <2>1. <<x, y>> \in R \/ <<y, x>> \in R
    BY DEF Orders
  <2> QED
    BY <2>1, <1>2
<1> HIDE DEF C, n
<1>6. ToSet(f) = S
  <2>1. ASSUME NEW x \in S PROVE f[C(x) + 1] = x
    <3>1. C(f[C(x) + 1]) = (C(x) + 1) - 1 /\ f[C(x) + 1] \in S
      BY <1>3, <1>4
    <3>2. C(f[C(x) + 1]) = C(x)
      BY <3>1, <1>2
    <3> QED
      BY <3>1, <3>2, <1>5
  <2>2. \A x \in S : \E k \in DOMAIN f : f[k] = x
    BY <2>1, <1>1, <1>4
  <2>3. \A k \in DOMAIN f : f[k] \in S
    BY <1>1, <1>3
  <2> QED
    BY <2>2, <2>3 DEF ToSet
<1>7. \A j, k \in DOMAIN f : f[j] = f[k] => j = k
  <2> SUFFICES ASSUME NEW j \in 1..n, NEW k \in 1..n, f[j] = f[k] PROVE j = k
    BY <1>1
  <2>1. j - 1 = k - 1
    BY <1>3
  <2> QED
    BY <2>1, <1>1
<1>8. \A j, k \in DOMAIN f : j < k => <<f[j], f[k]>> \in R
  <2> SUFFICES ASSUME NEW j \in 1..n, NEW k \in 1..n, j < k PROVE <<f[j], f[k]>> \in R
    BY <1>1
  <2>1. f[j] \in S /\ f[k] \in S /\ C(f[j]) = j - 1 /\ C(f[k]) = k - 1
    BY <1>3
  <2>2. f[j] # f[k]
    BY <1>7, <1>1
  <2>3. <<f[j], f[k]>> \in R \/ <<f[k], f[j]>> \in R
    BY <2>1, <2>2 DEF Orders
  <2>4. <<f[k], f[j]>> \in R => C(f[k]) < C(f[j])
    BY <2>1, <1>2
  <2> QED
    BY <2>1, <2>3, <2>4, <1>1
<1>9. f \in Seq(S) /\ Len(f) = n
  <2>1. f \in Seq(S)
    BY <1>1, SeqDef DEF n
  <2>2. Len(f) \in Nat /\ DOMAIN f = 1..Len(f)
    BY <2>1, LenProperties
  <2> QED
    BY <2>1, <2>2, <1>1
<1> QED
  BY <1>1, <1>6, <1>7, <1>8, <1>9 DEF n

-----------------------------------------------------------------------------
(* contents lists the events of the queue by their ids.                    *)

DistinctIds(S) == \A e, f \in S : e.id = f.id => e = f

(* What contents returns: every event the queue holds, once, by id.        *)
LEMMA ContentsFacts ==
  ASSUME NEW q, IsFiniteSet(HeldEvents(q)), DistinctIds(HeldEvents(q)),
         \A e \in HeldEvents(q) : e.id \in Nat
  PROVE  /\ contents(q) \in Seq(HeldEvents(q))
         /\ ToSet(contents(q)) = HeldEvents(q)
         /\ \A i, j \in DOMAIN contents(q) : i < j => contents(q)[i].id < contents(q)[j].id
         /\ contents(q) = << >> <=> HeldEvents(q) = {}
<1> DEFINE S == HeldEvents(q)
           R == {p \in S \X S : p[1].id < p[2].id}
           f == contents(q)
<1>1. Orders(R, S)
  BY DEF Orders, DistinctIds
<1>2. \A x \in S : {y \in S : y.id < x.id} = Below(x, R, S)
  BY DEF Below
<1> HIDE DEF S, R
<1>3. \A k \in 1..Cardinality(S) : \E x \in S : Cardinality({y \in S : y.id < x.id}) = k - 1
  <2>1. IsFiniteSet(S)
    BY DEF S
  <2>2. \A k \in 1..Cardinality(S) : \E x \in S : Cardinality(Below(x, R, S)) = k - 1
    BY <1>1, <2>1, RanksAreAll
  <2> QED
    BY <1>2, <2>2
<1>4. f = [k \in 1..Cardinality(S) |->
             CHOOSE x \in S : Cardinality({y \in S : y.id < x.id}) = k - 1]
  BY DEF contents, InOrder, S
<1> HIDE DEF f
<1>5. \A k \in 1..Cardinality(S) : f[k] \in S /\ Cardinality({y \in S : y.id < f[k].id}) = k - 1
  BY <1>3, <1>4
<1>6. f \in [1..Cardinality(S) -> S]
  BY <1>4, <1>5
<1>7. \A k \in 1..Cardinality(S) : Cardinality(Below(f[k], R, S)) = k - 1
  BY <1>2, <1>5
<1>8. /\ f \in Seq(S) /\ Len(f) = Cardinality(S) /\ DOMAIN f = 1..Cardinality(S)
      /\ ToSet(f) = S
      /\ \A j, k \in DOMAIN f : j < k => <<f[j], f[k]>> \in R
  <2>1. IsFiniteSet(S)
    BY DEF S
  <2> QED
    BY <1>1, <1>6, <1>7, <2>1, OrderedSeq
<1>9. f = << >> <=> S = {}
  BY <1>8, EmptySeq DEF ToSet
<1>10. \A j, k \in DOMAIN f : j < k => f[j].id < f[k].id
  BY <1>8 DEF R
<1> QED
  BY <1>8, <1>9, <1>10 DEF f, S

-----------------------------------------------------------------------------
(* Operations of the queue. *)

(* A queue is not the empty file.                                          *)
LEMMA QueueNotNoFile ==
  ASSUME NEW q \in Queues
  PROVE  q # NoFile
<1>1. DOMAIN q = {"queue", "next_event_id", "newest_pruned_id", "virtual_events"}
  BY DEF Queues
<1>2. DOMAIN << >> = {}
  OBVIOUS
<1> QED
  BY <1>1, <1>2 DEF NoFile

(* The fields of an event.                                                 *)
LEMMA EventFields ==
  ASSUME NEW e \in QueuedEvents
  PROVE  /\ e.id \in Nat /\ e.messages \in Seq(Nat)
         /\ e.type \in PlainTypes \cup {"update_message_flags"}
         /\ ClassOf(e) \in Classes
         /\ e \in FlagsEvents <=> ClassOf(e) = "post"
  BY DEF QueuedEvents, PlainEvents, FlagsEvents, PlainTypes, ClassOf, Classes

(* The fields of a queue.                                                  *)
LEMMA QueueFields ==
  ASSUME NEW q \in Queues
  PROVE  /\ q.queue \in Seq(QueuedEvents) /\ q.next_event_id \in Nat
         /\ q.newest_pruned_id \in Nat \cup {-1}
         /\ DOMAIN q.virtual_events \subseteq {FlagsType}
         /\ \A t \in DOMAIN q.virtual_events : q.virtual_events[t] \in FlagsEvents
         /\ DOMAIN q.queue = 1..Len(q.queue) /\ Len(q.queue) \in Nat
         /\ \A i \in DOMAIN q.queue : q.queue[i] \in QueuedEvents
<1>1. /\ q.queue \in Seq(QueuedEvents) /\ q.next_event_id \in Nat
      /\ q.newest_pruned_id \in Nat \cup {-1}
      /\ q.virtual_events \in VirtualEvents
  BY DEF Queues
<1>2. PICK D \in SUBSET {FlagsType} : q.virtual_events \in [D -> FlagsEvents]
  BY <1>1 DEF VirtualEvents
<1> QED
  BY <1>1, <1>2

(* The events a queue holds are finitely many and have different ids; at   *)
(* most one is virtual.                                                    *)
LEMMA HeldFacts ==
  ASSUME NEW q \in Queues, QueueOK(q)
  PROVE  /\ IsFiniteSet(HeldEvents(q)) /\ DistinctIds(HeldEvents(q))
         /\ HeldEvents(q) = ToSet(q.queue) \cup Virtual(q)
         /\ HeldEvents(q) \subseteq QueuedEvents
         /\ Virtual(q) \subseteq FlagsEvents
         /\ \A v, w \in Virtual(q) : v = w
<1>1. HeldEvents(q) = ToSet(q.queue) \cup Virtual(q)
  BY DEF HeldEvents, Virtual
<1>2. Virtual(q) \subseteq FlagsEvents /\ \A v, w \in Virtual(q) : v = w
  BY QueueFields DEF Virtual
<1>3. ToSet(q.queue) \subseteq QueuedEvents
  BY QueueFields DEF ToSet
<1>4. IsFiniteSet(ToSet(q.queue))
  <2>1. q.queue \in Surjection(DOMAIN q.queue, ToSet(q.queue))
    BY QueueFields DEF Surjection, ToSet
  <2>2. IsFiniteSet(DOMAIN q.queue)
    BY QueueFields, FS_Interval
  <2> QED
    BY <2>1, <2>2, FS_Surjection
<1>5. IsFiniteSet(Virtual(q))
  <2>1. Virtual(q) = {} \/ \E v : Virtual(q) = {v}
    BY <1>2
  <2> QED
    BY <2>1, FS_EmptySet, FS_Singleton
<1>6. ASSUME NEW e \in HeldEvents(q), NEW f \in HeldEvents(q), e.id = f.id
      PROVE  e = f
  <2>1. CASE e \in ToSet(q.queue) /\ f \in ToSet(q.queue)
    <3>1. PICK i \in DOMAIN q.queue, j \in DOMAIN q.queue : e = q.queue[i] /\ f = q.queue[j]
      BY <2>1 DEF ToSet
    <3>2. i \in Nat /\ j \in Nat /\ e.id \in Nat
      BY <3>1, QueueFields, EventFields
    <3> QED
      BY <3>1, <3>2, <1>6 DEF QueueOK
  <2>2. CASE e \in Virtual(q) /\ f \in Virtual(q)
    BY <2>2, <1>2
  <2> QED
    BY <2>1, <2>2, <1>1, <1>6 DEF QueueOK
<1> QED
  <2>1. IsFiniteSet(HeldEvents(q))
    BY <1>1, <1>4, <1>5, FS_Union
  <2>2. DistinctIds(HeldEvents(q))
    BY <1>6 DEF DistinctIds
  <2>3. HeldEvents(q) \subseteq QueuedEvents
    BY <1>1, <1>2, <1>3 DEF QueuedEvents
  <2> QED
    BY <1>1, <1>2, <2>1, <2>2, <2>3

(* After contents the same events are real. *)
LEMMA AfterContentsFacts ==
  ASSUME NEW q \in Queues, QueueOK(q)
  PROVE  /\ AfterContents(q) \in Queues /\ QueueOK(AfterContents(q))
         /\ AfterContents(q).queue = contents(q)
         /\ AfterContents(q).next_event_id = q.next_event_id
         /\ AfterContents(q).newest_pruned_id = q.newest_pruned_id
         /\ HeldEvents(AfterContents(q)) = HeldEvents(q)
         /\ ToSet(AfterContents(q).queue) = HeldEvents(q)
         /\ Virtual(AfterContents(q)) = {}
<1> DEFINE a == AfterContents(q)
           H == HeldEvents(q)
<1>1. /\ IsFiniteSet(H) /\ DistinctIds(H) /\ H \subseteq QueuedEvents
  BY HeldFacts
<1>2. \A e \in H : e.id \in Nat
  BY <1>1, EventFields
<1>3. /\ contents(q) \in Seq(H) /\ ToSet(contents(q)) = H
      /\ \A i, j \in DOMAIN contents(q) : i < j => contents(q)[i].id < contents(q)[j].id
  BY <1>1, <1>2, ContentsFacts
<1>4. contents(q) \in Seq(QueuedEvents)
  BY <1>1, <1>3, SeqMonotonic
<1>5. << >> \in VirtualEvents
  <2>1. << >> \in [{} -> FlagsEvents] /\ {} \in SUBSET {FlagsType}
    OBVIOUS
  <2> QED
    BY <2>1 DEF VirtualEvents
<1>6. /\ a \in Queues /\ a.queue = contents(q) /\ a.virtual_events = << >>
      /\ a.next_event_id = q.next_event_id /\ a.newest_pruned_id = q.newest_pruned_id
  BY <1>4, <1>5 DEF AfterContents, Queues
<1> HIDE DEF a
<1>7. Virtual(a) = {} /\ HeldEvents(a) = H /\ ToSet(a.queue) = H
  BY <1>3, <1>6 DEF Virtual, HeldEvents
<1>8. QueueOK(a)
  <2>1. q.newest_pruned_id < q.next_event_id /\ \A e \in H : e.id < q.next_event_id
    BY DEF QueueOK
  <2> HIDE DEF H
  <2> QED
    BY <1>3, <1>6, <1>7, <2>1 DEF QueueOK
<1> QED
  BY <1>6, <1>7, <1>8 DEF a

(* The events that are pushed, with their ids.                             *)
LEMMA NumberedPlain ==
  ASSUME NEW type \in PlainTypes, NEW messages \in Seq(Nat), NEW id \in Nat
  PROVE  LET e == Numbered([type |-> type, messages |-> messages], id)
         IN  /\ e \in PlainEvents /\ e.id = id /\ e.messages = messages /\ e.type = type
             /\ ~ Compressible(compute_full_event_type(e))
<1> DEFINE o == [type |-> type, messages |-> messages]
           e == Numbered(o, id)
<1>1. e = [field \in {"type", "messages", "id"} |-> IF field = "id" THEN id ELSE o[field]]
  <2>1. DOMAIN o = {"type", "messages"}
    OBVIOUS
  <2> QED
    BY <2>1 DEF Numbered
<1>2. e = [type |-> type, messages |-> messages, id |-> id]
  BY <1>1
<1> HIDE DEF e
<1>3. e \in PlainEvents /\ e.id = id /\ e.messages = messages /\ e.type = type
  BY <1>2 DEF PlainEvents
<1>4. ~ Compressible(compute_full_event_type(e))
  BY <1>3 DEF Compressible, compute_full_event_type, PlainTypes
<1> QED
  BY <1>3, <1>4 DEF e

(* A change of flags, with its id.                                         *)
LEMMA NumberedPost ==
  ASSUME NEW n \in Nat, NEW id \in Nat
  PROVE  LET e == Numbered(Event("post", n), id)
         IN  /\ e \in FlagsEvents /\ e.id = id /\ e.messages = <<n>>
             /\ compute_full_event_type(e) = FlagsType
             /\ Compressible(compute_full_event_type(e))
<1> DEFINE o == Event("post", n)
           e == Numbered(o, id)
<1>1. o = [type |-> "update_message_flags", all |-> FALSE,
           operation |-> "add", flag |-> "read", messages |-> <<n>>]
  BY DEF Event
<1> HIDE DEF o
<1>2. e = [field \in {"type", "all", "operation", "flag", "messages", "id"} |->
             IF field = "id" THEN id ELSE o[field]]
  <2>1. DOMAIN o = {"type", "all", "operation", "flag", "messages"}
    BY <1>1
  <2> QED
    BY <2>1 DEF Numbered
<1>3. e = [type |-> "update_message_flags", all |-> FALSE,
           operation |-> "add", flag |-> "read", messages |-> <<n>>, id |-> id]
  BY <1>1, <1>2
<1> HIDE DEF e
<1>4. e \in FlagsEvents
  <2>1. \A all \in {FALSE}, messages \in Seq(Nat) :
          [type |-> "update_message_flags", all |-> all, operation |-> "add",
           flag |-> "read", messages |-> messages, id |-> id] \in FlagsEvents
    BY DEF FlagsEvents
  <2>2. FALSE \in {FALSE} /\ <<n>> \in Seq(Nat)
    OBVIOUS
  <2> QED
    BY <1>3, <2>1, <2>2
<1>5. e.id = id /\ e.messages = <<n>> /\ compute_full_event_type(e) = FlagsType
  BY <1>3 DEF compute_full_event_type, FlagsType
<1>6. Compressible(FlagsType)
  BY DEF Compressible, FlagsType
<1> QED
  BY <1>4, <1>5, <1>6 DEF e, o

(* push keeps the type of the queue.                                       *)
LEMMA PushedRecord ==
  ASSUME NEW q \in Queues, NEW s \in Seq(QueuedEvents), NEW v \in VirtualEvents
  PROVE  /\ LET p == [q EXCEPT !.next_event_id = @ + 1, !.queue = s]
            IN  /\ p \in Queues /\ p.queue = s
                /\ p.next_event_id = q.next_event_id + 1
                /\ p.newest_pruned_id = q.newest_pruned_id
                /\ p.virtual_events = q.virtual_events
         /\ LET p == [q EXCEPT !.next_event_id = @ + 1, !.virtual_events = v]
            IN  /\ p \in Queues /\ p.queue = q.queue
                /\ p.next_event_id = q.next_event_id + 1
                /\ p.newest_pruned_id = q.newest_pruned_id
                /\ p.virtual_events = v
<1> DEFINE p1 == [q EXCEPT !.next_event_id = @ + 1, !.queue = s]
           p2 == [q EXCEPT !.next_event_id = @ + 1, !.virtual_events = v]
           n == q.next_event_id + 1
<1>ranks. n \in Nat
  BY DEF Queues
<1>1. p1 \in Queues
  <2>1. p1 = [q EXCEPT !.next_event_id = n, !.queue = s]
    OBVIOUS
  <2> HIDE DEF n, p1
  <2> QED
    BY <1>ranks, <2>1 DEF Queues
<1>2. p2 \in Queues
  <2>1. p2 = [q EXCEPT !.next_event_id = n, !.virtual_events = v]
    OBVIOUS
  <2> HIDE DEF n, p2
  <2> QED
    BY <1>ranks, <2>1 DEF Queues
<1>3. /\ p1.queue = s /\ p1.next_event_id = q.next_event_id + 1
      /\ p1.newest_pruned_id = q.newest_pruned_id
      /\ p1.virtual_events = q.virtual_events
  BY DEF Queues
<1>4. /\ p2.queue = q.queue /\ p2.next_event_id = q.next_event_id + 1
      /\ p2.newest_pruned_id = q.newest_pruned_id /\ p2.virtual_events = v
  BY DEF Queues
<1> QED
  BY <1>1, <1>2, <1>3, <1>4

(* An event of the deque goes to its end.                                  *)
LEMMA PushPlainFacts ==
  ASSUME NEW q \in Queues, QueueOK(q), NEW type \in PlainTypes, NEW messages \in Seq(Nat)
  PROVE  LET o == [type |-> type, messages |-> messages]
             e == Numbered(o, q.next_event_id)
             p == push(q, o)
         IN  /\ p \in Queues /\ QueueOK(p)
             /\ p.next_event_id = q.next_event_id + 1
             /\ p.newest_pruned_id = q.newest_pruned_id
             /\ ToSet(p.queue) = ToSet(q.queue) \cup {e}
             /\ Virtual(p) = Virtual(q)
<1> DEFINE o == [type |-> type, messages |-> messages]
           e == Numbered(o, q.next_event_id)
           p == push(q, o)
<1>1. /\ e \in PlainEvents /\ e.id = q.next_event_id /\ e.type = type
      /\ ~ Compressible(compute_full_event_type(e))
  BY NumberedPlain, QueueFields
<1>2. p = [q EXCEPT !.next_event_id = @ + 1, !.queue = Append(@, e)]
  BY <1>1 DEF push
<1> HIDE DEF p, e, o
<1>3. e \in QueuedEvents /\ ClassOf(e) # "post"
  BY <1>1 DEF QueuedEvents, PlainTypes, ClassOf
<1>4. /\ Append(q.queue, e) \in Seq(QueuedEvents)
      /\ Len(Append(q.queue, e)) = Len(q.queue) + 1
      /\ \A i \in 1..Len(q.queue) : Append(q.queue, e)[i] = q.queue[i]
      /\ Append(q.queue, e)[Len(q.queue) + 1] = e
  BY <1>3, QueueFields, AppendProperties
<1>5. /\ p \in Queues /\ p.queue = Append(q.queue, e)
      /\ p.next_event_id = q.next_event_id + 1
      /\ p.newest_pruned_id = q.newest_pruned_id
      /\ p.virtual_events = q.virtual_events
  <2> DEFINE s == Append(q.queue, e)
  <2>1. p = [q EXCEPT !.next_event_id = @ + 1, !.queue = s]
    BY <1>2
  <2>2. s \in Seq(QueuedEvents)
    BY <1>4
  <2>3. \E v : v \in VirtualEvents
    BY DEF Queues
  <2> HIDE DEF s
  <2> QED
    BY <2>1, <2>2, <2>3, PushedRecord DEF s
<1>6. DOMAIN p.queue = 1..(Len(q.queue) + 1) /\ DOMAIN q.queue = 1..Len(q.queue) /\ Len(q.queue) \in Nat
  BY <1>4, <1>5, QueueFields
<1>7. ToSet(p.queue) = ToSet(q.queue) \cup {e}
  <2>1. ASSUME NEW i \in DOMAIN p.queue PROVE p.queue[i] \in ToSet(q.queue) \cup {e}
    BY <1>4, <1>5, <1>6 DEF ToSet
  <2>2. ASSUME NEW i \in DOMAIN q.queue PROVE i \in DOMAIN p.queue /\ p.queue[i] = q.queue[i]
    BY <1>4, <1>5, <1>6
  <2>3. Len(q.queue) + 1 \in DOMAIN p.queue /\ p.queue[Len(q.queue) + 1] = e
    BY <1>4, <1>5, <1>6
  <2> QED
    BY <2>1, <2>2, <2>3 DEF ToSet
<1>8. Virtual(p) = Virtual(q)
  BY <1>5 DEF Virtual
<1>9. QueueOK(p)
  <2>1. HeldEvents(p) = HeldEvents(q) \cup {e}
    BY <1>5, <1>7 DEF HeldEvents
  <2>2. \A f \in HeldEvents(q) : f.id \in Nat
    BY HeldFacts, EventFields
  <2>3. q.next_event_id \in Nat /\ q.newest_pruned_id \in Nat \cup {-1}
    BY QueueFields
  <2>4. \A f \in HeldEvents(p) : f.id < p.next_event_id
    BY <1>1, <1>5, <2>1, <2>2, <2>3 DEF QueueOK
  <2>5. p.newest_pruned_id < p.next_event_id
    BY <1>5, <2>3 DEF QueueOK
  <2>6. ASSUME NEW i \in DOMAIN p.queue, NEW j \in DOMAIN p.queue, i < j
        PROVE  p.queue[i].id < p.queue[j].id
    <3>1. i \in DOMAIN q.queue /\ p.queue[i] = q.queue[i] /\ q.queue[i] \in HeldEvents(q)
      BY <1>4, <1>5, <1>6, <2>6 DEF HeldEvents, ToSet
    <3>2. CASE j = Len(q.queue) + 1
      <4>1. p.queue[j] = e
        BY <3>2, <1>4, <1>5
      <4> QED
        BY <4>1, <3>1, <1>1 DEF QueueOK
    <3>3. CASE j # Len(q.queue) + 1
      <4>1. j \in DOMAIN q.queue /\ p.queue[j] = q.queue[j]
        BY <3>3, <1>4, <1>5, <1>6
      <4> QED
        BY <4>1, <3>1, <2>6 DEF QueueOK
    <3> QED
      BY <3>2, <3>3
  <2>7. ASSUME NEW v \in Virtual(p), NEW f \in ToSet(p.queue)
        PROVE  f.id # v.id /\ (ClassOf(f) = "post" => f.id < v.id)
    <3>1. v \in Virtual(q) /\ v \in HeldEvents(q)
      BY <1>8 DEF HeldEvents, Virtual
    <3>2. v.id < q.next_event_id /\ v.id \in Nat
      BY <3>1, <2>2 DEF QueueOK
    <3>3. CASE f = e
      BY <3>2, <3>3, <1>1, <1>3
    <3>4. CASE f \in ToSet(q.queue)
      BY <3>1, <3>4 DEF QueueOK
    <3> QED
      BY <3>3, <3>4, <1>7
  <2> QED
    BY <2>4, <2>5, <2>6, <2>7 DEF QueueOK
<1> QED
  BY <1>5, <1>7, <1>8, <1>9 DEF p, e, o

(* A flag event becomes the virtual event, or is merged into it.           *)
LEMMA PushPostFacts ==
  ASSUME NEW q \in Queues, QueueOK(q), NEW n \in Nat
  PROVE  LET p == push(q, Event("post", n))
         IN  /\ p \in Queues /\ QueueOK(p)
             /\ p.next_event_id = q.next_event_id + 1
             /\ p.newest_pruned_id = q.newest_pruned_id
             /\ p.queue = q.queue
             /\ \E m \in FlagsEvents :
                  /\ Virtual(p) = {m} /\ m.id = q.next_event_id
                  /\ \/ Virtual(q) = {} /\ m.messages = <<n>>
                     \/ \E v \in Virtual(q) : m.messages = v.messages \o <<n>>
<1> DEFINE e == Numbered(Event("post", n), q.next_event_id)
           p == push(q, Event("post", n))
           V == Compressed(q.virtual_events, e)
<1>1. /\ e \in FlagsEvents /\ e.id = q.next_event_id /\ e.messages = <<n>>
      /\ compute_full_event_type(e) = FlagsType
      /\ Compressible(compute_full_event_type(e))
  BY NumberedPost, QueueFields
<1>2. p = [q EXCEPT !.next_event_id = @ + 1, !.virtual_events = V]
  BY <1>1 DEF push
<1> HIDE DEF p, e
<1>3. /\ DOMAIN V = {FlagsType}
      /\ IF FlagsType \notin DOMAIN q.virtual_events
         THEN V[FlagsType] = e
         ELSE V[FlagsType] = [q.virtual_events[FlagsType] EXCEPT
                                !.id = e.id, !.messages = @ \o e.messages]
  BY <1>1, QueueFields DEF Compressed
<1>4. V = [t \in {FlagsType} |-> V[t]]
  BY <1>1, QueueFields DEF Compressed
<1> HIDE DEF V
<1> DEFINE m == V[FlagsType]
<1>5. /\ m \in FlagsEvents /\ m.id = q.next_event_id
      /\ \/ Virtual(q) = {} /\ m.messages = <<n>>
         \/ \E v \in Virtual(q) : m.messages = v.messages \o <<n>>
  <2>1. CASE FlagsType \notin DOMAIN q.virtual_events
    BY <1>1, <1>3, <2>1, QueueFields DEF Virtual
  <2>2. CASE FlagsType \in DOMAIN q.virtual_events
    <3> DEFINE v == q.virtual_events[FlagsType]
    <3>1. v \in FlagsEvents /\ v \in Virtual(q)
      BY <2>2, QueueFields DEF Virtual
    <3>2. m = [v EXCEPT !.id = e.id, !.messages = @ \o e.messages]
      BY <1>3, <2>2
    <3> HIDE DEF v, m
    <3>3. m \in FlagsEvents /\ m.id = e.id /\ m.messages = v.messages \o e.messages
      BY <3>1, <3>2, <1>1, ConcatProperties DEF FlagsEvents
    <3> QED
      BY <3>1, <3>3, <1>1 DEF m
  <2> QED
    BY <2>1, <2>2
<1>6. V \in VirtualEvents
  <2>1. V \in [{FlagsType} -> FlagsEvents]
    BY <1>4, <1>5
  <2> QED
    BY <2>1 DEF VirtualEvents
<1>7. /\ p \in Queues /\ p.queue = q.queue /\ p.virtual_events = V
      /\ p.next_event_id = q.next_event_id + 1
      /\ p.newest_pruned_id = q.newest_pruned_id
  <2>1. q.queue \in Seq(QueuedEvents)
    BY QueueFields
  <2> QED
    BY <1>2, <1>6, <2>1, PushedRecord
<1>8. Virtual(p) = {m}
  BY <1>3, <1>7 DEF Virtual
<1>9. QueueOK(p)
  <2>1. HeldEvents(p) = ToSet(q.queue) \cup {m}
    BY <1>7, <1>8 DEF HeldEvents, Virtual
  <2>2. \A f \in ToSet(q.queue) : f.id \in Nat /\ f.id < q.next_event_id
    BY HeldFacts, EventFields DEF QueueOK
  <2>3. q.next_event_id \in Nat /\ q.newest_pruned_id \in Nat \cup {-1}
    BY QueueFields
  <2> HIDE DEF m
  <2>4. \A f \in HeldEvents(p) : f.id < p.next_event_id
    BY <1>5, <1>7, <2>1, <2>2, <2>3
  <2>5. p.newest_pruned_id < p.next_event_id
    BY <1>7, <2>3 DEF QueueOK
  <2>6. \A v \in Virtual(p), f \in ToSet(p.queue) :
          f.id # v.id /\ (ClassOf(f) = "post" => f.id < v.id)
    BY <1>5, <1>7, <1>8, <2>2, <2>3
  <2> QED
    BY <1>7, <2>4, <2>5, <2>6 DEF QueueOK
<1> HIDE DEF m
<1> QED
  BY <1>5, <1>7, <1>8, <1>9 DEF p

(* The smallest and the largest element of a set of numbers.               *)
LEMMA HasMin ==
  ASSUME NEW S, S \subseteq Nat, S # {}
  PROVE  /\ \E x \in S : \A y \in S : x <= y
         /\ Min(S) \in S /\ \A y \in S : Min(S) <= y
<1>1. PICK x \in S : \A y \in S : ~ (<<y, x>> \in OpToRel(<, Nat))
  BY WFMin, NatLessThanWellFounded
<1>2. \A y \in S : x <= y
  <2> SUFFICES ASSUME NEW y \in S, y < x PROVE FALSE
    OBVIOUS
  <2>1. <<y, x>> \in OpToRel(<, Nat)
    BY DEF OpToRel
  <2> QED
    BY <1>1, <2>1, Zenon
<1> QED
  BY <1>2 DEF Min

(* A set of integers with an upper bound has a largest one.                *)
LEMMA HasMax ==
  ASSUME NEW n \in Int, NEW S, S \subseteq Int, S # {}, \A y \in S : y <= n
  PROVE  Max(S) \in S /\ \A y \in S : y <= Max(S)
<1> DEFINE D == {n - y : y \in S}
<1>1. D \subseteq Nat /\ D # {}
  <2>1. \A y \in S : n - y \in Nat
    OBVIOUS
  <2> QED
    BY <2>1
<1> HIDE DEF D
<1>2. PICK d \in D : \A y \in D : d <= y
  BY <1>1, HasMin
<1>3. PICK x \in S : d = n - x
  BY <1>2 DEF D
<1>4. \A y \in S : n - y \in D
  BY DEF D
<1>5. \A y \in S : x >= y
  BY <1>2, <1>3, <1>4
<1> QED
  BY <1>5 DEF Max

(* The loop of prune stops after all events up to the acknowledged one,    *)
(* as their ids ascend.                                                    *)
LEMMA PrunedCountFacts ==
  ASSUME NEW q \in Queues, QueueOK(q), NEW through \in Int
  PROVE  LET k == PrunedCount(q, through)
         IN  /\ k \in 0..Len(q.queue)
             /\ \A i \in 1..k : q.queue[i].id <= through
             /\ \A i \in (k + 1)..Len(q.queue) : q.queue[i].id > through
<1> DEFINE n == Len(q.queue)
           S == {i \in 1..n : q.queue[i].id <= through}
           P(k) == /\ \A i \in 1..k : q.queue[i].id <= through
                   /\ k < n => q.queue[k + 1].id > through
<1>1. n \in Nat /\ DOMAIN q.queue = 1..n /\ \A i \in 1..n : q.queue[i].id \in Nat
  BY QueueFields, EventFields
<1>2. \A i, j \in 1..n : i < j => q.queue[i].id < q.queue[j].id
  BY <1>1 DEF QueueOK
<1> HIDE DEF n
<1>3. \E k \in 0..n : P(k)
  <2>1. CASE S = {}
    <3>1. \A i \in 1..n : q.queue[i].id > through
      BY <1>1, <2>1
    <3>2. P(0)
      BY <1>1, <3>1
    <3> HIDE DEF P
    <3> QED
      BY <1>1, <3>2
  <2>2. CASE S # {}
    <3>0. S \subseteq Int /\ n \in Int /\ \A y \in S : y <= n
      BY <1>1
    <3>1. Max(S) \in S /\ \A y \in S : y <= Max(S)
      <4> HIDE DEF S
      <4> QED
        BY <2>2, <3>0, HasMax
    <3> DEFINE k == Max(S)
    <3> HIDE DEF k
    <3>2. k \in 1..n /\ q.queue[k].id <= through
      BY <3>1 DEF k
    <3>3. \A i \in 1..k : q.queue[i].id <= through
      BY <1>1, <1>2, <3>2
    <3>4. ASSUME k < n PROVE q.queue[k + 1].id > through
      <4>1. k + 1 \in 1..n /\ ~ (k + 1 <= k)
        BY <1>1, <3>2, <3>4
      <4>2. k + 1 \notin S
        BY <3>1, <4>1 DEF k
      <4> QED
        BY <1>1, <4>1, <4>2
    <3>5. P(k)
      BY <3>3, <3>4
    <3>6. k \in 0..n
      BY <1>1, <3>2
    <3> HIDE DEF P
    <3> QED
      BY <3>5, <3>6
  <2> QED
    BY <2>1, <2>2
<1> DEFINE k == PrunedCount(q, through)
<1>4. k \in 0..n /\ P(k)
  BY <1>3 DEF PrunedCount, n
<1> HIDE DEF k
<1>5. ASSUME NEW i \in (k + 1)..n PROVE q.queue[i].id > through
  <2>1. k < n /\ k + 1 \in 1..n /\ i \in 1..n
    BY <1>1, <1>4
  <2>2. q.queue[k + 1].id > through
    BY <1>4, <2>1
  <2> QED
    BY <1>1, <1>2, <2>1, <2>2
<1> QED
  BY <1>4, <1>5 DEF k, n

(* prune takes away the real events that are acknowledged, and remembers   *)
(* the newest of them.                                                     *)
LEMMA PruneFacts ==
  ASSUME NEW q \in Queues, QueueOK(q), NEW through \in Int
  PROVE  LET p == prune(q, through)
         IN  /\ p \in Queues /\ QueueOK(p)
             /\ p.next_event_id = q.next_event_id
             /\ ToSet(p.queue) = {e \in ToSet(q.queue) : e.id > through}
             /\ Virtual(p) = Virtual(q)
             /\ \/ p.newest_pruned_id = q.newest_pruned_id
                \/ \E e \in ToSet(q.queue) : e.id = p.newest_pruned_id /\ e.id <= through
             /\ \A e \in ToSet(q.queue) : e.id <= through =>
                  /\ e.id <= p.newest_pruned_id
                  /\ \E f \in ToSet(q.queue) : f.id = p.newest_pruned_id
<1> DEFINE k == PrunedCount(q, through)
           p == prune(q, through)
           n == Len(q.queue)
           s == SubSeq(q.queue, k + 1, n)
           id == IF k = 0 THEN q.newest_pruned_id ELSE q.queue[k].id
<1>1. /\ k \in 0..n
      /\ \A i \in 1..k : q.queue[i].id <= through
      /\ \A i \in (k + 1)..n : q.queue[i].id > through
  BY PrunedCountFacts
<1>2. p = [q EXCEPT !.queue = s, !.newest_pruned_id = id]
  BY DEF prune
<1>3. /\ n \in Nat /\ DOMAIN q.queue = 1..n /\ q.newest_pruned_id \in Nat \cup {-1}
      /\ \A i \in 1..n : q.queue[i] \in QueuedEvents /\ q.queue[i].id \in Nat
  BY QueueFields, EventFields
<1> HIDE DEF k, p
<1>4. /\ s \in Seq(QueuedEvents) /\ Len(s) = n - k
      /\ \A i \in 1..(n - k) : s[i] = q.queue[k + i]
  <2>1. \A i \in (k + 1)..n : q.queue[i] \in QueuedEvents
    BY <1>1, <1>3
  <2>2. k + 1 \in Int /\ n \in Int
    BY <1>1, <1>3
  <2>3. /\ s \in Seq(QueuedEvents)
        /\ Len(s) = IF k + 1 <= n THEN n - (k + 1) + 1 ELSE 0
        /\ \A i \in 1..(n - (k + 1) + 1) : s[i] = q.queue[(k + 1) + i - 1]
    <3> HIDE DEF n
    <3> QED
      BY <2>1, <2>2, SubSeqProperties
  <2> HIDE DEF s, n
  <2>4. Len(s) = n - k
    BY <2>3, <1>1, <1>3
  <2>5. ASSUME NEW i \in 1..(n - k) PROVE s[i] = q.queue[k + i]
    <3>1. n - (k + 1) + 1 = n - k /\ (k + 1) + i - 1 = k + i
      BY <1>1, <1>3
    <3> QED
      BY <2>3, <3>1
  <2> QED
    BY <2>3, <2>4, <2>5
<1>5. id \in Nat \cup {-1}
  BY <1>1, <1>3
<1> HIDE DEF s, id
<1>6. /\ p \in Queues /\ p.queue = s /\ p.newest_pruned_id = id
      /\ p.next_event_id = q.next_event_id /\ p.virtual_events = q.virtual_events
  <2>1. s \in Seq(QueuedEvents)
    BY <1>4
  <2> QED
    BY <1>2, <1>5, <2>1 DEF Queues
<1>7. Virtual(p) = Virtual(q)
  BY <1>6 DEF Virtual
<1>8. DOMAIN s = 1..(n - k)
  BY <1>4, LenProperties
<1>9. ToSet(s) = {e \in ToSet(q.queue) : e.id > through}
  <2>1. ASSUME NEW i \in DOMAIN s PROVE k + i \in DOMAIN q.queue /\ s[i] = q.queue[k + i] /\ s[i].id > through
    <3>1. k + i \in (k + 1)..n /\ k + i \in 1..n
      BY <1>1, <1>3, <1>8
    <3> QED
      BY <3>1, <1>1, <1>3, <1>4, <1>8
  <2>2. ASSUME NEW j \in DOMAIN q.queue, q.queue[j].id > through
        PROVE  \E i \in DOMAIN s : s[i] = q.queue[j]
    <3>1. ~ (q.queue[j].id <= through)
      BY <1>3, <2>2
    <3>2. j - k \in 1..(n - k) /\ k + (j - k) = j
      BY <1>1, <1>3, <3>1
    <3> QED
      BY <3>2, <1>4, <1>8
  <2> QED
    BY <2>1, <2>2 DEF ToSet
<1>10. \/ id = q.newest_pruned_id
       \/ \E e \in ToSet(q.queue) : e.id = id /\ e.id <= through
  <2>1. CASE k = 0
    BY <2>1 DEF id
  <2>2. CASE k # 0
    <3>1. k \in DOMAIN q.queue /\ k \in 1..k
      BY <1>1, <1>3, <2>2
    <3> QED
      BY <3>1, <1>1, <2>2 DEF id, ToSet
  <2> QED
    BY <2>1, <2>2
<1>11. ASSUME NEW e \in ToSet(q.queue), e.id <= through
       PROVE  e.id <= id /\ \E f \in ToSet(q.queue) : f.id = id
  <2>1. PICK i \in 1..n : e = q.queue[i]
    BY <1>3 DEF ToSet
  <2>2. i \notin (k + 1)..n
    BY <2>1, <1>1, <1>3, <1>11
  <2>3. i \in 1..k /\ k # 0 /\ k \in 1..n
    BY <2>2, <1>1, <1>3
  <2>4. i = k \/ i < k
    BY <2>3
  <2>5. q.queue[i].id <= q.queue[k].id
    BY <2>3, <2>4, <1>3 DEF QueueOK
  <2> QED
    BY <2>1, <2>3, <2>5, <1>3 DEF id, ToSet
<1>12. QueueOK(p)
  <2>1. HeldEvents(p) \subseteq HeldEvents(q) /\ ToSet(q.queue) \subseteq HeldEvents(q)
    BY <1>6, <1>9 DEF HeldEvents
  <2>2. id < q.next_event_id
    BY <1>10, <2>1 DEF QueueOK
  <2>3. ASSUME NEW i \in DOMAIN s, NEW j \in DOMAIN s, i < j PROVE s[i].id < s[j].id
    <3>1. k + i \in 1..n /\ k + j \in 1..n /\ k + i < k + j
      BY <1>1, <1>3, <1>8, <2>3
    <3>2. s[i] = q.queue[k + i] /\ s[j] = q.queue[k + j]
      BY <1>4, <1>8
    <3> QED
      BY <3>1, <3>2, <1>3 DEF QueueOK
  <2> QED
    BY <1>6, <1>7, <1>9, <2>1, <2>2, <2>3 DEF QueueOK
<1> HIDE DEF n
<1> QED
  BY <1>6, <1>7, <1>9, <1>10, <1>11, <1>12 DEF p

-----------------------------------------------------------------------------
(* Which numbers the events of a list or a set carry. *)

NumbersOf(e) == ToSet(e.messages)

(* The numbers of an event ascend and are of its class in the stream g.    *)
Good(e, g) ==
  /\ e.messages \in Seq(Nat)
  /\ \A j \in DOMAIN e.messages : e.messages[j] \in DOMAIN g /\ g[e.messages[j]] = ClassOf(e)
  /\ \A j, k \in DOMAIN e.messages : j < k => e.messages[j] < e.messages[k]

(* Two events have no number in common, and two of one class are in order. *)
Precedes(e, f) ==
  \A n \in NumbersOf(e), m \in NumbersOf(f) : n # m /\ (ClassOf(e) = ClassOf(f) => n < m)

(* The list E carries the numbers after from, up to to, each once.         *)
Covers(E, g, from, to) ==
  /\ \A i \in DOMAIN E : Good(E[i], g)
  /\ \A i, j \in DOMAIN E : i < j => Precedes(E[i], E[j])
  /\ \A i \in DOMAIN E : NumbersOf(E[i]) \subseteq (from + 1)..to
  /\ \A n \in (from + 1)..to : \E i \in DOMAIN E : n \in NumbersOf(E[i])

(* So does a set, in the order of the ids.                                 *)
SetCovers(S, g, from, to) ==
  /\ \A e \in S : Good(e, g)
  /\ \A e, f \in S : e.id < f.id => Precedes(e, f)
  /\ \A e \in S : NumbersOf(e) \subseteq (from + 1)..to
  /\ \A n \in (from + 1)..to : \E e \in S : n \in NumbersOf(e)

(* The place x of a list of events comes before the place y.               *)
Earlier(x, y) == x[1] < y[1] \/ (x[1] = y[1] /\ x[2] < y[2])

(* If a list covers an interval of numbers, each of them has one place in  *)
(* it, and the places of one class are in the order of the numbers.        *)
LEMMA Places ==
  ASSUME NEW E, DOMAIN E \subseteq Nat, NEW g, NEW from \in Nat, NEW to \in Nat, from <= to,
         Covers(E, g, from, to)
  PROVE  /\ \A x \in Items(E) :
              /\ NumberAt(E, x) \in (from + 1)..to
              /\ g[NumberAt(E, x)] = ClassOf(E[x[1]])
         /\ \A x, y \in Items(E) : NumberAt(E, x) = NumberAt(E, y) => x = y
         /\ \A m \in (from + 1)..to : \E x \in Items(E) : NumberAt(E, x) = m
         /\ \A x, y \in Items(E) : ClassOf(E[x[1]]) = ClassOf(E[y[1]]) =>
              (Earlier(x, y) <=> NumberAt(E, x) < NumberAt(E, y))
         /\ IsFiniteSet(Items(E)) /\ Cardinality(Items(E)) = to - from
<1> DEFINE N == Items(E)
           at(x) == NumberAt(E, x)
<1>1. /\ \A i \in DOMAIN E : \A j \in DOMAIN E[i].messages : <<i, j>> \in N
      /\ \A x \in N : /\ x = <<x[1], x[2]>>
                      /\ x[1] \in DOMAIN E /\ x[2] \in DOMAIN E[x[1]].messages
  BY DEF Items
<1>2. \A i \in DOMAIN E : E[i].messages \in Seq(Nat) /\ DOMAIN E[i].messages \subseteq Nat
  BY LenProperties DEF Covers, Good
<1>3. ASSUME NEW x \in N
      PROVE  /\ at(x) \in NumbersOf(E[x[1]]) /\ at(x) \in (from + 1)..to
             /\ g[at(x)] = ClassOf(E[x[1]]) /\ x[1] \in Nat /\ x[2] \in Nat
  <2>1. x[1] \in DOMAIN E /\ x[2] \in DOMAIN E[x[1]].messages
    BY <1>1
  <2>2. at(x) \in NumbersOf(E[x[1]])
    BY <2>1 DEF NumberAt, NumbersOf, ToSet
  <2> QED
    BY <2>1, <2>2, <1>2 DEF Covers, Good, NumberAt
<1>4. ASSUME NEW x \in N, NEW y \in N, Earlier(x, y)
      PROVE  at(x) # at(y) /\ (ClassOf(E[x[1]]) = ClassOf(E[y[1]]) => at(x) < at(y))
  <2>1. CASE x[1] < y[1]
    <3>1. Precedes(E[x[1]], E[y[1]])
      BY <2>1, <1>1 DEF Covers
    <3> QED
      BY <3>1, <1>3 DEF Precedes
  <2>2. CASE x[1] = y[1] /\ x[2] < y[2]
    <3>1. at(x) < at(y)
      BY <2>2, <1>1 DEF Covers, Good, NumberAt
    <3> QED
      BY <3>1, <1>3
  <2> QED
    BY <2>1, <2>2, <1>4 DEF Earlier
<1>5. \A x, y \in N : x = y \/ Earlier(x, y) \/ Earlier(y, x)
  BY <1>1, <1>3 DEF Earlier
<1>6. \A x, y \in N : at(x) = at(y) => x = y
  BY <1>4, <1>5
<1>7. ASSUME NEW m \in (from + 1)..to PROVE \E x \in N : at(x) = m
  <2>1. PICK i \in DOMAIN E : m \in NumbersOf(E[i])
    BY DEF Covers
  <2>2. PICK j \in DOMAIN E[i].messages : m = E[i].messages[j]
    BY <2>1 DEF NumbersOf, ToSet
  <2>3. <<i, j>> \in N /\ at(<<i, j>>) = m
    BY <2>2, <1>1 DEF NumberAt
  <2> QED
    BY <2>3
<1>8. \A x, y \in N : ClassOf(E[x[1]]) = ClassOf(E[y[1]]) => (Earlier(x, y) <=> at(x) < at(y))
  <2> SUFFICES ASSUME NEW x \in N, NEW y \in N, ClassOf(E[x[1]]) = ClassOf(E[y[1]])
               PROVE  Earlier(x, y) <=> at(x) < at(y)
    OBVIOUS
  <2>1. at(x) \in Nat /\ at(y) \in Nat
    BY <1>3
  <2>2. Earlier(x, y) => at(x) < at(y)
    BY <1>4
  <2>3. Earlier(y, x) => at(y) < at(x)
    BY <1>4
  <2> HIDE DEF at
  <2> QED
    BY <2>1, <2>2, <2>3, <1>5
<1>9. IsFiniteSet(N) /\ Cardinality(N) = to - from
  <2> DEFINE T == (from + 1)..to
             f == [x \in N |-> at(x)]
  <2>1. f \in [N -> T] /\ (\A x, y \in N : f[x] = f[y] => x = y) /\ \A m \in T : \E x \in N : f[x] = m
    BY <1>3, <1>6, <1>7
  <2>2. IsFiniteSet(T) /\ Cardinality(T) = to - from
    <3>1. from + 1 \in Int /\ to \in Int
          /\ (IF from + 1 > to THEN 0 ELSE to - (from + 1) + 1) = to - from
      OBVIOUS
    <3> QED
      BY <3>1, FS_Interval
  <2> HIDE DEF f, T, N, at
  <2>3. f \in Injection(N, T) /\ f \in Surjection(N, T)
    BY <2>1 DEF Injection, IsInjective, Surjection
  <2> QED
    BY <2>2, <2>3, FS_Injection
<1> QED
  BY <1>3, <1>6, <1>7, <1>8, <1>9

(* Each event of the stream has an id, which is that of a message or 0.    *)
IdsInv ==
  /\ message_ids \in Seq(Nat) /\ Len(message_ids) = Len(generated)
  /\ \A n \in DOMAIN generated : generated[n] # "message" => message_ids[n] = 0
  /\ stale \in BOOLEAN

(* A batch that carries the numbers from + 1 to to is applied in an order   *)
(* that the stream allows.                                                 *)
LEMMA DispatchFacts ==
  ASSUME generated \in Seq(Classes), IdsInv,
         NEW E, DOMAIN E \subseteq Nat, NEW from \in Nat, NEW to \in Nat, from <= to, to <= Len(generated),
         Covers(E, generated, from, to)
  PROVE  /\ Dispatch(E) \in Seq(Nat) /\ Len(Dispatch(E)) = to - from
         /\ ToSet(Dispatch(E)) = (from + 1)..to
         /\ \A j, k \in DOMAIN Dispatch(E) : Dispatch(E)[j] = Dispatch(E)[k] => j = k
         /\ Dispatch(E) \in Stream!Arrangements(from + 1, to)
<1> DEFINE N == Items(E)
           at(x) == NumberAt(E, x)
           mid(x) == message_ids[NumberAt(E, x)]
           class(x) == ClassOf(E[x[1]])
           rank == [normal |-> 1, message |-> 2, update |-> 3, post |-> 4]
           Rank(c) == rank[c]
           SortedBefore(x, y) ==
             \/ mid(x) < mid(y)
             \/ mid(x) = mid(y) /\ Earlier(x, y)
           Before(x, y) ==
             \/ Rank(class(x)) < Rank(class(y))
             \/ /\ class(x) = class(y)
                /\ IF class(x) = "message" THEN SortedBefore(x, y) ELSE Earlier(x, y)
           order == [k \in 1..Cardinality(N) |->
                       CHOOSE x \in N : Cardinality({y \in N : Before(y, x)}) = k - 1]
           Lower(x, y) == mid(x) < mid(y) \/ (mid(x) = mid(y) /\ at(x) < at(y))
           R == {p \in N \X N : \/ Rank(class(p[1])) < Rank(class(p[2]))
                                \/ class(p[1]) = class(p[2]) /\ Lower(p[1], p[2])}
           D == Dispatch(E)
<1>1. D = [k \in 1..Cardinality(N) |-> at(order[k])]
  BY DEF Dispatch, Arranged, InOrder, Earlier, MessageIdAt
<1>2. /\ \A x \in N : at(x) \in (from + 1)..to /\ generated[at(x)] = class(x)
      /\ \A x, y \in N : at(x) = at(y) => x = y
      /\ \A m \in (from + 1)..to : \E x \in N : at(x) = m
      /\ \A x, y \in N : class(x) = class(y) => (Earlier(x, y) <=> at(x) < at(y))
      /\ IsFiniteSet(N) /\ Cardinality(N) = to - from
  BY Places
<1>3. \A x \in N : class(x) \in Classes /\ at(x) \in Nat
  BY <1>2 DEF ClassOf, Classes
<1>ids. \A x \in N : mid(x) \in Nat /\ (class(x) # "message" => mid(x) = 0)
  <2> SUFFICES ASSUME NEW x \in N PROVE mid(x) \in Nat /\ (class(x) # "message" => mid(x) = 0)
    OBVIOUS
  <2>1. at(x) \in 1..Len(generated) /\ generated[at(x)] = class(x)
    <3>1. at(x) \in (from + 1)..to /\ generated[at(x)] = class(x)
      BY <1>2
    <3>2. Len(generated) \in Nat
      BY LenProperties
    <3> HIDE DEF at
    <3> QED
      BY <3>1, <3>2
  <2>2. DOMAIN generated = 1..Len(generated) /\ DOMAIN message_ids = 1..Len(generated)
    BY LenProperties DEF IdsInv
  <2>3. at(x) \in DOMAIN generated /\ at(x) \in DOMAIN message_ids
    BY <2>1, <2>2
  <2>4. mid(x) = message_ids[at(x)]
    OBVIOUS
  <2> HIDE DEF at, mid, class
  <2> QED
    BY <2>1, <2>3, <2>4, ElementOfSeq DEF IdsInv
<1>midat. \A x \in N : mid(x) = message_ids[at(x)]
  OBVIOUS
<1> HIDE DEF N, at, mid, class, D
<1>ranks. Rank("normal") = 1 /\ Rank("message") = 2 /\ Rank("update") = 3 /\ Rank("post") = 4
  OBVIOUS
<1> HIDE DEF rank, Rank
<1>4. \A x, y \in N : Before(y, x) <=> <<y, x>> \in R
  BY <1>2, <1>3, <1>ids
<1>5. Orders(R, N)
  <2>1. \A x \in N : <<x, x>> \notin R
    BY <1>ranks, <1>3, <1>ids DEF Classes
  <2>2. \A x, y, z \in N : <<x, y>> \in R /\ <<y, z>> \in R => <<x, z>> \in R
    BY <1>ranks, <1>3, <1>ids DEF Classes
  <2>3. ASSUME NEW x \in N, NEW y \in N, x # y PROVE <<x, y>> \in R \/ <<y, x>> \in R
    <3>1. class(x) = class(y) \/ Rank(class(x)) < Rank(class(y)) \/ Rank(class(y)) < Rank(class(x))
      BY <1>ranks, <1>3 DEF Classes
    <3>2. at(x) < at(y) \/ at(y) < at(x)
      BY <1>2, <1>3, <2>3
    <3>3. mid(x) < mid(y) \/ mid(y) < mid(x) \/ mid(x) = mid(y)
      BY <1>ids
    <3>4. Lower(x, y) \/ Lower(y, x)
      BY <3>2, <3>3
    <3>5. /\ <<x, y>> \in N \X N /\ <<x, y>>[1] = x /\ <<x, y>>[2] = y
          /\ <<y, x>> \in N \X N /\ <<y, x>>[1] = y /\ <<y, x>>[2] = x
      OBVIOUS
    <3> HIDE DEF Lower
    <3> QED
      BY <3>1, <3>4, <3>5
  <2> QED
    BY <2>1, <2>2, <2>3 DEF Orders
<1> HIDE DEF R, Lower, Before
<1>6. \A x \in N : {y \in N : Before(y, x)} = Below(x, R, N)
  BY <1>4 DEF Below
<1>7. \A k \in 1..Cardinality(N) : \E x \in N : Cardinality({y \in N : Before(y, x)}) = k - 1
  <2>1. \A k \in 1..Cardinality(N) : \E x \in N : Cardinality(Below(x, R, N)) = k - 1
    BY <1>2, <1>5, RanksAreAll
  <2> QED
    BY <1>6, <2>1
<1>8. \A k \in 1..Cardinality(N) : /\ order[k] \in N
                                   /\ Cardinality(Below(order[k], R, N)) = k - 1
  BY <1>6, <1>7
<1>9. order \in [1..Cardinality(N) -> N]
  BY <1>8
<1> HIDE DEF order
<1>10. /\ order \in Seq(N) /\ Len(order) = Cardinality(N) /\ DOMAIN order = 1..Cardinality(N)
       /\ ToSet(order) = N
       /\ \A j, k \in DOMAIN order : j < k => <<order[j], order[k]>> \in R
       /\ \A j, k \in DOMAIN order : order[j] = order[k] => j = k
  <2>1. IsFiniteSet(N) /\ \A k \in 1..Cardinality(N) : Cardinality(Below(order[k], R, N)) = k - 1
    BY <1>2, <1>8
  <2> QED
    BY <2>1, <1>5, <1>9, OrderedSeq
<1>11. /\ DOMAIN D = 1..(to - from)
       /\ \A k \in 1..(to - from) : order[k] \in N /\ D[k] = at(order[k]) /\ D[k] \in (from + 1)..to
  BY <1>1, <1>2, <1>8
<1>12. D \in Seq(Nat) /\ Len(D) = to - from
  <2>1. to - from \in Nat /\ D \in [1..(to - from) -> Nat]
    BY <1>1, <1>2, <1>11
  <2>2. D \in Seq(Nat)
    BY <2>1, SeqDef
  <2>3. DOMAIN D = 1..Len(D) /\ Len(D) \in Nat
    BY <2>2, LenProperties
  <2>4. DOMAIN D = 1..(to - from)
    BY <1>11
  <2> DEFINE k == to - from
             l == Len(D)
  <2>5. k \in Nat /\ l \in Nat /\ 1..k = 1..l
    BY <2>1, <2>3, <2>4
  <2> HIDE DEF k, l
  <2>6. l = k
    BY <2>5
  <2> QED
    BY <2>2, <2>6 DEF k, l
<1>13. ToSet(D) = (from + 1)..to
  <2>1. ASSUME NEW m \in (from + 1)..to PROVE \E k \in DOMAIN D : D[k] = m
    <3>1. PICK x \in N : at(x) = m
      BY <1>2
    <3>2. PICK k \in DOMAIN order : order[k] = x
      BY <1>10 DEF ToSet
    <3> QED
      BY <3>1, <3>2, <1>2, <1>10, <1>11
  <2> QED
    BY <2>1, <1>11 DEF ToSet
<1>14. \A j, k \in DOMAIN D : D[j] = D[k] => j = k
  BY <1>2, <1>10, <1>11
<1>15. D \in Stream!Arrangements(from + 1, to)
  <2>1. D \in [1..(to - (from + 1) + 1) -> (from + 1)..to]
    <3>1. to - (from + 1) + 1 = to - from
      OBVIOUS
    <3> QED
      BY <1>1, <1>2, <1>11, <3>1
  <2>2. ASSUME NEW i \in DOMAIN D, NEW j \in DOMAIN D, i < j
        PROVE  \/ ClassBefore(generated[D[i]], generated[D[j]])
               \/ /\ generated[D[i]] = generated[D[j]]
                  /\ \/ message_ids[D[i]] < message_ids[D[j]]
                     \/ message_ids[D[i]] = message_ids[D[j]] /\ D[i] < D[j]
    <3> DEFINE x == order[i]
               y == order[j]
    <3>1. /\ x \in N /\ y \in N /\ <<x, y>> \in R
          /\ D[i] = at(x) /\ D[j] = at(y)
      BY <1>2, <1>10, <1>11, <2>2
    <3>2. generated[D[i]] = class(x) /\ generated[D[j]] = class(y)
      BY <1>2, <3>1
    <3>3. CASE class(x) = class(y) /\ Lower(x, y)
      <4>1. mid(x) = message_ids[D[i]] /\ mid(y) = message_ids[D[j]]
        BY <1>midat, <3>1
      <4>2. mid(x) < mid(y) \/ (mid(x) = mid(y) /\ at(x) < at(y))
        BY <3>3 DEF Lower
      <4> HIDE DEF x, y
      <4> QED
        BY <3>1, <3>2, <3>3, <4>1, <4>2
    <3>4. CASE Rank(class(x)) < Rank(class(y))
      <4>1. class(x) \in Classes /\ class(y) \in Classes
        BY <1>3, <3>1
      <4>2. ClassBefore(class(x), class(y))
        BY <1>ranks, <3>4, <4>1 DEF ClassBefore, Classes
      <4> QED
        BY <3>2, <4>2
    <3> QED
      BY <3>1, <3>3, <3>4 DEF R
  <2> QED
    BY <2>1, <2>2 DEF Stream!Arrangements
<1> QED
  BY <1>12, <1>13, <1>14, <1>15 DEF D

(* Nothing covers the empty interval.                                      *)
LEMMA CoversNothing ==
  ASSUME NEW g, NEW a \in Nat
  PROVE  Covers(<< >>, g, a, a) /\ SetCovers({}, g, a, a)
<1>1. (a + 1)..a = {}
  OBVIOUS
<1> QED
  BY <1>1 DEF Covers, SetCovers

(* Two lists that cover adjacent intervals cover both together.            *)
LEMMA CoversConcat ==
  ASSUME NEW E \in Seq(QueuedEvents), NEW F \in Seq(QueuedEvents), NEW g,
         NEW a \in Nat, NEW b \in Nat, NEW c \in Nat, a <= b, b <= c,
         Covers(E, g, a, b), Covers(F, g, b, c)
  PROVE  Covers(E \o F, g, a, c)
<1> DEFINE H == E \o F
           n == Len(E)
           m == Len(F)
<1>1. /\ H \in Seq(QueuedEvents) /\ Len(H) = n + m /\ n \in Nat /\ m \in Nat
      /\ \A i \in 1..(n + m) : H[i] = IF i <= n THEN E[i] ELSE F[i - n]
  BY ConcatProperties, LenProperties
<1>2. DOMAIN H = 1..(n + m) /\ DOMAIN E = 1..n /\ DOMAIN F = 1..m
  BY <1>1, LenProperties
<1> HIDE DEF H, n, m
<1>3. ASSUME NEW i \in DOMAIN E PROVE i \in DOMAIN H /\ H[i] = E[i]
  BY <1>1, <1>2
<1>4. ASSUME NEW i \in DOMAIN F PROVE n + i \in DOMAIN H /\ H[n + i] = F[i]
  <2>1. n + i \in 1..(n + m) /\ ~ (n + i <= n) /\ (n + i) - n = i
    BY <1>1, <1>2
  <2> QED
    BY <2>1, <1>1, <1>2
<1>5. ASSUME NEW i \in DOMAIN H
      PROVE  \/ i <= n /\ i \in DOMAIN E /\ H[i] = E[i]
             \/ i > n /\ i - n \in DOMAIN F /\ H[i] = F[i - n]
  BY <1>1, <1>2
<1>6. \A i \in DOMAIN H : Good(H[i], g)
  BY <1>5 DEF Covers
<1>7. ASSUME NEW i \in DOMAIN H, NEW j \in DOMAIN H, i < j PROVE Precedes(H[i], H[j])
  <2>0. i \in Nat /\ j \in Nat /\ n \in Nat
    BY <1>1, <1>2
  <2>1. CASE i <= n /\ j <= n
    <3>1. i \in DOMAIN E /\ j \in DOMAIN E /\ H[i] = E[i] /\ H[j] = E[j]
      BY <2>0, <2>1, <1>5
    <3> QED
      BY <3>1, <1>7 DEF Covers
  <2>2. CASE i > n /\ j > n
    <3>1. i - n \in DOMAIN F /\ j - n \in DOMAIN F /\ i - n < j - n /\ H[i] = F[i - n] /\ H[j] = F[j - n]
      BY <2>0, <2>2, <1>5, <1>7
    <3> QED
      BY <3>1 DEF Covers
  <2>3. CASE i <= n /\ j > n
    <3>1. i \in DOMAIN E /\ j - n \in DOMAIN F /\ H[i] = E[i] /\ H[j] = F[j - n]
      BY <2>0, <2>3, <1>5
    <3>2. NumbersOf(H[i]) \subseteq (a + 1)..b /\ NumbersOf(H[j]) \subseteq (b + 1)..c
      BY <3>1 DEF Covers
    <3>3. \A x \in NumbersOf(H[i]), y \in NumbersOf(H[j]) : x < y /\ x # y
      BY <3>2
    <3> QED
      BY <3>3 DEF Precedes
  <2> QED
    BY <2>0, <2>1, <2>2, <2>3, <1>7
<1>8. ASSUME NEW x \in (a + 1)..c PROVE \E i \in DOMAIN H : x \in NumbersOf(H[i])
  <2>1. CASE x <= b
    <3>1. x \in (a + 1)..b
      BY <2>1
    <3>2. PICK i \in DOMAIN E : x \in NumbersOf(E[i])
      BY <3>1 DEF Covers
    <3> QED
      BY <3>2, <1>3
  <2>2. CASE x > b
    <3>1. x \in (b + 1)..c
      BY <2>2
    <3>2. PICK i \in DOMAIN F : x \in NumbersOf(F[i])
      BY <3>1 DEF Covers
    <3> QED
      BY <3>2, <1>4
  <2> QED
    BY <2>1, <2>2
<1>9. ASSUME NEW i \in DOMAIN H PROVE NumbersOf(H[i]) \subseteq (a + 1)..c
  <2>1. NumbersOf(H[i]) \subseteq (a + 1)..b \/ NumbersOf(H[i]) \subseteq (b + 1)..c
    BY <1>5 DEF Covers
  <2> QED
    BY <2>1
<1> QED
  BY <1>6, <1>7, <1>8, <1>9 DEF Covers, H

(* A set of events, listed by their ids.                                   *)
LEMMA ListCovers ==
  ASSUME NEW E, NEW g, NEW a, NEW b, SetCovers(ToSet(E), g, a, b),
         \A i, j \in DOMAIN E : i < j => E[i].id < E[j].id
  PROVE  Covers(E, g, a, b)
<1>1. \A i \in DOMAIN E : E[i] \in ToSet(E)
  BY DEF ToSet
<1>2. \A e \in ToSet(E) : \E i \in DOMAIN E : e = E[i]
  BY DEF ToSet
<1> QED
  BY <1>1, <1>2 DEF Covers, SetCovers

(* The stream grows.                                                       *)
LEMMA CoversGrow ==
  ASSUME NEW g \in Seq(Classes), NEW c \in Classes
  PROVE  /\ \A e : Good(e, g) => Good(e, Append(g, c))
         /\ \A E, a, b : Covers(E, g, a, b) => Covers(E, Append(g, c), a, b)
         /\ \A S, a, b : SetCovers(S, g, a, b) => SetCovers(S, Append(g, c), a, b)
<1>1. /\ \A n \in DOMAIN g : n \in DOMAIN Append(g, c) /\ Append(g, c)[n] = g[n]
  BY AppendProperties, LenProperties
<1>2. ASSUME NEW e, Good(e, g) PROVE Good(e, Append(g, c))
  BY <1>1, <1>2 DEF Good
<1> QED
  BY <1>2 DEF Covers, SetCovers

(* A new event without messages is the newest of the set.                  *)
LEMMA SetCoversSystem ==
  ASSUME NEW S, NEW g, NEW a, NEW b, SetCovers(S, g, a, b),
         NEW e, e.messages = << >>, e.id \in Nat, \A f \in S : f.id \in Nat /\ f.id < e.id
  PROVE  SetCovers(S \cup {e}, g, a, b)
<1>1. NumbersOf(e) = {}
  BY DEF NumbersOf, ToSet
<1>2. Good(e, g)
  BY DEF Good
<1>3. \A f \in S : Precedes(f, e)
  BY <1>1 DEF Precedes
<1>4. \A f, h \in S \cup {e} : f.id < h.id => Precedes(f, h)
  BY <1>1, <1>3 DEF Precedes, SetCovers
<1> QED
  BY <1>1, <1>2, <1>4 DEF SetCovers

(* A new event carries the next number of the stream.                      *)
LEMMA SetCoversNext ==
  ASSUME NEW g \in Seq(Classes), NEW c \in Classes, NEW S, NEW a \in Nat, a <= Len(g),
         SetCovers(S, g, a, Len(g)),
         NEW e, e.messages = <<Len(g) + 1>>, ClassOf(e) = c, e.id \in Nat,
         \A f \in S : f.id \in Nat /\ f.id < e.id
  PROVE  SetCovers(S \cup {e}, Append(g, c), a, Len(g) + 1)
<1> DEFINE n == Len(g)
           h == Append(g, c)
<1>1. n \in Nat /\ Len(h) = n + 1 /\ DOMAIN h = 1..(n + 1) /\ h[n + 1] = c
  BY AppendProperties, LenProperties
<1>2. SetCovers(S, h, a, n)
  BY CoversGrow
<1> HIDE DEF n, h
<1>3. e.messages = <<n + 1>>
  BY DEF n
<1>4. NumbersOf(e) = {n + 1}
  BY <1>3 DEF NumbersOf, ToSet
<1>5. Good(e, h)
  BY <1>1, <1>3 DEF Good
<1>6. \A f \in S : \A x \in NumbersOf(f) : x \in (a + 1)..n
  BY <1>2 DEF SetCovers
<1>7. \A f \in S : Precedes(f, e)
  BY <1>1, <1>4, <1>6 DEF Precedes
<1>8. \A f, k \in S \cup {e} : f.id < k.id => Precedes(f, k)
  BY <1>2, <1>7 DEF SetCovers
<1>9. (a + 1)..(n + 1) = ((a + 1)..n) \cup {n + 1}
  <2>1. a <= n
    BY DEF n
  <2> QED
    BY <1>1, <2>1
<1> QED
  BY <1>2, <1>4, <1>5, <1>8, <1>9 DEF SetCovers, n, h

(* The newest event of the class takes the next number of the stream.      *)
LEMMA SetCoversMerge ==
  ASSUME NEW g \in Seq(Classes), NEW c \in Classes, NEW S, NEW a \in Nat, a <= Len(g),
         SetCovers(S, g, a, Len(g)), DistinctIds(S),
         NEW v \in S, NEW m, m.messages = v.messages \o <<Len(g) + 1>>,
         ClassOf(m) = c, ClassOf(v) = c, m.id \in Nat,
         \A f \in S : f.id \in Nat /\ f.id < m.id,
         \A f \in S : ClassOf(f) = c => f.id <= v.id
  PROVE  SetCovers((S \ {v}) \cup {m}, Append(g, c), a, Len(g) + 1)
<1> DEFINE n == Len(g)
           h == Append(g, c)
           vs == v.messages
           ms == m.messages
<1>1. n \in Nat /\ Len(h) = n + 1 /\ DOMAIN h = 1..(n + 1) /\ h[n + 1] = c
  BY AppendProperties, LenProperties
<1>2. SetCovers(S, h, a, n)
  BY CoversGrow
<1>3. vs \in Seq(Nat) /\ <<n + 1>> \in Seq(Nat) /\ Good(v, h)
  BY <1>1, <1>2 DEF SetCovers, Good
<1>4. /\ ms \in Seq(Nat) /\ Len(ms) = Len(vs) + 1 /\ Len(vs) \in Nat
      /\ \A j \in 1..(Len(vs) + 1) : ms[j] = IF j <= Len(vs) THEN vs[j] ELSE n + 1
      /\ DOMAIN ms = 1..(Len(vs) + 1) /\ DOMAIN vs = 1..Len(vs)
  <2>1. /\ vs \o <<n + 1>> \in Seq(Nat) /\ Len(vs \o <<n + 1>>) = Len(vs) + 1
        /\ \A j \in 1..(Len(vs) + 1) : (vs \o <<n + 1>>)[j] = IF j <= Len(vs) THEN vs[j] ELSE <<n + 1>>[j - Len(vs)]
    BY <1>3, ConcatProperties
  <2>2. Len(vs) \in Nat /\ DOMAIN vs = 1..Len(vs)
    BY <1>3, LenProperties
  <2>3. ms = vs \o <<n + 1>>
    OBVIOUS
  <2> HIDE DEF ms, vs, n
  <2>4. \A j \in 1..(Len(vs) + 1) : ms[j] = IF j <= Len(vs) THEN vs[j] ELSE n + 1
    BY <2>1, <2>2, <2>3
  <2>5. DOMAIN ms = 1..(Len(vs) + 1)
    BY <2>1, <2>3, LenProperties
  <2> QED
    BY <2>1, <2>2, <2>3, <2>4, <2>5
<1> HIDE DEF n, h, vs, ms
<1>5. \A f \in S : \A x \in NumbersOf(f) : x \in (a + 1)..n
  BY <1>2 DEF SetCovers
<1>6. NumbersOf(m) = NumbersOf(v) \cup {n + 1}
  <2>0. NumbersOf(v) = ToSet(vs) /\ NumbersOf(m) = ToSet(ms)
    BY DEF NumbersOf, vs, ms
  <2>1. \A j \in DOMAIN ms : ms[j] \in ToSet(vs) \cup {n + 1}
    BY <1>4 DEF ToSet
  <2>2. \A j \in DOMAIN vs : j \in DOMAIN ms /\ ms[j] = vs[j]
    BY <1>4
  <2>3. Len(vs) + 1 \in DOMAIN ms /\ ms[Len(vs) + 1] = n + 1
    BY <1>4
  <2> QED
    BY <2>0, <2>1, <2>2, <2>3 DEF ToSet
<1>7. Good(m, h)
  <2>1. ASSUME NEW j \in DOMAIN ms PROVE ms[j] \in DOMAIN h /\ h[ms[j]] = c
    <3>1. CASE j <= Len(vs)
      <4>1. j \in DOMAIN vs /\ ms[j] = vs[j]
        BY <3>1, <1>4
      <4> QED
        BY <4>1, <1>3 DEF Good, vs
    <3>2. CASE j > Len(vs)
      BY <3>2, <1>1, <1>4
    <3> QED
      BY <3>1, <3>2, <1>4
  <2>2. ASSUME NEW j \in DOMAIN ms, NEW k \in DOMAIN ms, j < k PROVE ms[j] < ms[k]
    <3>0. j \in DOMAIN vs /\ ms[j] = vs[j]
      BY <2>2, <1>4
    <3>1. j \in DOMAIN vs /\ ms[j] = vs[j] /\ vs[j] \in NumbersOf(v)
      BY <3>0 DEF NumbersOf, ToSet, vs
    <3>2. CASE k <= Len(vs)
      <4>1. k \in DOMAIN vs /\ ms[k] = vs[k]
        BY <3>2, <1>4
      <4> QED
        BY <3>1, <4>1, <2>2, <1>3 DEF Good, vs
    <3>3. CASE k > Len(vs)
      BY <3>1, <3>3, <1>1, <1>4, <1>5
    <3> QED
      BY <3>2, <3>3, <1>4
  <2> QED
    BY <2>1, <2>2, <1>4 DEF Good, ms
<1>8. ASSUME NEW f \in S \ {v} PROVE Precedes(f, m)
  <2>1. f.id # v.id
    BY DEF DistinctIds
  <2>2. Precedes(f, v) \/ (ClassOf(f) # c /\ Precedes(v, f))
    <3>1. f.id < v.id \/ v.id < f.id
      BY <2>1
    <3> QED
      BY <3>1, <1>2 DEF SetCovers
  <2>3. \A x \in NumbersOf(f), y \in NumbersOf(v) : x # y /\ (ClassOf(f) = c => x < y)
    BY <2>2 DEF Precedes
  <2>4. \A x \in NumbersOf(f) : x < n + 1
    BY <1>1, <1>5
  <2>5. \A x \in NumbersOf(f) : x # n + 1
    BY <1>1, <1>5
  <2> QED
    BY <2>3, <2>4, <2>5, <1>6 DEF Precedes
<1>9. \A f, k \in (S \ {v}) \cup {m} : f.id < k.id => Precedes(f, k)
  BY <1>2, <1>8 DEF SetCovers
<1>10. (a + 1)..(n + 1) = ((a + 1)..n) \cup {n + 1}
  <2>1. a <= n
    BY DEF n
  <2> QED
    BY <1>1, <2>1
<1>11. \A f \in (S \ {v}) \cup {m} : NumbersOf(f) \subseteq (a + 1)..(n + 1)
  BY <1>2, <1>6, <1>10 DEF SetCovers
<1>12. \A x \in (a + 1)..(n + 1) : \E f \in (S \ {v}) \cup {m} : x \in NumbersOf(f)
  BY <1>2, <1>6, <1>10 DEF SetCovers
<1>13. \A f \in (S \ {v}) \cup {m} : Good(f, h)
  BY <1>2, <1>7 DEF SetCovers
<1> QED
  BY <1>9, <1>11, <1>12, <1>13 DEF SetCovers, n, h

(* What is left of a set when a list of its events is taken away.          *)
LEMMA SetCoversRest ==
  ASSUME NEW S, NEW I, NEW g, NEW a \in Nat, NEW b \in Nat, NEW c \in Nat, a <= b, b <= c,
         SetCovers(S, g, a, c), DistinctIds(S), \A e \in S : e.id \in Nat,
         ToSet(I) \subseteq S, Covers(I, g, a, b)
  PROVE  SetCovers(S \ ToSet(I), g, b, c)
<1>1. /\ \A e \in ToSet(I) : NumbersOf(e) \subseteq (a + 1)..b
      /\ \A x \in (a + 1)..b : \E e \in ToSet(I) : x \in NumbersOf(e)
  BY DEF Covers, ToSet
<1>2. ASSUME NEW e \in S, NEW f \in S, e # f, NEW x \in NumbersOf(e) PROVE x \notin NumbersOf(f)
  <2>1. e.id < f.id \/ f.id < e.id
    BY <1>2 DEF DistinctIds
  <2>2. Precedes(e, f) \/ Precedes(f, e)
    BY <2>1 DEF SetCovers
  <2> QED
    BY <2>2 DEF Precedes
<1>3. ASSUME NEW e \in S \ ToSet(I), NEW x \in NumbersOf(e) PROVE x \in (b + 1)..c
  <2>1. x \in (a + 1)..c
    BY DEF SetCovers
  <2>2. x \notin (a + 1)..b
    BY <1>1, <1>2
  <2> QED
    BY <2>1, <2>2
<1>4. ASSUME NEW x \in (b + 1)..c PROVE \E e \in S \ ToSet(I) : x \in NumbersOf(e)
  <2>1. x \in (a + 1)..c /\ x \notin (a + 1)..b
    OBVIOUS
  <2>2. PICK e \in S : x \in NumbersOf(e)
    BY <2>1 DEF SetCovers
  <2> QED
    BY <2>1, <2>2, <1>1
<1> QED
  BY <1>3, <1>4 DEF SetCovers

-----------------------------------------------------------------------------
(* What a tab that has acknowledged l, with the events I on their way to   *)
(* it, and its queue q know of each other.                                 *)

Beyond(q, l) == {e \in HeldEvents(q) : e.id > l}

Known(q, l, I) ==
  /\ q.newest_pruned_id <= l /\ l < q.next_event_id
  /\ \A e \in HeldEvents(q) : e.id > q.newest_pruned_id
  /\ l = q.newest_pruned_id \/ \E e \in ToSet(q.queue) : e.id = l
  /\ \A v \in Virtual(q) : v.id > l /\ \A e \in ToSet(I) : v.id > e.id
  /\ \A e \in ToSet(I) : e \in ToSet(q.queue) /\ e.id > l
  /\ \A f \in HeldEvents(q) : f.id > l => f \in ToSet(I) \/ \A e \in ToSet(I) : f.id > e.id

(* The ids of a queue have been given out.                                 *)
LEMMA IdFacts ==
  ASSUME NEW q \in Queues, QueueOK(q)
  PROVE  /\ \A e \in HeldEvents(q) : e.id \in Nat /\ e.id < q.next_event_id
         /\ q.next_event_id \in Nat
         /\ ToSet(q.queue) \subseteq HeldEvents(q) /\ Virtual(q) \subseteq HeldEvents(q)
  BY HeldFacts, EventFields, QueueFields DEF QueueOK

(* An event that is not compressed is pushed: the tab has not seen it.     *)
LEMMA KnownPlain ==
  ASSUME NEW q \in Queues, QueueOK(q), NEW type \in PlainTypes, NEW messages \in Seq(Nat),
         NEW l \in Nat \cup {-1}, l < q.next_event_id
  PROVE  LET e == Numbered([type |-> type, messages |-> messages], q.next_event_id)
             p == push(q, [type |-> type, messages |-> messages])
         IN  /\ p \in Queues /\ QueueOK(p)
             /\ p.newest_pruned_id = q.newest_pruned_id
             /\ p.next_event_id = q.next_event_id + 1
             /\ HeldEvents(p) = HeldEvents(q) \cup {e}
             /\ Beyond(p, l) = Beyond(q, l) \cup {e}
             /\ \A I : Known(q, l, I) => Known(p, l, I)
<1> DEFINE e == Numbered([type |-> type, messages |-> messages], q.next_event_id)
           p == push(q, [type |-> type, messages |-> messages])
<1>1. /\ p \in Queues /\ QueueOK(p)
      /\ p.next_event_id = q.next_event_id + 1
      /\ p.newest_pruned_id = q.newest_pruned_id
      /\ ToSet(p.queue) = ToSet(q.queue) \cup {e}
      /\ Virtual(p) = Virtual(q)
  BY PushPlainFacts
<1>2. e.id = q.next_event_id
  BY NumberedPlain, QueueFields
<1> HIDE DEF e, p
<1>3. HeldEvents(p) = HeldEvents(q) \cup {e}
  BY <1>1 DEF HeldEvents, Virtual
<1>4. Beyond(p, l) = Beyond(q, l) \cup {e}
  BY <1>2, <1>3 DEF Beyond
<1>5. ASSUME NEW I, Known(q, l, I) PROVE Known(p, l, I)
  <2>1. \A f \in ToSet(I) : f \in ToSet(q.queue) /\ f.id < q.next_event_id
    BY <1>5, IdFacts DEF Known
  <2>2. \A f \in HeldEvents(p) : f.id > l => f \in ToSet(I) \/ \A h \in ToSet(I) : f.id > h.id
    BY <1>2, <1>3, <1>5, <2>1, IdFacts DEF Known
  <2>3. p.newest_pruned_id <= l /\ l < p.next_event_id
    BY <1>1, <1>5, IdFacts DEF Known
  <2>4. \A f \in HeldEvents(p) : f.id > p.newest_pruned_id
    <3>1. q.newest_pruned_id < q.next_event_id
      BY DEF QueueOK
    <3> QED
      BY <3>1, <1>1, <1>2, <1>3, <1>5 DEF Known
  <2> QED
    BY <1>1, <1>5, <2>2, <2>3, <2>4 DEF Known
<1> QED
  BY <1>1, <1>3, <1>4, <1>5 DEF e, p

(* An event of the stream enters the queue.                                *)
LEMMA PushClass ==
  ASSUME NEW q \in Queues, QueueOK(q), NEW g \in Seq(Classes), NEW c \in Classes,
         NEW l \in Nat \cup {-1}, l < q.next_event_id
  PROVE  LET p == push(q, Event(c, Len(g) + 1))
         IN  /\ p \in Queues /\ QueueOK(p)
             /\ p.newest_pruned_id = q.newest_pruned_id
             /\ p.next_event_id = q.next_event_id + 1
             /\ HeldEvents(q) = {} => HeldEvents(p) = Beyond(p, l)
             /\ \A I : Known(q, l, I) =>
                  /\ Known(p, l, I)
                  /\ \A a \in 0..Len(g) : SetCovers(Beyond(q, l), g, a, Len(g)) =>
                       SetCovers(Beyond(p, l), Append(g, c), a, Len(g) + 1)
<1> DEFINE n == Len(g) + 1
           p == push(q, Event(c, n))
           F == Beyond(q, l)
<1>1. Len(g) \in Nat /\ n \in Nat
  BY LenProperties
<1>2. \A f \in F : f.id \in Nat /\ f.id < q.next_event_id
  BY IdFacts DEF Beyond
<1>3. DistinctIds(F)
  BY HeldFacts DEF Beyond, DistinctIds
<1>4. q.next_event_id \in Nat
  BY IdFacts
<1>5. CASE c \in {"normal", "message", "update"}
  <2> DEFINE type == IF c = "normal" THEN "presence"
                     ELSE IF c = "message" THEN "message" ELSE "update_message"
             ms == <<n>>
             e == Numbered([type |-> type, messages |-> ms], q.next_event_id)
  <2>1. Event(c, n) = [type |-> type, messages |-> ms]
    BY <1>5 DEF Event
  <2>2. type \in PlainTypes /\ ms \in Seq(Nat)
    BY <1>1 DEF PlainTypes
  <2>3. /\ e.id = q.next_event_id /\ e.messages = <<n>> /\ e.type = type
    <3> HIDE DEF type, ms
    <3>1. /\ e.id = q.next_event_id /\ e.messages = ms /\ e.type = type
      BY <2>2, <1>4, NumberedPlain
    <3> QED
      BY <3>1 DEF ms
  <2>4. ClassOf(e) = c
    BY <1>5, <2>3 DEF ClassOf
  <2>5. /\ p \in Queues /\ QueueOK(p)
        /\ p.newest_pruned_id = q.newest_pruned_id
        /\ p.next_event_id = q.next_event_id + 1
        /\ HeldEvents(p) = HeldEvents(q) \cup {e}
        /\ Beyond(p, l) = F \cup {e}
        /\ \A I : Known(q, l, I) => Known(p, l, I)
    <3> HIDE DEF type, ms
    <3> QED
      BY <2>1, <2>2, KnownPlain
  <2> HIDE DEF e, p, F
  <2>6. ASSUME NEW a \in 0..Len(g), SetCovers(F, g, a, Len(g))
        PROVE  SetCovers(F \cup {e}, Append(g, c), a, n)
    BY <1>1, <1>2, <1>4, <2>3, <2>4, <2>6, SetCoversNext
  <2>7. HeldEvents(q) = {} => HeldEvents(p) = Beyond(p, l)
    BY <2>5 DEF Beyond, F
  <2> QED
    BY <2>5, <2>6, <2>7 DEF p, F
<1>6. CASE c = "post"
  <2>1. /\ p \in Queues /\ QueueOK(p)
        /\ p.next_event_id = q.next_event_id + 1
        /\ p.newest_pruned_id = q.newest_pruned_id
        /\ p.queue = q.queue
    BY <1>1, <1>6, PushPostFacts
  <2>2. PICK m \in FlagsEvents :
             /\ Virtual(p) = {m} /\ m.id = q.next_event_id
             /\ \/ Virtual(q) = {} /\ m.messages = <<n>>
                \/ \E v \in Virtual(q) : m.messages = v.messages \o <<n>>
    BY <1>1, <1>6, PushPostFacts
  <2> HIDE DEF p
  <2>3. HeldEvents(p) = ToSet(q.queue) \cup {m} /\ HeldEvents(q) = ToSet(q.queue) \cup Virtual(q)
    BY <2>1, <2>2 DEF HeldEvents, Virtual
  <2>4. m \in QueuedEvents /\ ClassOf(m) = c
    BY <1>6, EventFields DEF QueuedEvents
  <2>5. HeldEvents(q) = {} => HeldEvents(p) = Beyond(p, l)
    BY <2>2, <2>3 DEF Beyond
  <2>6. ASSUME NEW I, Known(q, l, I) PROVE Known(p, l, I)
    <3>1. \A f \in ToSet(I) : f \in ToSet(q.queue) /\ f.id < q.next_event_id
      BY <2>6, IdFacts DEF Known
    <3>2. \A f \in HeldEvents(p) : f.id > l => f \in ToSet(I) \/ \A h \in ToSet(I) : f.id > h.id
      BY <2>2, <2>3, <2>6, <3>1 DEF Known
    <3>3. p.newest_pruned_id <= l /\ l < p.next_event_id
      BY <2>1, <2>6, <1>4 DEF Known
    <3>4. \A v \in Virtual(p) : v.id > l /\ \A h \in ToSet(I) : v.id > h.id
      BY <2>2, <3>1
    <3>5. \A f \in HeldEvents(p) : f.id > p.newest_pruned_id
      <4>1. q.newest_pruned_id < q.next_event_id
        BY DEF QueueOK
      <4> QED
        BY <4>1, <2>1, <2>2, <2>3, <2>6 DEF Known
    <3> QED
      BY <2>1, <2>6, <3>2, <3>3, <3>4, <3>5 DEF Known
  <2>7. ASSUME NEW I, Known(q, l, I), NEW a \in 0..Len(g), SetCovers(F, g, a, Len(g))
        PROVE  SetCovers(Beyond(p, l), Append(g, c), a, n)
    <3>1. CASE Virtual(q) = {}
      <4>1. Beyond(p, l) = F \cup {m} /\ m.messages = <<n>>
        BY <3>1, <2>2, <2>3 DEF Beyond
      <4> HIDE DEF F
      <4> QED
        BY <4>1, <1>1, <1>2, <1>4, <2>2, <2>4, <2>7, SetCoversNext
    <3>2. ASSUME NEW v \in Virtual(q), m.messages = v.messages \o <<n>>
          PROVE  SetCovers(Beyond(p, l), Append(g, c), a, n)
      <4>1. v \in F /\ ClassOf(v) = c /\ Virtual(q) = {v} /\ v.id \in Nat
        BY <1>6, <2>7, HeldFacts, EventFields, IdFacts DEF Known, F, Beyond, QueuedEvents
      <4>2. v \notin ToSet(q.queue)
        BY DEF QueueOK
      <4>3. Beyond(p, l) = (F \ {v}) \cup {m}
        BY <4>1, <4>2, <2>2, <2>3 DEF Beyond
      <4>4. \A f \in F : ClassOf(f) = c => f.id <= v.id
        BY <1>6, <4>1, <2>3, <1>2 DEF F, Beyond, QueueOK
      <4> HIDE DEF F
      <4> QED
        BY <4>1, <4>3, <4>4, <3>2, <1>1, <1>2, <1>3, <1>4, <2>2, <2>4, <2>7, SetCoversMerge
    <3> QED
      BY <3>1, <3>2, <2>2
  <2> QED
    BY <2>1, <2>5, <2>6, <2>7 DEF p
<1> QED
  BY <1>5, <1>6 DEF Classes

(* A heartbeat or a restart event enters the queue.                        *)
LEMMA PushSystem ==
  ASSUME NEW q \in Queues, QueueOK(q), NEW type \in {"heartbeat", "restart"},
         NEW l \in Nat \cup {-1}, l < q.next_event_id
  PROVE  LET p == push(q, SystemEvent(type))
         IN  /\ p \in Queues /\ QueueOK(p)
             /\ p.newest_pruned_id = q.newest_pruned_id
             /\ p.next_event_id = q.next_event_id + 1
             /\ HeldEvents(q) = {} => HeldEvents(p) = Beyond(p, l)
             /\ \A I : Known(q, l, I) => Known(p, l, I)
             /\ \A g, a, b : SetCovers(Beyond(q, l), g, a, b) => SetCovers(Beyond(p, l), g, a, b)
<1> DEFINE ms == << >>
           e == Numbered([type |-> type, messages |-> ms], q.next_event_id)
           p == push(q, SystemEvent(type))
           F == Beyond(q, l)
<1>1. SystemEvent(type) = [type |-> type, messages |-> ms] /\ type \in PlainTypes
      /\ ms \in Seq(Nat)
  BY DEF SystemEvent, PlainTypes
<1> HIDE DEF ms
<1>2. q.next_event_id \in Nat /\ \A f \in F : f.id \in Nat /\ f.id < q.next_event_id
  BY IdFacts DEF Beyond
<1>3. e.id = q.next_event_id /\ e.messages = << >>
  <2>1. e.id = q.next_event_id /\ e.messages = ms
    BY <1>1, <1>2, NumberedPlain
  <2> QED
    BY <2>1 DEF ms
<1>4. /\ p \in Queues /\ QueueOK(p)
      /\ p.newest_pruned_id = q.newest_pruned_id
      /\ p.next_event_id = q.next_event_id + 1
      /\ HeldEvents(p) = HeldEvents(q) \cup {e}
      /\ Beyond(p, l) = F \cup {e}
      /\ \A I : Known(q, l, I) => Known(p, l, I)
  BY <1>1, KnownPlain
<1> HIDE DEF e, p, F
<1>5. \A g, a, b : SetCovers(F, g, a, b) => SetCovers(F \cup {e}, g, a, b)
  BY <1>2, <1>3, SetCoversSystem
<1>6. HeldEvents(q) = {} => HeldEvents(p) = Beyond(p, l)
  BY <1>4 DEF Beyond, F
<1> QED
  BY <1>4, <1>5, <1>6 DEF p, F

(* The events on their way to the tab are lost.                            *)
LEMMA KnownForget ==
  ASSUME NEW q, NEW l, NEW I, Known(q, l, I)
  PROVE  Known(q, l, << >>)
<1>1. ToSet(<< >>) = {}
  BY DEF ToSet
<1> QED
  BY <1>1 DEF Known

(* The virtual events become real.                                         *)
LEMMA KnownContents ==
  ASSUME NEW q \in Queues, QueueOK(q)
  PROVE  LET a == AfterContents(q)
         IN  /\ a \in Queues /\ QueueOK(a)
             /\ a.newest_pruned_id = q.newest_pruned_id
             /\ a.next_event_id = q.next_event_id
             /\ HeldEvents(a) = HeldEvents(q)
             /\ \A l : Beyond(a, l) = Beyond(q, l)
             /\ \A l, I : Known(q, l, I) => Known(a, l, I)
<1> DEFINE a == AfterContents(q)
<1>1. /\ a \in Queues /\ QueueOK(a)
      /\ a.next_event_id = q.next_event_id
      /\ a.newest_pruned_id = q.newest_pruned_id
      /\ HeldEvents(a) = HeldEvents(q)
      /\ ToSet(a.queue) = HeldEvents(q) /\ Virtual(a) = {}
  BY AfterContentsFacts
<1>2. ToSet(q.queue) \subseteq HeldEvents(q)
  BY IdFacts
<1> HIDE DEF a
<1>3. \A l : Beyond(a, l) = Beyond(q, l)
  BY <1>1 DEF Beyond
<1>4. \A l, I : Known(q, l, I) => Known(a, l, I)
  BY <1>1, <1>2 DEF Known
<1> QED
  BY <1>1, <1>3, <1>4 DEF a

(* The tab is sent all there is.                                           *)
LEMMA KnownAnswer ==
  ASSUME NEW q \in Queues, QueueOK(q), NEW l, Known(q, l, << >>),
         HeldEvents(q) = Beyond(q, l)
  PROVE  /\ contents(q) \in Seq(QueuedEvents)
         /\ ToSet(contents(q)) = Beyond(q, l)
         /\ Known(AfterContents(q), l, contents(q))
         /\ \A g, a, b : SetCovers(Beyond(q, l), g, a, b) => Covers(contents(q), g, a, b)
<1> DEFINE a == AfterContents(q)
           I == contents(q)
<1>1. /\ a \in Queues /\ QueueOK(a) /\ a.queue = I
      /\ a.next_event_id = q.next_event_id
      /\ a.newest_pruned_id = q.newest_pruned_id
      /\ HeldEvents(a) = HeldEvents(q)
      /\ ToSet(a.queue) = HeldEvents(q) /\ Virtual(a) = {}
  BY AfterContentsFacts
<1>2. I \in Seq(QueuedEvents) /\ ToSet(I) = HeldEvents(q)
  BY <1>1, QueueFields
<1>3. \A i, j \in DOMAIN I : i < j => I[i].id < I[j].id
  BY <1>1 DEF QueueOK
<1>4. ToSet(q.queue) \subseteq HeldEvents(q)
  BY IdFacts
<1> HIDE DEF a, I
<1>5. \A e \in HeldEvents(q) : e.id > l
  BY DEF Beyond
<1>6. Known(a, l, I)
  BY <1>1, <1>2, <1>4, <1>5 DEF Known
<1>7. \A g, b, c : SetCovers(Beyond(q, l), g, b, c) => Covers(I, g, b, c)
  BY <1>2, <1>3, ListCovers
<1> QED
  BY <1>2, <1>6, <1>7 DEF a, I

(* An acknowledgement of what the tab has, or an older one, takes nothing  *)
(* away that the tab needs; an up-to-date one leaves only what it needs.   *)
LEMMA KnownPrune ==
  ASSUME NEW q \in Queues, QueueOK(q), NEW l \in Nat \cup {-1}, NEW I, Known(q, l, I),
         NEW through \in Nat \cup {-1}, through <= l
  PROVE  LET p == prune(q, through)
         IN  /\ Known(p, l, << >>)
             /\ Beyond(p, l) = Beyond(q, l)
             /\ \A e \in ToSet(I) : e \in ToSet(p.queue)
             /\ Known(p, l, I)
             /\ through = l => p.newest_pruned_id = l /\ HeldEvents(p) = Beyond(p, l)
<1> DEFINE p == prune(q, through)
<1>1. through \in Int
  OBVIOUS
<1>2. /\ p \in Queues /\ QueueOK(p)
      /\ p.next_event_id = q.next_event_id
      /\ ToSet(p.queue) = {e \in ToSet(q.queue) : e.id > through}
      /\ Virtual(p) = Virtual(q)
      /\ \/ p.newest_pruned_id = q.newest_pruned_id
         \/ \E e \in ToSet(q.queue) : e.id = p.newest_pruned_id /\ e.id <= through
      /\ \A e \in ToSet(q.queue) : e.id <= through =>
           /\ e.id <= p.newest_pruned_id
           /\ \E f \in ToSet(q.queue) : f.id = p.newest_pruned_id
  BY <1>1, PruneFacts
<1> HIDE DEF p
<1>3. /\ \A e \in ToSet(q.queue) : e.id \in Nat /\ e.id < q.next_event_id
      /\ \A v \in Virtual(q) : v.id \in Nat /\ v.id < q.next_event_id
      /\ q.next_event_id \in Nat
  BY IdFacts
<1>4. q.newest_pruned_id \in Nat \cup {-1} /\ p.newest_pruned_id \in Nat \cup {-1}
  BY <1>2, QueueFields
<1>5. /\ HeldEvents(q) = ToSet(q.queue) \cup Virtual(q)
      /\ HeldEvents(p) = ToSet(p.queue) \cup Virtual(p)
  BY <1>2, HeldFacts
<1>6. \A v \in Virtual(q) : v.id > l
  BY DEF Known
<1>7. Beyond(p, l) = Beyond(q, l)
  BY <1>2, <1>3, <1>5, <1>6 DEF Beyond
<1>8. p.newest_pruned_id <= l
  BY <1>2, <1>3, <1>4 DEF Known
<1>9. l = p.newest_pruned_id \/ \E e \in ToSet(p.queue) : e.id = l
  <2>1. CASE \E e \in ToSet(q.queue) : e.id = l
    <3>1. PICK e \in ToSet(q.queue) : e.id = l
      BY <2>1
    <3>2. CASE e.id > through
      BY <3>1, <3>2, <1>2
    <3>3. CASE e.id <= through
      <4>1. e.id <= p.newest_pruned_id
        BY <3>1, <3>3, <1>2
      <4> QED
        BY <4>1, <3>1, <1>4, <1>8
    <3> QED
      BY <3>1, <3>2, <3>3, <1>3
  <2>2. CASE l = q.newest_pruned_id
    <3>1. CASE p.newest_pruned_id = q.newest_pruned_id
      BY <3>1, <2>2
    <3>2. CASE p.newest_pruned_id # q.newest_pruned_id
      <4>1. PICK e \in ToSet(q.queue) : e.id = p.newest_pruned_id /\ e.id <= through
        BY <3>2, <1>2
      <4>2. e.id > l
        BY <2>2, <1>5 DEF Known
      <4> QED
        BY <4>1, <4>2, <1>3
    <3> QED
      BY <3>1, <3>2
  <2> QED
    BY <2>1, <2>2 DEF Known
<1>10. \A e \in ToSet(I) : e \in ToSet(p.queue)
  BY <1>2, <1>3 DEF Known
<1>11. Known(p, l, I)
  <2>1. \A f \in HeldEvents(p) : f \in HeldEvents(q)
    BY <1>2, <1>5
  <2>2. \A f \in HeldEvents(p) : f.id > p.newest_pruned_id
    <3> SUFFICES ASSUME NEW f \in HeldEvents(p) PROVE f.id > p.newest_pruned_id
      OBVIOUS
    <3>1. f.id \in Nat
      BY <2>1, <1>3, <1>5
    <3>2. CASE p.newest_pruned_id = q.newest_pruned_id
      BY <2>1, <3>2 DEF Known
    <3>3. CASE p.newest_pruned_id <= through
      <4>1. f.id > through
        BY <1>2, <1>3, <1>5, <1>6
      <4> QED
        BY <4>1, <3>1, <3>3, <1>4
    <3> QED
      BY <3>2, <3>3, <1>2
  <2> QED
    BY <1>2, <1>8, <1>9, <1>10, <2>1, <2>2 DEF Known
<1>12. ASSUME through = l PROVE p.newest_pruned_id = l /\ HeldEvents(p) = Beyond(p, l)
  <2>1. \A e \in HeldEvents(p) : e.id > l
    BY <1>2, <1>5, <1>6, <1>12
  <2>2. l = p.newest_pruned_id
    BY <1>2, <1>3, <1>9, <1>12
  <2> QED
    BY <2>1, <2>2 DEF Beyond
<1> QED
  BY <1>7, <1>10, <1>11, <1>12, KnownForget DEF p

(* The tab gets the events: it now acknowledges the newest of them.        *)
LEMMA KnownDeliver ==
  ASSUME NEW q \in Queues, QueueOK(q), NEW l \in Nat \cup {-1}, NEW I \in Seq(QueuedEvents),
         Known(q, l, I)
  PROVE  LET m == Max({l} \cup {e.id : e \in ToSet(I)})
         IN  /\ Known(q, m, << >>)
             /\ Beyond(q, m) = Beyond(q, l) \ ToSet(I)
<1> DEFINE T == {l} \cup {e.id : e \in ToSet(I)}
           m == Max(T)
<1>1. /\ \A e \in HeldEvents(q) : e.id \in Nat /\ e.id < q.next_event_id
      /\ q.next_event_id \in Nat
      /\ ToSet(q.queue) \subseteq HeldEvents(q)
  BY IdFacts
<1>2. \A e \in ToSet(I) : e \in ToSet(q.queue) /\ e.id > l /\ e.id \in Nat
  BY <1>1 DEF Known
<1>3. m \in T /\ \A y \in T : y <= m
  <2>1. T \subseteq Int /\ T # {} /\ \A y \in T : y <= q.next_event_id
    BY <1>1, <1>2 DEF Known
  <2>2. q.next_event_id \in Int
    BY <1>1
  <2> HIDE DEF T
  <2> QED
    BY <2>1, <2>2, HasMax
<1> HIDE DEF m
<1>4. /\ m = l \/ \E e \in ToSet(I) : m = e.id
      /\ l <= m /\ \A e \in ToSet(I) : e.id <= m
  BY <1>3
<1>5. m \in Nat \cup {-1}
  BY <1>2, <1>4
<1>6. Known(q, m, << >>)
  <2>1. ToSet(<< >>) = {}
    BY DEF ToSet
  <2>2. q.newest_pruned_id <= m
    BY <1>4, <1>5, QueueFields DEF Known
  <2>3. m < q.next_event_id /\ (m = q.newest_pruned_id \/ \E e \in ToSet(q.queue) : e.id = m)
    BY <1>1, <1>2, <1>4 DEF Known
  <2>4. \A v \in Virtual(q) : v.id > m
    BY <1>4 DEF Known
  <2> QED
    BY <2>1, <2>2, <2>3, <2>4 DEF Known
<1>7. ASSUME NEW e \in HeldEvents(q) PROVE e.id > m <=> e.id > l /\ e \notin ToSet(I)
  <2>1. e.id \in Nat
    BY <1>1
  <2>2. e.id > m => e.id > l /\ e \notin ToSet(I)
    BY <2>1, <1>4, <1>5
  <2>3. e.id > l /\ e \notin ToSet(I) => e.id > m
    BY <1>4 DEF Known
  <2> QED
    BY <2>2, <2>3
<1>8. Beyond(q, m) = Beyond(q, l) \ ToSet(I)
  BY <1>7 DEF Beyond
<1> QED
  BY <1>6, <1>8 DEF m

(* A queue that has just been allocated.                                   *)
LEMMA NewQueueFacts ==
  /\ NewQueue \in Queues /\ QueueOK(NewQueue) /\ HeldEvents(NewQueue) = {}
  /\ Known(NewQueue, -1, << >>) /\ Beyond(NewQueue, -1) = {}
<1> DEFINE q == NewQueue
<1>1. /\ q.queue = << >> /\ q.next_event_id = 0 /\ q.newest_pruned_id = -1
      /\ q.virtual_events = << >>
  BY DEF NewQueue
<1>2. << >> \in VirtualEvents
  <2>1. << >> \in [{} -> FlagsEvents] /\ {} \in SUBSET {FlagsType}
    OBVIOUS
  <2> QED
    BY <2>1 DEF VirtualEvents
<1>3. << >> \in Seq(QueuedEvents)
  OBVIOUS
<1>4. q \in Queues
  BY <1>2, <1>3 DEF NewQueue, Queues
<1> HIDE DEF q
<1>5. ToSet(q.queue) = {} /\ Virtual(q) = {} /\ HeldEvents(q) = {} /\ ToSet(<< >>) = {}
  BY <1>1 DEF ToSet, Virtual, HeldEvents
<1>6. QueueOK(q) /\ Known(q, -1, << >>) /\ Beyond(q, -1) = {}
  BY <1>1, <1>5 DEF QueueOK, Known, Beyond
<1> QED
  BY <1>4, <1>5, <1>6 DEF q

(* The ids of a list have an upper bound.                                  *)
LEMMA BoundedIds ==
  ASSUME NEW I \in Seq(QueuedEvents)
  PROVE  \E b \in Nat : \A e \in ToSet(I) : e.id <= b
<1> DEFINE P(n) == \E b \in Nat : \A i \in 1..n : I[i].id <= b
           B == {n \in 0..Len(I) : ~ P(n)}
<1>1. Len(I) \in Nat /\ DOMAIN I = 1..Len(I) /\ \A i \in 1..Len(I) : I[i].id \in Nat
  <2>1. Len(I) \in Nat /\ DOMAIN I = 1..Len(I)
    BY LenProperties
  <2> QED
    BY <2>1, ElementOfSeq, EventFields
<1>2. P(0)
  <2>1. 0 \in Nat /\ \A i \in 1..0 : I[i].id <= 0
    OBVIOUS
  <2> QED
    BY <2>1
<1>3. ASSUME NEW n \in 1..Len(I), P(n - 1) PROVE P(n)
  <2>1. PICK b \in Nat : \A i \in 1..(n - 1) : I[i].id <= b
    BY <1>3
  <2>2. I[n].id \in Nat /\ \A i \in 1..n : i = n \/ i \in 1..(n - 1)
    BY <1>1
  <2> DEFINE d == IF I[n].id <= b THEN b ELSE I[n].id
  <2>3. d \in Nat /\ b <= d /\ I[n].id <= d
    BY <2>2
  <2>4. ASSUME NEW i \in 1..n PROVE I[i].id <= d
    <3>1. I[i].id \in Nat
      BY <1>1
    <3>2. CASE i = n
      BY <3>2, <2>3
    <3>3. CASE i \in 1..(n - 1)
      <4>1. I[i].id <= b
        BY <3>3, <2>1
      <4> QED
        BY <4>1, <3>1, <2>3
    <3> QED
      BY <3>2, <3>3, <2>2
  <2> HIDE DEF d
  <2> QED
    BY <2>3, <2>4
<1> HIDE DEF P
<1>4. B = {}
  <2> SUFFICES ASSUME B # {} PROVE FALSE
    OBVIOUS
  <2>1. B \subseteq Nat
    BY <1>1
  <2>2. PICK n \in B : \A m \in B : n <= m
    <3> HIDE DEF B
    <3> QED
      BY <2>1, HasMin
  <2>3. n # 0
    BY <2>2, <1>2
  <2>4. n \in 1..Len(I) /\ n - 1 \in 0..Len(I) /\ ~ (n <= n - 1)
    BY <2>2, <2>3, <1>1
  <2>5. P(n - 1)
    BY <2>2, <2>4
  <2> QED
    BY <2>2, <2>4, <2>5, <1>3
<1>5. P(Len(I))
  BY <1>1, <1>4
<1>6. PICK b \in Nat : \A i \in 1..Len(I) : I[i].id <= b
  BY <1>5 DEF P
<1> QED
  BY <1>1, <1>6 DEF ToSet

-----------------------------------------------------------------------------
(* The inductive invariant. *)

InboxEvents == IF inbox = NoResponse THEN << >> ELSE inbox.events

(* The tab and its queue belong together.                                  *)
Current == QueueSurvives /\ ~reloading /\ ~stale

Typed ==
  /\ phase \in {"up", "stopping", "down"}
  /\ eq \in Queues /\ QueueOK(eq)
  /\ disk # NoFile => disk \in Queues /\ QueueOK(disk)
  /\ \A r \in reqs : r.conn \in Conns /\ r.last \in Nat \cup {-1}
  /\ InboxEvents \in Seq(QueuedEvents)
  /\ last \in Nat \cup {-1}
  /\ stored \in Seq(QueuedEvents)
  /\ generated \in Seq(Classes)

(* While a connection waits, the queue is empty; the file holds the queue  *)
(* if there is one.                                                        *)
ServerInv ==
  /\ phase = "up" => disk = NoFile
  /\ phase = "stopping" => (alive <=> disk # NoFile)
  /\ phase = "down" => ~alive
  /\ ~alive => eq = NewQueue /\ handler = None
  /\ handler # None => HeldEvents(eq) = {}

(* A request acknowledges no more than the tab has, and the one the tab    *)
(* waits for no less; a request that has been answered is not one the      *)
(* server knows of.                                                        *)
RequestsInv ==
  /\ \A r \in reqs : r.conn # handler /\ r.last <= last /\ (r.conn = xhr => r.last = last)
  /\ \A r, s \in reqs : r.conn = s.conn => r = s
  /\ inbox # NoResponse => xhr # None /\ xhr \notin Held
  /\ reloading => xhr = None

KnownInv == Current => Known(Surviving, last, InboxEvents)

(* The file f of the queue q, when q has got no event and has made none    *)
(* real since: q may have been pruned.                                     *)
FileOf(q, f) ==
  /\ ToSet(q.queue) \subseteq ToSet(f.queue)
  /\ \A e \in ToSet(f.queue) : e \in ToSet(q.queue) \/ e.id <= q.newest_pruned_id
  /\ f.newest_pruned_id <= q.newest_pruned_id
  /\ \/ f.newest_pruned_id = q.newest_pruned_id
     \/ \E e \in ToSet(f.queue) : e.id = q.newest_pruned_id

(* A queue in memory that has not gone beyond its file is still that of    *)
(* the file; one that has never comes back to it.                          *)
DiskInv ==
  phase = "stopping" /\ alive =>
    /\ disk.next_event_id <= eq.next_event_id
    /\ Current =>
         /\ \A e \in HeldEvents(disk) : e.id > disk.newest_pruned_id
         /\ disk.next_event_id = eq.next_event_id =>
              /\ eq.virtual_events = disk.virtual_events \/ eq.virtual_events = << >>
              /\ eq.virtual_events = disk.virtual_events => FileOf(eq, disk)

(* The stream is what is applied, what is stored, what is on its way to    *)
(* the tab and what is still to be fetched, in this order.                 *)
Frontier ==
  ~stale => \E s, t \in 0..Len(generated) :
    /\ Len(applied) <= s /\ s <= t
    /\ Covers(stored, generated, Len(applied), s)
    /\ Covers(InboxEvents, generated, s, t)
    /\ Current => SetCovers(Fetchable, generated, s, Len(generated))

AppliedInv ==
  ~stale =>
    /\ applied \in Seq(Nat)
    /\ ToSet(applied) = 1..Len(applied)
    /\ \A i, j \in DOMAIN applied : applied[i] = applied[j] => i = j

Inv == Typed /\ ServerInv /\ RequestsInv /\ KnownInv /\ Frontier /\ AppliedInv /\ NeverRejected

(* The fields of a response, which is not NoResponse.                      *)
LEMMA ResponseFacts ==
  ASSUME NEW result, NEW events
  PROVE  LET r == Response(result, events)
         IN  r # NoResponse /\ r.result = result /\ r.events = events
<1> DEFINE r == Response(result, events)
<1>1. r = [result |-> result, events |-> events]
  BY DEF Response
<1>2. DOMAIN r = {"result", "events"}
  BY <1>1
<1>3. r # << >>
  BY <1>2
<1> QED
  BY <1>1, <1>3 DEF NoResponse

(* What the tab has still to fetch, as a function of the queue and the     *)
(* tab's last_event_id.                                                    *)
LEMMA FetchableBeyond == Fetchable = Beyond(Surviving, last)
  BY DEF Fetchable, Beyond

(* The stream, the queue or the response change, but not what the tab has  *)
(* stored or applied.                                                      *)
LEMMA FrontierStep ==
  ASSUME Typed, Frontier, stale => stale', UNCHANGED <<applied, stored>>,
         generated' = generated \/ \E c \in Classes : generated' = Append(generated, c),
         Current' =>
           /\ Current
           /\ \A s \in 0..Len(generated) :
                SetCovers(Fetchable, generated, s, Len(generated)) =>
                SetCovers(Fetchable', generated', s, Len(generated')),
         \/ InboxEvents' = InboxEvents \/ InboxEvents' = << >>
         \/ /\ Current'
            /\ \A s \in 0..Len(generated') :
                 SetCovers(Fetchable', generated', s, Len(generated')) =>
                 Covers(InboxEvents', generated', s, Len(generated'))
  PROVE  Frontier'
<1> SUFFICES ASSUME ~stale' PROVE Frontier'
  BY DEF Frontier
<1>1. PICK s \in 0..Len(generated), t \in 0..Len(generated) :
           /\ Len(applied) <= s /\ s <= t
           /\ Covers(stored, generated, Len(applied), s)
           /\ Covers(InboxEvents, generated, s, t)
           /\ Current => SetCovers(Fetchable, generated, s, Len(generated))
  BY DEF Frontier
<1>2. /\ Len(generated) \in Nat /\ Len(generated') \in Nat /\ Len(generated) <= Len(generated')
      /\ \A E, a, b : Covers(E, generated, a, b) => Covers(E, generated', a, b)
  <2>1. CASE generated' = generated
    BY <2>1, LenProperties DEF Typed
  <2>2. ASSUME NEW c \in Classes, generated' = Append(generated, c)
        PROVE  /\ Len(generated) \in Nat /\ Len(generated') = Len(generated) + 1
               /\ \A E, a, b : Covers(E, generated, a, b) => Covers(E, generated', a, b)
    BY <2>2, LenProperties, AppendProperties, CoversGrow DEF Typed
  <2> QED
    BY <2>1, <2>2
<1>3. s \in 0..Len(generated') /\ t \in 0..Len(generated') /\ Len(generated') \in 0..Len(generated')
  BY <1>2
<1>4. /\ Covers(stored', generated', Len(applied'), s) /\ Len(applied') <= s
      /\ Current' => SetCovers(Fetchable', generated', s, Len(generated'))
  BY <1>1, <1>2
<1>5. \E u \in 0..Len(generated') : s <= u /\ Covers(InboxEvents', generated', s, u)
  <2>1. CASE InboxEvents' = InboxEvents
    BY <2>1, <1>1, <1>2, <1>3
  <2>2. CASE InboxEvents' = << >>
    BY <2>2, <1>3, CoversNothing
  <2>3. CASE /\ Current'
             /\ \A r \in 0..Len(generated') :
                  SetCovers(Fetchable', generated', r, Len(generated')) =>
                  Covers(InboxEvents', generated', r, Len(generated'))
    BY <2>3, <1>3, <1>4
  <2> QED
    BY <2>1, <2>2, <2>3
<1> QED
  BY <1>3, <1>4, <1>5 DEF Frontier

-----------------------------------------------------------------------------
(* Steps that leave the queue and what the tab has of it alone, but may    *)
(* lose a response or the queue.                                           *)

(* Such a step keeps what the server and the tab know of each other and    *)
(* the frontier.                                                           *)
LEMMA QuietStep ==
  ASSUME Inv, stale => stale', UNCHANGED <<applied, stored, generated, last>>,
         Current' => Current /\ Surviving' = Surviving,
         InboxEvents' = InboxEvents \/ InboxEvents' = << >>
  PROVE  KnownInv' /\ Frontier' /\ AppliedInv'
<1>1. KnownInv'
  BY KnownForget DEF Inv, KnownInv
<1>2. Current' => Fetchable' = Fetchable
  BY DEF Fetchable
<1>3. Frontier'
  BY <1>2, FrontierStep DEF Inv
<1>4. AppliedInv'
  BY DEF Inv, AppliedInv
<1> QED
  BY <1>1, <1>3, <1>4

(* The server notices that a connection is closed.                         *)
LEMMA OnConnectionCloseStep ==
  ASSUME Inv, OnConnectionClose
  PROVE  Inv'
<1> USE BoundsAssumption DEF OnConnectionClose, tab, history, Conns, None
<1>1. /\ UNCHANGED <<phase, alive, eq, disk, reqs, inbox, xhr, last, stored, reloading, generated, stale, applied>>
      /\ handler' = handler \/ handler' = None
  OBVIOUS
<1>2. InboxEvents' = InboxEvents /\ (Current' <=> Current) /\ Surviving' = Surviving
  BY <1>1 DEF InboxEvents, Current, QueueSurvives, Surviving
<1>3. Typed' /\ NeverRejected'
  BY <1>1, <1>2 DEF Inv, Typed, NeverRejected
<1>4. ServerInv'
  BY <1>1 DEF Inv, ServerInv
<1>5. RequestsInv'
  <2>1. Held' \subseteq Held
    BY <1>1 DEF Held
  <2> QED
    BY <1>1, <2>1 DEF Inv, RequestsInv, Typed
<1>6. KnownInv' /\ Frontier' /\ AppliedInv'
  BY <1>1, <1>2, QuietStep
<1> QED
  BY <1>3, <1>4, <1>5, <1>6 DEF Inv

(* gc_event_queues removes the queue.                                      *)
LEMMA ExpireStep ==
  ASSUME Inv, Expire
  PROVE  Inv'
<1>1. /\ UNCHANGED <<phase, handler, disk, reqs, inbox, xhr, last, stored, reloading, generated, stale, applied>>
      /\ phase = "up" /\ handler = None /\ alive' = FALSE /\ eq' = NewQueue
  BY DEF Expire, network, tab, history
<1>2. InboxEvents' = InboxEvents /\ ~ Current'
  BY <1>1 DEF InboxEvents, Current, QueueSurvives
<1>3. Typed' /\ NeverRejected'
  BY <1>1, <1>2, NewQueueFacts DEF Inv, Typed, NeverRejected
<1>4. ServerInv'
  BY <1>1, NewQueueFacts DEF Inv, ServerInv
<1>5. RequestsInv'
  <2>1. Held' = Held
    BY <1>1 DEF Held
  <2> QED
    BY <1>1, <2>1 DEF Inv, RequestsInv
<1>6. KnownInv' /\ Frontier' /\ AppliedInv'
  BY <1>1, <1>2, QuietStep
<1> QED
  BY <1>3, <1>4, <1>5, <1>6 DEF Inv

(* dump_event_queues: the file holds the queue as it is.                   *)
LEMMA StopStep ==
  ASSUME Inv, Stop
  PROVE  Inv'
<1>1. /\ UNCHANGED <<alive, eq, handler, reqs, inbox, xhr, last, stored, reloading, generated, stale, applied>>
      /\ phase = "up" /\ phase' = "stopping" /\ disk' = IF alive THEN eq ELSE NoFile
  BY DEF Stop, network, tab, history
<1>2. InboxEvents' = InboxEvents /\ (Current' <=> Current) /\ Surviving' = Surviving
  BY <1>1 DEF InboxEvents, Current, QueueSurvives, Surviving
<1>3. Typed' /\ NeverRejected'
  BY <1>1, <1>2 DEF Inv, Typed, NeverRejected
<1>4. ServerInv'
  <2>1. alive => eq # NoFile
    BY QueueNotNoFile DEF Inv, Typed
  <2> QED
    BY <1>1, <2>1 DEF Inv, ServerInv
<1>5. RequestsInv'
  <2>1. Held' = Held
    BY <1>1 DEF Held
  <2> QED
    BY <1>1, <2>1 DEF Inv, RequestsInv
<1>6. KnownInv' /\ Frontier' /\ AppliedInv'
  BY <1>1, <1>2, QuietStep
<1> QED
  BY <1>3, <1>4, <1>5, <1>6 DEF Inv

(* What the file of a queue holds for the tab is what the queue holds.     *)
LEMMA KnownFile ==
  ASSUME NEW q \in Queues, QueueOK(q), NEW f \in Queues, QueueOK(f),
         NEW l \in Nat \cup {-1}, NEW I, Known(q, l, I), FileOf(q, f),
         f.next_event_id = q.next_event_id, f.virtual_events = q.virtual_events,
         \A e \in HeldEvents(f) : e.id > f.newest_pruned_id
  PROVE  Known(f, l, I) /\ Beyond(f, l) = Beyond(q, l)
<1>1. /\ Virtual(f) = Virtual(q)
      /\ HeldEvents(q) = ToSet(q.queue) \cup Virtual(q)
      /\ HeldEvents(f) = ToSet(f.queue) \cup Virtual(q)
  BY HeldFacts DEF Virtual
<1>2. /\ \A e \in HeldEvents(f) : e.id \in Nat
      /\ q.newest_pruned_id \in Nat \cup {-1} /\ f.newest_pruned_id \in Nat \cup {-1}
  BY IdFacts, QueueFields
<1>3. q.newest_pruned_id <= l
  BY DEF Known
<1>4. \A e \in HeldEvents(f) : e.id > l => e \in HeldEvents(q)
  BY <1>1, <1>2, <1>3 DEF FileOf
<1>5. HeldEvents(q) \subseteq HeldEvents(f)
  BY <1>1 DEF FileOf
<1>6. Beyond(f, l) = Beyond(q, l)
  BY <1>4, <1>5 DEF Beyond
<1>7. f.newest_pruned_id <= l /\ l < f.next_event_id
  BY <1>2, <1>3 DEF FileOf, Known
<1>8. l = f.newest_pruned_id \/ \E e \in ToSet(f.queue) : e.id = l
  BY DEF FileOf, Known
<1>9. \A e \in ToSet(I) : e \in ToSet(f.queue) /\ e.id > l
  BY DEF FileOf, Known
<1>10. \A h \in HeldEvents(f) : h.id > l => h \in ToSet(I) \/ \A e \in ToSet(I) : h.id > e.id
  BY <1>4 DEF Known
<1>11. \A v \in Virtual(f) : v.id > l /\ \A e \in ToSet(I) : v.id > e.id
  BY <1>1 DEF Known
<1> QED
  BY <1>6, <1>7, <1>8, <1>9, <1>10, <1>11 DEF Known

(* A process that stops leaves its queues on disk, as they were when it    *)
(* wrote them; one that crashes leaves nothing.                            *)
LEMMA ProcessGoneStep ==
  ASSUME Inv, DiskInv, IdsInv, Exit \/ Crash
  PROVE  Inv'
<1>1. /\ UNCHANGED <<disk, inbox, xhr, last, stored, reloading, generated, applied>>
      /\ phase \in {"up", "stopping"} /\ phase' = "down" /\ alive' = FALSE /\ eq' = NewQueue
      /\ handler' = None /\ reqs' = {}
      /\ stale => stale'
      /\ phase = "stopping" /\ ~stale' => ~BeyondFile
  BY DEF Exit, Crash, ProcessGone, tab, IdsInv
<1>2. InboxEvents' = InboxEvents
  BY <1>1 DEF InboxEvents
<1>3. Typed' /\ NeverRejected'
  BY <1>1, <1>2, NewQueueFacts DEF Inv, Typed, NeverRejected
<1>4. ServerInv'
  BY <1>1 DEF Inv, ServerInv
<1>5. RequestsInv'
  <2>1. Held' = {}
    BY <1>1 DEF Held
  <2> QED
    BY <1>1, <2>1 DEF Inv, RequestsInv
<1>6. AppliedInv'
  BY <1>1 DEF Inv, AppliedInv
<1>7. CASE ~ Current'
  <2>1. KnownInv'
    BY <1>7 DEF KnownInv
  <2>2. Frontier'
    BY <1>1, <1>2, <1>7, FrontierStep DEF Inv
  <2> QED
    BY <1>3, <1>4, <1>5, <1>6, <2>1, <2>2 DEF Inv
<1>8. CASE Current'
  <2>1. phase = "stopping" /\ disk # NoFile /\ ~ reloading /\ ~ stale /\ ~ stale'
    BY <1>1, <1>8 DEF Inv, ServerInv, Current, QueueSurvives
  <2>2. Current /\ alive /\ Surviving = eq /\ Surviving' = disk
    BY <1>1, <2>1 DEF Inv, ServerInv, Current, QueueSurvives, Surviving
  <2>3. /\ eq.next_event_id = disk.next_event_id /\ eq.virtual_events = disk.virtual_events
    BY <1>1, <2>1, <2>2 DEF BeyondFile
  <2>4. FileOf(eq, disk) /\ \A e \in HeldEvents(disk) : e.id > disk.newest_pruned_id
    BY <2>1, <2>2, <2>3 DEF DiskInv
  <2>5. Known(eq, last, InboxEvents)
    BY <2>2 DEF Inv, KnownInv
  <2>6. eq \in Queues /\ QueueOK(eq) /\ disk \in Queues /\ QueueOK(disk) /\ last \in Nat \cup {-1}
    BY <2>1 DEF Inv, Typed
  <2>7. Known(disk, last, InboxEvents) /\ Beyond(disk, last) = Beyond(eq, last)
    BY <2>3, <2>4, <2>5, <2>6, KnownFile
  <2>8. KnownInv'
    BY <1>1, <1>2, <2>2, <2>7 DEF KnownInv
  <2>9. Fetchable = Beyond(eq, last) /\ Fetchable' = Beyond(disk, last)
    <3>1. Fetchable' = Beyond(Surviving', last')
      BY DEF Fetchable, Beyond
    <3> QED
      BY <1>1, <2>2, <3>1, FetchableBeyond
  <2>10. Frontier'
    BY <1>1, <1>2, <2>2, <2>7, <2>9, FrontierStep DEF Inv
  <2> QED
    BY <1>3, <1>4, <1>5, <1>6, <2>8, <2>10 DEF Inv
<1> QED
  BY <1>7, <1>8

(* get_events sends a request with the tab's last_event_id, on a           *)
(* connection of its own.                                                  *)
LEMMA GetEventsStep ==
  ASSUME Inv, NEW dont_block, get_events(dont_block), UNCHANGED <<server, history>>
  PROVE  Inv'
<1> DEFINE r0 == [conn |-> xhr', last |-> last, dont_block |-> dont_block \/ failing]
<1>1. /\ UNCHANGED <<phase, alive, eq, handler, disk, last, stored, reloading, generated, stale, applied>>
      /\ ~ reloading /\ inbox' = NoResponse
      /\ reqs' = reqs \/ reqs' = reqs \cup {r0}
  BY DEF get_events, server, history
<1>2. r0.conn = xhr' /\ r0.last = last
  OBVIOUS
<1> HIDE DEF r0
<1>3. xhr' \in Conns /\ xhr' \notin Held
  <2>1. FreeConns \subseteq Nat /\ FreeConns # {} /\ xhr' = Min(FreeConns)
    BY BoundsAssumption DEF get_events, FreeConns, Conns
  <2>2. xhr' \in FreeConns
    BY <2>1, HasMin
  <2> QED
    BY <2>2 DEF FreeConns
<1>4. \A r \in reqs : r.conn # xhr'
  <2>1. \A r \in reqs : r.conn # None
    BY BoundsAssumption DEF Inv, Typed, Conns, None
  <2> QED
    BY <1>3, <2>1 DEF Held
<1>5. InboxEvents' = << >> /\ (Current' <=> Current) /\ Surviving' = Surviving
  BY <1>1 DEF InboxEvents, Current, QueueSurvives, Surviving
<1>6. Typed' /\ NeverRejected'
  <2>1. << >> \in Seq(QueuedEvents)
    OBVIOUS
  <2> QED
    BY <1>1, <1>2, <1>3, <1>5, <2>1 DEF Inv, Typed, NeverRejected
<1>7. ServerInv'
  BY <1>1 DEF Inv, ServerInv
<1>8. RequestsInv'
  <2>1. xhr' # handler
    BY <1>3, BoundsAssumption DEF Held, Conns, None
  <2>2. last <= last
    BY DEF Inv, Typed
  <2> QED
    BY <1>1, <1>2, <1>4, <2>1, <2>2 DEF Inv, RequestsInv
<1>9. KnownInv' /\ Frontier' /\ AppliedInv'
  BY <1>1, <1>5, QuietStep
<1> QED
  BY <1>6, <1>7, <1>8, <1>9 DEF Inv

(* The error callback forgets the request, and with it the response.       *)
LEMMA RequestFailsStep ==
  ASSUME Inv, NEW kind, RequestFails(kind)
  PROVE  Inv'
<1>1. /\ UNCHANGED <<phase, alive, eq, handler, disk, reqs, last, stored, reloading, generated, stale, applied>>
      /\ inbox' = NoResponse /\ xhr' = None
  BY DEF RequestFails, server, history
<1>2. InboxEvents' = << >> /\ (Current' <=> Current) /\ Surviving' = Surviving
  BY <1>1 DEF InboxEvents, Current, QueueSurvives, Surviving
<1>3. Typed' /\ NeverRejected'
  <2>1. << >> \in Seq(QueuedEvents)
    OBVIOUS
  <2> QED
    BY <1>1, <1>2, <2>1 DEF Inv, Typed, NeverRejected
<1>4. ServerInv'
  BY <1>1 DEF Inv, ServerInv
<1>5. RequestsInv'
  BY <1>1, BoundsAssumption DEF Inv, RequestsInv, Typed, Conns, None
<1>6. KnownInv' /\ Frontier' /\ AppliedInv'
  BY <1>1, <1>2, QuietStep
<1> QED
  BY <1>3, <1>4, <1>5, <1>6 DEF Inv

(* The tab learns that its queue is gone, and reloads.                     *)
LEMMA DeliverBadEventQueueIdStep ==
  ASSUME Inv, DeliverBadEventQueueId
  PROVE  Inv'
<1>1. /\ UNCHANGED <<phase, alive, eq, handler, disk, reqs, last, stored, generated, stale, applied>>
      /\ inbox' = NoResponse /\ xhr' = None /\ reloading' = TRUE
  BY DEF DeliverBadEventQueueId, Delivered, server, history
<1>2. InboxEvents' = << >> /\ ~ Current'
  BY <1>1 DEF InboxEvents, Current
<1>3. Typed' /\ NeverRejected'
  <2>1. << >> \in Seq(QueuedEvents)
    OBVIOUS
  <2> QED
    BY <1>1, <1>2, <2>1 DEF Inv, Typed, NeverRejected
<1>4. ServerInv'
  BY <1>1 DEF Inv, ServerInv
<1>5. RequestsInv'
  BY <1>1, BoundsAssumption DEF Inv, RequestsInv, Typed, Conns, None
<1>6. KnownInv' /\ Frontier' /\ AppliedInv'
  BY <1>1, <1>2, QuietStep
<1> QED
  BY <1>3, <1>4, <1>5, <1>6 DEF Inv

-----------------------------------------------------------------------------
(* Steps of the server that change the queue. *)

(* An event is pushed; the connection that waits, if any, gets it at once. *)
LEMMA AddEventStep ==
  ASSUME Inv, NEW event, AddEvent(event), phase # "down", alive,
         UNCHANGED <<phase, alive, disk, reqs, xhr, last, stored, reloading, stale, applied>>,
         generated' = generated \/ \E c \in Classes : generated' = Append(generated, c),
         LET p == push(eq, event)
         IN  /\ p \in Queues /\ QueueOK(p)
             /\ Current =>
                  /\ HeldEvents(eq) = {} => HeldEvents(p) = Beyond(p, last)
                  /\ \A I : Known(eq, last, I) =>
                       /\ Known(p, last, I)
                       /\ \A s \in 0..Len(generated) :
                            SetCovers(Beyond(eq, last), generated, s, Len(generated)) =>
                            SetCovers(Beyond(p, last), generated', s, Len(generated'))
  PROVE  Inv'
<1> DEFINE p == push(eq, event)
<1>1. p \in Queues /\ QueueOK(p)
  OBVIOUS
<1>2. /\ AfterContents(p) \in Queues /\ QueueOK(AfterContents(p))
      /\ HeldEvents(AfterContents(p)) = HeldEvents(p)
      /\ \A l : Beyond(AfterContents(p), l) = Beyond(p, l)
      /\ \A l, I : Known(p, l, I) => Known(AfterContents(p), l, I)
  BY <1>1, KnownContents
<1>3. Surviving = eq /\ Surviving' = eq' /\ (Current <=> ~ reloading /\ ~ stale) /\ (Current' <=> Current)
  BY DEF Surviving, Current, QueueSurvives
<1>4. Current => /\ HeldEvents(eq) = {} => HeldEvents(p) = Beyond(p, last)
                 /\ \A I : Known(eq, last, I) =>
                      /\ Known(p, last, I)
                      /\ \A s \in 0..Len(generated) :
                           SetCovers(Beyond(eq, last), generated, s, Len(generated)) =>
                           SetCovers(Beyond(p, last), generated', s, Len(generated'))
  OBVIOUS
<1>5. \/ handler = None /\ eq' = p /\ UNCHANGED <<handler, inbox>>
      \/ /\ handler # None /\ eq' = AfterContents(p) /\ handler' = None
         /\ inbox' = IF handler = xhr THEN Response("success", contents(p)) ELSE inbox
  BY DEF AddEvent, Respond
<1> HIDE DEF p
<1>6. eq' \in Queues /\ QueueOK(eq') /\ Beyond(eq', last) = Beyond(p, last)
  BY <1>1, <1>2, <1>5
<1>7. /\ Current => Known(eq, last, InboxEvents)
      /\ Fetchable = Beyond(eq, last) /\ Fetchable' = Beyond(eq', last)
  <2>1. Fetchable' = Beyond(Surviving', last')
    BY DEF Fetchable, Beyond
  <2> QED
    BY <1>3, <2>1, FetchableBeyond DEF Inv, KnownInv
<1>8. Current => \A s \in 0..Len(generated) :
        SetCovers(Fetchable, generated, s, Len(generated)) =>
        SetCovers(Fetchable', generated', s, Len(generated'))
  BY <1>4, <1>6, <1>7
<1>9. generated' \in Seq(Classes)
  <2>1. generated \in Seq(Classes)
    BY DEF Inv, Typed
  <2>2. CASE generated' = generated
    BY <2>1, <2>2
  <2>3. ASSUME NEW c \in Classes, generated' = Append(generated, c) PROVE generated' \in Seq(Classes)
    BY <2>1, <2>3, AppendProperties
  <2> QED
    BY <2>2, <2>3
<1>10. ServerInv' /\ RequestsInv'
  <2>1. ServerInv'
    <3>1. handler' = None
      BY <1>5
    <3> QED
      BY <3>1 DEF Inv, ServerInv
  <2>2. Held' \subseteq Held
    BY <1>5 DEF Held
  <2>4. handler # None /\ handler' = None => handler \notin Held'
    BY DEF Held, Inv, RequestsInv
  <2>5. \A r \in reqs : r.conn # None
    BY BoundsAssumption DEF Inv, Typed, Conns, None
  <2> QED
    BY <1>5, <2>1, <2>2, <2>4, <2>5 DEF Inv, RequestsInv
<1>11. CASE inbox' = inbox
  <2>1. InboxEvents' = InboxEvents
    BY <1>11 DEF InboxEvents
  <2>2. KnownInv'
    BY <1>2, <1>3, <1>4, <1>5, <1>7, <2>1 DEF KnownInv
  <2>3. Frontier'
    BY <1>3, <1>8, <2>1, FrontierStep DEF Inv
  <2>4. Typed' /\ AppliedInv' /\ NeverRejected'
    BY <1>6, <1>9, <1>11, <2>1 DEF Inv, Typed, AppliedInv, NeverRejected
  <2> QED
    BY <1>10, <2>2, <2>3, <2>4 DEF Inv
<1>12. CASE inbox' # inbox /\ ~ stale
  <2>1. /\ handler = xhr /\ handler # None /\ eq' = AfterContents(p)
        /\ inbox' = Response("success", contents(p))
    BY <1>5, <1>12
  <2>2. InboxEvents' = contents(p) /\ inbox'.result = "success"
    BY <2>1, ResponseFacts DEF InboxEvents
  <2>3. Current /\ HeldEvents(eq) = {} /\ InboxEvents = << >>
    BY <2>1, <1>3, <1>12 DEF Inv, RequestsInv, ServerInv, Held, InboxEvents
  <2>4. Known(p, last, << >>) /\ HeldEvents(p) = Beyond(p, last)
    BY <1>4, <1>7, <2>3
  <2>5. /\ contents(p) \in Seq(QueuedEvents)
        /\ Known(AfterContents(p), last, contents(p))
        /\ \A g, a, b : SetCovers(Beyond(p, last), g, a, b) => Covers(contents(p), g, a, b)
    BY <1>1, <2>4, KnownAnswer
  <2>6. KnownInv'
    BY <1>3, <2>1, <2>2, <2>5 DEF KnownInv
  <2>7. \A s \in 0..Len(generated') :
          SetCovers(Fetchable', generated', s, Len(generated')) =>
          Covers(InboxEvents', generated', s, Len(generated'))
    BY <1>6, <1>7, <2>2, <2>5
  <2>8. Frontier'
    BY <1>3, <1>8, <2>3, <2>7, FrontierStep DEF Inv
  <2>9. Typed' /\ AppliedInv' /\ NeverRejected'
    BY <1>6, <1>9, <2>2, <2>5 DEF Inv, Typed, AppliedInv, NeverRejected
  <2> QED
    BY <1>10, <2>6, <2>8, <2>9 DEF Inv
<1>13. CASE inbox' # inbox /\ stale
  <2>1. inbox' = Response("success", contents(p))
    BY <1>5, <1>13
  <2>2. InboxEvents' = contents(p)
    BY <2>1, ResponseFacts DEF InboxEvents
  <2>3. contents(p) \in Seq(QueuedEvents)
    BY <1>1, <1>2, AfterContentsFacts, QueueFields
  <2>4. ~ Current' /\ stale'
    BY <1>3, <1>13
  <2>5. KnownInv' /\ Frontier' /\ AppliedInv' /\ NeverRejected'
    BY <2>4 DEF KnownInv, Frontier, AppliedInv, NeverRejected
  <2>6. Typed'
    BY <1>6, <1>9, <2>2, <2>3 DEF Inv, Typed
  <2> QED
    BY <1>10, <2>5, <2>6 DEF Inv
<1> QED
  BY <1>11, <1>12, <1>13

(* process_event pushes the next event of the stream, if the queue is      *)
(* still there.                                                            *)
LEMMA GenerateStep ==
  ASSUME Inv, NEW c \in Classes, Generate(c)
  PROVE  Inv'
<1> DEFINE n == Len(generated) + 1
<1>1. /\ UNCHANGED <<phase, alive, disk, reqs, xhr, last, stored, reloading, stale, applied>>
      /\ phase # "down" /\ generated' = Append(generated, c)
      /\ IF alive THEN AddEvent(Event(c, n)) ELSE UNCHANGED <<eq, handler, inbox>>
  BY DEF Generate, tab
<1>2. generated \in Seq(Classes) /\ Len(generated') = n /\ generated' \in Seq(Classes)
  BY <1>1, AppendProperties DEF Inv, Typed
<1>3. CASE alive
  <2> DEFINE p == push(eq, Event(c, n))
  <2>1. eq \in Queues /\ QueueOK(eq) /\ last \in Nat \cup {-1} /\ -1 < eq.next_event_id
    BY QueueFields DEF Inv, Typed
  <2>2. p \in Queues /\ QueueOK(p)
    BY <1>2, <2>1, PushClass
  <2>3. ASSUME Current
        PROVE  /\ HeldEvents(eq) = {} => HeldEvents(p) = Beyond(p, last)
               /\ \A I : Known(eq, last, I) =>
                    /\ Known(p, last, I)
                    /\ \A s \in 0..Len(generated) :
                         SetCovers(Beyond(eq, last), generated, s, Len(generated)) =>
                         SetCovers(Beyond(p, last), generated', s, Len(generated'))
    <3>1. last < eq.next_event_id
      BY <1>1, <2>3 DEF Inv, KnownInv, Known, Surviving
    <3>2. /\ HeldEvents(eq) = {} => HeldEvents(p) = Beyond(p, last)
          /\ \A I : Known(eq, last, I) =>
               /\ Known(p, last, I)
               /\ \A s \in 0..Len(generated) :
                    SetCovers(Beyond(eq, last), generated, s, Len(generated)) =>
                    SetCovers(Beyond(p, last), Append(generated, c), s, n)
      BY <1>2, <2>1, <3>1, PushClass
    <3> HIDE DEF p, n
    <3> QED
      BY <1>1, <1>2, <3>2
  <2>4. AddEvent(Event(c, n))
    BY <1>1, <1>3
  <2>5. generated' = generated \/ \E d \in Classes : generated' = Append(generated, d)
    BY <1>1
  <2>6. phase # "down" /\ UNCHANGED <<phase, alive, disk, reqs, xhr, last, stored, reloading, stale, applied>>
    BY <1>1
  <2> HIDE DEF n
  <2> QED
    BY <1>3, <2>2, <2>3, <2>4, <2>5, <2>6, AddEventStep
<1>4. CASE ~ alive
  <2>1. UNCHANGED <<phase, alive, eq, handler, disk, reqs, inbox, xhr, last, stored, reloading, stale, applied>>
    BY <1>1, <1>4
  <2>2. InboxEvents' = InboxEvents /\ ~ Current'
    BY <1>1, <1>4, <2>1 DEF InboxEvents, Current, QueueSurvives
  <2>3. Typed' /\ NeverRejected'
    BY <1>2, <2>1, <2>2 DEF Inv, Typed, NeverRejected
  <2>4. ServerInv'
    BY <2>1 DEF Inv, ServerInv
  <2>5. RequestsInv'
    <3>1. Held' = Held
      BY <2>1 DEF Held
    <3> QED
      BY <2>1, <3>1 DEF Inv, RequestsInv
  <2>6. KnownInv' /\ AppliedInv'
    BY <2>1, <2>2 DEF Inv, KnownInv, AppliedInv
  <2>7. Frontier'
    BY <1>1, <2>1, <2>2, FrontierStep DEF Inv
  <2> QED
    BY <2>3, <2>4, <2>5, <2>6, <2>7 DEF Inv
<1> QED
  BY <1>3, <1>4

(* The heartbeat of a waiting connection is an event without messages.     *)
LEMMA HeartbeatStep ==
  ASSUME Inv, Heartbeat
  PROVE  Inv'
<1> DEFINE event == SystemEvent("heartbeat")
           p == push(eq, event)
<1>1. /\ UNCHANGED <<phase, alive, disk, reqs, xhr, last, stored, reloading, stale, applied>>
      /\ phase # "down" /\ handler # None /\ generated' = generated /\ AddEvent(event)
  BY DEF Heartbeat, tab, history
<1>2. alive
  BY <1>1 DEF Inv, ServerInv
<1>3. /\ eq \in Queues /\ QueueOK(eq) /\ last \in Nat \cup {-1} /\ -1 < eq.next_event_id
      /\ "heartbeat" \in {"heartbeat", "restart"}
  BY QueueFields DEF Inv, Typed
<1>4. p \in Queues /\ QueueOK(p)
  BY <1>3, PushSystem
<1>5. ASSUME Current
      PROVE  /\ HeldEvents(eq) = {} => HeldEvents(p) = Beyond(p, last)
             /\ \A I : Known(eq, last, I) =>
                  /\ Known(p, last, I)
                  /\ \A s \in 0..Len(generated) :
                       SetCovers(Beyond(eq, last), generated, s, Len(generated)) =>
                       SetCovers(Beyond(p, last), generated', s, Len(generated'))
  <2>1. last < eq.next_event_id
    BY <1>1, <1>5 DEF Inv, KnownInv, Known, Surviving
  <2>2. /\ HeldEvents(eq) = {} => HeldEvents(p) = Beyond(p, last)
        /\ \A I : Known(eq, last, I) => Known(p, last, I)
        /\ \A g, a, b : SetCovers(Beyond(eq, last), g, a, b) => SetCovers(Beyond(p, last), g, a, b)
    BY <1>3, <2>1, PushSystem
  <2> HIDE DEF p
  <2> QED
    BY <1>1, <2>2
<1> HIDE DEF event
<1> QED
  BY <1>1, <1>2, <1>4, <1>5, AddEventStep

(* The queues are loaded, and each gets a restart event.                   *)
LEMMA StartStep ==
  ASSUME Inv, Start
  PROVE  Inv'
<1> DEFINE event == SystemEvent("restart")
           p == push(disk, event)
<1>1. /\ UNCHANGED <<handler, reqs, inbox, xhr, last, stored, reloading, generated, stale, applied>>
      /\ phase = "down" /\ phase' = "up" /\ alive' = (disk # NoFile) /\ disk' = NoFile
      /\ eq' = IF disk # NoFile THEN p ELSE NewQueue
  BY DEF Start, network, tab, history
<1>2. InboxEvents' = InboxEvents /\ handler = None
  BY <1>1 DEF InboxEvents, Inv, ServerInv
<1>3. RequestsInv'
  <2>1. Held' = Held
    BY <1>1 DEF Held
  <2> QED
    BY <1>1, <2>1 DEF Inv, RequestsInv
<1>4. AppliedInv' /\ NeverRejected'
  BY <1>1 DEF Inv, AppliedInv, NeverRejected
<1>5. CASE disk = NoFile
  <2>1. ~ Current'
    BY <1>1, <1>5 DEF Current, QueueSurvives
  <2>2. Typed' /\ ServerInv'
    BY <1>1, <1>2, <1>5, NewQueueFacts DEF Inv, Typed, ServerInv
  <2>3. KnownInv' /\ Frontier'
    BY <1>1, <1>2, <2>1, FrontierStep DEF Inv, KnownInv
  <2> QED
    BY <1>3, <1>4, <2>2, <2>3 DEF Inv
<1>6. CASE disk # NoFile
  <2>1. /\ disk \in Queues /\ QueueOK(disk) /\ last \in Nat \cup {-1} /\ -1 < disk.next_event_id
        /\ "restart" \in {"heartbeat", "restart"}
    BY <1>6, QueueFields DEF Inv, Typed
  <2>2. p \in Queues /\ QueueOK(p)
    BY <2>1, PushSystem
  <2>3. ASSUME last < disk.next_event_id
        PROVE  /\ \A I : Known(disk, last, I) => Known(p, last, I)
               /\ \A g, a, b : SetCovers(Beyond(disk, last), g, a, b) => SetCovers(Beyond(p, last), g, a, b)
    BY <2>1, <2>3, PushSystem
  <2> HIDE DEF p
  <2>4. /\ eq' = p /\ Surviving = disk /\ Surviving' = p /\ (Current' <=> Current)
        /\ alive' /\ phase' = "up"
    BY <1>1, <1>6 DEF Surviving, Current, QueueSurvives
  <2>5. Typed' /\ ServerInv'
    BY <1>1, <1>2, <2>2, <2>4 DEF Inv, Typed, ServerInv
  <2>6. Current => Known(disk, last, InboxEvents) /\ last < disk.next_event_id
    BY <2>4 DEF Inv, KnownInv, Known
  <2>7. KnownInv'
    BY <1>1, <1>2, <2>3, <2>4, <2>6 DEF KnownInv
  <2>8. Fetchable = Beyond(disk, last) /\ Fetchable' = Beyond(p, last)
    <3>1. Fetchable' = Beyond(Surviving', last')
      BY DEF Fetchable, Beyond
    <3> QED
      BY <1>1, <2>4, <3>1, FetchableBeyond
  <2>9. Frontier'
    BY <1>1, <1>2, <2>3, <2>4, <2>6, <2>8, FrontierStep DEF Inv
  <2> QED
    BY <1>3, <1>4, <2>5, <2>7, <2>9 DEF Inv
<1> QED
  BY <1>5, <1>6

(* A request is answered, waits, or is told that its queue is gone.        *)
LEMMA FetchEventsStep ==
  ASSUME Inv, FetchEvents
  PROVE  Inv'
<1>1. PICK req \in reqs :
         /\ reqs' = reqs \ {req}
         /\ BadEventQueueId(req) \/ Rejected(req) \/ Accepted(req)
  BY DEF FetchEvents
<1>2. /\ phase # "down"
      /\ UNCHANGED <<phase, alive, disk, xhr, last, stored, reloading, generated, stale, applied>>
  BY DEF FetchEvents, tab, history
<1>3. /\ eq \in Queues /\ QueueOK(eq) /\ last \in Nat \cup {-1}
      /\ req.conn \in Conns /\ req.conn # None /\ req.last \in Nat \cup {-1}
      /\ req.conn # handler /\ req.last <= last /\ (req.conn = xhr => req.last = last)
      /\ \A r \in reqs \ {req} : r.conn # req.conn /\ r.conn # None
      /\ req.conn \in Held
  <2>1. \A r \in reqs : r.conn # None
    BY BoundsAssumption DEF Inv, Typed, Conns, None
  <2>2. req.conn \in Held
    BY <2>1 DEF Held
  <2> QED
    BY <1>1, <1>2, <2>1, <2>2 DEF Inv, Typed, RequestsInv, ServerInv
<1>4. /\ Surviving = eq /\ Surviving' = eq'
      /\ (Current <=> alive /\ ~ reloading /\ ~ stale) /\ (Current' <=> Current)
      /\ Fetchable = Beyond(eq, last) /\ Fetchable' = Beyond(eq', last)
  BY <1>2 DEF Surviving, Current, QueueSurvives, Fetchable, Beyond
<1>5. AppliedInv'
  BY <1>2 DEF Inv, AppliedInv
<1>6. CASE BadEventQueueId(req)
  <2>1. ~ alive /\ UNCHANGED <<eq, handler>> /\ ~ Current'
    BY <1>4, <1>6 DEF BadEventQueueId
  <2>2. \/ inbox' = inbox /\ InboxEvents' = InboxEvents
        \/ /\ req.conn = xhr /\ InboxEvents' = << >>
           /\ inbox' # NoResponse /\ inbox'.result = "bad_event_queue_id"
    BY <1>6, ResponseFacts DEF BadEventQueueId, Respond, InboxEvents
  <2>3. Typed' /\ NeverRejected'
    <3>1. << >> \in Seq(QueuedEvents)
      OBVIOUS
    <3> QED
      BY <1>1, <1>2, <2>1, <2>2, <3>1 DEF Inv, Typed, NeverRejected
  <2>4. ServerInv'
    BY <1>2, <2>1 DEF Inv, ServerInv
  <2>5. Held' \subseteq Held /\ req.conn \notin Held'
    BY <1>1, <1>3, <2>1 DEF Held
  <2>6. RequestsInv'
    BY <1>1, <1>2, <1>3, <2>1, <2>2, <2>5 DEF Inv, RequestsInv
  <2>7. KnownInv' /\ Frontier'
    BY <1>2, <2>1, <2>2, FrontierStep DEF Inv, KnownInv
  <2> QED
    BY <1>5, <2>3, <2>4, <2>6, <2>7 DEF Inv
<1>7. CASE Rejected(req)
  <2> DEFINE p == prune(eq, req.last)
  <2>1. /\ p \in Queues /\ QueueOK(p)
        /\ ToSet(p.queue) \subseteq ToSet(eq.queue) /\ Virtual(p) = Virtual(eq)
    <3>1. req.last \in Int
      BY <1>3
    <3>2. ToSet(p.queue) = {e \in ToSet(eq.queue) : e.id > req.last}
      BY <1>3, <3>1, PruneFacts
    <3>3. p \in Queues /\ QueueOK(p) /\ Virtual(p) = Virtual(eq)
      BY <1>3, <3>1, PruneFacts
    <3> HIDE DEF p
    <3> QED
      BY <3>2, <3>3
  <2>2. ASSUME Current
        PROVE  /\ Known(p, last, InboxEvents)
               /\ Beyond(p, last) = Beyond(eq, last)
               /\ req.last = last => p.newest_pruned_id = last
    <3>1. Known(eq, last, InboxEvents)
      BY <1>4, <2>2 DEF Inv, KnownInv
    <3> QED
      BY <1>3, <3>1, KnownPrune
  <2>3. /\ alive /\ handler' = handler
        /\ eq' = eq \/ eq' = p
        /\ req.last >= eq.newest_pruned_id => eq' = p /\ req.last # p.newest_pruned_id
        /\ inbox' = IF req.conn = xhr THEN Response("error", << >>) ELSE inbox
    <3>1. req.last < eq.newest_pruned_id \/ req.last >= eq.newest_pruned_id
      BY <1>3, QueueFields
    <3> QED
      BY <1>3, <3>1, <1>7, QueueFields DEF Rejected, Respond
  <2> HIDE DEF p
  <2>4. \/ inbox' = inbox /\ InboxEvents' = InboxEvents
        \/ stale /\ req.conn = xhr /\ inbox' # NoResponse /\ InboxEvents' = << >>
    <3>1. ASSUME req.conn = xhr, ~ stale PROVE FALSE
      <4>1. Current
        BY <1>3, <1>4, <2>3, <3>1 DEF Inv, RequestsInv
      <4>2. req.last = last /\ eq.newest_pruned_id <= last
        BY <1>3, <1>4, <3>1, <4>1 DEF Inv, KnownInv, Known
      <4>3. eq.newest_pruned_id \in Int
        BY <1>3, QueueFields
      <4> QED
        BY <1>3, <2>2, <2>3, <4>1, <4>2, <4>3
    <3>2. CASE req.conn # xhr
      BY <2>3, <3>2 DEF InboxEvents
    <3>3. CASE req.conn = xhr
      BY <2>3, <3>1, <3>3, ResponseFacts DEF InboxEvents
    <3> QED
      BY <3>2, <3>3
  <2>5. HeldEvents(eq) = {} => HeldEvents(eq') = {}
    <3>1. HeldEvents(p) \subseteq HeldEvents(eq)
      BY <1>3, <2>1, HeldFacts
    <3> QED
      BY <2>3, <3>1
  <2>6. Typed' /\ NeverRejected'
    <3>1. << >> \in Seq(QueuedEvents)
      OBVIOUS
    <3> QED
      BY <1>1, <1>2, <1>3, <2>1, <2>3, <2>4, <3>1 DEF Inv, Typed, NeverRejected
  <2>7. ServerInv'
    BY <1>2, <1>3, <2>3, <2>5 DEF Inv, ServerInv
  <2>8. Held' \subseteq Held /\ req.conn \notin Held'
    BY <1>1, <1>3, <2>3 DEF Held
  <2>9. RequestsInv'
    BY <1>1, <1>2, <1>3, <2>3, <2>4, <2>8 DEF Inv, RequestsInv
  <2>10. Current => Known(eq', last, InboxEvents) /\ Beyond(eq', last) = Beyond(eq, last)
    BY <1>4, <2>2, <2>3 DEF Inv, KnownInv
  <2>11. KnownInv' /\ Frontier'
    <3>1. KnownInv'
      BY <1>2, <1>4, <2>4, <2>10 DEF KnownInv
    <3>2. Current' => Current /\ Fetchable' = Fetchable
      BY <1>4, <2>10
    <3> QED
      BY <1>2, <2>4, <3>1, <3>2, FrontierStep DEF Inv
  <2> QED
    BY <1>5, <2>6, <2>7, <2>9, <2>11 DEF Inv
<1>8. CASE Accepted(req)
  <2> DEFINE p == prune(eq, req.last)
             immediate == contents(p) # << >> \/ req.dont_block
             answered == xhr # None /\ (xhr = handler \/ (xhr = req.conn /\ immediate))
  <2>1. /\ p \in Queues /\ QueueOK(p)
        /\ ToSet(p.queue) \subseteq ToSet(eq.queue) /\ Virtual(p) = Virtual(eq)
    <3>1. req.last \in Int
      BY <1>3
    <3>2. ToSet(p.queue) = {e \in ToSet(eq.queue) : e.id > req.last}
      BY <1>3, <3>1, PruneFacts
    <3>3. p \in Queues /\ QueueOK(p) /\ Virtual(p) = Virtual(eq)
      BY <1>3, <3>1, PruneFacts
    <3> HIDE DEF p
    <3> QED
      BY <3>2, <3>3
  <2>2. ASSUME Current
        PROVE  /\ Known(p, last, InboxEvents)
               /\ Beyond(p, last) = Beyond(eq, last)
               /\ req.last = last => HeldEvents(p) = Beyond(p, last)
    <3>1. Known(eq, last, InboxEvents)
      BY <1>4, <2>2 DEF Inv, KnownInv
    <3> QED
      BY <1>3, <3>1, KnownPrune
  <2>3. HeldEvents(p) \subseteq HeldEvents(eq)
    <3> HIDE DEF p
    <3> QED
      BY <1>3, <2>1, HeldFacts
  <2>4. /\ alive
        /\ eq' = IF handler # None \/ immediate THEN AfterContents(p) ELSE p
        /\ inbox' = IF answered THEN Response("success", contents(p)) ELSE inbox
        /\ handler' = IF immediate THEN None ELSE req.conn
    BY <1>8 DEF Accepted
  <2>5. ~ immediate => HeldEvents(p) = {}
    <3>1. /\ IsFiniteSet(HeldEvents(p)) /\ DistinctIds(HeldEvents(p))
          /\ \A e \in HeldEvents(p) : e.id \in Nat
      BY <2>1, HeldFacts, IdFacts
    <3> HIDE DEF p
    <3> QED
      BY <3>1, ContentsFacts
  <2>6. /\ handler' # None => HeldEvents(p) = {} /\ handler' = req.conn
        /\ answered => /\ xhr \in Held /\ xhr # None
                       /\ xhr # handler' /\ eq' = AfterContents(p)
                       /\ req.conn = xhr \/ HeldEvents(eq) = {}
    <3>1. handler' # None => HeldEvents(p) = {} /\ handler' = req.conn
      BY <2>4, <2>5
    <3>2. handler # None => HeldEvents(eq) = {}
      BY DEF Inv, ServerInv
    <3>3. ASSUME answered
          PROVE  /\ xhr \in Held /\ xhr # None
                 /\ xhr # handler' /\ eq' = AfterContents(p)
                 /\ req.conn = xhr \/ HeldEvents(eq) = {}
      BY <1>3, <2>4, <3>2, <3>3 DEF Held
    <3> HIDE DEF p, answered
    <3> QED
      BY <3>1, <3>3
  <2>7. answered => inbox' = Response("success", contents(p))
    BY <2>4
  <2>8. ~ answered => inbox' = inbox
    BY <2>4
  <2>9. eq' = p \/ eq' = AfterContents(p)
    BY <2>4
  <2>10. handler' = None \/ handler' = req.conn
    BY <2>4
  <2>11. answered => \A r \in reqs \ {req} : r.conn # xhr
    BY <1>3 DEF Inv, RequestsInv
  <2> HIDE DEF p, immediate, answered
  <2>12. /\ AfterContents(p) \in Queues /\ QueueOK(AfterContents(p))
         /\ HeldEvents(AfterContents(p)) = HeldEvents(p)
         /\ \A l : Beyond(AfterContents(p), l) = Beyond(p, l)
         /\ \A l, I : Known(p, l, I) => Known(AfterContents(p), l, I)
    BY <2>1, KnownContents
  <2>13. /\ eq' \in Queues /\ QueueOK(eq') /\ HeldEvents(eq') = HeldEvents(p)
         /\ Beyond(eq', last) = Beyond(p, last)
         /\ \A I : Known(p, last, I) => Known(eq', last, I)
    BY <2>1, <2>9, <2>12
  <2>14. ServerInv'
    BY <1>2, <1>3, <2>4, <2>6, <2>13 DEF Inv, ServerInv
  <2>15. Held' \subseteq Held
    BY <1>1, <1>3, <2>10 DEF Held
  <2>16. answered => xhr \notin Held'
    BY <1>1, <2>6, <2>11 DEF Held
  <2>17. inbox' # NoResponse => xhr # None /\ xhr \notin Held'
    BY <2>6, <2>8, <2>15, <2>16 DEF Inv, RequestsInv
  <2>18. RequestsInv'
    BY <1>1, <1>2, <1>3, <2>10, <2>17 DEF Inv, RequestsInv
  <2>19. Current' => /\ Current
                     /\ \A s \in 0..Len(generated) :
                          SetCovers(Fetchable, generated, s, Len(generated)) =>
                          SetCovers(Fetchable', generated', s, Len(generated'))
    BY <1>2, <1>4, <2>2, <2>13
  <2>20. CASE ~ answered
    <3>1. inbox' = inbox /\ InboxEvents' = InboxEvents
      BY <2>8, <2>20 DEF InboxEvents
    <3>2. Typed' /\ NeverRejected'
      BY <1>1, <1>2, <1>3, <2>13, <3>1 DEF Inv, Typed, NeverRejected
    <3>3. KnownInv'
      BY <1>2, <1>4, <2>2, <2>13, <3>1 DEF KnownInv
    <3>4. Frontier'
      BY <1>2, <2>19, <3>1, FrontierStep DEF Inv
    <3> QED
      BY <1>5, <2>14, <2>18, <3>2, <3>3, <3>4 DEF Inv
  <2>21. CASE answered /\ ~ stale
    <3>1. InboxEvents' = contents(p) /\ inbox'.result = "success"
      BY <2>7, <2>21, ResponseFacts DEF InboxEvents
    <3>2. Current
      BY <1>4, <2>4, <2>6, <2>21 DEF Inv, RequestsInv
    <3>3. HeldEvents(p) = Beyond(p, last)
      <4>1. CASE req.conn = xhr
        BY <1>3, <2>2, <3>2, <4>1
      <4>2. CASE HeldEvents(eq) = {}
        BY <2>3, <4>2 DEF Beyond
      <4> QED
        BY <2>6, <2>21, <4>1, <4>2
    <3>4. Known(p, last, << >>)
      BY <2>2, <3>2, KnownForget
    <3>5. /\ contents(p) \in Seq(QueuedEvents)
          /\ Known(AfterContents(p), last, contents(p))
          /\ \A g, a, b : SetCovers(Beyond(p, last), g, a, b) => Covers(contents(p), g, a, b)
      BY <2>1, <3>3, <3>4, KnownAnswer
    <3>6. Typed' /\ NeverRejected'
      BY <1>1, <1>2, <1>3, <2>13, <3>1, <3>5 DEF Inv, Typed, NeverRejected
    <3>7. KnownInv'
      BY <1>2, <1>4, <2>6, <2>21, <3>1, <3>5 DEF KnownInv
    <3>8. \A s \in 0..Len(generated') :
            SetCovers(Fetchable', generated', s, Len(generated')) =>
            Covers(InboxEvents', generated', s, Len(generated'))
      BY <1>4, <2>13, <3>1, <3>5
    <3>9. Frontier'
      BY <1>2, <1>4, <2>19, <3>2, <3>8, FrontierStep DEF Inv
    <3> QED
      BY <1>5, <2>14, <2>18, <3>6, <3>7, <3>9 DEF Inv
  <2>22. CASE answered /\ stale
    <3>1. InboxEvents' = contents(p)
      BY <2>7, <2>22, ResponseFacts DEF InboxEvents
    <3>2. contents(p) \in Seq(QueuedEvents)
      BY <2>1, <2>12, AfterContentsFacts, QueueFields
    <3>3. ~ Current' /\ stale'
      BY <1>2, <1>4, <2>22
    <3>4. KnownInv' /\ Frontier' /\ NeverRejected'
      BY <3>3 DEF KnownInv, Frontier, NeverRejected
    <3>5. Typed'
      BY <1>1, <1>2, <1>3, <2>13, <3>1, <3>2 DEF Inv, Typed
    <3> QED
      BY <1>5, <2>14, <2>18, <3>4, <3>5 DEF Inv
  <2> QED
    BY <2>20, <2>21, <2>22
<1> QED
  BY <1>1, <1>6, <1>7, <1>8

-----------------------------------------------------------------------------
(* Steps of the tab that apply events. *)

Seen == IF stale THEN << >> ELSE applied

StreamStep == Stream!Next \/ UNCHANGED <<generated, message_ids, Seen, stale>>

(* A step that applies no events is none of the stream.                    *)
LEMMA NoStreamStep ==
  ASSUME UNCHANGED <<generated, message_ids, applied, stale>>
  PROVE  StreamStep
BY DEF StreamStep, Seen

(* What the tab dispatches are the next events of the stream.              *)
LEMMA AppliedStep ==
  ASSUME generated \in Seq(Classes), IdsInv, AppliedInv, ~ stale,
         UNCHANGED <<generated, message_ids, stale>>,
         NEW E, DOMAIN E \subseteq Nat, NEW to \in 0..Len(generated), Len(applied) <= to,
         Covers(E, generated, Len(applied), to),
         applied' = applied \o Dispatch(E)
  PROVE  /\ Len(applied') = to
         /\ AppliedInv' /\ StreamStep
<1> DEFINE D == Dispatch(E)
           n == Len(applied)
<1>0. /\ applied \in Seq(Nat) /\ ToSet(applied) = 1..Len(applied)
      /\ \A i, j \in DOMAIN applied : applied[i] = applied[j] => i = j
  BY DEF AppliedInv
<1>1. n \in Nat /\ to \in Nat /\ n <= to /\ to <= Len(generated)
  BY <1>0, LenProperties
<1>2. /\ D \in Seq(Nat) /\ Len(D) = to - n /\ ToSet(D) = (n + 1)..to
      /\ \A j, k \in DOMAIN D : D[j] = D[k] => j = k
      /\ D \in Stream!Arrangements(n + 1, to)
  <2> HIDE DEF n
  <2> QED
    BY <1>1, DispatchFacts DEF n
<1>3. applied' = applied \o D
  OBVIOUS
<1> HIDE DEF D
<1>4. /\ applied' \in Seq(Nat) /\ Len(applied') = n + (to - n)
      /\ \A i \in 1..(n + (to - n)) : applied'[i] = IF i <= n THEN applied[i] ELSE D[i - n]
  BY <1>0, <1>2, <1>3, ConcatProperties
<1>5. Len(applied') = to /\ DOMAIN applied' = 1..to /\ DOMAIN applied = 1..n /\ DOMAIN D = 1..(to - n)
  BY <1>0, <1>1, <1>2, <1>4, LenProperties
<1> HIDE DEF n
<1>6. \A i \in 1..n : applied'[i] = applied[i] /\ i \in 1..to
  BY <1>1, <1>4
<1>7. \A i \in (n + 1)..to : applied'[i] = D[i - n] /\ i - n \in 1..(to - n) /\ i \in 1..to
  BY <1>1, <1>4
<1>8. \A i \in 1..n : applied[i] \in 1..n
  BY <1>0, <1>5 DEF ToSet, n
<1>9. \A m \in 1..n : \E i \in 1..n : applied[i] = m
  BY <1>0, <1>5 DEF ToSet, n
<1>10. \A i \in 1..(to - n) : D[i] \in (n + 1)..to
  BY <1>2, <1>5 DEF ToSet
<1>11. \A m \in (n + 1)..to : \E i \in 1..(to - n) : D[i] = m
  BY <1>2, <1>5 DEF ToSet
<1>12. \A i \in 1..to : i \in 1..n \/ i \in (n + 1)..to
  BY <1>1
<1>13. ASSUME NEW i \in 1..to PROVE applied'[i] \in 1..to
  <2>1. CASE i \in 1..n
    BY <2>1, <1>1, <1>6, <1>8
  <2>2. CASE i \in (n + 1)..to
    BY <2>2, <1>1, <1>7, <1>10
  <2> QED
    BY <2>1, <2>2, <1>12
<1>14. ASSUME NEW m \in 1..to PROVE \E i \in 1..to : applied'[i] = m
  <2>1. CASE m \in 1..n
    BY <2>1, <1>6, <1>9
  <2>2. CASE m \in (n + 1)..to
    <3>1. PICK i \in 1..(to - n) : D[i] = m
      BY <2>2, <1>11
    <3>2. n + i \in (n + 1)..to /\ (n + i) - n = i
      BY <1>1
    <3> QED
      BY <3>1, <3>2, <1>7
  <2> QED
    BY <2>1, <2>2, <1>12
<1>15. ToSet(applied') = 1..to
  <2>1. ToSet(applied') = {applied'[i] : i \in 1..to}
    BY <1>5 DEF ToSet
  <2> QED
    BY <2>1, <1>13, <1>14
<1>16. ASSUME NEW i \in 1..to, NEW j \in 1..to, applied'[i] = applied'[j]
       PROVE  i = j
  <2>1. CASE i \in 1..n /\ j \in 1..n
    BY <2>1, <1>0, <1>5, <1>6, <1>16
  <2>2. CASE i \in (n + 1)..to /\ j \in (n + 1)..to
    <3>1. i - n = j - n
      BY <2>2, <1>2, <1>5, <1>7, <1>16
    <3> QED
      BY <1>1, <3>1
  <2>3. CASE i \in 1..n /\ j \in (n + 1)..to
    <3>1. applied'[i] \in 1..n /\ applied'[j] \in (n + 1)..to
      BY <2>3, <1>6, <1>7, <1>8, <1>10
    <3>2. \A x \in 1..n, y \in (n + 1)..to : x # y
      BY <1>1
    <3> QED
      BY <3>1, <3>2, <1>16
  <2>4. CASE j \in 1..n /\ i \in (n + 1)..to
    <3>1. applied'[j] \in 1..n /\ applied'[i] \in (n + 1)..to
      BY <2>4, <1>6, <1>7, <1>8, <1>10
    <3>2. \A x \in 1..n, y \in (n + 1)..to : x # y
      BY <1>1
    <3> QED
      BY <3>1, <3>2, <1>16
  <2> QED
    BY <2>1, <2>2, <2>3, <2>4, <1>12
<1>17. AppliedInv'
  BY <1>4, <1>5, <1>15, <1>16 DEF AppliedInv
<1>18. StreamStep
  <2>1. CASE to = n
    <3>1. D = << >>
      BY <1>1, <1>2, <2>1, EmptySeq
    <3>2. applied' = applied
      BY <1>0, <1>3, <3>1, ConcatEmptySeq
    <3> QED
      BY <3>2, NoStreamStep
  <2>2. CASE to # n
    <3>1. to \in (n + 1)..Len(generated)
      BY <1>1, <2>2
    <3>2. Stream!Apply
      BY <1>2, <1>3, <3>1 DEF Stream!Apply, n
    <3> QED
      BY <3>2 DEF StreamStep, Stream!Next
  <2> QED
    BY <2>1, <2>2
<1> QED
  BY <1>4, <1>5, <1>17, <1>18

(* get_events_success: the events are stored while the initial fetch is    *)
(* not finished, and applied with the stored ones once it is.              *)
LEMMA DeliverSuccessStep ==
  ASSUME Inv, IdsInv, DeliverSuccess
  PROVE  Inv' /\ StreamStep
<1> DEFINE I == inbox.events
           q == Surviving
<1>1. /\ UNCHANGED <<phase, alive, eq, handler, disk, reqs, reloading, generated, message_ids, stale>>
      /\ inbox # NoResponse /\ inbox' = NoResponse /\ xhr' = None
      /\ last' = Max({last} \cup {e.id : e \in ToSet(I)})
      /\ IF waiting THEN stored' = stored \o I /\ UNCHANGED applied
         ELSE stored' = << >> /\ applied' = applied \o Dispatch(stored \o I)
  BY DEF DeliverSuccess, Delivered, GetEventsSuccess, server, history
<1>2. InboxEvents = I /\ InboxEvents' = << >> /\ (Current' <=> Current) /\ Surviving' = q
  BY <1>1 DEF InboxEvents, Current, QueueSurvives, Surviving
<1>3. /\ I \in Seq(QueuedEvents) /\ stored \in Seq(QueuedEvents)
      /\ generated \in Seq(Classes) /\ last \in Nat \cup {-1}
  BY <1>2 DEF Inv, Typed
<1> HIDE DEF I, q
<1>4. last' \in Nat \cup {-1} /\ last <= last'
  <2> DEFINE T == {last} \cup {e.id : e \in ToSet(I)}
  <2>1. PICK b \in Nat : \A e \in ToSet(I) : e.id <= b
    BY <1>3, BoundedIds
  <2>2. \A e \in ToSet(I) : e.id \in Nat
    <3>1. \A i \in DOMAIN I : I[i] \in QueuedEvents
      BY <1>3
    <3> QED
      BY <3>1, EventFields DEF ToSet
  <2> DEFINE d == IF last <= b THEN b ELSE last
  <2>3. d \in Int /\ last <= d /\ b <= d
    BY <1>3
  <2>4. T \subseteq Int /\ T # {} /\ last \in T /\ T \subseteq Nat \cup {-1}
    BY <1>3, <2>2
  <2>5. \A y \in T : y <= d
    BY <1>3, <2>1, <2>2, <2>3
  <2>6. last' = Max(T)
    BY <1>1
  <2> HIDE DEF T, d
  <2>7. Max(T) \in T /\ \A y \in T : y <= Max(T)
    BY <2>3, <2>4, <2>5, HasMax
  <2> QED
    BY <2>4, <2>6, <2>7
<1>10. ServerInv' /\ NeverRejected'
  BY <1>1 DEF Inv, ServerInv, NeverRejected
<1>11. RequestsInv'
  <2>1. ASSUME NEW r \in reqs PROVE r.conn # None /\ r.last <= last'
    <3>1. r.conn \in Conns /\ r.last \in Nat \cup {-1} /\ r.last <= last
      BY DEF Inv, RequestsInv, Typed
    <3> QED
      BY <1>3, <1>4, <3>1, BoundsAssumption DEF Conns, None
  <2> QED
    BY <1>1, <2>1 DEF Inv, RequestsInv
<1>16. << >> \in Seq(QueuedEvents) /\ stored \o I \in Seq(QueuedEvents)
  BY <1>3, ConcatProperties
<1>17. stored' \in Seq(QueuedEvents)
  BY <1>1, <1>16
<1>18. Typed'
  BY <1>1, <1>2, <1>4, <1>16, <1>17 DEF Inv, Typed
<1>19. ASSUME stale PROVE Inv' /\ StreamStep
  <2>1. stale' /\ ~ Current'
    BY <1>1, <1>19 DEF Current
  <2>2. KnownInv' /\ Frontier' /\ AppliedInv'
    BY <2>1 DEF KnownInv, Frontier, AppliedInv
  <2>3. StreamStep
    BY <1>1, <1>19 DEF StreamStep, Seen
  <2> QED
    BY <1>10, <1>11, <1>18, <2>2, <2>3 DEF Inv
<1> SUFFICES ASSUME ~ stale PROVE Inv' /\ StreamStep
  BY <1>19
<1>20. applied \in Seq(Nat)
  BY DEF Inv, AppliedInv
<1>5. PICK s \in 0..Len(generated), t \in 0..Len(generated) :
        /\ Len(applied) <= s /\ s <= t
        /\ Covers(stored, generated, Len(applied), s)
        /\ Covers(I, generated, s, t)
        /\ Current => SetCovers(Fetchable, generated, s, Len(generated))
  BY <1>2 DEF Inv, Frontier
<1>6. Len(generated) \in Nat /\ Len(applied) \in Nat /\ s \in Nat /\ t \in Nat /\ t <= Len(generated)
  BY <1>3, <1>20, LenProperties
<1>7. Covers(stored \o I, generated, Len(applied), t) /\ stored \o I \in Seq(QueuedEvents)
  <2> DEFINE n == Len(applied)
  <2>1. n \in Nat /\ n <= s /\ Covers(stored, generated, n, s)
    BY <1>5, <1>6
  <2>2. stored \o I \in Seq(QueuedEvents)
    BY <1>3, ConcatProperties
  <2> HIDE DEF n
  <2>3. Covers(stored \o I, generated, n, t)
    BY <1>3, <1>5, <1>6, <2>1, CoversConcat
  <2> QED
    BY <2>2, <2>3 DEF n
<1>8. Current => q \in Queues /\ QueueOK(q)
  BY DEF Inv, Typed, Current, QueueSurvives, Surviving, q
<1>9. ASSUME Current
      PROVE  /\ Known(q, last', << >>)
             /\ SetCovers(Fetchable', generated, t, Len(generated))
  <2>1. Known(q, last, I)
    BY <1>2, <1>9 DEF Inv, KnownInv, q
  <2>2. /\ Known(q, last', << >>)
        /\ Beyond(q, last') = Beyond(q, last) \ ToSet(I)
    BY <1>1, <1>3, <1>8, <1>9, <2>1, KnownDeliver
  <2>3. Fetchable = Beyond(q, last) /\ Fetchable' = Beyond(q, last')
    BY <1>2 DEF Fetchable, Beyond, q
  <2>4. /\ DistinctIds(Fetchable) /\ \A e \in Fetchable : e.id \in Nat
        /\ ToSet(I) \subseteq Fetchable
    <3>1. /\ DistinctIds(HeldEvents(q)) /\ \A e \in HeldEvents(q) : e.id \in Nat
          /\ ToSet(q.queue) \subseteq HeldEvents(q)
      BY <1>8, <1>9, HeldFacts, IdFacts
    <3> QED
      BY <2>1, <2>3, <3>1 DEF Known, Beyond, DistinctIds
  <2> DEFINE n == Len(generated)
             S == Fetchable
  <2>5. n \in Nat /\ t <= n /\ SetCovers(S, generated, s, n)
    BY <1>5, <1>6, <1>9
  <2>6. DistinctIds(S) /\ (\A e \in S : e.id \in Nat) /\ ToSet(I) \subseteq S
    BY <2>4
  <2> HIDE DEF n, S
  <2>7. SetCovers(S \ ToSet(I), generated, t, n)
    BY <1>5, <1>6, <2>5, <2>6, SetCoversRest
  <2> QED
    BY <2>2, <2>3, <2>7 DEF S, n
<1>12. KnownInv'
  BY <1>2, <1>9 DEF KnownInv
<1>13. << >> \in Seq(QueuedEvents) /\ t \in 0..Len(generated)
       /\ Covers(<< >>, generated, t, t)
  BY <1>6, CoversNothing
<1>14. CASE waiting
  <2>1. stored' = stored \o I /\ applied' = applied
    BY <1>1, <1>14
  <2>2. Len(applied') <= t /\ t <= t
    BY <1>5, <1>6, <2>1
  <2>3. Frontier'
    BY <1>1, <1>2, <1>7, <1>9, <1>13, <2>1, <2>2 DEF Frontier
  <2>4. AppliedInv' /\ StreamStep
    BY <1>1, <2>1, NoStreamStep DEF Inv, AppliedInv
  <2> QED
    BY <1>10, <1>11, <1>12, <1>18, <2>3, <2>4 DEF Inv
<1>15. CASE ~ waiting
  <2> DEFINE E == stored \o I
  <2>1. stored' = << >> /\ applied' = applied \o Dispatch(E)
    BY <1>1, <1>15
  <2>2. DOMAIN E \subseteq Nat /\ Covers(E, generated, Len(applied), t)
    BY <1>7, LenProperties
  <2>3. AppliedInv /\ UNCHANGED <<generated, message_ids, stale>> /\ Len(applied) <= t
    BY <1>1, <1>5, <1>6 DEF Inv
  <2> HIDE DEF E
  <2>4. /\ Len(applied') = t
        /\ AppliedInv' /\ StreamStep
    BY <1>3, <2>1, <2>2, <2>3, AppliedStep
  <2>5. Frontier'
    <3>1. t <= t
      BY <1>6
    <3> QED
      BY <1>1, <1>2, <1>9, <1>13, <2>1, <2>4, <3>1 DEF Frontier
  <2> QED
    BY <1>10, <1>11, <1>12, <1>18, <2>4, <2>5 DEF Inv
<1> QED
  BY <1>14, <1>15

(* finished_initial_fetch applies what has been stored.                    *)
LEMMA FinishedInitialFetchStep ==
  ASSUME Inv, IdsInv, FinishedInitialFetch
  PROVE  Inv' /\ StreamStep
<1>1. /\ UNCHANGED <<phase, alive, eq, handler, disk, reqs, inbox, xhr, last, reloading, generated, message_ids, stale>>
      /\ stored' = << >> /\ applied' = applied \o Dispatch(stored)
  BY DEF FinishedInitialFetch, server, network, history
<1>2. InboxEvents' = InboxEvents /\ (Current' <=> Current) /\ Surviving' = Surviving
  BY <1>1 DEF InboxEvents, Current, QueueSurvives, Surviving
<1>6. Typed' /\ NeverRejected'
  <2>1. << >> \in Seq(QueuedEvents)
    OBVIOUS
  <2> QED
    BY <1>1, <1>2, <2>1 DEF Inv, Typed, NeverRejected
<1>7. ServerInv'
  BY <1>1 DEF Inv, ServerInv
<1>8. RequestsInv'
  <2>1. Held' = Held
    BY <1>1 DEF Held
  <2> QED
    BY <1>1, <2>1 DEF Inv, RequestsInv
<1>9. KnownInv'
  BY <1>1, <1>2 DEF Inv, KnownInv
<1>11. ASSUME stale PROVE Inv' /\ StreamStep
  <2>1. Frontier' /\ AppliedInv'
    BY <1>1, <1>11 DEF Frontier, AppliedInv
  <2>2. StreamStep
    BY <1>1, <1>11 DEF StreamStep, Seen
  <2> QED
    BY <1>6, <1>7, <1>8, <1>9, <2>1, <2>2 DEF Inv
<1> SUFFICES ASSUME ~ stale PROVE Inv' /\ StreamStep
  BY <1>11
<1>3. PICK s \in 0..Len(generated), t \in 0..Len(generated) :
        /\ Len(applied) <= s /\ s <= t
        /\ Covers(stored, generated, Len(applied), s)
        /\ Covers(InboxEvents, generated, s, t)
        /\ Current => SetCovers(Fetchable, generated, s, Len(generated))
  BY DEF Inv, Frontier
<1>4. /\ generated \in Seq(Classes) /\ AppliedInv
      /\ DOMAIN stored \subseteq Nat /\ s \in Nat
  BY LenProperties DEF Inv, Typed
<1>5. /\ Len(applied') = s
      /\ AppliedInv' /\ StreamStep
  BY <1>1, <1>3, <1>4, AppliedStep
<1>10. Frontier'
  <2>1. Fetchable' = Fetchable
    BY <1>1, <1>2 DEF Fetchable
  <2>2. Covers(<< >>, generated, s, s) /\ s <= s
    BY <1>4, CoversNothing
  <2> QED
    BY <1>1, <1>2, <1>3, <1>5, <2>1, <2>2 DEF Frontier
<1> QED
  BY <1>5, <1>6, <1>7, <1>8, <1>9, <1>10 DEF Inv

(* A page that is loaded again has a new queue and the state of the server.*)
LEMMA ReloadStep ==
  ASSUME Inv, Reload
  PROVE  Inv' /\ StreamStep
<1> DEFINE n == Len(generated)
<1>1. /\ UNCHANGED <<phase, disk, generated, message_ids>> /\ phase = "up"
      /\ alive' = TRUE /\ eq' = NewQueue /\ handler' = None /\ reqs' = {}
      /\ inbox' = NoResponse /\ xhr' = None /\ last' = -1 /\ stored' = << >>
      /\ reloading' = FALSE /\ applied' = [m \in DOMAIN generated |-> m] /\ stale' = FALSE
  BY DEF Reload
<1>2. /\ InboxEvents' = << >> /\ Current' /\ Surviving' = NewQueue /\ Fetchable' = {}
  BY <1>1, NewQueueFacts DEF InboxEvents, Current, QueueSurvives, Surviving, Fetchable
<1>3. generated \in Seq(Classes) /\ n \in Nat /\ DOMAIN generated = 1..n
  BY LenProperties DEF Inv, Typed
<1> HIDE DEF n
<1>4. /\ applied' \in Seq(Nat) /\ Len(applied') = n /\ DOMAIN applied' = 1..n
      /\ \A i \in 1..n : applied'[i] = i
  <2> DEFINE f == [m \in 1..n |-> m]
  <2>1. f \in Seq(Nat) /\ DOMAIN f = 1..n /\ \A i \in 1..n : f[i] = i
    <3>1. f \in [1..n -> Nat]
      BY <1>3
    <3> QED
      BY <1>3, <3>1, SeqDef
  <2>2. Len(f) = n
    <3> HIDE DEF f
    <3>1. Len(f) \in Nat /\ DOMAIN f = 1..Len(f)
      BY <2>1, LenProperties
    <3> QED
      BY <1>3, <2>1, <3>1
  <2>3. applied' = f
    BY <1>1, <1>3
  <2> HIDE DEF f
  <2> QED
    BY <2>1, <2>2, <2>3
<1>5. AppliedInv'
  <2>1. ToSet(applied') = {applied'[i] : i \in 1..n}
    BY <1>4 DEF ToSet
  <2>2. ToSet(applied') = 1..Len(applied')
    BY <1>4, <2>1
  <2>3. \A i, j \in DOMAIN applied' : applied'[i] = applied'[j] => i = j
    BY <1>4
  <2> QED
    BY <1>4, <2>2, <2>3 DEF AppliedInv
<1>6. StreamStep
  <2>1. DOMAIN generated = 1..Len(generated)
    BY <1>3 DEF n
  <2>2. Stream!Reload
    BY <1>1, <2>1 DEF Stream!Reload
  <2> QED
    BY <2>2 DEF StreamStep, Stream!Next
<1>7. Typed' /\ NeverRejected'
  <2>1. << >> \in Seq(QueuedEvents)
    OBVIOUS
  <2> QED
    BY <1>1, <1>2, <2>1, NewQueueFacts DEF Inv, Typed, NeverRejected
<1>8. ServerInv'
  BY <1>1 DEF Inv, ServerInv
<1>9. RequestsInv'
  BY <1>1 DEF RequestsInv
<1>10. KnownInv'
  BY <1>1, <1>2, NewQueueFacts DEF KnownInv
<1>11. Frontier'
  <2>1. Covers(<< >>, generated, n, n) /\ SetCovers({}, generated, n, n) /\ n <= n
    BY <1>3, CoversNothing
  <2>2. n \in 0..Len(generated)
    BY <1>3 DEF n
  <2>3. Len(applied') <= n /\ Len(generated') = n
    BY <1>1, <1>3, <1>4 DEF n
  <2> QED
    BY <1>1, <1>2, <1>4, <2>1, <2>2, <2>3 DEF Frontier, n
<1> QED
  BY <1>5, <1>6, <1>7, <1>8, <1>9, <1>10, <1>11 DEF Inv

-----------------------------------------------------------------------------
(* The specification. *)

(* The invariant holds of a tab that has just been loaded.                 *)
LEMMA InitInv == Init => Inv /\ IdsInv /\ DiskInv
<1> SUFFICES ASSUME Init PROVE Inv /\ IdsInv /\ DiskInv
  OBVIOUS
<1> USE DEF Init
<1>1. InboxEvents = << >> /\ Current /\ Surviving = NewQueue /\ Fetchable = {}
  BY NewQueueFacts DEF InboxEvents, Current, QueueSurvives, Surviving, Fetchable
<1>2. << >> \in Seq(QueuedEvents) /\ << >> \in Seq(Classes) /\ << >> \in Seq(Nat)
  OBVIOUS
<1>3. Typed /\ NeverRejected
  BY <1>1, <1>2, NewQueueFacts DEF Typed, NeverRejected
<1>4. ServerInv /\ RequestsInv
  BY NewQueueFacts DEF ServerInv, RequestsInv
<1>5. KnownInv
  BY <1>1, NewQueueFacts DEF KnownInv
<1>6. Frontier
  <2>1. Len(generated) = 0 /\ Len(applied) = 0 /\ 0 \in 0..0 /\ 0 <= 0 /\ 0 \in Nat
    OBVIOUS
  <2>2. Covers(<< >>, generated, 0, 0) /\ SetCovers({}, generated, 0, 0)
    BY <2>1, CoversNothing
  <2> QED
    BY <1>1, <2>1, <2>2 DEF Frontier
<1>7. AppliedInv
  <2>1. ToSet(applied) = {} /\ 1..Len(applied) = {}
    BY DEF ToSet
  <2> QED
    BY <1>2, <2>1 DEF AppliedInv
<1>8. IdsInv /\ DiskInv
  <2>1. << >> \in Seq(Nat) /\ Len(<< >>) = 0 /\ DOMAIN << >> = {}
    OBVIOUS
  <2>2. generated = << >> /\ message_ids = << >> /\ stale = FALSE /\ phase = "up"
    BY DEF Init
  <2>3. IdsInv
    BY <2>1, <2>2 DEF IdsInv
  <2>4. DiskInv
    BY <2>2 DEF DiskInv
  <2> QED
    BY <2>3, <2>4
<1> QED
  BY <1>3, <1>4, <1>5, <1>6, <1>7, <1>8 DEF Inv

(* It depends on nothing but the variables.                                *)
LEMMA StutterStep ==
  ASSUME Inv, UNCHANGED vars
  PROVE  Inv'
<1>1. /\ UNCHANGED <<phase, alive, eq, handler, disk, reqs, inbox, xhr, last, stored>>
      /\ UNCHANGED <<reloading, generated, stale, applied>>
  BY DEF vars, server, network, tab, history
<1>2. InboxEvents' = InboxEvents /\ (Current' <=> Current) /\ Surviving' = Surviving
  BY <1>1 DEF InboxEvents, Current, QueueSurvives, Surviving
<1>3. Typed' /\ NeverRejected'
  BY <1>1, <1>2 DEF Inv, Typed, NeverRejected
<1>4. ServerInv'
  BY <1>1 DEF Inv, ServerInv
<1>5. RequestsInv'
  <2>1. Held' = Held
    BY <1>1 DEF Held
  <2> QED
    BY <1>1, <2>1 DEF Inv, RequestsInv
<1>6. KnownInv' /\ Frontier' /\ AppliedInv'
  BY <1>1, <1>2, QuietStep
<1> QED
  BY <1>3, <1>4, <1>5, <1>6 DEF Inv

(* The ids of the stream: only an event that arrives changes them.         *)
LEMMA IdsStep ==
  ASSUME Inv, IdsInv, [Next]_vars
  PROVE  IdsInv'
<1>1. CASE UNCHANGED <<generated, message_ids>> /\ (stale' = stale \/ stale' \in BOOLEAN)
  BY <1>1 DEF IdsInv
<1>2. ASSUME NEW c \in Classes, Generate(c) PROVE IdsInv'
  <2>1. PICK id \in NewMessageIds(c) : message_ids' = Append(message_ids, id)
    BY <1>2 DEF Generate
  <2>2. generated' = Append(generated, c) /\ stale' = stale
    BY <1>2 DEF Generate
  <2>3. id \in Nat /\ (c # "message" => id = 0)
    BY BoundsAssumption DEF NewMessageIds
  <2>4. generated \in Seq(Classes) /\ message_ids \in Seq(Nat) /\ Len(message_ids) = Len(generated)
    BY DEF Inv, Typed, IdsInv
  <2> DEFINE n == Len(generated)
  <2>5. /\ n \in Nat /\ DOMAIN generated = 1..n
        /\ DOMAIN generated' = 1..(n + 1) /\ Len(generated') = n + 1
        /\ generated'[n + 1] = c /\ \A i \in 1..n : generated'[i] = generated[i]
    BY <2>2, <2>4, AppendProperties, LenProperties
  <2>6. /\ message_ids' \in Seq(Nat) /\ Len(message_ids') = n + 1
        /\ message_ids'[n + 1] = id /\ \A i \in 1..n : message_ids'[i] = message_ids[i]
    BY <2>1, <2>3, <2>4, AppendProperties, LenProperties
  <2>7. \A i \in 1..n : generated[i] # "message" => message_ids[i] = 0
    BY <2>5 DEF IdsInv
  <2> HIDE DEF n
  <2>8. \A i \in 1..(n + 1) : i \in 1..n \/ i = n + 1
    BY <2>5
  <2>9. \A i \in DOMAIN generated' : generated'[i] # "message" => message_ids'[i] = 0
    BY <2>3, <2>5, <2>6, <2>7, <2>8
  <2> QED
    BY <2>2, <2>5, <2>6, <2>9 DEF IdsInv
<1>3. CASE Exit \/ Reload \/ Crash
  BY <1>1, <1>3 DEF Exit, Reload, Crash, ProcessGone, IdsInv
<1>4. CASE \/ Heartbeat \/ FetchEvents \/ OnConnectionClose \/ Expire \/ Stop \/ Start
           \/ TimerFires \/ RestartGetEvents
           \/ DeliverSuccess \/ DeliverBadEventQueueId
           \/ NetworkFails \/ HopelessRequestFails
           \/ FinishedInitialFetch \/ UNCHANGED vars
  <2>1. UNCHANGED history
    BY <1>4 DEF Heartbeat, FetchEvents, OnConnectionClose, Expire, Stop, Start, TimerFires,
        RestartGetEvents, DeliverSuccess, DeliverBadEventQueueId, Delivered, NetworkFails,
        HopelessRequestFails, RequestFails, FinishedInitialFetch, vars
  <2> QED
    BY <1>1, <2>1 DEF history
<1> QED
  BY <1>2, <1>3, <1>4 DEF Next

(* What a request does to a queue leaves it that of its file, unless it    *)
(* makes virtual events real.                                              *)
LEMMA FilePrune ==
  ASSUME NEW q \in Queues, QueueOK(q), NEW f \in Queues, QueueOK(f),
         NEW through \in Nat \cup {-1}, FileOf(q, f),
         \A e \in ToSet(q.queue) : e.id > q.newest_pruned_id
  PROVE  FileOf(prune(q, through), f)
<1> DEFINE p == prune(q, through)
<1>1. /\ p \in Queues
      /\ ToSet(p.queue) = {e \in ToSet(q.queue) : e.id > through}
      /\ \/ p.newest_pruned_id = q.newest_pruned_id
         \/ \E e \in ToSet(q.queue) : e.id = p.newest_pruned_id /\ e.id <= through
      /\ \A e \in ToSet(q.queue) : e.id <= through => e.id <= p.newest_pruned_id
  <2>1. through \in Int
    OBVIOUS
  <2> QED
    BY <2>1, PruneFacts
<1> HIDE DEF p
<1>2. /\ q.newest_pruned_id \in Nat \cup {-1} /\ p.newest_pruned_id \in Nat \cup {-1}
      /\ f.newest_pruned_id \in Nat \cup {-1}
      /\ \A e \in ToSet(f.queue) : e.id \in Nat
  BY <1>1, QueueFields, IdFacts
<1>3. ToSet(p.queue) \subseteq ToSet(f.queue)
  BY <1>1 DEF FileOf
<1> QED
  BY <1>1, <1>2, <1>3 DEF FileOf, p

(* A queue without virtual events is left that of its file by contents.    *)
LEMMA FileContents ==
  ASSUME NEW q \in Queues, QueueOK(q), NEW f, FileOf(q, f), q.virtual_events = << >>
  PROVE  FileOf(AfterContents(q), f)
<1>1. Virtual(q) = {} /\ HeldEvents(q) = ToSet(q.queue) \cup Virtual(q)
  BY DEF Virtual, HeldEvents
<1>2. /\ ToSet(AfterContents(q).queue) = ToSet(q.queue)
      /\ AfterContents(q).newest_pruned_id = q.newest_pruned_id
  BY <1>1, AfterContentsFacts
<1> QED
  BY <1>2 DEF FileOf

(* A request keeps a queue that of its file, or makes its virtual events   *)
(* real.                                                                   *)
LEMMA DiskFetch ==
  ASSUME Inv, DiskInv, FetchEvents
  PROVE  DiskInv'
<1>1. /\ phase # "down"
      /\ UNCHANGED <<phase, alive, disk, last, stored, reloading, stale>>
  BY DEF FetchEvents, tab, history
<1>2. (Current <=> alive /\ ~ reloading /\ ~ stale) /\ (Current' <=> Current) /\ Surviving = eq
  BY <1>1 DEF Current, QueueSurvives, Surviving
<1> SUFFICES ASSUME phase = "stopping", alive PROVE DiskInv'
  BY <1>1 DEF DiskInv
<1>3. /\ eq \in Queues /\ QueueOK(eq) /\ disk \in Queues /\ QueueOK(disk)
  BY DEF Inv, Typed, ServerInv
<1>4. PICK req \in reqs : BadEventQueueId(req) \/ Rejected(req) \/ Accepted(req)
  BY DEF FetchEvents
<1>5. req.last \in Nat \cup {-1} /\ req.last \in Int
  BY <1>4 DEF Inv, Typed
<1> DEFINE p == prune(eq, req.last)
<1>6. p \in Queues /\ QueueOK(p) /\ p.next_event_id = eq.next_event_id
  BY <1>3, <1>5, PruneFacts
<1>7. p.virtual_events = eq.virtual_events
  BY <1>3 DEF prune, Queues
<1>8. eq' = eq \/ eq' = p \/ eq' = AfterContents(p)
  BY <1>4 DEF BadEventQueueId, Rejected, Accepted
<1>9. /\ AfterContents(p).next_event_id = p.next_event_id
      /\ AfterContents(p).virtual_events = << >>
  <2>1. AfterContents(p).next_event_id = p.next_event_id
    BY <1>6, AfterContentsFacts
  <2> HIDE DEF p
  <2>2. AfterContents(p).virtual_events = << >>
    BY <1>6 DEF AfterContents, Queues
  <2> QED
    BY <2>1, <2>2
<1>10. eq'.next_event_id = eq.next_event_id
  <2> HIDE DEF p
  <2> QED
    BY <1>6, <1>8, <1>9
<1>11. ASSUME Current, disk.next_event_id = eq.next_event_id
       PROVE  /\ eq'.virtual_events = disk.virtual_events \/ eq'.virtual_events = << >>
              /\ eq'.virtual_events = disk.virtual_events => FileOf(eq', disk)
  <2>1. /\ eq.virtual_events = disk.virtual_events \/ eq.virtual_events = << >>
        /\ eq.virtual_events = disk.virtual_events => FileOf(eq, disk)
    BY <1>11 DEF DiskInv
  <2>2. \A e \in ToSet(eq.queue) : e.id > eq.newest_pruned_id
    <3>1. Known(eq, last, InboxEvents)
      BY <1>2, <1>11 DEF Inv, KnownInv
    <3> QED
      BY <1>3, <3>1, IdFacts DEF Known
  <2>3. eq.virtual_events = disk.virtual_events => FileOf(p, disk)
    BY <1>3, <1>5, <2>1, <2>2, FilePrune
  <2> HIDE DEF p
  <2>4. ASSUME eq' = AfterContents(p), eq'.virtual_events = disk.virtual_events
        PROVE  FileOf(eq', disk)
    <3>1. eq.virtual_events = disk.virtual_events /\ p.virtual_events = << >>
      BY <1>7, <1>9, <2>1, <2>4
    <3>2. FileOf(AfterContents(p), disk)
      BY <1>6, <2>3, <3>1, FileContents
    <3>3. \A q : q = eq' => FileOf(q, disk)
      BY <2>4, <3>2
    <3> QED
      BY <3>3
  <2>5. CASE eq' = eq
    BY <2>1, <2>5
  <2>6. CASE eq' = p
    BY <1>7, <2>1, <2>3, <2>6
  <2>7. CASE eq' = AfterContents(p)
    BY <1>9, <2>4, <2>7
  <2> QED
    BY <1>8, <2>5, <2>6, <2>7
<1>12. /\ disk.next_event_id <= eq.next_event_id
       /\ Current => \A e \in HeldEvents(disk) : e.id > disk.newest_pruned_id
  BY DEF DiskInv
<1>13. \A q : q = eq' => (FileOf(q, disk) <=> FileOf(eq', disk))
  OBVIOUS
<1> HIDE DEF p
<1> QED
  BY <1>1, <1>2, <1>10, <1>11, <1>12 DEF DiskInv

(* An event that is pushed takes the queue beyond its file.                *)
LEMMA DiskAdd ==
  ASSUME Inv, DiskInv, NEW event, AddEvent(event), phase # "down", alive,
         UNCHANGED <<phase, alive, disk, last, stored, reloading, stale>>,
         push(eq, event) \in Queues, QueueOK(push(eq, event)),
         push(eq, event).next_event_id = eq.next_event_id + 1
  PROVE  DiskInv'
<1> DEFINE p == push(eq, event)
<1>1. Current' <=> Current
  BY DEF Current, QueueSurvives
<1> SUFFICES ASSUME phase = "stopping" PROVE DiskInv'
  BY DEF DiskInv
<1>2. /\ eq \in Queues /\ disk \in Queues
      /\ eq.next_event_id \in Nat /\ disk.next_event_id \in Nat
  BY QueueFields DEF Inv, Typed, ServerInv
<1>3. AfterContents(p).next_event_id = p.next_event_id
  BY AfterContentsFacts
<1>4. eq' = p \/ eq' = AfterContents(p)
  BY DEF AddEvent
<1>5. eq'.next_event_id = eq.next_event_id + 1
  <2>1. p.next_event_id = eq.next_event_id + 1
    OBVIOUS
  <2> HIDE DEF p
  <2> QED
    BY <1>3, <1>4, <2>1
<1>6. /\ disk.next_event_id <= eq.next_event_id
      /\ Current => \A e \in HeldEvents(disk) : e.id > disk.newest_pruned_id
  BY DEF DiskInv
<1>7. disk.next_event_id <= eq'.next_event_id /\ disk.next_event_id # eq'.next_event_id
  BY <1>2, <1>5, <1>6
<1> QED
  BY <1>1, <1>6, <1>7 DEF DiskInv

(* Every step leaves the file of a queue that is not beyond it that of the *)
(* queue.                                                                  *)
LEMMA DiskStep ==
  ASSUME Inv, DiskInv, [Next]_vars
  PROVE  DiskInv'
<1>1. ASSUME NEW c \in Classes, Generate(c) PROVE DiskInv'
  <2>1. /\ UNCHANGED <<phase, alive, disk, last, stored, reloading, stale>>
        /\ phase # "down"
        /\ IF alive THEN AddEvent(Event(c, Len(generated) + 1)) ELSE UNCHANGED eq
    BY <1>1 DEF Generate, tab
  <2>2. CASE alive
    <3>1. /\ eq \in Queues /\ QueueOK(eq) /\ -1 \in Nat \cup {-1} /\ -1 < eq.next_event_id
          /\ generated \in Seq(Classes)
      BY QueueFields DEF Inv, Typed
    <3> DEFINE event == Event(c, Len(generated) + 1)
    <3>2. /\ push(eq, event) \in Queues /\ QueueOK(push(eq, event))
          /\ push(eq, event).next_event_id = eq.next_event_id + 1
      BY <3>1, PushClass
    <3>3. AddEvent(event)
      BY <2>1, <2>2
    <3> HIDE DEF event
    <3> QED
      BY <2>1, <2>2, <3>2, <3>3, DiskAdd
  <2>3. CASE ~ alive
    BY <2>1, <2>3 DEF DiskInv
  <2> QED
    BY <2>2, <2>3
<1>2. CASE Heartbeat
  <2> DEFINE event == SystemEvent("heartbeat")
  <2>1. /\ UNCHANGED <<phase, alive, disk, last, stored, reloading, stale>>
        /\ phase # "down" /\ handler # None /\ AddEvent(event)
    BY <1>2 DEF Heartbeat, tab, history
  <2>2. alive
    BY <2>1 DEF Inv, ServerInv
  <2>3. /\ eq \in Queues /\ QueueOK(eq) /\ -1 \in Nat \cup {-1} /\ -1 < eq.next_event_id
        /\ "heartbeat" \in {"heartbeat", "restart"}
    BY QueueFields DEF Inv, Typed
  <2>4. /\ push(eq, event) \in Queues /\ QueueOK(push(eq, event))
        /\ push(eq, event).next_event_id = eq.next_event_id + 1
    BY <2>3, PushSystem
  <2> HIDE DEF event
  <2> QED
    BY <2>1, <2>2, <2>4, DiskAdd
<1>3. CASE FetchEvents
  BY <1>3, DiskFetch
<1>4. CASE Stop
  <2>1. /\ UNCHANGED <<alive, eq, last, stored, reloading, stale>>
        /\ disk' = IF alive THEN eq ELSE NoFile
        /\ phase = "up" /\ phase' = "stopping"
    BY <1>4 DEF Stop, tab, history
  <2> SUFFICES ASSUME alive PROVE DiskInv'
    BY <2>1 DEF DiskInv
  <2>2. eq \in Queues /\ QueueOK(eq) /\ eq.next_event_id \in Nat /\ eq.newest_pruned_id \in Int
    BY QueueFields DEF Inv, Typed
  <2>3. Current' => Current
    BY <2>1 DEF Current, QueueSurvives
  <2>4. Current => \A e \in HeldEvents(eq) : e.id > eq.newest_pruned_id
    BY <2>1 DEF Inv, KnownInv, Known, Surviving
  <2>5. FileOf(eq, eq)
    BY <2>2 DEF FileOf
  <2>6. disk' = eq /\ eq' = eq
    BY <2>1
  <2>7. eq.next_event_id <= eq.next_event_id
    BY <2>2
  <2>8. Current' => \A e \in HeldEvents(disk') : e.id > disk'.newest_pruned_id
    BY <2>3, <2>4, <2>6
  <2>9. FileOf(eq', disk')
    BY <2>5, <2>6
  <2> QED
    BY <2>6, <2>7, <2>8, <2>9 DEF DiskInv
<1>5. CASE Exit \/ Crash \/ Start \/ Reload \/ Expire
  <2>1. phase' # "stopping"
    BY <1>5 DEF Exit, Crash, ProcessGone, Start, Reload, Expire
  <2> QED
    BY <2>1 DEF DiskInv
<1>6. CASE \/ OnConnectionClose \/ TimerFires \/ RestartGetEvents
           \/ DeliverSuccess \/ DeliverBadEventQueueId
           \/ NetworkFails \/ HopelessRequestFails
           \/ FinishedInitialFetch \/ UNCHANGED vars
  <2>1. UNCHANGED <<phase, alive, eq, disk, stale>> /\ (reloading' = reloading \/ reloading')
    BY <1>6 DEF OnConnectionClose, TimerFires, RestartGetEvents, get_events, DeliverSuccess,
        DeliverBadEventQueueId, Delivered, NetworkFails, HopelessRequestFails, RequestFails,
        FinishedInitialFetch, vars, server, tab, history
  <2>2. Current' => Current
    BY <2>1 DEF Current, QueueSurvives
  <2>3. \A q, f : q = eq' /\ f = disk' => q = eq /\ f = disk
    BY <2>1
  <2> QED
    BY <2>1, <2>2 DEF DiskInv
<1> QED
  BY <1>1, <1>2, <1>3, <1>4, <1>5, <1>6 DEF Next

(* Every step keeps the invariant and is a step of the stream or leaves it *)
(* alone.                                                                  *)
LEMMA NextStep ==
  ASSUME Inv, IdsInv, DiskInv, [Next]_vars
  PROVE  Inv' /\ IdsInv' /\ DiskInv' /\ StreamStep
<1> SUFFICES Inv' /\ StreamStep
  BY IdsStep, DiskStep
<1>1. ASSUME NEW c \in Classes, Generate(c) PROVE Inv' /\ StreamStep
  <2>1. /\ generated' = Append(generated, c) /\ UNCHANGED <<applied, stale>>
        /\ \E id \in NewMessageIds(c) : message_ids' = Append(message_ids, id)
    BY <1>1 DEF Generate, tab
  <2>2. NewMessageIds(c) \subseteq 0..MaxEvents
    BY BoundsAssumption DEF NewMessageIds
  <2>3. Stream!Generate(c)
    BY <2>1, <2>2 DEF Stream!Generate
  <2> QED
    BY <1>1, <2>3, GenerateStep DEF StreamStep, Stream!Next
<1>2. CASE Heartbeat
  BY <1>2, HeartbeatStep, NoStreamStep DEF Heartbeat, tab, history
<1>3. CASE FetchEvents
  BY <1>3, FetchEventsStep, NoStreamStep DEF FetchEvents, tab, history
<1>4. CASE OnConnectionClose
  BY <1>4, OnConnectionCloseStep, NoStreamStep DEF OnConnectionClose, tab, history
<1>5. CASE Expire
  BY <1>5, ExpireStep, NoStreamStep DEF Expire, tab, history
<1>6. CASE Stop
  BY <1>6, StopStep, NoStreamStep DEF Stop, tab, history
<1>7. CASE Exit \/ Crash
  <2>1. /\ UNCHANGED <<generated, message_ids, applied>> /\ stale \in BOOLEAN /\ stale' \in BOOLEAN
        /\ stale => stale'
    BY <1>7 DEF Exit, Crash, ProcessGone, tab, IdsInv, BeyondFile
  <2>2. ASSUME stale' = stale PROVE StreamStep
    BY <2>1, <2>2, NoStreamStep
  <2>3. ASSUME stale' # stale PROVE StreamStep
    <3>1. stale = FALSE /\ stale' = TRUE
      BY <2>1, <2>3
    <3>2. Stream!Break
      BY <2>1, <3>1 DEF Stream!Break
    <3> QED
      BY <3>2 DEF StreamStep, Stream!Next
  <2> QED
    BY <1>7, <2>2, <2>3, ProcessGoneStep
<1>8. CASE Start
  BY <1>8, StartStep, NoStreamStep DEF Start, tab, history
<1>9. CASE TimerFires
  <2>1. get_events(FALSE) /\ UNCHANGED <<server, history>>
    BY <1>9 DEF TimerFires
  <2> QED
    BY <2>1, GetEventsStep, NoStreamStep DEF get_events, history
<1>10. CASE RestartGetEvents
  <2>1. PICK dont_block \in BOOLEAN : get_events(dont_block)
    BY <1>10 DEF RestartGetEvents
  <2>2. UNCHANGED <<server, history>>
    BY <1>10 DEF RestartGetEvents
  <2> QED
    BY <2>1, <2>2, GetEventsStep, NoStreamStep DEF get_events, history
<1>11. CASE DeliverSuccess
  BY <1>11, DeliverSuccessStep
<1>12. CASE DeliverBadEventQueueId
  BY <1>12, DeliverBadEventQueueIdStep, NoStreamStep DEF DeliverBadEventQueueId, Delivered, history
<1>13. CASE NetworkFails \/ HopelessRequestFails
  <2>1. PICK kind \in {"error", "timeout"} : RequestFails(kind)
    BY <1>13 DEF NetworkFails, HopelessRequestFails
  <2> QED
    BY <2>1, RequestFailsStep, NoStreamStep DEF RequestFails, history
<1>14. CASE FinishedInitialFetch
  BY <1>14, FinishedInitialFetchStep
<1>15. CASE Reload
  BY <1>15, ReloadStep
<1>16. CASE UNCHANGED vars
  BY <1>16, StutterStep, NoStreamStep DEF vars, tab, history
<1> QED
  BY <1>1, <1>2, <1>3, <1>4, <1>5, <1>6, <1>7, <1>8, <1>9, <1>10, <1>11, <1>12, <1>13, <1>14,
     <1>15, <1>16 DEF Next

(* A number is in one place, whatever the tab, its queue and the response  *)
(* to it hold.                                                             *)
LEMMA InvOnePlace ==
  ASSUME Inv
  PROVE  EachEventInOnePlace
<1> SUFFICES ASSUME Current, NEW n \in DOMAIN generated
             PROVE  Cardinality(Occurrences(n)) = 1
  BY DEF EachEventInOnePlace, Current
<1>0. ~ stale
  BY DEF Current
<1> DEFINE A == {i \in DOMAIN applied : applied[i] = n}
           X == {x \in Items(stored) : NumberAt(stored, x) = n}
           PA == {<<"applied", i>> : i \in A}
           PX == {<<"stored", x>> : x \in X}
           J(e) == {j \in DOMAIN e.messages : e.messages[j] = n}
           Q(e) == {<<"queued", e, j>> : j \in J(e)}
           PQ == UNION {Q(e) : e \in Fetchable}
           k == Len(applied)
           g == Len(generated)
<1>1. Occurrences(n) = PA \cup PX \cup PQ
  BY DEF Occurrences
<1>2. PICK s \in 0..g, t \in 0..g :
        /\ k <= s /\ s <= t
        /\ Covers(stored, generated, k, s)
        /\ SetCovers(Fetchable, generated, s, g)
  BY <1>0 DEF Inv, Frontier
<1>3. /\ g \in Nat /\ k \in Nat /\ s \in Nat /\ n \in 1..g /\ s <= g
      /\ DOMAIN applied = 1..k /\ DOMAIN stored \subseteq Nat
  BY <1>0, <1>2, LenProperties DEF Inv, Typed, AppliedInv
<1>4. /\ \A i \in DOMAIN applied : applied[i] \in 1..k
      /\ n \in 1..k => \E i \in DOMAIN applied : applied[i] = n
      /\ \A i, j \in DOMAIN applied : applied[i] = applied[j] => i = j
  BY <1>0 DEF Inv, AppliedInv, ToSet
<1>5. /\ \A x \in Items(stored) : NumberAt(stored, x) \in (k + 1)..s
      /\ \A x, y \in Items(stored) : NumberAt(stored, x) = NumberAt(stored, y) => x = y
      /\ n \in (k + 1)..s => \E x \in Items(stored) : NumberAt(stored, x) = n
  <2>1. /\ DOMAIN stored \subseteq Nat /\ k \in Nat /\ s \in Nat /\ k <= s
        /\ Covers(stored, generated, k, s)
    BY <1>2, <1>3
  <2> HIDE DEF k
  <2>2. \A x \in Items(stored) : NumberAt(stored, x) \in (k + 1)..s
    BY <2>1, Places
  <2>3. \A x, y \in Items(stored) : NumberAt(stored, x) = NumberAt(stored, y) => x = y
    BY <2>1, Places
  <2>4. \A m \in (k + 1)..s : \E x \in Items(stored) : NumberAt(stored, x) = m
    BY <2>1, Places
  <2> QED
    BY <2>2, <2>3, <2>4
<1>6. DistinctIds(Fetchable) /\ \A e \in Fetchable : e.id \in Nat
  <2>1. Surviving \in Queues /\ QueueOK(Surviving)
    BY DEF Inv, Typed, Current, QueueSurvives, Surviving
  <2>2. /\ DistinctIds(HeldEvents(Surviving)) /\ \A e \in HeldEvents(Surviving) : e.id \in Nat
    BY <2>1, HeldFacts, IdFacts
  <2> QED
    BY <2>2 DEF Fetchable, DistinctIds
<1> HIDE DEF k, g
<1>7. /\ \A e \in Fetchable : J(e) # {} => n \in (s + 1)..g
      /\ n \in (s + 1)..g => \E e \in Fetchable : J(e) # {}
      /\ \A e, f \in Fetchable : J(e) # {} /\ J(f) # {} => e = f
      /\ \A e \in Fetchable : \A i, j \in J(e) : i = j
  <2>1. \A e : J(e) # {} <=> n \in NumbersOf(e)
    BY DEF NumbersOf, ToSet
  <2>2. /\ \A e \in Fetchable : n \in NumbersOf(e) => n \in (s + 1)..g
        /\ n \in (s + 1)..g => \E e \in Fetchable : n \in NumbersOf(e)
    BY <1>2 DEF SetCovers
  <2>3. ASSUME NEW e \in Fetchable, NEW f \in Fetchable,
               n \in NumbersOf(e), n \in NumbersOf(f), e # f
        PROVE  FALSE
    <3>1. e.id < f.id \/ f.id < e.id
      BY <1>6, <2>3 DEF DistinctIds
    <3>2. Precedes(e, f) \/ Precedes(f, e)
      BY <1>2, <3>1 DEF SetCovers
    <3> QED
      BY <2>3, <3>2 DEF Precedes
  <2>4. ASSUME NEW e \in Fetchable, NEW i \in J(e), NEW j \in J(e)
        PROVE  i = j
    <3>1. Good(e, generated)
      BY <1>2 DEF SetCovers
    <3>2. /\ e.messages \in Seq(Nat)
          /\ \A x, y \in DOMAIN e.messages : x < y => e.messages[x] < e.messages[y]
      BY <3>1 DEF Good
    <3>3. i \in DOMAIN e.messages /\ j \in DOMAIN e.messages /\ e.messages[i] = n /\ e.messages[j] = n
      OBVIOUS
    <3>4. DOMAIN e.messages \subseteq Nat
      BY <3>2, LenProperties
    <3>5. ~ (n < n)
      BY <1>3
    <3> QED
      BY <3>2, <3>3, <3>4, <3>5
  <2> HIDE DEF J
  <2> QED
    BY <2>1, <2>2, <2>3, <2>4
<1>8. \A i, j \in A : i = j
  BY <1>4
<1>9. \A x, y \in X : x = y
  BY <1>5
<1>10. /\ A # {} <=> n \in 1..k
       /\ X # {} <=> n \in (k + 1)..s
  BY <1>3, <1>4, <1>5
<1>11. (\E e \in Fetchable : J(e) # {}) <=> n \in (s + 1)..g
  BY <1>7
<1> HIDE DEF A, X, J
<1>12. \E place : Occurrences(n) = {place}
  <2>1. CASE n \in 1..k
    <3>1. n \notin (k + 1)..s /\ n \notin (s + 1)..g
      BY <1>2, <1>3, <2>1
    <3>2. X = {} /\ \A e \in Fetchable : J(e) = {}
      BY <1>10, <1>11, <3>1
    <3>3. PICK i : A = {i}
      BY <1>8, <1>10, <2>1
    <3>4. Occurrences(n) = {<<"applied", i>>}
      BY <1>1, <3>2, <3>3
    <3> QED
      BY <3>4
  <2>2. CASE n \in (k + 1)..s
    <3>1. n \notin 1..k /\ n \notin (s + 1)..g
      BY <1>2, <1>3, <2>2
    <3>2. A = {} /\ \A e \in Fetchable : J(e) = {}
      BY <1>10, <1>11, <3>1
    <3>3. PICK x : X = {x}
      BY <1>9, <1>10, <2>2
    <3>4. Occurrences(n) = {<<"stored", x>>}
      BY <1>1, <3>2, <3>3
    <3> QED
      BY <3>4
  <2>3. CASE n \in (s + 1)..g
    <3>1. n \notin 1..k /\ n \notin (k + 1)..s
      BY <1>2, <1>3, <2>3
    <3>2. A = {} /\ X = {}
      BY <1>10, <3>1
    <3>3. PICK e \in Fetchable : J(e) # {}
      BY <1>11, <2>3
    <3>4. PICK j : J(e) = {j}
      BY <1>7, <3>3
    <3>5. \A f \in Fetchable : f = e \/ J(f) = {}
      BY <1>7, <3>3
    <3>6. PQ = {<<"queued", e, j>>}
      BY <3>4, <3>5
    <3>7. Occurrences(n) = {<<"queued", e, j>>}
      BY <1>1, <3>2, <3>6
    <3> QED
      BY <3>7
  <2>4. n \in 1..k \/ n \in (k + 1)..s \/ n \in (s + 1)..g
    BY <1>2, <1>3
  <2> QED
    BY <2>1, <2>2, <2>3, <2>4
<1> QED
  BY <1>12, FS_Singleton

(* The inductive invariant: every tab whose queue survives can still get   *)
(* what it has not applied, stored or in transit, in the order of the      *)
(* stream; the file of a process that stops is that of the queue, until    *)
(* the queue goes on without it.                                           *)
THEOREM InvIsInvariant == Spec => [](Inv /\ IdsInv /\ DiskInv)
<1>1. Inv /\ IdsInv /\ DiskInv /\ [Next]_vars => (Inv /\ IdsInv /\ DiskInv)'
  BY NextStep
<1> QED
  BY InitInv, <1>1, PTL DEF Spec

(* No event is lost and none is doubled by push, prune, contents,          *)
(* fetch_events, the dump and the load of the queues or                    *)
(* get_events_success, however many events, connections and faults, and    *)
(* whatever the process does while it stops.                               *)
THEOREM EventsInOnePlace == Spec => []EachEventInOnePlace
<1>1. Inv => EachEventInOnePlace
  BY InvOnePlace
<1> QED
  BY InvIsInvariant, <1>1, PTL

(* fetch_events never tells the tab, about the request it waits for, that  *)
(* the event it acknowledges is already pruned or was never in the queue.  *)
THEOREM AcknowledgementsMakeSense == Spec => []NeverRejected
<1>1. Inv => NeverRejected
  BY DEF Inv
<1> QED
  BY InvIsInvariant, <1>1, PTL

(* Queue, network and browser together implement the stream: the tab       *)
(* applies each event once, without gaps and in an order that get_events_  *)
(* success allows.                                                         *)
THEOREM DeliveryImplementsStream == Spec => ImplementsEventStream
<1>1. Init => Stream!Init
  BY DEF Init, Stream!Init
<1>2. Inv /\ IdsInv /\ DiskInv /\ [Next]_vars =>
        [Stream!Next]_<<generated, message_ids, IF stale THEN << >> ELSE applied, stale>>
  BY NextStep DEF StreamStep, Seen
<1> QED
  BY InvIsInvariant, <1>1, <1>2, PTL DEF Spec, ImplementsEventStream, Stream!Spec, Stream!vars
=============================================================================
