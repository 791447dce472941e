------------------------- MODULE RabbitQueuesProofs -------------------------
(***************************************************************************)
(* Proofs about RabbitQueues, for any notices, users, jobs, bounds and     *)
(* faults: nothing is forgotten or done twice, and notices arrive in order. *)
(***************************************************************************)
EXTENDS RabbitQueues, FiniteSetTheorems, SequenceTheorems, WellFoundedInduction, TLAPS

QueueNames == {"notify_tornado", "jobs"}
NoticeItems == [about : Notices, tries : 0..MAX_REQUEST_RETRIES]
JobItems == [about : Jobs, tries : 0..MAX_REQUEST_RETRIES]
JobCallbacks == [queue : {"jobs"}, item : JobItems]
NoticeCallbacks == [queue : {"notify_tornado"}, item : NoticeItems]
Waiting == [cb : JobCallbacks \cup NoticeCallbacks \cup {ConsumeNotices},
            stage : {"queue_declare", "basic_qos"}]

notices == rabbit.ready["notify_tornado"]
jobs == rabbit.ready["jobs"]
waiting == rabbit.waiting
cbs == rabbit.on_open_cbs
inflight == rabbit.inflight
ItemsOf(ws) == [i \in DOMAIN ws |-> ws[i].cb.item]
asked == ItemsOf(waiting)
Unsent(cs, ran) == [i \in 1..(Len(cs) - ran) |-> cs[ran + i].item]
unsent == Unsent(cbs, rabbit.ran)

RabbitFields == {"ready", "conn", "queues", "waiting", "on_open_cbs", "consumers",
                 "inflight", "lost", "ran"}
Whole(r) == DOMAIN r = RabbitFields /\ DOMAIN r.ready = QueueNames

(* The types, and what the state of the connection says of the rest. *)
Typed ==
  /\ Whole(rabbit)
  /\ notices \in Seq(NoticeItems) /\ jobs \in Seq(JobItems)
  /\ waiting \in Seq(Waiting) /\ cbs \in Seq(JobCallbacks) /\ inflight \in Seq(NoticeItems)
  /\ rabbit.conn \in {"opening", "open", "stale", "closed"}
  /\ rabbit.queues \subseteq QueueNames
  /\ rabbit.consumers \in Nat /\ rabbit.ran \in 0..Len(cbs)
  /\ batch \in Seq(JobItems)
  /\ delivered \in Seq((1..NumNotices) \X (1..NumUsers))
  /\ published \subseteq Notices \cup HookJobs
  /\ faults \in 0..MaxFaults
  /\ rabbit.conn \in {"opening", "closed"} => inflight = <<>> /\ waiting = <<>>
  /\ rabbit.conn # "open" => rabbit.consumers = 0
  /\ rabbit.conn = "opening" => rabbit.queues = {}
  /\ rabbit.conn # "opening" => rabbit.ran = Len(cbs)

Reached(n) == \A u \in 1..NumUsers : <<n[1], u>> \in ToSet(delivered)

(* Everything that is anywhere has been published. *)
Known ==
  /\ OnTheWay \cap Notices \subseteq published
  /\ \A p \in ToSet(delivered) : <<p[1], 0>> \in published
  /\ \A n \in published \cap Notices, k \in 1..NumNotices : k < n[1] => <<k, 0>> \in published
  /\ About(asked) \cap Notices \subseteq failed
  /\ (OnTheWay \cup finished) \cap Jobs \subseteq ToSet(delivered) \cup published

(* What a stale connection has received is ready again, behind what has been dealt with. *)
Stale ==
  rabbit.conn = "stale" =>
    /\ About(inflight) \subseteq again
    /\ \E a \in 0..Len(notices) :
         /\ \A i \in DOMAIN inflight : a + i \in DOMAIN notices /\ notices[a + i] = inflight[i]
         /\ \A x \in 1..a : /\ x \in DOMAIN notices
                            /\ notices[x].about \in failed \/ Reached(notices[x].about)

Line == IF rabbit.conn = "stale" THEN notices ELSE inflight \o notices

(* The notices of line are in order, behind what has been delivered in     *)
(* order in d, but for those in f.                                         *)
Sorted(line, f) ==
  \A i, k \in DOMAIN line : i < k /\ line[k].about[1] < line[i].about[1] => line[k].about \in f

Ahead(line, d, f) ==
  \A i \in DOMAIN d, n \in About(line) :
    n[1] < d[i][1] /\ n \notin f => <<n[1], d[i][2]>> \in ToSet(d)

InOrder(d, f) ==
  \A i, k \in DOMAIN d : i < k /\ d[i][2] = d[k][2] /\ d[k][1] < d[i][1] => <<d[k][1], 0>> \in f

InLine(line, d, f) == Sorted(line, f) /\ Ahead(line, d, f) /\ InOrder(d, f)
OrderInv == InLine(Line, delivered, failed)

Once(s, a) == \A i, k \in DOMAIN s : s[i].about = a /\ s[k].about = a => i = k

Repeated == failed \cup again
RepeatedJob(j) == j \in Repeated \/ <<j[1], 0>> \in Repeated

NoticesOnce ==
  \A n \in Notices \ Repeated :
    /\ Once(notices, n) /\ Once(inflight, n)
    /\ ~ (n \in About(notices) /\ n \in About(inflight))
    /\ n \in About(notices) \cup About(inflight) => \A u \in 1..NumUsers : <<n[1], u>> \notin ToSet(delivered)

OneJob(j, s, b, w, c) ==
  /\ Once(s, j) /\ Once(b, j) /\ Once(w, j) /\ Once(c, j)
  /\ j \in About(s) => j \notin About(b) \cup About(w) \cup About(c)
  /\ j \in About(b) => j \notin About(w) \cup About(c)
  /\ j \in About(w) => j \notin About(c)

JobsOnce ==
  \A j \in Jobs : ~ RepeatedJob(j) =>
    /\ OneJob(j, jobs, batch, asked, unsent)
    /\ j \in About(jobs) \cup About(batch) \cup About(asked) \cup About(unsent)
         => j \notin finished

OnceInv == NoticesOnce /\ JobsOnce /\ OnceUnlessRepeated

RabbitInv == Typed /\ Known /\ Stale /\ OrderInv /\ OnceInv /\ NothingForgotten /\ OneConsumer

-----------------------------------------------------------------------------
(* Sequences of items: what they are about, and how often. *)

(* A set of numbers that is not empty has a least one. *)
LEMMA HasMin ==
  ASSUME NEW S, S \subseteq Nat, S # {}
  PROVE  \E x \in S : \A y \in S : x <= y
<1>1. PICK x \in S : \A y \in S : ~ (<<y, x>> \in OpToRel(<, Nat))
  BY WFMin, NatLessThanWellFounded
<1>2. \A y \in S : x <= y
  <2> SUFFICES ASSUME NEW y \in S, y < x PROVE FALSE
    OBVIOUS
  <2>1. <<y, x>> \in OpToRel(<, Nat)
    BY DEF OpToRel
  <2> QED
    BY <1>1, <2>1, Zenon
<1> QED
  BY <1>2

(* Items that are joined to a sequence. *)
LEMMA Joined ==
  ASSUME NEW S, NEW s \in Seq(S), NEW t \in Seq(S)
  PROVE  /\ s \o t \in Seq(S)
         /\ About(s \o t) = About(s) \cup About(t)
         /\ \A a : Once(s, a) /\ Once(t, a) /\ ~ (a \in About(s) /\ a \in About(t)) => Once(s \o t, a)
<1>1. /\ s \o t \in Seq(S) /\ Len(s \o t) = Len(s) + Len(t)
      /\ \A i \in 1..(Len(s) + Len(t)) :
           (s \o t)[i] = IF i <= Len(s) THEN s[i] ELSE t[i - Len(s)]
  BY ConcatProperties
<1>2. Len(s) \in Nat /\ Len(t) \in Nat /\ DOMAIN s = 1..Len(s) /\ DOMAIN t = 1..Len(t)
  BY LenProperties
<1> DEFINE u == s \o t
<1>3. DOMAIN u = 1..(Len(s) + Len(t))
  BY <1>1, LenProperties
<1>4. /\ \A i \in DOMAIN s : i \in DOMAIN u /\ u[i] = s[i]
      /\ \A i \in DOMAIN t : Len(s) + i \in DOMAIN u /\ u[Len(s) + i] = t[i]
      /\ \A i \in DOMAIN u : \/ i \in DOMAIN s /\ u[i] = s[i]
                             \/ i - Len(s) \in DOMAIN t /\ u[i] = t[i - Len(s)]
  BY <1>1, <1>2, <1>3
<1>5. DOMAIN u \subseteq Int /\ Len(s) \in Int
  BY <1>2, <1>3
<1> HIDE DEF u
<1>6. About(u) = About(s) \cup About(t)
  BY <1>4 DEF About
<1>7. ASSUME NEW a, Once(s, a), Once(t, a), ~ (a \in About(s) /\ a \in About(t)) PROVE Once(u, a)
  <2> SUFFICES ASSUME NEW i \in DOMAIN u, NEW k \in DOMAIN u, u[i].about = a, u[k].about = a
               PROVE  i = k
    BY DEF Once
  <2>1. CASE i \in DOMAIN s /\ u[i] = s[i] /\ k \in DOMAIN s /\ u[k] = s[k]
    BY <1>7, <2>1 DEF Once
  <2>2. CASE /\ i - Len(s) \in DOMAIN t /\ u[i] = t[i - Len(s)]
             /\ k - Len(s) \in DOMAIN t /\ u[k] = t[k - Len(s)]
    BY <1>7, <1>5, <2>2 DEF Once
  <2>3. ~ (i \in DOMAIN s /\ u[i] = s[i] /\ k - Len(s) \in DOMAIN t /\ u[k] = t[k - Len(s)])
    BY <1>7 DEF About
  <2>4. ~ (k \in DOMAIN s /\ u[k] = s[k] /\ i - Len(s) \in DOMAIN t /\ u[i] = t[i - Len(s)])
    BY <1>7 DEF About
  <2> QED
    BY <1>4, <2>1, <2>2, <2>3, <2>4
<1> QED
  BY <1>1, <1>6, <1>7 DEF u

(* Joining nothing changes nothing. *)
LEMMA Empty ==
  ASSUME NEW S, NEW s \in Seq(S)
  PROVE  /\ s \o <<>> = s /\ <<>> \o s = s /\ <<>> \in Seq(S)
         /\ About(<<>>) = {} /\ \A a : Once(<<>>, a)
BY ConcatEmptySeq, EmptySeq DEF About, Once

(* A sequence of one item. *)
LEMMA Single ==
  ASSUME NEW S, NEW e \in S
  PROVE  /\ <<e>> \in Seq(S) /\ Len(<<e>>) = 1
         /\ About(<<e>>) = {e.about} /\ \A a : Once(<<e>>, a)
<1>1. <<e>> \in Seq(S) /\ Len(<<e>>) = 1 /\ <<e>>[1] = e /\ DOMAIN <<e>> = {1}
  OBVIOUS
<1> DEFINE s == <<e>>
<1>2. s[1] = e /\ DOMAIN s = {1}
  BY <1>1
<1> HIDE DEF s
<1>3. About(s) = {e.about} /\ \A a : Once(s, a)
  BY <1>2 DEF About, Once
<1> QED
  BY <1>1, <1>3 DEF s

(* One item is appended. *)
LEMMA Appended ==
  ASSUME NEW S, NEW s \in Seq(S), NEW e \in S
  PROVE  /\ Append(s, e) \in Seq(S) /\ Append(s, e) = s \o <<e>>
         /\ About(Append(s, e)) = About(s) \cup {e.about}
         /\ \A a : Once(s, a) /\ ~ (a \in About(s) /\ e.about = a) => Once(Append(s, e), a)
<1>1. Append(s, e) = s \o <<e>>
  BY AppendIsConcat
<1> DEFINE t == <<e>>
<1>2. t \in Seq(S) /\ About(t) = {e.about} /\ \A a : Once(t, a)
  BY Single
<1> HIDE DEF t
<1>3. /\ s \o t \in Seq(S)
      /\ About(s \o t) = About(s) \cup {e.about}
      /\ \A a : Once(s, a) /\ ~ (a \in About(s) /\ e.about = a) => Once(s \o t, a)
  BY <1>2, Joined
<1> QED
  BY <1>1, <1>3 DEF t

(* The first item is taken. *)
LEMMA Taken ==
  ASSUME NEW S, NEW s \in Seq(S), s # <<>>
  PROVE  /\ Head(s) \in S /\ Tail(s) \in Seq(S)
         /\ s = <<Head(s)>> \o Tail(s)
         /\ About(s) = About(Tail(s)) \cup {Head(s).about}
         /\ \A a : Once(s, a) => /\ Once(Tail(s), a)
                                 /\ Head(s).about = a => a \notin About(Tail(s))
<1> DEFINE t == Tail(s)
<1>1. /\ Len(s) \in Nat /\ Len(s) > 0 /\ DOMAIN s = 1..Len(s)
      /\ Head(s) = s[1] /\ t \in Seq(S) /\ Len(t) = Len(s) - 1 /\ DOMAIN t = 1..(Len(s) - 1)
      /\ \A i \in 1..(Len(s) - 1) : t[i] = s[i + 1]
  BY HeadTailProperties, LenProperties
<1>2. Head(s) \in S
  BY <1>1, ElementOfSeq
<1>3. s = <<Head(s)>> \o Tail(s)
  OBVIOUS
<1> HIDE DEF t
<1>4. /\ \A i \in DOMAIN t : i + 1 \in DOMAIN s /\ i + 1 # 1 /\ s[i + 1] = t[i] /\ i \in Int
      /\ \A i \in DOMAIN s : i = 1 \/ (i - 1 \in DOMAIN t /\ t[i - 1] = s[i])
      /\ 1 \in DOMAIN s
  <2> DEFINE n == Len(s)
  <2>1. /\ n \in Nat /\ n > 0 /\ DOMAIN s = 1..n /\ DOMAIN t = 1..(n - 1)
        /\ \A i \in 1..(n - 1) : t[i] = s[i + 1]
    BY <1>1
  <2> HIDE DEF n
  <2>2. \A i \in DOMAIN s : i = 1 \/ (i - 1 \in 1..(n - 1) /\ (i - 1) + 1 = i)
    BY <2>1
  <2> QED
    BY <2>1, <2>2
<1>5. About(s) = About(t) \cup {Head(s).about}
  <2>1. /\ s[1] = Head(s)
        /\ \A i \in DOMAIN t : \E k \in DOMAIN s : s[k] = t[i]
        /\ \A i \in DOMAIN s : i = 1 \/ \E k \in DOMAIN t : t[k] = s[i]
        /\ 1 \in DOMAIN s
    BY <1>1, <1>4
  <2> QED
    BY <2>1 DEF About
<1>6. ASSUME NEW a, Once(s, a) PROVE Once(t, a) /\ (Head(s).about = a => a \notin About(t))
  <2>1. ASSUME NEW i \in DOMAIN t, NEW k \in DOMAIN t, t[i].about = a, t[k].about = a PROVE i = k
    <3>1. i + 1 = k + 1
      BY <1>4, <1>6, <2>1 DEF Once
    <3> QED
      BY <1>4, <3>1
  <2>2. ASSUME NEW i \in DOMAIN t, t[i].about = a, Head(s).about = a PROVE FALSE
    BY <1>1, <1>4, <1>6, <2>2 DEF Once
  <2> QED
    BY <2>1, <2>2 DEF Once, About
<1> QED
  BY <1>1, <1>2, <1>3, <1>5, <1>6 DEF t

-----------------------------------------------------------------------------
(* Numbers in ascending order. *)

IsAscending(s, S) ==
  s \in [1..Cardinality(S) -> S] /\ \A i, k \in DOMAIN s : i < k => s[i] < s[k]

(* The numbers of a finite set can be put in ascending order. *)
LEMMA AscendingExists ==
  ASSUME NEW N \in Nat, NEW S, S \subseteq 1..N
  PROVE  \E s : IsAscending(s, S)
<1> DEFINE Part(n) == S \cap 1..n
           Bad == {n \in 0..N : ~ \E s : IsAscending(s, Part(n))}
<1>1. ASSUME Bad # {} PROVE FALSE
  <2>1. Bad \subseteq Nat
    OBVIOUS
  <2> HIDE DEF Bad
  <2>2. PICK n \in Bad : \A m \in Bad : n <= m
    BY <1>1, <2>1, HasMin
  <2>3. n \in 0..N /\ ~ \E s : IsAscending(s, Part(n))
    BY <2>2 DEF Bad
  <2>4. n # 0
    <3>1. Part(0) = {}
      OBVIOUS
    <3>2. Cardinality({}) = 0
      BY FS_EmptySet
    <3> DEFINE s == [i \in 1..0 |-> 0]
    <3>3. s \in [1..0 -> {}] /\ DOMAIN s = {}
      OBVIOUS
    <3>4. IsAscending(s, {})
      BY <3>2, <3>3 DEF IsAscending
    <3> HIDE DEF s
    <3> QED
      BY <2>3, <3>1, <3>4
  <2>5. n - 1 \in 0..N /\ n - 1 < n /\ n \in Nat /\ n - 1 \in Nat
    BY <2>3, <2>4
  <2>6. n - 1 \notin Bad
    BY <2>2, <2>5
  <2>7. PICK s : IsAscending(s, Part(n - 1))
    BY <2>5, <2>6 DEF Bad
  <2> DEFINE P == Part(n - 1)
  <2>8. IsFiniteSet(P) /\ Cardinality(P) \in Nat
    <3>1. IsFiniteSet(1..(n - 1))
      BY <2>5, FS_Interval
    <3>2. P \in SUBSET (1..(n - 1))
      OBVIOUS
    <3> QED
      BY <3>1, <3>2, FS_Subset, FS_CardinalityType
  <2>9. \A x \in P : x \in Nat /\ x < n
    BY <2>5
  <2>10. CASE n \notin S
    <3>1. Part(n) = P
      BY <2>5, <2>10
    <3> QED
      BY <2>3, <2>7, <3>1
  <2>11. CASE n \in S
    <3>1. Part(n) = P \cup {n} /\ n \notin P
      BY <2>5, <2>11
    <3> DEFINE c == Cardinality(P)
               t == [i \in 1..(c + 1) |-> IF i = c + 1 THEN n ELSE s[i]]
    <3>2. Cardinality(P \cup {n}) = c + 1
      BY <2>8, <3>1, FS_AddElement
    <3>3. s \in [1..c -> P] /\ \A i, k \in 1..c : i < k => s[i] < s[k]
      BY <2>7 DEF IsAscending
    <3>4. c \in Nat
      BY <2>8
    <3> HIDE DEF c, P
    <3>5. t \in [1..(c + 1) -> P \cup {n}]
      BY <3>3, <3>4
    <3>6. ASSUME NEW i \in DOMAIN t, NEW k \in DOMAIN t, i < k PROVE t[i] < t[k]
      <4>1. i \in 1..c /\ t[i] = s[i] /\ s[i] \in P
        BY <3>3, <3>4, <3>6
      <4>2. CASE k = c + 1
        BY <2>9, <3>4, <3>6, <4>1, <4>2
      <4>3. CASE k # c + 1
        BY <3>3, <3>4, <3>6, <4>1, <4>3
      <4> QED
        BY <4>2, <4>3
    <3>7. IsAscending(t, P \cup {n})
      BY <3>2, <3>5, <3>6 DEF IsAscending
    <3> QED
      BY <2>3, <3>1, <3>7 DEF P
  <2> QED
    BY <2>10, <2>11
<1>2. N \notin Bad /\ Part(N) = S
  BY <1>1
<1> QED
  BY <1>2

(* Ascending has each number of the set, once. *)
LEMMA AscendingFacts ==
  ASSUME NEW N \in Nat, NEW S, S \subseteq 1..N
  PROVE  LET s == Ascending(S)
         IN  /\ s \in Seq(S) /\ Len(s) = Cardinality(S) /\ Cardinality(S) \in Nat
             /\ \A i, k \in DOMAIN s : s[i] = s[k] => i = k
             /\ {s[i] : i \in DOMAIN s} = S
<1> DEFINE s == Ascending(S)
           c == Cardinality(S)
<1>1. IsAscending(s, S)
  BY AscendingExists DEF Ascending, IsAscending
<1>2. IsFiniteSet(S) /\ c \in Nat
  <2>1. IsFiniteSet(1..N)
    BY FS_Interval
  <2> QED
    BY <2>1, FS_Subset, FS_CardinalityType
<1>3. s \in [1..c -> S] /\ \A i, k \in 1..c : i < k => s[i] < s[k]
  BY <1>1 DEF IsAscending
<1> HIDE DEF s
<1>4. s \in Seq(S) /\ Len(s) = c
  BY <1>2, <1>3, IsASeq, LenProperties
<1>5. \A i, k \in 1..c : s[i] = s[k] => i = k
  <2> SUFFICES ASSUME NEW i \in 1..c, NEW k \in 1..c, s[i] = s[k], i # k PROVE FALSE
    OBVIOUS
  <2>1. s[i] \in Int /\ s[k] \in Int
    <3>1. s[i] \in S /\ s[k] \in S /\ S \subseteq Int
      BY <1>3
    <3> QED
      BY <3>1
  <2>2. i < k \/ k < i
    BY <1>2
  <2> QED
    BY <1>3, <2>1, <2>2
<1>6. {s[i] : i \in 1..c} = S
  <2>1. s \in Injection(1..c, S)
    BY <1>3, <1>5 DEF Injection, IsInjective
  <2>2. Cardinality(1..c) = c
    BY <1>2, FS_Interval
  <2>3. s \in Surjection(1..c, S)
    BY <1>2, <2>1, <2>2, FS_Injection
  <2> QED
    BY <1>3, <2>3 DEF Surjection
<1> QED
  BY <1>2, <1>3, <1>4, <1>5, <1>6 DEF s

-----------------------------------------------------------------------------
(* What waits for a queue. *)

AnyItem == JobItems \cup NoticeItems \cup {Consume}
Asked(queue, items) == Declared(Publishing(queue, items))

(* Notices, jobs and the request to consume are about different things.    *)
LEMMA Kinds ==
  /\ Notices \cap Jobs = {} /\ Consume.about \notin Notices \cup Jobs
  /\ HookJobs \subseteq Jobs
  /\ \A n \in Notices : n[1] \in 1..NumNotices /\ n = <<n[1], 0>>
  /\ \A j \in Jobs : <<j[1], 0>> \notin Jobs
<1>1. Consume.about = <<0, 0>>
  BY DEF Consume, NewItem
<1>2. 0 \notin Idle
  BY BoundsAssumption
<1>3. \A j \in Jobs : /\ j = <<j[1], j[2]>> /\ j[2] # 0
                      /\ (j[1] \in 1..NumNotices /\ j[2] \in Idle) \/ j[1] = 0
  BY <1>2 DEF Jobs, HookJobs
<1>4. \A n \in Notices : n[1] \in 1..NumNotices /\ n = <<n[1], 0>> /\ n[2] = 0
  BY DEF Notices
<1>5. 0 \notin 1..NumNotices
  BY BoundsAssumption
<1> QED
  BY <1>1, <1>3, <1>4, <1>5 DEF Jobs

(* The items of callbacks that wait, or are joined to those that do. *)
LEMMA ItemsJoined ==
  ASSUME NEW ws \in Seq(Waiting), NEW vs \in Seq(Waiting)
  PROVE  /\ ItemsOf(ws) \in Seq(AnyItem)
         /\ ItemsOf(ws \o vs) = ItemsOf(ws) \o ItemsOf(vs)
         /\ Published(Callbacks(ws)) = About(ItemsOf(ws)) \ {Consume.about}
<1>1. ASSUME NEW us \in Seq(Waiting)
      PROVE  /\ ItemsOf(us) \in Seq(AnyItem) /\ DOMAIN ItemsOf(us) = DOMAIN us
             /\ \A i \in DOMAIN us : ItemsOf(us)[i] = us[i].cb.item
             /\ Len(ItemsOf(us)) = Len(us) /\ DOMAIN us = 1..Len(us) /\ Len(us) \in Nat
  <2>1. Len(us) \in Nat /\ DOMAIN us = 1..Len(us) /\ \A i \in 1..Len(us) : us[i] \in Waiting
    BY LenProperties, ElementOfSeq
  <2>2. \A w \in Waiting : w.cb.item \in AnyItem
    BY DEF Waiting, JobCallbacks, NoticeCallbacks, ConsumeNotices, AnyItem
  <2>3. ItemsOf(us) \in [1..Len(us) -> AnyItem]
    BY <2>1, <2>2 DEF ItemsOf
  <2> QED
    BY <2>1, <2>3, IsASeq, LenProperties DEF ItemsOf
<1>2. /\ ws \o vs \in Seq(Waiting) /\ Len(ws \o vs) = Len(ws) + Len(vs)
      /\ \A i \in 1..(Len(ws) + Len(vs)) :
           (ws \o vs)[i] = IF i <= Len(ws) THEN ws[i] ELSE vs[i - Len(ws)]
  BY ConcatProperties
<1> DEFINE us == ws \o vs
           l == ItemsOf(us)
           a == ItemsOf(ws)
           b == ItemsOf(vs)
<1>3. /\ us \in Seq(Waiting) /\ a \in Seq(AnyItem) /\ b \in Seq(AnyItem) /\ l \in Seq(AnyItem)
      /\ Len(a) = Len(ws) /\ Len(b) = Len(vs) /\ Len(l) = Len(ws) + Len(vs)
      /\ Len(ws) \in Nat /\ Len(vs) \in Nat
  BY <1>1, <1>2
<1>4. \A i \in 1..(Len(ws) + Len(vs)) : l[i] = IF i <= Len(ws) THEN a[i] ELSE b[i - Len(ws)]
  <2> SUFFICES ASSUME NEW i \in 1..(Len(ws) + Len(vs))
               PROVE  l[i] = IF i <= Len(ws) THEN a[i] ELSE b[i - Len(ws)]
    OBVIOUS
  <2>1. l[i] = us[i].cb.item
    BY <1>1, <1>2, <1>3
  <2>2. CASE i <= Len(ws)
    <3>1. i \in DOMAIN ws /\ us[i] = ws[i]
      BY <1>1, <1>2, <1>3, <2>2
    <3> QED
      BY <1>1, <2>1, <2>2, <3>1
  <2>3. CASE i > Len(ws)
    <3>1. i - Len(ws) \in DOMAIN vs /\ us[i] = vs[i - Len(ws)]
      BY <1>1, <1>2, <1>3, <2>3
    <3> QED
      BY <1>1, <1>3, <2>1, <2>3, <3>1
  <2> QED
    BY <1>3, <2>2, <2>3
<1> HIDE DEF us, l, a, b
<1>both. a \in Seq(AnyItem) /\ b \in Seq(AnyItem)
  BY <1>3
<1>5. /\ a \o b \in Seq(AnyItem) /\ Len(a \o b) = Len(a) + Len(b)
      /\ \A i \in 1..(Len(a) + Len(b)) : (a \o b)[i] = IF i <= Len(a) THEN a[i] ELSE b[i - Len(a)]
  BY <1>both, ConcatProperties
<1> DEFINE c == a \o b
<1>6. c \in Seq(AnyItem) /\ Len(c) = Len(l) /\ \A i \in 1..Len(l) : l[i] = c[i]
  BY <1>3, <1>4, <1>5
<1> HIDE DEF c
<1>7. l = c
  BY <1>3, <1>6, SeqEqual
<1>8. Published(Callbacks(ws)) = About(ItemsOf(ws)) \ {Consume.about}
  <2> DEFINE x == Callbacks(ws)
             y == ItemsOf(ws)
  <2>1. /\ DOMAIN x = DOMAIN ws /\ DOMAIN y = DOMAIN ws
        /\ \A i \in DOMAIN ws : x[i].item = y[i]
    BY DEF Callbacks, ItemsOf
  <2> HIDE DEF x, y
  <2>2. Published(x) = About(y) \ {Consume.about}
    BY <2>1 DEF Published, About
  <2> QED
    BY <2>2 DEF x, y
<1> QED
  BY <1>3, <1>7, <1>8 DEF a, b, c, l, us

(* One call is answered. *)
LEMMA ItemsRemoved ==
  ASSUME NEW ws \in Seq(Waiting), NEW i \in DOMAIN ws
  PROVE  LET v == ItemsOf(RemoveAt(ws, i))
             e == ws[i].cb.item
         IN  /\ RemoveAt(ws, i) \in Seq(Waiting)
             /\ \A k \in DOMAIN RemoveAt(ws, i) :
                  \E l \in DOMAIN ws : l # i /\ RemoveAt(ws, i)[k] = ws[l]
             /\ \A l \in DOMAIN ws : l # i =>
                  \E k \in DOMAIN RemoveAt(ws, i) : RemoveAt(ws, i)[k] = ws[l]
             /\ About(ItemsOf(ws)) = About(v) \cup {e.about}
             /\ \A a : Once(ItemsOf(ws), a) => Once(v, a) /\ (e.about = a => a \notin About(v))
<1> DEFINE n == Len(ws)
           r == RemoveAt(ws, i)
<1>1. n \in Nat /\ DOMAIN ws = 1..n /\ i \in 1..n
  BY LenProperties
<1>2. /\ r \in Seq(Waiting) /\ DOMAIN r = 1..(n - 1)
      /\ \A k \in 1..(n - 1) : r[k] = ws[IF k < i THEN k ELSE k + 1]
  <2> DEFINE p == SubSeq(ws, 1, i - 1)
             q == SubSeq(ws, i + 1, n)
  <2>1. /\ p \in Seq(Waiting) /\ Len(p) = i - 1 /\ \A k \in 1..(i - 1) : p[k] = ws[k]
    BY <1>1, SubSeqProperties
  <2>2. /\ q \in Seq(Waiting) /\ Len(q) = n - i /\ \A k \in 1..(n - i) : q[k] = ws[i + k]
    BY <1>1, SubSeqProperties
  <2>3. r = p \o q
    BY DEF RemoveAt
  <2> HIDE DEF p, q, r
  <2>4. /\ r \in Seq(Waiting) /\ Len(r) = n - 1
        /\ \A k \in 1..(n - 1) : r[k] = IF k <= i - 1 THEN p[k] ELSE q[k - (i - 1)]
    <3>1. /\ p \o q \in Seq(Waiting) /\ Len(p \o q) = Len(p) + Len(q)
          /\ \A k \in 1..(Len(p) + Len(q)) : (p \o q)[k] = IF k <= Len(p) THEN p[k] ELSE q[k - Len(p)]
      BY <2>1, <2>2, ConcatProperties
    <3>2. Len(p) + Len(q) = n - 1
      BY <1>1, <2>1, <2>2
    <3> QED
      BY <2>1, <2>3, <3>1, <3>2
  <2>5. \A k \in 1..(n - 1) : r[k] = ws[IF k < i THEN k ELSE k + 1]
    <3> SUFFICES ASSUME NEW k \in 1..(n - 1) PROVE r[k] = ws[IF k < i THEN k ELSE k + 1]
      OBVIOUS
    <3>1. CASE k < i
      <4>1. k \in 1..(i - 1)
        BY <1>1, <3>1
      <4> QED
        BY <2>1, <2>4, <3>1, <4>1
    <3>2. CASE k >= i
      <4>1. k - (i - 1) \in 1..(n - i) /\ i + (k - (i - 1)) = k + 1 /\ ~ (k <= i - 1)
        BY <1>1, <3>2
      <4>2. q[k - (i - 1)] = ws[k + 1]
        BY <2>2, <4>1
      <4> QED
        BY <2>4, <3>2, <4>1, <4>2
    <3> QED
      BY <1>1, <3>1, <3>2
  <2> QED
    BY <2>4, <2>5, LenProperties
<1> HIDE DEF n, r
<1> DEFINE from(k) == IF k < i THEN k ELSE k + 1
<1>3. /\ \A k \in DOMAIN r : from(k) \in DOMAIN ws /\ from(k) # i /\ r[k] = ws[from(k)]
      /\ \A k, l \in DOMAIN r : from(k) = from(l) => k = l
      /\ \A l \in DOMAIN ws : l = i \/ \E k \in DOMAIN r : l = from(k)
  <2>1. \A k \in DOMAIN r : from(k) \in DOMAIN ws /\ from(k) # i /\ r[k] = ws[from(k)]
    BY <1>1, <1>2
  <2>2. \A k, l \in DOMAIN r : from(k) = from(l) => k = l
    BY <1>1, <1>2
  <2>3. ASSUME NEW l \in DOMAIN ws, l # i PROVE \E k \in DOMAIN r : l = from(k)
    <3>1. CASE l < i
      BY <1>1, <1>2, <3>1
    <3>2. CASE l > i
      <4>1. l - 1 \in DOMAIN r /\ l = from(l - 1)
        BY <1>1, <1>2, <3>2
      <4> QED
        BY <4>1
    <3> QED
      BY <1>1, <2>3, <3>1, <3>2
  <2> QED
    BY <2>1, <2>2, <2>3
<1> HIDE DEF from
<1> DEFINE v == ItemsOf(r)
           w == ItemsOf(ws)
<1>4. /\ DOMAIN v = DOMAIN r /\ \A k \in DOMAIN r : v[k] = r[k].cb.item
      /\ DOMAIN w = DOMAIN ws /\ \A k \in DOMAIN ws : w[k] = ws[k].cb.item
  BY DEF ItemsOf
<1> HIDE DEF v, w
<1>5. /\ \A k \in DOMAIN v : from(k) \in DOMAIN w /\ from(k) # i /\ v[k] = w[from(k)]
      /\ \A k, l \in DOMAIN v : from(k) = from(l) => k = l
      /\ \A l \in DOMAIN w : l = i \/ \E k \in DOMAIN v : w[l] = v[k]
      /\ i \in DOMAIN w /\ w[i] = ws[i].cb.item
  BY <1>3, <1>4
<1>6. About(w) = About(v) \cup {ws[i].cb.item.about}
  BY <1>5 DEF About
<1>7. ASSUME NEW a, Once(w, a) PROVE Once(v, a) /\ (w[i].about = a => a \notin About(v))
  <2>1. ASSUME NEW k \in DOMAIN v, NEW l \in DOMAIN v, v[k].about = a, v[l].about = a PROVE k = l
    BY <1>5, <1>7, <2>1 DEF Once
  <2>2. ASSUME NEW k \in DOMAIN v, v[k].about = a, w[i].about = a PROVE FALSE
    BY <1>5, <1>7, <2>2 DEF Once
  <2> QED
    BY <2>1, <2>2 DEF Once, About
<1>8. \A k \in DOMAIN r : \E l \in DOMAIN ws : l # i /\ r[k] = ws[l]
  BY <1>3
<1>9. \A l \in DOMAIN ws : l # i => \E k \in DOMAIN r : r[k] = ws[l]
  BY <1>3
<1> QED
  BY <1>2, <1>5, <1>6, <1>7, <1>8, <1>9 DEF v, w, r

-----------------------------------------------------------------------------
(* Publishing. *)

Callback == JobCallbacks \cup NoticeCallbacks \cup {ConsumeNotices}

(* What ensure_queue has wait for a queue that is not declared. *)
LEMMA DeclaredFacts ==
  ASSUME NEW cs \in Seq(Callback)
  PROVE  /\ Declared(cs) \in Seq(Waiting) /\ Len(Declared(cs)) = Len(cs)
         /\ DOMAIN Declared(cs) = DOMAIN cs
         /\ \A i \in DOMAIN cs : Declared(cs)[i] = [cb |-> cs[i], stage |-> "queue_declare"]
<1>1. Len(cs) \in Nat /\ DOMAIN cs = 1..Len(cs) /\ \A i \in 1..Len(cs) : cs[i] \in Callback
  BY LenProperties, ElementOfSeq
<1>2. Declared(cs) \in [1..Len(cs) -> Waiting]
  BY <1>1 DEF Declared, Waiting, Callback
<1> QED
  BY <1>1, <1>2, IsASeq, LenProperties DEF Declared

ItemsFor(queue) == IF queue = "jobs" THEN JobItems ELSE NoticeItems

(* Asked has one callback for each item, and they are its items. *)
LEMMA AskedFacts ==
  ASSUME NEW queue \in QueueNames, NEW w \in Seq(ItemsFor(queue))
  PROVE  /\ Asked(queue, w) \in Seq(Waiting) /\ DOMAIN Asked(queue, w) = DOMAIN w
         /\ \A i \in DOMAIN w : Asked(queue, w)[i] =
              [cb |-> [queue |-> queue, item |-> w[i]], stage |-> "queue_declare"]
         /\ ItemsOf(Asked(queue, w)) = w
<1> DEFINE cs == Publishing(queue, w)
<1>1. Len(w) \in Nat /\ DOMAIN w = 1..Len(w) /\ \A i \in 1..Len(w) : w[i] \in ItemsFor(queue)
  BY LenProperties, ElementOfSeq
<1>2. cs \in [1..Len(w) -> Callback]
  BY <1>1 DEF Publishing, QueueNames, ItemsFor, Callback, JobCallbacks, NoticeCallbacks
<1>3. cs \in Seq(Callback) /\ Len(cs) = Len(w)
  BY <1>1, <1>2, IsASeq, LenProperties DEF Publishing
<1> HIDE DEF cs
<1>4. /\ DOMAIN cs = DOMAIN w /\ \A i \in DOMAIN w : cs[i] = [queue |-> queue, item |-> w[i]]
  BY DEF cs, Publishing
<1>5. Asked(queue, w) = Declared(cs)
  BY DEF Asked, cs
<1>6. /\ Declared(cs) \in Seq(Waiting) /\ DOMAIN Declared(cs) = DOMAIN w
      /\ \A i \in DOMAIN w : Declared(cs)[i] = [cb |-> cs[i], stage |-> "queue_declare"]
  BY <1>3, <1>4, DeclaredFacts
<1>7. ItemsOf(Declared(cs)) = w
  <2> DEFINE x == ItemsOf(Declared(cs))
  <2>1. x = [i \in DOMAIN w |-> Declared(cs)[i].cb.item]
    BY <1>6 DEF ItemsOf
  <2>2. \A i \in DOMAIN w : Declared(cs)[i].cb.item = w[i]
    BY <1>4, <1>6
  <2>3. x = [i \in DOMAIN w |-> w[i]]
    BY <2>1, <2>2
  <2> HIDE DEF x
  <2>4. x \in [1..Len(w) -> ItemsFor(queue)]
    BY <1>1, <2>3
  <2>5. x \in Seq(ItemsFor(queue)) /\ Len(x) = Len(w)
    BY <1>1, <2>4, IsASeq, LenProperties
  <2>6. x = w
    BY <1>1, <2>3, <2>5, SeqEqual
  <2> QED
    BY <2>6 DEF x
<1> QED
  BY <1>4, <1>5, <1>6, <1>7

(* What ensure_queue makes of r, when the channel is not None, if it is    *)
(* called for some items: they are asked for, in their queue or lost.      *)
Grown(r, s, queue, w) ==
  /\ Whole(s)
  /\ s.conn = r.conn /\ s.queues = r.queues /\ s.on_open_cbs = r.on_open_cbs
  /\ s.consumers = r.consumers /\ s.inflight = r.inflight /\ s.ran = r.ran
  /\ \A q \in QueueNames \ {queue} : s.ready[q] = r.ready[q]
  /\ \/ /\ r.conn = "open" /\ s.ready[queue] = r.ready[queue] \o w
        /\ s.waiting = r.waiting /\ s.lost = r.lost
     \/ /\ r.conn # "open" /\ s.ready[queue] = r.ready[queue]
        /\ s.waiting = r.waiting /\ s.lost = r.lost \cup About(w)
     \/ /\ s.ready[queue] = r.ready[queue]
        /\ s.waiting = r.waiting \o Asked(queue, w) /\ s.lost = r.lost

(* The three ways of ensure_queue, by the state of the channel and of the queue. *)
LEMMA EnsureQueueFacts ==
  ASSUME NEW r, NEW queue \in QueueNames, NEW w \in Seq(ItemsFor(queue)),
         Whole(r), r.conn # "opening"
  PROVE  Grown(r, ensure_queue(r, queue, w), queue, w)
<1>1. w # <<Consume>>
  <2>1. Consume \notin ItemsFor(queue)
    BY Kinds DEF ItemsFor, JobItems, NoticeItems
  <2>2. <<Consume>>[1] = Consume /\ DOMAIN <<Consume>> = {1}
    OBVIOUS
  <2>3. \A i \in DOMAIN w : w[i] \in ItemsFor(queue)
    BY ElementOfSeq, LenProperties
  <2> QED
    BY <2>1, <2>2, <2>3
<1> DEFINE s == ensure_queue(r, queue, w)
<1>2. CASE queue \notin r.queues
  <2>1. s = [r EXCEPT !.waiting = r.waiting \o Asked(queue, w)]
    BY <1>2 DEF ensure_queue, Asked
  <2> HIDE DEF s
  <2> QED
    BY <2>1 DEF s, Grown, Whole, RabbitFields
<1>3. CASE queue \in r.queues /\ r.conn = "open"
  <2> DEFINE v == r.ready[queue] \o w
             t == [r.ready EXCEPT ![queue] = v]
  <2>1. s = [r EXCEPT !.ready = t]
    BY <1>1, <1>3 DEF ensure_queue, Call
  <2>2. DOMAIN t = QueueNames /\ t[queue] = v /\ \A q \in QueueNames \ {queue} : t[q] = r.ready[q]
    BY DEF Whole
  <2> HIDE DEF s, t, v
  <2> QED
    BY <1>3, <2>1, <2>2 DEF s, v, Grown, Whole, RabbitFields
<1>4. CASE queue \in r.queues /\ r.conn # "open"
  <2>1. s = [r EXCEPT !.lost = r.lost \cup About(w)]
    BY <1>1, <1>4 DEF ensure_queue, Call
  <2> HIDE DEF s
  <2> QED
    BY <1>4, <2>1 DEF s, Grown, Whole, RabbitFields
<1> QED
  BY <1>2, <1>3, <1>4

-----------------------------------------------------------------------------
(* What each step does to the parts of rabbit. *)

(* The answer is for the first callback at that stage. *)
LEMMA FirstWaitingFacts ==
  ASSUME NEW stage, Typed, IsWaiting(stage)
  PROVE  FirstWaiting(stage) \in DOMAIN waiting /\ waiting[FirstWaiting(stage)].stage = stage
<1> DEFINE at == {i \in DOMAIN rabbit.waiting : rabbit.waiting[i].stage = stage}
<1>1. at \subseteq Nat /\ at # {}
  <2>1. DOMAIN waiting = 1..Len(waiting) /\ Len(waiting) \in Nat
    BY LenProperties DEF Typed
  <2> QED
    BY <2>1 DEF IsWaiting, waiting
<1> HIDE DEF at
<1>2. \E i \in at : \A j \in at : i <= j
  BY <1>1, HasMin
<1>3. FirstWaiting(stage) \in at
  BY <1>2 DEF FirstWaiting, at
<1> QED
  BY <1>3 DEF at, waiting

(* Nothing moves when a queue is declared. *)
LEMMA SetQosFields ==
  ASSUME Typed, SetQos
  PROVE  /\ Whole(rabbit') /\ rabbit'.conn = rabbit.conn
         /\ rabbit'.queues \subseteq QueueNames /\ rabbit.conn = "open"
         /\ notices' = notices /\ jobs' = jobs /\ inflight' = inflight /\ cbs' = cbs
         /\ rabbit'.consumers = rabbit.consumers /\ rabbit'.lost = rabbit.lost
         /\ rabbit'.ran = rabbit.ran
         /\ waiting' \in Seq(Waiting) /\ asked' = asked
         /\ Callbacks(waiting') = Callbacks(waiting)
<1> DEFINE i == FirstWaiting("queue_declare")
           w == [waiting[i] EXCEPT !.stage = "basic_qos"]
           q == rabbit.queues \cup {waiting[i].cb.queue}
           ws == [waiting EXCEPT ![i] = w]
<1>1. i \in DOMAIN waiting
  BY FirstWaitingFacts DEF SetQos
<1>2. /\ waiting \in [1..Len(waiting) -> Waiting] /\ DOMAIN waiting = 1..Len(waiting)
      /\ Len(waiting) \in Nat
  <2>1. waiting \in Seq(Waiting)
    BY DEF Typed
  <2>2. Len(waiting) \in Nat /\ DOMAIN waiting = 1..Len(waiting) /\ \A k \in 1..Len(waiting) : waiting[k] \in Waiting
    BY <2>1, LenProperties, ElementOfSeq
  <2>3. waiting = [k \in 1..Len(waiting) |-> waiting[k]]
    BY <2>1, <2>2
  <2> QED
    BY <2>2, <2>3
<1>3. waiting[i] \in Waiting /\ w \in Waiting /\ w.cb = waiting[i].cb
  BY <1>1, <1>2 DEF Waiting
<1>4. rabbit' = [rabbit EXCEPT !.queues = q, !.waiting = ws] /\ rabbit.conn = "open"
  BY DEF SetQos, IsWaiting, waiting
<1>5. q \subseteq QueueNames
  <2>1. \A cb \in JobCallbacks \cup NoticeCallbacks \cup {ConsumeNotices} : cb.queue \in QueueNames
    BY DEF JobCallbacks, NoticeCallbacks, ConsumeNotices, QueueNames
  <2> QED
    BY <1>3, <2>1 DEF Waiting, Typed
<1>6. ws \in [1..Len(waiting) -> Waiting]
  BY <1>2, <1>3
<1>7. \A k \in DOMAIN waiting : ws[k].cb = waiting[k].cb
  BY <1>2, <1>3
<1>8. ws \in Seq(Waiting) /\ DOMAIN ws = DOMAIN waiting
  BY <1>2, <1>6, IsASeq
<1> HIDE DEF i, w, q, ws
<1>9. ItemsOf(ws) = asked /\ Callbacks(ws) = Callbacks(waiting)
  BY <1>7, <1>8 DEF ItemsOf, asked, Callbacks
<1>10. /\ Whole(rabbit') /\ rabbit'.conn = rabbit.conn /\ rabbit'.queues = q
       /\ rabbit'.ready = rabbit.ready /\ rabbit'.inflight = rabbit.inflight
       /\ rabbit'.on_open_cbs = rabbit.on_open_cbs
       /\ rabbit'.consumers = rabbit.consumers /\ rabbit'.lost = rabbit.lost
       /\ rabbit'.ran = rabbit.ran /\ rabbit'.waiting = ws
  BY <1>4 DEF Typed, Whole, RabbitFields
<1> QED
  BY <1>4, <1>5, <1>8, <1>9, <1>10 DEF notices, jobs, inflight, cbs, waiting, asked

(* One callback runs: it consumes, publishes its item or loses it. *)
LEMMA FinishQosFields ==
  ASSUME Typed, FinishQos
  PROVE  /\ Whole(rabbit') /\ rabbit'.conn = rabbit.conn /\ rabbit.conn = "open"
         /\ rabbit'.queues = rabbit.queues
         /\ inflight' = inflight /\ cbs' = cbs
         /\ rabbit'.lost = rabbit.lost /\ rabbit'.ran = rabbit.ran
         /\ waiting' \in Seq(Waiting)
         /\ \E e \in AnyItem : \E t :
              /\ About(asked) = About(asked') \cup {e.about}
              /\ \A a : Once(asked, a) => Once(asked', a) /\ (e.about = a => a \notin About(asked'))
              /\ About(t) = {e.about} /\ \A a : Once(t, a)
              /\ \/ /\ e = Consume /\ rabbit'.consumers = rabbit.consumers + 1
                    /\ notices' = notices /\ jobs' = jobs
                 \/ /\ e \in JobItems /\ rabbit'.consumers = rabbit.consumers
                    /\ t \in Seq(JobItems) /\ notices' = notices /\ jobs' = jobs \o t
                 \/ /\ e \in NoticeItems /\ rabbit'.consumers = rabbit.consumers
                    /\ t \in Seq(NoticeItems) /\ notices' = notices \o t /\ jobs' = jobs
<1> DEFINE i == FirstWaiting("basic_qos")
           cb == waiting[i].cb
           e == cb.item
           ws == RemoveAt(waiting, i)
           r == [rabbit EXCEPT !.waiting = ws]
<1>1. i \in DOMAIN waiting
  BY FirstWaitingFacts DEF FinishQos
<1>2. waiting \in Seq(Waiting) /\ waiting[i] \in Waiting
  BY <1>1, ElementOfSeq, LenProperties DEF Typed
<1>3. rabbit' = Call(r, cb.queue, <<e>>) /\ rabbit.conn = "open"
  BY DEF FinishQos, IsWaiting, waiting
<1>4. /\ ws \in Seq(Waiting) /\ About(asked) = About(ItemsOf(ws)) \cup {e.about}
      /\ \A a : Once(asked, a) => Once(ItemsOf(ws), a) /\ (e.about = a => a \notin About(ItemsOf(ws)))
  BY <1>1, <1>2, ItemsRemoved DEF asked
<1>5. /\ cb \in JobCallbacks \cup NoticeCallbacks \cup {ConsumeNotices}
      /\ e \in AnyItem
  BY <1>2 DEF Waiting, JobCallbacks, NoticeCallbacks, ConsumeNotices, AnyItem
<1>6. /\ Whole(r) /\ r.conn = rabbit.conn /\ r.queues = rabbit.queues /\ r.ready = rabbit.ready
      /\ r.inflight = rabbit.inflight /\ r.on_open_cbs = rabbit.on_open_cbs
      /\ r.consumers = rabbit.consumers /\ r.lost = rabbit.lost /\ r.ran = rabbit.ran
      /\ r.waiting = ws
  BY DEF Typed, Whole, RabbitFields
<1> DEFINE t == <<e>>
<1> HIDE DEF i, cb, e, ws, r
<1>7. <<e>>[1] = e /\ <<Consume>>[1] = Consume
  OBVIOUS
<1>t. /\ About(t) = {e.about} /\ \A a : Once(t, a)
      /\ e \in JobItems => t \in Seq(JobItems)
      /\ e \in NoticeItems => t \in Seq(NoticeItems)
  <2>1. e \in AnyItem => About(t) = {e.about} /\ \A a : Once(t, a)
    BY Single
  <2>2. e \in JobItems => t \in Seq(JobItems)
    BY Single
  <2>3. e \in NoticeItems => t \in Seq(NoticeItems)
    BY Single
  <2> QED
    BY <1>5, <2>1, <2>2, <2>3
<1>8. CASE e = Consume
  <2>1. rabbit' = [r EXCEPT !.consumers = r.consumers + 1]
    BY <1>3, <1>8 DEF Call
  <2>2. /\ Whole(rabbit') /\ rabbit'.conn = r.conn /\ rabbit'.queues = r.queues
        /\ rabbit'.ready = r.ready /\ rabbit'.inflight = r.inflight
        /\ rabbit'.on_open_cbs = r.on_open_cbs /\ rabbit'.lost = r.lost /\ rabbit'.ran = r.ran
        /\ rabbit'.waiting = ws /\ rabbit'.consumers = rabbit.consumers + 1
    BY <1>6, <2>1 DEF Whole, RabbitFields
  <2>3. waiting' = ws /\ asked' = ItemsOf(ws) /\ notices' = notices /\ jobs' = jobs
    BY <1>6, <2>2 DEF waiting, asked, notices, jobs
  <2> QED
    <3> HIDE DEF t
    <3> QED
      BY <1>3, <1>4, <1>5, <1>t, <1>6, <1>8, <2>2, <2>3 DEF inflight, cbs
<1>9. CASE e # Consume
  <2> DEFINE q == cb.queue
             b == [r.ready EXCEPT ![q] = r.ready[q] \o t]
  <2>1. \/ e \in JobItems /\ q = "jobs"
        \/ e \in NoticeItems /\ q = "notify_tornado"
    BY <1>5, <1>9 DEF JobCallbacks, NoticeCallbacks, ConsumeNotices, e
  <2>2. rabbit' = [r EXCEPT !.ready = b]
    BY <1>3, <1>6, <1>7, <1>9 DEF Call
  <2>3. /\ DOMAIN b = QueueNames /\ b[q] = r.ready[q] \o t
        /\ \A p \in QueueNames \ {q} : b[p] = r.ready[p]
    BY <1>6, <2>1 DEF Whole, QueueNames
  <2> HIDE DEF q, t, b
  <2>4. /\ Whole(rabbit') /\ rabbit'.conn = r.conn /\ rabbit'.queues = r.queues
        /\ rabbit'.ready = b /\ rabbit'.inflight = r.inflight
        /\ rabbit'.on_open_cbs = r.on_open_cbs /\ rabbit'.lost = r.lost /\ rabbit'.ran = r.ran
        /\ rabbit'.waiting = ws /\ rabbit'.consumers = rabbit.consumers
    BY <1>6, <2>2, <2>3 DEF Whole, RabbitFields
  <2>5. /\ waiting' = ws /\ asked' = ItemsOf(ws)
        /\ notices' = b["notify_tornado"] /\ jobs' = b["jobs"]
        /\ notices = r.ready["notify_tornado"] /\ jobs = r.ready["jobs"]
    BY <1>6, <2>4 DEF waiting, asked, notices, jobs
  <2>6. \/ e \in JobItems /\ notices' = notices /\ jobs' = jobs \o t
        \/ e \in NoticeItems /\ notices' = notices \o t /\ jobs' = jobs
    BY <2>1, <2>3, <2>5 DEF QueueNames
  <2> QED
    BY <1>3, <1>4, <1>5, <1>t, <1>6, <2>4, <2>5, <2>6 DEF inflight, cbs
<1> QED
  BY <1>8, <1>9

ItemsIn(cs) == [i \in DOMAIN cs |-> cs[i].item]

(* The callbacks in _on_open_cbs that have not run, as the ones behind ran. *)
LEMMA UnsentFacts ==
  ASSUME NEW cs \in Seq(JobCallbacks), NEW ran \in 0..Len(cs)
  PROVE  /\ Unsent(cs, ran) \in Seq(JobItems) /\ ItemsIn(cs) \in Seq(JobItems)
         /\ Published(cs) = About(ItemsIn(cs)) /\ About(Unsent(cs, ran)) \subseteq Published(cs)
         /\ Published(cs) \subseteq Jobs
         /\ \A j \in Jobs : j \notin Published(SubSeq(cs, 1, ran)) =>
              /\ j \in Published(cs) => j \in About(Unsent(cs, ran))
              /\ Once(Unsent(cs, ran), j) => Once(ItemsIn(cs), j)
         /\ ran = Len(cs) => Unsent(cs, ran) = <<>>
<1> DEFINE n == Len(cs)
           u == Unsent(cs, ran)
           all == ItemsIn(cs)
           old == SubSeq(cs, 1, ran)
<1>1. n \in Nat /\ DOMAIN cs = 1..n /\ \A i \in 1..n : cs[i] \in JobCallbacks
  BY LenProperties, ElementOfSeq
<1>2. \A cb \in JobCallbacks : cb.item \in JobItems /\ cb.item.about \in Jobs
  BY DEF JobCallbacks, JobItems
<1>3. ran \in 0..n /\ ran \in Nat /\ n - ran \in Nat
  BY <1>1
<1>4. /\ u = [i \in 1..(n - ran) |-> cs[ran + i].item]
      /\ all = [i \in 1..n |-> cs[i].item]
  BY <1>1 DEF Unsent, ItemsIn
<1>5. DOMAIN old = 1..ran /\ \A i \in 1..ran : old[i] = cs[i]
  <2>1. /\ old \in Seq(JobCallbacks) /\ Len(old) = ran
        /\ \A i \in 1..ran : old[i] = cs[1 + i - 1]
    BY <1>1, <1>3, SubSeqProperties
  <2>2. \A i \in 1..ran : 1 + i - 1 = i
    BY <1>3
  <2> QED
    BY <2>1, <2>2, LenProperties
<1> HIDE DEF n, u, all, old
<1>6. \A i \in 1..(n - ran) : ran + i \in 1..n
  BY <1>1, <1>3
<1>7. u \in [1..(n - ran) -> JobItems] /\ all \in [1..n -> JobItems]
  BY <1>1, <1>2, <1>4, <1>6
<1>8. u \in Seq(JobItems) /\ all \in Seq(JobItems)
  BY <1>1, <1>3, <1>7, IsASeq
<1>9. Published(cs) = About(all) /\ Published(cs) \subseteq Jobs
  <2>1. \A i \in 1..n : cs[i].item.about \in Jobs /\ cs[i].item.about # Consume.about
    BY <1>1, <1>2, Kinds
  <2> QED
    BY <1>1, <1>4, <2>1 DEF Published, About
<1>10. About(u) \subseteq Published(cs)
  <2>1. \A i \in 1..(n - ran) : u[i] = all[ran + i]
    BY <1>4, <1>6
  <2>2. DOMAIN u = 1..(n - ran) /\ DOMAIN all = 1..n
    BY <1>4
  <2> QED
    BY <1>6, <1>9, <2>1, <2>2 DEF About
<1>11. ASSUME NEW j \in Jobs, j \notin Published(old)
       PROVE  (j \in Published(cs) => j \in About(u)) /\ (Once(u, j) => Once(all, j))
  <2>1. j # Consume.about
    BY Kinds
  <2>2. \A i \in 1..ran : cs[i].item.about # j
    BY <1>5, <1>11, <2>1 DEF Published
  <2>3. ASSUME NEW i \in 1..n, all[i].about = j
        PROVE  i - ran \in 1..(n - ran) /\ u[i - ran].about = j
    <3>1. cs[i].item.about = j
      BY <1>4, <2>3
    <3>2. i \notin 1..ran
      BY <2>2, <3>1
    <3>3. i - ran \in 1..(n - ran) /\ ran + (i - ran) = i
      BY <1>1, <1>3, <3>2
    <3>4. u[i - ran] = cs[ran + (i - ran)].item
      BY <1>4, <3>3
    <3> QED
      BY <3>1, <3>3, <3>4
  <2>4. DOMAIN u = 1..(n - ran) /\ DOMAIN all = 1..n
    BY <1>4
  <2>5. j \in About(all) => j \in About(u)
    <3>1. \A i \in DOMAIN all : all[i].about = j => \E k \in DOMAIN u : u[k].about = j
      BY <2>3, <2>4
    <3> QED
      BY <3>1 DEF About
  <2>6. ASSUME Once(u, j), NEW i \in 1..n, NEW k \in 1..n, all[i].about = j, all[k].about = j
        PROVE  i = k
    <3>1. i - ran = k - ran
      BY <2>3, <2>4, <2>6 DEF Once
    <3> QED
      BY <1>1, <1>3, <3>1
  <2> QED
    BY <1>9, <2>4, <2>5, <2>6 DEF Once
<1>12. ran = n => u = <<>>
  BY <1>1, <1>4
<1> QED
  BY <1>8, <1>9, <1>10, <1>11, <1>12 DEF n, u, all, old

(* A callback that is added to _on_open_cbs has not run. *)
LEMMA UnsentAppended ==
  ASSUME NEW cs \in Seq(JobCallbacks), NEW ran \in 0..Len(cs), NEW c \in JobCallbacks
  PROVE  /\ Unsent(Append(cs, c), ran) = Unsent(cs, ran) \o <<c.item>>
         /\ Published(Append(cs, c)) = Published(cs) \cup {c.item.about}
<1> DEFINE n == Len(cs)
           u == Unsent(cs, ran)
           d == Append(cs, c)
           v == Unsent(d, ran)
           e == c.item
<1>1. n \in Nat /\ DOMAIN cs = 1..n /\ ran \in 0..n /\ ran \in Nat /\ n - ran \in Nat
  BY LenProperties
<1>2. /\ d \in Seq(JobCallbacks) /\ Len(d) = n + 1 /\ DOMAIN d = 1..(n + 1)
      /\ \A i \in 1..n : d[i] = cs[i]
      /\ d[n + 1] = c
  BY AppendProperties, LenProperties
<1>3. u \in Seq(JobItems) /\ e \in JobItems
  BY UnsentFacts DEF JobCallbacks
<1>4. /\ u = [i \in 1..(n - ran) |-> cs[ran + i].item]
      /\ v = [i \in 1..(n + 1 - ran) |-> d[ran + i].item]
  BY <1>2 DEF Unsent
<1>5. Published(d) = Published(cs) \cup {e.about}
  <2>1. e.about # Consume.about
    BY Kinds DEF JobCallbacks, JobItems
  <2> HIDE DEF n, d
  <2>2. \A i \in DOMAIN d : (i \in DOMAIN cs /\ d[i] = cs[i]) \/ d[i] = c
    BY <1>1, <1>2
  <2>3. /\ \A i \in DOMAIN cs : i \in DOMAIN d /\ d[i] = cs[i]
        /\ \E i \in DOMAIN d : d[i] = c
    BY <1>1, <1>2
  <2> QED
    BY <2>1, <2>2, <2>3 DEF Published
<1> HIDE DEF n, u, d, v
<1>6. Len(u) = n - ran /\ DOMAIN u = 1..(n - ran)
  <2>1. DOMAIN u = 1..(n - ran)
    BY <1>4
  <2>2. u \in [1..(n - ran) -> JobItems]
    <3>1. \A i \in 1..(n - ran) : ran + i \in 1..n
      BY <1>1
    <3>2. \A i \in 1..n : cs[i] \in JobCallbacks
      BY ElementOfSeq DEF n
    <3> QED
      BY <1>4, <3>1, <3>2 DEF JobCallbacks
  <2> QED
    BY <1>1, <2>1, <2>2, IsASeq, LenProperties
<1>7. v \in Seq(JobItems) /\ Len(v) = n + 1 - ran
  <2>1. \A i \in 1..(n + 1 - ran) : ran + i \in 1..(n + 1)
    BY <1>1
  <2>2. \A i \in 1..(n + 1) : d[i] \in JobCallbacks
    BY <1>2, ElementOfSeq
  <2>3. v \in [1..(n + 1 - ran) -> JobItems]
    BY <1>4, <2>1, <2>2 DEF JobCallbacks
  <2>4. n + 1 - ran \in Nat
    BY <1>1
  <2> QED
    BY <2>3, <2>4, IsASeq, LenProperties
<1> HIDE DEF e
<1>8. /\ Append(u, e) \in Seq(JobItems) /\ Len(Append(u, e)) = n - ran + 1
      /\ \A i \in 1..(n - ran) : Append(u, e)[i] = u[i]
      /\ Append(u, e)[n - ran + 1] = e
  BY <1>3, <1>6, AppendProperties
<1> DEFINE w == Append(u, e)
<1>9. \A i \in 1..(n + 1 - ran) : v[i] = w[i]
  <2> SUFFICES ASSUME NEW i \in 1..(n + 1 - ran) PROVE v[i] = w[i]
    OBVIOUS
  <2>1. CASE i \in 1..(n - ran)
    <3>1. ran + i \in 1..n
      BY <1>1, <2>1
    <3> QED
      BY <1>2, <1>4, <1>8, <2>1, <3>1
  <2>2. CASE i = n - ran + 1
    <3>1. ran + i = n + 1
      BY <1>1, <2>2
    <3> QED
      BY <1>2, <1>4, <1>8, <2>2, <3>1 DEF e
  <2>3. i \in 1..(n - ran) \/ i = n - ran + 1
    BY <1>1
  <2> QED
    BY <2>1, <2>2, <2>3
<1>10. w \in Seq(JobItems) /\ Len(w) = Len(v)
  BY <1>1, <1>7, <1>8
<1> HIDE DEF w
<1>11. v = w
  BY <1>7, <1>9, <1>10, SeqEqual
<1> QED
  BY <1>3, <1>5, <1>11, AppendIsConcat DEF w, u, v, d, e

(* Where the items that ensure_queue was called for have gone: d to the    *)
(* queue, a to those that wait for an answer, or all to what is lost.      *)
Placed(w, d, a, gone) ==
  \/ d = w /\ a = <<>>
  \/ d = <<>> /\ a = w
  \/ d = <<>> /\ a = <<>> /\ About(w) \subseteq gone

(* Placed items are in one place or lost, and are none but those published. *)
LEMMA PlacedFacts ==
  ASSUME NEW S, NEW w \in Seq(S), NEW d, NEW a, NEW gone, Placed(w, d, a, gone)
  PROVE  /\ d \in Seq(S) /\ a \in Seq(S)
         /\ About(d) \subseteq About(w) /\ About(a) \subseteq About(w)
         /\ About(w) \subseteq About(d) \cup About(a) \cup gone
         /\ \A x : ~ (x \in About(d) /\ x \in About(a))
         /\ \A x : Once(w, x) => Once(d, x) /\ Once(a, x)
<1>1. <<>> \in Seq(S) /\ About(<<>>) = {} /\ \A x : Once(<<>>, x)
  BY Empty
<1> QED
  BY <1>1 DEF Placed

(* ensure_queue places its items. *)
LEMMA GrownFacts ==
  ASSUME NEW r, NEW s, NEW queue \in QueueNames, NEW w \in Seq(ItemsFor(queue)),
         Grown(r, s, queue, w), r.waiting \in Seq(Waiting), r.ready[queue] \in Seq(ItemsFor(queue))
  PROVE  /\ s.waiting \in Seq(Waiting) /\ r.lost \subseteq s.lost
         /\ \E d, a : /\ Placed(w, d, a, s.lost) /\ (d # <<>> => r.conn = "open")
                      /\ s.ready[queue] = r.ready[queue] \o d
                      /\ ItemsOf(s.waiting) = ItemsOf(r.waiting) \o a
<1>1. Asked(queue, w) \in Seq(Waiting) /\ ItemsOf(Asked(queue, w)) = w
  BY AskedFacts
<1>2. /\ r.waiting \o Asked(queue, w) \in Seq(Waiting)
      /\ ItemsOf(r.waiting \o Asked(queue, w)) = ItemsOf(r.waiting) \o w
      /\ ItemsOf(r.waiting) \in Seq(AnyItem)
  BY <1>1, ItemsJoined, ConcatProperties
<1>3. r.ready[queue] \o <<>> = r.ready[queue] /\ ItemsOf(r.waiting) \o <<>> = ItemsOf(r.waiting)
  BY <1>2, Empty
<1>4. CASE /\ r.conn = "open" /\ s.ready[queue] = r.ready[queue] \o w
           /\ s.waiting = r.waiting /\ s.lost = r.lost
  <2>1. Placed(w, w, <<>>, s.lost)
    BY DEF Placed
  <2> QED
    BY <1>3, <1>4, <2>1
<1>5. CASE /\ r.conn # "open" /\ s.ready[queue] = r.ready[queue]
           /\ s.waiting = r.waiting /\ s.lost = r.lost \cup About(w)
  <2>1. Placed(w, <<>>, <<>>, s.lost)
    BY <1>5 DEF Placed
  <2> QED
    BY <1>3, <1>5, <2>1
<1>6. CASE /\ s.ready[queue] = r.ready[queue]
           /\ s.waiting = r.waiting \o Asked(queue, w) /\ s.lost = r.lost
  <2>1. Placed(w, <<>>, w, s.lost)
    BY DEF Placed
  <2>2. ItemsOf(s.waiting) = ItemsOf(r.waiting) \o w /\ s.waiting \in Seq(Waiting)
    BY <1>2, <1>6
  <2> QED
    BY <1>3, <1>6, <2>1, <2>2
<1> QED
  BY <1>4, <1>5, <1>6 DEF Grown

(* All of _on_open_cbs, and the consumer, wait for their queues. *)
LEMMA OnChannelOpenFields ==
  ASSUME Typed, OnChannelOpen
  PROVE  /\ Whole(rabbit') /\ rabbit.conn = "opening" /\ rabbit'.conn = "open"
         /\ rabbit'.queues = rabbit.queues
         /\ notices' = notices /\ jobs' = jobs /\ inflight' = inflight /\ cbs' = cbs
         /\ rabbit'.consumers = rabbit.consumers /\ rabbit'.lost = rabbit.lost
         /\ rabbit'.ran = Len(cbs)
         /\ waiting' \in Seq(Waiting) /\ asked = <<>> /\ ItemsIn(cbs) \in Seq(JobItems)
         /\ asked' = ItemsIn(cbs) \o <<Consume>>
<1> DEFINE d == Append(cbs, ConsumeNotices)
           ws == waiting \o Declared(d)
<1>1. /\ rabbit' = [rabbit EXCEPT !.conn = "open", !.ran = Len(cbs), !.waiting = ws]
      /\ rabbit.conn = "opening"
  BY DEF OnChannelOpen, cbs, waiting
<1>2. cbs \in Seq(JobCallbacks) /\ waiting = <<>> /\ rabbit.ran \in 0..Len(cbs)
  BY <1>1 DEF Typed
<1>3. d \in Seq(Callback) /\ Len(d) = Len(cbs) + 1
      /\ \A i \in 1..Len(cbs) : d[i] = cbs[i]
      /\ d[Len(cbs) + 1] = ConsumeNotices
  <2>1. cbs \in Seq(Callback) /\ ConsumeNotices \in Callback
    <3>1. \A i \in 1..Len(cbs) : cbs[i] \in JobCallbacks
      BY <1>2, ElementOfSeq
    <3>2. cbs \in [1..Len(cbs) -> Callback] /\ Len(cbs) \in Nat
      BY <1>2, <3>1, LenProperties DEF Callback
    <3> QED
      BY <3>2, IsASeq DEF Callback
  <2> QED
    BY <2>1, AppendProperties
<1>4. /\ Declared(d) \in Seq(Waiting) /\ DOMAIN Declared(d) = DOMAIN d
      /\ \A i \in DOMAIN d : Declared(d)[i] = [cb |-> d[i], stage |-> "queue_declare"]
  BY <1>3, DeclaredFacts
<1>5. ws = Declared(d)
  BY <1>2, <1>4, Empty
<1> DEFINE u == ItemsIn(cbs) \o <<Consume>>
           v == ItemsOf(Declared(d))
<1>6. ItemsIn(cbs) \in Seq(JobItems) /\ Len(ItemsIn(cbs)) = Len(cbs) /\ Len(cbs) \in Nat
      /\ DOMAIN cbs = 1..Len(cbs)
  <2>1. ItemsIn(cbs) \in Seq(JobItems)
    BY <1>2, UnsentFacts
  <2> QED
    BY <1>2, <2>1, LenProperties DEF ItemsIn
<1>7. v \in Seq(AnyItem) /\ Len(v) = Len(cbs) + 1
  <2>1. v \in Seq(AnyItem)
    BY <1>4, ItemsJoined
  <2>2. DOMAIN v = 1..(Len(cbs) + 1)
    BY <1>3, <1>4, LenProperties DEF ItemsOf
  <2> QED
    BY <1>6, <2>1, <2>2, LenProperties
<1>8. u \in Seq(AnyItem) /\ Len(u) = Len(cbs) + 1
      /\ \A i \in 1..(Len(cbs) + 1) : u[i] = IF i <= Len(cbs) THEN ItemsIn(cbs)[i] ELSE Consume
  <2>1. ItemsIn(cbs) \in Seq(AnyItem) /\ <<Consume>> \in Seq(AnyItem)
    <3>1. ItemsIn(cbs) \in [1..Len(cbs) -> AnyItem]
      <4>1. \A i \in 1..Len(cbs) : ItemsIn(cbs)[i] \in JobItems
        BY <1>6, ElementOfSeq
      <4>2. ItemsIn(cbs) = [i \in 1..Len(cbs) |-> ItemsIn(cbs)[i]]
        BY <1>6 DEF ItemsIn
      <4> QED
        BY <4>1, <4>2 DEF AnyItem
    <3> QED
      BY <1>6, <3>1, IsASeq DEF AnyItem
  <2> DEFINE a == ItemsIn(cbs)
             b == <<Consume>>
  <2>2. Len(b) = 1 /\ b[1] = Consume
    OBVIOUS
  <2> HIDE DEF a, b
  <2>3. a \in Seq(AnyItem) /\ b \in Seq(AnyItem) /\ Len(a) = Len(cbs)
    BY <1>6, <2>1 DEF a, b
  <2>4. /\ a \o b \in Seq(AnyItem) /\ Len(a \o b) = Len(a) + Len(b)
        /\ \A i \in 1..(Len(a) + Len(b)) : (a \o b)[i] = IF i <= Len(a) THEN a[i] ELSE b[i - Len(a)]
    BY <2>3, ConcatProperties
  <2>5. \A i \in 1..(Len(cbs) + 1) : ~ (i <= Len(cbs)) => i - Len(cbs) = 1
    BY <1>6
  <2>6. a \o b = u
    BY DEF a, b
  <2> HIDE DEF u
  <2>7. \A i \in 1..(Len(cbs) + 1) : u[i] = IF i <= Len(cbs) THEN a[i] ELSE Consume
    BY <2>2, <2>3, <2>4, <2>5, <2>6
  <2> QED
    BY <2>2, <2>3, <2>4, <2>6, <2>7 DEF a
<1> HIDE DEF u, v
<1>9. \A i \in 1..(Len(cbs) + 1) : v[i] = u[i]
  <2> SUFFICES ASSUME NEW i \in 1..(Len(cbs) + 1) PROVE v[i] = u[i]
    OBVIOUS
  <2>1. i \in DOMAIN d
    BY <1>3, LenProperties
  <2>2. v[i] = d[i].item
    BY <1>4, <2>1 DEF v, ItemsOf
  <2>3. CASE i <= Len(cbs)
    <3>1. i \in 1..Len(cbs)
      BY <1>6, <2>3
    <3>2. ItemsIn(cbs)[i] = cbs[i].item
      BY <1>6, <3>1 DEF ItemsIn
    <3> QED
      BY <1>3, <1>8, <2>2, <2>3, <3>1, <3>2
  <2>4. CASE ~ (i <= Len(cbs))
    <3>1. i = Len(cbs) + 1
      BY <1>6, <2>4
    <3>2. d[i].item = Consume
      BY <1>3, <3>1 DEF ConsumeNotices
    <3> QED
      BY <1>8, <2>2, <2>4, <3>2
  <2> QED
    BY <2>3, <2>4
<1>10. v = u
  BY <1>7, <1>8, <1>9, SeqEqual
<1> HIDE DEF ws, d
<1>11. /\ Whole(rabbit') /\ rabbit'.conn = "open" /\ rabbit'.queues = rabbit.queues
       /\ rabbit'.ready = rabbit.ready /\ rabbit'.inflight = rabbit.inflight
       /\ rabbit'.on_open_cbs = rabbit.on_open_cbs
       /\ rabbit'.consumers = rabbit.consumers /\ rabbit'.lost = rabbit.lost
       /\ rabbit'.ran = Len(cbs) /\ rabbit'.waiting = ws
  BY <1>1 DEF Typed, Whole, RabbitFields
<1>12. asked = <<>>
  BY <1>2 DEF asked, ItemsOf
<1>13. waiting' = ws /\ asked' = v
  BY <1>5, <1>11 DEF waiting, asked, v
<1> QED
  BY <1>1, <1>4, <1>5, <1>6, <1>10, <1>11, <1>12, <1>13 DEF u, notices, jobs, inflight, cbs

(* The unacknowledged notices are ready again. *)
LEMMA ConnectionEndsFields ==
  ASSUME Typed, ConnectionEnds
  PROVE  /\ Whole(rabbit') /\ rabbit.conn = "open" /\ rabbit'.conn = "stale"
         /\ rabbit'.queues = rabbit.queues /\ rabbit'.consumers = 0
         /\ notices' = inflight \o notices /\ jobs' = jobs /\ cbs' = cbs
         /\ inflight' \in Seq(NoticeItems) /\ DOMAIN inflight' \subseteq DOMAIN inflight
         /\ \A i \in DOMAIN inflight' : inflight'[i] = inflight[i]
         /\ rabbit'.lost = rabbit.lost /\ rabbit'.ran = rabbit.ran
         /\ waiting' = waiting /\ asked' = asked
<1>1. PICK received \in 0..Len(inflight) :
        rabbit' = [rabbit EXCEPT !.conn = "stale", !.consumers = 0,
                                 !.ready["notify_tornado"] = inflight \o @,
                                 !.inflight = SubSeq(@, 1, received)]
  BY DEF ConnectionEnds, inflight
<1> DEFINE t == [rabbit.ready EXCEPT !["notify_tornado"] = inflight \o notices]
           f == SubSeq(inflight, 1, received)
<1>2. rabbit' = [rabbit EXCEPT !.conn = "stale", !.consumers = 0, !.ready = t, !.inflight = f]
  BY <1>1 DEF inflight, notices
<1>3. inflight \in Seq(NoticeItems) /\ Len(inflight) \in Nat /\ DOMAIN inflight = 1..Len(inflight)
  BY LenProperties DEF Typed
<1>4. /\ f \in Seq(NoticeItems) /\ DOMAIN f \subseteq DOMAIN inflight
      /\ \A i \in DOMAIN f : f[i] = inflight[i]
  <2>1. /\ f \in Seq(NoticeItems) /\ Len(f) = received
        /\ \A i \in 1..received : f[i] = inflight[1 + i - 1]
    BY <1>3, SubSeqProperties
  <2>2. \A i \in 1..received : 1 + i - 1 = i
    BY <1>3
  <2>3. DOMAIN f = 1..received
    BY <2>1, LenProperties
  <2> HIDE DEF f
  <2> QED
    BY <1>3, <2>1, <2>2, <2>3
<1>5. DOMAIN t = QueueNames /\ t["notify_tornado"] = inflight \o notices /\ t["jobs"] = jobs
  BY DEF Typed, Whole, QueueNames, jobs
<1> HIDE DEF t, f
<1>6. /\ Whole(rabbit') /\ rabbit'.conn = "stale" /\ rabbit'.queues = rabbit.queues
      /\ rabbit'.ready = t /\ rabbit'.inflight = f /\ rabbit'.consumers = 0
      /\ rabbit'.on_open_cbs = rabbit.on_open_cbs
      /\ rabbit'.lost = rabbit.lost
      /\ rabbit'.ran = rabbit.ran /\ rabbit'.waiting = rabbit.waiting
  BY <1>2, <1>5 DEF Typed, Whole, RabbitFields
<1>7. rabbit.conn = "open"
  BY DEF ConnectionEnds
<1>8. notices' = inflight \o notices /\ jobs' = jobs /\ inflight' = f
  BY <1>5, <1>6 DEF notices, jobs, inflight
<1>9. cbs' = cbs /\ waiting' = waiting /\ asked' = asked
  BY <1>6 DEF cbs, waiting, asked
<1> QED
  BY <1>4, <1>6, <1>7, <1>8, <1>9

(* What waits on the old channel is lost. *)
LEMMA OnConnectionClosedFields ==
  ASSUME Typed, OnConnectionClosed
  PROVE  /\ Whole(rabbit') /\ rabbit.conn = "stale" /\ rabbit'.conn = "closed"
         /\ rabbit'.queues = rabbit.queues /\ rabbit'.consumers = rabbit.consumers
         /\ notices' = notices /\ jobs' = jobs /\ cbs' = cbs
         /\ inflight' = <<>> /\ waiting' = <<>> /\ asked' = <<>>
         /\ rabbit'.lost = rabbit.lost \cup Published(Callbacks(waiting))
         /\ rabbit'.ran = rabbit.ran
<1>1. /\ rabbit.conn = "stale"
      /\ rabbit' = [rabbit EXCEPT !.conn = "closed", !.inflight = <<>>, !.waiting = <<>>,
                                  !.lost = rabbit.lost \cup Published(Callbacks(waiting))]
  BY DEF OnConnectionClosed, waiting
<1>2. /\ Whole(rabbit') /\ rabbit'.conn = "closed" /\ rabbit'.queues = rabbit.queues
      /\ rabbit'.ready = rabbit.ready /\ rabbit'.inflight = <<>> /\ rabbit'.consumers = rabbit.consumers
      /\ rabbit'.on_open_cbs = rabbit.on_open_cbs
      /\ rabbit'.lost = rabbit.lost \cup Published(Callbacks(waiting))
      /\ rabbit'.ran = rabbit.ran /\ rabbit'.waiting = <<>>
  BY <1>1 DEF Typed, Whole, RabbitFields
<1> QED
  BY <1>1, <1>2 DEF notices, jobs, cbs, inflight, waiting, asked, ItemsOf

(* Nothing moves while the channel opens. *)
LEMMA ReconnectFields ==
  ASSUME Typed, Reconnect
  PROVE  /\ Whole(rabbit') /\ rabbit.conn = "closed" /\ rabbit'.conn = "opening"
         /\ rabbit'.queues = {} /\ rabbit'.consumers = rabbit.consumers
         /\ notices' = notices /\ jobs' = jobs /\ cbs' = cbs
         /\ inflight' = inflight /\ waiting' = waiting /\ asked' = asked
         /\ rabbit'.lost = rabbit.lost /\ rabbit'.ran = rabbit.ran
<1>1. rabbit.conn = "closed" /\ rabbit' = [rabbit EXCEPT !.conn = "opening", !.queues = {}]
  BY DEF Reconnect
<1>2. /\ Whole(rabbit') /\ rabbit'.conn = "opening" /\ rabbit'.queues = {}
      /\ rabbit'.ready = rabbit.ready /\ rabbit'.inflight = rabbit.inflight
      /\ rabbit'.consumers = rabbit.consumers
      /\ rabbit'.on_open_cbs = rabbit.on_open_cbs /\ rabbit'.lost = rabbit.lost
      /\ rabbit'.ran = rabbit.ran /\ rabbit'.waiting = rabbit.waiting
  BY <1>1 DEF Typed, Whole, RabbitFields
<1> QED
  BY <1>1, <1>2 DEF notices, jobs, cbs, inflight, waiting, asked, ItemsOf

(* The notices Tornado had are ready again; its callbacks are lost. *)
LEMMA RestartFields ==
  ASSUME Typed, RestartTornado
  PROVE  /\ Whole(rabbit') /\ rabbit'.conn = "opening"
         /\ rabbit'.queues = {} /\ rabbit'.consumers = 0 /\ rabbit'.ran = 0
         /\ notices' = IF rabbit.conn = "open" THEN inflight \o notices ELSE notices
         /\ jobs' = jobs
         /\ cbs' = <<>> /\ inflight' = <<>> /\ waiting' = <<>> /\ asked' = <<>>
         /\ rabbit'.lost = rabbit.lost \cup Published(Callbacks(waiting)) \cup Published(cbs)
<1> DEFINE v == IF rabbit.conn = "open" THEN inflight \o notices ELSE notices
           t == [rabbit.ready EXCEPT !["notify_tornado"] = v]
           l == rabbit.lost \cup Published(Callbacks(waiting)) \cup Published(cbs)
<1>1. rabbit' = [rabbit EXCEPT !.conn = "opening", !.queues = {}, !.consumers = 0, !.ran = 0,
                               !.waiting = <<>>, !.on_open_cbs = <<>>, !.inflight = <<>>,
                               !.ready = t, !.lost = l]
  BY DEF RestartTornado, inflight, notices, waiting, cbs
<1>2. DOMAIN t = QueueNames /\ t["notify_tornado"] = v /\ t["jobs"] = jobs
  BY DEF Typed, Whole, QueueNames, jobs
<1> HIDE DEF v, t, l
<1>3. /\ Whole(rabbit') /\ rabbit'.conn = "opening" /\ rabbit'.queues = {}
      /\ rabbit'.ready = t /\ rabbit'.inflight = <<>> /\ rabbit'.consumers = 0
      /\ rabbit'.on_open_cbs = <<>> /\ rabbit'.lost = l
      /\ rabbit'.ran = 0 /\ rabbit'.waiting = <<>>
  BY <1>1, <1>2 DEF Typed, Whole, RabbitFields
<1>4. waiting' = <<>> /\ asked' = <<>> /\ cbs' = <<>> /\ inflight' = <<>>
  BY <1>3 DEF waiting, asked, cbs, inflight, ItemsOf
<1>5. notices' = v /\ jobs' = jobs
  BY <1>2, <1>3 DEF notices, jobs
<1> QED
  BY <1>3, <1>4, <1>5 DEF v, l

(* The steps that change only what is ready, and perhaps what is lost. *)
Connected ==
  /\ Whole(rabbit') /\ rabbit'.conn = rabbit.conn /\ rabbit'.queues = rabbit.queues
  /\ rabbit'.consumers = rabbit.consumers /\ rabbit'.ran = rabbit.ran
  /\ cbs' = cbs /\ waiting' = waiting /\ asked' = asked

(* The copies of a notice are last in the queue. *)
LEMMA DjangoPublishFields ==
  ASSUME Typed, NEW n \in 1..NumNotices, NEW copies \in 0..2, DjangoPublish(n, copies)
  PROVE  /\ Connected /\ jobs' = jobs /\ inflight' = inflight
         /\ notices' = notices \o [i \in 1..copies |-> NewItem(<<n, 0>>)]
         /\ rabbit.lost \subseteq rabbit'.lost
         /\ copies = 0 => <<n, 0>> \in rabbit'.lost
<1> DEFINE v == notices \o [i \in 1..copies |-> NewItem(<<n, 0>>)]
           t == [rabbit.ready EXCEPT !["notify_tornado"] = v]
           l == IF copies = 0 THEN rabbit.lost \cup {<<n, 0>>} ELSE rabbit.lost
<1>1. rabbit' = [rabbit EXCEPT !.ready = t, !.lost = l]
  BY DEF DjangoPublish, notices
<1>2. DOMAIN t = QueueNames /\ t["notify_tornado"] = v /\ t["jobs"] = jobs
  BY DEF Typed, Whole, QueueNames, jobs
<1>3. rabbit.lost \subseteq l /\ (copies = 0 => <<n, 0>> \in l)
  OBVIOUS
<1> HIDE DEF v, t, l
<1>4. /\ Whole(rabbit') /\ rabbit'.conn = rabbit.conn /\ rabbit'.queues = rabbit.queues
      /\ rabbit'.ready = t /\ rabbit'.inflight = rabbit.inflight
      /\ rabbit'.consumers = rabbit.consumers
      /\ rabbit'.on_open_cbs = rabbit.on_open_cbs /\ rabbit'.lost = l
      /\ rabbit'.ran = rabbit.ran /\ rabbit'.waiting = rabbit.waiting
  BY <1>1, <1>2 DEF Typed, Whole, RabbitFields
<1>5. Connected /\ inflight' = inflight
  BY <1>4 DEF Connected, cbs, waiting, asked, inflight
<1>6. notices' = v /\ jobs' = jobs
  BY <1>2, <1>4 DEF notices, jobs
<1> QED
  BY <1>3, <1>4, <1>5, <1>6 DEF v

(* The first notice that is ready goes to Tornado. *)
LEMMA DeliverFields ==
  ASSUME Typed, Deliver
  PROVE  /\ Connected /\ rabbit.conn = "open" /\ jobs' = jobs /\ notices # <<>>
         /\ inflight' = Append(inflight, Head(notices)) /\ notices' = Tail(notices)
         /\ rabbit'.lost = rabbit.lost
<1> DEFINE v == Tail(notices)
           t == [rabbit.ready EXCEPT !["notify_tornado"] = v]
           f == Append(inflight, Head(notices))
<1>1. rabbit' = [rabbit EXCEPT !.ready = t, !.inflight = f] /\ rabbit.conn = "open" /\ notices # <<>>
  BY DEF Deliver, notices, inflight
<1>2. DOMAIN t = QueueNames /\ t["notify_tornado"] = v /\ t["jobs"] = jobs
  BY DEF Typed, Whole, QueueNames, jobs
<1> HIDE DEF v, t, f
<1>4. /\ Whole(rabbit') /\ rabbit'.conn = rabbit.conn /\ rabbit'.queues = rabbit.queues
      /\ rabbit'.ready = t /\ rabbit'.inflight = f
      /\ rabbit'.consumers = rabbit.consumers
      /\ rabbit'.on_open_cbs = rabbit.on_open_cbs /\ rabbit'.lost = rabbit.lost
      /\ rabbit'.ran = rabbit.ran /\ rabbit'.waiting = rabbit.waiting
  BY <1>1, <1>2 DEF Typed, Whole, RabbitFields
<1>5. Connected /\ inflight' = f
  BY <1>4 DEF Connected, cbs, waiting, asked, inflight
<1>6. notices' = v /\ jobs' = jobs
  BY <1>2, <1>4 DEF notices, jobs
<1> QED
  BY <1>1, <1>4, <1>5, <1>6 DEF v, f

(* A step that only changes the queue of jobs. *)
LEMMA JobsFields ==
  ASSUME Typed, NEW v, rabbit' = [rabbit EXCEPT !.ready = [rabbit.ready EXCEPT !["jobs"] = v]]
  PROVE  Connected /\ notices' = notices /\ inflight' = inflight /\ jobs' = v
         /\ rabbit'.lost = rabbit.lost
<1> DEFINE t == [rabbit.ready EXCEPT !["jobs"] = v]
<1>1. rabbit' = [rabbit EXCEPT !.ready = t]
  OBVIOUS
<1>2. DOMAIN t = QueueNames /\ t["notify_tornado"] = notices /\ t["jobs"] = v
  BY DEF Typed, Whole, QueueNames, notices
<1> HIDE DEF t
<1>4. /\ Whole(rabbit') /\ rabbit'.conn = rabbit.conn /\ rabbit'.queues = rabbit.queues
      /\ rabbit'.ready = t /\ rabbit'.inflight = rabbit.inflight
      /\ rabbit'.consumers = rabbit.consumers
      /\ rabbit'.on_open_cbs = rabbit.on_open_cbs /\ rabbit'.lost = rabbit.lost
      /\ rabbit'.ran = rabbit.ran /\ rabbit'.waiting = rabbit.waiting
  BY <1>1, <1>2 DEF Typed, Whole, RabbitFields
<1>5. Connected /\ inflight' = inflight
  BY <1>4 DEF Connected, cbs, waiting, asked, inflight
<1>6. notices' = notices /\ jobs' = v
  BY <1>2, <1>4 DEF notices, jobs
<1> QED
  BY <1>4, <1>5, <1>6

(* The job is placed, or waits for the first channel. *)
LEMMA HookPublishFields ==
  ASSUME Typed, NEW j \in HookJobs, HookPublish(j)
  PROVE  /\ Whole(rabbit') /\ rabbit'.conn = rabbit.conn /\ rabbit.conn # "closed"
         /\ rabbit'.queues = rabbit.queues
         /\ rabbit'.consumers = rabbit.consumers /\ rabbit'.ran = rabbit.ran
         /\ inflight' = inflight /\ notices' = notices /\ rabbit.lost \subseteq rabbit'.lost
         /\ NewItem(j) \in JobItems
         /\ \/ /\ rabbit.conn = "opening"
               /\ jobs' = jobs /\ waiting' = waiting /\ asked' = asked
               /\ \E c \in JobCallbacks : c.item = NewItem(j) /\ cbs' = Append(cbs, c)
            \/ /\ rabbit.conn # "opening" /\ cbs' = cbs /\ waiting' \in Seq(Waiting)
               /\ \E d, a : /\ Placed(<<NewItem(j)>>, d, a, rabbit'.lost)
                            /\ jobs' = jobs \o d /\ asked' = asked \o a
<1> DEFINE e == NewItem(j)
           w == <<e>>
<1>1. e \in JobItems
  BY Kinds, BoundsAssumption DEF NewItem, JobItems
<1>2. rabbit' = ensure_queue(rabbit, "jobs", w) /\ rabbit.conn # "closed"
  BY DEF HookPublish
<1>3. w \in Seq(JobItems) /\ w # <<Consume>>
  <2>1. e # Consume
    BY <1>1, Kinds DEF JobItems
  <2>2. <<e>>[1] = e /\ <<Consume>>[1] = Consume
    OBVIOUS
  <2>3. <<e>> \in Seq(JobItems)
    BY <1>1, Single
  <2> HIDE DEF e
  <2> QED
    BY <2>1, <2>2, <2>3
<1>4. CASE rabbit.conn = "opening"
  <2> DEFINE c == [queue |-> "jobs", item |-> e]
  <2>1. "jobs" \notin rabbit.queues
    BY <1>4 DEF Typed
  <2>2. rabbit' = [rabbit EXCEPT !.on_open_cbs = cbs \o Publishing("jobs", w)]
    BY <1>2, <1>4, <2>1 DEF ensure_queue, cbs
  <2>3. Publishing("jobs", w) = <<c>>
    <3>1. DOMAIN w = {1} /\ w[1] = e
      OBVIOUS
    <3> HIDE DEF w, e
    <3>2. Publishing("jobs", w) = [i \in {1} |-> c]
      BY <3>1 DEF Publishing
    <3>3. <<c>> = [i \in {1} |-> c]
      <4> HIDE DEF c
      <4> QED
        OBVIOUS
    <3> QED
      BY <3>2, <3>3
  <2>4. c \in JobCallbacks /\ c.item = e
    BY <1>1 DEF JobCallbacks
  <2>5. cbs \o <<c>> = Append(cbs, c)
    <3> HIDE DEF c
    <3> QED
      BY <2>4, AppendIsConcat DEF Typed
  <2> HIDE DEF c, w
  <2>6. /\ Whole(rabbit') /\ rabbit'.conn = rabbit.conn /\ rabbit'.queues = rabbit.queues
        /\ rabbit'.ready = rabbit.ready /\ rabbit'.inflight = rabbit.inflight
        /\ rabbit'.consumers = rabbit.consumers
        /\ rabbit'.on_open_cbs = Append(cbs, c) /\ rabbit'.lost = rabbit.lost
        /\ rabbit'.ran = rabbit.ran /\ rabbit'.waiting = rabbit.waiting
    BY <2>2, <2>3, <2>5 DEF Typed, Whole, RabbitFields
  <2>7. /\ inflight' = inflight /\ notices' = notices /\ jobs' = jobs /\ waiting' = waiting
        /\ asked' = asked /\ cbs' = Append(cbs, c)
    BY <2>6 DEF inflight, notices, jobs, waiting, asked, cbs
  <2> QED
    BY <1>1, <1>2, <1>4, <2>4, <2>6, <2>7
<1>5. CASE rabbit.conn # "opening"
  <2>1. /\ "jobs" \in QueueNames /\ w \in Seq(ItemsFor("jobs")) /\ Whole(rabbit)
        /\ rabbit.waiting \in Seq(Waiting) /\ rabbit.ready["jobs"] \in Seq(ItemsFor("jobs"))
    BY <1>3 DEF ItemsFor, QueueNames, Typed, waiting, jobs
  <2> HIDE DEF w
  <2>2. Grown(rabbit, rabbit', "jobs", w)
    BY <1>2, <1>5, <2>1, EnsureQueueFacts
  <2>3. /\ rabbit'.waiting \in Seq(Waiting) /\ rabbit.lost \subseteq rabbit'.lost
        /\ \E d, a : /\ Placed(w, d, a, rabbit'.lost) /\ (d # <<>> => rabbit.conn = "open")
                     /\ rabbit'.ready["jobs"] = rabbit.ready["jobs"] \o d
                     /\ ItemsOf(rabbit'.waiting) = ItemsOf(rabbit.waiting) \o a
    BY <2>1, <2>2, GrownFacts, Zenon
  <2>4. /\ inflight' = inflight /\ notices' = notices /\ cbs' = cbs
    BY <2>2 DEF Grown, inflight, notices, cbs, QueueNames
  <2>5. /\ waiting' = rabbit'.waiting /\ asked' = ItemsOf(rabbit'.waiting)
        /\ asked = ItemsOf(rabbit.waiting) /\ jobs = rabbit.ready["jobs"] /\ jobs' = rabbit'.ready["jobs"]
    BY DEF waiting, asked, jobs
  <2>6. \E d, a : Placed(w, d, a, rabbit'.lost) /\ jobs' = jobs \o d /\ asked' = asked \o a
    BY <2>3, <2>5
  <2> QED
    BY <1>1, <1>2, <1>5, <2>2, <2>3, <2>4, <2>5, <2>6 DEF Grown, w
<1> QED
  BY <1>4, <1>5

(* The jobs that the processing of notice m publishes for the first users. *)
LEMMA JobsOfNotice ==
  ASSUME NEW m \in 1..NumNotices, NEW done \in 0..NumUsers
  PROVE  LET idle == Ascending((1..done) \cap Idle)
             w == [i \in DOMAIN idle |-> NewItem(<<m, idle[i]>>)]
         IN  /\ w \in Seq(JobItems) /\ \A a : Once(w, a)
             /\ About(w) = {<<m, u>> : u \in (1..done) \cap Idle}
<1> DEFINE S == (1..done) \cap Idle
           idle == Ascending(S)
           w == [i \in DOMAIN idle |-> NewItem(<<m, idle[i]>>)]
<1>1. done \in Nat /\ S \subseteq 1..done
  BY BoundsAssumption
<1>2. S \subseteq Idle
  OBVIOUS
<1> HIDE DEF S
<1>3. /\ idle \in Seq(S)
      /\ \A i, k \in DOMAIN idle : idle[i] = idle[k] => i = k
      /\ {idle[i] : i \in DOMAIN idle} = S
  BY <1>1, AscendingFacts
<1> HIDE DEF idle
<1>4. Len(idle) \in Nat /\ DOMAIN idle = 1..Len(idle) /\ \A i \in DOMAIN idle : idle[i] \in S
  BY <1>3, LenProperties, ElementOfSeq
<1>5. \A u \in S : NewItem(<<m, u>>) \in JobItems /\ NewItem(<<m, u>>).about = <<m, u>>
  BY <1>2, BoundsAssumption DEF NewItem, JobItems, Jobs
<1>6. DOMAIN w = DOMAIN idle /\ \A i \in DOMAIN idle : w[i] \in JobItems /\ w[i].about = <<m, idle[i]>>
  BY <1>4, <1>5
<1>7. w \in Seq(JobItems)
  <2>1. w \in [1..Len(idle) -> JobItems]
    BY <1>4, <1>6
  <2> QED
    BY <1>4, <2>1, IsASeq
<1> HIDE DEF w
<1>8. About(w) = {<<m, u>> : u \in S}
  <2>1. About(w) = {<<m, idle[i]>> : i \in DOMAIN idle}
    BY <1>6 DEF About
  <2> QED
    BY <1>3, <2>1
<1>9. \A a : Once(w, a)
  <2>1. \A i, k \in DOMAIN idle : <<m, idle[i]>> = <<m, idle[k]>> => i = k
    BY <1>3
  <2> QED
    BY <1>6, <2>1 DEF Once
<1> QED
  BY <1>7, <1>8, <1>9 DEF w, idle, S

(* The notice leaves, its jobs and its retry are placed. *)
LEMMA ProcessFields ==
  ASSUME Typed, NEW done \in 0..NumUsers, ProcessNotification(done)
  PROVE  LET h == Head(inflight)
         IN  /\ Whole(rabbit') /\ rabbit'.conn = rabbit.conn /\ rabbit.conn \in {"open", "stale"}
             /\ rabbit'.queues = rabbit.queues
             /\ rabbit'.consumers = rabbit.consumers /\ rabbit'.ran = rabbit.ran
             /\ inflight # <<>> /\ inflight' = Tail(inflight) /\ cbs' = cbs
             /\ rabbit.lost \subseteq rabbit'.lost /\ waiting' \in Seq(Waiting)
             /\ \E w \in Seq(JobItems), xs \in Seq(NoticeItems) : \E jd, ja, nd, na :
                  /\ About(w) = {<<h.about[1], u>> : u \in (1..done) \cap Idle}
                  /\ \A a : Once(w, a)
                  /\ About(xs) = IF done < NumUsers /\ CanRetry(h) THEN {h.about} ELSE {}
                  /\ Placed(w, jd, ja, rabbit'.lost) /\ Placed(xs, nd, na, rabbit'.lost)
                  /\ nd # <<>> => rabbit.conn = "open"
                  /\ jobs' = jobs \o jd /\ notices' = notices \o nd
                  /\ asked' = (asked \o ja) \o na
<1> DEFINE h == Head(inflight)
           m == h.about[1]
           idle == Ascending((1..done) \cap Idle)
           w == [i \in DOMAIN idle |-> NewItem(<<m, idle[i]>>)]
           r == [rabbit EXCEPT !.inflight = Tail(inflight)]
           s == ensure_queue(r, "jobs", w)
           x == Retried(h)
<1>1. /\ inflight # <<>> /\ rabbit.conn \in {"open", "stale"}
      /\ s = AfterUsers(h, done)
      /\ rabbit' = IF done < NumUsers /\ CanRetry(h) THEN ensure_queue(s, "notify_tornado", <<x>>) ELSE s
  BY DEF ProcessNotification, AfterUsers, inflight
<1>2. h \in NoticeItems /\ m \in 1..NumNotices
  <2>1. inflight \in Seq(NoticeItems)
    BY DEF Typed
  <2>2. h \in NoticeItems
    BY <1>1, <2>1, Taken
  <2> QED
    BY <2>2, Kinds DEF NoticeItems
<1>3. /\ w \in Seq(JobItems) /\ \A a : Once(w, a)
      /\ About(w) = {<<m, u>> : u \in (1..done) \cap Idle}
  BY <1>2, JobsOfNotice
<1>4. /\ Whole(r) /\ r.conn = rabbit.conn /\ r.queues = rabbit.queues /\ r.ready = rabbit.ready
      /\ r.inflight = Tail(inflight) /\ r.on_open_cbs = rabbit.on_open_cbs
      /\ r.consumers = rabbit.consumers /\ r.lost = rabbit.lost /\ r.ran = rabbit.ran
      /\ r.waiting = rabbit.waiting
  BY DEF Typed, Whole, RabbitFields
<1>5. /\ "jobs" \in QueueNames /\ "notify_tornado" \in QueueNames
      /\ ItemsFor("jobs") = JobItems /\ ItemsFor("notify_tornado") = NoticeItems
      /\ rabbit.waiting \in Seq(Waiting) /\ rabbit.ready["jobs"] \in Seq(JobItems)
      /\ rabbit.ready["notify_tornado"] \in Seq(NoticeItems)
  BY DEF QueueNames, ItemsFor, Typed, waiting, jobs, notices
<1> DEFINE go == done < NumUsers /\ CanRetry(h)
<1>xdef. go => x \in NoticeItems /\ x.about = h.about
  BY <1>2, BoundsAssumption DEF CanRetry, Retried, NoticeItems
<1> HIDE DEF w, r, s, x, h, go
<1>6. Grown(r, s, "jobs", w)
  BY <1>1, <1>3, <1>4, <1>5, EnsureQueueFacts DEF s
<1>7. /\ s.waiting \in Seq(Waiting) /\ rabbit.lost \subseteq s.lost
      /\ \E d, a : /\ Placed(w, d, a, s.lost)
                   /\ s.ready["jobs"] = rabbit.ready["jobs"] \o d
                   /\ ItemsOf(s.waiting) = ItemsOf(rabbit.waiting) \o a
  <2>1. /\ "jobs" \in QueueNames /\ w \in Seq(ItemsFor("jobs"))
        /\ r.waiting \in Seq(Waiting) /\ r.ready["jobs"] \in Seq(ItemsFor("jobs"))
    BY <1>3, <1>4, <1>5
  <2>2. /\ s.waiting \in Seq(Waiting) /\ r.lost \subseteq s.lost
        /\ \E d, a : /\ Placed(w, d, a, s.lost) /\ (d # <<>> => r.conn = "open")
                     /\ s.ready["jobs"] = r.ready["jobs"] \o d
                     /\ ItemsOf(s.waiting) = ItemsOf(r.waiting) \o a
    BY <1>6, <2>1, GrownFacts, Zenon
  <2> QED
    BY <1>4, <2>2
<1>8. /\ Whole(s) /\ s.conn = rabbit.conn /\ s.queues = rabbit.queues /\ s.inflight = Tail(inflight)
      /\ s.on_open_cbs = rabbit.on_open_cbs /\ s.consumers = rabbit.consumers /\ s.ran = rabbit.ran
      /\ s.ready["notify_tornado"] = rabbit.ready["notify_tornado"]
  BY <1>4, <1>6 DEF Grown, QueueNames
<1>9. PICK jd, ja : /\ Placed(w, jd, ja, s.lost)
                    /\ s.ready["jobs"] = rabbit.ready["jobs"] \o jd
                    /\ ItemsOf(s.waiting) = ItemsOf(rabbit.waiting) \o ja
  BY <1>7
<1>10. ASSUME NEW xs \in Seq(NoticeItems), NEW nd, NEW na,
              About(xs) = IF go THEN {h.about} ELSE {},
              Placed(xs, nd, na, rabbit'.lost), nd # <<>> => rabbit.conn = "open",
              Whole(rabbit'), rabbit'.conn = s.conn, rabbit'.queues = s.queues,
              rabbit'.inflight = s.inflight, rabbit'.on_open_cbs = s.on_open_cbs,
              rabbit'.consumers = s.consumers, rabbit'.ran = s.ran,
              rabbit'.ready["jobs"] = s.ready["jobs"],
              rabbit'.ready["notify_tornado"] = s.ready["notify_tornado"] \o nd,
              s.lost \subseteq rabbit'.lost, rabbit'.waiting \in Seq(Waiting),
              ItemsOf(rabbit'.waiting) = ItemsOf(s.waiting) \o na
       PROVE  /\ Whole(rabbit') /\ rabbit'.conn = rabbit.conn /\ rabbit.conn \in {"open", "stale"}
              /\ rabbit'.queues = rabbit.queues
              /\ rabbit'.consumers = rabbit.consumers /\ rabbit'.ran = rabbit.ran
              /\ inflight # <<>> /\ inflight' = Tail(inflight) /\ cbs' = cbs
              /\ rabbit.lost \subseteq rabbit'.lost /\ waiting' \in Seq(Waiting)
              /\ Placed(w, jd, ja, rabbit'.lost)
              /\ jobs' = jobs \o jd /\ notices' = notices \o nd
              /\ asked' = (asked \o ja) \o na
  <2>1. Placed(w, jd, ja, rabbit'.lost)
    BY <1>9, <1>10 DEF Placed
  <2>2. jobs' = jobs \o jd /\ notices' = notices \o nd
    BY <1>8, <1>9, <1>10 DEF jobs, notices
  <2>3. asked' = (asked \o ja) \o na
    BY <1>9, <1>10 DEF asked, waiting
  <2>4. inflight' = Tail(inflight) /\ cbs' = cbs /\ waiting' \in Seq(Waiting)
    BY <1>8, <1>10 DEF inflight, cbs, waiting
  <2> QED
    BY <1>1, <1>7, <1>8, <1>10, <2>1, <2>2, <2>3, <2>4
<1>11. CASE ~ go
  <2>1. rabbit' = s
    BY <1>1, <1>11 DEF go
  <2> DEFINE none == <<>>
  <2>2. /\ none \in Seq(NoticeItems) /\ About(none) = {}
        /\ Placed(none, none, none, rabbit'.lost)
        /\ s.ready["notify_tornado"] = s.ready["notify_tornado"] \o none
        /\ ItemsOf(s.waiting) = ItemsOf(s.waiting) \o none
    <3>1. ItemsOf(s.waiting) \in Seq(AnyItem)
      BY <1>7, ItemsJoined
    <3> QED
      BY <1>5, <1>8, <3>1, Empty DEF Placed
  <2>nn. none = <<>>
    OBVIOUS
  <2> HIDE DEF none
  <2>3. About(none) = IF go THEN {h.about} ELSE {}
    BY <1>11, <2>2
  <2>4. /\ Whole(rabbit') /\ rabbit'.conn = rabbit.conn /\ rabbit.conn \in {"open", "stale"}
        /\ rabbit'.queues = rabbit.queues
        /\ rabbit'.consumers = rabbit.consumers /\ rabbit'.ran = rabbit.ran
        /\ inflight # <<>> /\ inflight' = Tail(inflight) /\ cbs' = cbs
        /\ rabbit.lost \subseteq rabbit'.lost /\ waiting' \in Seq(Waiting)
        /\ Placed(w, jd, ja, rabbit'.lost)
        /\ jobs' = jobs \o jd /\ notices' = notices \o none
        /\ asked' = (asked \o ja) \o none
    BY <1>7, <1>8, <1>10, <2>1, <2>2, <2>3, <2>nn
  <2> QED
    BY <1>3, <2>2, <2>3, <2>4, <2>nn DEF h, go
<1>12. CASE go
  <2> DEFINE xs == <<x>>
  <2>1. rabbit' = ensure_queue(s, "notify_tornado", xs)
    BY <1>1, <1>12 DEF go
  <2>2. xs \in Seq(NoticeItems) /\ About(xs) = {h.about}
    BY <1>12, <1>xdef, Single
  <2> HIDE DEF xs
  <2>3. Grown(s, rabbit', "notify_tornado", xs)
    BY <1>1, <1>5, <1>8, <2>1, <2>2, EnsureQueueFacts
  <2>4. /\ rabbit'.waiting \in Seq(Waiting) /\ s.lost \subseteq rabbit'.lost
        /\ \E d, a : /\ Placed(xs, d, a, rabbit'.lost) /\ (d # <<>> => s.conn = "open")
                     /\ rabbit'.ready["notify_tornado"] = s.ready["notify_tornado"] \o d
                     /\ ItemsOf(rabbit'.waiting) = ItemsOf(s.waiting) \o a
    <3>1. /\ "notify_tornado" \in QueueNames /\ xs \in Seq(ItemsFor("notify_tornado"))
          /\ s.waiting \in Seq(Waiting)
          /\ s.ready["notify_tornado"] \in Seq(ItemsFor("notify_tornado"))
      BY <1>5, <1>7, <1>8, <2>2
    <3> QED
      BY <2>3, <3>1, GrownFacts, Zenon
  <2>5. PICK nd, na : /\ Placed(xs, nd, na, rabbit'.lost) /\ (nd # <<>> => s.conn = "open")
                      /\ rabbit'.ready["notify_tornado"] = s.ready["notify_tornado"] \o nd
                      /\ ItemsOf(rabbit'.waiting) = ItemsOf(s.waiting) \o na
    BY <2>4
  <2>6. /\ Whole(rabbit') /\ rabbit'.conn = s.conn /\ rabbit'.queues = s.queues
        /\ rabbit'.inflight = s.inflight /\ rabbit'.on_open_cbs = s.on_open_cbs
        /\ rabbit'.consumers = s.consumers /\ rabbit'.ran = s.ran
        /\ rabbit'.ready["jobs"] = s.ready["jobs"]
    BY <2>3 DEF Grown, QueueNames
  <2>7. About(xs) = IF go THEN {h.about} ELSE {}
    BY <1>12, <2>2
  <2>8. /\ Whole(rabbit') /\ rabbit'.conn = rabbit.conn /\ rabbit.conn \in {"open", "stale"}
        /\ rabbit'.queues = rabbit.queues
        /\ rabbit'.consumers = rabbit.consumers /\ rabbit'.ran = rabbit.ran
        /\ inflight # <<>> /\ inflight' = Tail(inflight) /\ cbs' = cbs
        /\ rabbit.lost \subseteq rabbit'.lost /\ waiting' \in Seq(Waiting)
        /\ Placed(w, jd, ja, rabbit'.lost)
        /\ jobs' = jobs \o jd /\ notices' = notices \o nd
        /\ asked' = (asked \o ja) \o na
    BY <1>8, <1>10, <2>2, <2>4, <2>5, <2>6, <2>7
  <2>9. nd # <<>> => rabbit.conn = "open"
    BY <1>8, <2>5
  <2> QED
    BY <1>3, <2>2, <2>5, <2>7, <2>8, <2>9 DEF h, go
<1> QED
  BY <1>11, <1>12

(* Whom processing a notice reaches. *)
LEMMA ProcessUsersFacts ==
  ASSUME Typed, NEW notice \in NoticeItems, NEW done \in 0..NumUsers, ProcessUsers(notice, done)
  PROVE  LET m == notice.about[1]
         IN  /\ m \in 1..NumNotices /\ notice.about = <<m, 0>>
             /\ delivered' \in Seq((1..NumNotices) \X (1..NumUsers))
             /\ ToSet(delivered') = ToSet(delivered) \cup {<<m, u>> : u \in 1..done}
             /\ twice' = twice \cup ({<<m, u>> : u \in 1..done} \cap ToSet(delivered))
             /\ \A i \in DOMAIN delivered : i \in DOMAIN delivered' /\ delivered'[i] = delivered[i]
             /\ \A k \in DOMAIN delivered' \ DOMAIN delivered :
                  /\ \E u \in 1..done : delivered'[k] = <<m, u>> /\ <<m, u>> \notin ToSet(delivered)
                  /\ \A i \in DOMAIN delivered : ~ (k < i)
<1> DEFINE m == notice.about[1]
           S == {u \in 1..done : <<m, u>> \notin ToSet(delivered)}
           new == Ascending(S)
           v == [i \in DOMAIN new |-> <<m, new[i]>>]
           Pairs == (1..NumNotices) \X (1..NumUsers)
           d == delivered'
<1>1. m \in 1..NumNotices /\ notice.about = <<m, 0>>
  BY Kinds DEF NoticeItems
<1>2. d = delivered \o v /\ twice' = twice \cup ({<<m, u>> : u \in 1..done} \cap ToSet(delivered))
  BY DEF ProcessUsers
<1>3. done \in Nat /\ S \subseteq 1..done /\ 1..done \subseteq 1..NumUsers
  BY BoundsAssumption
<1>4. \A u \in 1..done : u \in S <=> <<m, u>> \notin ToSet(delivered)
  OBVIOUS
<1> HIDE DEF S, m
<1>5. new \in Seq(S) /\ {new[i] : i \in DOMAIN new} = S
  BY <1>3, AscendingFacts
<1> HIDE DEF new
<1>6. Len(new) \in Nat /\ DOMAIN new = 1..Len(new) /\ \A i \in DOMAIN new : new[i] \in S
  BY <1>5, LenProperties, ElementOfSeq
<1>7. v \in Seq(Pairs) /\ Len(v) = Len(new)
  <2>1. \A u \in S : <<m, u>> \in Pairs
    BY <1>1, <1>3
  <2>2. v \in [1..Len(new) -> Pairs]
    BY <1>6, <2>1
  <2> QED
    BY <1>6, <2>2, IsASeq, LenProperties
<1>8. {v[i] : i \in DOMAIN v} = {<<m, u>> : u \in S} /\ \A i \in DOMAIN v : v[i] = <<m, new[i]>> /\ new[i] \in S
  BY <1>5, <1>6
<1> HIDE DEF v, Pairs
<1>9. delivered \in Seq(Pairs) /\ Len(delivered) \in Nat /\ DOMAIN delivered = 1..Len(delivered)
  BY LenProperties DEF Typed, Pairs
<1>10. /\ d \in Seq(Pairs) /\ Len(d) = Len(delivered) + Len(v)
       /\ \A i \in 1..(Len(delivered) + Len(v)) :
            d[i] = IF i <= Len(delivered) THEN delivered[i] ELSE v[i - Len(delivered)]
  BY <1>2, <1>7, <1>9, ConcatProperties
<1>11. /\ DOMAIN d = 1..(Len(delivered) + Len(v)) /\ DOMAIN v = 1..Len(v) /\ Len(v) \in Nat
  BY <1>7, <1>10, LenProperties
<1> HIDE DEF d
<1>12. \A i \in DOMAIN delivered : i \in DOMAIN d /\ d[i] = delivered[i]
  BY <1>9, <1>10, <1>11
<1>13. \A k \in DOMAIN d \ DOMAIN delivered :
         /\ k - Len(delivered) \in DOMAIN v /\ d[k] = v[k - Len(delivered)]
         /\ \A i \in DOMAIN delivered : ~ (k < i)
  BY <1>9, <1>10, <1>11
<1>14. \A k \in DOMAIN d \ DOMAIN delivered :
         \E u \in 1..done : d[k] = <<m, u>> /\ <<m, u>> \notin ToSet(delivered)
  BY <1>3, <1>4, <1>8, <1>13
<1>15. \A i \in DOMAIN v : Len(delivered) + i \in DOMAIN d /\ d[Len(delivered) + i] = v[i]
  <2> SUFFICES ASSUME NEW i \in DOMAIN v
               PROVE  Len(delivered) + i \in DOMAIN d /\ d[Len(delivered) + i] = v[i]
    OBVIOUS
  <2>1. /\ Len(delivered) + i \in 1..(Len(delivered) + Len(v))
        /\ ~ (Len(delivered) + i <= Len(delivered)) /\ (Len(delivered) + i) - Len(delivered) = i
    BY <1>9, <1>11
  <2> QED
    BY <1>10, <1>11, <2>1
<1>16. ToSet(d) = ToSet(delivered) \cup {<<m, u>> : u \in 1..done}
  <2>1. ToSet(d) = {d[i] : i \in DOMAIN d} /\ ToSet(delivered) = {delivered[i] : i \in DOMAIN delivered}
    BY DEF ToSet
  <2>2. \A p \in ToSet(d) : p \in ToSet(delivered) \cup {<<m, u>> : u \in 1..done}
    BY <1>12, <1>14, <2>1
  <2>3. \A p \in ToSet(delivered) : p \in ToSet(d)
    BY <1>12, <2>1
  <2>4. ASSUME NEW u \in 1..done PROVE <<m, u>> \in ToSet(d)
    <3>1. CASE <<m, u>> \in ToSet(delivered)
      BY <2>3, <3>1
    <3>2. CASE <<m, u>> \notin ToSet(delivered)
      <4>1. u \in S
        BY <1>4, <3>2
      <4>2. PICK i \in DOMAIN v : v[i] = <<m, u>>
        BY <1>8, <4>1
      <4> QED
        BY <1>15, <2>1, <4>2
    <3> QED
      BY <3>1, <3>2
  <2> QED
    BY <2>2, <2>3, <2>4
<1> QED
  BY <1>1, <1>2, <1>10, <1>12, <1>13, <1>14, <1>16 DEF d, m, Pairs

(* What the worker publishes again. *)
LEMMA RetriedOfFacts ==
  ASSUME Typed, NEW failing \in SUBSET DOMAIN batch
  PROVE  /\ RetriedOf(failing) \in Seq(JobItems)
         /\ About(RetriedOf(failing)) = {batch[i].about : i \in {i \in failing : CanRetry(batch[i])}}
<1> DEFINE S == {i \in failing : CanRetry(batch[i])}
           at == Ascending(S)
           v == [k \in DOMAIN at |-> Retried(batch[at[k]])]
<1>1. Len(batch) \in Nat /\ DOMAIN batch = 1..Len(batch) /\ \A i \in DOMAIN batch : batch[i] \in JobItems
  BY LenProperties, ElementOfSeq DEF Typed
<1>2. S \subseteq 1..Len(batch) /\ S \subseteq DOMAIN batch
  BY <1>1
<1>3. \A i \in S : Retried(batch[i]) \in JobItems /\ Retried(batch[i]).about = batch[i].about
  BY <1>1, BoundsAssumption DEF CanRetry, Retried, JobItems
<1> HIDE DEF S
<1>4. at \in Seq(S) /\ {at[k] : k \in DOMAIN at} = S
  BY <1>1, <1>2, AscendingFacts
<1> HIDE DEF at
<1>5. Len(at) \in Nat /\ DOMAIN at = 1..Len(at) /\ \A k \in DOMAIN at : at[k] \in S
  BY <1>4, LenProperties, ElementOfSeq
<1>6. DOMAIN v = DOMAIN at /\ \A k \in DOMAIN at : v[k] \in JobItems /\ v[k].about = batch[at[k]].about
  BY <1>3, <1>5
<1>7. v \in Seq(JobItems)
  <2>1. v \in [1..Len(at) -> JobItems]
    BY <1>3, <1>5
  <2> QED
    BY <1>5, <2>1, IsASeq
<1>8. RetriedOf(failing) = v
  BY DEF RetriedOf, at, S
<1> HIDE DEF v
<1>9. About(v) = {batch[i].about : i \in S}
  <2>1. About(v) = {batch[at[k]].about : k \in DOMAIN at}
    BY <1>6 DEF About
  <2> QED
    BY <1>4, <2>1
<1> QED
  BY <1>7, <1>8, <1>9 DEF S

-----------------------------------------------------------------------------
(* Types. *)

(* Faults are counted up to their bound. *)
LEMMA FaultType ==
  ASSUME Typed, Fault \/ (\E is_fault \in BOOLEAN : MaybeFault(is_fault)) \/ faults' = faults
  PROVE  faults' \in 0..MaxFaults
BY BoundsAssumption DEF Typed, Fault, MaybeFault

(* The steps of the connection keep the types. *)
LEMMA TypedBroker ==
  ASSUME Typed, SetQos \/ FinishQos \/ OnChannelOpen \/ ConnectionEnds \/ OnConnectionClosed
                  \/ Reconnect \/ RestartTornado
  PROVE  Typed'
<1>1. /\ batch' = batch /\ delivered' = delivered /\ published' = published
      /\ faults' \in 0..MaxFaults
  <2>1. Fault \/ faults' = faults
    BY DEF SetQos, FinishQos, OnChannelOpen, ConnectionEnds, OnConnectionClosed, Reconnect, RestartTornado
  <2> QED
    BY <2>1, FaultType DEF SetQos, FinishQos, OnChannelOpen, ConnectionEnds, OnConnectionClosed, Reconnect, RestartTornado
<1>2. CASE SetQos
  BY <1>1, <1>2, SetQosFields DEF Typed
<1>3. CASE FinishQos
  <2>1. /\ Whole(rabbit') /\ rabbit'.conn = rabbit.conn /\ rabbit.conn = "open"
        /\ rabbit'.queues = rabbit.queues
        /\ inflight' = inflight /\ cbs' = cbs
        /\ rabbit'.lost = rabbit.lost /\ rabbit'.ran = rabbit.ran
        /\ waiting' \in Seq(Waiting)
    BY <1>3, FinishQosFields
  <2>2. \E t : /\ rabbit'.consumers \in {rabbit.consumers, rabbit.consumers + 1}
               /\ notices' = notices \/ (t \in Seq(NoticeItems) /\ notices' = notices \o t)
               /\ jobs' = jobs \/ (t \in Seq(JobItems) /\ jobs' = jobs \o t)
    BY <1>3, FinishQosFields
  <2>3. notices' \in Seq(NoticeItems) /\ jobs' \in Seq(JobItems) /\ rabbit'.consumers \in Nat
    <3>1. notices \in Seq(NoticeItems) /\ jobs \in Seq(JobItems) /\ rabbit.consumers \in Nat
      BY DEF Typed
    <3>2. PICK t : /\ rabbit'.consumers \in {rabbit.consumers, rabbit.consumers + 1}
                   /\ notices' = notices \/ (t \in Seq(NoticeItems) /\ notices' = notices \o t)
                   /\ jobs' = jobs \/ (t \in Seq(JobItems) /\ jobs' = jobs \o t)
      BY <2>2
    <3>3. t \in Seq(NoticeItems) => notices \o t \in Seq(NoticeItems)
      BY <3>1, ConcatProperties
    <3>4. t \in Seq(JobItems) => jobs \o t \in Seq(JobItems)
      BY <3>1, ConcatProperties
    <3>5. rabbit'.consumers \in Nat
      BY <3>1, <3>2
    <3>6. notices' \in Seq(NoticeItems)
      BY <3>1, <3>2, <3>3
    <3>7. jobs' \in Seq(JobItems)
      BY <3>1, <3>2, <3>4
    <3> QED
      BY <3>5, <3>6, <3>7
  <2>4. rabbit.conn = "open" => rabbit'.conn = "open"
    BY <2>1
  <2> QED
    BY <1>1, <2>1, <2>3 DEF Typed
<1>4. CASE OnChannelOpen
  <2>1. /\ Whole(rabbit') /\ rabbit'.conn = "open" /\ rabbit.conn = "opening"
        /\ rabbit'.queues = rabbit.queues
        /\ notices' = notices /\ jobs' = jobs /\ inflight' = inflight /\ cbs' = cbs
        /\ rabbit'.consumers = rabbit.consumers /\ rabbit'.ran = Len(cbs)
        /\ waiting' \in Seq(Waiting)
    BY <1>4, OnChannelOpenFields
  <2>2. Len(cbs) \in Nat /\ Len(cbs') = Len(cbs)
    BY <2>1, LenProperties DEF Typed
  <2>3. rabbit'.ran \in 0..Len(cbs') /\ rabbit'.ran = Len(cbs')
    BY <2>1, <2>2
  <2> QED
    BY <1>1, <2>1, <2>3 DEF Typed
<1>5. CASE ConnectionEnds
  <2>1. inflight \o notices \in Seq(NoticeItems)
    BY ConcatProperties DEF Typed
  <2>2. /\ Whole(rabbit') /\ rabbit.conn = "open" /\ rabbit'.conn = "stale"
        /\ rabbit'.queues = rabbit.queues /\ rabbit'.consumers = 0
        /\ notices' = inflight \o notices /\ jobs' = jobs /\ cbs' = cbs
        /\ inflight' \in Seq(NoticeItems)
        /\ rabbit'.ran = rabbit.ran /\ waiting' = waiting
    BY <1>5, ConnectionEndsFields
  <2> QED
    BY <1>1, <2>1, <2>2 DEF Typed
<1>6. CASE OnConnectionClosed
  <2>1. <<>> \in Seq(NoticeItems) /\ <<>> \in Seq(Waiting)
    BY EmptySeq
  <2>2. /\ rabbit'.consumers = rabbit.consumers /\ rabbit'.conn = "closed" /\ rabbit.conn = "stale"
    BY <1>6, OnConnectionClosedFields
  <2> QED
    BY <1>1, <1>6, <2>1, OnConnectionClosedFields DEF Typed
<1>7. CASE Reconnect
  BY <1>1, <1>7, ReconnectFields DEF Typed
<1>8. CASE RestartTornado
  <2>1. inflight \o notices \in Seq(NoticeItems)
    BY ConcatProperties DEF Typed
  <2>2. <<>> \in Seq(NoticeItems) /\ <<>> \in Seq(Waiting) /\ <<>> \in Seq(JobCallbacks) /\ Len(<<>>) = 0
    BY EmptySeq
  <2>3. /\ Whole(rabbit') /\ rabbit'.conn = "opening"
        /\ rabbit'.queues = {} /\ rabbit'.consumers = 0 /\ rabbit'.ran = 0
        /\ jobs' = jobs
        /\ cbs' = <<>> /\ inflight' = <<>> /\ waiting' = <<>>
    BY <1>8, RestartFields
  <2>4. notices' \in Seq(NoticeItems)
    BY <1>8, <2>1, RestartFields DEF Typed
  <2>5. Len(cbs') = 0
    BY <2>2, <2>3
  <2> QED
    BY <1>1, <2>2, <2>3, <2>4, <2>5 DEF Typed
<1> QED
  BY <1>2, <1>3, <1>4, <1>5, <1>6, <1>7, <1>8

(* What processing a notice publishes: jobs w of which jd are in the queue *)
(* and ja wait, and the notice itself again, in xs, if it failed.          *)
Processed(done, w, xs, jd, ja, nd, na) ==
  /\ w \in Seq(JobItems) /\ xs \in Seq(NoticeItems)
  /\ About(w) = {<<Head(inflight).about[1], u>> : u \in (1..done) \cap Idle}
  /\ \A a : Once(w, a)
  /\ About(xs) = IF done < NumUsers /\ CanRetry(Head(inflight)) THEN {Head(inflight).about} ELSE {}
  /\ Placed(w, jd, ja, rabbit'.lost) /\ Placed(xs, nd, na, rabbit'.lost)
  /\ nd # <<>> => rabbit.conn = "open"
  /\ jobs' = jobs \o jd /\ notices' = notices \o nd
  /\ asked' = (asked \o ja) \o na

(* What ProcessNotification places, and where. *)
LEMMA ProcessedFacts ==
  ASSUME Typed, NEW done \in 0..NumUsers, ProcessNotification(done)
  PROVE  \E w, xs, jd, ja, nd, na : Processed(done, w, xs, jd, ja, nd, na)
<1> DEFINE h == Head(inflight)
<1>1. PICK w \in Seq(JobItems), xs \in Seq(NoticeItems) : \E jd, ja, nd, na :
                  /\ About(w) = {<<h.about[1], u>> : u \in (1..done) \cap Idle}
                  /\ \A a : Once(w, a)
                  /\ About(xs) = IF done < NumUsers /\ CanRetry(h) THEN {h.about} ELSE {}
                  /\ Placed(w, jd, ja, rabbit'.lost) /\ Placed(xs, nd, na, rabbit'.lost)
                  /\ nd # <<>> => rabbit.conn = "open"
                  /\ jobs' = jobs \o jd /\ notices' = notices \o nd
                  /\ asked' = (asked \o ja) \o na
  BY ProcessFields, Zenon
<1>2. PICK jd, ja, nd, na :
                  /\ About(w) = {<<h.about[1], u>> : u \in (1..done) \cap Idle}
                  /\ \A a : Once(w, a)
                  /\ About(xs) = IF done < NumUsers /\ CanRetry(h) THEN {h.about} ELSE {}
                  /\ Placed(w, jd, ja, rabbit'.lost) /\ Placed(xs, nd, na, rabbit'.lost)
                  /\ nd # <<>> => rabbit.conn = "open"
                  /\ jobs' = jobs \o jd /\ notices' = notices \o nd
                  /\ asked' = (asked \o ja) \o na
  BY <1>1, Zenon
<1>3. Processed(done, w, xs, jd, ja, nd, na)
  BY <1>2, Zenon DEF Processed, h
<1> QED
  BY <1>3

(* The copies json_publish makes of a notice. *)
LEMMA CopiesFacts ==
  ASSUME NEW n \in 1..NumNotices, NEW copies \in 0..2
  PROVE  LET c == [i \in 1..copies |-> NewItem(<<n, 0>>)]
         IN  /\ c \in Seq(NoticeItems)
             /\ About(c) = IF copies = 0 THEN {} ELSE {<<n, 0>>}
             /\ \A a : copies = 1 \/ a # <<n, 0>> => Once(c, a)
<1> DEFINE e == NewItem(<<n, 0>>)
           c == [i \in 1..copies |-> e]
<1>1. e \in NoticeItems /\ e.about = <<n, 0>>
  BY BoundsAssumption DEF NewItem, NoticeItems, Notices
<1> HIDE DEF e
<1>2. c \in [1..copies -> NoticeItems] /\ copies \in Nat
  BY <1>1
<1>3. c \in Seq(NoticeItems)
  BY <1>2, IsASeq
<1>4. DOMAIN c = 1..copies /\ \A i \in 1..copies : c[i] = e
  OBVIOUS
<1> HIDE DEF c
<1>5. copies = 0 => 1..copies = {}
  OBVIOUS
<1>6. copies # 0 => 1 \in 1..copies
  OBVIOUS
<1>7. copies = 1 => 1..copies = {1}
  OBVIOUS
<1>8. About(c) = IF copies = 0 THEN {} ELSE {<<n, 0>>}
  BY <1>1, <1>4, <1>5, <1>6 DEF About
<1>9. \A a : copies = 1 \/ a # <<n, 0>> => Once(c, a)
  <2>1. copies = 1 => \A a : Once(c, a)
    BY <1>4, <1>7 DEF Once
  <2>2. \A a : a # <<n, 0>> => Once(c, a)
    <3>1. \A i \in DOMAIN c : c[i].about = <<n, 0>>
      BY <1>1, <1>4
    <3> QED
      BY <3>1, Zenon DEF Once
  <2> QED
    BY <2>1, <2>2
<1> QED
  BY <1>3, <1>8, <1>9 DEF c, e

(* The worker consumes a batch, fails or ends. *)
Consumes(done, failing) ==
  /\ done \in 0..Len(batch) /\ failing \in SUBSET (1..done)
  /\ \/ done = Len(batch) /\ ConsumeBatch(failing)
     \/ ConsumeError(done, failing)
     \/ WorkerExits(done, failing)

(* What the worker leaves of a batch: f is delivered again, t is retried. *)
LEMMA ConsumesFields ==
  ASSUME Typed, NEW done, NEW failing, Consumes(done, failing)
  PROVE  /\ Connected /\ notices' = notices /\ inflight' = inflight /\ rabbit'.lost = rabbit.lost
         /\ batch' = <<>> /\ published' = published /\ delivered' = delivered
         /\ ConsumeSome(done, failing) /\ again \subseteq again' /\ errors \subseteq errors'
         /\ done \in Nat /\ 1..done \subseteq DOMAIN batch /\ failing \subseteq 1..done
         /\ faults' \in 0..MaxFaults
         /\ \E f \in Seq(JobItems), t \in Seq(JobItems) :
              /\ jobs' = (f \o jobs) \o t
              /\ About(t) = {batch[i].about : i \in {i \in failing : CanRetry(batch[i])}}
              /\ \/ f = <<>> /\ (1..done = DOMAIN batch \/ About(batch) \subseteq errors')
                 \/ f = batch /\ About(batch) \subseteq again'
<1>1. Len(batch) \in Nat /\ DOMAIN batch = 1..Len(batch) /\ batch \in Seq(JobItems) /\ jobs \in Seq(JobItems)
  BY LenProperties DEF Typed
<1>2. done \in 0..Len(batch) /\ failing \in SUBSET (1..done)
  BY DEF Consumes
<1>3. done \in Nat /\ 1..done \subseteq DOMAIN batch /\ failing \subseteq 1..done /\ failing \in SUBSET DOMAIN batch
  BY <1>1, <1>2
<1> DEFINE t == RetriedOf(failing)
<1>4. t \in Seq(JobItems) /\ About(t) = {batch[i].about : i \in {i \in failing : CanRetry(batch[i])}}
  BY <1>3, RetriedOfFacts
<1> HIDE DEF t
<1>5. <<>> \in Seq(JobItems) /\ <<>> \o jobs = jobs
  BY <1>1, Empty
<1>6. faults' \in 0..MaxFaults
  <2>1. Fault \/ (\E is_fault \in BOOLEAN : MaybeFault(is_fault))
    BY DEF Consumes, ConsumeBatch, ConsumeError, WorkerExits
  <2> QED
    BY <2>1, FaultType
<1>7. CASE done = Len(batch) /\ ConsumeBatch(failing)
  <2>1. rabbit' = [rabbit EXCEPT !.ready = [rabbit.ready EXCEPT !["jobs"] = jobs \o t]]
    BY <1>7 DEF ConsumeBatch, t, jobs
  <2>2. /\ Connected /\ notices' = notices /\ inflight' = inflight /\ jobs' = jobs \o t
        /\ rabbit'.lost = rabbit.lost
    BY <2>1, JobsFields
  <2>3. /\ batch' = <<>> /\ published' = published /\ delivered' = delivered
        /\ ConsumeSome(done, failing) /\ again' = again /\ errors' = errors
    BY <1>7 DEF ConsumeBatch
  <2>4. 1..done = DOMAIN batch
    BY <1>1, <1>7
  <2> DEFINE f == <<>>
  <2>5. f \in Seq(JobItems) /\ f = <<>> /\ jobs' = (f \o jobs) \o t
    BY <1>5, <2>2
  <2> HIDE DEF f
  <2>6. \E g \in Seq(JobItems), s \in Seq(JobItems) :
              /\ jobs' = (g \o jobs) \o s
              /\ About(s) = {batch[i].about : i \in {i \in failing : CanRetry(batch[i])}}
              /\ \/ g = <<>> /\ (1..done = DOMAIN batch \/ About(batch) \subseteq errors')
                 \/ g = batch /\ About(batch) \subseteq again'
    BY <1>4, <2>4, <2>5
  <2> QED
    BY <1>3, <1>6, <2>2, <2>3, <2>6
<1>8. CASE ConsumeError(done, failing)
  <2>1. rabbit' = [rabbit EXCEPT !.ready = [rabbit.ready EXCEPT !["jobs"] = jobs \o t]]
    BY <1>8 DEF ConsumeError, t, jobs
  <2>2. /\ Connected /\ notices' = notices /\ inflight' = inflight /\ jobs' = jobs \o t
        /\ rabbit'.lost = rabbit.lost
    BY <2>1, JobsFields
  <2>3. /\ batch' = <<>> /\ published' = published /\ delivered' = delivered
        /\ ConsumeSome(done, failing) /\ again' = again /\ errors' = errors \cup About(batch)
    BY <1>8 DEF ConsumeError
  <2> DEFINE f == <<>>
  <2>5. f \in Seq(JobItems) /\ f = <<>> /\ jobs' = (f \o jobs) \o t
    BY <1>5, <2>2
  <2> HIDE DEF f
  <2>6. \E g \in Seq(JobItems), s \in Seq(JobItems) :
              /\ jobs' = (g \o jobs) \o s
              /\ About(s) = {batch[i].about : i \in {i \in failing : CanRetry(batch[i])}}
              /\ \/ g = <<>> /\ (1..done = DOMAIN batch \/ About(batch) \subseteq errors')
                 \/ g = batch /\ About(batch) \subseteq again'
    BY <1>4, <2>3, <2>5
  <2> QED
    BY <1>3, <1>6, <2>2, <2>3, <2>6
<1>9. CASE WorkerExits(done, failing)
  <2>1. rabbit' = [rabbit EXCEPT !.ready = [rabbit.ready EXCEPT !["jobs"] = (batch \o jobs) \o t]]
    BY <1>9 DEF WorkerExits, t, jobs
  <2>2. /\ Connected /\ notices' = notices /\ inflight' = inflight /\ jobs' = (batch \o jobs) \o t
        /\ rabbit'.lost = rabbit.lost
    BY <2>1, JobsFields
  <2>3. /\ batch' = <<>> /\ published' = published /\ delivered' = delivered
        /\ ConsumeSome(done, failing) /\ again' = again \cup About(batch) /\ errors' = errors
    BY <1>9 DEF WorkerExits
  <2>6. \E g \in Seq(JobItems), s \in Seq(JobItems) :
              /\ jobs' = (g \o jobs) \o s
              /\ About(s) = {batch[i].about : i \in {i \in failing : CanRetry(batch[i])}}
              /\ \/ g = <<>> /\ (1..done = DOMAIN batch \/ About(batch) \subseteq errors')
                 \/ g = batch /\ About(batch) \subseteq again'
    BY <1>1, <1>4, <2>2, <2>3
  <2> QED
    BY <1>3, <1>6, <2>2, <2>3, <2>6
<1> QED
  BY <1>7, <1>8, <1>9 DEF Consumes

(* Publishing keeps the types. *)
LEMMA TypedPublish ==
  ASSUME Typed,
         \/ \E n \in 1..NumNotices, copies \in 0..2 : DjangoPublish(n, copies)
         \/ \E j \in HookJobs : HookPublish(j)
  PROVE  Typed'
<1>1. CASE \E n \in 1..NumNotices, copies \in 0..2 : DjangoPublish(n, copies)
  <2>1. PICK n \in 1..NumNotices, copies \in 0..2 : DjangoPublish(n, copies)
    BY <1>1
  <2> DEFINE c == [i \in 1..copies |-> NewItem(<<n, 0>>)]
  <2>2. c \in Seq(NoticeItems)
    BY CopiesFacts
  <2>3. Connected /\ jobs' = jobs /\ inflight' = inflight /\ notices' = notices \o c
    BY <2>1, DjangoPublishFields
  <2>4. /\ batch' = batch /\ delivered' = delivered /\ published' = published \cup {<<n, 0>>}
        /\ faults' \in 0..MaxFaults
    BY <2>1, FaultType DEF DjangoPublish
  <2> HIDE DEF c
  <2>5. notices \o c \in Seq(NoticeItems)
    BY <2>2, ConcatProperties DEF Typed
  <2>6. <<n, 0>> \in Notices
    BY DEF Notices
  <2> QED
    BY <2>3, <2>4, <2>5, <2>6 DEF Typed, Connected
<1>2. CASE \E j \in HookJobs : HookPublish(j)
  <2>1. PICK j \in HookJobs : HookPublish(j)
    BY <1>2
  <2>2. /\ batch' = batch /\ delivered' = delivered /\ published' = published \cup {j}
        /\ faults' = faults
    BY <2>1 DEF HookPublish
  <2>3. /\ Whole(rabbit') /\ rabbit'.conn = rabbit.conn /\ rabbit'.queues = rabbit.queues
        /\ rabbit'.consumers = rabbit.consumers /\ rabbit'.ran = rabbit.ran
        /\ inflight' = inflight /\ notices' = notices /\ NewItem(j) \in JobItems
    BY <2>1, HookPublishFields
  <2>4. CASE /\ rabbit.conn = "opening" /\ jobs' = jobs /\ waiting' = waiting
             /\ \E c \in JobCallbacks : c.item = NewItem(j) /\ cbs' = Append(cbs, c)
    <3>1. cbs' \in Seq(JobCallbacks) /\ Len(cbs') = Len(cbs) + 1 /\ Len(cbs) \in Nat
      BY <2>4, AppendProperties, LenProperties DEF Typed
    <3>2. rabbit.ran \in 0..Len(cbs')
      BY <3>1 DEF Typed
    <3> QED
      BY <2>2, <2>3, <2>4, <3>1, <3>2 DEF Typed
  <2>5. CASE /\ rabbit.conn # "opening" /\ cbs' = cbs /\ waiting' \in Seq(Waiting)
             /\ \E d, a : Placed(<<NewItem(j)>>, d, a, rabbit'.lost) /\ jobs' = jobs \o d
    <3> DEFINE w == <<NewItem(j)>>
    <3>1. w \in Seq(JobItems)
      BY <2>3, Single
    <3> HIDE DEF w
    <3>2. PICK d, a : Placed(w, d, a, rabbit'.lost) /\ jobs' = jobs \o d
      BY <2>5 DEF w
    <3>3. d \in Seq(JobItems)
      BY <3>1, <3>2, PlacedFacts
    <3>4. jobs' \in Seq(JobItems)
      BY <3>2, <3>3, ConcatProperties DEF Typed
    <3>5. rabbit.conn # "closed"
      BY <2>1, HookPublishFields
    <3> QED
      BY <2>2, <2>3, <2>5, <3>4, <3>5 DEF Typed
  <2> QED
    BY <2>1, <2>4, <2>5, HookPublishFields
<1> QED
  BY <1>1, <1>2

(* Delivering and processing keep the types. *)
LEMMA TypedDelivery ==
  ASSUME Typed, Deliver \/ \E done \in 0..NumUsers : ProcessNotification(done)
  PROVE  Typed'
<1>1. CASE Deliver
  <2>1. /\ Connected /\ rabbit.conn = "open" /\ jobs' = jobs /\ notices # <<>>
        /\ inflight' = Append(inflight, Head(notices)) /\ notices' = Tail(notices)
    BY <1>1, DeliverFields
  <2>2. Head(notices) \in NoticeItems /\ Tail(notices) \in Seq(NoticeItems)
    BY <2>1, Taken DEF Typed
  <2>3. inflight' \in Seq(NoticeItems)
    BY <2>1, <2>2, AppendProperties DEF Typed
  <2>4. batch' = batch /\ delivered' = delivered /\ published' = published /\ faults' = faults
    BY <1>1 DEF Deliver
  <2> QED
    BY <2>1, <2>2, <2>3, <2>4 DEF Typed, Connected
<1>2. CASE \E done \in 0..NumUsers : ProcessNotification(done)
  <2>1. PICK done \in 0..NumUsers : ProcessNotification(done)
    BY <1>2
  <2> DEFINE h == Head(inflight)
  <2>2. /\ Whole(rabbit') /\ rabbit'.conn = rabbit.conn /\ rabbit.conn \in {"open", "stale"}
        /\ rabbit'.queues = rabbit.queues
        /\ rabbit'.consumers = rabbit.consumers /\ rabbit'.ran = rabbit.ran
        /\ inflight # <<>> /\ inflight' = Tail(inflight) /\ cbs' = cbs
        /\ waiting' \in Seq(Waiting)
    BY <2>1, ProcessFields
  <2>3. PICK w, xs, jd, ja, nd, na : Processed(done, w, xs, jd, ja, nd, na)
    BY <2>1, ProcessedFacts
  <2>4. /\ w \in Seq(JobItems) /\ xs \in Seq(NoticeItems)
        /\ Placed(w, jd, ja, rabbit'.lost) /\ Placed(xs, nd, na, rabbit'.lost)
        /\ jobs' = jobs \o jd /\ notices' = notices \o nd
    BY <2>3 DEF Processed
  <2>5. jd \in Seq(JobItems)
    BY <2>4, PlacedFacts
  <2>6. nd \in Seq(NoticeItems)
    BY <2>4, PlacedFacts
  <2>7. jobs' \in Seq(JobItems) /\ notices' \in Seq(NoticeItems)
    BY <2>4, <2>5, <2>6, ConcatProperties DEF Typed
  <2>8. h \in NoticeItems /\ Tail(inflight) \in Seq(NoticeItems)
    BY <2>2, Taken DEF Typed
  <2>9. /\ batch' = batch /\ published' = published /\ ProcessUsers(h, done)
        /\ faults' \in 0..MaxFaults
    <3>1. batch' = batch /\ published' = published /\ ProcessUsers(h, done) /\ MaybeFault(done < NumUsers)
      BY <2>1 DEF ProcessNotification, inflight
    <3>2. (done < NumUsers) \in BOOLEAN
      OBVIOUS
    <3> QED
      BY <3>1, <3>2, FaultType
  <2>10. delivered' \in Seq((1..NumNotices) \X (1..NumUsers))
    BY <2>8, <2>9, ProcessUsersFacts
  <2> HIDE DEF h
  <2> QED
    BY <2>2, <2>7, <2>8, <2>9, <2>10 DEF Typed
<1> QED
  BY <1>1, <1>2

(* The worker keeps the types. *)
LEMMA TypedWorker ==
  ASSUME Typed, WorkerTakes \/ \E done, failing : Consumes(done, failing)
  PROVE  Typed'
<1>1. CASE WorkerTakes
  <2>1. jobs # <<>> /\ rabbit' = [rabbit EXCEPT !.ready = [rabbit.ready EXCEPT !["jobs"] = Tail(jobs)]]
    BY <1>1 DEF WorkerTakes, jobs
  <2>2. Connected /\ notices' = notices /\ inflight' = inflight /\ jobs' = Tail(jobs)
    BY <2>1, JobsFields
  <2>3. Head(jobs) \in JobItems /\ Tail(jobs) \in Seq(JobItems)
    BY <2>1, Taken DEF Typed
  <2>4. batch' = Append(batch, Head(jobs)) /\ delivered' = delivered /\ published' = published /\ faults' = faults
    BY <1>1 DEF WorkerTakes, jobs
  <2>5. batch' \in Seq(JobItems)
    BY <2>3, <2>4, AppendProperties DEF Typed
  <2> QED
    BY <2>2, <2>3, <2>4, <2>5 DEF Typed, Connected
<1>2. CASE \E done, failing : Consumes(done, failing)
  <2>1. PICK done, failing : Consumes(done, failing)
    BY <1>2
  <2>2. /\ Connected /\ notices' = notices /\ inflight' = inflight
        /\ batch' = <<>> /\ published' = published /\ delivered' = delivered
        /\ faults' \in 0..MaxFaults
        /\ \E f \in Seq(JobItems), t \in Seq(JobItems) : jobs' = (f \o jobs) \o t
    BY <2>1, ConsumesFields
  <2>3. jobs' \in Seq(JobItems)
    <3>1. PICK f \in Seq(JobItems), t \in Seq(JobItems) : jobs' = (f \o jobs) \o t
      BY <2>2
    <3>2. f \o jobs \in Seq(JobItems)
      BY ConcatProperties DEF Typed
    <3> QED
      BY <3>1, <3>2, ConcatProperties
  <2>4. <<>> \in Seq(JobItems)
    BY EmptySeq
  <2> QED
    BY <2>2, <2>3, <2>4 DEF Typed, Connected
<1> QED
  BY <1>1, <1>2

-----------------------------------------------------------------------------
(* Where what has been published can be. *)

(* The way in terms of the parts of rabbit. *)
LEMMA WayIs ==
  ASSUME Typed, Typed'
  PROVE  /\ OnTheWay = About(notices) \cup About(jobs) \cup About(inflight) \cup About(batch)
                         \cup (About(asked) \ {Consume.about}) \cup Published(cbs)
         /\ OnTheWay' = About(notices') \cup About(jobs') \cup About(inflight') \cup About(batch')
                          \cup (About(asked') \ {Consume.about}) \cup Published(cbs')
<1>1. waiting \in Seq(Waiting) /\ waiting' \in Seq(Waiting)
  BY DEF Typed
<1>2. Published(Callbacks(waiting)) = About(asked) \ {Consume.about}
  BY <1>1, ItemsJoined DEF asked
<1>3. Published(Callbacks(waiting')) = About(asked') \ {Consume.about}
  BY <1>1, ItemsJoined DEF asked
<1> QED
  BY <1>2, <1>3 DEF OnTheWay, notices, jobs, inflight, waiting, cbs

(* Notices and jobs are kept apart. *)
LEMMA AboutKinds ==
  ASSUME Typed
  PROVE  /\ About(notices) \subseteq Notices /\ About(inflight) \subseteq Notices
         /\ About(jobs) \subseteq Jobs /\ About(batch) \subseteq Jobs
         /\ Published(cbs) \subseteq Jobs
         /\ About(asked) \subseteq Notices \cup Jobs \cup {Consume.about}
         /\ ToSet(delivered) \cap Notices = {}
         /\ \A p \in ToSet(delivered) : p = <<p[1], p[2]>> /\ p[1] \in 1..NumNotices /\ p[2] \in 1..NumUsers
<1>1. ASSUME NEW S, NEW s \in Seq([about : S, tries : 0..MAX_REQUEST_RETRIES])
      PROVE  About(s) \subseteq S
  <2> DEFINE T == [about : S, tries : 0..MAX_REQUEST_RETRIES]
  <2>1. \A e \in T : e.about \in S
    OBVIOUS
  <2>2. s \in Seq(T)
    BY <1>1
  <2> HIDE DEF T
  <2>3. \A i \in DOMAIN s : s[i] \in T
    BY <2>2, ElementOfSeq, LenProperties
  <2> QED
    BY <2>1, <2>3 DEF About
<1>2. About(notices) \subseteq Notices /\ About(inflight) \subseteq Notices
  BY <1>1 DEF Typed, NoticeItems
<1>3. About(jobs) \subseteq Jobs /\ About(batch) \subseteq Jobs
  BY <1>1 DEF Typed, JobItems
<1>4. Published(cbs) \subseteq Jobs
  BY UnsentFacts DEF Typed
<1>5. About(asked) \subseteq Notices \cup Jobs \cup {Consume.about}
  <2>1. asked \in Seq(AnyItem)
    BY ItemsJoined DEF Typed, asked
  <2>2. \A e \in AnyItem : e.about \in Notices \cup Jobs \cup {Consume.about}
    BY DEF AnyItem, JobItems, NoticeItems
  <2> QED
    BY <2>1, <2>2, ElementOfSeq DEF About
<1>6. \A p \in ToSet(delivered) : p \in (1..NumNotices) \X (1..NumUsers)
  BY ElementOfSeq DEF Typed, ToSet
<1>7. ToSet(delivered) \cap Notices = {}
  BY <1>6 DEF Notices
<1> QED
  BY <1>2, <1>3, <1>4, <1>5, <1>6, <1>7

(* What a step has to show of what is on the way. *)
LEMMA Followed ==
  ASSUME Typed, Typed', Known, NothingForgotten,
         published \subseteq published', failed \subseteq failed', finished \subseteq finished',
         errors \subseteq errors', DeadEnds \subseteq DeadEnds',
         ToSet(delivered) \subseteq ToSet(delivered'),
         finished' \subseteq finished \cup OnTheWay,
         OnTheWay' \subseteq OnTheWay \cup published' \cup ToSet(delivered'),
         \A n \in Notices : n \in OnTheWay \cup (published' \ published) =>
           n \in OnTheWay' \cup DeadEnds' \/ Reached(n)',
         \A j \in Jobs : j \in OnTheWay \cup (published' \ published)
                                 \cup (ToSet(delivered') \ ToSet(delivered)) =>
           j \in OnTheWay' \cup DeadEnds' \cup finished' \cup errors',
         About(asked') \cap Notices \subseteq About(asked) \cup failed',
         \A p \in ToSet(delivered') \ ToSet(delivered) : <<p[1], 0>> \in published,
         \A n \in (published' \ published) \cap Notices, k \in 1..NumNotices :
           k < n[1] => <<k, 0>> \in published
  PROVE  Known' /\ NothingForgotten'
<1>1. ToSet(delivered') \cap Notices = {}
  <2>1. \A p \in ToSet(delivered') : p \in (1..NumNotices) \X (1..NumUsers)
    BY ElementOfSeq DEF Typed, ToSet
  <2> QED
    BY <2>1 DEF Notices
<1>2. (OnTheWay \cap Notices \subseteq published)'
  BY <1>1 DEF Known
<1>3. (\A p \in ToSet(delivered) : <<p[1], 0>> \in published)'
  BY DEF Known
<1>4. (\A n \in published \cap Notices, k \in 1..NumNotices : k < n[1] => <<k, 0>> \in published)'
  BY DEF Known
<1>5. (About(asked) \cap Notices \subseteq failed)'
  BY DEF Known
<1>6. ((OnTheWay \cup finished) \cap Jobs \subseteq ToSet(delivered) \cup published)'
  BY DEF Known
<1>7. Known'
  BY <1>2, <1>3, <1>4, <1>5, <1>6 DEF Known
<1>8. ASSUME NEW n \in published' \cap Notices
      PROVE  n \in OnTheWay' \cup DeadEnds' \/ Reached(n)'
  <2>1. CASE n \in published
    <3>1. n \in OnTheWay \cup DeadEnds \/ Reached(n)
      BY <2>1, <1>8 DEF NothingForgotten, Reached
    <3>2. Reached(n) => Reached(n)'
      BY DEF Reached
    <3> QED
      BY <3>1, <3>2, <1>8
  <2> QED
    BY <2>1, <1>8
<1>9. ASSUME NEW j \in (ToSet(delivered') \cup published') \cap Jobs
      PROVE  j \in OnTheWay' \cup DeadEnds' \cup finished' \cup errors'
  BY <1>9 DEF NothingForgotten
<1> QED
  BY <1>7, <1>8, <1>9 DEF NothingForgotten, Reached

(* A step that leaves the way as it is, but for what is lost. *)
LEMMA Carried ==
  ASSUME Typed, Typed', Known, NothingForgotten,
         published' = published, delivered' = delivered, finished' = finished,
         given_up' = given_up, errors' = errors, failed' = failed,
         rabbit.lost \subseteq rabbit'.lost, OnTheWay' \subseteq OnTheWay,
         OnTheWay \subseteq OnTheWay' \cup rabbit'.lost,
         About(asked') \cap Notices \subseteq About(asked)
  PROVE  Known' /\ NothingForgotten'
<1>1. DeadEnds \subseteq DeadEnds' /\ rabbit'.lost \subseteq DeadEnds'
  BY DEF DeadEnds
<1>2. /\ published \subseteq published' /\ failed \subseteq failed' /\ finished \subseteq finished'
      /\ errors \subseteq errors' /\ ToSet(delivered) \subseteq ToSet(delivered')
      /\ finished' \subseteq finished \cup OnTheWay
      /\ OnTheWay' \subseteq OnTheWay \cup published' \cup ToSet(delivered')
      /\ published' \ published = {} /\ ToSet(delivered') \ ToSet(delivered) = {}
      /\ About(asked') \cap Notices \subseteq About(asked) \cup failed'
  OBVIOUS
<1>3. \A n \in Notices : n \in OnTheWay \cup (published' \ published) =>
           n \in OnTheWay' \cup DeadEnds' \/ Reached(n)'
  BY <1>1, <1>2
<1>4. \A j \in Jobs : j \in OnTheWay \cup (published' \ published)
                              \cup (ToSet(delivered') \ ToSet(delivered)) =>
           j \in OnTheWay' \cup DeadEnds' \cup finished' \cup errors'
  BY <1>1, <1>2
<1>5. \A p \in ToSet(delivered') \ ToSet(delivered) : <<p[1], 0>> \in published
  BY <1>2
<1>6. \A n \in (published' \ published) \cap Notices, k \in 1..NumNotices :
           k < n[1] => <<k, 0>> \in published
  BY <1>2
<1> QED
  BY <1>1, <1>2, <1>3, <1>4, <1>5, <1>6, Followed

(* Moving from one place to the next forgets nothing. *)
LEMMA CarriedByBroker ==
  ASSUME Typed, Typed', Known, NothingForgotten,
         SetQos \/ FinishQos \/ OnChannelOpen \/ Reconnect \/ Deliver \/ WorkerTakes
  PROVE  Known' /\ NothingForgotten'
<1>1. /\ published' = published /\ delivered' = delivered /\ finished' = finished
      /\ given_up' = given_up /\ errors' = errors /\ failed' = failed
  BY DEF SetQos, FinishQos, OnChannelOpen, Reconnect, Deliver, WorkerTakes
<1>way. /\ OnTheWay = About(notices) \cup About(jobs) \cup About(inflight) \cup About(batch)
                         \cup (About(asked) \ {Consume.about}) \cup Published(cbs)
        /\ OnTheWay' = About(notices') \cup About(jobs') \cup About(inflight') \cup About(batch')
                          \cup (About(asked') \ {Consume.about}) \cup Published(cbs')
  BY WayIs
<1>con. \A x \in Notices : x # Consume.about
  BY Kinds
<1>2. CASE SetQos
  <2>1. /\ notices' = notices /\ jobs' = jobs /\ inflight' = inflight /\ cbs' = cbs
        /\ rabbit'.lost = rabbit.lost /\ asked' = asked /\ batch' = batch
    BY <1>2, SetQosFields DEF SetQos
  <2>2. OnTheWay' = OnTheWay
    BY <1>way, <2>1
  <2> QED
    BY <1>1, <2>1, <2>2, Carried
<1>3. CASE FinishQos
  <2>1. inflight' = inflight /\ cbs' = cbs /\ rabbit'.lost = rabbit.lost /\ batch' = batch
    BY <1>3, FinishQosFields DEF FinishQos
  <2>2. PICK e \in AnyItem : \E t :
              /\ About(asked) = About(asked') \cup {e.about}
              /\ About(t) = {e.about}
              /\ \/ e = Consume /\ notices' = notices /\ jobs' = jobs
                 \/ /\ e \in JobItems /\ t \in Seq(JobItems) /\ notices' = notices /\ jobs' = jobs \o t
                 \/ /\ e \in NoticeItems /\ t \in Seq(NoticeItems) /\ notices' = notices \o t /\ jobs' = jobs
    BY <1>3, FinishQosFields
  <2>3. PICK t :
              /\ About(asked) = About(asked') \cup {e.about}
              /\ About(t) = {e.about}
              /\ \/ e = Consume /\ notices' = notices /\ jobs' = jobs
                 \/ /\ e \in JobItems /\ t \in Seq(JobItems) /\ notices' = notices /\ jobs' = jobs \o t
                 \/ /\ e \in NoticeItems /\ t \in Seq(NoticeItems) /\ notices' = notices \o t /\ jobs' = jobs
    BY <2>2
  <2>4. e = Consume \/ About(notices') \cup About(jobs') = About(notices) \cup About(jobs) \cup {e.about}
    <3>1. notices \in Seq(NoticeItems) /\ jobs \in Seq(JobItems)
      BY DEF Typed
    <3>2. t \in Seq(JobItems) => About(jobs \o t) = About(jobs) \cup About(t)
      BY <3>1, Joined
    <3>3. t \in Seq(NoticeItems) => About(notices \o t) = About(notices) \cup About(t)
      BY <3>1, Joined
    <3> QED
      BY <2>3, <3>2, <3>3
  <2>5. e = Consume => About(notices') = About(notices) /\ About(jobs') = About(jobs)
    <3>1. e \in JobItems \cup NoticeItems => e.about # Consume.about
      BY Kinds DEF JobItems, NoticeItems
    <3> QED
      BY <2>3, <3>1
  <2>6. e # Consume => e.about # Consume.about
    BY Kinds DEF AnyItem, JobItems, NoticeItems
  <2>7. OnTheWay' = OnTheWay
    <3>1. CASE e = Consume
      <4>1. About(asked) \ {Consume.about} = About(asked') \ {Consume.about}
        BY <2>3, <3>1
      <4> QED
        BY <1>way, <2>1, <2>5, <3>1, <4>1
    <3>2. CASE e # Consume
      BY <1>way, <2>1, <2>3, <2>4, <2>6, <3>2
    <3> QED
      BY <3>1, <3>2
  <2>8. About(asked') \subseteq About(asked)
    BY <2>3
  <2> QED
    BY <1>1, <2>1, <2>7, <2>8, Carried
<1>4. CASE OnChannelOpen
  <2>1. /\ notices' = notices /\ jobs' = jobs /\ inflight' = inflight /\ cbs' = cbs
        /\ rabbit'.lost = rabbit.lost /\ asked = <<>> /\ batch' = batch
        /\ ItemsIn(cbs) \in Seq(JobItems) /\ asked' = ItemsIn(cbs) \o <<Consume>>
    BY <1>4, OnChannelOpenFields DEF OnChannelOpen
  <2>2. About(ItemsIn(cbs)) = Published(cbs) /\ Published(cbs) \subseteq Jobs
    BY UnsentFacts DEF Typed
  <2>3. About(asked') = Published(cbs) \cup {Consume.about}
    <3> DEFINE a == ItemsIn(cbs)
               b == <<Consume>>
    <3>1. Consume \in AnyItem /\ JobItems \subseteq AnyItem
      BY DEF AnyItem
    <3>2. b \in Seq(AnyItem) /\ About(b) = {Consume.about}
      BY <3>1, Single
    <3>3. a \in Seq(AnyItem)
      BY <2>1, <3>1, SeqMonotonic
    <3>4. asked' = a \o b /\ About(a) = Published(cbs)
      BY <2>1, <2>2
    <3> HIDE DEF a, b
    <3>5. About(a \o b) = About(a) \cup About(b)
      BY <3>2, <3>3, Joined
    <3> QED
      BY <3>2, <3>4, <3>5
  <2>4. About(asked) = {}
    BY <2>1 DEF About
  <2>5. Published(cbs) \cap Notices = {}
    BY <2>2, Kinds
  <2>6. OnTheWay' = OnTheWay
    BY <1>way, <2>1, <2>3, <2>4
  <2>7. About(asked') \cap Notices \subseteq About(asked)
    BY <1>con, <2>3, <2>5
  <2> QED
    BY <1>1, <2>1, <2>6, <2>7, Carried
<1>5. CASE Reconnect
  <2>1. /\ notices' = notices /\ jobs' = jobs /\ inflight' = inflight /\ cbs' = cbs
        /\ rabbit'.lost = rabbit.lost /\ asked' = asked /\ batch' = batch
    BY <1>5, ReconnectFields DEF Reconnect
  <2>2. OnTheWay' = OnTheWay
    BY <1>way, <2>1
  <2> QED
    BY <1>1, <2>1, <2>2, Carried
<1>6. CASE Deliver
  <2>1. /\ Connected /\ jobs' = jobs /\ notices # <<>> /\ rabbit'.lost = rabbit.lost /\ batch' = batch
        /\ inflight' = Append(inflight, Head(notices)) /\ notices' = Tail(notices)
    BY <1>6, DeliverFields DEF Deliver
  <2>2. notices \in Seq(NoticeItems) /\ inflight \in Seq(NoticeItems)
    BY DEF Typed
  <2>3. Head(notices) \in NoticeItems /\ About(notices) = About(Tail(notices)) \cup {Head(notices).about}
    BY <2>1, <2>2, Taken
  <2>4. About(inflight') = About(inflight) \cup {Head(notices).about}
    <3> DEFINE h == Head(notices)
    <3>1. h \in NoticeItems /\ inflight' = Append(inflight, h)
      BY <2>1, <2>3
    <3> HIDE DEF h
    <3>2. About(Append(inflight, h)) = About(inflight) \cup {h.about}
      BY <2>2, <3>1, Appended
    <3> QED
      BY <3>1, <3>2 DEF h
  <2>5. OnTheWay' = OnTheWay
    <3> DEFINE x == Head(notices).about
    <3>1. cbs' = cbs /\ asked' = asked /\ jobs' = jobs /\ batch' = batch
      BY <2>1 DEF Connected
    <3>2. /\ About(notices) = About(notices') \cup {x} /\ About(inflight') = About(inflight) \cup {x}
      BY <2>1, <2>3, <2>4
    <3> HIDE DEF x
    <3> QED
      BY <1>way, <3>1, <3>2
  <2> QED
    BY <1>1, <2>1, <2>5, Carried DEF Connected
<1>7. CASE WorkerTakes
  <2>1. /\ jobs # <<>> /\ batch' = Append(batch, Head(jobs))
        /\ rabbit' = [rabbit EXCEPT !.ready = [rabbit.ready EXCEPT !["jobs"] = Tail(jobs)]]
    BY <1>7 DEF WorkerTakes, jobs
  <2>2. /\ Connected /\ notices' = notices /\ inflight' = inflight /\ jobs' = Tail(jobs)
        /\ rabbit'.lost = rabbit.lost
    BY <2>1, JobsFields
  <2>3. jobs \in Seq(JobItems) /\ batch \in Seq(JobItems)
    BY DEF Typed
  <2>4. Head(jobs) \in JobItems /\ About(jobs) = About(Tail(jobs)) \cup {Head(jobs).about}
    BY <2>1, <2>3, Taken
  <2>5. About(batch') = About(batch) \cup {Head(jobs).about}
    <3> DEFINE h == Head(jobs)
    <3>1. h \in JobItems /\ batch' = Append(batch, h)
      BY <2>1, <2>4
    <3> HIDE DEF h
    <3>2. About(Append(batch, h)) = About(batch) \cup {h.about}
      BY <2>3, <3>1, Appended
    <3> QED
      BY <3>1, <3>2 DEF h
  <2>6. OnTheWay' = OnTheWay
    <3> DEFINE x == Head(jobs).about
    <3>1. cbs' = cbs /\ asked' = asked /\ notices' = notices /\ inflight' = inflight
      BY <2>2 DEF Connected
    <3>2. /\ About(jobs) = About(jobs') \cup {x} /\ About(batch') = About(batch) \cup {x}
      BY <2>2, <2>4, <2>5
    <3> HIDE DEF x
    <3> QED
      BY <1>way, <3>1, <3>2
  <2> QED
    BY <1>1, <2>2, <2>6, Carried DEF Connected
<1> QED
  BY <1>2, <1>3, <1>4, <1>5, <1>6, <1>7

(* What the end of a connection takes away is ready again or lost. *)
LEMMA CarriedByEnds ==
  ASSUME Typed, Typed', Known, NothingForgotten, Stale,
         ConnectionEnds \/ OnConnectionClosed \/ RestartTornado
  PROVE  Known' /\ NothingForgotten'
<1>1. /\ published' = published /\ delivered' = delivered /\ finished' = finished
      /\ given_up' = given_up /\ errors' = errors /\ failed' = failed /\ batch' = batch
  BY DEF ConnectionEnds, OnConnectionClosed, RestartTornado
<1>way. /\ OnTheWay = About(notices) \cup About(jobs) \cup About(inflight) \cup About(batch)
                         \cup (About(asked) \ {Consume.about}) \cup Published(cbs)
        /\ OnTheWay' = About(notices') \cup About(jobs') \cup About(inflight') \cup About(batch')
                          \cup (About(asked') \ {Consume.about}) \cup Published(cbs')
  BY WayIs
<1>2. notices \in Seq(NoticeItems) /\ inflight \in Seq(NoticeItems) /\ waiting \in Seq(Waiting)
  BY DEF Typed
<1>3. About(inflight \o notices) = About(inflight) \cup About(notices)
  BY <1>2, Joined
<1>4. Published(Callbacks(waiting)) = About(asked) \ {Consume.about}
  BY <1>2, ItemsJoined DEF asked
<1>5. rabbit.conn # "open" => About(inflight) \subseteq About(notices)
  <2>1. CASE rabbit.conn = "stale"
    <3>1. PICK a \in 0..Len(notices) : \A i \in DOMAIN inflight : a + i \in DOMAIN notices /\ notices[a + i] = inflight[i]
      BY <2>1 DEF Stale
    <3> QED
      BY <3>1 DEF About
  <2>2. CASE rabbit.conn \in {"opening", "closed"}
    BY <2>2 DEF Typed, About
  <2> QED
    BY <2>1, <2>2 DEF Typed
<1>6. CASE ConnectionEnds
  <2>1. /\ notices' = inflight \o notices /\ jobs' = jobs /\ cbs' = cbs
        /\ DOMAIN inflight' \subseteq DOMAIN inflight
        /\ \A i \in DOMAIN inflight' : inflight'[i] = inflight[i]
        /\ rabbit'.lost = rabbit.lost /\ asked' = asked
    BY <1>6, ConnectionEndsFields
  <2>2. About(inflight') \subseteq About(inflight)
    BY <2>1 DEF About
  <2>3. OnTheWay' = OnTheWay
    <3>1. About(notices') = About(inflight) \cup About(notices)
      BY <1>3, <2>1
    <3> QED
      BY <1>1, <1>way, <2>1, <2>2, <3>1
  <2> QED
    BY <1>1, <2>1, <2>3, Carried
<1>7. CASE OnConnectionClosed
  <2>1. /\ rabbit.conn = "stale" /\ notices' = notices /\ jobs' = jobs /\ cbs' = cbs
        /\ inflight' = <<>> /\ asked' = <<>>
        /\ rabbit'.lost = rabbit.lost \cup Published(Callbacks(waiting))
    BY <1>7, OnConnectionClosedFields
  <2>2. About(inflight') = {} /\ About(asked') = {}
    BY <2>1 DEF About
  <2>3. OnTheWay' \subseteq OnTheWay /\ OnTheWay \subseteq OnTheWay' \cup rabbit'.lost
    BY <1>1, <1>way, <1>4, <1>5, <2>1, <2>2
  <2>4. rabbit.lost \subseteq rabbit'.lost /\ About(asked') \cap Notices \subseteq About(asked)
    BY <2>1, <2>2
  <2> QED
    BY <1>1, <2>3, <2>4, Carried
<1>8. CASE RestartTornado
  <2>1. /\ notices' = (IF rabbit.conn = "open" THEN inflight \o notices ELSE notices)
        /\ jobs' = jobs /\ cbs' = <<>> /\ inflight' = <<>> /\ asked' = <<>>
        /\ rabbit'.lost = rabbit.lost \cup Published(Callbacks(waiting)) \cup Published(cbs)
    BY <1>8, RestartFields
  <2>2. About(inflight') = {} /\ About(asked') = {} /\ Published(cbs') = {}
    BY <2>1 DEF About, Published
  <2>3. About(notices') = About(notices) \cup About(inflight)
    BY <1>3, <1>5, <2>1
  <2>4. OnTheWay' \subseteq OnTheWay /\ OnTheWay \subseteq OnTheWay' \cup rabbit'.lost
    BY <1>1, <1>way, <1>4, <2>1, <2>2, <2>3
  <2>5. rabbit.lost \subseteq rabbit'.lost /\ About(asked') \cap Notices \subseteq About(asked)
    BY <2>1, <2>2
  <2> QED
    BY <1>1, <2>4, <2>5, Carried
<1> QED
  BY <1>6, <1>7, <1>8

(* What is published is on the way, or lost at once. *)
LEMMA CarriedByPublish ==
  ASSUME Typed, Typed', Known, NothingForgotten,
         \/ \E n \in 1..NumNotices, copies \in 0..2 : DjangoPublish(n, copies)
         \/ \E j \in HookJobs : HookPublish(j)
  PROVE  Known' /\ NothingForgotten'
<1>way. /\ OnTheWay = About(notices) \cup About(jobs) \cup About(inflight) \cup About(batch)
                         \cup (About(asked) \ {Consume.about}) \cup Published(cbs)
        /\ OnTheWay' = About(notices') \cup About(jobs') \cup About(inflight') \cup About(batch')
                          \cup (About(asked') \ {Consume.about}) \cup Published(cbs')
  BY WayIs
<1>type. /\ notices \in Seq(NoticeItems) /\ jobs \in Seq(JobItems) /\ waiting \in Seq(Waiting)
         /\ cbs \in Seq(JobCallbacks) /\ rabbit.ran \in 0..Len(cbs)
  BY DEF Typed
<1>1. CASE \E n \in 1..NumNotices, copies \in 0..2 : DjangoPublish(n, copies)
  <2>1. PICK n \in 1..NumNotices, copies \in 0..2 : DjangoPublish(n, copies)
    BY <1>1
  <2> DEFINE c == [i \in 1..copies |-> NewItem(<<n, 0>>)]
             x == <<n, 0>>
  <2>2. c \in Seq(NoticeItems) /\ About(c) = IF copies = 0 THEN {} ELSE {x}
    BY CopiesFacts
  <2>3. /\ jobs' = jobs /\ inflight' = inflight /\ notices' = notices \o c
        /\ cbs' = cbs /\ asked' = asked
        /\ rabbit.lost \subseteq rabbit'.lost /\ (copies = 0 => x \in rabbit'.lost)
    BY <2>1, DjangoPublishFields DEF Connected
  <2>4. /\ batch' = batch /\ delivered' = delivered /\ published' = published \cup {x}
        /\ finished' = finished /\ given_up' = given_up /\ errors' = errors /\ failed' = failed
        /\ \A m \in 1..(n - 1) : <<m, 0>> \in published
    BY <2>1 DEF DjangoPublish
  <2>5. x \in Notices /\ x \notin Jobs /\ x[1] = n
    BY Kinds DEF Notices
  <2>6. \A k \in 1..NumNotices : k < x[1] => <<k, 0>> \in published
    BY <2>4, <2>5
  <2> HIDE DEF c, x
  <2>7. About(notices') = About(notices) \cup About(c)
    BY <1>type, <2>2, <2>3, Joined
  <2>8. OnTheWay' = OnTheWay \cup About(c)
    BY <1>way, <2>3, <2>4, <2>7
  <2>9. x \in OnTheWay' \cup DeadEnds' /\ DeadEnds \subseteq DeadEnds'
    BY <2>2, <2>3, <2>4, <2>8 DEF DeadEnds
  <2>10. \A y \in Notices : y \in OnTheWay \cup (published' \ published) => y \in OnTheWay' \cup DeadEnds'
    BY <2>4, <2>8, <2>9
  <2>11. \A j \in Jobs : j \in OnTheWay \cup (published' \ published)
                                \cup (ToSet(delivered') \ ToSet(delivered)) =>
           j \in OnTheWay' \cup DeadEnds' \cup finished' \cup errors'
    BY <2>4, <2>5, <2>8
  <2>12. \A y \in (published' \ published) \cap Notices, k \in 1..NumNotices : k < y[1] => <<k, 0>> \in published
    BY <2>4, <2>6
  <2>13. \A p \in ToSet(delivered') \ ToSet(delivered) : <<p[1], 0>> \in published
    BY <2>4
  <2>14. OnTheWay' \subseteq OnTheWay \cup published' \cup ToSet(delivered')
    BY <2>2, <2>4, <2>8
  <2>15. /\ published \subseteq published' /\ failed \subseteq failed' /\ finished \subseteq finished'
         /\ errors \subseteq errors' /\ ToSet(delivered) \subseteq ToSet(delivered')
         /\ finished' \subseteq finished \cup OnTheWay
         /\ About(asked') \cap Notices \subseteq About(asked) \cup failed'
    BY <2>3, <2>4
  <2> QED
    BY <2>9, <2>10, <2>11, <2>12, <2>13, <2>14, <2>15, Followed
<1>2. CASE \E j \in HookJobs : HookPublish(j)
  <2>1. PICK j \in HookJobs : HookPublish(j)
    BY <1>2
  <2>2. /\ batch' = batch /\ delivered' = delivered /\ published' = published \cup {j}
        /\ finished' = finished /\ given_up' = given_up /\ errors' = errors /\ failed' = failed
    BY <2>1 DEF HookPublish
  <2>3. inflight' = inflight /\ notices' = notices /\ rabbit.lost \subseteq rabbit'.lost /\ NewItem(j) \in JobItems
    BY <2>1, HookPublishFields
  <2>4. j \in Jobs /\ j \notin Notices /\ NewItem(j).about = j
    BY Kinds DEF NewItem
  <2>5. /\ OnTheWay \subseteq OnTheWay' /\ OnTheWay' \subseteq OnTheWay \cup {j}
        /\ j \in OnTheWay' \cup rabbit'.lost
        /\ About(asked') \cap Notices \subseteq About(asked)
    <3>1. CASE /\ jobs' = jobs /\ asked' = asked
               /\ \E c \in JobCallbacks : c.item = NewItem(j) /\ cbs' = Append(cbs, c)
      <4>1. PICK c \in JobCallbacks : c.item = NewItem(j) /\ cbs' = Append(cbs, c)
        BY <3>1
      <4>2. Published(cbs') = Published(cbs) \cup {c.item.about}
        BY <1>type, <4>1, UnsentAppended
      <4>3. c.item.about = j
        BY <2>4, <4>1
      <4> QED
        BY <1>way, <2>2, <2>3, <3>1, <4>2, <4>3
    <3>2. CASE /\ cbs' = cbs
               /\ \E d, a : /\ Placed(<<NewItem(j)>>, d, a, rabbit'.lost)
                            /\ jobs' = jobs \o d /\ asked' = asked \o a
      <4> DEFINE w == <<NewItem(j)>>
      <4>1. w \in Seq(JobItems) /\ About(w) = {j}
        BY <2>3, <2>4, Single
      <4> HIDE DEF w
      <4>2. PICK d, a : Placed(w, d, a, rabbit'.lost) /\ jobs' = jobs \o d /\ asked' = asked \o a
        BY <3>2 DEF w
      <4>3. /\ d \in Seq(JobItems) /\ a \in Seq(JobItems)
            /\ About(d) \subseteq {j} /\ About(a) \subseteq {j}
            /\ {j} \subseteq About(d) \cup About(a) \cup rabbit'.lost
        BY <4>1, <4>2, PlacedFacts
      <4>4. About(jobs') = About(jobs) \cup About(d)
        BY <1>type, <4>2, <4>3, Joined
      <4>5. About(asked') = About(asked) \cup About(a)
        <5>1. JobItems \subseteq AnyItem /\ asked \in Seq(AnyItem)
          BY <1>type, ItemsJoined DEF AnyItem, asked
        <5>2. a \in Seq(AnyItem)
          BY <4>3, <5>1, SeqMonotonic
        <5> QED
          BY <4>2, <5>1, <5>2, Joined
      <4>6. j # Consume.about
        BY <2>4, Kinds
      <4> QED
        BY <1>way, <2>2, <2>3, <2>4, <3>2, <4>3, <4>4, <4>5, <4>6
    <3> QED
      BY <2>1, <3>1, <3>2, HookPublishFields
  <2>6. DeadEnds \subseteq DeadEnds' /\ rabbit'.lost \subseteq DeadEnds'
    BY <2>2, <2>3 DEF DeadEnds
  <2>7. \A y \in Notices : y \in OnTheWay \cup (published' \ published) => y \in OnTheWay' \cup DeadEnds'
    BY <2>2, <2>4, <2>5
  <2>8. \A y \in Jobs : y \in OnTheWay \cup (published' \ published)
                                \cup (ToSet(delivered') \ ToSet(delivered)) =>
           y \in OnTheWay' \cup DeadEnds' \cup finished' \cup errors'
    BY <2>2, <2>5, <2>6
  <2>9. \A y \in (published' \ published) \cap Notices, k \in 1..NumNotices : k < y[1] => <<k, 0>> \in published
    BY <2>2, <2>4
  <2>10. \A p \in ToSet(delivered') \ ToSet(delivered) : <<p[1], 0>> \in published
    BY <2>2
  <2>11. OnTheWay' \subseteq OnTheWay \cup published' \cup ToSet(delivered')
    BY <2>2, <2>5
  <2>12. /\ published \subseteq published' /\ failed \subseteq failed' /\ finished \subseteq finished'
         /\ errors \subseteq errors' /\ ToSet(delivered) \subseteq ToSet(delivered')
         /\ finished' \subseteq finished \cup OnTheWay
         /\ About(asked') \cap Notices \subseteq About(asked) \cup failed'
    BY <2>2, <2>5
  <2> QED
    BY <2>6, <2>7, <2>8, <2>9, <2>10, <2>11, <2>12, Followed
<1> QED
  BY <1>1, <1>2

(* A notice is processed, retried or given up; its jobs are published. *)
LEMMA CarriedByProcess ==
  ASSUME Typed, Typed', Known, NothingForgotten,
         NEW done \in 0..NumUsers, ProcessNotification(done)
  PROVE  Known' /\ NothingForgotten'
<1>way. /\ OnTheWay = About(notices) \cup About(jobs) \cup About(inflight) \cup About(batch)
                         \cup (About(asked) \ {Consume.about}) \cup Published(cbs)
        /\ OnTheWay' = About(notices') \cup About(jobs') \cup About(inflight') \cup About(batch')
                          \cup (About(asked') \ {Consume.about}) \cup Published(cbs')
  BY WayIs
<1>type. /\ notices \in Seq(NoticeItems) /\ jobs \in Seq(JobItems) /\ waiting \in Seq(Waiting)
         /\ inflight \in Seq(NoticeItems)
  BY DEF Typed
<1>ask. asked \in Seq(AnyItem) /\ JobItems \subseteq AnyItem /\ NoticeItems \subseteq AnyItem
  BY <1>type, ItemsJoined DEF AnyItem, asked
<1> DEFINE h == Head(inflight)
           n == h.about
           m == n[1]
<1>1. /\ inflight # <<>> /\ inflight' = Tail(inflight) /\ cbs' = cbs /\ rabbit.lost \subseteq rabbit'.lost
  BY ProcessFields
<1>2. PICK w, xs, jd, ja, nd, na : Processed(done, w, xs, jd, ja, nd, na)
  BY ProcessedFacts
<1>3. /\ w \in Seq(JobItems) /\ xs \in Seq(NoticeItems)
      /\ About(w) = {<<m, u>> : u \in (1..done) \cap Idle}
      /\ About(xs) = IF done < NumUsers /\ CanRetry(h) THEN {n} ELSE {}
      /\ Placed(w, jd, ja, rabbit'.lost) /\ Placed(xs, nd, na, rabbit'.lost)
      /\ jobs' = jobs \o jd /\ notices' = notices \o nd
      /\ asked' = (asked \o ja) \o na
  BY <1>2 DEF Processed
<1>4. /\ batch' = batch /\ published' = published /\ finished' = finished /\ errors' = errors
      /\ given_up' = IF done < NumUsers /\ ~ CanRetry(h) THEN given_up \cup {n} ELSE given_up
      /\ failed' = IF done < NumUsers THEN failed \cup {n} ELSE failed
      /\ ProcessUsers(h, done)
  BY DEF ProcessNotification, inflight
<1>5. /\ h \in NoticeItems /\ Tail(inflight) \in Seq(NoticeItems)
      /\ About(inflight) = About(Tail(inflight)) \cup {n}
  BY <1>1, <1>type, Taken
<1>6. /\ m \in 1..NumNotices /\ n = <<m, 0>>
      /\ ToSet(delivered') = ToSet(delivered) \cup {<<m, u>> : u \in 1..done}
  BY <1>4, <1>5, ProcessUsersFacts
<1>7. n \in Notices
  BY <1>5 DEF NoticeItems
<1> HIDE DEF h, m, n
<1>8. /\ jd \in Seq(JobItems) /\ ja \in Seq(JobItems)
      /\ About(jd) \subseteq About(w) /\ About(ja) \subseteq About(w)
      /\ About(w) \subseteq About(jd) \cup About(ja) \cup rabbit'.lost
  BY <1>3, PlacedFacts
<1>9. /\ nd \in Seq(NoticeItems) /\ na \in Seq(NoticeItems)
      /\ About(nd) \subseteq About(xs) /\ About(na) \subseteq About(xs)
      /\ About(xs) \subseteq About(nd) \cup About(na) \cup rabbit'.lost
  BY <1>3, PlacedFacts
<1>10. About(jobs') = About(jobs) \cup About(jd)
  BY <1>3, <1>8, <1>type, Joined
<1>11. About(notices') = About(notices) \cup About(nd)
  BY <1>3, <1>9, <1>type, Joined
<1>12. About(asked') = About(asked) \cup About(ja) \cup About(na)
  <2>1. ja \in Seq(AnyItem) /\ na \in Seq(AnyItem)
    BY <1>8, <1>9, <1>ask, SeqMonotonic
  <2>2. asked \o ja \in Seq(AnyItem) /\ About(asked \o ja) = About(asked) \cup About(ja)
    BY <1>ask, <2>1, Joined
  <2>3. About((asked \o ja) \o na) = About(asked \o ja) \cup About(na)
    <3> DEFINE x == asked \o ja
    <3>1. x \in Seq(AnyItem)
      BY <2>2
    <3> HIDE DEF x
    <3>2. About(x \o na) = About(x) \cup About(na)
      BY <2>1, <3>1, Joined
    <3> QED
      BY <3>2 DEF x
  <2> QED
    BY <1>3, <2>2, <2>3
<1>13. About(w) \subseteq Jobs
  BY <1>3, <1>6 DEF Jobs
<1>14. Consume.about \notin Notices \cup Jobs /\ Notices \cap Jobs = {}
  BY Kinds
<1>15. About(xs) \subseteq {n} /\ Idle \subseteq 1..NumUsers
  BY <1>3, BoundsAssumption
<1>16. About(w) \subseteq ToSet(delivered')
  BY <1>3, <1>6
<1>17. /\ OnTheWay \subseteq OnTheWay' \cup {n}
       /\ OnTheWay' \subseteq OnTheWay \cup About(w)
       /\ About(w) \cup About(xs) \subseteq OnTheWay' \cup rabbit'.lost
  <2>1. n \in OnTheWay /\ About(inflight) = About(inflight') \cup {n} /\ n # Consume.about
    BY <1>1, <1>5, <1>7, <1>14, <1>way
  <2>2. OnTheWay \subseteq OnTheWay' \cup {n}
    BY <1>way, <1>1, <1>4, <1>10, <1>11, <1>12, <2>1
  <2>3. OnTheWay' \subseteq OnTheWay \cup About(w)
    BY <1>way, <1>1, <1>4, <1>8, <1>9, <1>10, <1>11, <1>12, <1>15, <2>1
  <2>4. Consume.about \notin About(w) \cup About(xs)
    BY <1>7, <1>13, <1>14, <1>15
  <2>5. About(w) \cup About(xs) \subseteq OnTheWay' \cup rabbit'.lost
    BY <1>way, <1>8, <1>9, <1>10, <1>11, <1>12, <2>4
  <2> QED
    BY <2>2, <2>3, <2>5
<1>18. DeadEnds \subseteq DeadEnds' /\ rabbit'.lost \cup given_up' \subseteq DeadEnds'
  BY <1>1, <1>4 DEF DeadEnds
<1>19. n \in OnTheWay' \cup DeadEnds' \/ \A u \in 1..NumUsers : <<n[1], u>> \in ToSet(delivered')
  <2>1. CASE done < NumUsers /\ CanRetry(h)
    BY <1>3, <1>17, <1>18, <2>1
  <2>2. CASE done < NumUsers /\ ~ CanRetry(h)
    BY <1>4, <1>18, <2>2
  <2>3. CASE ~ (done < NumUsers)
    <3>1. done = NumUsers
      BY <2>3, BoundsAssumption
    <3> QED
      BY <1>6, <3>1 DEF m
  <2> QED
    BY <2>1, <2>2, <2>3
<1>20. \A y \in Notices : y \in OnTheWay \cup (published' \ published) =>
           y \in OnTheWay' \cup DeadEnds' \/ Reached(y)'
  <2>1. ASSUME NEW y \in Notices, y \in OnTheWay
        PROVE  y \in OnTheWay' \cup DeadEnds' \/ Reached(y)'
    <3>1. CASE y = n
      BY <1>19, <3>1 DEF Reached
    <3>2. CASE y # n
      BY <1>17, <2>1, <3>2
    <3> QED
      BY <3>1, <3>2
  <2> QED
    BY <1>4, <2>1
<1>21. (ToSet(delivered') \ ToSet(delivered)) \cap Jobs \subseteq About(w)
  <2>1. ASSUME NEW p \in ToSet(delivered') \ ToSet(delivered), p \in Jobs
        PROVE  p \in About(w)
    <3>1. PICK u \in 1..done : p = <<m, u>>
      BY <1>6, <2>1
    <3>2. u \in Idle
      BY <1>6, <2>1, <3>1, BoundsAssumption DEF Jobs, HookJobs
    <3> QED
      BY <1>3, <3>1, <3>2
  <2> QED
    BY <2>1
<1>22. \A j \in Jobs : j \in OnTheWay \cup (published' \ published)
                                \cup (ToSet(delivered') \ ToSet(delivered)) =>
           j \in OnTheWay' \cup DeadEnds' \cup finished' \cup errors'
  <2>1. n \notin Jobs
    BY <1>7, <1>14
  <2> QED
    BY <1>4, <1>17, <1>18, <1>21, <2>1
<1>23. \A p \in ToSet(delivered') \ ToSet(delivered) : <<p[1], 0>> \in published
  <2>1. n \in published
    <3>1. n \in OnTheWay
      BY <1>5, <1>way
    <3> QED
      BY <1>7, <3>1 DEF Known
  <2> QED
    BY <1>6, <2>1
<1>24. About(asked') \cap Notices \subseteq About(asked) \cup failed'
  BY <1>3, <1>4, <1>8, <1>9, <1>12, <1>13, <1>14
<1>25. OnTheWay' \subseteq OnTheWay \cup published' \cup ToSet(delivered')
  BY <1>16, <1>17
<1>26. \A y \in (published' \ published) \cap Notices, k \in 1..NumNotices : k < y[1] => <<k, 0>> \in published
  BY <1>4
<1>27. /\ published \subseteq published' /\ failed \subseteq failed' /\ finished \subseteq finished'
       /\ errors \subseteq errors' /\ ToSet(delivered) \subseteq ToSet(delivered')
       /\ finished' \subseteq finished \cup OnTheWay
  BY <1>4, <1>6
<1> QED
  BY <1>18, <1>20, <1>22, <1>23, <1>24, <1>25, <1>26, <1>27, Followed

(* A batch is done, retried, given up, delivered again or in the file of errors. *)
LEMMA CarriedByWorker ==
  ASSUME Typed, Typed', Known, NothingForgotten, NEW done, NEW failing, Consumes(done, failing)
  PROVE  Known' /\ NothingForgotten'
<1>way. /\ OnTheWay = About(notices) \cup About(jobs) \cup About(inflight) \cup About(batch)
                         \cup (About(asked) \ {Consume.about}) \cup Published(cbs)
        /\ OnTheWay' = About(notices') \cup About(jobs') \cup About(inflight') \cup About(batch')
                          \cup (About(asked') \ {Consume.about}) \cup Published(cbs')
  BY WayIs
<1>type. jobs \in Seq(JobItems) /\ batch \in Seq(JobItems)
  BY DEF Typed
<1>1. /\ notices' = notices /\ inflight' = inflight /\ rabbit'.lost = rabbit.lost
      /\ batch' = <<>> /\ published' = published /\ delivered' = delivered
      /\ cbs' = cbs /\ asked' = asked
      /\ 1..done \subseteq DOMAIN batch /\ failing \subseteq 1..done
      /\ errors \subseteq errors'
  BY ConsumesFields DEF Connected
<1>2. PICK f \in Seq(JobItems), t \in Seq(JobItems) :
         /\ jobs' = (f \o jobs) \o t
         /\ About(t) = {batch[i].about : i \in {i \in failing : CanRetry(batch[i])}}
         /\ \/ f = <<>> /\ (1..done = DOMAIN batch \/ About(batch) \subseteq errors')
            \/ f = batch /\ About(batch) \subseteq again'
  BY ConsumesFields, Zenon
<1>3. /\ finished' = finished \cup {batch[i].about : i \in (1..done) \ failing}
      /\ given_up' = given_up \cup {batch[i].about : i \in {i \in failing : ~ CanRetry(batch[i])}}
      /\ failed' = failed \cup {batch[i].about : i \in failing}
  BY ConsumesFields DEF ConsumeSome
<1>4. About(jobs') = About(f) \cup About(jobs) \cup About(t)
  <2>1. f \o jobs \in Seq(JobItems) /\ About(f \o jobs) = About(f) \cup About(jobs)
    BY <1>type, Joined
  <2>2. About((f \o jobs) \o t) = About(f \o jobs) \cup About(t)
    <3> DEFINE x == f \o jobs
    <3>1. x \in Seq(JobItems)
      BY <2>1
    <3> HIDE DEF x
    <3>2. About(x \o t) = About(x) \cup About(t)
      BY <3>1, Joined
    <3> QED
      BY <3>2 DEF x
  <2> QED
    BY <1>2, <2>1, <2>2
<1>5. About(f) \cup About(t) \subseteq About(batch)
  <2>1. About(t) \subseteq About(batch)
    BY <1>1, <1>2 DEF About
  <2>2. About(f) \subseteq About(batch)
    BY <1>2 DEF About
  <2> QED
    BY <2>1, <2>2
<1>6. About(batch) \subseteq About(f) \cup About(t) \cup given_up' \cup finished' \cup errors'
  <2>1. ASSUME NEW i \in 1..done
        PROVE  batch[i].about \in About(t) \cup given_up' \cup finished'
    BY <1>2, <1>3
  <2>2. 1..done = DOMAIN batch => About(batch) \subseteq About(t) \cup given_up' \cup finished'
    BY <2>1 DEF About
  <2> QED
    BY <1>2, <2>2
<1>7. About(batch') = {}
  BY <1>1 DEF About
<1>8. OnTheWay' \subseteq OnTheWay /\ OnTheWay \subseteq OnTheWay' \cup given_up' \cup finished' \cup errors'
  BY <1>way, <1>1, <1>4, <1>5, <1>6, <1>7
<1>9. DeadEnds \subseteq DeadEnds' /\ given_up' \subseteq DeadEnds'
  BY <1>1, <1>3 DEF DeadEnds
<1>11. OnTheWay \cap Notices \subseteq OnTheWay'
  <2>1. About(batch) \cap Notices = {}
    BY AboutKinds, Kinds
  <2> QED
    BY <1>way, <1>1, <1>4, <2>1
<1>12. \A n \in Notices : n \in OnTheWay \cup (published' \ published) =>
           n \in OnTheWay' \cup DeadEnds' \/ Reached(n)'
  BY <1>1, <1>11
<1>13. \A j \in Jobs : j \in OnTheWay \cup (published' \ published)
                                \cup (ToSet(delivered') \ ToSet(delivered)) =>
           j \in OnTheWay' \cup DeadEnds' \cup finished' \cup errors'
  BY <1>1, <1>8, <1>9
<1>14. finished' \subseteq finished \cup OnTheWay
  <2>1. \A i \in 1..done : batch[i].about \in About(batch)
    BY <1>1 DEF About
  <2>2. {batch[i].about : i \in (1..done) \ failing} \subseteq About(batch)
    BY <2>1
  <2> QED
    BY <1>3, <1>way, <2>2
<1>15. /\ published \subseteq published' /\ failed \subseteq failed' /\ finished \subseteq finished'
       /\ errors \subseteq errors' /\ ToSet(delivered) \subseteq ToSet(delivered')
       /\ OnTheWay' \subseteq OnTheWay \cup published' \cup ToSet(delivered')
       /\ About(asked') \cap Notices \subseteq About(asked) \cup failed'
  BY <1>1, <1>3, <1>8
<1>16. \A p \in ToSet(delivered') \ ToSet(delivered) : <<p[1], 0>> \in published
  BY <1>1
<1>17. \A y \in (published' \ published) \cap Notices, k \in 1..NumNotices : k < y[1] => <<k, 0>> \in published
  BY <1>1
<1> QED
  BY <1>9, <1>12, <1>13, <1>14, <1>15, <1>16, <1>17, Followed

-----------------------------------------------------------------------------
(* The consumer. *)

(* One consumer or one request for it, as a statement on the items that wait. *)
LEMMA ConsumerCount ==
  ASSUME NEW ws \in Seq(Waiting)
  PROVE  LET c == Cardinality({i \in DOMAIN ws : ws[i].cb = ConsumeNotices})
         IN  /\ c \in Nat
             /\ c = 0 <=> Consume.about \notin About(ItemsOf(ws))
             /\ c = 1 <=> Consume.about \in About(ItemsOf(ws)) /\ Once(ItemsOf(ws), Consume.about)
<1> DEFINE S == {i \in DOMAIN ws : ws[i].cb = ConsumeNotices}
           s == ItemsOf(ws)
<1>1. DOMAIN ws = 1..Len(ws) /\ Len(ws) \in Nat /\ DOMAIN s = DOMAIN ws
  BY LenProperties DEF ItemsOf
<1>2. ASSUME NEW i \in DOMAIN ws PROVE ws[i].cb = ConsumeNotices <=> s[i].about = Consume.about
  <2>1. ws[i] \in Waiting /\ s[i] = ws[i].cb.item
    BY <1>1, ElementOfSeq DEF ItemsOf
  <2>2. ws[i].cb \in JobCallbacks \cup NoticeCallbacks \/ ws[i].cb = ConsumeNotices
    BY <2>1 DEF Waiting
  <2>3. ws[i].cb \in JobCallbacks \cup NoticeCallbacks => ws[i].cb.item \in JobItems \cup NoticeItems
    BY DEF JobCallbacks, NoticeCallbacks
  <2>4. ws[i].cb.item \in JobItems \cup NoticeItems => ws[i].cb.item.about # Consume.about
    BY Kinds DEF JobItems, NoticeItems
  <2>5. ConsumeNotices.item = Consume
    BY DEF ConsumeNotices
  <2> QED
    BY <2>1, <2>2, <2>3, <2>4, <2>5
<1>3. S = {i \in DOMAIN s : s[i].about = Consume.about} /\ IsFiniteSet(S)
  <2>1. S = {i \in DOMAIN s : s[i].about = Consume.about}
    BY <1>1, <1>2
  <2>2. IsFiniteSet(1..Len(ws)) /\ S \subseteq 1..Len(ws)
    BY <1>1, FS_Interval
  <2> QED
    BY <2>1, <2>2, FS_Subset
<1> HIDE DEF S, s
<1>4. Cardinality(S) \in Nat /\ (Cardinality(S) = 0 <=> S = {}) /\ (Cardinality(S) = 1 <=> \E x : S = {x})
  BY <1>3, FS_CardinalityType, FS_EmptySet, FS_Singleton
<1>5. S = {} <=> Consume.about \notin About(s)
  BY <1>3 DEF About
<1>6. (\E x : S = {x}) <=> Consume.about \in About(s) /\ Once(s, Consume.about)
  <2>1. ASSUME NEW x, S = {x} PROVE Once(s, Consume.about)
    BY <1>3, <2>1 DEF Once
  <2>2. ASSUME Consume.about \in About(s), Once(s, Consume.about) PROVE \E x : S = {x}
    <3>1. PICK x \in DOMAIN s : s[x].about = Consume.about
      BY <2>2 DEF About
    <3>2. S = {x}
      BY <1>3, <2>2, <3>1 DEF Once
    <3> QED
      BY <3>2
  <2> QED
    BY <1>5, <2>1, <2>2
<1> QED
  BY <1>4, <1>5, <1>6 DEF S, s

ConsumerOrRequest(n, s) ==
  \/ n = 1 /\ Consume.about \notin About(s)
  \/ n = 0 /\ Consume.about \in About(s) /\ Once(s, Consume.about)

(* OneConsumer in these terms, before and after a step. *)
LEMMA OneConsumerIs ==
  ASSUME Typed, Typed'
  PROVE  /\ OneConsumer <=> (rabbit.conn = "open" => ConsumerOrRequest(rabbit.consumers, asked))
         /\ OneConsumer' <=> (rabbit'.conn = "open" => ConsumerOrRequest(rabbit'.consumers, asked'))
<1>1. ASSUME NEW ws \in Seq(Waiting), NEW n \in Nat
      PROVE  n + Cardinality({i \in DOMAIN ws : ws[i].cb = ConsumeNotices}) = 1
               <=> ConsumerOrRequest(n, ItemsOf(ws))
  <2> DEFINE c == Cardinality({i \in DOMAIN ws : ws[i].cb = ConsumeNotices})
  <2>1. /\ c \in Nat
        /\ c = 0 <=> Consume.about \notin About(ItemsOf(ws))
        /\ c = 1 <=> Consume.about \in About(ItemsOf(ws)) /\ Once(ItemsOf(ws), Consume.about)
    BY ConsumerCount
  <2> HIDE DEF c
  <2>2. n + c = 1 <=> ConsumerOrRequest(n, ItemsOf(ws))
    BY <2>1 DEF ConsumerOrRequest
  <2> QED
    BY <2>2 DEF c
<1>2. /\ waiting \in Seq(Waiting) /\ rabbit.consumers \in Nat
      /\ waiting' \in Seq(Waiting) /\ rabbit'.consumers \in Nat
  BY DEF Typed
<1>3. rabbit.consumers + Cardinality({i \in DOMAIN waiting : waiting[i].cb = ConsumeNotices}) = 1
        <=> ConsumerOrRequest(rabbit.consumers, asked)
  BY <1>1, <1>2 DEF asked
<1>4. rabbit'.consumers + Cardinality({i \in DOMAIN waiting' : waiting'[i].cb = ConsumeNotices}) = 1
        <=> ConsumerOrRequest(rabbit'.consumers, asked')
  BY <1>1, <1>2 DEF asked
<1> QED
  BY <1>3, <1>4 DEF OneConsumer, waiting

(* Items that are joined to what waits, and are not requests to consume.   *)
LEMMA StillOneConsumer ==
  ASSUME NEW n, NEW s \in Seq(AnyItem), NEW a \in Seq(AnyItem),
         Consume.about \notin About(a), ConsumerOrRequest(n, s)
  PROVE  ConsumerOrRequest(n, s \o a)
<1>1. Once(a, Consume.about)
  BY DEF Once, About
<1>2. About(s \o a) = About(s) \cup About(a)
  BY Joined
<1>3. Once(s, Consume.about) => Once(s \o a, Consume.about)
  BY <1>1, Joined
<1> QED
  BY <1>2, <1>3 DEF ConsumerOrRequest

(* The connection ends with its consumer; the next channel asks for one. *)
LEMMA OneConsumerBroker ==
  ASSUME Typed, Typed', OneConsumer,
         SetQos \/ FinishQos \/ OnChannelOpen \/ ConnectionEnds \/ OnConnectionClosed
           \/ Reconnect \/ RestartTornado
  PROVE  OneConsumer'
<1> USE DEF ConsumerOrRequest
<1>1. SUFFICES ASSUME rabbit'.conn = "open"
               PROVE  ConsumerOrRequest(rabbit'.consumers, asked')
  BY OneConsumerIs
<1>2. CASE SetQos
  BY <1>2, SetQosFields, OneConsumerIs
<1>3. CASE FinishQos
  <2>1. ConsumerOrRequest(rabbit.consumers, asked) /\ rabbit.consumers \in Nat
    BY <1>3, FinishQosFields, OneConsumerIs DEF Typed
  <2>2. PICK e \in AnyItem :
              /\ About(asked) = About(asked') \cup {e.about}
              /\ \A a : Once(asked, a) => Once(asked', a) /\ (e.about = a => a \notin About(asked'))
              /\ \/ e = Consume /\ rabbit'.consumers = rabbit.consumers + 1
                 \/ e \in JobItems \cup NoticeItems /\ rabbit'.consumers = rabbit.consumers
    BY <1>3, FinishQosFields
  <2>3. e \in JobItems \cup NoticeItems => e.about # Consume.about
    BY Kinds DEF JobItems, NoticeItems
  <2> DEFINE c == Consume.about
  <2>4. Once(asked, c) => Once(asked', c) /\ (e.about = c => c \notin About(asked'))
    BY <2>2
  <2>5. CASE e = Consume /\ rabbit'.consumers = rabbit.consumers + 1
    BY <2>1, <2>2, <2>4, <2>5
  <2>6. CASE e \in JobItems \cup NoticeItems /\ rabbit'.consumers = rabbit.consumers
    BY <2>1, <2>2, <2>3, <2>4, <2>6
  <2> QED
    BY <2>2, <2>5, <2>6
<1>4. CASE OnChannelOpen
  <2>1. /\ rabbit.conn = "opening" /\ rabbit'.consumers = rabbit.consumers
        /\ ItemsIn(cbs) \in Seq(JobItems) /\ asked' = ItemsIn(cbs) \o <<Consume>>
    BY <1>4, OnChannelOpenFields
  <2>2. rabbit'.consumers = 0
    BY <2>1 DEF Typed
  <2> DEFINE a == ItemsIn(cbs)
             b == <<Consume>>
  <2>3. a \in Seq(AnyItem) /\ About(a) \subseteq Jobs
    <3>1. JobItems \subseteq AnyItem
      BY DEF AnyItem
    <3>2. About(a) \subseteq Jobs
      BY UnsentFacts DEF Typed
    <3> QED
      BY <2>1, <3>1, <3>2, SeqMonotonic
  <2>4. b \in Seq(AnyItem) /\ About(b) = {Consume.about} /\ Once(b, Consume.about)
    BY Single DEF AnyItem
  <2>5. asked' = a \o b
    BY <2>1
  <2>6. Consume.about \notin About(a)
    BY <2>3, Kinds
  <2> HIDE DEF a, b
  <2>7. Once(a, Consume.about)
    BY <2>6 DEF Once, About
  <2>8. About(a \o b) = About(a) \cup About(b) /\ Once(a \o b, Consume.about)
    BY <2>3, <2>4, <2>6, <2>7, Joined
  <2> QED
    BY <2>2, <2>4, <2>5, <2>8
<1>5. ~ (ConnectionEnds \/ OnConnectionClosed \/ Reconnect \/ RestartTornado)
  BY <1>1, ConnectionEndsFields, OnConnectionClosedFields, ReconnectFields, RestartFields
<1> QED
  BY <1>2, <1>3, <1>4, <1>5

(* More jobs may wait, and no request is added. *)
LEMMA OneConsumerKept ==
  ASSUME Typed, Typed', OneConsumer, rabbit'.conn = rabbit.conn,
         rabbit'.consumers = rabbit.consumers,
         asked' = asked \/ \E a \in Seq(AnyItem) : Consume.about \notin About(a) /\ asked' = asked \o a
  PROVE  OneConsumer'
<1>1. asked \in Seq(AnyItem)
  BY ItemsJoined DEF Typed, asked
<1>2. CASE asked' = asked
  BY <1>2, OneConsumerIs
<1>3. CASE \E a \in Seq(AnyItem) : Consume.about \notin About(a) /\ asked' = asked \o a
  BY <1>1, <1>3, OneConsumerIs, StillOneConsumer
<1> QED
  BY <1>2, <1>3

(* No other step asks for a consumer. *)
LEMMA OneConsumerRest ==
  ASSUME Typed, Typed', OneConsumer,
         \/ Deliver \/ WorkerTakes \/ \E done, failing : Consumes(done, failing)
         \/ \E done \in 0..NumUsers : ProcessNotification(done)
         \/ \E n \in 1..NumNotices, copies \in 0..2 : DjangoPublish(n, copies)
         \/ \E j \in HookJobs : HookPublish(j)
  PROVE  OneConsumer'
<1>ask. asked \in Seq(AnyItem) /\ JobItems \subseteq AnyItem /\ NoticeItems \subseteq AnyItem
  BY ItemsJoined DEF Typed, asked, AnyItem
<1>kind. Consume.about \notin Notices \cup Jobs
  BY Kinds
<1>1. CASE Deliver \/ WorkerTakes \/ (\E done, failing : Consumes(done, failing))
             \/ \E n \in 1..NumNotices, copies \in 0..2 : DjangoPublish(n, copies)
  <2>1. Connected
    <3>1. CASE Deliver
      BY <3>1, DeliverFields
    <3>2. CASE WorkerTakes
      <4>1. rabbit' = [rabbit EXCEPT !.ready = [rabbit.ready EXCEPT !["jobs"] = Tail(jobs)]]
        BY <3>2 DEF WorkerTakes, jobs
      <4> QED
        BY <4>1, JobsFields
    <3>3. CASE \E done, failing : Consumes(done, failing)
      BY <3>3, ConsumesFields
    <3>4. CASE \E n \in 1..NumNotices, copies \in 0..2 : DjangoPublish(n, copies)
      BY <3>4, DjangoPublishFields
    <3> QED
      BY <1>1, <3>1, <3>2, <3>3, <3>4
  <2> QED
    BY <2>1, OneConsumerKept DEF Connected
<1>2. CASE \E j \in HookJobs : HookPublish(j)
  <2>1. PICK j \in HookJobs : HookPublish(j)
    BY <1>2
  <2>2. rabbit'.conn = rabbit.conn /\ rabbit'.consumers = rabbit.consumers /\ NewItem(j) \in JobItems
    BY <2>1, HookPublishFields
  <2>3. CASE asked' = asked
    BY <2>2, <2>3, OneConsumerKept
  <2>4. CASE \E d, a : Placed(<<NewItem(j)>>, d, a, rabbit'.lost) /\ asked' = asked \o a
    <3> DEFINE w == <<NewItem(j)>>
    <3>1. w \in Seq(JobItems) /\ About(w) = {NewItem(j).about}
      BY <2>2, Single
    <3>2. NewItem(j).about \in Jobs
      BY <2>2 DEF JobItems
    <3> HIDE DEF w
    <3>3. PICK d, a : Placed(w, d, a, rabbit'.lost) /\ asked' = asked \o a
      BY <2>4 DEF w
    <3>4. a \in Seq(JobItems) /\ About(a) \subseteq About(w)
      BY <3>1, <3>3, PlacedFacts
    <3>5. a \in Seq(AnyItem) /\ Consume.about \notin About(a)
      BY <1>ask, <1>kind, <3>1, <3>2, <3>4, SeqMonotonic
    <3> QED
      BY <2>2, <3>3, <3>5, OneConsumerKept
  <2> QED
    BY <2>1, <2>3, <2>4, HookPublishFields
<1>3. CASE \E done \in 0..NumUsers : ProcessNotification(done)
  <2>1. PICK done \in 0..NumUsers : ProcessNotification(done)
    BY <1>3
  <2>2. rabbit'.conn = rabbit.conn /\ rabbit'.consumers = rabbit.consumers
    BY <2>1, ProcessFields
  <2>3. PICK w, xs, jd, ja, nd, na : Processed(done, w, xs, jd, ja, nd, na)
    BY <2>1, ProcessedFacts
  <2>4. /\ w \in Seq(JobItems) /\ xs \in Seq(NoticeItems)
        /\ Placed(w, jd, ja, rabbit'.lost) /\ Placed(xs, nd, na, rabbit'.lost)
        /\ asked' = (asked \o ja) \o na
    BY <2>3 DEF Processed
  <2>5. ja \in Seq(JobItems) /\ na \in Seq(NoticeItems)
    BY <2>4, PlacedFacts
  <2>6. ja \in Seq(AnyItem) /\ na \in Seq(AnyItem)
    BY <1>ask, <2>5, SeqMonotonic
  <2>7. Consume.about \notin About(ja) /\ Consume.about \notin About(na)
    <3>1. \A i \in DOMAIN ja : ja[i] \in JobItems
      BY <2>5, ElementOfSeq, LenProperties
    <3>2. \A i \in DOMAIN na : na[i] \in NoticeItems
      BY <2>5, ElementOfSeq, LenProperties
    <3> QED
      BY <1>kind, <3>1, <3>2 DEF About, JobItems, NoticeItems
  <2>8. ASSUME NEW k, ConsumerOrRequest(k, asked)
        PROVE  ConsumerOrRequest(k, asked')
    <3> DEFINE x == asked \o ja
    <3>1. x \in Seq(AnyItem) /\ ConsumerOrRequest(k, x)
      BY <1>ask, <2>6, <2>7, <2>8, StillOneConsumer, ConcatProperties
    <3>2. asked' = x \o na
      BY <2>4
    <3> HIDE DEF x
    <3>3. ConsumerOrRequest(k, x \o na)
      BY <2>6, <2>7, <3>1, StillOneConsumer
    <3> QED
      BY <3>2, <3>3
  <2> QED
    BY <2>2, <2>8, OneConsumerIs
<1> QED
  BY <1>1, <1>2, <1>3

-----------------------------------------------------------------------------
(* The order of the notices. *)

Pairs == (1..NumNotices) \X (1..NumUsers)

(* What a notice in line is about. *)
LEMMA NoticeAbout ==
  ASSUME NEW s \in Seq(NoticeItems), NEW i \in DOMAIN s
  PROVE  s[i] \in NoticeItems /\ s[i].about \in Notices /\ s[i].about[1] \in 1..NumNotices
         /\ s[i].about = <<s[i].about[1], 0>> /\ s[i].about \in About(s)
<1>1. s[i] \in NoticeItems
  BY ElementOfSeq, LenProperties
<1>2. s[i].about \in Notices
  BY <1>1 DEF NoticeItems
<1>3. s[i].about \in About(s)
  BY DEF About
<1> QED
  BY <1>1, <1>2, <1>3, Kinds

(* A line that grows at its end, with what is not older than all before it. *)
LEMMA LineJoined ==
  ASSUME NEW s \in Seq(NoticeItems), NEW t \in Seq(NoticeItems), NEW d \in Seq(Pairs), NEW f,
         NEW x \in Notices, InLine(s, d, f), About(t) \subseteq {x},
         \/ x \in f
         \/ /\ \A y \in About(s) : y[1] <= x[1]
            /\ \A i \in DOMAIN d : d[i][1] <= x[1]
  PROVE  InLine(s \o t, d, f)
<1> DEFINE l == s \o t
<1>1. /\ Len(s) \in Nat /\ Len(t) \in Nat /\ DOMAIN s = 1..Len(s) /\ DOMAIN t = 1..Len(t)
      /\ DOMAIN l = 1..(Len(s) + Len(t))
      /\ \A i \in 1..(Len(s) + Len(t)) : l[i] = IF i <= Len(s) THEN s[i] ELSE t[i - Len(s)]
  <2>1. /\ l \in Seq(NoticeItems) /\ Len(l) = Len(s) + Len(t)
        /\ \A i \in 1..(Len(s) + Len(t)) : l[i] = IF i <= Len(s) THEN s[i] ELSE t[i - Len(s)]
    BY ConcatProperties
  <2> QED
    BY <2>1, LenProperties
<1>2. About(l) = About(s) \cup About(t)
  BY Joined
<1> HIDE DEF l
<1>3. \A k \in DOMAIN t : t[k].about = x
  BY DEF About
<1>4. \A k \in DOMAIN s : s[k].about \in About(s) /\ s[k].about[1] \in Int
  BY NoticeAbout
<1>5. x[1] \in Int
  BY Kinds
<1>6. Sorted(l, f)
  <2>1. SUFFICES ASSUME NEW i \in DOMAIN l, NEW k \in DOMAIN l, i < k, l[k].about[1] < l[i].about[1]
                 PROVE  l[k].about \in f
    BY DEF Sorted
  <2>2. CASE k <= Len(s)
    <3>1. i \in DOMAIN s /\ k \in DOMAIN s /\ l[i] = s[i] /\ l[k] = s[k]
      BY <1>1, <2>1, <2>2
    <3> QED
      BY <2>1, <3>1 DEF InLine, Sorted
  <2>3. CASE ~ (k <= Len(s))
    <3>1. k - Len(s) \in DOMAIN t /\ l[k] = t[k - Len(s)]
      BY <1>1, <2>1, <2>3
    <3>2. l[k].about = x
      BY <1>3, <3>1
    <3>3. CASE i <= Len(s)
      <4>1. i \in DOMAIN s /\ l[i] = s[i]
        BY <1>1, <2>1, <3>3
      <4>2. l[i].about \in About(s) /\ l[i].about[1] \in Int
        BY <1>4, <4>1
      <4> QED
        BY <1>5, <2>1, <3>2, <4>2
    <3>4. CASE ~ (i <= Len(s))
      <4>1. i - Len(s) \in DOMAIN t /\ l[i] = t[i - Len(s)]
        BY <1>1, <2>1, <3>4
      <4> QED
        BY <1>3, <1>5, <2>1, <3>2, <4>1
    <3> QED
      BY <3>3, <3>4
  <2> QED
    BY <2>2, <2>3
<1>7. Ahead(l, d, f)
  <2>1. SUFFICES ASSUME NEW i \in DOMAIN d, NEW n \in About(l), n[1] < d[i][1], n \notin f
                 PROVE  <<n[1], d[i][2]>> \in ToSet(d)
    BY DEF Ahead
  <2>2. CASE n \in About(s)
    BY <2>1, <2>2 DEF InLine, Ahead
  <2>3. CASE n = x
    <3>1. d[i] \in Pairs
      BY ElementOfSeq, LenProperties
    <3>2. d[i][1] \in Int
      BY <3>1 DEF Pairs
    <3> QED
      BY <1>5, <2>1, <2>3, <3>2
  <2> QED
    BY <1>2, <2>2, <2>3
<1> QED
  BY <1>6, <1>7 DEF InLine, l

(* More notices have failed. *)
LEMMA LineGrown ==
  ASSUME NEW s, NEW d, NEW f, NEW g, f \subseteq g, InLine(s, d, f)
  PROVE  InLine(s, d, g)
BY DEF InLine, Sorted, Ahead, InOrder

(* The line without its first notice. *)
LEMMA LineTail ==
  ASSUME NEW s \in Seq(NoticeItems), s # <<>>, NEW d, NEW f, InLine(s, d, f)
  PROVE  InLine(Tail(s), d, f)
<1> DEFINE t == Tail(s)
<1>1. /\ Len(s) \in Nat /\ DOMAIN s = 1..Len(s) /\ t \in Seq(NoticeItems)
      /\ Len(t) = Len(s) - 1 /\ DOMAIN t = 1..(Len(s) - 1)
      /\ \A i \in 1..(Len(s) - 1) : t[i] = s[i + 1]
  BY HeadTailProperties, LenProperties
<1>2. About(t) \subseteq About(s)
  BY Taken
<1> HIDE DEF t
<1>3. Sorted(t, f)
  <2>1. SUFFICES ASSUME NEW i \in DOMAIN t, NEW k \in DOMAIN t, i < k, t[k].about[1] < t[i].about[1]
                 PROVE  t[k].about \in f
    BY DEF Sorted
  <2>2. /\ i + 1 \in DOMAIN s /\ k + 1 \in DOMAIN s /\ i + 1 < k + 1
        /\ t[i] = s[i + 1] /\ t[k] = s[k + 1]
    BY <1>1, <2>1
  <2> QED
    BY <2>1, <2>2 DEF InLine, Sorted
<1>4. Ahead(t, d, f)
  BY <1>2 DEF InLine, Ahead
<1> QED
  BY <1>3, <1>4 DEF InLine, t

DealtBefore(s, p, d, f) ==
  \A q \in DOMAIN s : q < p =>
    s[q].about \in f \/ \A u \in 1..NumUsers : <<s[q].about[1], u>> \in ToSet(d)

Continued(s, p, d, e) ==
  /\ ToSet(d) \subseteq ToSet(e) /\ \A i \in DOMAIN d : i \in DOMAIN e /\ e[i] = d[i]
  /\ \A k \in DOMAIN e \ DOMAIN d :
       /\ \E u \in 1..NumUsers : e[k] = <<s[p].about[1], u>> /\ <<s[p].about[1], u>> \notin ToSet(d)
       /\ \A i \in DOMAIN d : ~ (k < i)

(* The item at p is processed; those before it are dealt with. *)
LEMMA LineProcessed ==
  ASSUME NEW s \in Seq(NoticeItems), NEW d \in Seq(Pairs), NEW f, NEW g, f \subseteq g,
         InLine(s, d, f), NEW p \in DOMAIN s,
         DealtBefore(s, p, d, f), NEW e \in Seq(Pairs), Continued(s, p, d, e)
  PROVE  InLine(s, e, g)
<1> USE DEF DealtBefore, Continued
<1> DEFINE m == s[p].about[1]
<1>1. /\ DOMAIN s = 1..Len(s) /\ Len(s) \in Nat
      /\ \A q \in DOMAIN s : s[q].about[1] \in Int /\ s[q].about = <<s[q].about[1], 0>>
      /\ s[p].about \in About(s)
  BY NoticeAbout, LenProperties
<1>2. m \in Int /\ s[p].about = <<m, 0>>
  BY <1>1
<1> HIDE DEF m
<1>3. \A k \in DOMAIN e \ DOMAIN d :
           /\ \E u \in 1..NumUsers : e[k] = <<m, u>> /\ <<m, u>> \notin ToSet(d)
           /\ \A i \in DOMAIN d : ~ (k < i)
  BY DEF m
<1>4. \A i \in DOMAIN e : e[i] \in Pairs
  BY ElementOfSeq, LenProperties
<1>5. \A i \in DOMAIN e : e[i][1] \in Int /\ e[i][2] \in Int
  BY <1>4 DEF Pairs
<1>6. Sorted(s, g)
  BY DEF InLine, Sorted
<1>7. Ahead(s, e, g)
  <2>1. SUFFICES ASSUME NEW i \in DOMAIN e, NEW n \in About(s), n[1] < e[i][1], n \notin g
                 PROVE  <<n[1], e[i][2]>> \in ToSet(e)
    BY DEF Ahead
  <2>2. CASE i \in DOMAIN d
    BY <2>1, <2>2 DEF InLine, Ahead
  <2>3. CASE i \notin DOMAIN d
    <3>1. PICK u \in 1..NumUsers : e[i] = <<m, u>>
      BY <1>3, <2>3
    <3>2. PICK q \in DOMAIN s : n = s[q].about
      BY DEF About
    <3>3. CASE q < p
      <4>1. <<n[1], u>> \in ToSet(d)
        BY <2>1, <3>2, <3>3
      <4> QED
        BY <3>1, <4>1
    <3>4. CASE q = p
      BY <1>2, <2>1, <3>1, <3>2, <3>4 DEF m
    <3>5. CASE p < q
      <4>1. s[q].about[1] < s[p].about[1]
        BY <2>1, <3>1, <3>2 DEF m
      <4> QED
        BY <2>1, <3>2, <3>5, <4>1 DEF InLine, Sorted
    <3> QED
      BY <1>1, <3>3, <3>4, <3>5
  <2> QED
    BY <2>2, <2>3
<1>8. InOrder(e, g)
  <2>1. SUFFICES ASSUME NEW i \in DOMAIN e, NEW k \in DOMAIN e, i < k, e[i][2] = e[k][2], e[k][1] < e[i][1]
                 PROVE  <<e[k][1], 0>> \in g
    BY DEF InOrder
  <2>2. CASE k \in DOMAIN d
    <3>1. i \in DOMAIN d
      BY <1>3, <2>1, <2>2
    <3> QED
      BY <2>1, <2>2, <3>1 DEF InLine, InOrder
  <2>3. CASE k \notin DOMAIN d
    <3>1. PICK u \in 1..NumUsers : e[k] = <<m, u>> /\ <<m, u>> \notin ToSet(d)
      BY <1>3, <2>3
    <3>2. e[k][1] = m /\ e[k][2] = u
      BY <3>1
    <3>3. i \in DOMAIN d
      <4>1. ASSUME i \notin DOMAIN d PROVE FALSE
        <5>1. PICK v \in 1..NumUsers : e[i] = <<m, v>>
          BY <1>3, <4>1
        <5> QED
          BY <1>2, <2>1, <3>2, <5>1
      <4> QED
        BY <4>1
    <3>4. d[i][1] = e[i][1] /\ d[i][2] = u
      BY <2>1, <3>2, <3>3
    <3>5. s[p].about[1] < d[i][1]
      BY <2>1, <3>2, <3>4 DEF m
    <3>6. s[p].about \in f
      BY <1>1, <3>1, <3>3, <3>4, <3>5 DEF InLine, Ahead, m
    <3> QED
      BY <1>2, <3>2, <3>6
  <2> QED
    BY <2>2, <2>3
<1> QED
  BY <1>6, <1>7, <1>8 DEF InLine

(* The first of two joined sequences loses its head. *)
LEMMA TailJoined ==
  ASSUME NEW S, NEW s \in Seq(S), NEW t \in Seq(S), s # <<>>
  PROVE  s \o t # <<>> /\ Head(s \o t) = Head(s) /\ Tail(s \o t) = Tail(s) \o t
<1> DEFINE l == s \o t
           r == Tail(s)
           v == Tail(l)
           y == r \o t
<1>1. Len(s) \in Nat /\ Len(t) \in Nat /\ Len(s) # 0 /\ DOMAIN s = 1..Len(s)
  BY LenProperties, EmptySeq
<1>2. /\ l \in Seq(S) /\ Len(l) = Len(s) + Len(t)
      /\ \A i \in 1..(Len(s) + Len(t)) : l[i] = IF i <= Len(s) THEN s[i] ELSE t[i - Len(s)]
  BY ConcatProperties
<1>3. r \in Seq(S) /\ Len(r) = Len(s) - 1 /\ \A i \in 1..(Len(s) - 1) : r[i] = s[i + 1]
  BY HeadTailProperties
<1>4. y \in Seq(S) /\ Len(y) = Len(r) + Len(t)
      /\ \A i \in 1..(Len(r) + Len(t)) : y[i] = IF i <= Len(r) THEN r[i] ELSE t[i - Len(r)]
  BY <1>3, ConcatProperties
<1> HIDE DEF l, r, y
<1>5. l # <<>>
  BY <1>1, <1>2, EmptySeq
<1>6. v \in Seq(S) /\ Len(v) = Len(l) - 1 /\ (\A i \in 1..(Len(l) - 1) : v[i] = l[i + 1])
      /\ Head(l) = l[1] /\ Head(s) = s[1]
  BY <1>2, <1>5, HeadTailProperties
<1> HIDE DEF v
<1>7. Head(l) = Head(s)
  BY <1>1, <1>2, <1>6
<1>8. Len(v) = Len(y)
  BY <1>1, <1>2, <1>3, <1>4, <1>6
<1>9. ASSUME NEW i \in 1..Len(v) PROVE v[i] = y[i]
  <2>1. v[i] = l[i + 1] /\ i + 1 \in 1..(Len(s) + Len(t))
    BY <1>1, <1>2, <1>6
  <2>2. CASE i + 1 <= Len(s)
    BY <1>1, <1>2, <1>3, <1>4, <1>8, <2>1, <2>2
  <2>3. CASE ~ (i + 1 <= Len(s))
    <3>1. (i + 1) - Len(s) = i - Len(r) /\ ~ (i <= Len(r))
      BY <1>1, <1>3, <2>3
    <3> QED
      BY <1>1, <1>2, <1>3, <1>4, <1>8, <2>1, <2>3, <3>1
  <2> QED
    BY <2>2, <2>3
<1>10. v = y
  BY <1>4, <1>6, <1>8, <1>9, SeqEqual
<1> QED
  BY <1>5, <1>7, <1>10 DEF l, r, v, y

(* What is first in line is processed, in any case. *)
LEMMA LineIs ==
  ASSUME Typed
  PROVE  /\ Line \in Seq(NoticeItems) /\ inflight \o notices \in Seq(NoticeItems)
         /\ rabbit.conn # "open" /\ rabbit.conn # "stale" => Line = notices
<1>1. notices \in Seq(NoticeItems) /\ inflight \in Seq(NoticeItems)
  BY DEF Typed
<1>2. <<>> \o notices = notices /\ inflight \o notices \in Seq(NoticeItems)
  BY <1>1, Empty, ConcatProperties
<1>3. rabbit.conn # "open" /\ rabbit.conn # "stale" => inflight = <<>>
  BY DEF Typed
<1> QED
  BY <1>1, <1>2, <1>3 DEF Line

(* A step that leaves the line as it is. *)
LEMMA OrderKept ==
  ASSUME OrderInv, Line' = Line, failed \subseteq failed', delivered' = delivered
  PROVE  OrderInv'
BY LineGrown DEF OrderInv

(* A step that adds to the line. *)
LEMMA OrderGrows ==
  ASSUME Typed, OrderInv, NEW t \in Seq(NoticeItems), Line' = Line \o t, failed \subseteq failed',
         delivered' = delivered, NEW x \in Notices, About(t) \subseteq {x},
         \/ x \in failed
         \/ /\ \A y \in About(Line) : y[1] <= x[1]
            /\ \A i \in DOMAIN delivered : delivered[i][1] <= x[1]
  PROVE  OrderInv'
<1>1. Line \in Seq(NoticeItems)
  BY LineIs
<1>2. delivered \in Seq(Pairs)
  BY DEF Typed, Pairs
<1>3. InLine(Line, delivered, failed)
  BY DEF OrderInv
<1>4. InLine(Line \o t, delivered, failed)
  BY <1>1, <1>2, <1>3, LineJoined
<1>5. InLine(Line', delivered', failed')
  BY <1>4, LineGrown
<1> QED
  BY <1>5 DEF OrderInv

(* The line is the same when its notices move between RabbitMQ and Tornado. *)
LEMMA OrderByBroker ==
  ASSUME Typed, Typed', Known, OrderInv,
         SetQos \/ FinishQos \/ OnChannelOpen \/ ConnectionEnds \/ OnConnectionClosed
           \/ Reconnect \/ RestartTornado \/ Deliver
  PROVE  OrderInv'
<1>type. notices \in Seq(NoticeItems) /\ inflight \in Seq(NoticeItems)
  BY DEF Typed
<1>1. delivered' = delivered /\ failed' = failed
  BY DEF SetQos, FinishQos, OnChannelOpen, ConnectionEnds, OnConnectionClosed, Reconnect, RestartTornado, Deliver
<1>line. /\ Line = IF rabbit.conn = "stale" THEN notices ELSE inflight \o notices
         /\ Line' = IF rabbit'.conn = "stale" THEN notices' ELSE inflight' \o notices'
  BY DEF Line, notices, inflight
<1>none. <<>> \o notices = notices
  BY <1>type, Empty
<1>2. CASE SetQos
  BY <1>1, <1>2, <1>line, SetQosFields, OrderKept
<1>3. CASE FinishQos
  <2>1. /\ rabbit'.conn = rabbit.conn /\ rabbit.conn = "open" /\ inflight' = inflight
    BY <1>3, FinishQosFields
  <2>2. PICK e \in AnyItem : \E t :
              /\ About(asked) = About(asked') \cup {e.about}
              /\ About(t) = {e.about}
              /\ \/ notices' = notices
                 \/ e \in NoticeItems /\ t \in Seq(NoticeItems) /\ notices' = notices \o t
    BY <1>3, FinishQosFields
  <2>3. PICK t : /\ About(asked) = About(asked') \cup {e.about}
                 /\ About(t) = {e.about}
                 /\ \/ notices' = notices
                    \/ e \in NoticeItems /\ t \in Seq(NoticeItems) /\ notices' = notices \o t
    BY <2>2
  <2>4. CASE notices' = notices
    BY <1>1, <1>line, <2>1, <2>4, OrderKept
  <2>5. CASE e \in NoticeItems /\ t \in Seq(NoticeItems) /\ notices' = notices \o t
    <3>1. e.about \in Notices /\ e.about \in failed
      BY <2>3, <2>5 DEF NoticeItems, Known
    <3>2. Line' = inflight \o (notices \o t) /\ Line = inflight \o notices
      BY <1>line, <2>1, <2>5
    <3>3. inflight \o (notices \o t) = (inflight \o notices) \o t
      BY <1>type, <2>5, ConcatAssociative
    <3> DEFINE l == Line
    <3>4. Line' = l \o t
      BY <3>2, <3>3
    <3> QED
      BY <1>1, <2>3, <2>5, <3>1, <3>4, OrderGrows
  <2> QED
    BY <2>3, <2>4, <2>5
<1>4. CASE OnChannelOpen
  BY <1>1, <1>4, <1>line, OnChannelOpenFields, OrderKept
<1>5. CASE ConnectionEnds
  BY <1>1, <1>5, <1>line, ConnectionEndsFields, OrderKept
<1>6. CASE OnConnectionClosed
  <2>1. /\ rabbit.conn = "stale" /\ rabbit'.conn = "closed" /\ notices' = notices /\ inflight' = <<>>
    BY <1>6, OnConnectionClosedFields
  <2>2. Line' = Line
    BY <1>line, <1>none, <2>1
  <2> QED
    BY <1>1, <2>2, OrderKept
<1>7. CASE Reconnect
  BY <1>1, <1>7, <1>line, ReconnectFields, OrderKept
<1>8. CASE RestartTornado
  <2>1. /\ rabbit'.conn = "opening" /\ inflight' = <<>>
        /\ notices' = IF rabbit.conn = "open" THEN inflight \o notices ELSE notices
    BY <1>8, RestartFields
  <2>2. inflight \o notices \in Seq(NoticeItems)
    BY LineIs
  <2>3. <<>> \o (inflight \o notices) = inflight \o notices
    <3> DEFINE l == inflight \o notices
    <3> HIDE DEF l
    <3>1. <<>> \o l = l
      BY <2>2, Empty DEF l
    <3> QED
      BY <3>1 DEF l
  <2>4. rabbit.conn # "open" /\ rabbit.conn # "stale" => Line = notices
    BY LineIs
  <2>5. Line' = Line
    BY <1>line, <1>none, <2>1, <2>3, <2>4
  <2> QED
    BY <1>1, <2>5, OrderKept
<1>9. CASE Deliver
  <2>1. /\ Connected /\ rabbit.conn = "open" /\ notices # <<>>
        /\ inflight' = Append(inflight, Head(notices)) /\ notices' = Tail(notices)
    BY <1>9, DeliverFields
  <2> DEFINE h == Head(notices)
             one == <<h>>
             rest == Tail(notices)
  <2>2. h \in NoticeItems /\ rest \in Seq(NoticeItems) /\ notices = one \o rest
    BY <1>type, <2>1, Taken
  <2>3. Append(inflight, h) = inflight \o one /\ one \in Seq(NoticeItems)
    <3> HIDE DEF h
    <3> QED
      BY <1>type, <2>2, Appended, Single
  <2>4. inflight' = inflight \o one /\ notices' = rest
    BY <2>1, <2>3
  <2> HIDE DEF h, one, rest
  <2>5. (inflight \o one) \o rest = inflight \o (one \o rest)
    BY <1>type, <2>2, <2>3, ConcatAssociative
  <2>6. rabbit'.conn = rabbit.conn
    BY <2>1 DEF Connected
  <2>7. Line' = Line
    BY <1>line, <2>1, <2>2, <2>4, <2>5, <2>6
  <2> QED
    BY <1>1, <2>7, OrderKept
<1> QED
  BY <1>2, <1>3, <1>4, <1>5, <1>6, <1>7, <1>8, <1>9

(* A new notice is newer than all before it. *)
LEMMA OrderByPublish ==
  ASSUME Typed, Typed', Known, OrderInv,
         NEW n \in 1..NumNotices, NEW copies \in 0..2, DjangoPublish(n, copies)
  PROVE  OrderInv'
<1>type. notices \in Seq(NoticeItems) /\ inflight \in Seq(NoticeItems)
  BY DEF Typed
<1> DEFINE c == [i \in 1..copies |-> NewItem(<<n, 0>>)]
           x == <<n, 0>>
<1>1. c \in Seq(NoticeItems) /\ About(c) \subseteq {x}
  BY CopiesFacts
<1>2. Connected /\ inflight' = inflight /\ notices' = notices \o c
  BY DjangoPublishFields
<1>3. x \in Notices /\ x[1] = n /\ n \in Int
  BY DEF Notices
<1>4. /\ delivered' = delivered /\ failed' = failed /\ x \notin published
  BY DEF DjangoPublish
<1>5. \A y \in Notices : y \in published => y[1] <= n
  <2>1. SUFFICES ASSUME NEW y \in Notices, y \in published, n < y[1] PROVE FALSE
    BY Kinds
  <2>2. <<n, 0>> \in published
    BY <2>1 DEF Known
  <2> QED
    BY <1>4, <2>2
<1>6. \A y \in About(Line) : y[1] <= n
  <2>1. About(Line) \subseteq About(inflight) \cup About(notices)
    <3>1. About(inflight \o notices) = About(inflight) \cup About(notices)
      BY <1>type, Joined
    <3> QED
      BY <3>1 DEF Line
  <2>2. About(inflight) \cup About(notices) \subseteq OnTheWay
    BY WayIs
  <2>3. About(inflight) \cup About(notices) \subseteq Notices
    BY AboutKinds
  <2> QED
    BY <1>5, <2>1, <2>2, <2>3 DEF Known
<1>7. \A i \in DOMAIN delivered : delivered[i][1] <= n
  <2>1. ASSUME NEW i \in DOMAIN delivered PROVE delivered[i][1] <= n
    <3>1. delivered[i] \in ToSet(delivered)
      BY DEF ToSet
    <3>2. <<delivered[i][1], 0>> \in published /\ delivered[i][1] \in 1..NumNotices
      BY <3>1, AboutKinds DEF Known
    <3>3. <<delivered[i][1], 0>> \in Notices
      BY <3>2 DEF Notices
    <3> DEFINE y == <<delivered[i][1], 0>>
    <3>4. y[1] <= n
      BY <1>5, <3>2, <3>3
    <3> QED
      BY <3>4
  <2> QED
    BY <2>1
<1> HIDE DEF c, x
<1>8. Line' = Line \o c
  <2>1. rabbit'.conn = rabbit.conn
    BY <1>2 DEF Connected
  <2>2. inflight \o (notices \o c) = (inflight \o notices) \o c
    BY <1>type, <1>1, ConcatAssociative
  <2>3. /\ Line = IF rabbit.conn = "stale" THEN notices ELSE inflight \o notices
        /\ Line' = IF rabbit'.conn = "stale" THEN notices' ELSE inflight' \o notices'
    BY DEF Line, notices, inflight
  <2> QED
    BY <1>2, <2>1, <2>2, <2>3
<1> QED
  BY <1>1, <1>3, <1>4, <1>6, <1>7, <1>8, OrderGrows

(* The first notice is delivered; if it is retried it has failed. *)
LEMMA OrderByProcess ==
  ASSUME Typed, Typed', Stale, OrderInv, NEW done \in 0..NumUsers, ProcessNotification(done)
  PROVE  OrderInv' /\ Stale'
<1>type. notices \in Seq(NoticeItems) /\ inflight \in Seq(NoticeItems) /\ delivered \in Seq(Pairs)
  BY DEF Typed, Pairs
<1>line. /\ Line = IF rabbit.conn = "stale" THEN notices ELSE inflight \o notices
         /\ Line' = IF rabbit'.conn = "stale" THEN notices' ELSE inflight' \o notices'
  BY DEF Line, notices, inflight
<1> DEFINE h == Head(inflight)
           n == h.about
           m == n[1]
           rest == Tail(inflight)
<1>1. /\ inflight # <<>> /\ inflight' = rest /\ rabbit.conn \in {"open", "stale"}
      /\ rabbit'.conn = rabbit.conn
  BY ProcessFields
<1>2. PICK w, xs, jd, ja, nd, na : Processed(done, w, xs, jd, ja, nd, na)
  BY ProcessedFacts
<1>3. /\ xs \in Seq(NoticeItems) /\ Placed(xs, nd, na, rabbit'.lost)
      /\ About(xs) = IF done < NumUsers /\ CanRetry(h) THEN {n} ELSE {}
      /\ nd # <<>> => rabbit.conn = "open"
      /\ notices' = notices \o nd
  BY <1>2 DEF Processed
<1>4. /\ failed' = IF done < NumUsers THEN failed \cup {n} ELSE failed
      /\ ProcessUsers(h, done) /\ again' = again
  BY DEF ProcessNotification, inflight
<1>5. h \in NoticeItems /\ rest \in Seq(NoticeItems) /\ About(inflight) = About(rest) \cup {n}
  BY <1>1, <1>type, Taken
<1>6. /\ m \in 1..NumNotices /\ n = <<m, 0>>
      /\ delivered' \in Seq(Pairs)
      /\ ToSet(delivered') = ToSet(delivered) \cup {<<m, u>> : u \in 1..done}
      /\ \A i \in DOMAIN delivered : i \in DOMAIN delivered' /\ delivered'[i] = delivered[i]
      /\ \A k \in DOMAIN delivered' \ DOMAIN delivered :
           /\ \E u \in 1..done : delivered'[k] = <<m, u>> /\ <<m, u>> \notin ToSet(delivered)
           /\ \A i \in DOMAIN delivered : ~ (k < i)
  BY <1>4, <1>5, ProcessUsersFacts DEF Pairs
<1>7. nd \in Seq(NoticeItems) /\ About(nd) \subseteq About(xs)
  BY <1>3, PlacedFacts
<1>8. n \in Notices
  BY <1>5 DEF NoticeItems
<1>9. failed \subseteq failed' /\ ToSet(delivered) \subseteq ToSet(delivered')
  BY <1>4, <1>6
<1>10. n \in failed' \/ \A u \in 1..NumUsers : <<m, u>> \in ToSet(delivered')
  <2>1. ~ (done < NumUsers) => done = NumUsers
    BY BoundsAssumption
  <2> QED
    BY <1>4, <1>6, <2>1
<1>11. \A k \in DOMAIN delivered' \ DOMAIN delivered :
           /\ \E u \in 1..NumUsers : delivered'[k] = <<m, u>> /\ <<m, u>> \notin ToSet(delivered)
           /\ \A i \in DOMAIN delivered : ~ (k < i)
  <2>1. \A u \in 1..done : u \in 1..NumUsers
    BY BoundsAssumption
  <2> QED
    BY <1>6, <2>1
<1>12. ASSUME NEW l \in Seq(NoticeItems), l = Line, NEW p \in DOMAIN l, l[p] = h,
              \A q \in DOMAIN l : q < p =>
                l[q].about \in failed \/ \A u \in 1..NumUsers : <<l[q].about[1], u>> \in ToSet(delivered)
       PROVE  InLine(l, delivered', failed')
  <2>1. InLine(l, delivered, failed)
    BY <1>12 DEF OrderInv
  <2>2. l[p].about[1] = m
    BY <1>12
  <2> HIDE DEF h, n, m
  <2>3. \A k \in DOMAIN delivered' \ DOMAIN delivered :
           /\ \E u \in 1..NumUsers : /\ delivered'[k] = <<l[p].about[1], u>>
                                     /\ <<l[p].about[1], u>> \notin ToSet(delivered)
           /\ \A i \in DOMAIN delivered : ~ (k < i)
    BY <1>11, <2>2
  <2>4. DealtBefore(l, p, delivered, failed)
    BY <1>12 DEF DealtBefore
  <2>5. Continued(l, p, delivered, delivered')
    BY <1>6, <1>9, <2>3 DEF Continued
  <2>6. l \in Seq(NoticeItems) /\ p \in DOMAIN l
    BY <1>12
  <2>7. delivered' \in Seq(Pairs)
    BY <1>6
  <2> QED
    BY <1>type, <1>9, <2>1, <2>4, <2>5, <2>6, <2>7, LineProcessed
<1> HIDE DEF h, n, m, rest
<1>13. CASE rabbit.conn = "open"
  <2> DEFINE l == inflight \o notices
  <2>1. l # <<>> /\ Head(l) = h /\ Tail(l) = rest \o notices /\ l \in Seq(NoticeItems)
    BY <1>type, <1>1, TailJoined, LineIs DEF h, rest
  <2>2. l = Line
    BY <1>13, <1>line
  <2> HIDE DEF l
  <2>3. 1 \in DOMAIN l /\ l[1] = h /\ \A q \in DOMAIN l : ~ (q < 1)
    <3>1. DOMAIN l = 1..Len(l) /\ Len(l) \in Nat /\ Len(l) # 0 /\ Head(l) = l[1]
      BY <2>1, LenProperties, EmptySeq, HeadTailProperties
    <3>2. l[1] = h
      BY <2>1, <3>1, Zenon
    <3> QED
      BY <3>1, <3>2
  <2>4. InLine(l, delivered', failed')
    BY <1>12, <2>1, <2>2, <2>3
  <2> DEFINE t == Tail(l)
  <2>5. t \in Seq(NoticeItems) /\ InLine(t, delivered', failed')
    BY <2>1, <2>4, LineTail, HeadTailProperties
  <2>6. t = rest \o notices
    BY <2>1
  <2> HIDE DEF t
  <2>7. Line' = t \o nd
    <3>1. Line' = rest \o (notices \o nd)
      BY <1>1, <1>3, <1>13, <1>line
    <3>2. rest \in Seq(NoticeItems) /\ notices \in Seq(NoticeItems) /\ nd \in Seq(NoticeItems)
      BY <1>type, <1>5, <1>7
    <3>3. (rest \o notices) \o nd = rest \o (notices \o nd)
      BY <3>2, ConcatAssociative
    <3>4. Line' = (rest \o notices) \o nd
      BY <3>1, <3>3
    <3>5. t \o nd = (rest \o notices) \o nd
      BY <2>6
    <3> QED
      BY <3>4, <3>5
  <2>8. About(nd) \subseteq {n} /\ (About(nd) = {} \/ n \in failed')
    BY <1>3, <1>4, <1>7
  <2>9. InLine(t \o nd, delivered', failed')
    <3>1. CASE n \in failed'
      BY <1>6, <1>7, <1>8, <2>5, <2>8, <3>1, LineJoined
    <3>2. CASE About(nd) = {}
      <4>1. nd = <<>>
        <5>1. DOMAIN nd = 1..Len(nd) /\ Len(nd) \in Nat
          BY <1>7, LenProperties
        <5>2. ~ (1 \in DOMAIN nd)
          BY <3>2 DEF About
        <5> QED
          BY <1>7, <5>1, <5>2, EmptySeq
      <4>2. t \o <<>> = t
        BY <2>5, Empty
      <4> QED
        BY <2>5, <4>1, <4>2
    <3> QED
      BY <2>8, <3>1, <3>2
  <2>10. OrderInv'
    BY <2>7, <2>9 DEF OrderInv
  <2>11. Stale'
    BY <1>1, <1>13 DEF Stale
  <2> QED
    BY <2>10, <2>11
<1>14. CASE rabbit.conn = "stale"
  <2>1. nd = <<>> /\ notices' = notices
    <3>1. nd = <<>>
      BY <1>3, <1>14
    <3>2. notices \o <<>> = notices
      BY <1>type, Empty
    <3> QED
      BY <1>3, <3>1, <3>2
  <2>2. PICK a \in 0..Len(notices) :
         /\ \A i \in DOMAIN inflight : a + i \in DOMAIN notices /\ notices[a + i] = inflight[i]
         /\ \A x \in 1..a : /\ x \in DOMAIN notices
                            /\ notices[x].about \in failed \/ Reached(notices[x].about)
    BY <1>14 DEF Stale
  <2>3. About(inflight) \subseteq again
    BY <1>14 DEF Stale
  <2>4. /\ Len(inflight) \in Nat /\ Len(inflight) # 0 /\ DOMAIN inflight = 1..Len(inflight)
        /\ h = inflight[1] /\ Len(rest) = Len(inflight) - 1 /\ DOMAIN rest = 1..(Len(inflight) - 1)
        /\ \A i \in 1..(Len(inflight) - 1) : rest[i] = inflight[i + 1]
    BY <1>type, <1>1, <1>5, LenProperties, EmptySeq, HeadTailProperties DEF h, rest
  <2>5. Len(notices) \in Nat /\ DOMAIN notices = 1..Len(notices)
    BY <1>type, LenProperties
  <2>6. a + 1 \in DOMAIN notices /\ notices[a + 1] = h
    BY <2>2, <2>4
  <2>7. Line = notices /\ Line' = notices
    BY <1>1, <1>14, <1>line, <2>1
  <2>8. \A q \in DOMAIN notices : q < a + 1 =>
          notices[q].about \in failed \/ \A u \in 1..NumUsers : <<notices[q].about[1], u>> \in ToSet(delivered)
    <3>1. \A q \in DOMAIN notices : q < a + 1 => q \in 1..a
      BY <2>5
    <3> QED
      BY <2>2, <3>1 DEF Reached
  <2>9. InLine(notices, delivered', failed')
    BY <1>type, <1>12, <2>6, <2>7, <2>8
  <2>10. OrderInv'
    BY <2>7, <2>9 DEF OrderInv
  <2> DEFINE b == a + 1
  <2>11. b \in 0..Len(notices')
    BY <2>1, <2>5, <2>6
  <2>12. \A i \in DOMAIN inflight' : b + i \in DOMAIN notices' /\ notices'[b + i] = inflight'[i]
    <3>1. ASSUME NEW i \in DOMAIN rest
          PROVE  b + i \in DOMAIN notices /\ notices[b + i] = rest[i]
      <4>1. i + 1 \in DOMAIN inflight /\ rest[i] = inflight[i + 1] /\ a + (i + 1) = b + i
        BY <2>4
      <4> QED
        BY <2>2, <4>1
    <3> QED
      BY <1>1, <2>1, <3>1
  <2>13. \A x \in 1..b : /\ x \in DOMAIN notices'
                         /\ notices'[x].about \in failed'
                           \/ \A u \in 1..NumUsers : <<notices'[x].about[1], u>> \in ToSet(delivered')
    <3>1. ASSUME NEW x \in 1..b
          PROVE  /\ x \in DOMAIN notices
                 /\ notices[x].about \in failed' \/ \A u \in 1..NumUsers : <<notices[x].about[1], u>> \in ToSet(delivered')
      <4>1. CASE x \in 1..a
        BY <1>9, <2>2, <4>1 DEF Reached
      <4>2. CASE x = b
        BY <1>10, <2>6, <4>2 DEF n, m
      <4> QED
        BY <4>1, <4>2
    <3> QED
      BY <2>1, <3>1
  <2>14. About(inflight') \subseteq again'
    BY <1>1, <1>4, <1>5, <2>3
  <2> HIDE DEF b
  <2>15. Stale'
    BY <2>11, <2>12, <2>13, <2>14 DEF Stale, Reached
  <2> QED
    BY <2>10, <2>15
<1> QED
  BY <1>1, <1>13, <1>14

(* A step that leaves the notices as they are. *)
LEMMA StaleKept ==
  ASSUME Stale, rabbit'.conn = rabbit.conn, notices' = notices, inflight' = inflight,
         again \subseteq again', failed \subseteq failed', delivered' = delivered
  PROVE  Stale'
<1>1. SUFFICES ASSUME rabbit'.conn = "stale" PROVE Stale'
  BY DEF Stale
<1>2. PICK a \in 0..Len(notices) :
         /\ \A i \in DOMAIN inflight : a + i \in DOMAIN notices /\ notices[a + i] = inflight[i]
         /\ \A x \in 1..a : /\ x \in DOMAIN notices
                            /\ notices[x].about \in failed \/ Reached(notices[x].about)
  BY <1>1 DEF Stale
<1>3. /\ a \in 0..Len(notices')
      /\ \A i \in DOMAIN inflight' : a + i \in DOMAIN notices' /\ notices'[a + i] = inflight'[i]
  BY <1>2
<1>4. \A x \in 1..a : /\ x \in DOMAIN notices'
                      /\ notices'[x].about \in failed'
                           \/ \A u \in 1..NumUsers : <<notices'[x].about[1], u>> \in ToSet(delivered')
  BY <1>2 DEF Reached
<1>5. About(inflight') \subseteq again'
  BY <1>1 DEF Stale
<1> QED
  BY <1>3, <1>4, <1>5 DEF Stale, Reached

(* The worker and the hooks' jobs do not touch the notices. *)
LEMMA OrderByWorker ==
  ASSUME Typed, Typed', Stale, OrderInv,
         WorkerTakes \/ (\E done, failing : Consumes(done, failing)) \/ \E j \in HookJobs : HookPublish(j)
  PROVE  OrderInv' /\ Stale'
<1>1. /\ rabbit'.conn = rabbit.conn /\ notices' = notices /\ inflight' = inflight
      /\ delivered' = delivered /\ again \subseteq again' /\ failed \subseteq failed'
  <2>1. CASE WorkerTakes
    <3>1. rabbit' = [rabbit EXCEPT !.ready = [rabbit.ready EXCEPT !["jobs"] = Tail(jobs)]]
      BY <2>1 DEF WorkerTakes, jobs
    <3>2. Connected /\ notices' = notices /\ inflight' = inflight
      BY <3>1, JobsFields
    <3>3. delivered' = delivered /\ again' = again /\ failed' = failed
      BY <2>1 DEF WorkerTakes
    <3> QED
      BY <3>2, <3>3 DEF Connected
  <2>2. CASE \E done, failing : Consumes(done, failing)
    <3>1. PICK done, failing : Consumes(done, failing)
      BY <2>2
    <3>2. /\ Connected /\ notices' = notices /\ inflight' = inflight /\ delivered' = delivered
          /\ again \subseteq again' /\ ConsumeSome(done, failing)
      BY <3>1, ConsumesFields
    <3> QED
      BY <3>2 DEF Connected, ConsumeSome
  <2>3. CASE \E j \in HookJobs : HookPublish(j)
    <3>1. PICK j \in HookJobs : HookPublish(j)
      BY <2>3
    <3>2. rabbit'.conn = rabbit.conn /\ notices' = notices /\ inflight' = inflight
      BY <3>1, HookPublishFields
    <3>3. delivered' = delivered /\ again' = again /\ failed' = failed
      BY <3>1 DEF HookPublish
    <3> QED
      BY <3>2, <3>3
  <2> QED
    BY <2>1, <2>2, <2>3
<1>2. Line' = Line
  BY <1>1 DEF Line, notices, inflight
<1> QED
  BY <1>1, <1>2, OrderKept, StaleKept

(* When the connection ends, what Tornado has is the head of the queue. *)
LEMMA StaleByBroker ==
  ASSUME Typed, Typed', Stale,
         SetQos \/ FinishQos \/ OnChannelOpen \/ ConnectionEnds \/ OnConnectionClosed
           \/ Reconnect \/ RestartTornado \/ Deliver
  PROVE  Stale'
<1>1. CASE ConnectionEnds
  <2>1. /\ notices' = inflight \o notices
        /\ DOMAIN inflight' \subseteq DOMAIN inflight
        /\ \A i \in DOMAIN inflight' : inflight'[i] = inflight[i]
    BY <1>1, ConnectionEndsFields
  <2>2. again' = again \cup About(inflight)
    BY <1>1 DEF ConnectionEnds, inflight
  <2>3. About(inflight') \subseteq again'
    BY <2>1, <2>2 DEF About
  <2> DEFINE l == inflight \o notices
  <2>4. /\ Len(inflight) \in Nat /\ Len(notices) \in Nat /\ DOMAIN inflight = 1..Len(inflight)
        /\ DOMAIN l = 1..(Len(inflight) + Len(notices)) /\ Len(l) \in Nat
        /\ \A i \in 1..(Len(inflight) + Len(notices)) :
             l[i] = IF i <= Len(inflight) THEN inflight[i] ELSE notices[i - Len(inflight)]
    <3>1. inflight \in Seq(NoticeItems) /\ notices \in Seq(NoticeItems)
      BY DEF Typed
    <3>2. /\ l \in Seq(NoticeItems) /\ Len(l) = Len(inflight) + Len(notices)
          /\ \A i \in 1..(Len(inflight) + Len(notices)) :
               l[i] = IF i <= Len(inflight) THEN inflight[i] ELSE notices[i - Len(inflight)]
      BY <3>1, ConcatProperties
    <3> QED
      BY <3>1, <3>2, LenProperties
  <2>5. notices' = l
    BY <2>1
  <2> HIDE DEF l
  <2>6. \A i \in DOMAIN inflight : i \in DOMAIN l /\ l[i] = inflight[i] /\ 0 + i = i
    BY <2>4
  <2> DEFINE a == 0
  <2>7. a \in 0..Len(notices') /\ 1..a = {}
    BY <2>4, <2>5
  <2>8. \A i \in DOMAIN inflight' : a + i \in DOMAIN notices' /\ notices'[a + i] = inflight'[i]
    BY <2>1, <2>5, <2>6
  <2> HIDE DEF a
  <2> QED
    BY <2>3, <2>7, <2>8 DEF Stale
<1>2. CASE ~ ConnectionEnds
  <2>1. rabbit'.conn # "stale"
    <3>1. SetQos => rabbit'.conn # "stale"
      BY SetQosFields
    <3>2. FinishQos => rabbit'.conn # "stale"
      BY FinishQosFields
    <3>3. OnChannelOpen => rabbit'.conn # "stale"
      BY OnChannelOpenFields
    <3>4. OnConnectionClosed => rabbit'.conn # "stale"
      BY OnConnectionClosedFields
    <3>5. Reconnect => rabbit'.conn # "stale"
      BY ReconnectFields
    <3>6. RestartTornado => rabbit'.conn # "stale"
      BY RestartFields
    <3>7. Deliver => rabbit'.conn # "stale"
      BY DeliverFields DEF Connected
    <3> QED
      BY <1>2, <3>1, <3>2, <3>3, <3>4, <3>5, <3>6, <3>7
  <2> QED
    BY <2>1 DEF Stale
<1> QED
  BY <1>1, <1>2

(* New notices come behind what Tornado has. *)
LEMMA StaleByPublish ==
  ASSUME Typed, Typed', Stale, NEW n \in 1..NumNotices, NEW copies \in 0..2, DjangoPublish(n, copies)
  PROVE  Stale'
<1> DEFINE c == [i \in 1..copies |-> NewItem(<<n, 0>>)]
           l == notices \o c
<1>1. c \in Seq(NoticeItems) /\ notices \in Seq(NoticeItems)
  BY CopiesFacts DEF Typed
<1>2. Connected /\ inflight' = inflight /\ notices' = l
  BY DjangoPublishFields
<1>3. /\ delivered' = delivered /\ failed' = failed /\ again \subseteq again'
  BY DEF DjangoPublish
<1> HIDE DEF c
<1>4. /\ Len(notices) \in Nat /\ Len(c) \in Nat /\ DOMAIN notices = 1..Len(notices)
      /\ Len(l) = Len(notices) + Len(c) /\ DOMAIN l = 1..Len(l)
      /\ \A i \in 1..Len(notices) : l[i] = notices[i]
  <2>1. /\ l \in Seq(NoticeItems) /\ Len(l) = Len(notices) + Len(c)
        /\ \A i \in 1..(Len(notices) + Len(c)) :
             l[i] = IF i <= Len(notices) THEN notices[i] ELSE c[i - Len(notices)]
    BY <1>1, ConcatProperties
  <2>2. Len(notices) \in Nat /\ Len(c) \in Nat
    BY <1>1, LenProperties
  <2>3. \A i \in 1..Len(notices) : i \in 1..(Len(notices) + Len(c)) /\ i <= Len(notices)
    BY <2>2
  <2> QED
    BY <1>1, <2>1, <2>2, <2>3, LenProperties
<1> HIDE DEF l
<1>5. SUFFICES ASSUME rabbit.conn = "stale" PROVE Stale'
  BY <1>2 DEF Stale, Connected
<1>6. PICK a \in 0..Len(notices) :
         /\ \A i \in DOMAIN inflight : a + i \in DOMAIN notices /\ notices[a + i] = inflight[i]
         /\ \A x \in 1..a : /\ x \in DOMAIN notices
                            /\ notices[x].about \in failed \/ Reached(notices[x].about)
  BY <1>5 DEF Stale
<1>7. a \in 0..Len(notices') /\ \A i \in DOMAIN notices : i \in DOMAIN l /\ l[i] = notices[i]
  BY <1>2, <1>4
<1>8. \A i \in DOMAIN inflight' : a + i \in DOMAIN notices' /\ notices'[a + i] = inflight'[i]
  BY <1>2, <1>6, <1>7
<1>9. \A x \in 1..a : /\ x \in DOMAIN notices'
                      /\ notices'[x].about \in failed'
                           \/ \A u \in 1..NumUsers : <<notices'[x].about[1], u>> \in ToSet(delivered')
  BY <1>2, <1>3, <1>6, <1>7 DEF Reached
<1>10. About(inflight') \subseteq again'
  BY <1>2, <1>3, <1>5 DEF Stale
<1> QED
  BY <1>7, <1>8, <1>9, <1>10 DEF Stale, Reached

-----------------------------------------------------------------------------
(* Nothing twice: the notices. *)

(* What is not there is not there twice. *)
LEMMA NotAboutOnce ==
  ASSUME NEW s, NEW a, a \notin About(s)
  PROVE  Once(s, a)
BY DEF Once, About

(* A step that moves or drops notices. *)
LEMMA NoticesKept ==
  ASSUME NoticesOnce, Repeated \subseteq Repeated', delivered' = delivered,
         \A n \in Notices : n \notin Repeated' =>
           /\ Once(notices, n) /\ Once(inflight, n) /\ ~ (n \in About(notices) /\ n \in About(inflight)) =>
                Once(notices', n) /\ Once(inflight', n) /\ ~ (n \in About(notices') /\ n \in About(inflight'))
           /\ n \in About(notices') \cup About(inflight') => n \in About(notices) \cup About(inflight)
  PROVE  NoticesOnce'
BY DEF NoticesOnce

(* What is delivered again is in again. *)
LEMMA NoticesByBroker ==
  ASSUME Typed, Typed', Known, NoticesOnce,
         SetQos \/ FinishQos \/ OnChannelOpen \/ ConnectionEnds \/ OnConnectionClosed
           \/ Reconnect \/ RestartTornado \/ Deliver
  PROVE  NoticesOnce'
<1>type. notices \in Seq(NoticeItems) /\ inflight \in Seq(NoticeItems)
  BY DEF Typed
<1>1. /\ delivered' = delivered /\ failed' = failed /\ again \subseteq again'
  BY DEF SetQos, FinishQos, OnChannelOpen, ConnectionEnds, OnConnectionClosed, Reconnect, RestartTornado, Deliver
<1>2. Repeated \subseteq Repeated' /\ again' \subseteq Repeated' /\ failed' \subseteq Repeated'
  BY <1>1 DEF Repeated
<1>3. CASE SetQos \/ OnChannelOpen \/ Reconnect
  <2>1. notices' = notices /\ inflight' = inflight
    BY <1>3, SetQosFields, OnChannelOpenFields, ReconnectFields
  <2> QED
    BY <1>1, <1>2, <2>1, NoticesKept
<1>4. CASE FinishQos
  <2>1. inflight' = inflight
    BY <1>4, FinishQosFields
  <2>2. PICK e \in AnyItem : \E t :
              /\ About(asked) = About(asked') \cup {e.about} /\ About(t) = {e.about}
              /\ \/ notices' = notices
                 \/ e \in NoticeItems /\ t \in Seq(NoticeItems) /\ notices' = notices \o t
    BY <1>4, FinishQosFields
  <2>3. PICK t :
              /\ About(asked) = About(asked') \cup {e.about} /\ About(t) = {e.about}
              /\ \/ notices' = notices
                 \/ e \in NoticeItems /\ t \in Seq(NoticeItems) /\ notices' = notices \o t
    BY <2>2
  <2>4. CASE notices' = notices
    BY <1>1, <1>2, <2>1, <2>4, NoticesKept
  <2>5. CASE e \in NoticeItems /\ t \in Seq(NoticeItems) /\ notices' = notices \o t
    <3>1. e.about \in failed
      BY <2>3, <2>5 DEF NoticeItems, Known
    <3>2. About(notices \o t) = About(notices) \cup {e.about}
      BY <1>type, <2>3, <2>5, Joined
    <3>3. ASSUME NEW n \in Notices, n \notin Repeated'
          PROVE  /\ Once(notices, n) => Once(notices', n)
                 /\ n \in About(notices') => n \in About(notices)
      <4>1. n # e.about
        BY <1>1, <1>2, <3>1, <3>3
      <4>2. n \notin About(t) /\ Once(t, n)
        BY <2>3, <4>1, NotAboutOnce
      <4>3. Once(notices, n) => Once(notices \o t, n)
        BY <1>type, <2>5, <4>2, Joined
      <4> QED
        BY <2>5, <3>2, <4>1, <4>3
    <3> QED
      BY <1>1, <1>2, <2>1, <3>3, NoticesKept
  <2> QED
    BY <2>3, <2>4, <2>5
<1>5. CASE ConnectionEnds
  <2>1. /\ notices' = inflight \o notices
        /\ DOMAIN inflight' \subseteq DOMAIN inflight
        /\ \A i \in DOMAIN inflight' : inflight'[i] = inflight[i]
    BY <1>5, ConnectionEndsFields
  <2>2. again' = again \cup About(inflight)
    BY <1>5 DEF ConnectionEnds, inflight
  <2>3. About(inflight') \subseteq About(inflight) /\ About(inflight \o notices) = About(inflight) \cup About(notices)
    <3>1. About(inflight') \subseteq About(inflight)
      BY <2>1 DEF About
    <3>2. About(inflight \o notices) = About(inflight) \cup About(notices)
      BY <1>type, Joined
    <3> QED
      BY <3>1, <3>2
  <2>4. ASSUME NEW n \in Notices, n \notin Repeated'
        PROVE  /\ n \notin About(inflight) /\ n \notin About(inflight')
               /\ Once(inflight', n) /\ Once(notices, n) => Once(notices', n)
    <3>1. n \notin About(inflight) /\ n \notin About(inflight')
      BY <1>2, <2>2, <2>3, <2>4
    <3>2. Once(inflight, n) /\ Once(inflight', n)
      BY <3>1, NotAboutOnce
    <3>3. Once(notices, n) => Once(inflight \o notices, n)
      BY <1>type, <3>1, <3>2, Joined
    <3> QED
      BY <2>1, <3>1, <3>2, <3>3
  <2>5. ASSUME NEW n \in Notices, n \notin Repeated' PROVE Once(inflight', n)
    BY <2>4, <2>5, NotAboutOnce
  <2> QED
    BY <1>1, <1>2, <2>1, <2>3, <2>4, <2>5, NoticesKept
<1>6. CASE OnConnectionClosed
  <2>1. notices' = notices /\ inflight' = <<>>
    BY <1>6, OnConnectionClosedFields
  <2>2. About(inflight') = {} /\ \A n : Once(inflight', n)
    BY <2>1 DEF About, Once
  <2> QED
    BY <1>1, <1>2, <2>1, <2>2, NoticesKept
<1>7. CASE RestartTornado
  <2>1. /\ inflight' = <<>>
        /\ notices' = IF rabbit.conn = "open" THEN inflight \o notices ELSE notices
    BY <1>7, RestartFields
  <2>2. again' = again \cup About(inflight)
    BY <1>7 DEF RestartTornado, inflight
  <2>3. About(inflight') = {} /\ \A n : Once(inflight', n)
    BY <2>1 DEF About, Once
  <2>4. About(inflight \o notices) = About(inflight) \cup About(notices)
    BY <1>type, Joined
  <2>5. ASSUME NEW n \in Notices, n \notin Repeated'
        PROVE  /\ Once(notices, n) => Once(notices', n)
               /\ n \in About(notices') => n \in About(notices)
    <3>1. n \notin About(inflight)
      BY <1>2, <2>2, <2>5
    <3>2. Once(inflight, n)
      BY <3>1, NotAboutOnce
    <3>3. Once(notices, n) => Once(inflight \o notices, n)
      BY <1>type, <3>1, <3>2, Joined
    <3> QED
      BY <2>1, <2>4, <3>1, <3>3
  <2> QED
    BY <1>1, <1>2, <2>3, <2>5, NoticesKept
<1>8. CASE Deliver
  <2> DEFINE h == Head(notices)
  <2>1. notices # <<>> /\ inflight' = Append(inflight, h) /\ notices' = Tail(notices)
    BY <1>8, DeliverFields
  <2>2. /\ h \in NoticeItems
        /\ About(notices) = About(Tail(notices)) \cup {h.about}
        /\ \A a : Once(notices, a) => Once(Tail(notices), a) /\ (h.about = a => a \notin About(Tail(notices)))
    BY <1>type, <2>1, Taken
  <2> HIDE DEF h
  <2>3. /\ About(Append(inflight, h)) = About(inflight) \cup {h.about}
        /\ \A a : Once(inflight, a) /\ ~ (a \in About(inflight) /\ h.about = a) => Once(Append(inflight, h), a)
    <3>1. h \in NoticeItems /\ inflight \in Seq(NoticeItems)
      BY <1>type, <2>2
    <3> QED
      BY <3>1, Appended, Zenon
  <2>4. /\ About(notices) = About(notices') \cup {h.about}
        /\ \A a : Once(notices, a) => Once(notices', a) /\ (h.about = a => a \notin About(notices'))
        /\ About(inflight') = About(inflight) \cup {h.about}
        /\ \A a : Once(inflight, a) /\ ~ (a \in About(inflight) /\ h.about = a) => Once(inflight', a)
    BY <2>1, <2>2, <2>3
  <2> QED
    BY <1>1, <1>2, <2>4, NoticesKept
<1> QED
  BY <1>3, <1>4, <1>5, <1>6, <1>7, <1>8

(* A notice is published once, or is in again. *)
LEMMA NoticesByPublish ==
  ASSUME Typed, Typed', Known, NoticesOnce,
         NEW n \in 1..NumNotices, NEW copies \in 0..2, DjangoPublish(n, copies)
  PROVE  NoticesOnce'
<1>type. notices \in Seq(NoticeItems) /\ inflight \in Seq(NoticeItems)
  BY DEF Typed
<1> DEFINE c == [i \in 1..copies |-> NewItem(<<n, 0>>)]
           x == <<n, 0>>
<1>1. /\ c \in Seq(NoticeItems) /\ About(c) \subseteq {x}
      /\ \A a : copies = 1 \/ a # x => Once(c, a)
      /\ copies = 0 => About(c) = {}
  BY CopiesFacts
<1>2. inflight' = inflight /\ notices' = notices \o c
  BY DjangoPublishFields
<1>3. /\ delivered' = delivered /\ failed' = failed /\ x \notin published
      /\ again \subseteq again' /\ (copies = 2 => x \in again')
  BY DEF DjangoPublish
<1>4. Repeated \subseteq Repeated' /\ again' \subseteq Repeated'
  BY <1>3 DEF Repeated
<1>5. x \in Notices /\ x[1] = n
  BY DEF Notices
<1>6. x \notin About(notices) /\ x \notin About(inflight)
  BY <1>3, <1>5, WayIs DEF Known
<1>7. \A u \in 1..NumUsers : <<x[1], u>> \notin ToSet(delivered)
  <2>1. ASSUME NEW u \in 1..NumUsers, <<n, u>> \in ToSet(delivered) PROVE FALSE
    <3> DEFINE p == <<n, u>>
    <3>1. <<p[1], 0>> \in published
      BY <2>1 DEF Known
    <3> QED
      BY <1>3, <3>1
  <2> QED
    BY <1>5, <2>1
<1> HIDE DEF c, x
<1>8. /\ About(notices') = About(notices) \cup About(c)
      /\ \A a : Once(notices, a) /\ Once(c, a) /\ ~ (a \in About(notices) /\ a \in About(c)) => Once(notices', a)
  BY <1>type, <1>1, <1>2, Joined
<1>9. ASSUME NEW y \in Notices, y \notin Repeated'
      PROVE  /\ Once(notices', y) /\ Once(inflight', y)
             /\ ~ (y \in About(notices') /\ y \in About(inflight'))
             /\ y \in About(notices') \cup About(inflight') =>
                  \A u \in 1..NumUsers : <<y[1], u>> \notin ToSet(delivered')
  <2>1. /\ Once(notices, y) /\ Once(inflight, y) /\ ~ (y \in About(notices) /\ y \in About(inflight))
        /\ y \in About(notices) \cup About(inflight) => \A u \in 1..NumUsers : <<y[1], u>> \notin ToSet(delivered)
    BY <1>4, <1>9 DEF NoticesOnce
  <2>2. CASE y # x
    BY <1>1, <1>2, <1>3, <1>8, <2>1, <2>2
  <2>3. CASE y = x
    <3>1. Once(c, x)
      <4>1. copies # 2
        BY <1>3, <1>4, <1>9, <2>3
      <4>2. copies = 0 => Once(c, x)
        BY <1>1, NotAboutOnce
      <4> QED
        BY <1>1, <4>1, <4>2
    <3> QED
      BY <1>2, <1>3, <1>6, <1>7, <1>8, <2>1, <2>3, <3>1
  <2> QED
    BY <2>2, <2>3
<1> QED
  BY <1>9 DEF NoticesOnce

(* A notice that stays after it has been processed is in failed. *)
LEMMA NoticesByProcess ==
  ASSUME Typed, Typed', NoticesOnce, NEW done \in 0..NumUsers, ProcessNotification(done)
  PROVE  NoticesOnce'
<1>type. notices \in Seq(NoticeItems) /\ inflight \in Seq(NoticeItems)
  BY DEF Typed
<1> DEFINE h == Head(inflight)
           n == h.about
           m == n[1]
           rest == Tail(inflight)
<1>1. inflight # <<>> /\ inflight' = rest
  BY ProcessFields
<1>2. PICK w, xs, jd, ja, nd, na : Processed(done, w, xs, jd, ja, nd, na)
  BY ProcessedFacts
<1>3. /\ xs \in Seq(NoticeItems) /\ Placed(xs, nd, na, rabbit'.lost)
      /\ About(xs) = IF done < NumUsers /\ CanRetry(h) THEN {n} ELSE {}
      /\ notices' = notices \o nd
  BY <1>2 DEF Processed
<1>4. /\ failed' = IF done < NumUsers THEN failed \cup {n} ELSE failed
      /\ ProcessUsers(h, done) /\ again' = again
  BY DEF ProcessNotification, inflight
<1>5. /\ h \in NoticeItems /\ About(inflight) = About(rest) \cup {n}
      /\ \A a : Once(inflight, a) => Once(rest, a) /\ (n = a => a \notin About(rest))
  BY <1>1, <1>type, Taken
<1>6. /\ m \in 1..NumNotices /\ n = <<m, 0>>
      /\ ToSet(delivered') = ToSet(delivered) \cup {<<m, u>> : u \in 1..done}
  BY <1>4, <1>5, ProcessUsersFacts
<1>7. nd \in Seq(NoticeItems) /\ About(nd) \subseteq About(xs)
  BY <1>3, PlacedFacts
<1> HIDE DEF h, n, m, rest
<1>8. Repeated \subseteq Repeated' /\ (About(nd) = {} \/ n \in Repeated') /\ About(nd) \subseteq {n}
  BY <1>3, <1>4, <1>7 DEF Repeated
<1>9. /\ About(notices') = About(notices) \cup About(nd)
      /\ \A a : Once(notices, a) /\ Once(nd, a) /\ ~ (a \in About(notices) /\ a \in About(nd)) => Once(notices', a)
  BY <1>type, <1>3, <1>7, Joined
<1>10. ASSUME NEW y \in Notices, y \notin Repeated'
       PROVE  /\ Once(notices', y) /\ Once(inflight', y)
              /\ ~ (y \in About(notices') /\ y \in About(inflight'))
              /\ y \in About(notices') \cup About(inflight') =>
                   \A u \in 1..NumUsers : <<y[1], u>> \notin ToSet(delivered')
  <2>1. /\ Once(notices, y) /\ Once(inflight, y) /\ ~ (y \in About(notices) /\ y \in About(inflight))
        /\ y \in About(notices) \cup About(inflight) => \A u \in 1..NumUsers : <<y[1], u>> \notin ToSet(delivered)
    BY <1>8, <1>10 DEF NoticesOnce
  <2>2. y \notin About(nd) /\ Once(nd, y)
    BY <1>8, <1>10, NotAboutOnce
  <2>3. Once(notices', y) /\ (y \in About(notices') => y \in About(notices))
    BY <1>9, <2>1, <2>2
  <2>4. Once(inflight', y) /\ (y \in About(inflight') => y \in About(inflight))
    BY <1>1, <1>5, <2>1
  <2>5. y \in About(notices') \cup About(inflight') => y # n
    BY <1>1, <1>5, <2>1, <2>3
  <2>6. y # n => y[1] # m
    BY <1>6, Kinds
  <2>7. y \in About(notices') \cup About(inflight') =>
          \A u \in 1..NumUsers : <<y[1], u>> \notin ToSet(delivered')
    BY <1>6, <2>1, <2>3, <2>4, <2>5, <2>6
  <2> QED
    BY <2>1, <2>3, <2>4, <2>7
<1> QED
  BY <1>10 DEF NoticesOnce

(* Nothing twice: the jobs. *)
Fewer(s, t, a) == (Once(s, a) => Once(t, a)) /\ (a \in About(t) => a \in About(s))

(* A step that moves or drops jobs. *)
LEMMA JobsKept ==
  ASSUME JobsOnce, Repeated \subseteq Repeated', finished' = finished,
         \A j \in Jobs : j \notin Repeated' =>
           /\ Fewer(jobs, jobs', j) /\ Fewer(batch, batch', j)
           /\ Fewer(asked, asked', j) /\ Fewer(unsent, unsent', j)
  PROVE  JobsOnce'
<1>1. ASSUME NEW j \in Jobs, ~ RepeatedJob(j)'
      PROVE  /\ OneJob(j, jobs', batch', asked', unsent')
             /\ j \in About(jobs') \cup About(batch') \cup About(asked') \cup About(unsent')
                  => j \notin finished'
  <2>1. ~ RepeatedJob(j) /\ j \notin Repeated'
    BY <1>1 DEF RepeatedJob
  <2>2. /\ OneJob(j, jobs, batch, asked, unsent)
        /\ j \in About(jobs) \cup About(batch) \cup About(asked) \cup About(unsent) => j \notin finished
    BY <2>1 DEF JobsOnce
  <2>3. /\ Fewer(jobs, jobs', j) /\ Fewer(batch, batch', j)
        /\ Fewer(asked, asked', j) /\ Fewer(unsent, unsent', j)
    BY <2>1
  <2> QED
    BY <2>2, <2>3 DEF OneJob, Fewer
<1> QED
  BY <1>1 DEF JobsOnce

(* The jobs stay, or are lost with the channel. *)
LEMMA JobsByBroker ==
  ASSUME Typed, Typed', JobsOnce,
         \/ SetQos \/ ConnectionEnds \/ OnConnectionClosed \/ Reconnect \/ RestartTornado \/ Deliver
         \/ \E n \in 1..NumNotices, copies \in 0..2 : DjangoPublish(n, copies)
  PROVE  JobsOnce'
<1> USE DEF Fewer
<1>1. /\ finished' = finished /\ failed' = failed /\ batch' = batch /\ again \subseteq again'
  BY DEF SetQos, ConnectionEnds, OnConnectionClosed, Reconnect, RestartTornado, Deliver, DjangoPublish
<1>2. Repeated \subseteq Repeated'
  BY <1>1 DEF Repeated
<1>3. About(<<>>) = {} /\ \A a : Once(<<>>, a)
  BY DEF About, Once
<1>4. CASE SetQos \/ ConnectionEnds \/ Reconnect
  <2>1. jobs' = jobs /\ cbs' = cbs /\ rabbit'.ran = rabbit.ran /\ asked' = asked
    BY <1>4, SetQosFields, ConnectionEndsFields, ReconnectFields
  <2>2. unsent' = unsent
    BY <2>1 DEF unsent
  <2> QED
    BY <1>1, <1>2, <2>1, <2>2, JobsKept
<1>5. CASE OnConnectionClosed
  <2>1. jobs' = jobs /\ cbs' = cbs /\ rabbit'.ran = rabbit.ran /\ asked' = <<>>
    BY <1>5, OnConnectionClosedFields
  <2>2. unsent' = unsent
    BY <2>1 DEF unsent
  <2>3. About(asked') = {} /\ \A a : Once(asked', a)
    BY <1>3, <2>1
  <2> QED
    BY <1>1, <1>2, <2>1, <2>2, <2>3, JobsKept
<1>6. CASE RestartTornado
  <2>1. jobs' = jobs /\ cbs' = <<>> /\ rabbit'.ran = 0 /\ asked' = <<>>
    BY <1>6, RestartFields
  <2>2. unsent' = <<>>
    <3>1. <<>> \in Seq(JobCallbacks) /\ Len(<<>>) = 0
      BY EmptySeq
    <3> DEFINE none == <<>>
    <3>2. none \in Seq(JobCallbacks) /\ 0 \in 0..Len(none) /\ 0 = Len(none) /\ none = <<>>
      BY <3>1
    <3> HIDE DEF none
    <3>3. Unsent(none, 0) = <<>>
      BY <3>2, UnsentFacts
    <3>4. unsent' = Unsent(none, 0)
      BY <2>1, <3>2 DEF unsent
    <3> QED
      BY <3>3, <3>4
  <2>3. /\ About(asked') = {} /\ (\A a : Once(asked', a))
        /\ About(unsent') = {} /\ (\A a : Once(unsent', a))
    BY <1>3, <2>1, <2>2
  <2> QED
    BY <1>1, <1>2, <2>1, <2>3, JobsKept
<1>7. CASE Deliver \/ \E n \in 1..NumNotices, copies \in 0..2 : DjangoPublish(n, copies)
  <2>1. Connected /\ jobs' = jobs
    BY <1>7, DeliverFields, DjangoPublishFields
  <2>2. unsent' = unsent
    BY <2>1 DEF Connected, unsent
  <2> QED
    BY <1>1, <1>2, <2>1, <2>2, JobsKept DEF Connected
<1> QED
  BY <1>4, <1>5, <1>6, <1>7

(* A job goes from the callbacks to the queue. *)
LEMMA JobsByFinish ==
  ASSUME Typed, Typed', JobsOnce, FinishQos
  PROVE  JobsOnce'
<1>type. jobs \in Seq(JobItems)
  BY DEF Typed
<1>1. /\ finished' = finished /\ failed' = failed /\ batch' = batch /\ again' = again
  BY DEF FinishQos
<1>2. cbs' = cbs /\ rabbit'.ran = rabbit.ran
  BY FinishQosFields
<1>3. unsent' = unsent
  BY <1>2 DEF unsent
<1>4. PICK e \in AnyItem : \E t :
              /\ About(asked) = About(asked') \cup {e.about}
              /\ \A a : Once(asked, a) => Once(asked', a) /\ (e.about = a => a \notin About(asked'))
              /\ About(t) = {e.about} /\ \A a : Once(t, a)
              /\ \/ jobs' = jobs
                 \/ t \in Seq(JobItems) /\ jobs' = jobs \o t
  BY FinishQosFields
<1>5. PICK t :
              /\ About(asked) = About(asked') \cup {e.about}
              /\ \A a : Once(asked, a) => Once(asked', a) /\ (e.about = a => a \notin About(asked'))
              /\ About(t) = {e.about} /\ \A a : Once(t, a)
              /\ \/ jobs' = jobs
                 \/ t \in Seq(JobItems) /\ jobs' = jobs \o t
  BY <1>4
<1>6. \/ jobs' = jobs
      \/ /\ About(jobs') = About(jobs) \cup {e.about}
         /\ \A a : Once(jobs, a) /\ ~ (a \in About(jobs) /\ a = e.about) => Once(jobs', a)
  <2>1. t \in Seq(JobItems) =>
          /\ About(jobs \o t) = About(jobs) \cup About(t)
          /\ \A a : Once(jobs, a) /\ Once(t, a) /\ ~ (a \in About(jobs) /\ a \in About(t)) => Once(jobs \o t, a)
    BY <1>type, Joined
  <2> QED
    BY <1>5, <2>1
<1>7. ASSUME NEW j \in Jobs, ~ RepeatedJob(j)'
      PROVE  /\ OneJob(j, jobs', batch', asked', unsent')
             /\ j \in About(jobs') \cup About(batch') \cup About(asked') \cup About(unsent')
                  => j \notin finished'
  <2>1. ~ RepeatedJob(j)
    BY <1>1, <1>7 DEF RepeatedJob, Repeated
  <2>2. /\ OneJob(j, jobs, batch, asked, unsent)
        /\ j \in About(jobs) \cup About(batch) \cup About(asked) \cup About(unsent) => j \notin finished
    BY <2>1 DEF JobsOnce
  <2>3. Once(asked', j) /\ (e.about = j => j \notin About(asked'))
    BY <1>5, <2>2 DEF OneJob
  <2>4. Once(jobs', j)
    BY <1>5, <1>6, <2>2 DEF OneJob
  <2>5. /\ j \in About(jobs') => j \in About(jobs) \/ j = e.about
        /\ j \in About(asked') => j \in About(asked)
        /\ j = e.about => j \in About(asked)
    BY <1>5, <1>6
  <2> QED
    BY <1>1, <1>3, <2>2, <2>3, <2>4, <2>5 DEF OneJob
<1> QED
  BY <1>7 DEF JobsOnce

(* The callbacks that have not run ask for their queue. *)
LEMMA JobsByOpen ==
  ASSUME Typed, Typed', JobsOnce, OnChannelOpen
  PROVE  JobsOnce'
<1>1. /\ finished' = finished /\ failed' = failed /\ batch' = batch
      /\ again' = again \cup Published(SubSeq(cbs, 1, rabbit.ran))
  BY DEF OnChannelOpen, cbs
<1>2. /\ jobs' = jobs /\ cbs' = cbs /\ rabbit'.ran = Len(cbs) /\ asked = <<>>
      /\ ItemsIn(cbs) \in Seq(JobItems) /\ asked' = ItemsIn(cbs) \o <<Consume>>
  BY OnChannelOpenFields
<1>3. /\ cbs \in Seq(JobCallbacks) /\ rabbit.ran \in 0..Len(cbs) /\ Len(cbs) \in Nat
      /\ cbs' \in Seq(JobCallbacks) /\ rabbit'.ran \in 0..Len(cbs') /\ Len(cbs') = Len(cbs)
  BY <1>2, LenProperties DEF Typed
<1>4. unsent' = <<>>
  BY <1>2, <1>3, UnsentFacts DEF unsent
<1>5. /\ Published(cbs) = About(ItemsIn(cbs))
      /\ \A j \in Jobs : j \notin Published(SubSeq(cbs, 1, rabbit.ran)) =>
           /\ j \in Published(cbs) => j \in About(unsent)
           /\ Once(unsent, j) => Once(ItemsIn(cbs), j)
  BY <1>3, UnsentFacts DEF unsent
<1> DEFINE a == ItemsIn(cbs)
           b == <<Consume>>
<1>6. Consume \in AnyItem /\ JobItems \subseteq AnyItem
  BY DEF AnyItem
<1>7. a \in Seq(AnyItem) /\ asked' = a \o b
  BY <1>2, <1>6, SeqMonotonic
<1>8. b \in Seq(AnyItem) /\ About(b) = {Consume.about} /\ \A x : Once(b, x)
  BY <1>6, Single
<1> HIDE DEF b
<1>9. /\ About(asked') = About(a) \cup {Consume.about}
      /\ \A x : Once(a, x) /\ ~ (x \in About(a) /\ x = Consume.about) => Once(asked', x)
  <2> HIDE DEF a
  <2>1. /\ About(a \o b) = About(a) \cup About(b)
        /\ \A x : Once(a, x) /\ Once(b, x) /\ ~ (x \in About(a) /\ x \in About(b)) => Once(a \o b, x)
    BY <1>7, <1>8, Joined
  <2> QED
    BY <1>7, <1>8, <2>1
<1>10. About(unsent') = {} /\ \A x : Once(unsent', x)
  BY <1>4 DEF About, Once
<1>11. ASSUME NEW j \in Jobs, ~ RepeatedJob(j)'
       PROVE  /\ OneJob(j, jobs', batch', asked', unsent')
              /\ j \in About(jobs') \cup About(batch') \cup About(asked') \cup About(unsent')
                   => j \notin finished'
  <2>1. ~ RepeatedJob(j) /\ j \notin again'
    BY <1>1, <1>11 DEF RepeatedJob, Repeated
  <2>2. /\ OneJob(j, jobs, batch, asked, unsent)
        /\ j \in About(jobs) \cup About(batch) \cup About(asked) \cup About(unsent) => j \notin finished
    BY <2>1 DEF JobsOnce
  <2>3. j \notin Published(SubSeq(cbs, 1, rabbit.ran)) /\ j # Consume.about
    BY <1>1, <2>1, Kinds
  <2>4. (j \in About(a) => j \in About(unsent)) /\ (Once(unsent, j) => Once(a, j))
    BY <1>5, <2>3
  <2>5. (j \in About(asked') => j \in About(unsent)) /\ Once(asked', j)
    BY <1>9, <2>2, <2>3, <2>4 DEF OneJob
  <2> QED
    BY <1>1, <1>2, <1>10, <2>2, <2>5 DEF OneJob
<1> QED
  BY <1>11 DEF JobsOnce

(* New jobs are placed where none of them is. *)
LEMMA JobPlaced ==
  ASSUME NEW j, NEW s \in Seq(JobItems), NEW b, NEW w \in Seq(AnyItem), NEW c,
         OneJob(j, s, b, w, c), NEW v \in Seq(JobItems), NEW d, NEW a, NEW gone,
         Placed(v, d, a, gone), Once(v, j),
         j \in About(v) => j \notin About(s) \cup About(b) \cup About(w) \cup About(c)
  PROVE  /\ s \o d \in Seq(JobItems) /\ w \o a \in Seq(AnyItem)
         /\ OneJob(j, s \o d, b, w \o a, c)
         /\ About(s \o d) \cup About(w \o a) \subseteq About(s) \cup About(w) \cup About(v)
<1>1. /\ d \in Seq(JobItems) /\ a \in Seq(JobItems)
      /\ About(d) \subseteq About(v) /\ About(a) \subseteq About(v)
      /\ ~ (j \in About(d) /\ j \in About(a))
      /\ Once(d, j) /\ Once(a, j)
  BY PlacedFacts
<1>2. a \in Seq(AnyItem)
  <2>1. JobItems \subseteq AnyItem
    BY DEF AnyItem
  <2> QED
    BY <1>1, <2>1, SeqMonotonic
<1> DEFINE x == s \o d
           y == w \o a
<1>3. /\ x \in Seq(JobItems) /\ About(x) = About(s) \cup About(d)
      /\ Once(s, j) /\ Once(d, j) /\ ~ (j \in About(s) /\ j \in About(d)) => Once(x, j)
  BY <1>1, Joined
<1>4. /\ y \in Seq(AnyItem) /\ About(y) = About(w) \cup About(a)
      /\ Once(w, j) /\ Once(a, j) /\ ~ (j \in About(w) /\ j \in About(a)) => Once(y, j)
  BY <1>2, Joined
<1> HIDE DEF x, y
<1>5. Once(x, j) /\ Once(y, j)
  BY <1>1, <1>3, <1>4 DEF OneJob
<1>6. OneJob(j, x, b, y, c)
  BY <1>1, <1>3, <1>4, <1>5 DEF OneJob
<1> QED
  BY <1>1, <1>3, <1>4, <1>6 DEF x, y

(* A hook's job is new. *)
LEMMA JobsByHook ==
  ASSUME Typed, Typed', Known, JobsOnce, NEW j \in HookJobs, HookPublish(j)
  PROVE  JobsOnce'
<1>type. /\ jobs \in Seq(JobItems) /\ asked \in Seq(AnyItem)
         /\ cbs \in Seq(JobCallbacks) /\ rabbit.ran \in 0..Len(cbs)
  BY ItemsJoined DEF Typed, asked
<1>1. /\ batch' = batch /\ finished' = finished /\ failed' = failed /\ again' = again
      /\ j \notin published
  BY DEF HookPublish
<1>2. rabbit'.ran = rabbit.ran /\ NewItem(j) \in JobItems
  BY HookPublishFields
<1>3. j \in Jobs /\ NewItem(j).about = j
  BY Kinds DEF NewItem
<1>4. j \notin ToSet(delivered)
  <2>1. j[1] = 0
    BY DEF HookJobs
  <2> QED
    BY <2>1, AboutKinds
<1>5. j \notin OnTheWay \cup finished
  BY <1>1, <1>3, <1>4 DEF Known
<1>6. /\ j \notin About(jobs) \cup About(batch) \cup About(asked) \cup About(unsent)
  <2>1. j # Consume.about
    BY <1>3, Kinds
  <2>2. About(unsent) \subseteq Published(cbs)
    BY <1>type, UnsentFacts DEF unsent
  <2> QED
    BY <1>5, <2>1, <2>2, WayIs
<1> DEFINE v == <<NewItem(j)>>
<1>7. v \in Seq(JobItems) /\ About(v) = {j} /\ \A a : Once(v, a)
  BY <1>2, <1>3, Single
<1> HIDE DEF v
<1>8. \/ /\ jobs' = jobs /\ asked' = asked /\ unsent' = unsent \o v
      \/ /\ unsent' = unsent
         /\ \E d, a : Placed(v, d, a, rabbit'.lost) /\ jobs' = jobs \o d /\ asked' = asked \o a
  <2>1. CASE /\ jobs' = jobs /\ asked' = asked
             /\ \E c \in JobCallbacks : c.item = NewItem(j) /\ cbs' = Append(cbs, c)
    <3>1. PICK c \in JobCallbacks : c.item = NewItem(j) /\ cbs' = Append(cbs, c)
      BY <2>1
    <3>2. Unsent(Append(cbs, c), rabbit.ran) = Unsent(cbs, rabbit.ran) \o <<c.item>>
      BY <1>type, UnsentAppended
    <3>3. unsent' = Unsent(Append(cbs, c), rabbit.ran) /\ unsent = Unsent(cbs, rabbit.ran)
      BY <1>2, <3>1 DEF unsent
    <3>4. v = <<c.item>>
      BY <3>1 DEF v
    <3>5. unsent' = unsent \o v
      BY <3>2, <3>3, <3>4
    <3> QED
      BY <2>1, <3>5
  <2>2. CASE /\ cbs' = cbs
             /\ \E d, a : /\ Placed(<<NewItem(j)>>, d, a, rabbit'.lost)
                          /\ jobs' = jobs \o d /\ asked' = asked \o a
    <3>1. unsent' = unsent
      BY <1>2, <2>2 DEF unsent
    <3> QED
      BY <2>2, <3>1 DEF v
  <2> QED
    BY <2>1, <2>2, HookPublishFields
<1>9. ASSUME NEW k \in Jobs, ~ RepeatedJob(k)'
      PROVE  /\ OneJob(k, jobs', batch', asked', unsent')
             /\ k \in About(jobs') \cup About(batch') \cup About(asked') \cup About(unsent')
                  => k \notin finished'
  <2>1. ~ RepeatedJob(k)
    BY <1>1, <1>9 DEF RepeatedJob, Repeated
  <2>2. /\ OneJob(k, jobs, batch, asked, unsent)
        /\ k \in About(jobs) \cup About(batch) \cup About(asked) \cup About(unsent) => k \notin finished
    BY <2>1 DEF JobsOnce
  <2>3. k \in About(v) => k \notin About(jobs) \cup About(batch) \cup About(asked) \cup About(unsent) \cup finished
    BY <1>5, <1>6, <1>7
  <2>4. CASE jobs' = jobs /\ asked' = asked /\ unsent' = unsent \o v
    <3>1. unsent \in Seq(JobItems)
      BY <1>type, UnsentFacts DEF unsent
    <3>2. /\ About(unsent \o v) = About(unsent) \cup About(v)
          /\ Once(unsent, k) /\ Once(v, k) /\ ~ (k \in About(unsent) /\ k \in About(v)) => Once(unsent \o v, k)
      BY <1>7, <3>1, Joined
    <3>3. Once(unsent', k) /\ About(unsent') = About(unsent) \cup About(v)
      BY <1>7, <2>2, <2>3, <2>4, <3>2 DEF OneJob
    <3> QED
      BY <1>1, <2>2, <2>3, <2>4, <3>3 DEF OneJob
  <2>5. CASE /\ unsent' = unsent
             /\ \E d, a : Placed(v, d, a, rabbit'.lost) /\ jobs' = jobs \o d /\ asked' = asked \o a
    <3>1. PICK d, a : Placed(v, d, a, rabbit'.lost) /\ jobs' = jobs \o d /\ asked' = asked \o a
      BY <2>5
    <3>2. /\ OneJob(k, jobs \o d, batch, asked \o a, unsent)
          /\ About(jobs \o d) \cup About(asked \o a) \subseteq About(jobs) \cup About(asked) \cup About(v)
      <4> DEFINE gone == rabbit'.lost
      <4>1. /\ OneJob(k, jobs, batch, asked, unsent) /\ Placed(v, d, a, gone) /\ Once(v, k)
            /\ jobs \in Seq(JobItems) /\ asked \in Seq(AnyItem) /\ v \in Seq(JobItems)
            /\ k \in About(v) => k \notin About(jobs) \cup About(batch) \cup About(asked) \cup About(unsent)
        BY <1>type, <1>7, <2>2, <2>3, <3>1
      <4> HIDE DEF gone
      <4> QED
        BY <4>1, JobPlaced
    <3>3. /\ OneJob(k, jobs', batch', asked', unsent')
          /\ About(jobs') \cup About(asked') \subseteq About(jobs) \cup About(asked) \cup About(v)
      BY <1>1, <2>5, <3>1, <3>2
    <3> QED
      BY <1>1, <2>2, <2>3, <2>5, <3>3
  <2> QED
    BY <1>8, <2>4, <2>5
<1> QED
  BY <1>9 DEF JobsOnce

(* The jobs of a notice that has not been processed before are new. *)
LEMMA JobsByProcess ==
  ASSUME Typed, Typed', Known, NoticesOnce, JobsOnce, OnceUnlessRepeated,
         NEW done \in 0..NumUsers, ProcessNotification(done)
  PROVE  JobsOnce' /\ OnceUnlessRepeated'
<1>type. /\ jobs \in Seq(JobItems) /\ asked \in Seq(AnyItem) /\ inflight \in Seq(NoticeItems)
         /\ cbs \in Seq(JobCallbacks) /\ rabbit.ran \in 0..Len(cbs)
  BY ItemsJoined DEF Typed, asked
<1> DEFINE h == Head(inflight)
           n == h.about
           m == n[1]
<1>1. inflight # <<>> /\ cbs' = cbs /\ rabbit'.ran = rabbit.ran
  BY ProcessFields
<1>2. PICK w, xs, jd, ja, nd, na : Processed(done, w, xs, jd, ja, nd, na)
  BY ProcessedFacts
<1>3. /\ w \in Seq(JobItems) /\ xs \in Seq(NoticeItems)
      /\ About(w) = {<<m, u>> : u \in (1..done) \cap Idle} /\ (\A a : Once(w, a))
      /\ About(xs) \subseteq {n}
      /\ Placed(w, jd, ja, rabbit'.lost) /\ Placed(xs, nd, na, rabbit'.lost)
      /\ jobs' = jobs \o jd /\ asked' = (asked \o ja) \o na
  BY <1>2 DEF Processed
<1>4. /\ failed \subseteq failed' /\ ProcessUsers(h, done) /\ again' = again
      /\ batch' = batch /\ finished' = finished
  BY DEF ProcessNotification, inflight
<1>5. h \in NoticeItems /\ About(inflight) = About(Tail(inflight)) \cup {n}
  BY <1>1, <1>type, Taken
<1>6. /\ m \in 1..NumNotices /\ n = <<m, 0>>
      /\ twice' = twice \cup ({<<m, u>> : u \in 1..done} \cap ToSet(delivered))
  BY <1>4, <1>5, ProcessUsersFacts
<1>7. n \in Notices /\ n \in About(inflight)
  BY <1>5 DEF NoticeItems
<1>8. na \in Seq(NoticeItems) /\ About(na) \subseteq {n}
  <2>1. na \in Seq(NoticeItems) /\ About(na) \subseteq About(xs)
    BY <1>3, PlacedFacts
  <2> QED
    BY <1>3, <2>1
<1> HIDE DEF h, n, m
<1>9. na \in Seq(AnyItem)
  <2>1. NoticeItems \subseteq AnyItem
    BY DEF AnyItem
  <2> QED
    BY <1>8, <2>1, SeqMonotonic
<1>10. Repeated \subseteq Repeated'
  BY <1>4 DEF Repeated
<1>11. unsent' = unsent
  BY <1>1 DEF unsent
<1>12. n \notin Repeated => \A u \in 1..NumUsers : <<m, u>> \notin ToSet(delivered)
  BY <1>6, <1>7 DEF NoticesOnce
<1>13. ASSUME NEW k \in Jobs, ~ RepeatedJob(k), k \in About(w)
       PROVE  k \notin About(jobs) \cup About(batch) \cup About(asked) \cup About(unsent) \cup finished
  <2>1. PICK u \in (1..done) \cap Idle : k = <<m, u>>
    BY <1>3, <1>13
  <2>2. u \in 1..NumUsers /\ u # 0 /\ m # 0
    BY <1>6, BoundsAssumption
  <2>3. k[1] = m
    BY <2>1
  <2>4. n \notin Repeated
    BY <1>6, <1>13, <2>3 DEF RepeatedJob
  <2>5. k \notin ToSet(delivered)
    BY <1>12, <2>1, <2>2, <2>4
  <2>6. k \notin published
    BY <2>1, <2>2 DEF Typed, Notices, HookJobs
  <2>7. k \notin OnTheWay \cup finished /\ k # Consume.about
    BY <2>5, <2>6, Kinds DEF Known
  <2>8. About(unsent) \subseteq Published(cbs)
    BY <1>type, UnsentFacts DEF unsent
  <2> QED
    BY <2>7, <2>8, WayIs
<1>14. ASSUME NEW k \in Jobs, ~ RepeatedJob(k)'
       PROVE  /\ OneJob(k, jobs', batch', asked', unsent')
              /\ k \in About(jobs') \cup About(batch') \cup About(asked') \cup About(unsent')
                   => k \notin finished'
  <2>1. ~ RepeatedJob(k)
    BY <1>10, <1>14 DEF RepeatedJob
  <2>2. /\ OneJob(k, jobs, batch, asked, unsent)
        /\ k \in About(jobs) \cup About(batch) \cup About(asked) \cup About(unsent) => k \notin finished
    BY <2>1 DEF JobsOnce
  <2>3. k \in About(w) => k \notin About(jobs) \cup About(batch) \cup About(asked) \cup About(unsent) \cup finished
    BY <1>13, <2>1
  <2>a. /\ asked \o ja \in Seq(AnyItem)
        /\ OneJob(k, jobs \o jd, batch, asked \o ja, unsent)
        /\ About(jobs \o jd) \cup About(asked \o ja) \subseteq About(jobs) \cup About(asked) \cup About(w)
    <3> DEFINE gone == rabbit'.lost
    <3>1. /\ OneJob(k, jobs, batch, asked, unsent) /\ Placed(w, jd, ja, gone) /\ Once(w, k)
          /\ jobs \in Seq(JobItems) /\ asked \in Seq(AnyItem) /\ w \in Seq(JobItems)
          /\ k \in About(w) => k \notin About(jobs) \cup About(batch) \cup About(asked) \cup About(unsent)
      BY <1>type, <1>3, <2>2, <2>3
    <3> HIDE DEF gone
    <3> QED
      BY <3>1, JobPlaced
  <2> DEFINE s == jobs \o jd
             q == asked \o ja
  <2>4. /\ q \in Seq(AnyItem)
        /\ OneJob(k, s, batch, q, unsent)
        /\ About(s) \cup About(q) \subseteq About(jobs) \cup About(asked) \cup About(w)
    BY <2>a
  <2>5. jobs' = s /\ asked' = q \o na
    BY <1>3
  <2> HIDE DEF s, q
  <2>6. k \notin About(na) /\ Once(na, k)
    BY <1>7, <1>8, Kinds, NotAboutOnce
  <2>7. /\ About(q \o na) = About(q) \cup About(na)
        /\ Once(q, k) /\ Once(na, k) /\ ~ (k \in About(q) /\ k \in About(na)) => Once(q \o na, k)
    BY <1>9, <2>4, Joined
  <2>8. (k \in About(asked') => k \in About(q)) /\ Once(asked', k)
    BY <2>4, <2>5, <2>6, <2>7 DEF OneJob
  <2>9. OneJob(k, jobs', batch', asked', unsent')
    BY <1>4, <1>11, <2>4, <2>5, <2>8 DEF OneJob
  <2> QED
    BY <1>4, <1>11, <2>2, <2>3, <2>4, <2>5, <2>8, <2>9
<1>15. JobsOnce'
  BY <1>14 DEF JobsOnce
<1>16. ASSUME NEW j \in twice'
       PROVE  j \in Repeated' \/ <<j[1], 0>> \in Repeated'
  <2>1. CASE j \in twice
    BY <1>10, <2>1 DEF OnceUnlessRepeated, Repeated
  <2>2. CASE j \in {<<m, u>> : u \in 1..done} \cap ToSet(delivered)
    <3>1. PICK u \in 1..done : j = <<m, u>>
      BY <2>2
    <3>2. u \in 1..NumUsers /\ j[1] = m
      BY <3>1, BoundsAssumption
    <3>3. n \in Repeated
      BY <1>12, <2>2, <3>1, <3>2
    <3> QED
      BY <1>6, <1>10, <3>2, <3>3
  <2> QED
    BY <1>6, <1>16, <2>1, <2>2
<1> QED
  BY <1>15, <1>16 DEF OnceUnlessRepeated, Repeated

(* The first job goes to the worker. *)
LEMMA WorkerTakesFields ==
  ASSUME Typed, WorkerTakes
  PROVE  Connected /\ notices' = notices /\ inflight' = inflight /\ jobs' = Tail(jobs)
<1>1. rabbit' = [rabbit EXCEPT !.ready = [rabbit.ready EXCEPT !["jobs"] = Tail(jobs)]]
  BY DEF WorkerTakes, jobs
<1> QED
  BY <1>1, JobsFields

(* The notices stay as they are. *)
LEMMA NoticesByWorker ==
  ASSUME Typed, NoticesOnce,
         \/ WorkerTakes
         \/ \E done, failing : Consumes(done, failing)
         \/ \E j \in HookJobs : HookPublish(j)
  PROVE  NoticesOnce'
<1>1. /\ notices' = notices /\ inflight' = inflight /\ delivered' = delivered
      /\ failed \subseteq failed' /\ again \subseteq again'
  <2>1. CASE WorkerTakes
    <3>1. notices' = notices /\ inflight' = inflight
      BY <2>1, WorkerTakesFields
    <3> QED
      BY <2>1, <3>1 DEF WorkerTakes
  <2>2. CASE \E done, failing : Consumes(done, failing)
    <3>1. PICK done, failing : Consumes(done, failing)
      BY <2>2
    <3>2. ConsumeSome(done, failing)
      BY <3>1, ConsumesFields
    <3>3. failed \subseteq failed'
      BY <3>2 DEF ConsumeSome
    <3> QED
      BY <3>1, <3>3, ConsumesFields
  <2>3. CASE \E j \in HookJobs : HookPublish(j)
    <3>1. PICK j \in HookJobs : HookPublish(j)
      BY <2>3
    <3>2. notices' = notices /\ inflight' = inflight
      BY <3>1, HookPublishFields
    <3> QED
      BY <3>1, <3>2 DEF HookPublish
  <2> QED
    BY <2>1, <2>2, <2>3
<1>2. Repeated \subseteq Repeated'
  BY <1>1 DEF Repeated
<1> QED
  BY <1>1, <1>2, NoticesKept

(* A job goes from the queue to the batch. *)
LEMMA JobsByTake ==
  ASSUME Typed, JobsOnce, WorkerTakes
  PROVE  JobsOnce'
<1>type. jobs \in Seq(JobItems) /\ batch \in Seq(JobItems)
  BY DEF Typed
<1> DEFINE h == Head(jobs)
<1>1. /\ jobs # <<>> /\ batch' = Append(batch, h)
      /\ finished' = finished /\ failed' = failed /\ again' = again
  BY DEF WorkerTakes, jobs
<1>2. jobs' = Tail(jobs) /\ asked' = asked /\ cbs' = cbs /\ rabbit'.ran = rabbit.ran
  BY WorkerTakesFields DEF Connected
<1>3. unsent' = unsent
  BY <1>2 DEF unsent
<1>4. /\ h \in JobItems
      /\ About(jobs) = About(jobs') \cup {h.about}
      /\ \A a : Once(jobs, a) => Once(jobs', a) /\ (h.about = a => a \notin About(jobs'))
  BY <1>type, <1>1, <1>2, Taken
<1> HIDE DEF h
<1>5. /\ About(Append(batch, h)) = About(batch) \cup {h.about}
      /\ \A a : Once(batch, a) /\ ~ (a \in About(batch) /\ h.about = a) => Once(Append(batch, h), a)
  <2>1. batch \in Seq(JobItems) /\ h \in JobItems
    BY <1>type, <1>4
  <2> QED
    BY <2>1, Appended, Zenon
<1>6. ASSUME NEW k \in Jobs, ~ RepeatedJob(k)'
      PROVE  /\ OneJob(k, jobs', batch', asked', unsent')
             /\ k \in About(jobs') \cup About(batch') \cup About(asked') \cup About(unsent')
                  => k \notin finished'
  <2>1. ~ RepeatedJob(k)
    BY <1>1, <1>6 DEF RepeatedJob, Repeated
  <2>2. /\ OneJob(k, jobs, batch, asked, unsent)
        /\ k \in About(jobs) \cup About(batch) \cup About(asked) \cup About(unsent) => k \notin finished
    BY <2>1 DEF JobsOnce
  <2>3. Once(jobs', k) /\ (h.about = k => k \notin About(jobs'))
    BY <1>4, <2>2 DEF OneJob
  <2>4. Once(batch', k) /\ About(batch') = About(batch) \cup {h.about}
    BY <1>1, <1>4, <1>5, <2>2 DEF OneJob
  <2>5. (k \in About(jobs') => k \in About(jobs)) /\ (h.about = k => k \in About(jobs))
    BY <1>4
  <2> QED
    BY <1>1, <1>2, <1>3, <2>2, <2>3, <2>4, <2>5 DEF OneJob
<1> QED
  BY <1>6 DEF JobsOnce

(* What is done has left the queue; what stays is in failed or again. *)
LEMMA JobsByConsume ==
  ASSUME Typed, JobsOnce, OnceUnlessRepeated, NEW done, NEW failing, Consumes(done, failing)
  PROVE  JobsOnce' /\ OnceUnlessRepeated'
<1>type. jobs \in Seq(JobItems) /\ batch \in Seq(JobItems)
  BY DEF Typed
<1>1. /\ batch' = <<>> /\ cbs' = cbs /\ asked' = asked /\ rabbit'.ran = rabbit.ran
      /\ 1..done \subseteq DOMAIN batch /\ failing \subseteq 1..done /\ done \in Nat
      /\ again \subseteq again'
  BY ConsumesFields DEF Connected
<1>2. PICK f \in Seq(JobItems), t \in Seq(JobItems) :
         /\ jobs' = (f \o jobs) \o t
         /\ About(t) = {batch[i].about : i \in {i \in failing : CanRetry(batch[i])}}
         /\ \/ f = <<>> /\ (1..done = DOMAIN batch \/ About(batch) \subseteq errors')
            \/ f = batch /\ About(batch) \subseteq again'
  BY ConsumesFields, Zenon
<1> DEFINE sent == (1..done) \ failing
<1>3. /\ finished' = finished \cup {batch[i].about : i \in sent}
      /\ failed' = failed \cup {batch[i].about : i \in failing}
      /\ twice' = twice \cup {batch[i].about : i \in
                    {i \in sent : \/ batch[i].about \in finished
                                  \/ \E j \in sent : j < i /\ batch[j].about = batch[i].about}}
  BY ConsumesFields DEF ConsumeSome
<1>4. sent \subseteq DOMAIN batch /\ sent \subseteq Nat
  BY <1>1
<1> HIDE DEF sent
<1>5. unsent' = unsent /\ Repeated \subseteq Repeated'
  BY <1>1, <1>3 DEF unsent, Repeated
<1>6. About(t) \subseteq Repeated' /\ About(f) \subseteq Repeated'
  <2>1. About(t) \subseteq failed'
    BY <1>2, <1>3
  <2>2. About(f) \subseteq again'
    BY <1>2 DEF About
  <2> QED
    BY <2>1, <2>2 DEF Repeated
<1>7. /\ About(f \o jobs) = About(f) \cup About(jobs) /\ f \o jobs \in Seq(JobItems)
      /\ \A a : Once(f, a) /\ Once(jobs, a) /\ ~ (a \in About(f) /\ a \in About(jobs)) => Once(f \o jobs, a)
  BY <1>type, Joined
<1> DEFINE x == f \o jobs
<1>8. /\ About(x \o t) = About(x) \cup About(t)
      /\ \A a : Once(x, a) /\ Once(t, a) /\ ~ (a \in About(x) /\ a \in About(t)) => Once(x \o t, a)
  <2>1. x \in Seq(JobItems)
    BY <1>7
  <2> HIDE DEF x
  <2> QED
    BY <2>1, Joined
<1>9. jobs' = x \o t /\ About(x) = About(f) \cup About(jobs)
  BY <1>2, <1>7
<1>10. \A a : Once(f, a) /\ Once(jobs, a) /\ ~ (a \in About(f) /\ a \in About(jobs)) => Once(x, a)
  BY <1>7
<1> HIDE DEF x
<1>11. About(batch') = {} /\ \A a : Once(batch', a)
  BY <1>1 DEF About, Once
<1>12. {batch[i].about : i \in sent} \subseteq About(batch)
  BY <1>4 DEF About
<1>13. ASSUME NEW k \in Jobs, ~ RepeatedJob(k)'
       PROVE  /\ OneJob(k, jobs', batch', asked', unsent')
              /\ k \in About(jobs') \cup About(batch') \cup About(asked') \cup About(unsent')
                   => k \notin finished'
  <2>1. ~ RepeatedJob(k) /\ k \notin Repeated'
    BY <1>5, <1>13 DEF RepeatedJob
  <2>2. /\ OneJob(k, jobs, batch, asked, unsent)
        /\ k \in About(jobs) \cup About(batch) \cup About(asked) \cup About(unsent) => k \notin finished
    BY <2>1 DEF JobsOnce
  <2>3. k \notin About(f) /\ k \notin About(t) /\ Once(f, k) /\ Once(t, k)
    BY <1>6, <2>1, NotAboutOnce
  <2>4. Once(jobs, k)
    BY <2>2 DEF OneJob
  <2>5. Once(x, k)
    BY <1>10, <2>3, <2>4
  <2>6. Once(jobs', k) /\ (k \in About(jobs') => k \in About(jobs))
    BY <1>8, <1>9, <2>3, <2>5
  <2>7. k \in About(jobs') \cup About(asked') \cup About(unsent') => k \notin About(batch)
    BY <1>1, <1>5, <2>2, <2>6 DEF OneJob
  <2>8. OneJob(k, jobs', batch', asked', unsent')
    BY <1>1, <1>5, <1>11, <2>2, <2>6 DEF OneJob
  <2> QED
    BY <1>1, <1>3, <1>5, <1>11, <1>12, <2>2, <2>6, <2>7, <2>8
<1>14. JobsOnce'
  BY <1>13 DEF JobsOnce
<1>15. ASSUME NEW j \in twice'
       PROVE  RepeatedJob(j)'
  <2>1. CASE j \in twice
    BY <1>5, <2>1 DEF OnceUnlessRepeated, RepeatedJob, Repeated
  <2>2. CASE j \notin twice
    <3>1. PICK i \in sent : /\ j = batch[i].about
                            /\ \/ j \in finished
                               \/ \E l \in sent : l < i /\ batch[l].about = j
      BY <1>3, <1>15, <2>2
    <3>2. i \in DOMAIN batch /\ j \in About(batch)
      BY <1>4, <3>1 DEF About
    <3>3. j \in Jobs
      <4>1. batch[i] \in JobItems
        BY <1>type, <3>2, ElementOfSeq
      <4> QED
        BY <3>1, <4>1 DEF JobItems
    <3>4. RepeatedJob(j)
      <4> SUFFICES ASSUME ~ RepeatedJob(j) PROVE FALSE
        OBVIOUS
      <4>1. Once(batch, j) /\ j \notin finished
        BY <3>2, <3>3 DEF JobsOnce, OneJob
      <4>2. PICK l \in sent : l < i /\ batch[l].about = j
        BY <3>1, <4>1
      <4>3. l = i
        BY <1>4, <3>1, <4>1, <4>2 DEF Once
      <4> QED
        BY <1>4, <4>2, <4>3
    <3> QED
      BY <1>5, <3>4 DEF RepeatedJob
  <2> QED
    BY <2>1, <2>2
<1> QED
  BY <1>14, <1>15 DEF OnceUnlessRepeated, RepeatedJob, Repeated

(* Only the processing of a notice and the worker do anything twice. *)
LEMMA TwiceKept ==
  ASSUME OnceUnlessRepeated, Typed,
         \/ SetQos \/ FinishQos \/ OnChannelOpen \/ ConnectionEnds \/ OnConnectionClosed
         \/ Reconnect \/ RestartTornado \/ Deliver \/ WorkerTakes
         \/ \E n \in 1..NumNotices, copies \in 0..2 : DjangoPublish(n, copies)
         \/ \E j \in HookJobs : HookPublish(j)
  PROVE  OnceUnlessRepeated'
<1>1. twice' = twice /\ failed' = failed /\ again \subseteq again'
  BY DEF SetQos, FinishQos, OnChannelOpen, ConnectionEnds, OnConnectionClosed, Reconnect,
         RestartTornado, Deliver, WorkerTakes, DjangoPublish, HookPublish
<1> QED
  BY <1>1 DEF OnceUnlessRepeated

-----------------------------------------------------------------------------
(* The invariant is inductive. *)

Broker ==
  SetQos \/ FinishQos \/ OnChannelOpen \/ ConnectionEnds \/ OnConnectionClosed
    \/ Reconnect \/ RestartTornado

(* At first nothing is anywhere. *)
LEMMA RabbitInit ==
  ASSUME Init
  PROVE  RabbitInv
<1>1. /\ Whole(rabbit) /\ notices = <<>> /\ jobs = <<>> /\ waiting = <<>> /\ cbs = <<>>
      /\ inflight = <<>> /\ rabbit.conn = "opening" /\ rabbit.queues = {}
      /\ rabbit.consumers = 0 /\ rabbit.lost = {} /\ rabbit.ran = 0
  BY DEF Init, Whole, RabbitFields, QueueNames, notices, jobs, waiting, cbs, inflight
<1>2. /\ published = {} /\ delivered = <<>> /\ batch = <<>> /\ finished = {}
      /\ failed = {} /\ again = {} /\ twice = {} /\ faults = 0
  BY DEF Init
<1>3. /\ Len(<<>>) = 0 /\ DOMAIN <<>> = {} /\ \A S : <<>> \in Seq(S)
      /\ About(<<>>) = {} /\ (\A a : Once(<<>>, a)) /\ ToSet(<<>>) = {}
  <2>1. \A S : <<>> \in Seq(S)
    BY EmptySeq
  <2>2. Len(<<>>) = 0 /\ DOMAIN <<>> = {}
    OBVIOUS
  <2> QED
    BY <2>1, <2>2 DEF About, Once, ToSet
<1>4. Typed
  BY <1>1, <1>2, <1>3, BoundsAssumption DEF Typed
<1>5. asked = <<>> /\ unsent = <<>>
  <2>1. asked = <<>>
    BY <1>1, <1>3 DEF asked, ItemsOf
  <2>2. Len(cbs) = 0 /\ rabbit.ran = Len(cbs) /\ cbs \in Seq(JobCallbacks)
    BY <1>1, <1>3
  <2> QED
    BY <1>4, <2>1, <2>2, UnsentFacts DEF Typed, unsent
<1>6. OnTheWay = {}
  <2>1. Published(cbs) = {}
    BY <1>1, <1>3 DEF Published
  <2>2. Published(Callbacks(waiting)) = {}
    BY <1>1, <1>3 DEF Published, Callbacks
  <2> QED
    BY <1>1, <1>2, <1>3, <2>1, <2>2 DEF OnTheWay, notices, jobs, inflight, waiting, cbs
<1>7. Known
  BY <1>2, <1>3, <1>5, <1>6 DEF Known
<1>8. Stale
  BY <1>1 DEF Stale
<1>9. OrderInv
  <2>1. Line = <<>>
    BY <1>1, <1>4, LineIs
  <2> QED
    BY <1>2, <1>3, <2>1 DEF OrderInv, InLine, Sorted, Ahead, InOrder
<1>10. OnceInv
  BY <1>1, <1>2, <1>3, <1>5 DEF OnceInv, NoticesOnce, JobsOnce, OneJob, OnceUnlessRepeated
<1>11. NothingForgotten
  BY <1>2, <1>3 DEF NothingForgotten
<1>12. OneConsumer
  BY <1>1 DEF OneConsumer
<1> QED
  BY <1>4, <1>7, <1>8, <1>9, <1>10, <1>11, <1>12 DEF RabbitInv

(* The steps, as the lemmas above name them. *)
LEMMA NextCases ==
  ASSUME Typed, Next
  PROVE  \/ Broker \/ Deliver \/ WorkerTakes
         \/ \E done \in 0..NumUsers : ProcessNotification(done)
         \/ \E done, failing : Consumes(done, failing)
         \/ \E n \in 1..NumNotices, copies \in 0..2 : DjangoPublish(n, copies)
         \/ \E j \in HookJobs : HookPublish(j)
<1>1. Len(batch) \in 0..Len(batch) /\ DOMAIN batch = 1..Len(batch)
  BY LenProperties DEF Typed
<1>2. Worker => WorkerTakes \/ \E done, failing : Consumes(done, failing)
  <2>1. ASSUME NEW failing \in SUBSET DOMAIN batch, ConsumeBatch(failing)
        PROVE  Consumes(Len(batch), failing)
    BY <1>1, <2>1 DEF Consumes
  <2>2. ASSUME NEW done \in 0..Len(batch), NEW failing \in SUBSET (1..done),
               ConsumeError(done, failing) \/ WorkerExits(done, failing)
        PROVE  Consumes(done, failing)
    BY <2>2 DEF Consumes
  <2> QED
    BY <2>1, <2>2 DEF Worker
<1> QED
  BY <1>2 DEF Next, TornadoLoop, Broker

(* The steps of the connection keep the invariant. *)
LEMMA RabbitByBroker ==
  ASSUME RabbitInv, Broker
  PROVE  RabbitInv'
<1> USE DEF RabbitInv, OnceInv, Broker
<1>1. Typed'
  BY TypedBroker
<1>2. Known' /\ NothingForgotten'
  BY <1>1, CarriedByBroker, CarriedByEnds
<1>3. Stale' /\ OrderInv'
  BY <1>1, StaleByBroker, OrderByBroker
<1>4. NoticesOnce'
  BY <1>1, NoticesByBroker
<1>5. JobsOnce'
  BY <1>1, JobsByBroker, JobsByFinish, JobsByOpen
<1>6. OnceUnlessRepeated'
  BY TwiceKept
<1>7. OneConsumer'
  BY <1>1, OneConsumerBroker
<1> QED
  BY <1>1, <1>2, <1>3, <1>4, <1>5, <1>6, <1>7

(* So does a delivery, *)
LEMMA RabbitByDeliver ==
  ASSUME RabbitInv, Deliver
  PROVE  RabbitInv'
<1> USE DEF RabbitInv, OnceInv
<1>1. Typed'
  BY TypedDelivery
<1>2. Known' /\ NothingForgotten'
  BY <1>1, CarriedByBroker
<1>3. Stale' /\ OrderInv'
  BY <1>1, StaleByBroker, OrderByBroker
<1>4. NoticesOnce' /\ JobsOnce' /\ OnceUnlessRepeated'
  BY <1>1, NoticesByBroker, JobsByBroker, TwiceKept
<1>5. OneConsumer'
  BY <1>1, OneConsumerRest
<1> QED
  BY <1>1, <1>2, <1>3, <1>4, <1>5

(* the processing of a notice, *)
LEMMA RabbitByProcess ==
  ASSUME RabbitInv, NEW done \in 0..NumUsers, ProcessNotification(done)
  PROVE  RabbitInv'
<1> USE DEF RabbitInv, OnceInv
<1>1. Typed'
  BY TypedDelivery
<1>2. Known' /\ NothingForgotten'
  BY <1>1, CarriedByProcess
<1>3. Stale' /\ OrderInv'
  BY <1>1, OrderByProcess
<1>4. NoticesOnce'
  BY <1>1, NoticesByProcess
<1>5. JobsOnce' /\ OnceUnlessRepeated'
  BY <1>1, JobsByProcess
<1>6. OneConsumer'
  BY <1>1, OneConsumerRest
<1> QED
  BY <1>1, <1>2, <1>3, <1>4, <1>5, <1>6

(* a publication by Django, *)
LEMMA RabbitByPublish ==
  ASSUME RabbitInv, NEW n \in 1..NumNotices, NEW copies \in 0..2, DjangoPublish(n, copies)
  PROVE  RabbitInv'
<1> USE DEF RabbitInv, OnceInv
<1>1. Typed'
  BY TypedPublish
<1>2. Known' /\ NothingForgotten'
  BY <1>1, CarriedByPublish
<1>3. Stale' /\ OrderInv'
  BY <1>1, StaleByPublish, OrderByPublish
<1>4. NoticesOnce'
  BY <1>1, NoticesByPublish
<1>5. JobsOnce' /\ OnceUnlessRepeated'
  BY <1>1, JobsByBroker, TwiceKept
<1>6. OneConsumer'
  BY <1>1, OneConsumerRest
<1> QED
  BY <1>1, <1>2, <1>3, <1>4, <1>5, <1>6

(* one by Tornado, *)
LEMMA RabbitByHook ==
  ASSUME RabbitInv, NEW j \in HookJobs, HookPublish(j)
  PROVE  RabbitInv'
<1> USE DEF RabbitInv, OnceInv
<1>1. Typed'
  BY TypedPublish
<1>2. Known' /\ NothingForgotten'
  BY <1>1, CarriedByPublish
<1>3. Stale' /\ OrderInv'
  BY <1>1, OrderByWorker
<1>4. NoticesOnce'
  BY NoticesByWorker
<1>5. JobsOnce'
  BY <1>1, JobsByHook
<1>6. OnceUnlessRepeated'
  BY TwiceKept
<1>7. OneConsumer'
  BY <1>1, OneConsumerRest
<1> QED
  BY <1>1, <1>2, <1>3, <1>4, <1>5, <1>6, <1>7

(* the worker that takes a job, *)
LEMMA RabbitByTake ==
  ASSUME RabbitInv, WorkerTakes
  PROVE  RabbitInv'
<1> USE DEF RabbitInv, OnceInv
<1>1. Typed'
  BY TypedWorker
<1>2. Known' /\ NothingForgotten'
  BY <1>1, CarriedByBroker
<1>3. Stale' /\ OrderInv'
  BY <1>1, OrderByWorker
<1>4. NoticesOnce' /\ JobsOnce' /\ OnceUnlessRepeated'
  BY NoticesByWorker, JobsByTake, TwiceKept
<1>5. OneConsumer'
  BY <1>1, OneConsumerRest
<1> QED
  BY <1>1, <1>2, <1>3, <1>4, <1>5

(* the worker that is through with its batch, *)
LEMMA RabbitByConsume ==
  ASSUME RabbitInv, NEW done, NEW failing, Consumes(done, failing)
  PROVE  RabbitInv'
<1> USE DEF RabbitInv, OnceInv
<1>1. Typed'
  BY TypedWorker
<1>2. Known' /\ NothingForgotten'
  BY <1>1, CarriedByWorker
<1>3. Stale' /\ OrderInv'
  BY <1>1, OrderByWorker
<1>4. NoticesOnce'
  BY NoticesByWorker
<1>5. JobsOnce' /\ OnceUnlessRepeated'
  BY JobsByConsume
<1>6. OneConsumer'
  BY <1>1, OneConsumerRest
<1> QED
  BY <1>1, <1>2, <1>3, <1>4, <1>5, <1>6

(* and a step that changes nothing. *)
LEMMA RabbitStutters ==
  ASSUME RabbitInv, UNCHANGED vars
  PROVE  RabbitInv'
<1>1. /\ rabbit' = rabbit /\ published' = published /\ delivered' = delivered /\ batch' = batch
      /\ finished' = finished /\ given_up' = given_up /\ errors' = errors /\ failed' = failed
      /\ again' = again /\ twice' = twice /\ faults' = faults
  BY DEF vars
<1>2. /\ notices' = notices /\ jobs' = jobs /\ waiting' = waiting /\ cbs' = cbs
      /\ inflight' = inflight /\ OnTheWay' = OnTheWay /\ DeadEnds' = DeadEnds
  BY <1>1 DEF notices, jobs, waiting, cbs, inflight, OnTheWay, DeadEnds
<1>3. asked' = asked /\ unsent' = unsent /\ Line' = Line /\ Repeated' = Repeated
  BY <1>1, <1>2 DEF asked, unsent, Line, Repeated
<1>4. Typed'
  BY <1>1, <1>2 DEF RabbitInv, Typed
<1>5. Known' /\ NothingForgotten'
  BY <1>1, <1>2, <1>3 DEF RabbitInv, Known, NothingForgotten
<1>6. Stale' /\ OrderInv'
  BY <1>1, <1>2, <1>3 DEF RabbitInv, Stale, OrderInv, Reached
<1>7. NoticesOnce' /\ OnceUnlessRepeated'
  BY <1>1, <1>2, <1>3 DEF RabbitInv, OnceInv, NoticesOnce, OnceUnlessRepeated
<1>8. JobsOnce'
  BY <1>1, <1>2, <1>3 DEF RabbitInv, OnceInv, JobsOnce, RepeatedJob
<1>9. OneConsumer'
  BY <1>1 DEF RabbitInv, OneConsumer
<1> QED
  BY <1>4, <1>5, <1>6, <1>7, <1>8, <1>9 DEF RabbitInv, OnceInv

(* The invariant that the theorems below rest on: what has been published  *)
(* is known, nothing that has not been repeated is in two places, and what *)
(* is ready for Tornado is in the order of publication, in whatever state  *)
(* TornadoQueueClient and the worker are.                                  *)
THEOREM RabbitInvariant == Spec => []RabbitInv
<1>1. Init => RabbitInv
  BY RabbitInit
<1>2. RabbitInv /\ [Next]_vars => RabbitInv'
  <2> SUFFICES ASSUME RabbitInv, [Next]_vars PROVE RabbitInv'
    OBVIOUS
  <2>1. CASE UNCHANGED vars
    BY <2>1, RabbitStutters
  <2>2. CASE Next
    <3>1. Typed
      BY DEF RabbitInv
    <3>2. CASE Broker
      BY <3>2, RabbitByBroker
    <3>3. CASE Deliver
      BY <3>3, RabbitByDeliver
    <3>4. CASE WorkerTakes
      BY <3>4, RabbitByTake
    <3>5. CASE \E done \in 0..NumUsers : ProcessNotification(done)
      BY <3>5, RabbitByProcess
    <3>6. CASE \E done, failing : Consumes(done, failing)
      BY <3>6, RabbitByConsume
    <3>7. CASE \E n \in 1..NumNotices, copies \in 0..2 : DjangoPublish(n, copies)
      BY <3>7, RabbitByPublish
    <3>8. CASE \E j \in HookJobs : HookPublish(j)
      BY <3>8, RabbitByHook
    <3> QED
      BY <2>2, <3>1, <3>2, <3>3, <3>4, <3>5, <3>6, <3>7, <3>8, NextCases
  <2> QED
    BY <2>1, <2>2
<1> QED
  BY <1>1, <1>2, PTL DEF Spec

(* A queue holds only notices or jobs with at most MAX_REQUEST_RETRIES     *)
(* tries (retry_event), and the state of the connection agrees with what   *)
(* TornadoQueueClient has received and asked for.                          *)
THEOREM RabbitTypes == Spec => []TypeOK
<1>1. Typed => TypeOK
  <2> SUFFICES ASSUME Typed PROVE TypeOK
    OBVIOUS
  <2>1. NoticeItems \subseteq Items /\ JobItems \subseteq Items
    BY DEF NoticeItems, JobItems, Items
  <2>2. ASSUME NEW S, S \subseteq Items, NEW s \in Seq(S) PROVE ToSet(s) \subseteq Items
    BY <2>2, ElementOfSeq, LenProperties DEF ToSet
  <2>3. /\ ToSet(notices) \subseteq Items /\ ToSet(jobs) \subseteq Items
        /\ ToSet(batch) \subseteq Items /\ ToSet(inflight) \subseteq Items
    BY <2>1, <2>2 DEF Typed
  <2>4. rabbit.ran <= Len(rabbit.on_open_cbs)
    BY LenProperties DEF Typed, cbs
  <2> QED
    BY <2>3, <2>4 DEF TypeOK, Typed, notices, jobs, inflight, waiting
<1> QED
  BY <1>1, RabbitInvariant, PTL DEF RabbitInv

(* Whatever fails, what Django or Tornado has published is delivered or    *)
(* done, is on the way, was retried too often, or was lost with a channel. *)
THEOREM RabbitForgetsNothing == Spec => []NothingForgotten
<1>1. RabbitInv => NothingForgotten
  BY DEF RabbitInv
<1> QED
  BY <1>1, RabbitInvariant, PTL

(* Nothing is delivered or done twice, but for what retry_event, a lost    *)
(* connection, a crash or _on_open_cbs has repeated.                       *)
THEOREM RabbitOnce == Spec => []OnceUnlessRepeated
<1>1. RabbitInv => OnceUnlessRepeated
  BY DEF RabbitInv, OnceInv
<1> QED
  BY <1>1, RabbitInvariant, PTL

(* Users get events in the order in which Django published the notices,    *)
(* through redelivery and reconnection, unless retry_event delayed one.    *)
THEOREM RabbitInOrder == Spec => []DeliveredInOrder
<1>1. RabbitInv => DeliveredInOrder
  BY DEF RabbitInv, OrderInv, InLine, InOrder, DeliveredInOrder
<1> QED
  BY <1>1, RabbitInvariant, PTL

(* On an open channel there is one consumer of the notices, or one request *)
(* for it, however often _on_channel_open has run.                         *)
THEOREM RabbitOneConsumer == Spec => []OneConsumer
<1>1. RabbitInv => OneConsumer
  BY DEF RabbitInv
<1> QED
  BY <1>1, RabbitInvariant, PTL
=============================================================================
