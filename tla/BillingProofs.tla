---------------------------- MODULE BillingProofs ----------------------------
(***************************************************************************)
(* Proofs that a customer has at most one live plan, which will be *)
(* invoiced, that no entry of the ledger is charged twice and no period is *)
(* paid by two renewals, that a cancelled plan is not renewed after its *)
(* end, that a live plan that is not due is renewed for the present time *)
(* and that the current plan will be renewed for all users, for any number *)
(* of transactions and any bounds, as long as no actor writes what another *)
(* one has changed since it read. *)
(***************************************************************************)
EXTENDS BillingInvariants, FiniteSetTheorems, SequenceTheorems, WellFoundedInduction, TLAPS

LEMMA HasMin ==
  ASSUME NEW S, S \subseteq Nat, S # {}
  PROVE  /\ \E x \in S : \A y \in S : x <= y
         /\ Min(S) \in S /\ \A y \in S : Min(S) <= y
<1>1. PICK x \in S : \A y \in S : ~ (<<y, x>> \in OpToRel(<, Nat))
  BY WFMin, NatLessThanWellFounded
<1>2. \A y \in S : x <= y
  <2> SUFFICES ASSUME NEW y \in S, y < x PROVE FALSE
    OBVIOUS
  <2>1. <<y, x>> \in OpToRel(<, Nat) BY DEF OpToRel
  <2> QED BY <1>1, <2>1, Zenon
<1> QED BY <1>2 DEF Min

(* A bounded set has a maximum: its elements with the smallest distance *)
(* from the bound. *)
LEMMA HasMax ==
  ASSUME NEW n \in Nat, NEW S, S \subseteq 1..n, S # {}
  PROVE  Max(S) \in S /\ \A y \in S : y <= Max(S)
<1> DEFINE D == {n - y : y \in S}
<1>1. D \subseteq Nat /\ D # {}
  <2>1. \A y \in S : n - y \in Nat OBVIOUS
  <2> QED BY <2>1
<1> HIDE DEF D
<1>2. PICK d \in D : \A y \in D : d <= y BY <1>1, HasMin
<1>3. PICK x \in S : d = n - x BY <1>2 DEF D
<1>4. \A y \in S : n - y \in D BY DEF D
<1>5. \A y \in S : x >= y BY <1>2, <1>3, <1>4
<1> QED BY <1>5 DEF Max

LEMMA FirstAfterTyped ==
  ASSUME NEW anchor \in Nat, NEW step \in Nat \ {0}, NEW t \in Nat
  PROVE  FirstAfter(anchor, step, t) \in Nat /\ t < FirstAfter(anchor, step, t)
<1>1. CASE t < anchor BY <1>1 DEF FirstAfter
<1>2. CASE ~ (t < anchor)
  <2> DEFINE x == t - anchor
  <2>a. x \in Nat
    BY <1>2
  <2>1. x \div step + 1 \in Nat BY <2>a
  <2> DEFINE k == x \div step + 1
  <2>2. FirstAfter(anchor, step, t) = anchor + k * step
    BY <1>2 DEF FirstAfter
  <2>3. k \in Nat BY <2>1
  <2>4. x < k * step
    <3> HIDE DEF x
    <3> QED BY <2>a
  <2>5. x = t - anchor OBVIOUS
  <2> HIDE DEF k, x
  <2>6. k * step \in Nat BY <2>3
  <2> QED BY <2>2, <2>4, <2>5, <2>6
<1> QED BY <1>1, <1>2

(* The entries of a plan lie in the ledger, and so does the latest of them *)
LEMMA LatestTyped ==
  ASSUME NEW ls \in Seq(LedgerRow), NEW es, es \subseteq DOMAIN ls
  PROVE  /\ Latest(es) \in Nat
         /\ es # {} => Latest(es) \in es /\ Latest(es) # 0
         /\ Latest(es) # 0 => Latest(es) \in es
         /\ \A e \in es : e <= Latest(es)
<1>1. CASE es = {} BY <1>1 DEF Latest
<1>2. CASE es # {}
  <2>1. Len(ls) \in Nat /\ es \subseteq 1..Len(ls) OBVIOUS
  <2>2. Latest(es) = Max(es) /\ Max(es) \in es /\ \A e \in es : e <= Max(es)
    BY <1>2, <2>1, HasMax DEF Latest
  <2> QED BY <1>2, <2>1, <2>2
<1> QED BY <1>1, <1>2

LEMMA BillingCycleTyped ==
  ASSUME NEW ps, NEW ls, Sound(ps, ls), NEW i \in DOMAIN ps,
         ps[i].status \in Trials => ps[i].next \in Nat
  PROVE  get_next_billing_cycle(i, ps[i], ls) \in Nat
<1> USE BillingAssumption
<1>1. ps[i] \in Row BY DEF Sound, TablesTyped
<1>2. CASE ps[i].status \in Trials BY <1>2 DEF get_next_billing_cycle
<1>3. CASE ps[i].status \notin Trials
  <2> DEFINE es == {e \in EntriesOf(ls, i) : ls[e].renewal}
             step == Month * (IF ps[i].schedule = "annual" THEN MonthsPerYear ELSE 1)
  <2>1. es \subseteq DOMAIN ls /\ es # {}
    BY DEF EntriesOf, Sound, EachRenewed
  <2>2. Latest(es) \in DOMAIN ls
    <3> HIDE DEF es
    <3> QED BY <2>1, LatestTyped DEF Sound, TablesTyped
  <2>3. ls[Latest(es)].time \in Nat
    <3> HIDE DEF es
    <3>1. ls[Latest(es)] \in LedgerRow BY <2>2 DEF Sound, TablesTyped
    <3> QED BY <3>1 DEF LedgerRow
  <2>4. step \in Nat \ {0}
    <3>1. CASE ps[i].schedule = "annual"
      <4>1. Month * MonthsPerYear \in Nat \ {0} OBVIOUS
      <4> QED BY <3>1, <4>1
    <3>2. CASE ps[i].schedule # "annual" BY <3>2
    <3> QED BY <3>1, <3>2
  <2>5. ps[i].anchor \in Nat BY <1>1 DEF Row
  <2>6. get_next_billing_cycle(i, ps[i], ls) = FirstAfter(ps[i].anchor, step, ls[Latest(es)].time)
    BY <1>3 DEF get_next_billing_cycle, start_of_next_billing_cycle
  <2> HIDE DEF es, step
  <2> QED BY <2>3, <2>4, <2>5, <2>6, FirstAfterTyped
<1> QED BY <1>2, <1>3

LEMMA TimesTyped ==
  ASSUME NEW ps, NEW ls, Sound(ps, ls), NEW i \in Live(ps)
  PROVE  /\ i \in DOMAIN ps /\ ps[i] \in Row /\ ps[i].next \in Nat /\ ps[i].anchor \in Nat
         /\ CycleOf(ps, ls, i) \in Nat
<1>1. i \in DOMAIN ps /\ ps[i] \in Row /\ ps[i].next # None
  BY DEF Live, Sound, TablesTyped, LiveAreInvoiced
<1>2. ps[i].next \in Nat /\ ps[i].anchor \in Nat BY <1>1 DEF Row
<1> QED BY <1>1, <1>2, BillingCycleTyped DEF CycleOf

LEMMA LatestOfPlan ==
  ASSUME NEW ps, NEW ls, Sound(ps, ls), NEW i \in DOMAIN ps
  PROVE  Latest(EntriesOf(ls, i)) \in EntriesOf(ls, i)
<1> DEFINE es == EntriesOf(ls, i)
<1>1. es # {} /\ es \subseteq DOMAIN ls BY DEF EntriesOf, Sound, EachRenewed
<1> HIDE DEF es
<1>2. Latest(es) \in es BY <1>1, LatestTyped DEF Sound, TablesTyped
<1> QED BY <1>2 DEF es

-----------------------------------------------------------------------------
(* The tables stay sound, whatever is written. *)

(* What a write of one row leaves of the plans that are live. *)
LEMMA RowWritten ==
  ASSUME NEW ps \in Seq(Row), NEW i \in DOMAIN ps, NEW row \in Row
  PROVE  LET qs == [ps EXCEPT ![i] = row]
         IN  /\ qs \in Seq(Row) /\ DOMAIN qs = DOMAIN ps /\ qs[i] = row
             /\ \A k \in DOMAIN ps : k # i => qs[k] = ps[k]
  OBVIOUS

LEMMA ExceptWrites ==
  ASSUME NEW ps \in Seq(Row), NEW i \in DOMAIN ps, NEW row \in Row,
         NEW qs, qs = [ps EXCEPT ![i] = row]
  PROVE  Written(ps, i, row, qs)
  BY DEF Written

LEMMA WrittenIs ==
  ASSUME NEW ps \in Seq(Row), NEW i \in DOMAIN ps, NEW row, NEW qs, Written(ps, i, row, qs)
  PROVE  qs = [ps EXCEPT ![i] = row]
  BY DEF Written

LEMMA WriteKeepsSound ==
  ASSUME NEW ps, NEW ls, Sound(ps, ls), NEW i \in DOMAIN ps, NEW row \in Row,
         row.status \in LiveStatuses => i \in Live(ps) /\ row.next # None
  PROVE  Sound([ps EXCEPT ![i] = row], ls)
<1> DEFINE qs == [ps EXCEPT ![i] = row]
<1>1. /\ qs \in Seq(Row) /\ DOMAIN qs = DOMAIN ps /\ qs[i] = row
      /\ \A k \in DOMAIN ps : k # i => qs[k] = ps[k]
  BY RowWritten DEF Sound, TablesTyped
<1> HIDE DEF qs
<1>2. Live(qs) \subseteq Live(ps) BY <1>1 DEF Live
<1>3. TablesTyped(qs, ls) /\ EachRenewed(qs, ls)
  BY <1>1 DEF Sound, TablesTyped, EachRenewed
<1>4. AtMostOneLive(qs) BY <1>2 DEF Sound, AtMostOneLive
<1>5. LiveAreInvoiced(qs) BY <1>1 DEF Sound, LiveAreInvoiced, Live
<1>6. Sound(qs, ls) BY <1>3, <1>4, <1>5 DEF Sound
<1> QED BY <1>6 DEF qs

LEMMA WriteAdvances ==
  ASSUME NEW ps \in Seq(Row), NEW ls, NEW i \in DOMAIN ps, NEW row \in Row,
         row.invoicing = ps[i].invoicing,
         row.status \in Trials => ps[i].status \in Trials,
         \A e \in EntriesOf(ls, i) : BeforeEnd(ps, ls, i, e) =>
            /\ row.status \in Trials => ls[e].time < row.next
            /\ e <= ps[i].through => e <= row.through
  PROVE  Advances(ps, ls, [ps EXCEPT ![i] = row], ls)
<1> DEFINE qs == [ps EXCEPT ![i] = row]
<1>1. /\ DOMAIN qs = DOMAIN ps /\ qs[i] = row
      /\ \A k \in DOMAIN ps : k # i => qs[k] = ps[k]
  BY RowWritten
<1> HIDE DEF qs
<1>2. Advances(ps, ls, qs, ls) BY <1>1 DEF Advances, BeforeEnd
<1> QED BY <1>2 DEF qs

(* A row that is not of a trial and is invoiced as far as before. *)
LEMMA PlainWriteAdvances ==
  ASSUME NEW ps \in Seq(Row), NEW ls, NEW i \in DOMAIN ps, NEW row \in Row,
         row.invoicing = ps[i].invoicing, row.through = ps[i].through,
         \/ row.status \notin Trials
         \/ ps[i].status \in Trials /\ row.next = ps[i].next
  PROVE  Advances(ps, ls, [ps EXCEPT ![i] = row], ls)
<1>1. ASSUME NEW e \in EntriesOf(ls, i), BeforeEnd(ps, ls, i, e)
      PROVE  /\ row.status \in Trials => ls[e].time < row.next
             /\ e <= ps[i].through => e <= row.through
  BY <1>1 DEF BeforeEnd
<1> QED BY <1>1, WriteAdvances

LEMMA StayingAdvances ==
  ASSUME NEW ps, NEW ls PROVE Advances(ps, ls, ps, ls)
  BY DEF Advances

LEMMA StillAdvances ==
  ASSUME NEW ps, NEW ls, NEW qs, NEW ms, NEW rs, NEW ns,
         Advances(ps, ls, qs, ms), Advances(qs, ms, rs, ns)
  PROVE  Advances(ps, ls, rs, ns)
<1>1. /\ DOMAIN ps \subseteq DOMAIN rs /\ DOMAIN ls \subseteq DOMAIN ns
      /\ \A e \in DOMAIN ls : ns[e] = ls[e]
  BY DEF Advances
<1>2. ASSUME NEW i \in DOMAIN ps
      PROVE  /\ rs[i].invoicing = ps[i].invoicing
             /\ rs[i].status \in Trials => ps[i].status \in Trials
             /\ \A e \in EntriesOf(ls, i) : BeforeEnd(ps, ls, i, e) =>
                  /\ BeforeEnd(rs, ns, i, e)
                  /\ e <= ps[i].through => e <= rs[i].through
  <2>1. \A e \in EntriesOf(ls, i) : e \in EntriesOf(ms, i)
    BY DEF Advances, EntriesOf
  <2>2. i \in DOMAIN qs BY DEF Advances
  <2> QED BY <2>1, <2>2 DEF Advances
<1>3. ASSUME NEW i \in DOMAIN rs \ DOMAIN ps, rs[i].status \in Trials
      PROVE  rs[i].invoicing = "DONE"
  <2>1. CASE i \in DOMAIN qs BY <1>3, <2>1 DEF Advances
  <2>2. CASE i \notin DOMAIN qs BY <1>3, <2>2 DEF Advances
  <2> QED BY <2>1, <2>2
<1> QED BY <1>1, <1>2, <1>3 DEF Advances

LEMMA EndKeepsSound ==
  ASSUME NEW ps, NEW ls, Sound(ps, ls), NEW i \in DOMAIN ps, NEW row \in Row,
         row.status = "ENDED"
  PROVE  Sound([ps EXCEPT ![i] = row], ls)
<1>1. row.status \notin LiveStatuses BY DEF LiveStatuses, Trials, Switches
<1> QED BY <1>1, WriteKeepsSound

LEMMA RowAppended ==
  ASSUME NEW S, NEW s \in Seq(S), NEW x \in S
  PROVE  /\ Append(s, x) \in Seq(S) /\ DOMAIN Append(s, x) = DOMAIN s \cup {Len(s) + 1}
         /\ Len(s) + 1 \notin DOMAIN s /\ Len(s) \in Nat
         /\ Append(s, x)[Len(s) + 1] = x
         /\ \A k \in DOMAIN s : Append(s, x)[k] = s[k]
  BY AppendProperties

LEMMA EntryAdvances ==
  ASSUME NEW ps, NEW ls \in Seq(LedgerRow), NEW e \in LedgerRow
  PROVE  Advances(ps, ls, ps, Append(ls, e))
<1>1. DOMAIN ls \subseteq DOMAIN Append(ls, e) /\ \A k \in DOMAIN ls : Append(ls, e)[k] = ls[k]
  BY RowAppended
<1> QED BY <1>1 DEF Advances, BeforeEnd, EntriesOf

LEMMA PlanAdvances ==
  ASSUME NEW ps \in Seq(Row), NEW ls \in Seq(LedgerRow), NEW row \in Row, NEW e \in LedgerRow,
         row.status \in Trials => row.invoicing = "DONE"
  PROVE  Advances(ps, ls, Append(ps, row), Append(ls, e))
<1>1. /\ DOMAIN Append(ps, row) = DOMAIN ps \cup {Len(ps) + 1}
      /\ Append(ps, row)[Len(ps) + 1] = row /\ \A k \in DOMAIN ps : Append(ps, row)[k] = ps[k]
      /\ DOMAIN ls \subseteq DOMAIN Append(ls, e) /\ \A k \in DOMAIN ls : Append(ls, e)[k] = ls[k]
  BY RowAppended
<1> QED BY <1>1 DEF Advances, BeforeEnd, EntriesOf

LEMMA EntryKeepsSound ==
  ASSUME NEW ps, NEW ls, Sound(ps, ls), NEW e \in LedgerRow
  PROVE  Sound(ps, Append(ls, e))
<1>1. /\ Append(ls, e) \in Seq(LedgerRow) /\ DOMAIN ls \subseteq DOMAIN Append(ls, e)
      /\ \A k \in DOMAIN ls : Append(ls, e)[k] = ls[k]
  BY RowAppended DEF Sound, TablesTyped
<1>2. EachRenewed(ps, Append(ls, e))
  <2> SUFFICES ASSUME NEW i \in DOMAIN ps
               PROVE  \E k \in DOMAIN Append(ls, e) : Append(ls, e)[k].plan = i /\ Append(ls, e)[k].renewal
    BY DEF EachRenewed
  <2>1. PICK k \in DOMAIN ls : ls[k].plan = i /\ ls[k].renewal
    BY DEF Sound, EachRenewed
  <2> QED BY <1>1, <2>1
<1> QED BY <1>1, <1>2 DEF Sound, TablesTyped

(* A plan is made when no other one is live, with its first renewal. *)
LEMMA PlanKeepsSound ==
  ASSUME NEW ps, NEW ls, Sound(ps, ls), Live(ps) = {}, NEW row \in Row, row.next # None,
         NEW e \in LedgerRow, e.plan = Len(ps) + 1, e.renewal
  PROVE  Sound(Append(ps, row), Append(ls, e))
<1> DEFINE qs == Append(ps, row)
           ms == Append(ls, e)
<1>1. /\ qs \in Seq(Row) /\ DOMAIN qs = DOMAIN ps \cup {Len(ps) + 1}
      /\ qs[Len(ps) + 1] = row /\ \A k \in DOMAIN ps : qs[k] = ps[k]
  BY RowAppended DEF Sound, TablesTyped
<1>2. /\ ms \in Seq(LedgerRow) /\ DOMAIN ms = DOMAIN ls \cup {Len(ls) + 1}
      /\ ms[Len(ls) + 1] = e /\ \A k \in DOMAIN ls : ms[k] = ls[k]
  BY RowAppended DEF Sound, TablesTyped
<1> HIDE DEF qs, ms
<1>3. EachRenewed(qs, ms)
  <2> SUFFICES ASSUME NEW i \in DOMAIN qs PROVE \E k \in DOMAIN ms : ms[k].plan = i /\ ms[k].renewal
    BY DEF EachRenewed
  <2>1. CASE i \in DOMAIN ps
    <3>1. PICK k \in DOMAIN ls : ls[k].plan = i /\ ls[k].renewal
      BY <2>1 DEF Sound, EachRenewed
    <3> QED BY <1>2, <3>1
  <2>2. CASE i = Len(ps) + 1 BY <1>2, <2>2
  <2> QED BY <1>1, <2>1, <2>2
<1>4. Live(qs) \subseteq {Len(ps) + 1} BY <1>1 DEF Live
<1>5. AtMostOneLive(qs) /\ LiveAreInvoiced(qs)
  BY <1>1, <1>4 DEF AtMostOneLive, LiveAreInvoiced
<1>6. Sound(qs, ms) BY <1>1, <1>2, <1>3, <1>5 DEF Sound, TablesTyped
<1> QED BY <1>6 DEF qs, ms

(* A plan is cut off. *)
LEMMA DowngradedTyped ==
  ASSUME NEW ps, NEW ls, TablesTyped(ps, ls), NEW i \in DOMAIN ps,
         NEW row, row = DowngradedNow(ps[i], i, ls)
  PROVE  /\ row \in Row /\ row.status = "ENDED" /\ row.invoicing = ps[i].invoicing
         /\ \A e \in EntriesOf(ls, i) : e <= row.through
<1>1. ps[i] \in Row BY DEF TablesTyped
<1> DEFINE es == EntriesOf(ls, i)
<1>2. Latest(es) \in Nat /\ \A e \in es : e <= Latest(es)
  <2>1. es \subseteq DOMAIN ls BY DEF EntriesOf
  <2> HIDE DEF es
  <2> QED BY <2>1, LatestTyped DEF TablesTyped
<1>3. row = [ps[i] EXCEPT !.status = "ENDED", !.next = None, !.through = Latest(es)]
  BY DEF DowngradedNow
<1> HIDE DEF es
<1>4. /\ row \in Row /\ row.status = "ENDED" /\ row.invoicing = ps[i].invoicing
      /\ row.through = Latest(es)
  BY <1>1, <1>2, <1>3 DEF Row
<1> QED BY <1>2, <1>4 DEF es

LEMMA DowngradeKeepsSound ==
  ASSUME NEW ps, NEW ls, Sound(ps, ls), NEW i \in DOMAIN ps
  PROVE  LET qs == [ps EXCEPT ![i] = DowngradedNow(@, i, ls)]
         IN  Sound(qs, ls) /\ DOMAIN qs = DOMAIN ps /\ Advances(ps, ls, qs, ls)
<1> DEFINE row == DowngradedNow(ps[i], i, ls)
<1>1. /\ row \in Row /\ row.status = "ENDED" /\ row.invoicing = ps[i].invoicing
      /\ \A e \in EntriesOf(ls, i) : e <= row.through
      /\ ps \in Seq(Row)
  BY DowngradedTyped DEF Sound, TablesTyped
<1> HIDE DEF row
<1>2. Sound([ps EXCEPT ![i] = row], ls) /\ DOMAIN [ps EXCEPT ![i] = row] = DOMAIN ps
  BY <1>1, EndKeepsSound, RowWritten
<1>3. Advances(ps, ls, [ps EXCEPT ![i] = row], ls)
  <2>1. row.status \notin Trials BY <1>1 DEF Trials
  <2> QED BY <1>1, <2>1, WriteAdvances
<1> QED BY <1>2, <1>3 DEF row

LEMMA CycleWrites ==
  ASSUME NEW ps, NEW ls, Sound(ps, ls), NEW i \in DOMAIN ps, NEW t \in Int,
         NEW c, c = make_end_of_cycle_updates_if_needed(Reading(i, ps[i], t, ls), ps, ls)
  PROVE  Cycled(ps, ls, i, t, c) /\ c.copy = c.plans[i]
<1> DEFINE p == ps[i]
           cycle == get_next_billing_cycle(i, p, ls)
           last == LatestBy(ls, i, t)
           licenses == ls[last].atRenewal
           due == cycle <= t /\ last # 0
           New(k) == Entry(k, TRUE, cycle, licenses, licenses)
<1>1. /\ p \in Row /\ ps \in Seq(Row) /\ ls \in Seq(LedgerRow) /\ Len(ps) \in Nat /\ Len(ls) \in Nat
      /\ DOMAIN ps = 1..Len(ps) /\ DOMAIN ls = 1..Len(ls)
  BY DEF Sound, TablesTyped
<1>2. last # 0 => last \in DOMAIN ls
  <2> DEFINE es == {e \in EntriesOf(ls, i) : ls[e].time <= t}
  <2>1. es \subseteq DOMAIN ls BY DEF EntriesOf
  <2> HIDE DEF es
  <2>2. Latest(es) # 0 => Latest(es) \in DOMAIN ls
    BY <1>1, <2>1, LatestTyped
  <2> QED BY <2>2 DEF es, LatestBy
<1>3. p.status \in LiveStatuses <=> i \in Live(ps) BY DEF Live
<1>4. cycle = CycleOf(ps, ls, i) /\ cycle \in Nat
  BY <1>3, BillingCycleTyped, TimesTyped DEF CycleOf, LiveStatuses
<1>5. i \in Live(ps) /\ due =>
        \A k \in Nat : RenewedAt(ps, ls, i, t, New(k)) /\ New(k).plan = k
  <2> SUFFICES ASSUME i \in Live(ps), due, NEW k \in Nat
               PROVE  RenewedAt(ps, ls, i, t, New(k)) /\ New(k).plan = k
    OBVIOUS
  <2>1. ls[last] \in LedgerRow BY <1>1, <1>2
  <2>2. licenses \in Int BY <2>1 DEF LedgerRow
  <2>3. licenses = ls[LatestBy(ls, i, t)].atRenewal OBVIOUS
  <2> HIDE DEF licenses, cycle
  <2> QED BY <1>4, <2>2, <2>3 DEF Entry, LedgerRow, RenewedAt
<1> HIDE DEF New, due, cycle, last
<1>6. CASE ~due
  <2>1. c = [plans |-> ps, ledger |-> ls, copy |-> p, new |-> 0, last |-> last]
    BY <1>6 DEF make_end_of_cycle_updates_if_needed, Reading, due, cycle, last, LatestBy
  <2>2. last = 0 \/ t < cycle BY <1>4, <1>6 DEF due
  <2> QED BY <1>4, <2>1, <2>2 DEF Cycled, Stays, last
<1>7. CASE due /\ Renews(p.status)
  <2> DEFINE e == New(i)
  <2>1. c = [plans |-> ps, ledger |-> Append(ls, e), copy |-> p, new |-> 0, last |-> Len(ls) + 1]
    BY <1>7 DEF make_end_of_cycle_updates_if_needed, Reading, New, due, cycle, last, Renews, Switches,
                LatestBy
  <2>2. i \in Live(ps) /\ p.status = "ACTIVE"
    BY <1>7 DEF Renews, LiveStatuses, Live
  <2>3. RenewedAt(ps, ls, i, t, e) /\ e.plan = i BY <1>1, <1>5, <1>7, <2>2
  <2> HIDE DEF e
  <2>4. GoesOn(ps, ls, i, t, c) BY <2>1, <2>2, <2>3 DEF GoesOn
  <2> QED BY <1>4, <1>7, <2>1, <2>2, <2>4 DEF Cycled, due, last
<1>8. CASE due /\ p.status = "FREE_TRIAL"
  <2> DEFINE row == [p EXCEPT !.through = last, !.anchor = cycle, !.status = "ACTIVE"]
             qs == [ps EXCEPT ![i] = row]
             e == New(i)
  <2>1. c = [plans |-> qs, ledger |-> Append(ls, e), copy |-> row, new |-> 0, last |-> Len(ls) + 1]
    BY <1>8 DEF make_end_of_cycle_updates_if_needed, Reading, New, due, cycle, last, Renews, Trials,
                Switches, LatestBy
  <2>2. i \in Live(ps) BY <1>3, <1>8 DEF LiveStatuses, Trials
  <2>3. RenewedAt(ps, ls, i, t, e) /\ e.plan = i BY <1>1, <1>5, <1>8, <2>2
  <2>4. last \in Nat /\ cycle \in Nat
    BY <1>1, <1>2, <1>4, <1>8, <2>2 DEF due
  <2>5. /\ row \in Row /\ row.next = p.next /\ row.status = "ACTIVE" /\ row.anchor = cycle
        /\ row.through = last /\ row.invoicing = p.invoicing
    BY <1>1, <2>4 DEF Row, LiveStatuses
  <2> HIDE DEF e, row
  <2>6. Written(ps, i, row, qs) BY <1>1, <2>5, ExceptWrites
  <2> HIDE DEF qs
  <2>7. Starts(ps, ls, i, t, c)
    BY <1>4, <1>8, <2>1, <2>3, <2>5, <2>6 DEF Starts, last
  <2>8. c.copy = c.plans[i] BY <2>1, <2>6 DEF Written
  <2> QED BY <1>4, <1>8, <2>1, <2>2, <2>7, <2>8 DEF Cycled, due, last
<1>9. CASE due /\ p.status \in Switches
  <2> DEFINE schedule == IF p.status = "SWITCH_TO_ANNUAL_AT_END_OF_CYCLE" THEN "annual" ELSE "monthly"
             old == [p EXCEPT !.status = "ENDED"]
             os == [ps EXCEPT ![i] = old]
             new == Plan("ACTIVE", schedule, cycle, cycle, 0, "INITIAL")
             k == Len(ps) + 1
             e == New(k)
  <2>1. p.status # "FREE_TRIAL" /\ ~Renews(p.status)
    BY <1>9 DEF Renews, Switches
  <2>2. c = [plans |-> Append(os, new), ledger |-> Append(ls, e), copy |-> old, new |-> k,
             last |-> Len(ls) + 1]
    BY <1>9, <2>1 DEF make_end_of_cycle_updates_if_needed, Reading, New, due, cycle, last, Switches,
                      Ended, LatestBy
  <2>3. i \in Live(ps) /\ cycle \in Nat
    BY <1>3, <1>4, <1>9 DEF LiveStatuses, Switches
  <2>4. RenewedAt(ps, ls, i, t, e) /\ e.plan = k BY <1>1, <1>5, <1>9, <2>3
  <2>5. /\ old.status = "ENDED" /\ old \in Row /\ old.anchor = p.anchor /\ old.schedule = p.schedule
        /\ old.invoicing = p.invoicing /\ old.through = p.through
        /\ new.status = "ACTIVE" /\ new.next = cycle /\ new.anchor = cycle /\ new.schedule = schedule
        /\ new \in Row
    <3>1. schedule \in Schedules BY DEF Schedules
    <3> HIDE DEF schedule
    <3> QED BY <1>1, <2>3, <3>1 DEF Row, Plan, LiveStatuses
  <2> HIDE DEF e, new, old
  <2>6. Written(ps, i, old, os) BY <1>1, <2>5, ExceptWrites
  <2>7. os \in Seq(Row) /\ EndsIn(ps, ls, i, os)
    BY <2>5, <2>6 DEF EndsIn, Written
  <2> HIDE DEF os, k
  <2>8. /\ c.new = Len(ps) + 1 /\ c.plans = Append(os, new) /\ c.ledger = Append(ls, e)
        /\ c.last = Len(ls) + 1 /\ e.plan = Len(ps) + 1
    BY <2>2, <2>4 DEF k
  <2>9. Switched(ps, ls, i, t, c)
    BY <1>4, <1>9, <2>4, <2>5, <2>7, <2>8 DEF Switched
  <2>10. c.copy = c.plans[i]
    BY <2>2, <2>5, <2>6, <2>7, RowAppended DEF Written
  <2> QED BY <1>4, <1>9, <2>3, <2>8, <2>9, <2>10 DEF Cycled, due, last
<1>10. CASE due /\ p.status \in Downgrades
  <2>1. PICK row : /\ c = [plans |-> [ps EXCEPT ![i] = row], ledger |-> ls, copy |-> row,
                           new |-> 0, last |-> 0]
                   /\ row \in Row /\ row.status = "ENDED" /\ row.anchor = p.anchor
                   /\ row.schedule = p.schedule /\ row.invoicing = p.invoicing
                   /\ row.through \in {p.through, Latest(EntriesOf(ls, i))}
    <3>1. CASE p.status = "DOWNGRADE_AT_END_OF_FREE_TRIAL"
      <4> DEFINE row == DowngradedNow(p, i, ls)
      <4>1. c = [plans |-> [ps EXCEPT ![i] = row], ledger |-> ls, copy |-> row, new |-> 0, last |-> 0]
        BY <1>10, <3>1 DEF make_end_of_cycle_updates_if_needed, Reading, due, cycle, last, Renews,
                           Switches, LatestBy
      <4>2. row \in Row /\ row.status = "ENDED" BY DowngradedTyped DEF Sound
      <4>3. /\ row.anchor = p.anchor /\ row.schedule = p.schedule /\ row.invoicing = p.invoicing
            /\ row.through = Latest(EntriesOf(ls, i))
        BY <1>1 DEF DowngradedNow, Row
      <4> QED BY <4>1, <4>2, <4>3
    <3>2. CASE p.status = "DOWNGRADE_AT_END_OF_CYCLE"
      <4> DEFINE row == [p EXCEPT !.status = "ENDED"]
      <4>1. c = [plans |-> [ps EXCEPT ![i] = row], ledger |-> ls, copy |-> row, new |-> 0, last |-> 0]
        BY <1>10, <3>2 DEF make_end_of_cycle_updates_if_needed, Reading, due, cycle, last, Renews,
                           Switches, Ended, LatestBy
      <4>2. /\ row \in Row /\ row.status = "ENDED" /\ row.anchor = p.anchor
            /\ row.schedule = p.schedule /\ row.invoicing = p.invoicing /\ row.through = p.through
        BY <1>1 DEF Row
      <4> QED BY <4>1, <4>2
    <3> QED BY <1>10, <3>1, <3>2 DEF Downgrades
  <2> DEFINE qs == [ps EXCEPT ![i] = row]
  <2>2. Written(ps, i, row, qs) BY <1>1, <2>1, ExceptWrites
  <2> HIDE DEF qs
  <2>3. i \in Live(ps) BY <1>3, <1>10 DEF Downgrades, LiveStatuses, Trials
  <2>4. c.plans = qs /\ c.ledger = ls /\ c.new = 0 /\ c.last = 0
    BY <2>1 DEF qs
  <2>5. Ends(ps, ls, i, c) BY <1>10, <2>1, <2>2, <2>4 DEF Ends, EndsIn
  <2>6. c.copy = c.plans[i] BY <2>1, <2>2, <2>4 DEF Written
  <2> QED BY <1>4, <1>10, <2>3, <2>5, <2>6 DEF Cycled, due, last
<1>11. CASE /\ due /\ ~Renews(p.status) /\ p.status # "FREE_TRIAL" /\ p.status \notin Switches
            /\ p.status \notin Downgrades
  <2>1. c = [plans |-> ps, ledger |-> ls, copy |-> p, new |-> 0, last |-> 0]
    BY <1>11 DEF make_end_of_cycle_updates_if_needed, Reading, due, cycle, last, Downgrades, LatestBy
  <2>2. p.status \in {"SWITCH_PLAN_TIER_NOW", "ENDED"}
    BY <1>1, <1>11 DEF Row, LiveStatuses, Renews, Downgrades, Trials
  <2> QED BY <2>1, <2>2 DEF Cycled, Stays
<1> QED BY <1>6, <1>7, <1>8, <1>9, <1>10, <1>11

LEMMA EndsInFacts ==
  ASSUME NEW ps, NEW ls, Sound(ps, ls), NEW i \in Live(ps), NEW qs, EndsIn(ps, ls, i, qs)
  PROVE  /\ qs \in Seq(Row) /\ DOMAIN qs = DOMAIN ps /\ Len(qs) = Len(ps) /\ Live(qs) = {}
         /\ \A k \in DOMAIN ps : qs[k].anchor = ps[k].anchor /\ qs[k].schedule = ps[k].schedule
<1>1. "ENDED" \notin LiveStatuses BY DEF LiveStatuses, Trials, Switches
<1>2. PICK row \in Row : /\ row.status = "ENDED" /\ Written(ps, i, row, qs)
                         /\ row.anchor = ps[i].anchor /\ row.schedule = ps[i].schedule
  BY DEF EndsIn
<1>3. /\ qs \in Seq(Row) /\ DOMAIN qs = DOMAIN ps /\ qs[i] = row /\ ps \in Seq(Row)
      /\ \A k \in DOMAIN ps : k # i => qs[k] = ps[k]
  BY <1>2 DEF Written, Sound, TablesTyped
<1>4. Live(qs) = {} BY <1>1, <1>2, <1>3 DEF Live, Sound, AtMostOneLive
<1>5. Len(qs) = Len(ps) BY <1>3
<1> QED BY <1>2, <1>3, <1>4, <1>5

LEMMA EndsInKeepsSound ==
  ASSUME NEW ps, NEW ls, Sound(ps, ls), NEW i \in DOMAIN ps, NEW qs, EndsIn(ps, ls, i, qs)
  PROVE  /\ Sound(qs, ls) /\ DOMAIN qs = DOMAIN ps /\ qs[i].status = "ENDED"
         /\ Advances(ps, ls, qs, ls)
<1>1. PICK row \in Row : /\ row.status = "ENDED" /\ Written(ps, i, row, qs)
                         /\ row.invoicing = ps[i].invoicing
                         /\ row.through \in {ps[i].through, Latest(EntriesOf(ls, i))}
  BY DEF EndsIn
<1>2. qs = [ps EXCEPT ![i] = row] /\ DOMAIN qs = DOMAIN ps /\ qs[i] = row /\ ps \in Seq(Row)
  BY <1>1 DEF Written, Sound, TablesTyped
<1>3. Sound(qs, ls) BY <1>1, <1>2, EndKeepsSound
<1>4. "ENDED" \notin Trials BY DEF Trials
<1>5. \A e \in EntriesOf(ls, i) : e <= Latest(EntriesOf(ls, i))
  <2>1. EntriesOf(ls, i) \subseteq DOMAIN ls BY DEF EntriesOf
  <2> QED BY <2>1, LatestTyped DEF Sound, TablesTyped
<1>6. Advances(ps, ls, qs, ls) BY <1>1, <1>2, <1>4, <1>5, WriteAdvances
<1> QED BY <1>1, <1>2, <1>3, <1>6

(* Either the plan is over, or the renewal is of the only plan that lives. *)
LEMMA CycleOutcome ==
  ASSUME NEW ps, NEW ls, Sound(ps, ls), NEW i, NEW t, NEW c,
         Cycled(ps, ls, i, t, c), ~ Stays(ps, ls, i, t, c)
  PROVE  /\ i \in Live(ps) /\ CycleOf(ps, ls, i) <= t
         /\ \/ Ends(ps, ls, i, c) /\ Live(c.plans) = {}
            \/ \E e : RenewsWith(ps, ls, i, t, c, e)
<1>1. /\ i \in Live(ps) /\ CycleOf(ps, ls, i) <= t
      /\ \/ c.last = Len(ls) + 1 /\ (GoesOn(ps, ls, i, t, c) \/ Starts(ps, ls, i, t, c)
                                       \/ Switched(ps, ls, i, t, c))
         \/ Ends(ps, ls, i, c)
  BY DEF Cycled
<1>2. /\ ps \in Seq(Row) /\ i \in DOMAIN ps /\ "ACTIVE" \in LiveStatuses
      /\ \A k \in Live(ps) : k = i
  BY <1>1 DEF Sound, TablesTyped, Live, AtMostOneLive, LiveStatuses
<1>3. CASE c.last = Len(ls) + 1 /\ GoesOn(ps, ls, i, t, c)
  <2>1. PICK e : RenewedAt(ps, ls, i, t, e) /\ e.plan = i /\ c.ledger = Append(ls, e) /\ c.plans = ps
    BY <1>3 DEF GoesOn
  <2>2. /\ ps[i].status = "ACTIVE" /\ e.plan \in Live(c.plans)
        /\ \A k \in Live(c.plans) : k = e.plan
    BY <1>1, <1>2, <1>3, <2>1 DEF GoesOn
  <2> QED BY <1>1, <1>2, <1>3, <2>1, <2>2 DEF RenewsWith
<1>4. CASE c.last = Len(ls) + 1 /\ Starts(ps, ls, i, t, c)
  <2>1. PICK e : RenewedAt(ps, ls, i, t, e) /\ e.plan = i /\ c.ledger = Append(ls, e)
    BY <1>4 DEF Starts
  <2>2. PICK row \in Row : Written(ps, i, row, c.plans) /\ row.status = "ACTIVE" /\ row.next = ps[i].next
    BY <1>4 DEF Starts
  <2>3. /\ DOMAIN c.plans = DOMAIN ps /\ c.plans[i] = row
        /\ \A k \in DOMAIN ps : k # i => c.plans[k] = ps[k]
    BY <2>2 DEF Written
  <2>4. e.plan \in Live(c.plans) /\ \A k \in Live(c.plans) : k = e.plan
    BY <1>2, <2>1, <2>2, <2>3 DEF Live
  <2> QED BY <1>1, <1>2, <1>4, <2>1, <2>2, <2>3, <2>4 DEF RenewsWith
<1>5. CASE c.last = Len(ls) + 1 /\ Switched(ps, ls, i, t, c)
  <2>1. PICK e : RenewedAt(ps, ls, i, t, e) /\ e.plan = Len(ps) + 1 /\ c.ledger = Append(ls, e)
    BY <1>5 DEF Switched
  <2>2. PICK os \in Seq(Row), new \in Row :
          /\ EndsIn(ps, ls, i, os) /\ c.plans = Append(os, new) /\ new.status = "ACTIVE"
          /\ new.next = CycleOf(ps, ls, i)
    BY <1>5 DEF Switched
  <2>3. DOMAIN os = DOMAIN ps /\ Len(os) = Len(ps) /\ Live(os) = {}
    BY <1>1, <2>2, EndsInFacts
  <2>4. /\ DOMAIN c.plans = DOMAIN os \cup {e.plan} /\ c.plans[e.plan] = new /\ e.plan # i
        /\ \A k \in DOMAIN os : c.plans[k] = os[k]
    BY <1>2, <2>1, <2>2, <2>3, RowAppended
  <2>5. e.plan \in Live(c.plans) /\ \A k \in Live(c.plans) : k = e.plan
    BY <1>2, <2>2, <2>3, <2>4 DEF Live
  <2> QED BY <1>1, <1>5, <2>1, <2>2, <2>4, <2>5 DEF RenewsWith
<1>6. CASE Ends(ps, ls, i, c) BY <1>1, <1>6, EndsInFacts DEF Ends
<1> QED BY <1>1, <1>3, <1>4, <1>5, <1>6

(* A trial may become an active plan. *)
LEMMA CycleStatus ==
  ASSUME NEW ps, NEW ls, Sound(ps, ls), NEW i \in DOMAIN ps, NEW t, NEW c,
         Cycled(ps, ls, i, t, c), i \in DOMAIN c.plans, c.plans[i].status \in LiveStatuses
  PROVE  \/ c.plans[i].status = ps[i].status
         \/ ps[i].status = "FREE_TRIAL" /\ c.plans[i].status = "ACTIVE"
<1>1. CASE Stays(ps, ls, i, t, c) BY <1>1 DEF Stays
<1>2. CASE ~ Stays(ps, ls, i, t, c)
  <2>1. i \in Live(c.plans) BY DEF Live
  <2>2. PICK e : RenewsWith(ps, ls, i, t, c, e) BY <1>2, <2>1, CycleOutcome
  <2>3. e.plan = i /\ c.plans[i].status = "ACTIVE"
    BY <2>1, <2>2 DEF RenewsWith
  <2> QED BY <2>2, <2>3 DEF RenewsWith, GoesOn, Starts
<1> QED BY <1>1, <1>2

(* What make_end_of_cycle_updates_if_needed leaves when nothing has been *)
(* written since it read. *)
LEMMA CycleKeepsSound ==
  ASSUME NEW ps, NEW ls, Sound(ps, ls), NEW i \in DOMAIN ps, NEW t \in Int,
         NEW c, c = make_end_of_cycle_updates_if_needed(Reading(i, ps[i], t, ls), ps, ls)
  PROVE  /\ Sound(c.plans, c.ledger)
         /\ DOMAIN ps \subseteq DOMAIN c.plans /\ DOMAIN ls \subseteq DOMAIN c.ledger
         /\ c.last \in Nat /\ (c.last # 0 => c.last \in DOMAIN c.ledger)
         /\ c.new \in Nat /\ (c.new # 0 => c.new \in DOMAIN c.plans)
         /\ c.copy = c.plans[i]
         /\ Advances(ps, ls, c.plans, c.ledger)
         /\ \A e \in EntriesOf(c.ledger, i) :
              c.ledger[e].time <= t => BeforeEnd(c.plans, c.ledger, i, e)
<1>1. ps \in Seq(Row) /\ ps[i] \in Row /\ ls \in Seq(LedgerRow)
  BY DEF Sound, TablesTyped
<1>2. Cycled(ps, ls, i, t, c) /\ c.copy = c.plans[i] BY CycleWrites
<1> DEFINE es == {e \in EntriesOf(ls, i) : ls[e].time <= t}
           last == LatestBy(ls, i, t)
<1>3. /\ last \in Nat /\ (last # 0 => last \in DOMAIN ls)
      /\ \A e \in EntriesOf(ls, i) : ls[e].time <= t => e <= last /\ last # 0
  <2>1. es \subseteq DOMAIN ls BY DEF EntriesOf
  <2>2. last = Latest(es) /\ \A e \in EntriesOf(ls, i) : ls[e].time <= t => e \in es
    BY DEF LatestBy
  <2> HIDE DEF es, last
  <2> QED BY <1>1, <2>1, <2>2, LatestTyped
<1>4. ps[i].status \in Trials => /\ ps[i].next \in Nat /\ CycleOf(ps, ls, i) = ps[i].next
                                 /\ \A e \in EntriesOf(ls, i) : ls[e].time \in Nat
  <2>1. ps[i].status \in Trials => ps[i].next \in Nat /\ CycleOf(ps, ls, i) = ps[i].next
    <3>1. ps[i].status \in Trials => i \in Live(ps)
      BY DEF Live, LiveStatuses
    <3>2. i \in Live(ps) => ps[i].next \in Nat BY TimesTyped
    <3> QED BY <3>1, <3>2 DEF CycleOf, get_next_billing_cycle
  <2>2. \A e \in EntriesOf(ls, i) : ls[e].time \in Nat
    <3>1. \A e \in EntriesOf(ls, i) : ls[e] \in LedgerRow
      BY <1>1 DEF EntriesOf
    <3> QED BY <3>1 DEF LedgerRow
  <2> QED BY <2>1, <2>2
<1>5. "ACTIVE" \notin Trials /\ "ENDED" \notin Trials BY DEF Trials
<1> HIDE DEF last, es
<1>6. CASE Stays(ps, ls, i, t, c)
  <2>1. ASSUME NEW e \in EntriesOf(ls, i), ls[e].time <= t PROVE BeforeEnd(ps, ls, i, e)
    <3> SUFFICES ASSUME ps[i].status \in Trials PROVE ls[e].time < ps[i].next
      BY DEF BeforeEnd
    <3>1. t < CycleOf(ps, ls, i) BY <1>3, <1>6, <2>1 DEF Stays, Trials, last
    <3> QED BY <1>4, <2>1, <3>1
  <2> QED BY <1>2, <1>3, <1>6, <2>1, StayingAdvances DEF Stays, last
<1>7. CASE Ends(ps, ls, i, c)
  BY <1>2, <1>5, <1>7, EndsInKeepsSound DEF Ends, BeforeEnd
<1>8. CASE ~ Stays(ps, ls, i, t, c) /\ ~ Ends(ps, ls, i, c)
  <2>1. PICK e : RenewsWith(ps, ls, i, t, c, e) BY <1>2, <1>8, CycleOutcome
  <2>2. e \in LedgerRow /\ e.renewal /\ i \in Live(ps) /\ CycleOf(ps, ls, i) <= t
    BY <1>2, <1>8, <2>1, CycleOutcome DEF RenewsWith, RenewedAt
  <2>3. /\ DOMAIN c.ledger = DOMAIN ls \cup {Len(ls) + 1} /\ Len(ls) + 1 \in Nat
        /\ \A qs : Advances(qs, ls, qs, c.ledger) /\ (Sound(qs, ls) => Sound(qs, c.ledger))
    BY <1>1, <2>1, <2>2, RowAppended, EntryAdvances, EntryKeepsSound DEF RenewsWith
  <2>4. CASE GoesOn(ps, ls, i, t, c)
    <3>1. c.plans = ps /\ c.new = 0 /\ ps[i].status = "ACTIVE"
      BY <2>4 DEF GoesOn
    <3> QED BY <1>2, <1>5, <2>1, <2>3, <3>1 DEF BeforeEnd, RenewsWith
  <2>5. CASE Starts(ps, ls, i, t, c)
    <3> DEFINE qs == c.plans
    <3>1. PICK row \in Row : /\ Written(ps, i, row, qs) /\ row.status = "ACTIVE"
                             /\ row.next = ps[i].next /\ row.invoicing = ps[i].invoicing
                             /\ row.through = last
      BY <2>5 DEF Starts, last
    <3>2. /\ qs = [ps EXCEPT ![i] = row] /\ qs[i] = row /\ DOMAIN qs = DOMAIN ps /\ c.new = 0
          /\ ps[i].status \in Trials
      BY <1>1, <2>5, <3>1 DEF Starts, Written, Trials
    <3> HIDE DEF qs
    <3>3. \A k \in EntriesOf(ls, i) : BeforeEnd(ps, ls, i, k) => k <= last
      BY <1>3, <1>4, <2>2, <3>2 DEF BeforeEnd
    <3>4. Sound(qs, ls)
      <4>1. row.next # None BY <2>2, <3>1, TimesTyped DEF None
      <4> QED BY <2>2, <3>1, <3>2, <4>1, WriteKeepsSound
    <3>5. Advances(ps, ls, qs, ls)
      BY <1>1, <1>5, <3>1, <3>2, <3>3, WriteAdvances
    <3>6. Advances(ps, ls, qs, c.ledger) BY <2>3, <3>5, StillAdvances
    <3> QED BY <1>2, <1>5, <2>1, <2>3, <3>1, <3>2, <3>4, <3>6 DEF BeforeEnd, RenewsWith, qs
  <2>6. CASE Switched(ps, ls, i, t, c) /\ e.plan = Len(ps) + 1
    <3>1. PICK os \in Seq(Row), new \in Row : /\ EndsIn(ps, ls, i, os) /\ c.plans = Append(os, new)
                                              /\ new.status = "ACTIVE" /\ new.next = CycleOf(ps, ls, i)
      BY <2>6 DEF Switched
    <3>2. /\ Sound(os, ls) /\ DOMAIN os = DOMAIN ps /\ os[i].status = "ENDED" /\ Advances(ps, ls, os, ls)
          /\ Live(os) = {} /\ Len(os) = Len(ps) /\ new.next # None
      <4>1. new.next # None BY <2>2, <3>1, TimesTyped DEF None
      <4> QED BY <2>2, <3>1, <4>1, EndsInKeepsSound, EndsInFacts
    <3>3. /\ DOMAIN c.plans = DOMAIN os \cup {Len(os) + 1} /\ \A k \in DOMAIN os : c.plans[k] = os[k]
      BY <3>1, RowAppended
    <3>4. Sound(c.plans, c.ledger)
      <4>1. e.plan = Len(os) + 1 /\ c.ledger = Append(ls, e) /\ e \in LedgerRow /\ e.renewal
        BY <2>1, <2>2, <2>6, <3>2 DEF RenewsWith
      <4> QED BY ONLY <3>1, <3>2, <4>1, PlanKeepsSound
    <3>5. Advances(os, ls, c.plans, c.ledger)
      BY <1>1, <1>5, <2>1, <2>2, <3>1, PlanAdvances DEF RenewsWith
    <3>6. Advances(ps, ls, c.plans, c.ledger) BY <3>2, <3>5, StillAdvances
    <3>7. c.new = Len(ps) + 1 /\ Len(ps) + 1 \in Nat
      BY <1>1, <2>6 DEF Switched
    <3> QED
      BY <1>2, <1>5, <2>1, <2>3, <3>2, <3>3, <3>4, <3>6, <3>7 DEF BeforeEnd, RenewsWith
  <2> QED BY <2>1, <2>4, <2>5, <2>6 DEF RenewsWith
<1> QED BY <1>6, <1>7, <1>8

-----------------------------------------------------------------------------
(* Transactions and requests keep the tables sound. *)

LEMMA CurrentPlan ==
  ASSUME NEW ps, NEW ls, Sound(ps, ls), NEW i, i = get_current_plan(ps)
  PROVE  /\ i = 0 => Live(ps) = {}
         /\ i # 0 => i \in Live(ps) /\ i \in DOMAIN ps
         /\ i \in Nat
<1>1. Live(ps) \subseteq DOMAIN ps /\ DOMAIN ps \subseteq Nat \ {0}
  BY DEF Live, Sound, TablesTyped
<1>2. CASE Live(ps) = {} BY <1>2 DEF get_current_plan
<1>3. CASE Live(ps) # {}
  <2>1. i = Min(Live(ps)) /\ Live(ps) \subseteq Nat
    BY <1>1, <1>3 DEF get_current_plan
  <2>2. i \in Live(ps) BY <1>3, <2>1, HasMin
  <2> QED BY <1>1, <2>2
<1> QED BY <1>2, <1>3

LEMMA FirstIsCopy ==
  ASSUME Uncrossed, job.copies # {}
  PROVE  /\ First \in job.copies /\ First.id \in DOMAIN plans
         /\ \A d \in job.copies : First.id <= d.id
<1> DEFINE ids == {c.id : c \in job.copies}
<1>1. ids \subseteq Nat /\ ids # {}
  BY DEF Uncrossed, JobSound, Sound, TablesTyped
<1>2. \A c \in job.copies : c.id \in ids OBVIOUS
<1>3. \A x \in ids : \E c \in job.copies : x = c.id OBVIOUS
<1> HIDE DEF ids
<1>4. PICK x \in ids : \A y \in ids : x <= y BY <1>1, HasMin
<1>5. PICK c \in job.copies : x = c.id BY <1>3
<1>6. \A d \in job.copies : c.id <= d.id BY <1>2, <1>4, <1>5
<1>7. First \in job.copies /\ \A d \in job.copies : First.id <= d.id
  BY <1>6 DEF First
<1> QED BY <1>7 DEF Uncrossed, JobSound

LEMMA MaxOfTwo ==
  ASSUME NEW a \in Int, NEW b \in Int
  PROVE  Max({a, b}) \in Int
<1>1. \E x \in {a, b} : \A y \in {a, b} : x >= y OBVIOUS
<1>2. Max({a, b}) \in {a, b} BY <1>1 DEF Max
<1> QED BY <1>2

(* Steps that leave the tables and the job alone. *)
LEMMA TxChanged ==
  ASSUME Uncrossed, UNCHANGED <<tables, job, clock, users>>, NEW t \in Transactions, NEW x,
         tx' = [tx EXCEPT ![t] = x], x.kind # "request",
         x.kind = "user" => UserTyped(x), x.kind = "upgrade" => UpgradeTyped(x)
  PROVE  Uncrossed'
<1>1. TxSound' BY DEF Uncrossed, TxSound
<1> QED BY <1>1 DEF Uncrossed, JobSound, tables, clock

(* Steps of other actors only add to what the job refers to. *)
LEMMA TablesWritten ==
  ASSUME Uncrossed, UNCHANGED <<job, clock>>, Sound(plans', ledger'), users' \in Int, TxSound',
         Advances(plans, ledger, plans', ledger')
  PROVE  Uncrossed'
  BY DEF Uncrossed, JobSound, Advances, clock

LEMMA TxFreed ==
  ASSUME TxSound, NEW t \in Transactions, tx' = [tx EXCEPT ![t] = Free]
  PROVE  TxSound'
  BY DEF TxSound, Free

LEMMA BeginUserChangeSound ==
  ASSUME Uncrossed, NEW t \in Transactions, NEW delta \in {-1, 1}, BeginUserChange(t, delta)
  PROVE  Uncrossed'
<1> DEFINE i == get_current_plan(plans)
           x == [kind |-> "user", delta |-> delta, count |-> users + delta, plan |-> i,
                 reading |-> IF i = 0 THEN 0 ELSE Reading(i, plans[i], now, ledger)]
<1>1. tx' = [tx EXCEPT ![t] = x] /\ UNCHANGED <<tables, job, clock, users>>
  BY DEF BeginUserChange
<1>2. i \in Nat BY CurrentPlan DEF Uncrossed
<1>3. i # 0 => x.reading.time = now BY DEF Reading
<1> HIDE DEF i
<1>4. UserTyped(x) /\ x.kind = "user" BY <1>2, <1>3 DEF UserTyped, Uncrossed
<1> HIDE DEF x
<1> QED BY <1>1, <1>4, TxChanged

LEMMA BeginUpgradeSound ==
  ASSUME Uncrossed, NEW t \in Transactions, NEW licenses \in 1..MaxUsers,
         NEW schedule \in Schedules, BeginUpgrade(t, licenses, schedule)
  PROVE  Uncrossed'
<1> DEFINE x == [kind |-> "upgrade", licenses |-> licenses, schedule |-> schedule,
                 trial |-> trial_days > 0 /\ plans = <<>>]
<1>1. tx' = [tx EXCEPT ![t] = x] /\ UNCHANGED <<tables, job, clock, users>>
  BY DEF BeginUpgrade
<1>2. UpgradeTyped(x) /\ x.kind = "upgrade"
  BY BillingAssumption DEF UpgradeTyped
<1> HIDE DEF x
<1> QED BY <1>1, <1>2, TxChanged

LEMMA CommitUserChangeSound ==
  ASSUME Uncrossed, ~crossed', crossed \in BOOLEAN, NEW t \in Transactions, CommitUserChange(t)
  PROVE  Uncrossed' /\ Advances(plans, ledger, plans', ledger')
<1> DEFINE x == tx[t]
           i == get_current_plan(plans)
           c == make_end_of_cycle_updates_if_needed(x.reading, plans, ledger)
<1>1. /\ x.kind = "user" /\ users' = users + x.delta /\ tx' = [tx EXCEPT ![t] = Free]
      /\ UNCHANGED <<job, clock>>
  BY DEF CommitUserChange
<1>2. UserTyped(x) BY <1>1 DEF Uncrossed, TxSound
<1>3. users' \in Int /\ TxSound'
  <2>1. users' \in Int BY <1>1, <1>2 DEF Uncrossed, UserTyped
  <2>2. TxSound' BY <1>1, TxFreed DEF Uncrossed
  <2> QED BY <2>1, <2>2
<1>4. CASE x.plan = 0
  <2>1. UNCHANGED tables BY <1>4 DEF CommitUserChange
  <2> QED BY <1>1, <1>3, <2>1, StayingAdvances, TablesWritten DEF Uncrossed, tables
<1>5. CASE x.plan # 0
  <2>1. /\ i = x.plan
        /\ i # 0 => Reading(i, plans[i], x.reading.time, ledger) = x.reading
    BY DEF CommitUserChange
  <2>2. /\ i \in DOMAIN plans /\ i \in Nat
        /\ x.reading = Reading(i, plans[i], x.reading.time, ledger)
    BY <1>5, <2>1, CurrentPlan DEF Uncrossed
  <2>3. x.reading.time \in Nat BY <1>2, <1>5 DEF UserTyped
  <2>4. /\ Sound(c.plans, c.ledger)
        /\ Advances(plans, ledger, c.plans, c.ledger)
        /\ c.last \in Nat /\ (c.last # 0 => c.last \in DOMAIN c.ledger)
        /\ c.new \in Nat /\ (c.new # 0 => c.new \in DOMAIN c.plans)
    <3> DEFINE time == x.reading.time
    <3>1. c = make_end_of_cycle_updates_if_needed(Reading(i, plans[i], time, ledger), plans, ledger)
      BY <2>2
    <3> HIDE DEF time, c, i
    <3> QED BY <2>2, <2>3, <3>1, CycleKeepsSound DEF Uncrossed, time
  <2> DEFINE licenses == Max({x.count, c.ledger[c.last].licenses})
             e == Entry(IF c.new # 0 THEN c.new ELSE x.reading.id, FALSE, x.reading.time,
                        licenses, x.count)
  <2>5. plans' = c.plans /\ ledger' = IF c.last = 0 THEN c.ledger ELSE Append(c.ledger, e)
    BY <1>5 DEF CommitUserChange, update_license_ledger_for_automanaged_plan
  <2>6. CASE c.last = 0
    <3> HIDE DEF c
    <3> QED BY <1>1, <1>3, <2>4, <2>5, <2>6, TablesWritten
  <2>7. CASE c.last # 0
    <3>1. x.reading.id = i BY <2>2 DEF Reading
    <3> HIDE DEF c, i
    <3>2. c.ledger \in Seq(LedgerRow) /\ c.ledger[c.last] \in LedgerRow
      BY <2>4, <2>7 DEF Sound, TablesTyped
    <3>3. licenses \in Int BY <1>2, <3>2, MaxOfTwo DEF UserTyped, LedgerRow
    <3> HIDE DEF licenses
    <3>4. e \in LedgerRow
      BY <1>2, <2>2, <2>3, <2>4, <3>1, <3>3 DEF Entry, LedgerRow, UserTyped
    <3> HIDE DEF e
    <3>5. Sound(c.plans, Append(c.ledger, e)) /\ Advances(c.plans, c.ledger, c.plans, Append(c.ledger, e))
      BY <2>4, <3>2, <3>4, EntryKeepsSound, EntryAdvances
    <3>6. Advances(plans, ledger, c.plans, Append(c.ledger, e))
      BY <2>4, <3>5, StillAdvances
    <3> QED BY <1>1, <1>3, <2>5, <2>7, <3>5, <3>6, TablesWritten
  <2> QED BY <2>6, <2>7
<1> QED BY <1>4, <1>5

(* The rows of an upgrade: one plan, which begins with a renewal. *)
LEMMA UpgradedRows ==
  ASSUME Uncrossed, NEW x, UpgradeTyped(x), NEW new, new = Upgraded(x)
  PROVE  /\ new.plan \in Row /\ new.plan.next # None /\ new.plan.invoicing = "DONE"
         /\ new.plan.status \in Trials => new.plan.anchor = now /\ now <= new.plan.next
         /\ new.plan.status \notin Trials =>
              new.plan.anchor = now /\ (new.plan.next = now + Month \/ Len(new.items) = 2)
         /\ \E e \in LedgerRow : e.plan = Len(plans) + 1 /\ e.renewal /\ e.time = now
              /\ \/ new.entries = <<e>>
                 \/ \E f \in LedgerRow : ~f.renewal /\ new.entries = <<e, f>>
<1> USE BillingAssumption
<1> DEFINE i == Len(plans) + 1
           e == Len(ledger) + 1
           first == Entry(i, TRUE, now, x.licenses, x.licenses)
           more == Max({users, x.licenses})
           second == Entry(i, FALSE, now, more, more)
           plan == Plan("ACTIVE", x.schedule, now, now + Month, e, "DONE")
           trial == Plan("FREE_TRIAL", x.schedule, now, now + trial_days, e, "DONE")
<1>1. i \in Nat /\ e \in Nat /\ now \in Nat /\ trial_days \in Nat /\ users \in Int
  BY DEF Uncrossed, Sound, TablesTyped
<1>2. more \in Int /\ x.licenses \in Int BY <1>1, MaxOfTwo DEF UpgradeTyped
<1>3. /\ first \in LedgerRow /\ first.plan = i /\ first.renewal /\ first.time = now
      /\ second \in LedgerRow /\ ~second.renewal
  <2> HIDE DEF more, i
  <2> QED BY <1>1, <1>2 DEF Entry, LedgerRow
<1>4. /\ plan \in Row /\ plan.next = now + Month /\ plan.next \in Nat
      /\ plan.anchor = now /\ plan.status = "ACTIVE" /\ plan.invoicing = "DONE"
  <2> HIDE DEF e
  <2> QED BY <1>1 DEF Plan, Row, LiveStatuses, UpgradeTyped
<1>5. /\ trial \in Row /\ trial.next \in Nat /\ trial.invoicing = "DONE"
      /\ trial.anchor = now /\ now <= trial.next /\ trial.status \in Trials
  <2> HIDE DEF e
  <2> QED BY <1>1 DEF Plan, Row, LiveStatuses, Trials, UpgradeTyped
<1>6. "ACTIVE" \notin Trials /\ \A k \in Nat : k # None BY DEF None, Trials
<1>7. CASE x.trial
  <2>1. new.plan = trial /\ new.entries = <<first>> BY <1>7 DEF Upgraded
  <2> HIDE DEF first, trial
  <2> QED BY <1>3, <1>5, <1>6, <2>1
<1>8. CASE ~x.trial /\ more = x.licenses
  <2>1. new.plan = plan /\ new.entries = <<first>> BY <1>8 DEF Upgraded
  <2> HIDE DEF first, plan
  <2> QED BY <1>3, <1>4, <1>6, <2>1
<1>9. CASE ~x.trial /\ more # x.licenses
  <2> DEFINE late == [plan EXCEPT !.through = e + 1, !.next = next_invoice_date(plan)]
  <2>1. new.plan = late /\ new.entries = <<first, second>> /\ Len(new.items) = 2
    BY <1>9 DEF Upgraded
  <2>2. next_invoice_date(plan) = FirstAfter(now, Month, now + Month)
    <3> HIDE DEF plan
    <3> QED BY <1>4 DEF next_invoice_date
  <2>3. next_invoice_date(plan) \in Nat BY <1>1, <2>2, FirstAfterTyped
  <2> HIDE DEF plan, e
  <2>4. /\ late \in Row /\ late.next \in Nat /\ late.invoicing = "DONE" /\ late.status = "ACTIVE"
        /\ late.anchor = now
    <3> DEFINE due == next_invoice_date(plan)
               last == e + 1
    <3>1. late = [plan EXCEPT !.through = last, !.next = due] OBVIOUS
    <3>2. plan \in Row /\ last \in Nat /\ due \in Nat BY <1>1, <1>4, <2>3
    <3> HIDE DEF due, last, late
    <3>3. /\ late \in Row /\ late.next = due
          /\ late.invoicing = plan.invoicing /\ late.status = plan.status
          /\ late.anchor = plan.anchor
      BY <3>1, <3>2 DEF Row
    <3> QED BY <1>4, <3>2, <3>3
  <2> HIDE DEF first, second, late
  <2> QED BY <1>3, <1>6, <2>1, <2>4
<1> QED BY <1>7, <1>8, <1>9 DEF UpgradeTyped

LEMMA UpgradeSound ==
  ASSUME Uncrossed, ~crossed', crossed \in BOOLEAN, NEW t \in Transactions,
         process_initial_upgrade(t)
  PROVE  Uncrossed' /\ Advances(plans, ledger, plans', ledger')
<1> DEFINE new == Upgraded(tx[t])
<1>1. /\ tx[t].kind = "upgrade" /\ plans' = Append(plans, new.plan)
      /\ ledger' = ledger \o new.entries /\ tx' = [tx EXCEPT ![t] = Free]
      /\ UNCHANGED <<clock, users, job>> /\ get_current_plan(plans) = 0
  BY DEF process_initial_upgrade
<1>2. UpgradeTyped(tx[t]) BY <1>1 DEF Uncrossed, TxSound
<1> HIDE DEF new
<1>3. /\ new.plan \in Row /\ new.plan.next # None /\ new.plan.invoicing = "DONE"
      /\ \E e \in LedgerRow : e.plan = Len(plans) + 1 /\ e.renewal
              /\ \/ new.entries = <<e>>
                 \/ \E f \in LedgerRow : new.entries = <<e, f>>
  BY <1>2, UpgradedRows DEF new
<1>4. PICK e \in LedgerRow : e.plan = Len(plans) + 1 /\ e.renewal
              /\ \/ new.entries = <<e>>
                 \/ \E f \in LedgerRow : new.entries = <<e, f>>
  BY <1>3
<1>5. plans \in Seq(Row) /\ ledger \in Seq(LedgerRow) /\ Live(plans) = {}
  BY <1>1, CurrentPlan DEF Uncrossed, Sound, TablesTyped
<1> DEFINE ms == Append(ledger, e)
<1>6. Sound(plans', ms) /\ ms \in Seq(LedgerRow) /\ Advances(plans, ledger, plans', ms)
  BY <1>1, <1>3, <1>4, <1>5, PlanKeepsSound, RowAppended, PlanAdvances DEF Uncrossed
<1>7. Sound(plans', ledger') /\ Advances(plans, ledger, plans', ledger')
  <2>1. CASE new.entries = <<e>>
    <3>1. ledger' = ms BY <1>1, <1>5, <2>1
    <3> QED BY <1>6, <3>1
  <2>2. ASSUME NEW f \in LedgerRow, new.entries = <<e, f>>
        PROVE  Sound(plans', ledger') /\ Advances(plans, ledger, plans', ledger')
    <3>1. ledger' = Append(ms, f) BY <1>1, <1>5, <2>2
    <3> HIDE DEF ms
    <3>2. Sound(plans', ledger') /\ Advances(plans', ms, plans', ledger')
      BY <1>6, <3>1, EntryKeepsSound, EntryAdvances
    <3> QED BY <1>6, <3>2, StillAdvances
  <2> QED BY <1>4, <2>1, <2>2
<1>8. TxSound' BY <1>1, TxFreed DEF Uncrossed
<1> HIDE DEF ms
<1> QED BY <1>1, <1>6, <1>7, <1>8, TablesWritten DEF Uncrossed

LEMMA DowngradeNowSound ==
  ASSUME Uncrossed, downgrade_now
  PROVE  Uncrossed' /\ Advances(plans, ledger, plans', ledger')
<1> DEFINE i == get_current_plan(plans)
<1>1. /\ plans' = [plans EXCEPT ![i] = DowngradedNow(@, i, ledger)]
      /\ UNCHANGED <<clock, users, ledger, tx, job>> /\ i \in DOMAIN plans
  BY CurrentPlan DEF downgrade_now, Uncrossed
<1> HIDE DEF i
<1>2. Sound(plans', ledger') /\ Advances(plans, ledger, plans', ledger')
  BY <1>1, DowngradeKeepsSound DEF Uncrossed
<1>3. TxSound' /\ users' \in Int BY <1>1 DEF Uncrossed, TxSound
<1> QED BY <1>1, <1>2, <1>3, TablesWritten

(* A request of the billing page first renews the plan. *)
LEMMA UpdatePlanRenews ==
  ASSUME Uncrossed, NEW t \in Transactions, NEW request \in Requests, do_update_plan(t, request)
  PROVE  /\ \E i, c : Requested(i, c) /\ (tx' = tx \/ Noted(t, request, i, c))
         /\ UNCHANGED <<now, users, job, items, marks, cancelled, trial_days>>
<1> DEFINE i == get_current_plan(plans)
           c == make_end_of_cycle_updates_if_needed(Reading(i, plans[i], now, ledger), plans, ledger)
<1>1. /\ i # 0 /\ request \in Offered(plans[i]) /\ plans' = c.plans /\ ledger' = c.ledger
      /\ \/ tx' = tx
         \/ /\ c.new = 0 /\ c.last # 0
            /\ tx' = [tx EXCEPT ![t] = [kind |-> "request", request |-> request, plan |-> i,
                                       copy |-> c.copy, terms |-> Terms(i, c.copy, c.ledger)]]
      /\ UNCHANGED <<now, users, job, items, marks, cancelled, trial_days>>
  BY DEF do_update_plan, clock, stripe
<1>2. i \in Live(plans) /\ i \in DOMAIN plans /\ now \in Int /\ Sound(plans, ledger)
  BY <1>1, CurrentPlan DEF Uncrossed
<1> HIDE DEF i
<1>3. /\ Cycled(plans, ledger, i, now, c) /\ Sound(c.plans, c.ledger) /\ c.copy = c.plans[i]
      /\ DOMAIN plans \subseteq DOMAIN c.plans /\ Advances(plans, ledger, c.plans, c.ledger)
  <2> HIDE DEF c
  <2> QED BY <1>2, CycleWrites, CycleKeepsSound DEF c
<1>4. Requested(i, c) BY <1>1, <1>2, <1>3 DEF Requested
<1> HIDE DEF c
<1>5. c.new = 0 /\ c.last # 0 => i \in Live(c.plans)
  BY <1>2, <1>3 DEF Cycled, Stays, GoesOn, Starts, Switched, Ends, Live, Written, LiveStatuses
<1> QED BY <1>1, <1>3, <1>4, <1>5 DEF Noted

LEMMA TxNoted ==
  ASSUME TxSound, NEW t \in Transactions, NEW request, NEW i, NEW c,
         tx' = tx \/ Noted(t, request, i, c), NEW u \in Transactions
  PROVE  /\ tx'[u] = tx[u] \/ (Noted(t, request, i, c) /\ tx'[u].kind = "request" /\ u = t)
         /\ DOMAIN tx' = Transactions
  BY DEF TxSound, Noted

(* A trial may have become active meanwhile. *)
LEMMA NotedTyped ==
  ASSUME NEW t \in Transactions, NEW request \in Requests, NEW i, NEW c, Requested(i, c),
         Noted(t, request, i, c), DOMAIN tx = Transactions, Sound(plans, ledger)
  PROVE  RequestTyped(tx'[t])
<1>1. /\ tx'[t] = [kind |-> "request", request |-> request, plan |-> i,
                   copy |-> c.plans[i], terms |-> Terms(i, c.plans[i], c.ledger)]
      /\ request \in Offered(plans[i])
  BY DEF Noted
<1>2. i \in DOMAIN plans /\ plans \in Seq(Row) /\ i # 0 /\ c.plans[i] \in Row
  BY DEF Requested, Live, Sound, TablesTyped
<1>3. \/ c.plans[i].status = plans[i].status
      \/ plans[i].status = "FREE_TRIAL" /\ c.plans[i].status = "ACTIVE"
  BY <1>2, CycleStatus DEF Requested, Noted, Live
<1>4. plans[i].status # "SWITCH_PLAN_TIER_NOW" BY <1>1 DEF Offered, Switches
<1>5. c.plans[i].status = plans[i].status => request \in Offered(c.plans[i])
  <2>1. CASE plans[i].status = "ACTIVE" BY <1>1, <2>1 DEF Offered
  <2>2. CASE plans[i].status # "ACTIVE" BY <1>1, <2>2 DEF Offered
  <2> QED BY <2>1, <2>2
<1>6. plans[i].status = "FREE_TRIAL" =>
        request \in Schedules \cup {"ENDED", "DOWNGRADE_AT_END_OF_FREE_TRIAL"}
  <2> SUFFICES ASSUME plans[i].status = "FREE_TRIAL"
               PROVE  request \in Schedules \cup {"ENDED", "DOWNGRADE_AT_END_OF_FREE_TRIAL"}
    OBVIOUS
  <2>1. request \in {"DOWNGRADE_AT_END_OF_FREE_TRIAL", "ENDED", "monthly", "annual"}
    BY <1>1 DEF Offered, Switches
  <2> QED BY <2>1 DEF Schedules
<1> DEFINE x == tx'[t]
<1>7. /\ x.plan = i /\ x.copy = c.plans[i] /\ x.request = request
      /\ x.terms.status = x.copy.status /\ x.terms.schedule = x.copy.schedule
  BY <1>1 DEF Terms
<1> HIDE DEF x
<1>8. RequestTyped(x) BY <1>2, <1>3, <1>4, <1>5, <1>6, <1>7 DEF RequestTyped
<1> QED BY <1>8 DEF x

LEMMA UpdatePlanSound ==
  ASSUME Uncrossed, NEW t \in Transactions, NEW request \in Requests, do_update_plan(t, request)
  PROVE  Uncrossed' /\ Advances(plans, ledger, plans', ledger')
<1>1. PICK i, c : Requested(i, c) /\ (tx' = tx \/ Noted(t, request, i, c))
  BY UpdatePlanRenews
<1>2. TxSound' BY <1>1, TxNoted, NotedTyped DEF Uncrossed, TxSound
<1> QED BY <1>1, <1>2, UpdatePlanRenews, TablesWritten DEF Requested, Uncrossed, clock

(* Then it writes what was asked for. *)
LEMMA UpdateWrites ==
  ASSUME Uncrossed, ~crossed', crossed \in BOOLEAN, NEW t \in Transactions,
         NEW request \in Requests, FinishUpdate(t, request)
  PROVE  UNCHANGED <<plans, ledger, marks, cancelled>> \/ \E i, y : UpdatedBy(request, i, y)
<1> DEFINE y == tx[t]
           i == y.plan
           licenses == ledger[Latest(EntriesOf(ledger, i))].atRenewal
           row == DowngradedNow(plans[i], i, ledger)
           qs == [plans EXCEPT ![i].status = request]
<1> SUFFICES ASSUME WriteUpdate(y, request) PROVE UpdatedBy(request, i, y)
  BY DEF FinishUpdate, tables
<1>1. /\ y.kind = "request" /\ y.request = request /\ RequestTyped(y) /\ Accepted(y.copy, request)
      /\ i = get_current_plan(plans) /\ Terms(i, plans[i], ledger) = y.terms
      /\ request \in Schedules => plans[i] = y.copy
  BY DEF FinishUpdate, WriteUpdate, Overtaken, Uncrossed, TxSound
<1>2. /\ request = "ENDED" =>
           /\ plans' = [plans EXCEPT ![i] = row] /\ ledger' = ledger
           /\ marks' = marks \cup {Mark("cut", i)} /\ cancelled' = cancelled
      /\ request \in Schedules =>
           /\ plans' = Rescheduled(plans, i, y.copy, request, Len(ledger) + 1)
           /\ ledger' = Append(ledger,
                 Entry(Len(plans) + 1, TRUE, y.copy.anchor, licenses, licenses))
           /\ marks' = marks \cup {Mark("cut", i), Mark("trial", Len(plans'))}
           /\ cancelled' = cancelled
      /\ request # "ENDED" /\ request \notin Schedules =>
           /\ plans' = qs /\ ledger' = ledger /\ marks' = marks
           /\ request \in Downgrades => cancelled' = get_next_billing_cycle(i, plans[i], ledger)
           /\ request \in {"ACTIVE", "FREE_TRIAL"} => cancelled' = None
           /\ request \in Switches => cancelled' = cancelled
  BY DEF WriteUpdate, Downgrades, Switches, Schedules
<1>3. /\ plans[i].status = y.copy.status /\ plans[i].schedule = y.copy.schedule
      /\ i \in Live(plans) /\ i \in DOMAIN plans /\ plans[i] \in Row /\ Sound(plans, ledger)
      /\ plans \in Seq(Row) /\ ledger \in Seq(LedgerRow) /\ Len(plans) + 1 \in Nat
      /\ Len(ledger) + 1 \in Nat
  <2>1. i # 0 /\ y.terms.status = y.copy.status /\ y.terms.schedule = y.copy.schedule
    BY <1>1 DEF RequestTyped
  <2>2. plans[i].status = y.terms.status /\ plans[i].schedule = y.terms.schedule
    <3> HIDE DEF i, y
    <3> QED BY <1>1 DEF Terms
  <2> QED BY <1>1, <2>1, <2>2, CurrentPlan DEF Uncrossed, Sound, TablesTyped
<1> HIDE DEF i
<1>4. /\ y \in {tx[u] : u \in Transactions}
      /\ \/ request \in Offered(y.copy)
         \/ /\ y.copy.status = "ACTIVE"
            /\ request \in Schedules \cup {"ENDED", "DOWNGRADE_AT_END_OF_FREE_TRIAL"}
      /\ y.copy.status # "SWITCH_PLAN_TIER_NOW"
  BY <1>1 DEF RequestTyped
<1> HIDE DEF y
<1>5. CASE request = "ENDED"
  <2>1. row \in Row /\ row.status = "ENDED"
    BY <1>3, DowngradedTyped DEF Sound
  <2>2. row = DowngradedNow(plans[i], i, ledger) OBVIOUS
  <2> HIDE DEF row
  <2>3. Written(plans, i, row, plans')
    BY <1>2, <1>3, <1>5, <2>1, ExceptWrites
  <2>4. CutOff(i, row) BY <1>2, <1>5, <2>1, <2>2, <2>3 DEF CutOff
  <2> QED BY <1>1, <1>3, <1>4, <2>4 DEF UpdatedBy
<1>6. CASE request \in Schedules
  <2> DEFINE old == [plans[i] EXCEPT !.status = "ENDED", !.next = None]
             new == Plan("FREE_TRIAL", request, plans[i].anchor, plans[i].next,
                         Len(ledger) + 1, "DONE")
             os == [plans EXCEPT ![i] = old]
             x == Entry(Len(plans) + 1, TRUE, plans[i].anchor, licenses, licenses)
  <2>1. plans[i].status \in {"FREE_TRIAL", "ACTIVE"}
    <3> HIDE DEF qs, row, licenses, old, new, os, x
    <3> QED BY <1>3, <1>4, <1>6 DEF Offered, Schedules, Switches
  <2>2. licenses \in Int
    <3>1. Latest(EntriesOf(ledger, i)) \in DOMAIN ledger
      BY <1>3, LatestOfPlan DEF EntriesOf
    <3>2. ledger[Latest(EntriesOf(ledger, i))] \in LedgerRow BY <1>3, <3>1
    <3> QED BY <3>2 DEF LedgerRow
  <2>3. /\ old \in Row /\ old.status = "ENDED" /\ old.anchor = plans[i].anchor
        /\ old.schedule = plans[i].schedule /\ old.through = plans[i].through
        /\ old.invoicing = plans[i].invoicing
    BY <1>3 DEF Row
  <2>4. /\ new \in Row /\ new.status = "FREE_TRIAL" /\ new.anchor = plans[i].anchor
        /\ new.next = plans[i].next /\ new.through = Len(ledger) + 1 /\ new.invoicing = "DONE"
    BY <1>3, <1>6 DEF Row, Plan, LiveStatuses, Trials
  <2>5. plans' = Append(os, new) /\ ledger' = Append(ledger, x)
    <3>1. os = [plans EXCEPT ![i].status = "ENDED", ![i].next = None]
      BY <1>3
    <3> QED BY <1>1, <1>2, <1>6, <3>1 DEF Rescheduled
  <2>6. licenses = ledger[Latest(EntriesOf(ledger, i))].atRenewal OBVIOUS
  <2> HIDE DEF licenses
  <2>7. /\ x \in LedgerRow /\ x.renewal /\ x.plan = Len(plans) + 1 /\ x.time = plans[i].anchor
        /\ x.atRenewal = licenses
    <3>1. plans[i].anchor \in Nat BY <1>3 DEF Row
    <3> QED BY <1>3, <2>2, <3>1 DEF Entry, LedgerRow
  <2>8. marks' = marks \cup {Mark("cut", i), Mark("trial", Len(plans'))} /\ cancelled' = cancelled
    BY <1>2, <1>6
  <2> HIDE DEF old, new, x, row, qs
  <2>9. Written(plans, i, old, os) /\ os[i] = old
    <3>1. Written(plans, i, old, os) BY <1>3, <2>3, ExceptWrites
    <3> QED BY <3>1 DEF Written
  <2> HIDE DEF os
  <2>10. Len(plans') = Len(plans) + 1
    <3>1. os \in Seq(Row) /\ DOMAIN os = DOMAIN plans BY <2>9 DEF Written
    <3> QED BY <1>3, <2>4, <2>5, <3>1
  <2>11. ScheduleChanged(i, os, new, x)
    BY <1>3, <2>1, <2>3, <2>4, <2>5, <2>6, <2>7, <2>8, <2>9, <2>10 DEF ScheduleChanged
  <2> QED BY <1>1, <1>3, <1>4, <1>6, <2>11 DEF UpdatedBy
<1>7. CASE request # "ENDED" /\ request \notin Schedules
  <2> DEFINE new == [plans[i] EXCEPT !.status = request]
  <2>1. /\ plans' = qs /\ ledger' = ledger /\ marks' = marks
        /\ plans[i].status \in LiveStatuses
    BY <1>2, <1>3, <1>7 DEF Live
  <2>2. /\ request \in LiveStatuses /\ request # "SWITCH_PLAN_TIER_NOW"
        /\ request \in Downgrades \cup {"ACTIVE", "FREE_TRIAL"} \cup Switches
    BY <1>7 DEF Requests, LiveStatuses, Trials, Switches, Downgrades
  <2>3. /\ new \in Row /\ new.status = request /\ new.next = plans[i].next
        /\ new.anchor = plans[i].anchor /\ new.schedule = plans[i].schedule
        /\ new.through = plans[i].through /\ new.invoicing = plans[i].invoicing
    BY <1>3, <2>2 DEF Row
  <2>4. plans' = [plans EXCEPT ![i] = new] BY <1>3, <2>1
  <2>5. /\ request \in Downgrades => cancelled' = CycleOf(plans, ledger, i)
        /\ request \in {"ACTIVE", "FREE_TRIAL"} => cancelled' = None
        /\ request \in Switches => cancelled' = cancelled
    BY <1>2, <1>7 DEF CycleOf
  <2>6. /\ plans[i].status # "SWITCH_PLAN_TIER_NOW"
        /\ request \in Trials <=> plans[i].status \in Trials
        /\ request \in Switches => plans[i].status \notin Downgrades
    <3> DEFINE status == y.copy.status
    <3> HIDE DEF qs, row, licenses, new
    <3>1. CASE request \notin Offered(y.copy)
      BY <1>1, <1>3, <1>4, <1>7, <3>1 DEF Accepted
    <3>2. CASE request \in Offered(y.copy)
      <4>1. \/ status = "FREE_TRIAL" /\ request = "DOWNGRADE_AT_END_OF_FREE_TRIAL"
            \/ status = "DOWNGRADE_AT_END_OF_FREE_TRIAL" /\ request = "FREE_TRIAL"
            \/ status = "ACTIVE" /\ request \in Switches \cup {"DOWNGRADE_AT_END_OF_CYCLE"}
            \/ status \in Switches \cup {"DOWNGRADE_AT_END_OF_CYCLE"} /\ request = "ACTIVE"
        BY <1>7, <3>2 DEF Offered, Schedules
      <4> QED BY <1>3, <1>4, <4>1 DEF Trials, LiveStatuses, Downgrades, Switches
    <3> QED BY <3>1, <3>2
  <2>7. request = "SWITCH_TO_MONTHLY_AT_END_OF_CYCLE" => plans[i].schedule = "annual"
    BY <1>1, <1>3 DEF Accepted
  <2>8. new = [plans[i] EXCEPT !.status = request] OBVIOUS
  <2> HIDE DEF new, qs, row, licenses
  <2>9. Written(plans, i, new, plans') BY <1>3, <2>3, <2>4, ExceptWrites
  <2>10. StatusChanged(request, i, new)
    BY <1>3, <2>1, <2>2, <2>3, <2>5, <2>6, <2>7, <2>8, <2>9 DEF StatusChanged
  <2> QED BY <1>1, <1>3, <1>4, <2>10 DEF UpdatedBy
<1> QED BY <1>5, <1>6, <1>7

LEMMA ScheduleChangedFacts ==
  ASSUME NEW i, Sound(plans, ledger), NEW os, NEW new, NEW x, ScheduleChanged(i, os, new, x)
  PROVE  /\ EndsIn(plans, ledger, i, os) /\ os \in Seq(Row) /\ DOMAIN os = DOMAIN plans
         /\ Live(os) = {} /\ Len(os) = Len(plans)
         /\ DOMAIN plans' = DOMAIN os \cup {x.plan} /\ plans'[x.plan] = new
         /\ \A j \in DOMAIN os : plans'[j] = os[j]
         /\ x.plan \in Live(plans') /\ \A j \in Live(plans') : j = x.plan
<1>1. i \in Live(plans) /\ EndsIn(plans, ledger, i, os)
  BY DEF ScheduleChanged, EndsIn
<1>2. os \in Seq(Row) /\ DOMAIN os = DOMAIN plans /\ Live(os) = {} /\ Len(os) = Len(plans)
  BY <1>1, EndsInFacts
<1>3. plans' = Append(os, new) /\ new \in Row /\ new.status = "FREE_TRIAL" /\ x.plan = Len(os) + 1
  BY <1>2 DEF ScheduleChanged
<1>4. /\ DOMAIN plans' = DOMAIN os \cup {x.plan} /\ plans'[x.plan] = new
      /\ \A j \in DOMAIN os : plans'[j] = os[j]
  BY <1>2, <1>3, RowAppended
<1>5. x.plan \in Live(plans') /\ \A j \in Live(plans') : j = x.plan
  BY <1>2, <1>3, <1>4 DEF Live, Trials, LiveStatuses
<1> QED BY <1>1, <1>2, <1>4, <1>5

LEMMA FinishUpdateSound ==
  ASSUME Uncrossed, ~crossed', crossed \in BOOLEAN, NEW t \in Transactions,
         NEW request \in Requests, FinishUpdate(t, request)
  PROVE  Uncrossed' /\ Advances(plans, ledger, plans', ledger')
<1>1. UNCHANGED <<clock, users, job>> /\ TxSound' /\ users' \in Int
  BY TxFreed DEF FinishUpdate, Uncrossed
<1>2. Sound(plans, ledger) /\ plans \in Seq(Row) /\ ledger \in Seq(LedgerRow)
  BY DEF Uncrossed, Sound, TablesTyped
<1>3. ASSUME Sound(plans', ledger') /\ Advances(plans, ledger, plans', ledger')
      PROVE  Uncrossed' /\ Advances(plans, ledger, plans', ledger')
  BY <1>1, <1>3, TablesWritten
<1>4. CASE UNCHANGED <<plans, ledger, marks, cancelled>>
  BY <1>2, <1>3, <1>4, StayingAdvances
<1> SUFFICES ASSUME NEW i, NEW y, UpdatedBy(request, i, y)
             PROVE  Uncrossed' /\ Advances(plans, ledger, plans', ledger')
  BY <1>4, UpdateWrites
<1>5. i \in DOMAIN plans /\ plans[i] \in Row BY <1>2 DEF UpdatedBy, Live
<1>6. CASE \E row : CutOff(i, row)
  <2>1. PICK row : CutOff(i, row) BY <1>6
  <2>2. plans' = [plans EXCEPT ![i] = row] /\ row = DowngradedNow(plans[i], i, ledger)
    BY <1>2, <1>5, <2>1, WrittenIs DEF CutOff
  <2>3. Sound(plans', ledger) /\ Advances(plans, ledger, plans', ledger)
    BY <1>2, <1>5, <2>2, DowngradeKeepsSound
  <2> QED BY <1>3, <2>1, <2>3 DEF CutOff
<1>7. CASE \E os, new, x : ScheduleChanged(i, os, new, x)
  <2>1. PICK os, new, x : ScheduleChanged(i, os, new, x) BY <1>7
  <2>0. i \in Live(plans) /\ EndsIn(plans, ledger, i, os)
    BY <2>1 DEF ScheduleChanged, EndsIn
  <2>2. os \in Seq(Row) /\ Live(os) = {} /\ Len(os) = Len(plans)
    BY <1>2, <2>0, EndsInFacts
  <2>6. plans[i].next # None BY <1>2, <2>0 DEF Sound, LiveAreInvoiced
  <2>3. /\ plans' = Append(os, new) /\ new \in Row /\ new.next # None /\ new.invoicing = "DONE"
        /\ ledger' = Append(ledger, x) /\ x \in LedgerRow /\ x.plan = Len(os) + 1 /\ x.renewal
    BY <2>1, <2>2, <2>6 DEF ScheduleChanged
  <2>4. Sound(os, ledger) /\ Advances(plans, ledger, os, ledger)
    BY <1>2, <1>5, <2>0, EndsInKeepsSound
  <2>5. Sound(plans', ledger') /\ Advances(os, ledger, plans', ledger')
    BY <1>2, <2>2, <2>3, <2>4, PlanKeepsSound, PlanAdvances
  <2> QED BY <1>3, <2>4, <2>5, StillAdvances
<1>8. CASE \E row : StatusChanged(request, i, row)
  <2>1. PICK row : StatusChanged(request, i, row) BY <1>8
  <2>2. plans' = [plans EXCEPT ![i] = row] /\ ledger' = ledger
    BY <1>2, <1>5, <2>1, WrittenIs DEF StatusChanged
  <2>3. /\ row \in Row /\ i \in Live(plans) /\ row.next # None
        /\ row.invoicing = plans[i].invoicing /\ row.through = plans[i].through
        /\ row.status \in Trials => plans[i].status \in Trials /\ row.next = plans[i].next
    BY <1>2, <2>1 DEF StatusChanged, Sound, LiveAreInvoiced
  <2>4. Sound([plans EXCEPT ![i] = row], ledger)
    BY <1>2, <1>5, <2>3, WriteKeepsSound
  <2>5. Advances(plans, ledger, [plans EXCEPT ![i] = row], ledger)
    BY <1>2, <1>5, <2>3, PlainWriteAdvances
  <2> QED BY <1>3, <2>2, <2>4, <2>5
<1> QED BY <1>6, <1>7, <1>8 DEF UpdatedBy

-----------------------------------------------------------------------------
(* The invoicing job keeps the tables sound. *)

(* Steps of the job that leave the tables alone. *)
LEMMA JobChanged ==
  ASSUME Uncrossed, UNCHANGED <<tables, tx, clock, users>>, JobSound'
  PROVE  Uncrossed'
  BY DEF Uncrossed, TxSound, tables, clock

LEMMA IdleSound ==
  ASSUME Uncrossed, UNCHANGED now, job' = NoJob PROVE JobSound'
  BY DEF Uncrossed, JobSound, NoJob, None

(* Steps of the job that write the tables. *)
LEMMA JobWritten ==
  ASSUME Uncrossed, UNCHANGED <<tx, clock, users>>, Sound(plans', ledger'), JobSound'
  PROVE  Uncrossed'
  BY DEF Uncrossed, TxSound, clock

LEMMA StartJobSound ==
  ASSUME Uncrossed, invoice_plans_as_needed PROVE Uncrossed'
<1> DEFINE copies == {Copy(i, plans) : i \in Due}
<1>1. /\ job' = [NoJob EXCEPT !.step = "cycle", !.until = now, !.copies = copies] /\ Due # {}
      /\ UNCHANGED <<tables, tx, clock, users>>
  BY DEF invoice_plans_as_needed
<1>2. \A c \in copies : c.id \in DOMAIN plans BY DEF Copy, Due
<1>3. copies # {} BY <1>1
<1> HIDE DEF copies
<1>4. JobSound'
  BY <1>1, <1>2, <1>3 DEF Uncrossed, JobSound, NoJob, tables, clock
<1> QED BY <1>1, <1>4, JobChanged

LEMMA TierChangeSound ==
  ASSUME Uncrossed, do_change_plan_to_new_tier
  PROVE  Uncrossed' /\ Advances(plans, ledger, plans', ledger')
<1> DEFINE i == get_current_plan(plans)
           row == [plans[i] EXCEPT !.status = "SWITCH_PLAN_TIER_NOW", !.next = now]
<1>1. /\ plans' = [plans EXCEPT ![i].status = "SWITCH_PLAN_TIER_NOW", ![i].next = now]
      /\ job' = [NoJob EXCEPT !.step = "switch", !.copies = {Copy(i, plans')}, !.until = now,
                              !.tier = TRUE]
      /\ i # 0 /\ UNCHANGED <<clock, users, ledger, tx>>
  BY DEF do_change_plan_to_new_tier
<1>2. i \in Live(plans) /\ i \in DOMAIN plans
  BY <1>1, CurrentPlan DEF Uncrossed
<1> HIDE DEF i
<1>3. plans \in Seq(Row) /\ plans[i] \in Row /\ now \in Nat /\ now # None
  BY <1>2 DEF Uncrossed, Sound, TablesTyped, None
<1>4. plans' = [plans EXCEPT ![i] = row] BY <1>1
<1>5. /\ row \in Row /\ row.next # None /\ row.status = "SWITCH_PLAN_TIER_NOW"
      /\ row.invoicing = plans[i].invoicing /\ row.through = plans[i].through
  BY <1>3 DEF Row, LiveStatuses
<1> HIDE DEF row
<1>6. Sound(plans', ledger') /\ DOMAIN plans' = DOMAIN plans /\ plans'[i] = row
  <2>1. Sound([plans EXCEPT ![i] = row], ledger)
    BY <1>2, <1>5, WriteKeepsSound DEF Uncrossed
  <2>2. DOMAIN plans' = DOMAIN plans /\ plans'[i] = row
    BY <1>2, <1>3, <1>4, <1>5, RowWritten
  <2> QED BY <1>1, <1>4, <2>1, <2>2
<1>7. JobSound'
  <2> DEFINE c == Copy(i, plans')
  <2>1. c.id \in DOMAIN plans' /\ c.row.status = "SWITCH_PLAN_TIER_NOW"
    BY <1>2, <1>5, <1>6 DEF Copy
  <2>2. job' = [NoJob EXCEPT !.step = "switch", !.copies = {c}, !.until = now, !.tier = TRUE]
    BY <1>1
  <2>3. now \in Nat /\ now' = now BY <1>1, <1>3 DEF clock
  <2> HIDE DEF c
  <2> QED BY <2>1, <2>2, <2>3 DEF JobSound, NoJob
<1>8. Advances(plans, ledger, plans', ledger')
  <2>1. row.status \notin Trials BY <1>5 DEF Trials
  <2>2. Advances(plans, ledger, [plans EXCEPT ![i] = row], ledger)
    BY <1>2, <1>3, <1>5, <2>1, PlainWriteAdvances
  <2> QED BY <1>1, <1>4, <2>2
<1> QED BY <1>1, <1>6, <1>7, <1>8, JobWritten

(* The job has changed its copy of the plan that is being invoiced. *)
LEMMA CopyReplaced ==
  ASSUME Uncrossed, job.step # "idle", NEW row
  PROVE  /\ Replaced(row) # {}
         /\ \A c \in Replaced(row) : c.id \in DOMAIN plans
         /\ First \in job.copies /\ First.id \in DOMAIN plans
<1>1. First \in job.copies /\ First.id \in DOMAIN plans
  BY FirstIsCopy DEF Uncrossed, JobSound
<1> DEFINE new == [id |-> First.id, row |-> row]
<1>2. new.id \in DOMAIN plans BY <1>1
<1>3. Replaced(row) = (job.copies \ {First}) \cup {new} BY DEF Replaced
<1>4. \A c \in job.copies : c.id \in DOMAIN plans BY DEF Uncrossed, JobSound
<1> HIDE DEF new
<1> QED BY <1>1, <1>2, <1>3, <1>4

LEMMA SwitchTierWrites ==
  ASSUME Uncrossed, switch_plan_tier
  PROVE  /\ First \in job.copies /\ First.row.status = "SWITCH_PLAN_TIER_NOW"
         /\ ~crossed' /\ crossed \in BOOLEAN =>
              /\ plans[First.id] = First.row /\ First.id \in Live(plans)
              /\ \E os, new, e : TierSwitched(First.id, os, new, e)
         /\ job.step = "switch" /\ job'.step = "cycle" /\ job'.entries = job.entries
         /\ job' = [job EXCEPT !.step = "cycle",
                               !.copies = Replaced([First.row EXCEPT !.status = "ENDED"])]
         /\ job'.copies = Replaced([First.row EXCEPT !.status = "ENDED"])
         /\ job'.until = job.until /\ ("tier" \in DOMAIN job => job'.tier = job.tier)
         /\ "tier" \in DOMAIN job => "tier" \in DOMAIN job'
<1> DEFINE c == First
           i == c.id
           licenses == ledger[Latest(EntriesOf(ledger, i))].atRenewal
           new == Plan("ACTIVE", c.row.schedule, c.row.next, c.row.next, 0, "INITIAL")
           e == Entry(Len(plans) + 1, TRUE, c.row.next, licenses, licenses)
           old == [plans[i] EXCEPT !.status = "ENDED"]
           os == [plans EXCEPT ![i] = old]
           copies == Replaced([c.row EXCEPT !.status = "ENDED"])
<1>1. /\ plans' = Append(os, new) /\ ledger' = Append(ledger, e) /\ job.step = "switch"
      /\ job' = [job EXCEPT !.step = "cycle", !.copies = copies]
      /\ ~crossed' /\ crossed \in BOOLEAN => plans[i] = c.row
  BY DEF switch_plan_tier, Ended
<1>2. c \in job.copies /\ i \in DOMAIN plans BY <1>1, CopyReplaced
<1>3. c.row.status = "SWITCH_PLAN_TIER_NOW"
  BY <1>1, <1>2 DEF Uncrossed, JobSound
<1> HIDE DEF copies
<1>4. /\ job'.step = "cycle" /\ job'.entries = job.entries /\ job'.copies = copies
      /\ job'.until = job.until /\ ("tier" \in DOMAIN job => job'.tier = job.tier)
      /\ "tier" \in DOMAIN job => "tier" \in DOMAIN job'
  BY <1>1 DEF Uncrossed, JobSound
<1>5. ASSUME plans[i] = c.row
      PROVE  i \in Live(plans) /\ \E rs, row, x : TierSwitched(i, rs, row, x)
  <2> HIDE DEF c, i
  <2>1. /\ plans \in Seq(Row) /\ ledger \in Seq(LedgerRow) /\ plans[i] \in Row
        /\ Len(plans) \in Nat /\ Sound(plans, ledger)
    BY <1>2 DEF Uncrossed, Sound, TablesTyped
  <2>2. i \in Live(plans) BY <1>2, <1>3, <1>5 DEF Live, LiveStatuses
  <2>3. plans[i].next \in Nat BY <2>1, <2>2, TimesTyped
  <2>4. licenses \in Int
    <3>1. Latest(EntriesOf(ledger, i)) \in DOMAIN ledger
      BY <1>2, <2>1, LatestOfPlan DEF EntriesOf
    <3>2. ledger[Latest(EntriesOf(ledger, i))] \in LedgerRow BY <2>1, <3>1
    <3> QED BY <3>2 DEF LedgerRow
  <2>5. licenses = ledger[Latest(EntriesOf(ledger, i))].atRenewal OBVIOUS
  <2> HIDE DEF licenses
  <2>6. /\ new \in Row /\ new.status = "ACTIVE" /\ new.anchor = plans[i].next
        /\ new.next = plans[i].next
    BY <1>5, <2>1, <2>3 DEF Plan, Row, LiveStatuses
  <2>7. /\ e \in LedgerRow /\ e.plan = Len(plans) + 1 /\ e.renewal /\ e.time = plans[i].next
        /\ e.atRenewal = licenses
    BY <1>5, <2>1, <2>3, <2>4 DEF Entry, LedgerRow
  <2>8. /\ old \in Row /\ old.status = "ENDED" /\ old.anchor = plans[i].anchor
        /\ old.schedule = plans[i].schedule /\ old.through = plans[i].through
        /\ old.invoicing = plans[i].invoicing
    BY <2>1 DEF Row
  <2> HIDE DEF new, e, old
  <2>9. Written(plans, i, old, os) /\ os[i] = old
    <3>1. Written(plans, i, old, os) BY <1>2, <2>1, <2>8, ExceptWrites
    <3> QED BY <3>1 DEF Written
  <2> HIDE DEF os
  <2>10. TierSwitched(i, os, new, e)
    BY <1>1, <2>5, <2>6, <2>7, <2>8, <2>9 DEF TierSwitched
  <2> QED BY <2>2, <2>10
<1> QED BY <1>1, <1>2, <1>3, <1>4, <1>5 DEF copies

LEMMA TierSwitchedFacts ==
  ASSUME Uncrossed, NEW i \in Live(plans), NEW os, NEW new, NEW e, TierSwitched(i, os, new, e)
  PROVE  /\ EndsIn(plans, ledger, i, os) /\ os \in Seq(Row) /\ DOMAIN os = DOMAIN plans
         /\ Live(os) = {} /\ Len(os) = Len(plans) /\ Len(plans) \in Nat /\ Sound(plans, ledger)
         /\ plans \in Seq(Row) /\ ledger \in Seq(LedgerRow) /\ i \in DOMAIN plans
         /\ plans[i].next \in Nat /\ plans[i] \in Row
         /\ DOMAIN plans' = DOMAIN os \cup {e.plan} /\ plans'[e.plan] = new
         /\ \A j \in DOMAIN os : plans'[j] = os[j]
         /\ e.plan \in Live(plans') /\ plans'[e.plan].status \notin Trials
         /\ \A j \in Live(plans') : j = e.plan
<1>1. /\ Sound(plans, ledger) /\ plans \in Seq(Row) /\ ledger \in Seq(LedgerRow)
      /\ i \in DOMAIN plans /\ plans[i].next \in Nat /\ plans[i] \in Row /\ Len(plans) \in Nat
  BY TimesTyped DEF Uncrossed, Sound, TablesTyped
<1>2. EndsIn(plans, ledger, i, os) BY DEF TierSwitched, EndsIn
<1>3. os \in Seq(Row) /\ DOMAIN os = DOMAIN plans /\ Live(os) = {} /\ Len(os) = Len(plans)
  BY <1>1, <1>2, EndsInFacts
<1>4. /\ plans' = Append(os, new) /\ new \in Row /\ new.status = "ACTIVE"
      /\ e.plan = Len(os) + 1
  BY <1>3 DEF TierSwitched
<1>5. /\ DOMAIN plans' = DOMAIN os \cup {e.plan} /\ plans'[e.plan] = new
      /\ \A j \in DOMAIN os : plans'[j] = os[j]
  BY <1>3, <1>4, RowAppended
<1>6. /\ e.plan \in Live(plans') /\ plans'[e.plan].status \notin Trials
      /\ \A j \in Live(plans') : j = e.plan
  BY <1>3, <1>4, <1>5 DEF Live, Trials, LiveStatuses
<1> QED BY <1>1, <1>2, <1>3, <1>5, <1>6

LEMMA SwitchTierSound ==
  ASSUME Uncrossed, ~crossed', crossed \in BOOLEAN, switch_plan_tier
  PROVE  Uncrossed' /\ Advances(plans, ledger, plans', ledger')
<1> DEFINE copies == Replaced([First.row EXCEPT !.status = "ENDED"])
<1>1. First.id \in Live(plans) /\ job' = [job EXCEPT !.step = "cycle", !.copies = copies]
  BY SwitchTierWrites
<1>2. job.step = "switch" /\ UNCHANGED <<clock, users, tx>>
  BY DEF switch_plan_tier
<1>3. copies # {} /\ \A d \in copies : d.id \in DOMAIN plans
  BY <1>2, CopyReplaced
<1> HIDE DEF copies
<1>4. PICK os, new, e : TierSwitched(First.id, os, new, e)
  BY SwitchTierWrites
<1>5. /\ Live(os) = {} /\ os \in Seq(Row) /\ ledger \in Seq(LedgerRow) /\ Len(os) = Len(plans)
      /\ plans[First.id].next \in Nat /\ EndsIn(plans, ledger, First.id, os)
      /\ Sound(plans, ledger) /\ First.id \in DOMAIN plans
  BY <1>1, <1>4, TierSwitchedFacts
<1>6. /\ plans' = Append(os, new) /\ new \in Row /\ new.next # None /\ new.status = "ACTIVE"
      /\ ledger' = Append(ledger, e) /\ e \in LedgerRow /\ e.plan = Len(os) + 1 /\ e.renewal
      /\ Sound(os, ledger) /\ Advances(plans, ledger, os, ledger)
  BY <1>4, <1>5, EndsInKeepsSound DEF TierSwitched, None
<1>7. Sound(plans', ledger') /\ Advances(os, ledger, plans', ledger')
  BY <1>5, <1>6, PlanKeepsSound, PlanAdvances DEF Trials
<1>8. Advances(plans, ledger, plans', ledger') BY <1>6, <1>7, StillAdvances
<1>9. JobSound'
  BY <1>1, <1>2, <1>3, <1>8 DEF Uncrossed, JobSound, Advances, clock
<1> QED BY <1>2, <1>7, <1>8, <1>9, JobWritten

(* The time as of which a plan is invoiced has come. *)
LEMMA EventTimeTyped ==
  ASSUME Uncrossed, NEW i \in DOMAIN plans, NEW row, row = plans[i]
  PROVE  /\ Min({row.next, job.until}) \in Int
         /\ Min({row.next, job.until}) <= row.next
         /\ Min({row.next, job.until}) <= now
<1>1. row.next \in Int /\ job.until \in Int /\ job.until <= now /\ now \in Int
  <2>1. plans[i] \in Row BY DEF Uncrossed, Sound, TablesTyped
  <2> QED BY <2>1 DEF Uncrossed, JobSound, Row, None
<1> DEFINE a == row.next
           b == job.until
<1>2. a \in Int /\ b \in Int /\ b <= now /\ now \in Int BY <1>1
<1> HIDE DEF a, b
<1>3. Min({a, b}) \in {a, b} /\ \A y \in {a, b} : Min({a, b}) <= y
  <2>1. \E x \in {a, b} : \A y \in {a, b} : x <= y BY <1>2
  <2> QED BY <2>1 DEF Min
<1>4. Min({a, b}) \in Int /\ Min({a, b}) <= a /\ Min({a, b}) <= now
  BY <1>2, <1>3
<1> QED BY <1>4 DEF a, b

LEMMA BeginInvoicingSound ==
  ASSUME Uncrossed, ~crossed', crossed \in BOOLEAN, BeginInvoicing
  PROVE  Uncrossed' /\ Advances(plans, ledger, plans', ledger')
<1> DEFINE c == First
           event_time == Min({c.row.next, job.until})
           m == make_end_of_cycle_updates_if_needed(
                    Reading(c.id, c.row, event_time, ledger), plans, ledger)
           row == m.copy
           left == {e \in EntriesOf(m.ledger, c.id) :
                      /\ row.invoicing = "INITIAL" \/ e > row.through
                      /\ m.ledger[e].time <= event_time}
           base == IF row.invoicing = "INITIAL" THEN None ELSE ledger[row.through].licenses
           copies == Replaced(row)
<1>1. job.step = "cycle" /\ UNCHANGED <<clock, users, tx>>
  BY DEF BeginInvoicing
<1>2. CASE c.row.invoicing = "STARTED"
  <2>1. job' = NoJob /\ UNCHANGED tables BY <1>2 DEF BeginInvoicing
  <2> QED BY <1>1, <2>1, IdleSound, JobChanged, StayingAdvances DEF tables, clock
<1>3. CASE c.row.invoicing # "STARTED"
  <2>1. /\ plans' = m.plans /\ ledger' = m.ledger /\ plans[c.id] = c.row
        /\ job' = [job EXCEPT !.step = "entry", !.copies = copies, !.made = FALSE,
                              !.entries = left, !.base = base]
    BY <1>3 DEF BeginInvoicing
  <2>2. c.id \in DOMAIN plans /\ copies # {} /\ \A d \in copies : d.id \in DOMAIN plans
    BY <1>1, CopyReplaced
  <2>3. left \subseteq DOMAIN m.ledger BY DEF EntriesOf
  <2> HIDE DEF left, base, copies, c
  <2>4. event_time \in Int BY <2>1, <2>2, EventTimeTyped
  <2> HIDE DEF event_time
  <2>5. m = make_end_of_cycle_updates_if_needed(
                Reading(c.id, plans[c.id], event_time, ledger), plans, ledger)
    BY <2>1
  <2> HIDE DEF m
  <2>6. Sound(m.plans, m.ledger) /\ Advances(plans, ledger, m.plans, m.ledger)
    BY <2>2, <2>4, <2>5, CycleKeepsSound DEF Uncrossed
  <2>7. JobSound'
    BY <1>1, <2>1, <2>2, <2>3, <2>6 DEF Uncrossed, JobSound, Advances, clock
  <2> QED BY <1>1, <2>1, <2>6, <2>7, JobWritten
<1> QED BY <1>2, <1>3

(* What a save of the invoicing status writes. *)
LEMMA SaveInvoicingWrites ==
  ASSUME Uncrossed, NEW status \in {"STARTED", "DONE"}, SaveInvoicing(status),
         job.step # "idle", job.entries # {}
  PROVE  LET i == First.id
             row == SavedAs(plans[i], status)
         IN  /\ i \in DOMAIN plans /\ plans[i] \in Row /\ row \in Row
             /\ row.status = plans[i].status /\ row.next = plans[i].next
             /\ row.anchor = plans[i].anchor /\ row.schedule = plans[i].schedule
             /\ row.through = Min(job.entries) /\ row.invoicing = status
             /\ plans' = [plans EXCEPT ![i] = row] /\ Written(plans, i, row, plans')
             /\ DOMAIN job' = DOMAIN job /\ job'.until = job.until
             /\ job'.copies = Replaced(SavedAs(First.row, status))
             /\ job'.step = IF status = "STARTED" THEN "item" ELSE "entry"
             /\ job'.entries = job.entries \ IF status = "STARTED" THEN {} ELSE {Min(job.entries)}
             /\ "tier" \in DOMAIN job => job'.tier = job.tier
             /\ UNCHANGED <<now, trial_days, users, ledger, tx, cancelled, marks>>
<1> DEFINE i == First.id
           e == Min(job.entries)
           copies == Replaced(SavedAs(First.row, status))
           step == IF status = "STARTED" THEN "item" ELSE "entry"
           entries == IF status = "STARTED" THEN job.entries ELSE job.entries \ {e}
           base == IF status = "STARTED" THEN job.base ELSE ledger[e].licenses
           row == SavedAs(plans[i], status)
<1>1. /\ plans' = [plans EXCEPT ![i].through = e, ![i].invoicing = status]
      /\ job' = [job EXCEPT !.copies = copies, !.step = step, !.entries = entries, !.base = base]
      /\ UNCHANGED <<now, trial_days, users, ledger, tx, cancelled, marks>>
  BY DEF SaveInvoicing, SavedAs, clock
<1>2. i \in DOMAIN plans BY CopyReplaced
<1>3. e \in Nat
  <2>1. job.entries \subseteq Nat
    BY DEF Uncrossed, JobSound, Sound, TablesTyped
  <2> QED BY <2>1, HasMin
<1>4. entries = job.entries \ IF status = "STARTED" THEN {} ELSE {e} OBVIOUS
<1> HIDE DEF i, e, copies, step, entries, base
<1>5. plans \in Seq(Row) /\ plans[i] \in Row
  BY <1>2 DEF Uncrossed, Sound, TablesTyped
<1>6. /\ row \in Row /\ row.status = plans[i].status /\ row.next = plans[i].next
      /\ row.anchor = plans[i].anchor /\ row.schedule = plans[i].schedule
      /\ row.through = e /\ row.invoicing = status
  BY <1>3, <1>5 DEF Row, SavedAs, e
<1>7. plans' = [plans EXCEPT ![i] = row] BY <1>1, <1>2, <1>5 DEF SavedAs, e
<1> HIDE DEF row
<1>8. Written(plans, i, row, plans') BY <1>2, <1>5, <1>6, <1>7, ExceptWrites
<1>9. /\ DOMAIN job' = DOMAIN job /\ job'.until = job.until /\ job'.copies = copies
      /\ job'.step = step /\ job'.entries = entries
      /\ "tier" \in DOMAIN job => job'.tier = job.tier
  BY <1>1 DEF Uncrossed, JobSound
<1> QED BY <1>1, <1>2, <1>4, <1>5, <1>6, <1>7, <1>8, <1>9 DEF i, e, copies, step, row

(* The steps that save a status. *)
LEMMA EntrySaved ==
  ASSUME Uncrossed, StartEntry \/ SkipEntry \/ FinishEntry
  PROVE  \E status \in {"STARTED", "DONE"} :
           /\ SaveInvoicing(status) /\ job.entries # {} /\ UNCHANGED items
           /\ \/ status = "STARTED" /\ job.step = "entry"
              \/ status = "DONE" /\ job.step \in {"entry", "done"}
  BY DEF StartEntry, SkipEntry, FinishEntry, stripe, Uncrossed, JobSound

(* A save of the invoicing status changes nothing else of a plan. *)
LEMMA SaveInvoicingSound ==
  ASSUME Uncrossed, NEW status \in {"STARTED", "DONE"}, SaveInvoicing(status),
         job.step # "idle", job.entries # {}
  PROVE  Uncrossed'
<1> DEFINE i == First.id
           row == SavedAs(plans[i], status)
<1>1. /\ i \in DOMAIN plans /\ row \in Row /\ plans' = [plans EXCEPT ![i] = row]
      /\ row.status \in LiveStatuses => i \in Live(plans) /\ row.next # None
  BY SaveInvoicingWrites DEF Live, Uncrossed, Sound, LiveAreInvoiced
<1> HIDE DEF i, row
<1>2. Sound(plans', ledger) /\ DOMAIN plans' = DOMAIN plans
  BY <1>1, WriteKeepsSound DEF Uncrossed
<1> DEFINE copies == Replaced(SavedAs(First.row, status))
<1>3. copies # {} /\ \A c \in copies : c.id \in DOMAIN plans BY CopyReplaced
<1>4. /\ DOMAIN job' = DOMAIN job /\ job'.copies = copies /\ job'.until = job.until
      /\ job'.step # "switch" /\ job'.entries \subseteq job.entries
      /\ job'.step \in {"item", "done"} => job'.entries # {}
      /\ UNCHANGED <<now, trial_days, users, ledger, tx>>
  BY SaveInvoicingWrites
<1> HIDE DEF copies
<1>5. JobSound' BY <1>2, <1>3, <1>4 DEF Uncrossed, JobSound
<1> QED BY <1>2, <1>4, <1>5, JobWritten DEF clock

LEMMA FinishInvoicingSound ==
  ASSUME Uncrossed, ~crossed', crossed \in BOOLEAN, FinishInvoicing
  PROVE  Uncrossed' /\ Advances(plans, ledger, plans', ledger')
<1> DEFINE c == First
           next == next_invoice_date(c.row)
           again == next # None /\ next <= job.until
           rest == (job.copies \ {c}) \cup (IF again THEN {Copy(c.id, plans')} ELSE {})
           i == get_current_plan(plans')
           row == [plans[c.id] EXCEPT !.next = next]
<1>1. /\ plans' = [plans EXCEPT ![c.id].next = next] /\ plans[c.id] = c.row
      /\ job.step = "entry" /\ job.entries = {}
      /\ UNCHANGED <<clock, users, ledger, tx>>
  BY DEF FinishInvoicing
<1>2. \/ rest # {} /\ job' = [job EXCEPT !.step = "cycle", !.copies = rest]
      \/ i # 0 /\ job' = [job EXCEPT !.step = "cycle", !.copies = {Copy(i, plans')}, !.tier = FALSE]
      \/ job' = NoJob
  <2>1. job' = CASE rest # {} -> [job EXCEPT !.step = "cycle", !.copies = rest]
                 [] rest = {} /\ job.tier /\ i # 0 ->
                      [job EXCEPT !.step = "cycle", !.copies = {Copy(i, plans')}, !.tier = FALSE]
                 [] OTHER -> NoJob
    BY DEF FinishInvoicing
  <2> HIDE DEF rest, i
  <2> QED BY <2>1
<1>3. c \in job.copies /\ c.id \in DOMAIN plans BY <1>1, CopyReplaced
<1>4. \A d \in rest : d.id \in DOMAIN plans
  <2>1. \A d \in job.copies : d.id \in DOMAIN plans
    BY DEF Uncrossed, JobSound
  <2>2. Copy(c.id, plans').id \in DOMAIN plans BY <1>3 DEF Copy
  <2> HIDE DEF c, again
  <2> QED BY <2>1, <2>2
<1> HIDE DEF rest, c
<1>5. plans \in Seq(Row) /\ plans[c.id] \in Row
  BY <1>3 DEF Uncrossed, Sound, TablesTyped
<1>6. next \in Nat \cup {None} /\ (plans[c.id].status \in LiveStatuses => next # None)
  <2>1. CASE plans[c.id].status = "ENDED"
    <3>1. next = None BY <1>1, <2>1 DEF next_invoice_date
    <3> QED BY <2>1, <3>1 DEF LiveStatuses, Trials, Switches
  <2>2. CASE plans[c.id].status \in LiveStatuses
    <3>1. plans[c.id].next \in Nat /\ plans[c.id].anchor \in Nat
      BY <1>3, <1>5, <2>2 DEF Row, Live, Uncrossed, Sound, LiveAreInvoiced
    <3>2. plans[c.id].status # "ENDED"
      BY <2>2 DEF LiveStatuses, Trials, Switches
    <3>3. next = FirstAfter(plans[c.id].anchor, Month, plans[c.id].next)
      BY <1>1, <3>2 DEF next_invoice_date
    <3>4. next \in Nat BY <3>1, <3>3, FirstAfterTyped, BillingAssumption
    <3> QED BY <3>4 DEF None
  <2> QED BY <1>5, <2>1, <2>2 DEF Row
<1>16. plans[c.id].status \in LiveStatuses => plans[c.id].next < next
  <2> SUFFICES ASSUME plans[c.id].status \in LiveStatuses PROVE plans[c.id].next < next
    OBVIOUS
  <2>1. plans[c.id].next \in Nat /\ plans[c.id].anchor \in Nat
    BY <1>3, <1>5 DEF Row, Live, Uncrossed, Sound, LiveAreInvoiced
  <2>2. plans[c.id].status # "ENDED" BY DEF LiveStatuses, Trials, Switches
  <2>3. next = FirstAfter(plans[c.id].anchor, Month, plans[c.id].next)
    BY <1>1, <2>2 DEF next_invoice_date
  <2> QED BY <2>1, <2>3, FirstAfterTyped, BillingAssumption
<1> HIDE DEF next
<1>7. plans' = [plans EXCEPT ![c.id] = row] BY <1>1, <1>3, <1>5
<1>8. /\ row \in Row /\ row.status = plans[c.id].status /\ row.next = next
      /\ row.invoicing = plans[c.id].invoicing /\ row.through = plans[c.id].through
  BY <1>5, <1>6 DEF Row
<1> HIDE DEF row
<1>9. row.status \in LiveStatuses => c.id \in Live(plans) /\ row.next # None
  BY <1>3, <1>6, <1>8 DEF Live
<1>10. Sound([plans EXCEPT ![c.id] = row], ledger)
  BY <1>3, <1>8, <1>9, WriteKeepsSound DEF Uncrossed
<1>11. Sound(plans', ledger') /\ DOMAIN plans' = DOMAIN plans
  BY <1>1, <1>7, <1>10
<1>12. i # 0 => i \in DOMAIN plans BY <1>11, CurrentPlan
<1> HIDE DEF i
<1>13. Copy(i, plans').id = i BY DEF Copy
<1>14. JobSound'
  <2>1. CASE job' = NoJob BY <1>1, <2>1, IdleSound DEF clock
  <2>2. CASE rest # {} /\ job' = [job EXCEPT !.step = "cycle", !.copies = rest]
    BY <1>1, <1>4, <1>11, <2>2 DEF Uncrossed, JobSound, clock
  <2>3. CASE i # 0 /\ job' = [job EXCEPT !.step = "cycle", !.copies = {Copy(i, plans')}, !.tier = FALSE]
    <3> DEFINE d == Copy(i, plans')
    <3>1. d.id \in DOMAIN plans /\ job' = [job EXCEPT !.step = "cycle", !.copies = {d}, !.tier = FALSE]
      BY <1>12, <1>13, <2>3
    <3> HIDE DEF d
    <3> QED BY <1>1, <1>11, <3>1 DEF Uncrossed, JobSound, clock
  <2> QED BY <1>2, <2>1, <2>2, <2>3
<1>15. Advances(plans, ledger, plans', ledger')
  <2>1. Advances(plans, ledger, [plans EXCEPT ![c.id] = row], ledger)
    <3>1. ASSUME NEW e \in EntriesOf(ledger, c.id), BeforeEnd(plans, ledger, c.id, e)
          PROVE  row.status \in Trials => ledger[e].time < row.next
      <4> SUFFICES ASSUME row.status \in Trials PROVE ledger[e].time < row.next
        OBVIOUS
      <4>1. ledger[e].time < plans[c.id].next BY <1>8, <3>1 DEF BeforeEnd
      <4>2. c.id \in Live(plans) /\ plans[c.id].next < next
        BY <1>3, <1>8, <1>16 DEF Live, LiveStatuses
      <4>3. e \in DOMAIN ledger /\ ledger \in Seq(LedgerRow)
        BY DEF EntriesOf, Uncrossed, Sound, TablesTyped
      <4>4. ledger[e] \in LedgerRow BY <4>3
      <4>5. ledger[e].time \in Int /\ plans[c.id].next \in Int /\ next \in Int
        BY <1>5, <1>6, <4>4 DEF LedgerRow, Row, None
      <4> QED BY <1>8, <4>1, <4>2, <4>5
    <3> QED BY <1>3, <1>5, <1>8, <3>1, WriteAdvances
  <2> QED BY <1>1, <1>7, <2>1
<1> QED BY <1>1, <1>11, <1>14, <1>15, JobWritten

-----------------------------------------------------------------------------
(* Every step keeps the tables sound. *)

LEMMA BillingInit == Init => BillingInv
<1> SUFFICES ASSUME Init PROVE BillingInv
  OBVIOUS
<1>1. now \in Nat /\ trial_days \in Nat /\ users \in Int /\ crossed = FALSE
  BY BillingAssumption DEF Init
<1>2. Sound(plans, ledger)
  <2>1. plans = <<>> /\ ledger = <<>> BY DEF Init
  <2>2. DOMAIN plans = {} /\ Live(plans) = {} BY <2>1 DEF Live
  <2> QED BY <2>1, <2>2 DEF Sound, TablesTyped, EachRenewed, AtMostOneLive, LiveAreInvoiced
<1>3. JobSound BY DEF Init, JobSound, NoJob, None
<1>4. TxSound BY DEF Init, TxSound, Free
<1> QED BY <1>1, <1>2, <1>3, <1>4 DEF BillingInv, Uncrossed

(* "crossed" only ever becomes true. *)
LEMMA CrossedGrows ==
  ASSUME crossed \in BOOLEAN, [Next]_vars
  PROVE  crossed' \in BOOLEAN /\ (~crossed' => ~crossed)
<1>1. ASSUME NEW t \in Transactions, CommitUserChange(t)
      PROVE  crossed' \in BOOLEAN /\ (~crossed' => ~crossed)
  BY <1>1 DEF CommitUserChange
<1>2. ASSUME NEW t \in Transactions, process_initial_upgrade(t)
      PROVE  crossed' \in BOOLEAN /\ (~crossed' => ~crossed)
  BY <1>2 DEF process_initial_upgrade
<1>3. CASE switch_plan_tier BY <1>3 DEF switch_plan_tier
<1>4. CASE BeginInvoicing BY <1>4 DEF BeginInvoicing
<1>5. CASE FinishInvoicing BY <1>5 DEF FinishInvoicing
<1>6. ASSUME NEW t \in Transactions, NEW delta \in {-1, 1}, BeginUserChange(t, delta)
      PROVE  UNCHANGED crossed
  BY <1>6 DEF BeginUserChange
<1>7. ASSUME NEW t \in Transactions, NEW licenses \in 1..MaxUsers, NEW schedule \in Schedules,
             BeginUpgrade(t, licenses, schedule)
      PROVE  UNCHANGED crossed
  BY <1>7 DEF BeginUpgrade
<1>8. ASSUME NEW t \in Transactions, NEW request \in Requests,
             do_update_plan(t, request) \/ FinishUpdate(t, request)
      PROVE  crossed' \in BOOLEAN /\ (~crossed' => ~crossed)
  BY <1>8 DEF do_update_plan, FinishUpdate, WriteUpdate
<1>9. CASE \/ downgrade_now \/ do_change_plan_to_new_tier \/ invoice_plans_as_needed
          \/ StartEntry \/ SkipEntry \/ FinishEntry \/ CreateItem \/ CreateInvoice
          \/ JobDies \/ Tick \/ UNCHANGED vars
  BY <1>9 DEF downgrade_now, do_change_plan_to_new_tier, invoice_plans_as_needed, StartEntry,
     SkipEntry, FinishEntry, SaveInvoicing, CreateItem, CreateInvoice, JobDies, Tick, vars
<1> QED BY <1>1, <1>2, <1>3, <1>4, <1>5, <1>6, <1>7, <1>8, <1>9 DEF Next, Invoicing

LEMMA BillingStep == BillingInv /\ [Next]_vars => BillingInv'
<1> SUFFICES ASSUME BillingInv, [Next]_vars PROVE BillingInv'
  OBVIOUS
<1>1. crossed \in BOOLEAN /\ crossed' \in BOOLEAN /\ (~crossed' => ~crossed)
  BY CrossedGrows DEF BillingInv
<1> SUFFICES ASSUME ~crossed' PROVE Uncrossed'
  BY <1>1 DEF BillingInv
<1>2. Uncrossed BY <1>1 DEF BillingInv
<1>3. ASSUME NEW t \in Transactions, NEW delta \in {-1, 1}, BeginUserChange(t, delta)
      PROVE  Uncrossed'
  BY <1>2, <1>3, BeginUserChangeSound
<1>4. ASSUME NEW t \in Transactions, CommitUserChange(t) PROVE Uncrossed'
  BY <1>1, <1>2, <1>4, CommitUserChangeSound
<1>5. ASSUME NEW t \in Transactions, NEW licenses \in 1..MaxUsers, NEW schedule \in Schedules,
             BeginUpgrade(t, licenses, schedule)
      PROVE  Uncrossed'
  BY <1>2, <1>5, BeginUpgradeSound
<1>6. ASSUME NEW t \in Transactions, process_initial_upgrade(t) PROVE Uncrossed'
  BY <1>1, <1>2, <1>6, UpgradeSound
<1>7. ASSUME NEW t \in Transactions, NEW request \in Requests,
             do_update_plan(t, request) \/ FinishUpdate(t, request)
      PROVE  Uncrossed'
  BY <1>1, <1>2, <1>7, UpdatePlanSound, FinishUpdateSound
<1>8. CASE downgrade_now BY <1>2, <1>8, DowngradeNowSound
<1>9. CASE do_change_plan_to_new_tier BY <1>2, <1>9, TierChangeSound
<1>10. CASE invoice_plans_as_needed BY <1>2, <1>10, StartJobSound
<1>11. CASE switch_plan_tier BY <1>1, <1>2, <1>11, SwitchTierSound
<1>12. CASE BeginInvoicing BY <1>1, <1>2, <1>12, BeginInvoicingSound
<1>13. CASE StartEntry \/ SkipEntry \/ FinishEntry
  BY <1>2, <1>13, EntrySaved, SaveInvoicingSound
<1>14. CASE CreateItem
  <2>1. /\ job' = [job EXCEPT !.step = "done", !.made = TRUE] /\ job.step = "item"
        /\ UNCHANGED <<tables, tx, clock, users>>
    BY <1>14 DEF CreateItem
  <2>2. JobSound' BY <1>2, <2>1 DEF Uncrossed, JobSound, tables, clock
  <2> QED BY <1>2, <2>1, <2>2, JobChanged
<1>15. CASE CreateInvoice
  <2>1. /\ job' = [job EXCEPT !.made = FALSE] /\ UNCHANGED <<tables, tx, clock, users>>
    BY <1>15 DEF CreateInvoice
  <2>2. JobSound' BY <1>2, <2>1 DEF Uncrossed, JobSound, tables, clock
  <2> QED BY <1>2, <2>1, <2>2, JobChanged
<1>16. CASE FinishInvoicing BY <1>1, <1>2, <1>16, FinishInvoicingSound
<1>17. CASE JobDies BY <1>2, <1>17, IdleSound, JobChanged DEF JobDies, clock
<1>18. CASE Tick
  <2>1. now' = now + 1 /\ UNCHANGED <<trial_days, users, tables, tx, job>>
    BY <1>18 DEF Tick
  <2> QED BY <1>2, <2>1 DEF Uncrossed, JobSound, TxSound, tables
<1>19. CASE UNCHANGED vars
  BY <1>2, <1>19 DEF vars, Uncrossed, JobSound, TxSound, tables, clock
<1> QED
  BY <1>3, <1>4, <1>5, <1>6, <1>7, <1>8, <1>9, <1>10, <1>11, <1>12, <1>13, <1>14, <1>15,
     <1>16, <1>17, <1>18, <1>19 DEF Next, Invoicing

LEMMA OneLive == BillingInv => OneLivePlan
<1> SUFFICES ASSUME BillingInv, ~crossed
             PROVE  Cardinality(Live(plans)) <= 1 /\ \A i \in Live(plans) : plans[i].next # None
  BY DEF OneLivePlan
<1>1. AtMostOneLive(plans) /\ LiveAreInvoiced(plans)
  BY DEF BillingInv, Uncrossed, Sound
<1>2. CASE Live(plans) = {} BY <1>1, <1>2, FS_EmptySet DEF LiveAreInvoiced
<1>3. CASE Live(plans) # {}
  <2>1. PICK i : Live(plans) = {i} BY <1>1, <1>3 DEF AtMostOneLive
  <2>2. Cardinality(Live(plans)) = 1 BY <2>1, FS_Singleton
  <2> QED BY <1>1, <2>2 DEF LiveAreInvoiced
<1> QED BY <1>2, <1>3

(* Whatever transactions, requests, upgrades and invoicing jobs do and *)
(* wherever the jobs die, a customer has at most one plan that is live and *)
(* that plan has a next invoice date, until an actor writes what another *)
(* one has changed since it read. *)
THEOREM OneLivePlanCorrect == Spec => []OneLivePlan
<1>1. Spec => []BillingInv BY BillingInit, BillingStep, PTL DEF Spec
<1> QED BY <1>1, OneLive, PTL

-----------------------------------------------------------------------------
(* No entry is charged twice. *)

LEMMA ItemAppended ==
  ASSUME NEW its, OnceEach(its), NEW x, x.entry \notin ChargedBy(its)
  PROVE  /\ OnceEach(Append(its, x))
         /\ ChargedBy(Append(its, x)) = ChargedBy(its) \cup {x.entry}
<1>1. PICK S : its \in Seq(S) BY DEF OnceEach
<1> DEFINE T == S \cup {x}
           js == Append(its, x)
<1>2. its \in Seq(T) /\ x \in T BY <1>1, SeqMonotonic
<1> HIDE DEF T
<1>3. /\ js \in Seq(T) /\ DOMAIN js = DOMAIN its \cup {Len(its) + 1}
      /\ js[Len(its) + 1] = x /\ \A k \in DOMAIN its : js[k] = its[k]
  BY <1>2, RowAppended
<1> HIDE DEF js
<1>4. \A k \in DOMAIN its : js[k].entry \in ChargedBy(its) /\ js[k].entry # x.entry
  BY <1>3 DEF ChargedBy
<1>5. \A k, l \in DOMAIN js : js[k].entry = js[l].entry => k = l
  BY <1>3, <1>4 DEF OnceEach
<1>6. ChargedBy(js) = ChargedBy(its) \cup {x.entry} BY <1>3 DEF ChargedBy
<1>7. OnceEach(js) BY <1>3, <1>5 DEF OnceEach
<1> QED BY <1>6, <1>7 DEF js

LEMMA AdvanceKeepsBooked ==
  ASSUME NEW ps, NEW ls, NEW qs, NEW ms, NEW charged, Booked(ps, ls, charged),
         Advances(ps, ls, qs, ms)
  PROVE  Booked(qs, ms, charged)
<1>1. ASSUME NEW e \in charged
      PROVE  /\ e \in DOMAIN ms /\ ms[e].plan \in DOMAIN qs
             /\ e <= qs[ms[e].plan].through
             /\ qs[ms[e].plan].invoicing # "INITIAL"
             /\ BeforeEnd(qs, ms, ms[e].plan, e)
  <2>1. /\ e \in DOMAIN ls /\ ls[e].plan \in DOMAIN ps /\ ms[e] = ls[e]
        /\ e <= ps[ls[e].plan].through /\ ps[ls[e].plan].invoicing # "INITIAL"
        /\ BeforeEnd(ps, ls, ls[e].plan, e)
    BY DEF Booked, Advances
  <2>2. e \in EntriesOf(ls, ls[e].plan) BY <2>1 DEF EntriesOf
  <2> QED BY <2>1, <2>2 DEF Advances
<1>2. ASSUME NEW i \in DOMAIN qs, qs[i].status \in Trials PROVE qs[i].invoicing # "INITIAL"
  <2>1. CASE i \in DOMAIN ps BY <1>2, <2>1 DEF Booked, Advances
  <2>2. CASE i \notin DOMAIN ps BY <1>2, <2>2 DEF Advances
  <2> QED BY <2>1, <2>2
<1> QED BY <1>1, <1>2 DEF Booked

(* Facts about the plan and the entries of a job that is charging. *)
LEMMA ChargingFacts ==
  ASSUME Uncrossed, Bills, job.step \in {"entry", "item", "done"}
  PROVE  /\ First.id \in DOMAIN plans /\ plans[First.id] \in Row
         /\ job.entries \subseteq EntriesOf(ledger, First.id) /\ job.entries \subseteq Nat
         /\ job.entries # {} => Min(job.entries) \in job.entries
         /\ \A d \in job.entries : Min(job.entries) <= d
<1>1. First.id \in DOMAIN plans BY FirstIsCopy DEF Uncrossed, JobSound
<1>2. plans[First.id] \in Row BY <1>1 DEF Uncrossed, Sound, TablesTyped
<1>3. job.entries \subseteq DOMAIN ledger /\ DOMAIN ledger \subseteq Nat
  BY DEF Uncrossed, JobSound, Sound, TablesTyped
<1>4. job.entries \subseteq EntriesOf(ledger, First.id)
  BY <1>3 DEF Bills, JobBooked, EntriesOf
<1>5. CASE job.entries = {} BY <1>1, <1>2, <1>5
<1>6. CASE job.entries # {}
  <2>1. job.entries \subseteq Nat BY <1>3
  <2>2. Min(job.entries) \in job.entries /\ \A d \in job.entries : Min(job.entries) <= d
    BY <1>6, <2>1, HasMin
  <2> QED BY <1>1, <1>2, <1>4, <2>1, <2>2
<1> QED BY <1>5, <1>6

(* Other actors do not disturb what the job is charging. *)
LEMMA AdvanceKeepsJobBooked ==
  ASSUME Uncrossed, Bills, Advances(plans, ledger, plans', ledger'), UNCHANGED job,
         \A e \in Charged' : e \in Charged \/ ledger'[e].plan \notin DOMAIN plans
  PROVE  JobBooked'
<1> SUFFICES ASSUME job.step \in {"entry", "item", "done"} PROVE JobBooked'
  BY DEF JobBooked
<1> DEFINE i == First.id
<1>1. /\ i \in DOMAIN plans /\ plans[i] \in Row
      /\ job.entries \subseteq EntriesOf(ledger, i) /\ job.entries \subseteq Nat
      /\ job.entries # {} => Min(job.entries) \in job.entries
  BY ChargingFacts
<1>2. First' = First BY DEF First
<1> HIDE DEF i
<1>3. \A d \in job.entries : d \in DOMAIN ledger /\ ledger[d].plan = i /\ ledger'[d] = ledger[d]
  BY <1>1 DEF EntriesOf, Advances
<1>4. \A e \in Charged' : ledger'[e].plan = i => e \in Charged /\ ledger[e].plan = i
  BY <1>1 DEF Bills, Booked, Advances
<1>5. ASSUME NEW d \in job.entries
      PROVE  /\ ledger'[d].plan = i /\ BeforeEnd(plans', ledger', i, d)
             /\ \A e \in Charged' : ledger'[e].plan = i =>
                  e <= d /\ (job.step # "done" => e # d)
  <2>1. d \in EntriesOf(ledger, i) /\ BeforeEnd(plans, ledger, i, d)
    BY <1>1 DEF Bills, JobBooked, i
  <2>2. BeforeEnd(plans', ledger', i, d) BY <1>1, <2>1 DEF Advances
  <2> QED BY <1>3, <1>4, <2>2 DEF Bills, JobBooked, i
<1>6. ASSUME job.step \in {"item", "done"}
      PROVE  /\ plans'[i].invoicing = "STARTED"
             /\ Min(job.entries) <= plans'[i].through
  <2> DEFINE d == Min(job.entries)
  <2>1. d \in job.entries BY <1>1, <1>6 DEF Uncrossed, JobSound
  <2>2. /\ plans[i].invoicing = "STARTED" /\ d <= plans[i].through
        /\ BeforeEnd(plans, ledger, i, d)
    BY <1>6, <2>1 DEF Bills, JobBooked, i
  <2>3. d \in EntriesOf(ledger, i) BY <1>1, <2>1
  <2> QED BY <1>1, <2>2, <2>3 DEF Advances
<1> QED BY <1>2, <1>5, <1>6 DEF JobBooked, i

LEMMA AdvanceKeepsBills ==
  ASSUME Uncrossed, Bills, Advances(plans, ledger, plans', ledger'), UNCHANGED <<job, items>>
  PROVE  Bills'
<1>1. Charged' = Charged BY DEF Charged
<1>2. Booked(plans', ledger', Charged')
  BY <1>1, AdvanceKeepsBooked DEF Bills
<1>3. JobBooked' BY <1>1, AdvanceKeepsJobBooked
<1> QED BY <1>2, <1>3 DEF Bills

(* Steps of the job between its plans. *)
LEMMA IdleKeepsBills ==
  ASSUME Bills, Advances(plans, ledger, plans', ledger'), UNCHANGED items,
         job'.step \notin {"entry", "item", "done"}
  PROVE  Bills'
<1>1. Charged' = Charged BY DEF Charged
<1>2. Booked(plans', ledger', Charged')
  BY <1>1, AdvanceKeepsBooked DEF Bills
<1> QED BY <1>2 DEF Bills, JobBooked

(* The plan that is being invoiced stays the first one. *)
LEMMA FirstReplaced ==
  ASSUME Uncrossed, job.step # "idle", NEW row, job'.copies = Replaced(row)
  PROVE  First'.id = First.id
<1>1. /\ First \in job.copies /\ First.id \in DOMAIN plans
      /\ \A d \in job.copies : First.id <= d.id /\ d.id \in Nat
  BY FirstIsCopy DEF Uncrossed, JobSound, Sound, TablesTyped
<1> DEFINE i == First.id
           new == [id |-> i, row |-> row]
<1>2. job'.copies = (job.copies \ {First}) \cup {new} /\ new.id = i
  BY DEF Replaced
<1>3. i \in Nat /\ \A d \in job.copies : i <= d.id /\ d.id \in Nat BY <1>1
<1> HIDE DEF new, i
<1>4. new \in job'.copies /\ \A d \in job'.copies : new.id <= d.id /\ d.id \in Nat
  BY <1>2, <1>3
<1>5. First' \in job'.copies /\ \A d \in job'.copies : First'.id <= d.id
  BY <1>4 DEF First
<1> QED BY <1>2, <1>3, <1>4, <1>5 DEF i

(* An upgrade charges only entries that it makes, and marks them as done. *)
LEMMA UpgradedItems ==
  ASSUME NEW x, UpgradeTyped(x), NEW new, new = Upgraded(x)
  PROVE  \/ new.items = <<>>
         \/ /\ new.plan.status = "ACTIVE" /\ new.plan.invoicing = "DONE"
            /\ \E f, m : /\ new.entries = <<f>> /\ f.plan = Len(plans) + 1
                         /\ new.items = <<m>> /\ m.entry = Len(ledger) + 1
                         /\ new.plan.through = Len(ledger) + 1
         \/ /\ new.plan.status = "ACTIVE" /\ new.plan.invoicing = "DONE"
            /\ \E f, g, m, n :
                 /\ new.entries = <<f, g>> /\ f.plan = Len(plans) + 1 /\ g.plan = Len(plans) + 1
                 /\ new.items = <<m, n>> /\ m.entry = Len(ledger) + 1 /\ n.entry = Len(ledger) + 2
                 /\ new.plan.through = Len(ledger) + 2
<1> DEFINE i == Len(plans) + 1
           e == Len(ledger) + 1
           first == Entry(i, TRUE, now, x.licenses, x.licenses)
           more == Max({users, x.licenses})
           second == Entry(i, FALSE, now, more, more)
           plan == Plan("ACTIVE", x.schedule, now, now + Month, e, "DONE")
<1>1. CASE x.trial BY <1>1 DEF Upgraded
<1>2. CASE ~x.trial /\ more = x.licenses
  <2>1. /\ new.plan = plan /\ new.entries = <<first>> /\ new.items = <<Item(e, x.licenses)>>
    BY <1>2 DEF Upgraded
  <2>2. first.plan = i /\ Item(e, x.licenses).entry = e BY DEF Entry, Item
  <2>3. plan.status = "ACTIVE" /\ plan.invoicing = "DONE" /\ plan.through = e
    BY DEF Plan
  <2> HIDE DEF first, plan
  <2> QED BY <2>1, <2>2, <2>3
<1>3. CASE ~x.trial /\ more # x.licenses
  <2> DEFINE late == [plan EXCEPT !.through = e + 1, !.next = next_invoice_date(plan)]
             m == Item(e, x.licenses)
             n == Item(e + 1, more - x.licenses)
  <2>1. new.plan = late /\ new.entries = <<first, second>> /\ new.items = <<m, n>>
    BY <1>3 DEF Upgraded
  <2>2. first.plan = i /\ second.plan = i /\ m.entry = e /\ n.entry = e + 1
    BY DEF Entry, Item
  <2>3. late.status = "ACTIVE" /\ late.invoicing = "DONE" /\ late.through = e + 1
    BY DEF Plan
  <2>4. e + 1 = Len(ledger) + 2 OBVIOUS
  <2> HIDE DEF first, second, late, m, n
  <2> QED BY <2>1, <2>2, <2>3, <2>4
<1> QED BY <1>1, <1>2, <1>3 DEF UpgradeTyped

LEMMA UpgradeBills ==
  ASSUME Uncrossed, Bills, ~crossed', crossed \in BOOLEAN, NEW t \in Transactions,
         process_initial_upgrade(t)
  PROVE  Bills'
<1> DEFINE new == Upgraded(tx[t])
           i == Len(plans) + 1
           e == Len(ledger) + 1
<1>1. /\ tx[t].kind = "upgrade" /\ plans' = Append(plans, new.plan)
      /\ ledger' = ledger \o new.entries /\ items' = items \o new.items /\ UNCHANGED job
  BY DEF process_initial_upgrade
<1>2. UpgradeTyped(tx[t]) BY <1>1 DEF Uncrossed, TxSound
<1>3. Advances(plans, ledger, plans', ledger') BY UpgradeSound
<1>4. new.plan \in Row BY <1>2, UpgradedRows
<1>5. \/ new.items = <<>>
      \/ /\ new.plan.status = "ACTIVE" /\ new.plan.invoicing = "DONE"
         /\ \E f, m : /\ new.entries = <<f>> /\ f.plan = i
                      /\ new.items = <<m>> /\ m.entry = e
                      /\ new.plan.through = e
      \/ /\ new.plan.status = "ACTIVE" /\ new.plan.invoicing = "DONE"
         /\ \E f, g, m, n :
              /\ new.entries = <<f, g>> /\ f.plan = i /\ g.plan = i
              /\ new.items = <<m, n>> /\ m.entry = e /\ n.entry = Len(ledger) + 2
              /\ new.plan.through = Len(ledger) + 2
  BY <1>2, UpgradedItems
<1> HIDE DEF new
<1>6. /\ plans \in Seq(Row) /\ ledger \in Seq(LedgerRow) /\ Len(plans) \in Nat /\ Len(ledger) \in Nat
      /\ DOMAIN ledger = 1..Len(ledger)
  BY DEF Uncrossed, Sound, TablesTyped
<1>7. i \in DOMAIN plans' /\ plans'[i] = new.plan /\ i \notin DOMAIN plans
  BY <1>1, <1>4, <1>6, RowAppended
<1>8. PICK S : items \in Seq(S) BY DEF Bills, OnceEach
<1>9. \A k \in Charged : k \in Nat /\ k < e BY <1>6 DEF Bills, Booked
<1>10. OnceEach(items) /\ Charged = ChargedBy(items) BY DEF Bills, Charged
<1>11. ASSUME OnceEach(items'), NEW added, Charged' = Charged \cup added,
              \A k \in added : /\ k \in DOMAIN ledger' /\ ledger'[k].plan = i
                               /\ k <= new.plan.through,
              added # {} => new.plan.status = "ACTIVE" /\ new.plan.invoicing = "DONE"
       PROVE  Bills'
  <2>1. Booked(plans', ledger', Charged)
    BY <1>3, AdvanceKeepsBooked DEF Bills
  <2>2. "ACTIVE" \notin Trials BY DEF Trials
  <2>3. Booked(plans', ledger', Charged')
    BY <1>7, <1>11, <2>1, <2>2 DEF Booked, BeforeEnd
  <2>4. JobBooked' BY <1>1, <1>3, <1>7, <1>11, AdvanceKeepsJobBooked
  <2> QED BY <1>11, <2>3, <2>4 DEF Bills
<1>12. CASE new.items = <<>>
  <2>1. items' = items BY <1>1, <1>8, <1>12, ConcatEmptySeq
  <2>2. Charged' = Charged BY <2>1 DEF Charged
  <2> QED BY <1>1, <1>3, <2>1, AdvanceKeepsBills
<1>13. ASSUME new.plan.status = "ACTIVE", new.plan.invoicing = "DONE", new.plan.through = e,
              NEW f, NEW m, new.entries = <<f>>, f.plan = i, new.items = <<m>>, m.entry = e
       PROVE  Bills'
  <2>1. items' = Append(items, m) BY <1>1, <1>8, <1>13
  <2>2. ledger' = Append(ledger, f) BY <1>1, <1>6, <1>13
  <2>3. OnceEach(items') /\ Charged' = Charged \cup {e}
    BY <1>9, <1>10, <1>13, <2>1, ItemAppended DEF Charged
  <2>4. e \in DOMAIN ledger' /\ ledger'[e] = f BY <1>6, <2>2
  <2> DEFINE added == {e}
  <2>5. /\ Charged' = Charged \cup added
        /\ \A k \in added : k \in DOMAIN ledger' /\ ledger'[k].plan = i /\ k <= new.plan.through
    BY <1>6, <1>13, <2>3, <2>4
  <2> HIDE DEF added
  <2> QED BY <1>11, <1>13, <2>3, <2>5
<1>14. ASSUME new.plan.status = "ACTIVE", new.plan.invoicing = "DONE",
              new.plan.through = Len(ledger) + 2,
              NEW f, NEW g, NEW m, NEW n, new.entries = <<f, g>>, f.plan = i, g.plan = i,
              new.items = <<m, n>>, m.entry = e, n.entry = Len(ledger) + 2
       PROVE  Bills'
  <2> DEFINE its == Append(items, m)
  <2>1. items' = Append(its, n)
    <3> DEFINE T == S \cup {m, n}
    <3>1. items \in Seq(T) /\ m \in T /\ n \in T BY <1>8, SeqMonotonic
    <3> HIDE DEF T
    <3> QED BY <1>1, <1>14, <3>1
  <2>2. OnceEach(its) /\ ChargedBy(its) = Charged \cup {e}
    BY <1>9, <1>10, <1>14, ItemAppended
  <2> HIDE DEF its
  <2>3. n.entry \notin ChargedBy(its) BY <1>6, <1>9, <1>14, <2>2
  <2>4. OnceEach(items') /\ Charged' = Charged \cup {e, n.entry}
    BY <2>1, <2>2, <2>3, ItemAppended DEF Charged
  <2>5. /\ e \in DOMAIN ledger' /\ n.entry \in DOMAIN ledger'
        /\ ledger'[e] = f /\ ledger'[n.entry] = g
    BY <1>1, <1>6, <1>14
  <2> DEFINE added == {e, n.entry}
  <2>6. /\ Charged' = Charged \cup added
        /\ \A k \in added : k \in DOMAIN ledger' /\ ledger'[k].plan = i /\ k <= new.plan.through
    BY <1>6, <1>14, <2>4, <2>5
  <2> HIDE DEF added
  <2> QED BY <1>11, <1>14, <2>4, <2>6
<1> QED BY <1>5, <1>12, <1>13, <1>14

LEMMA BeginInvoicingBills ==
  ASSUME Uncrossed, Bills, ~crossed', crossed \in BOOLEAN, BeginInvoicing PROVE Bills'
<1> DEFINE c == First
           i == c.id
           event_time == Min({c.row.next, job.until})
           m == make_end_of_cycle_updates_if_needed(
                    Reading(c.id, c.row, event_time, ledger), plans, ledger)
           row == m.copy
           left == {e \in EntriesOf(m.ledger, c.id) :
                      /\ row.invoicing = "INITIAL" \/ e > row.through
                      /\ m.ledger[e].time <= event_time}
           base == IF row.invoicing = "INITIAL" THEN None ELSE ledger[row.through].licenses
           copies == Replaced(row)
<1>1. job.step = "cycle" /\ UNCHANGED items BY DEF BeginInvoicing, stripe
<1>2. Uncrossed' /\ Advances(plans, ledger, plans', ledger')
  BY BeginInvoicingSound
<1>3. CASE c.row.invoicing = "STARTED"
  <2>1. job' = NoJob BY <1>3 DEF BeginInvoicing
  <2>2. job'.step = "idle" BY <2>1 DEF NoJob
  <2> QED BY <1>1, <1>2, <2>2, IdleKeepsBills
<1>4. CASE c.row.invoicing # "STARTED"
  <2>1. /\ plans' = m.plans /\ ledger' = m.ledger /\ plans[i] = c.row
        /\ job' = [job EXCEPT !.step = "entry", !.copies = copies, !.made = FALSE,
                              !.entries = left, !.base = base]
    BY <1>4 DEF BeginInvoicing
  <2>2. i \in DOMAIN plans BY <1>1, CopyReplaced
  <2>3. i \in DOMAIN plans' /\ plans' \in Seq(Row) /\ ledger' \in Seq(LedgerRow)
    BY <1>2, <2>2 DEF Uncrossed, Sound, TablesTyped, Advances
  <2>4. event_time \in Int
    <3> DEFINE r == c.row
    <3>1. r = plans[i] BY <2>1
    <3> HIDE DEF i, r
    <3>2. Min({r.next, job.until}) \in Int BY <2>2, <3>1, EventTimeTyped
    <3> QED BY <3>2 DEF r
  <2> HIDE DEF event_time
  <2>5. m = make_end_of_cycle_updates_if_needed(
                Reading(i, plans[i], event_time, ledger), plans, ledger)
    BY <2>1
  <2>6. job'.copies = copies /\ job'.step = "entry" /\ job'.entries = left
    BY <2>1 DEF Uncrossed, JobSound
  <2>7. First'.id = i BY <1>1, <2>6, FirstReplaced
  <2> HIDE DEF m, i, copies, base
  <2>8. /\ m.copy = m.plans[i]
        /\ \A e \in EntriesOf(m.ledger, i) :
              m.ledger[e].time <= event_time => BeforeEnd(m.plans, m.ledger, i, e)
    BY <2>2, <2>4, <2>5, CycleKeepsSound DEF Uncrossed
  <2>9. row = plans'[i] BY <2>1, <2>8
  <2>10. /\ left = {e \in EntriesOf(ledger', i) : /\ row.invoicing = "INITIAL" \/ e > row.through
                                                  /\ ledger'[e].time <= event_time}
    BY <2>1 DEF i
  <2>11. \A d \in left : BeforeEnd(plans', ledger', i, d)
    BY <2>1, <2>8, <2>10
  <2>12. Booked(plans', ledger', Charged') /\ Charged' = Charged
    BY <1>1, <1>2, AdvanceKeepsBooked DEF Bills, Charged
  <2>13. ASSUME NEW d \in left, NEW e \in Charged', ledger'[e].plan = i
         PROVE  e <= d /\ e # d
    <3>1. row.invoicing # "INITIAL" /\ e <= row.through /\ e \in Nat
      BY <2>3, <2>9, <2>12, <2>13 DEF Booked
    <3>2. d > row.through /\ d \in Nat BY <2>3, <2>10, <3>1 DEF EntriesOf
    <3>3. row.through \in Nat
      <4>1. plans'[i] \in Row BY <2>3
      <4> QED BY <2>9, <4>1 DEF Row
    <3> QED BY <3>1, <3>2, <3>3
  <2>14. \A d \in left : ledger'[d].plan = i BY <2>10 DEF EntriesOf
  <2> HIDE DEF left, row
  <2>15. JobBooked' BY <2>6, <2>7, <2>9, <2>11, <2>13, <2>14 DEF JobBooked
  <2> QED BY <1>1, <2>12, <2>15 DEF Bills
<1> QED BY <1>3, <1>4

(* A save of the invoicing status moves the mark of the plan to the entry *)
(* that is next, beyond all that was charged. *)
LEMMA SaveInvoicingBills ==
  ASSUME Uncrossed, Bills, NEW status \in {"STARTED", "DONE"}, SaveInvoicing(status),
         UNCHANGED items, job.entries # {},
         \/ status = "STARTED" /\ job.step = "entry"
         \/ status = "DONE" /\ job.step \in {"entry", "done"}
  PROVE  Bills'
<1> DEFINE i == First.id
           e == Min(job.entries)
           row == SavedAs(plans[i], status)
<1>1. /\ row \in Row /\ row.status = plans[i].status /\ row.next = plans[i].next
      /\ row.invoicing = status /\ row.through = e /\ plans' = [plans EXCEPT ![i] = row]
      /\ ledger' = ledger
  BY SaveInvoicingWrites
<1>2. /\ job'.copies = Replaced(SavedAs(First.row, status))
      /\ job'.entries = job.entries \ IF status = "STARTED" THEN {} ELSE {e}
      /\ job'.step = IF status = "STARTED" THEN "item" ELSE "entry"
  BY SaveInvoicingWrites
<1>3. First'.id = i BY <1>2, FirstReplaced
<1>4. Charged' = Charged BY DEF Charged
<1>5. /\ i \in DOMAIN plans /\ plans[i] \in Row /\ plans \in Seq(Row)
      /\ job.entries \subseteq EntriesOf(ledger, i) /\ job.entries \subseteq Nat
      /\ e \in job.entries /\ \A d \in job.entries : e <= d
  BY ChargingFacts DEF Uncrossed, Sound, TablesTyped
<1>6. /\ \A d \in job.entries : BeforeEnd(plans, ledger, i, d)
      /\ \A k \in Charged : ledger[k].plan = i =>
           /\ k <= e
           /\ job.step # "done" => \A d \in job.entries : k <= d /\ k # d
  BY <1>5 DEF Bills, JobBooked
<1>7. \A k \in Charged : k \in DOMAIN ledger /\ k \in Nat
  BY DEF Bills, Booked, Uncrossed, Sound, TablesTyped
<1> HIDE DEF i, e, row
<1>8. /\ DOMAIN plans' = DOMAIN plans /\ plans'[i] = row
      /\ \A k \in DOMAIN plans : k # i => plans'[k] = plans[k]
  BY <1>5, <1>1, RowWritten
<1>9. Booked(plans', ledger', Charged')
  <2>1. ASSUME NEW k \in Charged
        PROVE  /\ k \in DOMAIN ledger /\ ledger[k].plan \in DOMAIN plans'
               /\ k <= plans'[ledger[k].plan].through
               /\ plans'[ledger[k].plan].invoicing # "INITIAL"
               /\ BeforeEnd(plans', ledger, ledger[k].plan, k)
    <3>1. CASE ledger[k].plan = i
      <4>1. BeforeEnd(plans, ledger, i, k) BY <3>1 DEF Bills, Booked
      <4> QED BY <1>5, <1>6, <1>7, <1>1, <1>8, <3>1, <4>1 DEF BeforeEnd
    <3>2. CASE ledger[k].plan # i BY <1>8, <3>2 DEF Bills, Booked, BeforeEnd
    <3> QED BY <3>1, <3>2
  <2>2. \A k \in DOMAIN plans' : plans'[k].status \in Trials => plans'[k].invoicing # "INITIAL"
    BY <1>6, <1>1, <1>8 DEF Bills, Booked
  <2> QED BY <1>1, <1>4, <2>1, <2>2 DEF Booked
<1>10. JobBooked'
  <2>1. ASSUME NEW d \in job'.entries
        PROVE  /\ ledger[d].plan = i /\ BeforeEnd(plans', ledger, i, d)
               /\ \A k \in Charged : ledger[k].plan = i => k <= d /\ k # d
    <3>1. d \in job.entries /\ d \in Nat /\ e \in Nat /\ e <= d
      BY <1>2, <1>5
    <3>2. ledger[d].plan = i BY <1>5, <3>1 DEF EntriesOf
    <3>3. ASSUME NEW k \in Charged, ledger[k].plan = i PROVE k <= d /\ k # d
      <4>1. CASE job.step # "done" BY <1>6, <3>1, <3>3, <4>1
      <4>2. CASE job.step = "done"
        <5>1. k <= e /\ k \in Nat BY <1>6, <1>7, <3>3
        <5>2. d # e BY <1>2, <4>2
        <5> QED BY <3>1, <5>1, <5>2
      <4> QED BY <4>1, <4>2
    <3> QED BY <1>6, <1>1, <1>8, <3>1, <3>2, <3>3 DEF BeforeEnd
  <2>2. status = "STARTED" => /\ plans'[i].invoicing = "STARTED"
                              /\ Min(job'.entries) <= plans'[i].through
    BY <1>1, <1>2, <1>5, <1>8 DEF e
  <2>3. job'.step \in {"item", "done"} => status = "STARTED" BY <1>2
  <2> QED BY <1>1, <1>2, <1>3, <1>4, <2>1, <2>2, <2>3 DEF JobBooked
<1> QED BY <1>4, <1>9, <1>10 DEF Bills

(* A charge: the plan is marked with the entry, which was not charged yet. *)
LEMMA CreateItemBills ==
  ASSUME Uncrossed, Bills, CreateItem PROVE Bills'
<1> DEFINE i == First.id
           e == Min(job.entries)
           m == Item(e, Quantity(e))
<1>1. /\ job.step = "item" /\ job' = [job EXCEPT !.step = "done", !.made = TRUE]
      /\ UNCHANGED tables
      /\ items' = IF e \in keys THEN items ELSE Append(items, m)
  BY DEF CreateItem
<1>2. job'.copies = job.copies /\ job'.step = "done" /\ job'.entries = job.entries
  BY <1>1 DEF Uncrossed, JobSound
<1>3. First' = First BY <1>2 DEF First
<1>4. job.entries # {} BY <1>1 DEF Uncrossed, JobSound
<1>5. /\ i \in DOMAIN plans /\ job.entries \subseteq EntriesOf(ledger, i)
      /\ job.entries \subseteq Nat /\ e \in job.entries /\ \A d \in job.entries : e <= d
  BY <1>1, <1>4, ChargingFacts
<1>6. /\ \A d \in job.entries :
           /\ ledger[d].plan = i /\ BeforeEnd(plans, ledger, i, d)
           /\ \A k \in Charged : ledger[k].plan = i => k <= d /\ k # d
      /\ plans[i].invoicing = "STARTED" /\ e <= plans[i].through
  BY <1>1 DEF Bills, JobBooked
<1>7. m.entry = e BY DEF Item
<1>8. e \in DOMAIN ledger /\ ledger[e].plan = i /\ e \notin Charged
  BY <1>5, <1>6 DEF EntriesOf
<1> HIDE DEF m, e
<1>9. OnceEach(items') /\ Charged' \subseteq Charged \cup {e}
  <2>1. CASE e \in keys BY <1>1, <2>1 DEF Bills, Charged
  <2>2. CASE e \notin keys
    <3>1. items' = Append(items, m) BY <1>1, <2>2
    <3> QED BY <1>7, <1>8, <3>1, ItemAppended DEF Bills, Charged
  <2> QED BY <2>1, <2>2
<1>10. Booked(plans, ledger, Charged')
  BY <1>5, <1>6, <1>8, <1>9 DEF Bills, Booked
<1>11. ASSUME NEW d \in job.entries, NEW k \in Charged', ledger[k].plan = i PROVE k <= d
  BY <1>5, <1>6, <1>9, <1>11
<1>12. JobBooked' BY <1>1, <1>2, <1>3, <1>6, <1>11 DEF JobBooked, tables, e
<1> QED BY <1>1, <1>9, <1>10, <1>12 DEF Bills, tables

LEMMA CreateInvoiceBills ==
  ASSUME Uncrossed, Bills, CreateInvoice PROVE Bills'
<1>1. /\ job.step = "entry" /\ job' = [job EXCEPT !.made = FALSE]
      /\ UNCHANGED <<tables, items>>
  BY DEF CreateInvoice
<1>2. job'.copies = job.copies /\ job'.step = "entry" /\ job'.entries = job.entries
  BY <1>1 DEF Uncrossed, JobSound
<1>3. First' = First /\ Charged' = Charged BY <1>1, <1>2 DEF First, Charged
<1>4. JobBooked' BY <1>1, <1>2, <1>3 DEF Bills, JobBooked, tables
<1> QED BY <1>1, <1>3, <1>4 DEF Bills, tables

LEMMA ChargeInit == Init => ChargeInv
<1> SUFFICES ASSUME Init PROVE ChargeInv
  OBVIOUS
<1>1. plans = <<>> /\ ledger = <<>> /\ items = <<>> /\ job.step = "idle"
  BY DEF Init, NoJob
<1>2. Charged = {} /\ OnceEach(items)
  <2>1. items \in Seq(Nat) /\ DOMAIN items = {} BY <1>1
  <2> QED BY <2>1 DEF Charged, ChargedBy, OnceEach
<1>3. Bills BY <1>1, <1>2 DEF Bills, Booked, JobBooked
<1> QED BY <1>3, BillingInit DEF ChargeInv

LEMMA ChargeStep == ChargeInv /\ [Next]_vars => ChargeInv'
<1> SUFFICES ASSUME ChargeInv, [Next]_vars PROVE ChargeInv'
  OBVIOUS
<1>1. BillingInv' BY BillingStep DEF ChargeInv
<1>2. crossed \in BOOLEAN /\ crossed' \in BOOLEAN /\ (~crossed' => ~crossed)
  BY CrossedGrows DEF ChargeInv, BillingInv
<1> SUFFICES ASSUME ~crossed' PROVE Bills'
  BY <1>1 DEF ChargeInv
<1>3. Uncrossed /\ Bills BY <1>2 DEF ChargeInv, BillingInv
<1>4. ASSUME NEW t \in Transactions, NEW delta \in {-1, 1}, BeginUserChange(t, delta)
      PROVE  Bills'
  BY <1>3, <1>4, StayingAdvances, AdvanceKeepsBills DEF BeginUserChange, tables, stripe
<1>5. ASSUME NEW t \in Transactions, CommitUserChange(t) PROVE Bills'
  <2>1. UNCHANGED <<job, items>> BY <1>5 DEF CommitUserChange, stripe
  <2> QED BY <1>2, <1>3, <1>5, <2>1, CommitUserChangeSound, AdvanceKeepsBills
<1>6. ASSUME NEW t \in Transactions, NEW licenses \in 1..MaxUsers, NEW schedule \in Schedules,
             BeginUpgrade(t, licenses, schedule)
      PROVE  Bills'
  BY <1>3, <1>6, StayingAdvances, AdvanceKeepsBills DEF BeginUpgrade, tables, stripe
<1>7. ASSUME NEW t \in Transactions, process_initial_upgrade(t) PROVE Bills'
  BY <1>2, <1>3, <1>7, UpgradeBills
<1>8. ASSUME NEW t \in Transactions, NEW request \in Requests,
             do_update_plan(t, request) \/ FinishUpdate(t, request)
      PROVE  Bills'
  <2>1. UNCHANGED <<job, items>>
    BY <1>8 DEF do_update_plan, FinishUpdate, stripe
  <2> QED BY <1>2, <1>3, <1>8, <2>1, UpdatePlanSound, FinishUpdateSound, AdvanceKeepsBills
<1>9. CASE downgrade_now
  <2>1. UNCHANGED <<job, items>> BY <1>9 DEF downgrade_now, stripe
  <2> QED BY <1>3, <1>9, <2>1, DowngradeNowSound, AdvanceKeepsBills
<1>10. CASE do_change_plan_to_new_tier
  <2>1. job'.step = "switch" /\ UNCHANGED items
    BY <1>10 DEF do_change_plan_to_new_tier, stripe, NoJob
  <2> QED BY <1>3, <1>10, <2>1, TierChangeSound, IdleKeepsBills
<1>11. CASE invoice_plans_as_needed
  <2>1. job'.step = "cycle" /\ UNCHANGED <<items, plans, ledger>>
    BY <1>11 DEF invoice_plans_as_needed, stripe, tables, NoJob
  <2> QED BY <1>3, <2>1, StayingAdvances, IdleKeepsBills
<1>12. CASE switch_plan_tier
  <2>1. job'.step = "cycle" /\ UNCHANGED items
    BY <1>3, <1>12 DEF switch_plan_tier, stripe, Uncrossed, JobSound
  <2> QED BY <1>2, <1>3, <1>12, <2>1, SwitchTierSound, IdleKeepsBills
<1>13. CASE BeginInvoicing BY <1>2, <1>3, <1>13, BeginInvoicingBills
<1>14. CASE StartEntry \/ SkipEntry \/ FinishEntry
  BY <1>3, <1>14, EntrySaved, SaveInvoicingBills
<1>15. CASE CreateItem BY <1>3, <1>15, CreateItemBills
<1>16. CASE CreateInvoice BY <1>3, <1>16, CreateInvoiceBills
<1>17. CASE FinishInvoicing
  <2>1. job'.step \in {"cycle", "idle"} /\ UNCHANGED items
    BY <1>3, <1>17 DEF FinishInvoicing, stripe, NoJob, Uncrossed, JobSound
  <2> QED BY <1>2, <1>3, <1>17, <2>1, FinishInvoicingSound, IdleKeepsBills
<1>18. CASE JobDies
  <2>1. job'.step = "idle" /\ UNCHANGED <<items, plans, ledger>>
    BY <1>18 DEF JobDies, stripe, tables, NoJob
  <2> QED BY <1>3, <2>1, StayingAdvances, IdleKeepsBills
<1>19. CASE Tick
  BY <1>3, <1>19, StayingAdvances, AdvanceKeepsBills DEF Tick, tables
<1>20. CASE UNCHANGED vars
  BY <1>3, <1>20, StayingAdvances, AdvanceKeepsBills DEF vars
<1> QED
  BY <1>4, <1>5, <1>6, <1>7, <1>8, <1>9, <1>10, <1>11, <1>12, <1>13, <1>14, <1>15, <1>16,
     <1>17, <1>18, <1>19, <1>20 DEF Next, Invoicing

LEMMA NoneTwice == ChargeInv => NeverBilledTwice
<1> SUFFICES ASSUME ChargeInv, ~crossed, NEW e \in DOMAIN ledger
             PROVE  Cardinality(ItemsOf(e)) <= 1
  BY DEF NeverBilledTwice
<1>1. \A k, l \in DOMAIN items : items[k].entry = items[l].entry => k = l
  BY DEF ChargeInv, Bills, OnceEach
<1>2. CASE ItemsOf(e) = {} BY <1>2, FS_EmptySet
<1>3. CASE ItemsOf(e) # {}
  <2>1. PICK k : ItemsOf(e) = {k} BY <1>1, <1>3 DEF ItemsOf
  <2>2. Cardinality(ItemsOf(e)) = 1 BY <2>1, FS_Singleton
  <2> QED BY <2>2
<1> QED BY <1>2, <1>3

(* Stripe is asked to charge an entry of the ledger at most once, however *)
(* often the job dies and whether or not Stripe remembers what it was *)
(* asked, until an actor writes what another one has changed since it *)
(* read: the status that is saved before the call is what matters. *)
THEOREM NeverBilledTwiceCorrect == Spec => []NeverBilledTwice
<1>1. Spec => []ChargeInv BY ChargeInit, ChargeStep, PTL DEF Spec
<1> QED BY <1>1, NoneTwice, PTL

-----------------------------------------------------------------------------
(* A cancelled plan is not renewed again. *)

LEMMA LastRenewalFacts ==
  ASSUME NEW ps, NEW ls, Sound(ps, ls), NEW i \in DOMAIN ps
  PROVE  /\ LastRenewal(ls, i) \in DOMAIN ls /\ ls[LastRenewal(ls, i)].renewal
         /\ ls[LastRenewal(ls, i)].time \in Nat
<1> DEFINE es == RenewalsOf(ls, i)
<1>1. es \subseteq DOMAIN ls /\ es # {} /\ \A e \in es : ls[e].renewal
  BY DEF RenewalsOf, EntriesOf, Sound, EachRenewed
<1> HIDE DEF es
<1>2. Latest(es) \in es BY <1>1, LatestTyped DEF Sound, TablesTyped
<1>3. ls[Latest(es)] \in LedgerRow BY <1>1, <1>2 DEF Sound, TablesTyped
<1> QED BY <1>1, <1>2, <1>3 DEF LastRenewal, LedgerRow, es

LEMMA LastRenewalOfPlan ==
  ASSUME NEW ps, NEW ls, Sound(ps, ls), NEW i \in DOMAIN ps
  PROVE  LastRenewal(ls, i) \in RenewalsOf(ls, i) /\ ls[LastRenewal(ls, i)].plan = i
<1> DEFINE es == RenewalsOf(ls, i)
<1>1. es \subseteq DOMAIN ls /\ es # {} /\ \A e \in es : ls[e].plan = i
  BY DEF RenewalsOf, EntriesOf, Sound, EachRenewed
<1> HIDE DEF es
<1>2. Latest(es) \in es BY <1>1, LatestTyped DEF Sound, TablesTyped
<1> QED BY <1>1, <1>2 DEF LastRenewal, es

(* Times of the ledger are numbers. *)
LEMMA RenewedLater ==
  ASSUME NEW ls \in Seq(LedgerRow), NEW t \in Int, NEW n \in Int, RenewedBy(ls, t)
  PROVE  /\ t <= n => RenewedBy(ls, n)
         /\ t < n => \A e \in DOMAIN ls : ls[e].renewal => ls[e].time < n
<1>1. \A e \in DOMAIN ls : ls[e] \in LedgerRow OBVIOUS
<1>2. \A e \in DOMAIN ls : ls[e].time \in Int BY <1>1 DEF LedgerRow
<1> QED BY <1>2 DEF RenewedBy

(* The next cycle of a live plan begins after all renewals. *)
LEMMA CycleIsLater ==
  ASSUME NEW ps, NEW ls, Sound(ps, ls), NEW n \in Nat, Dated(ps, ls, n), NEW i \in Live(ps)
  PROVE  LET cycle == get_next_billing_cycle(i, ps[i], ls)
         IN  /\ cycle \in Nat /\ RenewedBy(ls, cycle)
             /\ ps[i].status \in Trials => cycle = ps[i].next
             /\ ps[i].status \notin Trials =>
                  \A e \in DOMAIN ls : ls[e].renewal => ls[e].time < cycle
<1> USE BillingAssumption
<1> DEFINE cycle == get_next_billing_cycle(i, ps[i], ls)
<1>1. /\ i \in DOMAIN ps /\ ps[i] \in Row /\ ps[i].next \in Nat /\ ps[i].anchor \in Nat
      /\ ls \in Seq(LedgerRow)
  <2>1. /\ i \in DOMAIN ps /\ ps[i] \in Row /\ ls \in Seq(LedgerRow) /\ ps[i].next # None
    BY DEF Live, Sound, TablesTyped, LiveAreInvoiced
  <2> QED BY <2>1 DEF Row
<1>2. cycle \in Nat BY <1>1, BillingCycleTyped
<1>3. CASE ps[i].status \in Trials
  <2>1. cycle = ps[i].next BY <1>3 DEF get_next_billing_cycle
  <2> QED BY <1>2, <1>3, <2>1 DEF Dated, TrialDated
<1>4. CASE ps[i].status \notin Trials
  <2> DEFINE step == Month * (IF ps[i].schedule = "annual" THEN MonthsPerYear ELSE 1)
             last == ls[LastRenewal(ls, i)].time
  <2>1. last \in Nat BY <1>1, LastRenewalFacts
  <2>2. step \in Nat \ {0}
    <3>1. CASE ps[i].schedule = "annual"
      <4>1. Month * MonthsPerYear \in Nat \ {0} OBVIOUS
      <4> QED BY <3>1, <4>1
    <3>2. CASE ps[i].schedule # "annual" BY <3>2
    <3> QED BY <3>1, <3>2
  <2>3. cycle = FirstAfter(ps[i].anchor, step, last)
    BY <1>4 DEF get_next_billing_cycle, start_of_next_billing_cycle, LastRenewal, RenewalsOf
  <2>4. RenewedBy(ls, last) BY <1>4 DEF Dated
  <2> HIDE DEF step, last, cycle
  <2>5. last < cycle BY <1>1, <2>1, <2>2, <2>3, FirstAfterTyped
  <2>6. RenewedBy(ls, cycle) /\ \A e \in DOMAIN ls : ls[e].renewal => ls[e].time < cycle
    BY <1>1, <1>2, <2>1, <2>4, <2>5, RenewedLater
  <2> QED BY <1>2, <1>4, <2>6 DEF cycle
<1> QED BY <1>3, <1>4

(* Writes of rows that end plans, or leave trials what they are. *)
LEMMA RowsKeepDated ==
  ASSUME NEW ps \in Seq(Row), NEW qs \in Seq(Row), NEW ls \in Seq(LedgerRow), NEW t,
         Dated(ps, ls, t),
         \A i \in Live(qs) :
           /\ i \in Live(ps)
           /\ qs[i].status \in Trials => /\ ps[i].status \in Trials
                                         /\ qs[i].anchor = ps[i].anchor
                                         /\ ps[i].next <= qs[i].next
           /\ qs[i].status \notin Trials => ps[i].status \notin Trials
  PROVE  Dated(qs, ls, t)
<1>1. ASSUME NEW i \in Live(qs), qs[i].status \in Trials PROVE TrialDated(qs[i], ls, t)
  <2>1. TrialDated(ps[i], ls, t) BY <1>1 DEF Dated
  <2>2. ps[i] \in Row /\ qs[i] \in Row BY DEF Live
  <2>3. \A row \in Row : row.next \in Int /\ row.anchor \in Int
    BY DEF Row, None
  <2>4. RenewedBy(ls, qs[i].next)
    BY <1>1, <2>1, <2>2, <2>3, RenewedLater DEF TrialDated
  <2> QED BY <1>1, <2>1, <2>2, <2>3, <2>4 DEF TrialDated
<1>2. ASSUME NEW i \in Live(qs), qs[i].status \notin Trials
      PROVE  RenewedBy(ls, ls[LastRenewal(ls, i)].time)
  BY <1>2 DEF Dated
<1> QED BY <1>1, <1>2 DEF Dated

(* An entry that is not a renewal. *)
LEMMA EntryKeepsDated ==
  ASSUME NEW ps, NEW ls, Sound(ps, ls), NEW e \in LedgerRow, ~e.renewal, NEW t, NEW end,
         Dated(ps, ls, t), Kept(ps, ls, end)
  PROVE  Dated(ps, Append(ls, e), t) /\ Kept(ps, Append(ls, e), end)
<1> DEFINE ms == Append(ls, e)
<1>1. /\ DOMAIN ms = DOMAIN ls \cup {Len(ls) + 1} /\ ms[Len(ls) + 1] = e
      /\ \A k \in DOMAIN ls : ms[k] = ls[k]
  BY RowAppended DEF Sound, TablesTyped
<1> HIDE DEF ms
<1>2. \A k \in DOMAIN ms : ms[k].renewal => k \in DOMAIN ls /\ ms[k] = ls[k]
  BY <1>1
<1>3. \A i : RenewalsOf(ms, i) = RenewalsOf(ls, i)
  BY <1>1, <1>2 DEF RenewalsOf, EntriesOf
<1>4. \A n : RenewedBy(ls, n) => RenewedBy(ms, n) BY <1>2 DEF RenewedBy
<1>5. ASSUME NEW i \in Live(ps), ps[i].status \notin Trials
      PROVE  RenewedBy(ms, ms[LastRenewal(ms, i)].time)
  <2> DEFINE k == LastRenewal(ls, i)
  <2>1. RenewedBy(ls, ls[k].time) /\ LastRenewal(ms, i) = k
    BY <1>3, <1>5 DEF Dated, LastRenewal
  <2>2. k \in DOMAIN ls /\ ms[k] = ls[k] BY <1>1, LastRenewalFacts DEF Live
  <2> QED BY <1>4, <2>1, <2>2
<1> QED BY <1>2, <1>4, <1>5 DEF Dated, Kept, TrialDated, ms

(* A renewal that is appended is the last one of its plan. *)
LEMMA RenewalAppended ==
  ASSUME NEW ls \in Seq(LedgerRow), NEW e \in LedgerRow, e.renewal
  PROVE  Append(ls, e)[LastRenewal(Append(ls, e), e.plan)] = e
<1> DEFINE ms == Append(ls, e)
           n == Len(ls) + 1
<1>1. /\ ms \in Seq(LedgerRow) /\ DOMAIN ms = DOMAIN ls \cup {n} /\ ms[n] = e
      /\ \A k \in DOMAIN ls : ms[k] = ls[k] /\ k \in Nat /\ k < n
      /\ n \in Nat
  BY RowAppended
<1> HIDE DEF ms, n
<1> DEFINE es == RenewalsOf(ms, e.plan)
<1>2. n \in es /\ es \subseteq DOMAIN ms /\ \A k \in es : k \in Nat /\ k <= n
  BY <1>1 DEF RenewalsOf, EntriesOf
<1> HIDE DEF es
<1> DEFINE m == Latest(es)
<1>3. m \in es /\ n <= m BY <1>1, <1>2, LatestTyped
<1> HIDE DEF m
<1>4. m = n BY <1>1, <1>2, <1>3
<1> QED BY <1>1, <1>4 DEF LastRenewal, es, m, ms

(* A renewal of the only live plan, which is not before the other ones. *)
LEMMA RenewalKeepsDated ==
  ASSUME NEW qs, NEW ls \in Seq(LedgerRow), NEW e \in LedgerRow, e.renewal, NEW t \in Int,
         RenewedBy(ls, e.time), e.time <= t,
         \A i \in Live(qs) : i = e.plan /\ qs[i].status \notin Trials
  PROVE  Dated(qs, Append(ls, e), t)
<1> DEFINE ms == Append(ls, e)
           n == Len(ls) + 1
<1>1. /\ ms \in Seq(LedgerRow) /\ DOMAIN ms = DOMAIN ls \cup {n} /\ ms[n] = e
      /\ \A k \in DOMAIN ls : ms[k] = ls[k] /\ k \in Nat /\ k < n
      /\ n \in Nat
  BY RowAppended
<1>2. e.time \in Int BY DEF LedgerRow
<1> HIDE DEF ms, n
<1>3. RenewedBy(ms, e.time) BY <1>1, <1>2 DEF RenewedBy
<1>4. RenewedBy(ms, t) BY <1>1, <1>2, <1>3, RenewedLater
<1>5. ms[LastRenewal(ms, e.plan)] = e BY RenewalAppended DEF ms
<1> QED BY <1>1, <1>3, <1>4, <1>5 DEF Dated, ms

(* No one is renewed, or no plan was to end. *)
LEMMA FewerKept ==
  ASSUME NEW ps, NEW qs, NEW ls, NEW end, Kept(ps, ls, end),
         \A i \in Live(qs) : i \in Live(ps) /\ qs[i].status = ps[i].status
  PROVE  Kept(qs, ls, end)
  BY DEF Kept

LEMMA NoneToKeep ==
  ASSUME NEW ps, NEW ls, NEW end, Kept(ps, ls, end), NEW i \in Live(ps),
         ps[i].status \notin Downgrades
  PROVE  end = None
  BY DEF Kept

(* make_end_of_cycle_updates_if_needed renews a plan in the order of the *)
(* times, and only one that goes on. *)
LEMMA CycleKeepsDated ==
  ASSUME NEW ps, NEW ls, Sound(ps, ls), NEW i \in DOMAIN ps, NEW t \in Int, NEW n \in Nat, t <= n,
         NEW end \in Int, Dated(ps, ls, n), Kept(ps, ls, end),
         NEW c, c = make_end_of_cycle_updates_if_needed(Reading(i, ps[i], t, ls), ps, ls)
  PROVE  /\ Dated(c.plans, c.ledger, n) /\ Kept(c.plans, c.ledger, end)
         /\ c.last # 0 /\ c.copy.status \in Trials => t < c.copy.next
         /\ c.copy.status \in LiveStatuses =>
              \/ c.copy.status = ps[i].status
              \/ ps[i].status = "FREE_TRIAL" /\ c.copy.status = "ACTIVE"
         /\ c.copy.status \in LiveStatuses /\ ps[i].status = "FREE_TRIAL" =>
              TrialDated(c.copy, c.ledger, n)
<1>1. /\ Cycled(ps, ls, i, t, c) /\ c.copy = c.plans[i] /\ DOMAIN ps \subseteq DOMAIN c.plans
      /\ ps \in Seq(Row) /\ ls \in Seq(LedgerRow)
  BY CycleWrites, CycleKeepsSound DEF Sound, TablesTyped
<1>2. c.plans[i].status \in LiveStatuses <=> i \in Live(c.plans)
  BY <1>1 DEF Live
<1>3. \A s \in Trials : s \in LiveStatuses BY DEF LiveStatuses
<1>4. i \in Live(ps) => /\ CycleOf(ps, ls, i) \in Nat /\ RenewedBy(ls, CycleOf(ps, ls, i))
                        /\ ps[i].status \in Trials => CycleOf(ps, ls, i) = ps[i].next
  BY CycleIsLater DEF CycleOf
<1>5. CASE Stays(ps, ls, i, t, c)
  <2>1. c.plans = ps /\ c.ledger = ls /\ (i \in Live(ps) <=> ps[i].status \in LiveStatuses)
    BY <1>5 DEF Stays, Live
  <2>2. c.last # 0 /\ ps[i].status \in Trials => t < ps[i].next
    BY <1>3, <1>4, <1>5, <2>1 DEF Stays
  <2>3. ps[i].status = "FREE_TRIAL" => TrialDated(ps[i], ls, n)
    BY <1>3, <2>1 DEF Dated, Trials
  <2>4. c.copy = ps[i] BY <1>1, <2>1
  <2> QED BY <2>1, <2>2, <2>3, <2>4
<1>6. CASE ~ Stays(ps, ls, i, t, c) /\ Live(c.plans) = {}
  <2>1. c.ledger = ls
    <3>1. \A e : ~ RenewsWith(ps, ls, i, t, c, e) BY <1>6 DEF RenewsWith
    <3> QED BY <1>1, <1>6, <3>1, CycleOutcome DEF Ends
  <2>2. c.copy.status \notin LiveStatuses /\ c.copy.status \notin Trials
    BY <1>1, <1>2, <1>3, <1>6
  <2> QED BY <1>6, <2>1, <2>2 DEF Dated, Kept
<1>7. CASE ~ Stays(ps, ls, i, t, c) /\ Live(c.plans) # {}
  <2>1. PICK e : RenewsWith(ps, ls, i, t, c, e) BY <1>1, <1>7, CycleOutcome
  <2>2. i \in Live(ps) /\ CycleOf(ps, ls, i) <= t /\ CycleOf(ps, ls, i) <= n
    BY <1>1, <1>4, <1>7, CycleOutcome
  <2>3. /\ e \in LedgerRow /\ e.renewal /\ e.time = CycleOf(ps, ls, i) /\ c.ledger = Append(ls, e)
        /\ \A k \in Live(c.plans) : k = e.plan /\ c.plans[k].status \notin Trials
    BY <2>1 DEF RenewsWith, RenewedAt, Trials
  <2>4. Dated(c.plans, c.ledger, n)
    <3>1. RenewedBy(ls, e.time) /\ e.time <= n /\ n \in Int
      BY <1>4, <2>2, <2>3
    <3> DEFINE qs == c.plans
    <3>2. \A k \in Live(qs) : k = e.plan /\ qs[k].status \notin Trials
      BY <2>3
    <3> HIDE DEF qs
    <3>3. Dated(qs, Append(ls, e), n)
      BY <1>1, <2>3, <3>1, <3>2, RenewalKeepsDated
    <3> QED BY <2>3, <3>3 DEF qs
  <2>5. Kept(c.plans, c.ledger, end)
    <3>1. ps[i].status \notin Downgrades
      BY <2>1 DEF RenewsWith, GoesOn, Starts, Switched, Switches, Downgrades
    <3> QED BY <2>2, <3>1, NoneToKeep DEF Kept
  <2>6. CASE i # e.plan
    <3>1. c.copy.status \notin LiveStatuses /\ c.copy.status \notin Trials
      BY <1>1, <1>2, <1>3, <2>3, <2>6
    <3> QED BY <2>4, <2>5, <3>1
  <2>7. CASE i = e.plan
    <3>1. /\ c.copy.status = "ACTIVE" /\ c.copy.status \notin Trials
          /\ \/ ps[i].status = "ACTIVE"
             \/ ps[i].status = "FREE_TRIAL" /\ Starts(ps, ls, i, t, c) /\ c.copy.next = ps[i].next
      BY <1>1, <2>1, <2>7 DEF RenewsWith, GoesOn, Starts, Trials
    <3>2. ASSUME ps[i].status = "FREE_TRIAL" PROVE TrialDated(c.copy, c.ledger, n)
      <4>1. c.copy.next = e.time /\ c.copy.anchor = e.time
        BY <1>1, <1>4, <2>2, <2>3, <3>1, <3>2 DEF Starts, Written, Trials
      <4>2. RenewedBy(c.ledger, e.time)
        <5>1. \A k \in DOMAIN c.ledger : c.ledger[k] = e \/ (k \in DOMAIN ls /\ c.ledger[k] = ls[k])
          BY <1>1, <2>3, RowAppended
        <5> QED BY <1>4, <2>2, <2>3, <5>1 DEF RenewedBy
      <4> QED BY <1>4, <2>2, <2>3, <4>1, <4>2 DEF TrialDated
    <3> QED BY <2>4, <2>5, <3>1, <3>2
  <2> QED BY <2>6, <2>7
<1> QED BY <1>5, <1>6, <1>7

(* A renewal of the only live plan, a trial. *)
LEMMA TrialKeepsDated ==
  ASSUME NEW qs, NEW ls \in Seq(LedgerRow), NEW e \in LedgerRow, e.renewal, NEW t \in Int,
         RenewedBy(ls, t), e.time <= t,
         \A i \in Live(qs) : /\ qs[i].status \in Trials /\ TrialDated(qs[i], ls, t)
                             /\ e.time <= qs[i].next
  PROVE  Dated(qs, Append(ls, e), t)
<1>1. /\ DOMAIN Append(ls, e) = DOMAIN ls \cup {Len(ls) + 1} /\ Append(ls, e)[Len(ls) + 1] = e
      /\ \A k \in DOMAIN ls : Append(ls, e)[k] = ls[k]
  BY RowAppended
<1>2. \A n : RenewedBy(ls, n) /\ e.time <= n => RenewedBy(Append(ls, e), n)
  BY <1>1 DEF RenewedBy
<1> QED BY <1>2 DEF Dated, TrialDated

(* The job begins, dies or makes an invoice of its items. *)
LEMMA JobQuiet ==
  ASSUME invoice_plans_as_needed \/ CreateInvoice \/ JobDies
  PROVE  /\ UNCHANGED <<plans, ledger, marks, now, items, cancelled, tx>>
         /\ \/ job'.entries = {} /\ job'.step \in {"idle", "cycle"}
            \/ job.step = "entry" /\ job' = [job EXCEPT !.made = FALSE]
<1>1. CASE invoice_plans_as_needed
  BY <1>1 DEF invoice_plans_as_needed, tables, clock, stripe, NoJob
<1>2. CASE CreateInvoice BY <1>2 DEF CreateInvoice, tables, clock
<1>3. CASE JobDies BY <1>3 DEF JobDies, tables, clock, stripe, NoJob
<1> QED BY <1>1, <1>2, <1>3

(* Steps that leave the tables and what was read alone. *)
LEMMA HonouredStays ==
  ASSUME Honoured, UNCHANGED <<plans, ledger, cancelled, now, tx>>, job'.step # "switch"
  PROVE  Honoured'
  BY DEF Honoured, ReadsDated

(* Steps of actors other than the job. *)
LEMMA ReadsStay ==
  ASSUME Uncrossed, Honoured, UNCHANGED <<job, now>>, NEW t \in Transactions, NEW x,
         tx' = [tx EXCEPT ![t] = x], x.kind # "request",
         x.kind = "user" /\ x.plan # 0 => x.reading.time <= now
  PROVE  ReadsDated'
<1>1. DOMAIN tx = Transactions BY DEF Uncrossed, TxSound
<1>2. \A u \in Transactions : tx'[u] = IF u = t THEN x ELSE tx[u] BY <1>1
<1> QED BY <1>2 DEF Honoured, ReadsDated

LEMMA BeginUserChangeHonours ==
  ASSUME Uncrossed, Honoured, NEW t \in Transactions, NEW delta \in {-1, 1},
         BeginUserChange(t, delta)
  PROVE  Honoured'
<1> DEFINE i == get_current_plan(plans)
           x == [kind |-> "user", delta |-> delta, count |-> users + delta, plan |-> i,
                 reading |-> IF i = 0 THEN 0 ELSE Reading(i, plans[i], now, ledger)]
<1>1. tx' = [tx EXCEPT ![t] = x] /\ UNCHANGED <<plans, ledger, job, now, cancelled>>
  BY DEF BeginUserChange, tables, clock
<1>2. now \in Nat BY DEF Uncrossed
<1>3. x.plan # 0 => x.reading.time <= now BY <1>2 DEF Reading
<1>5. x.kind # "request" OBVIOUS
<1> HIDE DEF x
<1>4. ReadsDated' BY <1>1, <1>3, <1>5, ReadsStay
<1> QED BY <1>1, <1>4 DEF Honoured

LEMMA CommitUserChangeHonours ==
  ASSUME Uncrossed, Honoured, ~crossed', crossed \in BOOLEAN, NEW t \in Transactions,
         CommitUserChange(t)
  PROVE  Honoured'
<1> DEFINE x == tx[t]
           i == get_current_plan(plans)
           time == x.reading.time
           c == make_end_of_cycle_updates_if_needed(x.reading, plans, ledger)
<1>1. /\ x.kind = "user" /\ tx' = [tx EXCEPT ![t] = Free] /\ UNCHANGED <<job, now, cancelled>>
  BY DEF CommitUserChange, clock
<1>2. UserTyped(x) BY <1>1 DEF Uncrossed, TxSound
<1>3. ReadsDated'
  <2>1. Free.kind \notin {"user", "request"} BY DEF Free
  <2> QED BY <1>1, <2>1, ReadsStay
<1>4. CASE x.plan = 0
  <2>1. UNCHANGED tables BY <1>4 DEF CommitUserChange
  <2> QED BY <1>1, <1>3, <2>1 DEF Honoured, tables
<1>5. CASE x.plan # 0
  <2>1. /\ i = x.plan
        /\ i # 0 => Reading(i, plans[i], x.reading.time, ledger) = x.reading
    BY DEF CommitUserChange
  <2>2. i \in DOMAIN plans /\ x.reading = Reading(i, plans[i], time, ledger)
    BY <1>5, <2>1, CurrentPlan DEF Uncrossed
  <2>3. /\ time \in Nat /\ time <= now /\ now \in Nat /\ cancelled \in Int
        /\ Dated(plans, ledger, now) /\ Kept(plans, ledger, cancelled)
    BY <1>1, <1>2, <1>5 DEF UserTyped, Honoured, ReadsDated, Uncrossed
  <2>4. c = make_end_of_cycle_updates_if_needed(Reading(i, plans[i], time, ledger), plans, ledger)
    BY <2>2
  <2> HIDE DEF time, i
  <2>5. /\ Sound(c.plans, c.ledger) /\ c.last \in Nat /\ (c.last # 0 => c.last \in DOMAIN c.ledger)
        /\ c.new \in Nat
    <3> HIDE DEF c
    <3> QED BY <2>2, <2>3, <2>4, CycleKeepsSound DEF Uncrossed
  <2>6. Dated(c.plans, c.ledger, now) /\ Kept(c.plans, c.ledger, cancelled)
    <3> HIDE DEF c
    <3> QED BY <2>2, <2>3, <2>4, CycleKeepsDated DEF Uncrossed
  <2> DEFINE licenses == Max({x.count, c.ledger[c.last].licenses})
             e == Entry(IF c.new # 0 THEN c.new ELSE x.reading.id, FALSE, x.reading.time,
                        licenses, x.count)
  <2>7. plans' = c.plans /\ ledger' = IF c.last = 0 THEN c.ledger ELSE Append(c.ledger, e)
    BY <1>5 DEF CommitUserChange, update_license_ledger_for_automanaged_plan
  <2>8. CASE c.last = 0
    <3> HIDE DEF c
    <3> QED BY <1>1, <1>3, <2>6, <2>7, <2>8 DEF Honoured
  <2>9. CASE c.last # 0
    <3>1. x.reading.id = i /\ i \in Nat
      BY <2>2 DEF Reading, Uncrossed, Sound, TablesTyped
    <3> HIDE DEF c
    <3>2. licenses \in Int
      <4>1. c.ledger[c.last] \in LedgerRow
        BY <2>5, <2>9 DEF Sound, TablesTyped
      <4> QED BY <1>2, <4>1, MaxOfTwo DEF LedgerRow, UserTyped
    <3>3. e \in LedgerRow /\ ~e.renewal
      <4> HIDE DEF licenses
      <4> QED BY <1>2, <2>3, <2>5, <3>1, <3>2 DEF Entry, LedgerRow, UserTyped, time
    <3> HIDE DEF e
    <3>4. Dated(c.plans, Append(c.ledger, e), now) /\ Kept(c.plans, Append(c.ledger, e), cancelled)
      BY <2>5, <2>6, <3>3, EntryKeepsDated
    <3> QED BY <1>1, <1>3, <2>3, <2>7, <2>9, <3>4 DEF Honoured
  <2> QED BY <2>8, <2>9
<1> QED BY <1>4, <1>5

LEMMA BeginUpgradeHonours ==
  ASSUME Uncrossed, Honoured, NEW t \in Transactions, NEW licenses \in 1..MaxUsers,
         NEW schedule \in Schedules, BeginUpgrade(t, licenses, schedule)
  PROVE  Honoured'
<1> DEFINE x == [kind |-> "upgrade", licenses |-> licenses, schedule |-> schedule,
                 trial |-> trial_days > 0 /\ plans = <<>>]
<1>1. tx' = [tx EXCEPT ![t] = x] /\ UNCHANGED <<plans, ledger, job, now, cancelled>>
  BY DEF BeginUpgrade, tables, clock
<1>2. x.kind \notin {"user", "request"} OBVIOUS
<1> HIDE DEF x
<1>3. ReadsDated' BY <1>1, <1>2, ReadsStay
<1> QED BY <1>1, <1>3 DEF Honoured

LEMMA UpgradeHonours ==
  ASSUME Uncrossed, Honoured, ~crossed', crossed \in BOOLEAN, NEW t \in Transactions,
         process_initial_upgrade(t)
  PROVE  Honoured'
<1> DEFINE new == Upgraded(tx[t])
           i == Len(plans) + 1
           qs == Append(plans, new.plan)
<1>1. /\ tx[t].kind = "upgrade" /\ plans' = qs
      /\ ledger' = ledger \o new.entries /\ tx' = [tx EXCEPT ![t] = Free]
      /\ get_current_plan(plans) = 0
      /\ UNCHANGED <<job, now>> /\ cancelled' = None
  BY DEF process_initial_upgrade, clock
<1>2. UpgradeTyped(tx[t]) BY <1>1 DEF Uncrossed, TxSound
<1>3. ReadsDated'
  <2>1. Free.kind \notin {"user", "request"} BY DEF Free
  <2> QED BY <1>1, <2>1, ReadsStay
<1>4. /\ new.plan \in Row /\ new.plan.next # None
      /\ new.plan.status \in Trials => new.plan.anchor = now /\ now <= new.plan.next
  BY <1>2, UpgradedRows
<1>5. PICK e \in LedgerRow :
        /\ e.plan = Len(plans) + 1 /\ e.renewal /\ e.time = now
        /\ \/ new.entries = <<e>>
           \/ \E f \in LedgerRow : ~f.renewal /\ new.entries = <<e, f>>
  BY <1>2, UpgradedRows
<1> HIDE DEF new
<1>6. /\ plans \in Seq(Row) /\ ledger \in Seq(LedgerRow) /\ Live(plans) = {} /\ now \in Nat
      /\ RenewedBy(ledger, now)
  BY <1>1, CurrentPlan DEF Uncrossed, Sound, TablesTyped, Honoured, Dated
<1>7. \A k \in Live(qs) : k = i /\ qs[k] = new.plan
  <2>1. /\ DOMAIN qs = DOMAIN plans \cup {i} /\ qs[i] = new.plan
        /\ \A k \in DOMAIN plans : qs[k] = plans[k]
    BY <1>4, <1>6, RowAppended
  <2> QED BY <1>6, <2>1 DEF Live
<1> DEFINE ms == Append(ledger, e)
<1>8. Sound(qs, ms) BY <1>4, <1>5, <1>6, PlanKeepsSound DEF Uncrossed
<1> HIDE DEF qs
<1>9. Dated(qs, ms, now)
  <2>1. CASE new.plan.status \in Trials
    <3>1. new.plan.next \in Int /\ new.plan.anchor \in Int
      BY <1>4 DEF Row, None
    <3>2. RenewedBy(ledger, new.plan.next)
      BY <1>4, <1>6, <2>1, <3>1, RenewedLater
    <3>3. \A k \in Live(qs) : /\ qs[k].status \in Trials /\ TrialDated(qs[k], ledger, now)
                              /\ e.time <= qs[k].next
      BY <1>4, <1>5, <1>6, <1>7, <2>1, <3>2 DEF TrialDated
    <3>4. e.time <= now /\ now \in Int BY <1>5, <1>6
    <3>5. Dated(qs, Append(ledger, e), now)
      BY <1>5, <1>6, <3>3, <3>4, TrialKeepsDated
    <3> QED BY <3>5
  <2>2. CASE new.plan.status \notin Trials
    <3>1. \A k \in Live(qs) : k = e.plan /\ qs[k].status \notin Trials
      BY <1>5, <1>7, <2>2
    <3>2. e.renewal /\ RenewedBy(ledger, e.time) /\ e.time <= now /\ now \in Int
      BY <1>5, <1>6
    <3>3. Dated(qs, Append(ledger, e), now)
      BY <1>5, <1>6, <3>1, <3>2, RenewalKeepsDated
    <3> QED BY <3>3
  <2> QED BY <2>1, <2>2
<1>10. Kept(qs, ms, None) BY DEF Kept
<1>11. Dated(plans', ledger', now)
  <2>1. CASE new.entries = <<e>>
    <3>1. ledger' = ms BY <1>1, <1>6, <2>1
    <3> QED BY <1>1, <1>9, <3>1
  <2>2. CASE \E f \in LedgerRow : ~f.renewal /\ new.entries = <<e, f>>
    <3>1. PICK f \in LedgerRow : ~f.renewal /\ new.entries = <<e, f>>
      BY <2>2
    <3>2. ledger' = Append(ms, f) BY <1>1, <1>6, <3>1
    <3> HIDE DEF ms
    <3>3. Dated(qs, Append(ms, f), now)
      BY <1>8, <1>9, <1>10, <3>1, EntryKeepsDated
    <3> QED BY <1>1, <3>2, <3>3
  <2> QED BY <1>5, <2>1, <2>2
<1> QED BY <1>1, <1>3, <1>11 DEF Honoured, Kept, None

(* The write of such a row. *)
LEMMA WriteKeepsDated ==
  ASSUME NEW ps, NEW ls, Sound(ps, ls), NEW i \in DOMAIN ps, NEW row \in Row, NEW t,
         Dated(ps, ls, t), NEW qs, Written(ps, i, row, qs),
         row.status \in LiveStatuses => i \in Live(ps), Succeeds(ps[i], row)
  PROVE  /\ Dated(qs, ls, t)
         /\ Live(qs) \subseteq Live(ps) /\ (i \in Live(qs) => qs[i] = row)
         /\ \A k \in Live(qs) : k # i => qs[k] = ps[k]
<1>1. /\ ps \in Seq(Row) /\ ls \in Seq(LedgerRow) /\ qs \in Seq(Row) /\ DOMAIN qs = DOMAIN ps
      /\ qs[i] = row /\ \A k \in DOMAIN ps : k # i => qs[k] = ps[k]
  BY DEF Written, Sound, TablesTyped
<1>2. /\ Live(qs) \subseteq Live(ps) /\ (i \in Live(qs) => qs[i] = row)
      /\ \A k \in Live(qs) : k # i => qs[k] = ps[k]
  BY <1>1 DEF Live
<1>3. ASSUME NEW k \in Live(qs)
      PROVE  /\ k \in Live(ps)
             /\ qs[k].status \in Trials => /\ ps[k].status \in Trials
                                           /\ qs[k].anchor = ps[k].anchor
                                           /\ ps[k].next <= qs[k].next
             /\ qs[k].status \notin Trials => ps[k].status \notin Trials
  <2>1. CASE k = i
    <3>1. row.status \in LiveStatuses BY <1>1, <2>1 DEF Live
    <3> QED BY <1>2, <2>1, <3>1 DEF Succeeds
  <2>2. CASE k # i
    <3>1. qs[k] = ps[k] /\ ps[k] \in Row BY <1>1, <1>2, <2>2 DEF Live
    <3>2. ps[k].next <= ps[k].next BY <3>1 DEF Row, None
    <3> QED BY <1>2, <3>1, <3>2
  <2> QED BY <2>1, <2>2
<1>4. Dated(qs, ls, t) BY <1>1, <1>3, RowsKeepDated
<1> QED BY <1>2, <1>4

(* A plan ends. *)
LEMMA EndKeepsDated ==
  ASSUME NEW ps, NEW ls, Sound(ps, ls), NEW i \in DOMAIN ps, NEW row \in Row,
         row.status = "ENDED", NEW t, Dated(ps, ls, t), NEW end, Kept(ps, ls, end),
         NEW qs, Written(ps, i, row, qs)
  PROVE  Dated(qs, ls, t) /\ Kept(qs, ls, end)
<1>1. row.status \notin LiveStatuses /\ row.status \notin Trials
  BY DEF LiveStatuses, Trials, Switches
<1>2. /\ Dated(qs, ls, t) /\ Live(qs) \subseteq Live(ps) /\ (i \in Live(qs) => qs[i] = row)
      /\ \A k \in Live(qs) : k # i => qs[k] = ps[k]
  <2>1. (row.status \in LiveStatuses => i \in Live(ps)) /\ Succeeds(ps[i], row)
    BY <1>1 DEF Succeeds
  <2> QED BY <2>1, WriteKeepsDated
<1>3. \A k \in Live(qs) : qs[k].status = ps[k].status BY <1>1, <1>2 DEF Live
<1>4. Kept(qs, ls, end) BY <1>2, <1>3, FewerKept
<1> QED BY <1>2, <1>4

LEMMA DowngradeNowHonours ==
  ASSUME Uncrossed, Honoured, downgrade_now PROVE Honoured'
<1> DEFINE i == get_current_plan(plans)
           row == DowngradedNow(plans[i], i, ledger)
<1>1. /\ plans' = [plans EXCEPT ![i] = row]
      /\ UNCHANGED <<now, ledger, tx, job, cancelled>> /\ i \in DOMAIN plans
  BY CurrentPlan DEF downgrade_now, Uncrossed, clock
<1>2. row \in Row /\ row.status = "ENDED"
  BY <1>1, DowngradedTyped DEF Uncrossed, Sound
<1> HIDE DEF i, row
<1>3. Dated(plans', ledger, now) /\ Kept(plans', ledger, cancelled)
  <2>1. Written(plans, i, row, plans')
    BY <1>1, <1>2, ExceptWrites DEF Uncrossed, Sound, TablesTyped
  <2> QED BY <1>1, <1>2, <2>1, EndKeepsDated DEF Uncrossed, Honoured
<1> QED BY <1>1, <1>3 DEF Honoured, ReadsDated

(* The status of a plan that goes on becomes the requested one. *)
LEMMA RequestedDated ==
  ASSUME NEW ps, NEW ls, Sound(ps, ls), NEW i \in Live(ps), NEW t \in Nat, Dated(ps, ls, t),
         NEW request \in LiveStatuses, request \in Trials <=> ps[i].status \in Trials,
         ps[i].status \in Trials => t < ps[i].next,
         NEW row, row = [ps[i] EXCEPT !.status = request], NEW qs, Written(ps, i, row, qs)
  PROVE  /\ Dated(qs, ls, t)
         /\ request \in Downgrades =>
              /\ get_next_billing_cycle(i, ps[i], ls) \in Int
              /\ Kept(qs, ls, get_next_billing_cycle(i, ps[i], ls))
<1> DEFINE cycle == get_next_billing_cycle(i, ps[i], ls)
<1>1. /\ i \in DOMAIN ps /\ ps[i] \in Row /\ ps[i].status \in LiveStatuses
      /\ ps \in Seq(Row) /\ ls \in Seq(LedgerRow)
  BY DEF Live, Sound, TablesTyped
<1>2. row \in Row /\ row.status = request /\ row.anchor = ps[i].anchor /\ row.next = ps[i].next
  BY <1>1 DEF Row
<1>3. Succeeds(ps[i], row) BY <1>1, <1>2 DEF Succeeds, Row, None
<1>5. /\ Dated(qs, ls, t) /\ Live(qs) \subseteq Live(ps) /\ (i \in Live(qs) => qs[i] = row)
      /\ \A k \in Live(qs) : k # i => qs[k] = ps[k]
  BY <1>1, <1>2, <1>3, WriteKeepsDated
<1>6. \A k \in Live(qs) : qs[k].status = request
  BY <1>2, <1>5 DEF Sound, AtMostOneLive
<1>7. /\ cycle \in Nat
      /\ ps[i].status \in Trials => cycle = ps[i].next
      /\ ps[i].status \notin Trials => \A e \in DOMAIN ls : ls[e].renewal => ls[e].time < cycle
  BY CycleIsLater
<1> HIDE DEF cycle
<1>8. \A e \in DOMAIN ls : ls[e].renewal => ls[e].time < cycle
  <2>1. CASE ps[i].status \in Trials
    <3>1. RenewedBy(ls, t) /\ t < cycle BY <1>7, <2>1 DEF Dated
    <3> QED BY <1>1, <1>7, <3>1, RenewedLater
  <2>2. CASE ps[i].status \notin Trials BY <1>7, <2>2
  <2> QED BY <2>1, <2>2
<1>9. request \in Downgrades => cycle \in Int /\ Kept(qs, ls, cycle)
  BY <1>6, <1>7, <1>8 DEF Kept
<1> QED BY <1>5, <1>9 DEF cycle

(* What it found is of a trial that goes on. *)
LEMMA NotedDated ==
  ASSUME Uncrossed, Honoured, NEW t \in Transactions, NEW request, NEW i, NEW c,
         Requested(i, c), Noted(t, request, i, c)
  PROVE  RequestDated(tx'[t], now)
<1> DEFINE p == c.plans[i]
           cycle == get_next_billing_cycle(i, p, c.ledger)
<1>1. /\ tx'[t] = [kind |-> "request", request |-> request, plan |-> i,
                   copy |-> p, terms |-> Terms(i, p, c.ledger)]
      /\ request \in Offered(plans[i]) /\ c.last # 0 /\ i \in Live(c.plans)
  BY DEF Noted, Uncrossed, TxSound
<1>2. /\ now \in Nat /\ now \in Int /\ now <= now /\ cancelled \in Int /\ Sound(plans, ledger)
      /\ Dated(plans, ledger, now) /\ Kept(plans, ledger, cancelled) /\ i \in DOMAIN plans
      /\ Sound(c.plans, c.ledger) /\ c.copy = p /\ i \in DOMAIN c.plans
      /\ c = make_end_of_cycle_updates_if_needed(Reading(i, plans[i], now, ledger), plans, ledger)
  BY DEF Uncrossed, Honoured, Requested, Live
<1>3. /\ p.status \in Trials => now < p.next
      /\ p.status \in LiveStatuses /\ plans[i].status = "FREE_TRIAL" => TrialDated(p, c.ledger, now)
  BY <1>1, <1>2, CycleKeepsDated
<1>4. p.status \in Trials => cycle = p.next BY DEF get_next_billing_cycle
<1>5. request \in Schedules => TrialDated(p, c.ledger, now)
  BY <1>1, <1>3 DEF Live, Offered, Schedules, Switches
<1>6. LastRenewal(c.ledger, i) \in RenewalsOf(c.ledger, i)
  BY <1>2, LastRenewalOfPlan
<1>7. Terms(i, p, c.ledger).cycle = cycle
      /\ Terms(i, p, c.ledger).renewed = c.ledger[LastRenewal(c.ledger, i)].time
  BY DEF Terms, LastRenewal, RenewalsOf
<1> HIDE DEF p, cycle
<1>8. TrialDated(p, c.ledger, now) => c.ledger[LastRenewal(c.ledger, i)].time <= p.next
  BY <1>6 DEF TrialDated, RenewedBy, RenewalsOf, EntriesOf
<1> QED BY <1>1, <1>2, <1>3, <1>4, <1>5, <1>7, <1>8 DEF RequestDated, TrialDated

LEMMA UpdatePlanHonours ==
  ASSUME Uncrossed, Honoured, NEW t \in Transactions, NEW request \in Requests,
         do_update_plan(t, request)
  PROVE  Honoured'
<1>1. PICK i, c : Requested(i, c) /\ (tx' = tx \/ Noted(t, request, i, c))
  BY UpdatePlanRenews
<1>2. UNCHANGED <<now, job, cancelled>> BY UpdatePlanRenews
<1>3. /\ now \in Nat /\ now \in Int /\ now <= now /\ cancelled \in Int /\ Sound(plans, ledger)
      /\ Dated(plans, ledger, now) /\ Kept(plans, ledger, cancelled) /\ i \in DOMAIN plans
      /\ c = make_end_of_cycle_updates_if_needed(Reading(i, plans[i], now, ledger), plans, ledger)
      /\ plans' = c.plans /\ ledger' = c.ledger
  BY <1>1 DEF Uncrossed, Honoured, Requested, Live
<1>4. Dated(c.plans, c.ledger, now) /\ Kept(c.plans, c.ledger, cancelled)
  BY <1>3, CycleKeepsDated
<1>5. ReadsDated'
  <2>1. Noted(t, request, i, c) => RequestDated(tx'[t], now)
    BY <1>1, NotedDated
  <2>2. \A u \in Transactions :
          tx'[u] = tx[u] \/ (u = t /\ tx'[u].kind = "request" /\ Noted(t, request, i, c))
    BY <1>1, TxNoted DEF Uncrossed
  <2> QED BY <1>2, <2>1, <2>2 DEF Honoured, ReadsDated
<1> QED BY <1>2, <1>3, <1>4, <1>5 DEF Honoured

LEMMA FinishUpdateHonours ==
  ASSUME Uncrossed, Honoured, ~crossed', crossed \in BOOLEAN, NEW t \in Transactions,
         NEW request \in Requests, FinishUpdate(t, request)
  PROVE  Honoured'
<1>1. UNCHANGED <<now, job>> /\ tx' = [tx EXCEPT ![t] = Free]
  BY DEF FinishUpdate, clock
<1>2. ReadsDated'
  <2>1. Free.kind \notin {"user", "request"} BY DEF Free
  <2> QED BY <1>1, <2>1, ReadsStay
<1>3. /\ now \in Nat /\ now \in Int /\ cancelled \in Int /\ Sound(plans, ledger)
      /\ Dated(plans, ledger, now) /\ Kept(plans, ledger, cancelled) /\ ledger \in Seq(LedgerRow)
  BY DEF Uncrossed, Honoured, Sound, TablesTyped
<1>4. CASE UNCHANGED <<plans, ledger, marks, cancelled>>
  BY <1>1, <1>2, <1>3, <1>4 DEF Honoured
<1> SUFFICES ASSUME NEW i, NEW y, UpdatedBy(request, i, y) PROVE Honoured'
  BY <1>4, UpdateWrites
<1>5. /\ i \in Live(plans) /\ i \in DOMAIN plans /\ RequestDated(y, now)
      /\ y.copy.status = plans[i].status /\ y.terms = Terms(i, plans[i], ledger)
      /\ y.request = request
  BY DEF UpdatedBy, Honoured, ReadsDated, Live
<1>6. plans[i].status \notin Downgrades => cancelled = None
  BY <1>3, <1>5, NoneToKeep
<1>7. /\ Dated(plans', ledger', now) /\ cancelled' \in Int /\ Kept(plans', ledger', cancelled')
  <2>2. CASE \E row : CutOff(i, row)
    <3>1. PICK row : CutOff(i, row) BY <2>2
    <3>2. /\ row \in Row /\ row.status = "ENDED" /\ Written(plans, i, row, plans')
          /\ ledger' = ledger /\ cancelled' = cancelled
      BY <3>1 DEF CutOff
    <3> QED BY <1>3, <1>5, <3>2, EndKeepsDated
  <2>3. CASE /\ request \in Schedules /\ plans[i] = y.copy
             /\ \E os, new, x : ScheduleChanged(i, os, new, x)
    <3>1. PICK os, new, x : ScheduleChanged(i, os, new, x) BY <2>3
    <3>2. /\ plans[i].status \in {"FREE_TRIAL", "ACTIVE"} /\ cancelled' = cancelled
          /\ new.status = "FREE_TRIAL" /\ new.anchor = plans[i].anchor /\ new.next = plans[i].next
          /\ ledger' = Append(ledger, x) /\ x \in LedgerRow /\ x.renewal
          /\ x.time = plans[i].anchor
      BY <3>1 DEF ScheduleChanged
    <3>3. cancelled = None BY <1>6, <3>2 DEF Downgrades
    <3>4. TrialDated(plans[i], ledger, now)
      <4>1. CASE plans[i].status = "FREE_TRIAL"
        BY <1>3, <1>5, <4>1 DEF Dated, Trials
      <4>2. CASE plans[i].status = "ACTIVE"
        <5>1. RenewedBy(ledger, ledger[LastRenewal(ledger, i)].time)
          BY <1>3, <1>5, <4>2 DEF Dated, Trials
        <5>2. /\ ledger[LastRenewal(ledger, i)].time <= plans[i].next
              /\ plans[i].anchor <= plans[i].next /\ plans[i].anchor <= now
          <6>1. /\ y.terms.renewed <= plans[i].next
                /\ plans[i].anchor <= plans[i].next /\ plans[i].anchor <= now
            BY <1>5, <2>3 DEF RequestDated
          <6>2. y.terms.renewed = ledger[LastRenewal(ledger, i)].time
            BY <1>5 DEF Terms, LastRenewal, RenewalsOf
          <6> QED BY <6>1, <6>2
        <5>3. ledger[LastRenewal(ledger, i)].time \in Int /\ plans[i].next \in Int
          <6>1. LastRenewal(ledger, i) \in DOMAIN ledger
            BY <1>3, <1>5, LastRenewalOfPlan DEF RenewalsOf, EntriesOf
          <6>2. ledger[LastRenewal(ledger, i)] \in LedgerRow /\ plans[i] \in Row
            BY <1>3, <1>5, <6>1 DEF Sound, TablesTyped
          <6> QED BY <6>2 DEF LedgerRow, Row, None
        <5>4. RenewedBy(ledger, plans[i].next)
          <6> SUFFICES ASSUME NEW e \in DOMAIN ledger, ledger[e].renewal
                       PROVE  ledger[e].time <= plans[i].next
            BY DEF RenewedBy
          <6>1. ledger[e].time \in Int
            <7>1. ledger[e] \in LedgerRow BY <1>3
            <7> QED BY <7>1 DEF LedgerRow
          <6> QED BY <5>1, <5>2, <5>3, <6>1 DEF RenewedBy
        <5> QED BY <5>2, <5>4 DEF TrialDated
      <4> QED BY <3>2, <4>1, <4>2
    <3>5. TrialDated(new, ledger, now) /\ x.time <= new.next /\ x.time <= now
      BY <3>2, <3>4 DEF TrialDated
    <3>6. plans'[x.plan] = new /\ \A j \in Live(plans') : j = x.plan
      <4>1. Sound(plans, ledger) BY <1>3
      <4>2. plans'[x.plan] = new BY ONLY <3>1, <4>1, ScheduleChangedFacts
      <4>3. \A j \in Live(plans') : j = x.plan
        BY ONLY <3>1, <4>1, ScheduleChangedFacts
      <4> QED BY <4>2, <4>3
    <3> DEFINE qs == plans'
    <3>7. \A k \in Live(qs) : qs[k].status \in Trials /\ TrialDated(qs[k], ledger, now)
                              /\ x.time <= qs[k].next
      BY <3>2, <3>5, <3>6 DEF Trials
    <3> HIDE DEF qs
    <3>8. RenewedBy(ledger, now) BY <1>3 DEF Dated
    <3>9. Dated(qs, Append(ledger, x), now)
      BY <1>3, <3>2, <3>5, <3>7, <3>8, TrialKeepsDated
    <3> QED BY <1>3, <3>2, <3>3, <3>9 DEF Kept, qs
  <2>4. CASE \E row : StatusChanged(request, i, row)
    <3>1. PICK row : StatusChanged(request, i, row) BY <2>4
    <3>2. /\ row = [plans[i] EXCEPT !.status = request] /\ Written(plans, i, row, plans')
          /\ i \in Live(plans) /\ request \in LiveStatuses
          /\ request \in Trials <=> plans[i].status \in Trials
          /\ ledger' = ledger
      BY <3>1 DEF StatusChanged
    <3>3. plans[i].status \in Trials => now < plans[i].next
      BY <1>5 DEF RequestDated, Terms, get_next_billing_cycle
    <3>4. /\ Dated(plans', ledger, now)
          /\ request \in Downgrades =>
               /\ get_next_billing_cycle(i, plans[i], ledger) \in Int
               /\ Kept(plans', ledger, get_next_billing_cycle(i, plans[i], ledger))
      <4> DEFINE qs == plans'
      <4>1. Written(plans, i, row, qs) BY <3>2
      <4> HIDE DEF qs
      <4>2. /\ Dated(qs, ledger, now)
            /\ request \in Downgrades =>
                 /\ get_next_billing_cycle(i, plans[i], ledger) \in Int
                 /\ Kept(qs, ledger, get_next_billing_cycle(i, plans[i], ledger))
        BY <1>3, <1>5, <3>2, <3>3, <4>1, RequestedDated
      <4> QED BY <4>2 DEF qs
    <3>5. CASE request \in Downgrades /\ cancelled' = CycleOf(plans, ledger, i)
      BY <3>2, <3>4, <3>5 DEF CycleOf
    <3>6. CASE cancelled' = None BY <3>2, <3>4, <3>6 DEF Kept, None
    <3>7. CASE plans[i].status \notin Downgrades /\ cancelled' = cancelled
      BY <1>3, <1>6, <3>2, <3>4, <3>7 DEF Kept
    <3> QED BY <3>1, <3>5, <3>6, <3>7 DEF StatusChanged
  <2> QED BY <2>2, <2>3, <2>4 DEF UpdatedBy
<1> QED BY <1>1, <1>2, <1>7 DEF Honoured

LEMMA TierChangeHonours ==
  ASSUME Uncrossed, Honoured, do_change_plan_to_new_tier PROVE Honoured'
<1> DEFINE i == get_current_plan(plans)
           row == [plans[i] EXCEPT !.status = "SWITCH_PLAN_TIER_NOW", !.next = now]
           copy == Copy(i, plans')
<1>1. /\ plans' = [plans EXCEPT ![i].status = "SWITCH_PLAN_TIER_NOW", ![i].next = now]
      /\ job'.step = "switch" /\ job'.copies = {copy}
      /\ i # 0 /\ plans[i].status = "ACTIVE" /\ UNCHANGED <<now, ledger, tx, cancelled>>
  BY DEF do_change_plan_to_new_tier, clock, NoJob
<1>2. i \in Live(plans) /\ i \in DOMAIN plans
  BY <1>1, CurrentPlan DEF Uncrossed
<1>3. copy.row = plans'[i] BY DEF Copy
<1> HIDE DEF i, copy
<1>4. plans \in Seq(Row) /\ plans[i] \in Row /\ now \in Nat /\ now # None
  BY <1>2 DEF Uncrossed, Sound, TablesTyped, None
<1>5. plans' = [plans EXCEPT ![i] = row] BY <1>1, <1>4
<1>6. row \in Row /\ row.status = "SWITCH_PLAN_TIER_NOW" /\ row.next = now
  BY <1>4 DEF Row, LiveStatuses
<1> HIDE DEF row
<1>7. plans'[i] = row BY <1>2, <1>4, <1>5
<1>8. Dated(plans', ledger, now)
  <2>1. row.status \notin Trials /\ plans[i].status \notin Trials
    BY <1>1, <1>6 DEF Trials
  <2>2. Succeeds(plans[i], row) BY <2>1 DEF Succeeds
  <2>3. Written(plans, i, row, plans')
    BY <1>2, <1>4, <1>5, <1>6, ExceptWrites
  <2> QED BY <1>2, <1>6, <2>2, <2>3, WriteKeepsDated DEF Uncrossed, Honoured
<1>9. cancelled = None BY <1>1, <1>2, NoneToKeep DEF Honoured, Downgrades
<1>10. ReadsDated' BY <1>1, <1>3, <1>6, <1>7 DEF Honoured, ReadsDated
<1> QED BY <1>1, <1>8, <1>9, <1>10 DEF Honoured, Kept

LEMMA SwitchTierHonours ==
  ASSUME Uncrossed, Honoured, ~crossed', crossed \in BOOLEAN, switch_plan_tier
  PROVE  Honoured'
<1>1. UNCHANGED <<now, tx, cancelled>> BY DEF switch_plan_tier, clock
<1>2. /\ First \in job.copies /\ job.step = "switch" /\ job'.step = "cycle"
      /\ plans[First.id] = First.row /\ First.row.status = "SWITCH_PLAN_TIER_NOW" /\ First.id \in Live(plans)
  BY SwitchTierWrites
<1>3. plans[First.id].next = now BY <1>2 DEF Honoured, ReadsDated
<1>4. cancelled = None BY <1>2, NoneToKeep DEF Honoured, Downgrades
<1>5. PICK os, new, e : TierSwitched(First.id, os, new, e)
  BY SwitchTierWrites
<1>6. /\ e.plan \in Live(plans') /\ plans'[e.plan].status \notin Trials
      /\ \A k \in Live(plans') : k = e.plan
  <2>1. First.id \in Live(plans) BY <1>2
  <2> QED BY <1>5, <2>1, TierSwitchedFacts
<1>7. /\ ledger' = Append(ledger, e) /\ e \in LedgerRow /\ e.renewal /\ e.time <= now
      /\ RenewedBy(ledger, e.time) /\ ledger \in Seq(LedgerRow) /\ now \in Int
  BY <1>3, <1>5 DEF TierSwitched, Honoured, Dated, Uncrossed, Sound, TablesTyped
<1>8. Dated(plans', ledger', now)
  <2> DEFINE qs == plans'
  <2>1. \A k \in Live(qs) : k = e.plan /\ qs[k].status \notin Trials BY <1>6
  <2> HIDE DEF qs
  <2>2. Dated(qs, Append(ledger, e), now)
    BY <1>6, <1>7, <2>1, RenewalKeepsDated
  <2> QED BY <1>7, <2>2 DEF qs
<1> QED BY <1>1, <1>2, <1>4, <1>8 DEF Honoured, Kept, ReadsDated

LEMMA BeginInvoicingHonours ==
  ASSUME Uncrossed, Honoured, ~crossed', crossed \in BOOLEAN, BeginInvoicing
  PROVE  Honoured'
<1> DEFINE c == First
           event_time == Min({c.row.next, job.until})
           m == make_end_of_cycle_updates_if_needed(
                    Reading(c.id, c.row, event_time, ledger), plans, ledger)
           row == m.copy
           left == {e \in EntriesOf(m.ledger, c.id) :
                      /\ row.invoicing = "INITIAL" \/ e > row.through
                      /\ m.ledger[e].time <= event_time}
           base == IF row.invoicing = "INITIAL" THEN None ELSE ledger[row.through].licenses
           copies == Replaced(row)
<1>1. job.step = "cycle" /\ UNCHANGED <<now, tx, cancelled>>
  BY DEF BeginInvoicing, clock
<1>2. CASE c.row.invoicing = "STARTED"
  <2>1. job' = NoJob /\ UNCHANGED <<plans, ledger>>
    BY <1>2 DEF BeginInvoicing, tables
  <2> QED BY <1>1, <2>1, HonouredStays DEF NoJob
<1>3. CASE c.row.invoicing # "STARTED"
  <2>1. /\ plans' = m.plans /\ ledger' = m.ledger /\ plans[c.id] = c.row
        /\ job' = [job EXCEPT !.step = "entry", !.copies = copies, !.made = FALSE,
                              !.entries = left, !.base = base]
    BY <1>3 DEF BeginInvoicing
  <2>2. c.id \in DOMAIN plans BY <1>1, CopyReplaced
  <2> HIDE DEF left, base, copies, c
  <2>3. event_time \in Int /\ event_time <= now
    BY <2>1, <2>2, EventTimeTyped
  <2> HIDE DEF event_time
  <2>4. m = make_end_of_cycle_updates_if_needed(
                Reading(c.id, plans[c.id], event_time, ledger), plans, ledger)
    BY <2>1
  <2> HIDE DEF m
  <2>5. /\ now \in Nat /\ cancelled \in Int /\ Sound(plans, ledger)
        /\ Dated(plans, ledger, now) /\ Kept(plans, ledger, cancelled)
    BY DEF Uncrossed, Honoured
  <2>6. Dated(m.plans, m.ledger, now) /\ Kept(m.plans, m.ledger, cancelled)
    BY <2>2, <2>3, <2>4, <2>5, CycleKeepsDated
  <2>7. job'.step = "entry" BY <2>1 DEF Uncrossed, JobSound
  <2> QED BY <1>1, <2>1, <2>5, <2>6, <2>7 DEF Honoured, ReadsDated
<1> QED BY <1>2, <1>3

LEMMA SaveInvoicingHonours ==
  ASSUME Uncrossed, Honoured, NEW status \in {"STARTED", "DONE"}, SaveInvoicing(status),
         job.step # "idle", job.entries # {}
  PROVE  Honoured'
<1> DEFINE i == First.id
           row == SavedAs(plans[i], status)
<1>1. /\ i \in DOMAIN plans /\ plans[i] \in Row /\ row \in Row /\ Written(plans, i, row, plans')
      /\ row.status = plans[i].status /\ row.next = plans[i].next
      /\ row.anchor = plans[i].anchor
      /\ UNCHANGED <<now, ledger, tx, cancelled>> /\ job'.step # "switch"
  BY SaveInvoicingWrites
<1> HIDE DEF i, row
<1>2. Succeeds(plans[i], row) BY <1>1 DEF Succeeds, Row, None
<1>3. row.status \in LiveStatuses => i \in Live(plans) BY <1>1 DEF Live
<1>4. /\ Dated(plans', ledger, now) /\ Live(plans') \subseteq Live(plans)
      /\ i \in Live(plans') => plans'[i] = row
      /\ \A k \in Live(plans') : k # i => plans'[k] = plans[k]
  BY <1>1, <1>2, <1>3, WriteKeepsDated DEF Uncrossed, Honoured
<1>5. \A k \in Live(plans') : k \in Live(plans) /\ plans'[k].status = plans[k].status
  BY <1>1, <1>4
<1>6. Kept(plans', ledger, cancelled) BY <1>5, FewerKept DEF Honoured
<1> QED BY <1>1, <1>4, <1>6 DEF Honoured, ReadsDated

LEMMA FinishInvoicingHonours ==
  ASSUME Uncrossed, Honoured, ~crossed', crossed \in BOOLEAN, FinishInvoicing
  PROVE  Honoured'
<1> DEFINE c == First
           next == next_invoice_date(c.row)
           row == [plans[c.id] EXCEPT !.next = next]
<1>1. /\ plans' = [plans EXCEPT ![c.id].next = next] /\ plans[c.id] = c.row
      /\ job.step = "entry" /\ UNCHANGED <<now, ledger, tx, cancelled>>
  BY DEF FinishInvoicing, clock
<1>2. job'.step \in {"cycle", "idle"}
  BY DEF FinishInvoicing, NoJob, Uncrossed, JobSound
<1>3. c.id \in DOMAIN plans BY <1>1, CopyReplaced
<1> HIDE DEF c
<1>4. plans \in Seq(Row) /\ plans[c.id] \in Row
  BY <1>3 DEF Uncrossed, Sound, TablesTyped
<1>5. plans[c.id].status \in LiveStatuses =>
        plans[c.id].next \in Nat /\ next \in Nat /\ plans[c.id].next < next
  <2> SUFFICES ASSUME plans[c.id].status \in LiveStatuses
               PROVE  plans[c.id].next \in Nat /\ next \in Nat /\ plans[c.id].next < next
    OBVIOUS
  <2>1. plans[c.id].next \in Nat /\ plans[c.id].anchor \in Nat
    BY <1>3, <1>4 DEF Row, Live, Uncrossed, Sound, LiveAreInvoiced
  <2>2. plans[c.id].status # "ENDED" BY DEF LiveStatuses, Trials, Switches
  <2>3. next = FirstAfter(plans[c.id].anchor, Month, plans[c.id].next)
    BY <1>1, <2>2 DEF next_invoice_date
  <2> QED BY <2>1, <2>3, FirstAfterTyped, BillingAssumption
<1>6. next \in Nat \cup {None}
  <2>1. CASE plans[c.id].status = "ENDED"
    BY <1>1, <2>1 DEF next_invoice_date
  <2>2. CASE plans[c.id].status \in LiveStatuses BY <1>5, <2>2
  <2> QED BY <1>4, <2>1, <2>2 DEF Row
<1> HIDE DEF next
<1>7. plans' = [plans EXCEPT ![c.id] = row] BY <1>1, <1>3, <1>4
<1>8. /\ row \in Row /\ row.status = plans[c.id].status /\ row.next = next
      /\ row.anchor = plans[c.id].anchor
  BY <1>4, <1>6 DEF Row
<1> HIDE DEF row
<1>9. Succeeds(plans[c.id], row) BY <1>5, <1>8 DEF Succeeds, LiveStatuses
<1>10. Dated(plans', ledger, now) /\ Kept(plans', ledger, cancelled)
  <2>1. Written(plans, c.id, row, plans')
    BY <1>3, <1>4, <1>7, <1>8, ExceptWrites
  <2>2. row.status \in LiveStatuses => c.id \in Live(plans)
    BY <1>3, <1>8 DEF Live
  <2>3. /\ Dated(plans', ledger, now) /\ Live(plans') \subseteq Live(plans)
        /\ c.id \in Live(plans') => plans'[c.id] = row
        /\ \A k \in Live(plans') : k # c.id => plans'[k] = plans[k]
    BY <1>3, <1>8, <1>9, <2>1, <2>2, WriteKeepsDated DEF Uncrossed, Honoured
  <2>4. \A k \in Live(plans') : k \in Live(plans) /\ plans'[k].status = plans[k].status
    BY <1>8, <2>3
  <2> QED BY <2>3, <2>4, FewerKept DEF Honoured
<1> QED BY <1>1, <1>2, <1>10 DEF Honoured, ReadsDated

LEMMA TickHonours ==
  ASSUME Uncrossed, Honoured, Tick PROVE Honoured'
<1>1. /\ now' = now + 1 /\ UNCHANGED <<plans, ledger, tx, job, cancelled>> /\ now \in Nat
      /\ job.step = "idle" /\ \A t \in Transactions : tx[t] = Free
  BY DEF Tick, tables, Uncrossed
<1>2. ledger \in Seq(LedgerRow) /\ RenewedBy(ledger, now)
  BY DEF Uncrossed, Sound, TablesTyped, Honoured, Dated
<1>3. RenewedBy(ledger, now + 1) BY <1>1, <1>2, RenewedLater
<1>4. ASSUME NEW i \in Live(plans), TrialDated(plans[i], ledger, now)
      PROVE  TrialDated(plans[i], ledger, now + 1)
  <2>1. plans[i] \in Row BY DEF Live, Uncrossed, Sound, TablesTyped
  <2>2. plans[i].anchor \in Int BY <2>1 DEF Row
  <2> QED BY <1>1, <1>4, <2>2 DEF TrialDated
<1>5. Dated(plans, ledger, now + 1) BY <1>3, <1>4 DEF Dated, Honoured
<1>6. ReadsDated' BY <1>1 DEF ReadsDated, Free
<1> QED BY <1>1, <1>5, <1>6 DEF Honoured

LEMMA CancelInit == Init => CancelInv
<1> SUFFICES ASSUME Init PROVE CancelInv
  OBVIOUS
<1>1. /\ plans = <<>> /\ ledger = <<>> /\ cancelled = None /\ job.step = "idle"
      /\ \A t \in Transactions : tx[t] = Free
  BY DEF Init, NoJob
<1>2. DOMAIN ledger = {} /\ Live(plans) = {} BY <1>1 DEF Live
<1>3. Dated(plans, ledger, now) /\ Kept(plans, ledger, cancelled)
  BY <1>1, <1>2 DEF Dated, RenewedBy, Kept
<1>4. ReadsDated BY <1>1 DEF ReadsDated, Free
<1> QED BY <1>1, <1>3, <1>4, BillingInit DEF CancelInv, Honoured, None

LEMMA CancelStep == CancelInv /\ [Next]_vars => CancelInv'
<1> SUFFICES ASSUME CancelInv, [Next]_vars PROVE CancelInv'
  OBVIOUS
<1>1. BillingInv' BY BillingStep DEF CancelInv
<1>2. crossed \in BOOLEAN /\ crossed' \in BOOLEAN /\ (~crossed' => ~crossed)
  BY CrossedGrows DEF CancelInv, BillingInv
<1> SUFFICES ASSUME ~crossed' PROVE Honoured'
  BY <1>1 DEF CancelInv
<1>3. Uncrossed /\ Honoured BY <1>2 DEF CancelInv, BillingInv
<1>4. ASSUME NEW t \in Transactions, NEW delta \in {-1, 1}, BeginUserChange(t, delta)
      PROVE  Honoured'
  BY <1>3, <1>4, BeginUserChangeHonours
<1>5. ASSUME NEW t \in Transactions, CommitUserChange(t) PROVE Honoured'
  BY <1>2, <1>3, <1>5, CommitUserChangeHonours
<1>6. ASSUME NEW t \in Transactions, NEW licenses \in 1..MaxUsers, NEW schedule \in Schedules,
             BeginUpgrade(t, licenses, schedule)
      PROVE  Honoured'
  BY <1>3, <1>6, BeginUpgradeHonours
<1>7. ASSUME NEW t \in Transactions, process_initial_upgrade(t) PROVE Honoured'
  BY <1>2, <1>3, <1>7, UpgradeHonours
<1>8. ASSUME NEW t \in Transactions, NEW request \in Requests,
             do_update_plan(t, request) \/ FinishUpdate(t, request)
      PROVE  Honoured'
  BY <1>2, <1>3, <1>8, UpdatePlanHonours, FinishUpdateHonours
<1>9. CASE downgrade_now BY <1>3, <1>9, DowngradeNowHonours
<1>10. CASE do_change_plan_to_new_tier BY <1>3, <1>10, TierChangeHonours
<1>11. CASE invoice_plans_as_needed \/ CreateItem \/ CreateInvoice \/ JobDies
  <2>1. CASE CreateItem
    <3>1. job'.step = "done" /\ UNCHANGED <<plans, ledger, cancelled, now, tx>>
      BY <1>3, <2>1 DEF CreateItem, tables, clock, Uncrossed, JobSound
    <3> QED BY <1>3, <3>1, HonouredStays
  <2>2. CASE ~CreateItem
    <3>1. job'.step # "switch" /\ UNCHANGED <<plans, ledger, cancelled, now, tx>>
      BY <1>3, <1>11, <2>2, JobQuiet DEF Uncrossed, JobSound
    <3> QED BY <1>3, <3>1, HonouredStays
  <2> QED BY <2>1, <2>2
<1>12. CASE switch_plan_tier BY <1>2, <1>3, <1>12, SwitchTierHonours
<1>13. CASE BeginInvoicing BY <1>2, <1>3, <1>13, BeginInvoicingHonours
<1>14. CASE StartEntry \/ SkipEntry \/ FinishEntry
  BY <1>3, <1>14, EntrySaved, SaveInvoicingHonours
<1>15. CASE FinishInvoicing BY <1>2, <1>3, <1>15, FinishInvoicingHonours
<1>16. CASE Tick BY <1>3, <1>16, TickHonours
<1>17. CASE UNCHANGED vars BY <1>3, <1>17 DEF vars, Honoured, ReadsDated
<1> QED
  BY <1>4, <1>5, <1>6, <1>7, <1>8, <1>9, <1>10, <1>11, <1>12, <1>13, <1>14, <1>15, <1>16,
     <1>17 DEF Next, Invoicing

LEMMA NoneRenewed == CancelInv => CancellationHonoured
  BY DEF CancelInv, Honoured, Kept, CancellationHonoured, Renewals

(* A customer who asked for a downgrade at the end of the cycle or of the *)
(* trial and did not take it back is never renewed at or after the end, *)
(* whichever of the job, a transaction and a request finds out first that *)
(* the cycle is over, until an actor writes what another one has changed *)
(* since it read. *)
THEOREM CancellationHonouredCorrect == Spec => []CancellationHonoured
<1>1. Spec => []CancelInv BY CancelInit, CancelStep, PTL DEF Spec
<1> QED BY <1>1, NoneRenewed, PTL

-----------------------------------------------------------------------------
(* The next invoice is due in the cycle. *)

LEMMA Multiples ==
  ASSUME NEW step \in Nat \ {0}, NEW a \in Nat, NEW b \in Nat, a * step < b * step
  PROVE  (a + 1) * step <= b * step
<1>1. a < b
  <2> SUFFICES ASSUME b <= a PROVE FALSE
    OBVIOUS
  <2>1. PICK d \in Nat : a = b + d
    <3>1. a - b \in Nat /\ a = b + (a - b) OBVIOUS
    <3> QED BY <3>1
  <2>2. a * step = b * step + d * step /\ d * step \in Nat /\ b * step \in Nat
    BY <2>1
  <2> QED BY <2>2
<1>2. PICK d \in Nat : b = a + 1 + d
  <2>1. b - a - 1 \in Nat /\ b = a + 1 + (b - a - 1) BY <1>1
  <2> QED BY <2>1
<1>3. b * step = (a + 1) * step + d * step /\ d * step \in Nat /\ (a + 1) * step \in Nat
  BY <1>2
<1> QED BY <1>3

(* The next date of the grid of months is not after a later date of a grid *)
(* of every so many months. *)
LEMMA GridBetween ==
  ASSUME NEW anchor \in Nat, NEW step \in Nat \ {0}, NEW m \in Nat \ {0}, NEW s \in Nat,
         NEW t \in Nat, t < FirstAfter(anchor, step * m, s)
  PROVE  FirstAfter(anchor, step, t) <= FirstAfter(anchor, step * m, s)
<1> DEFINE F == FirstAfter(anchor, step * m, s)
<1>1. PICK n \in Nat : F = anchor + n * step
  <2>1. CASE s < anchor
    <3>1. F = anchor + 0 * step BY <2>1 DEF FirstAfter
    <3> QED BY <3>1
  <2>2. CASE ~ (s < anchor)
    <3> DEFINE k == (s - anchor) \div (step * m) + 1
    <3>1. step * m \in Nat \ {0} /\ s - anchor \in Nat BY <2>2
    <3>2. k \in Nat
      <4> DEFINE d == step * m
      <4>1. d \in Nat \ {0} BY <3>1
      <4> HIDE DEF d
      <4>2. (s - anchor) \div d \in Nat BY <3>1, <4>1
      <4> QED BY <4>2 DEF d
    <3>3. F = anchor + k * (step * m) BY <2>2 DEF FirstAfter
    <3> HIDE DEF k, F
    <3>4. k * (step * m) = (k * m) * step /\ k * m \in Nat BY <3>2
    <3> QED BY <3>3, <3>4
  <2> QED BY <2>1, <2>2
<1>2. t < F OBVIOUS
<1> HIDE DEF F
<1>3. n * step \in Nat BY <1>1
<1>4. CASE t < anchor
  <2>1. FirstAfter(anchor, step, t) = anchor BY <1>4 DEF FirstAfter
  <2> QED BY <1>1, <1>3, <2>1 DEF F
<1>5. CASE ~ (t < anchor)
  <2> DEFINE x == t - anchor
             k == x \div step
  <2>1. x \in Nat /\ t = anchor + x BY <1>5
  <2>2. FirstAfter(anchor, step, t) = anchor + (k + 1) * step
    BY <1>5 DEF FirstAfter
  <2> HIDE DEF x
  <2>3. k \in Nat /\ k * step <= x BY <2>1
  <2> HIDE DEF k
  <2>4. k * step \in Nat /\ (k + 1) * step \in Nat BY <2>3
  <2>5. k * step < n * step BY <1>1, <1>2, <1>3, <2>1, <2>3, <2>4
  <2>6. (k + 1) * step <= n * step BY <1>1, <2>3, <2>5, Multiples
  <2> QED BY <1>1, <1>3, <2>2, <2>4, <2>6 DEF F
<1> QED BY <1>4, <1>5

(* The cycle of a plan that is not in its trial is on the grid of months *)
(* and ends after the last renewal. *)
LEMMA RegularCycle ==
  ASSUME NEW ps, NEW ls, Sound(ps, ls), NEW i \in Live(ps), ps[i].status \notin Trials
  PROVE  LET last == ls[LastRenewal(ls, i)].time
         IN  /\ last \in Nat /\ last < CycleOf(ps, ls, i)
             /\ CycleOf(ps, ls, i) = start_of_next_billing_cycle(ps[i], last)
             /\ \E m \in Nat \ {0} : CycleOf(ps, ls, i) = FirstAfter(ps[i].anchor, Month * m, last)
<1> USE BillingAssumption
<1> DEFINE last == ls[LastRenewal(ls, i)].time
           m == IF ps[i].schedule = "annual" THEN MonthsPerYear ELSE 1
<1>1. last \in Nat /\ ps[i].anchor \in Nat BY TimesTyped, LastRenewalFacts
<1>2. m \in Nat \ {0} /\ Month * m \in Nat \ {0}
  <2>1. m \in Nat \ {0} OBVIOUS
  <2> HIDE DEF m
  <2> QED BY <2>1
<1>3. CycleOf(ps, ls, i) = start_of_next_billing_cycle(ps[i], last)
  BY DEF CycleOf, get_next_billing_cycle, LastRenewal, RenewalsOf
<1>4. start_of_next_billing_cycle(ps[i], last) = FirstAfter(ps[i].anchor, Month * m, last)
  BY DEF start_of_next_billing_cycle
<1> HIDE DEF m, last
<1>5. last < FirstAfter(ps[i].anchor, Month * m, last)
  BY <1>1, <1>2, FirstAfterTyped
<1> QED BY <1>1, <1>2, <1>3, <1>4, <1>5 DEF last

(* What the end of the cycle depends on. *)
LEMMA SameCycle ==
  ASSUME NEW ps, NEW ls, NEW qs, NEW ms, Sound(ps, ls), Sound(qs, ms),
         NEW i \in Live(ps), i \in Live(qs), ps[i].status \notin Trials, qs[i].status \notin Trials,
         qs[i].anchor = ps[i].anchor, qs[i].schedule = ps[i].schedule,
         ms[LastRenewal(ms, i)].time = ls[LastRenewal(ls, i)].time
  PROVE  CycleOf(qs, ms, i) = CycleOf(ps, ls, i)
<1>1. \A t : start_of_next_billing_cycle(qs[i], t) = start_of_next_billing_cycle(ps[i], t)
  BY DEF start_of_next_billing_cycle
<1> QED BY <1>1, RegularCycle

LEMMA TimesStay ==
  ASSUME NEW ps, NEW ls, Sound(ps, ls) PROVE KeepsTime(ps, ls, ps, ls)
<1>1. \A i \in Regular(ps) : CycleOf(ps, ls, i) \in Nat
  BY TimesTyped DEF Regular
<1> QED BY <1>1 DEF KeepsTime

LEMMA KeepsTimeTwice ==
  ASSUME NEW ps, NEW ls, Sound(ps, ls), NEW qs, NEW ms, Sound(qs, ms), NEW rs, NEW ns, Sound(rs, ns),
         KeepsTime(ps, ls, qs, ms), KeepsTime(qs, ms, rs, ns)
  PROVE  KeepsTime(ps, ls, rs, ns)
<1> SUFFICES ASSUME NEW i \in Regular(rs), ~ Ahead(rs, ns, i)
             PROVE  /\ i \in Regular(ps) /\ rs[i].next = ps[i].next
                    /\ CycleOf(ps, ls, i) <= CycleOf(rs, ns, i)
  BY DEF KeepsTime
<1>1. i \in Regular(qs) /\ rs[i].next = qs[i].next /\ CycleOf(qs, ms, i) <= CycleOf(rs, ns, i)
  BY DEF KeepsTime
<1>2. /\ rs[i].next \in Nat /\ qs[i].next \in Nat
      /\ CycleOf(qs, ms, i) \in Nat /\ CycleOf(rs, ns, i) \in Nat
  BY <1>1, TimesTyped DEF Regular
<1>3. ~ Ahead(qs, ms, i) BY <1>1, <1>2 DEF Ahead
<1>4. i \in Regular(ps) /\ qs[i].next = ps[i].next /\ CycleOf(ps, ls, i) <= CycleOf(qs, ms, i)
  BY <1>1, <1>3 DEF KeepsTime
<1>5. CycleOf(ps, ls, i) \in Nat BY <1>4, TimesTyped DEF Regular
<1> QED BY <1>1, <1>2, <1>4, <1>5

(* Where only entries are added that are no renewals. *)
LEMMA EntryKeepsCycle ==
  ASSUME NEW ps, NEW ls, Sound(ps, ls), NEW e \in LedgerRow, ~e.renewal, NEW i \in Regular(ps)
  PROVE  CycleOf(ps, Append(ls, e), i) = CycleOf(ps, ls, i) /\ CycleOf(ps, ls, i) \in Nat
<1> DEFINE ms == Append(ls, e)
<1>1. /\ DOMAIN ms = DOMAIN ls \cup {Len(ls) + 1} /\ ms[Len(ls) + 1] = e
      /\ \A k \in DOMAIN ls : ms[k] = ls[k]
  BY RowAppended DEF Sound, TablesTyped
<1>2. Sound(ps, ms) BY EntryKeepsSound
<1> HIDE DEF ms
<1>3. \A k : LastRenewal(ms, k) = LastRenewal(ls, k)
  <2>1. \A k \in DOMAIN ms : ms[k].renewal => k \in DOMAIN ls /\ ms[k] = ls[k]
    BY <1>1
  <2>2. \A k : RenewalsOf(ms, k) = RenewalsOf(ls, k)
    BY <1>1, <2>1 DEF RenewalsOf, EntriesOf
  <2> QED BY <2>2 DEF LastRenewal
<1>4. i \in Live(ps) /\ ps[i].status \notin Trials BY DEF Regular
<1>5. LastRenewal(ls, i) \in DOMAIN ls BY <1>4, LastRenewalFacts, TimesTyped
<1>6. ms[LastRenewal(ms, i)].time = ls[LastRenewal(ls, i)].time
  BY <1>1, <1>3, <1>5
<1>7. CycleOf(ps, ms, i) = CycleOf(ps, ls, i) /\ CycleOf(ps, ls, i) \in Nat
  BY <1>2, <1>4, <1>6, SameCycle, TimesTyped
<1> QED BY <1>7 DEF ms

LEMMA EntryKeepsTime ==
  ASSUME NEW ps, NEW ls, Sound(ps, ls), NEW e \in LedgerRow, ~e.renewal
  PROVE  KeepsTime(ps, ls, ps, Append(ls, e))
<1> DEFINE ms == Append(ls, e)
<1>1. ASSUME NEW i \in Regular(ps)
      PROVE  CycleOf(ps, ms, i) = CycleOf(ps, ls, i) /\ CycleOf(ps, ls, i) \in Nat
  BY EntryKeepsCycle
<1> HIDE DEF ms
<1>2. KeepsTime(ps, ls, ps, ms) BY <1>1 DEF KeepsTime
<1> QED BY <1>2 DEF ms

LEMMA WriteKeepsTime ==
  ASSUME NEW ps, NEW ls, Sound(ps, ls), NEW i \in DOMAIN ps, NEW row \in Row,
         NEW qs, Written(ps, i, row, qs), Sound(qs, ls), KeepsDates(ps[i], row)
  PROVE  KeepsTime(ps, ls, qs, ls)
<1> SUFFICES ASSUME NEW k \in Regular(qs)
             PROVE  /\ k \in Regular(ps) /\ qs[k].next = ps[k].next
                    /\ CycleOf(ps, ls, k) <= CycleOf(qs, ls, k)
  BY DEF KeepsTime
<1>1. k \in Live(qs) /\ qs[k].status \notin Trials BY DEF Regular
<1>2. /\ k \in Regular(ps) /\ qs[k].next = ps[k].next /\ qs[k].anchor = ps[k].anchor
      /\ qs[k].schedule = ps[k].schedule
  <2>1. k \in DOMAIN ps /\ qs[i] = row /\ (k # i => qs[k] = ps[k])
    BY <1>1 DEF Written, Live
  <2>2. CASE k = i BY <2>1, <2>2 DEF KeepsDates, Regular, Live
  <2>3. CASE k # i BY <2>1, <2>3 DEF Regular, Live
  <2> QED BY <2>2, <2>3
<1>3. k \in Live(ps) /\ ps[k].status \notin Trials BY <1>2 DEF Regular
<1>4. CycleOf(qs, ls, k) = CycleOf(ps, ls, k) /\ CycleOf(ps, ls, k) \in Nat
  BY <1>1, <1>2, <1>3, SameCycle, TimesTyped
<1> QED BY <1>2, <1>4

(* The cycle that a renewal begins ends after it. *)
LEMMA RenewalIsAhead ==
  ASSUME NEW qs, NEW ls \in Seq(LedgerRow), NEW e \in LedgerRow, e.renewal,
         NEW ms, ms = Append(ls, e), Sound(qs, ms),
         NEW i \in Live(qs), i = e.plan, qs[i].status \notin Trials
  PROVE  e.time < CycleOf(qs, ms, i) /\ ms[LastRenewal(ms, i)] = e
<1>1. ms[LastRenewal(ms, i)] = e BY RenewalAppended
<1> QED BY <1>1, RegularCycle

(* make_end_of_cycle_updates_if_needed moves the end of a cycle on, by a *)
(* whole cycle, and does so before the first invoice of the new one. *)
LEMMA CycleKeepsTime ==
  ASSUME NEW ps, NEW ls, Sound(ps, ls), NEW i \in DOMAIN ps, NEW t \in Int,
         NEW c, c = make_end_of_cycle_updates_if_needed(Reading(i, ps[i], t, ls), ps, ls)
  PROVE  /\ KeepsTime(ps, ls, c.plans, c.ledger)
         /\ i \in Live(c.plans) => i \in Live(ps) /\ c.plans[i].next = ps[i].next
         /\ i \in Regular(c.plans) /\ t = ps[i].next /\ (i \in Regular(ps) => InTime(ps, ls, i)) =>
              Ahead(c.plans, c.ledger, i)
<1>1. Cycled(ps, ls, i, t, c) /\ Sound(c.plans, c.ledger) /\ ls \in Seq(LedgerRow)
  BY CycleWrites, CycleKeepsSound DEF Sound, TablesTyped
<1>2. CASE Stays(ps, ls, i, t, c)
  <2>1. c.plans = ps /\ c.ledger = ls /\ KeepsTime(ps, ls, ps, ls)
    BY <1>2, TimesStay DEF Stays
  <2>2. ASSUME i \in Regular(ps), t = ps[i].next, InTime(ps, ls, i) PROVE Ahead(ps, ls, i)
    <3> DEFINE k == LastRenewal(ls, i)
               cycle == CycleOf(ps, ls, i)
    <3>1. i \in Live(ps) /\ ps[i].status \notin {"SWITCH_PLAN_TIER_NOW", "ENDED"}
      BY <2>2 DEF Regular, Live, LiveStatuses, Trials, Switches
    <3>2. cycle \in Nat /\ t \in Nat /\ t <= cycle /\ ls[k].time \in Nat /\ ls[k].time < cycle
      BY <2>2, <3>1, TimesTyped, RegularCycle DEF InTime, Regular
    <3>3. CASE t < cycle BY <2>2, <3>3 DEF Ahead
    <3>4. CASE t = cycle
      <4> DEFINE es == {e \in EntriesOf(ls, i) : ls[e].time <= t}
      <4>1. k \in EntriesOf(ls, i) /\ ls[k].time <= t
        BY <3>2, <3>4, LastRenewalOfPlan DEF RenewalsOf
      <4>2. k \in es /\ es \subseteq DOMAIN ls BY <4>1 DEF EntriesOf
      <4> HIDE DEF es
      <4>3. Latest(es) # 0 BY <1>1, <4>2, LatestTyped
      <4> QED BY <1>2, <3>1, <3>2, <3>4, <4>3 DEF Stays, LatestBy, es
    <3> QED BY <3>2, <3>3, <3>4
  <2> QED BY <2>1, <2>2 DEF Regular
<1>3. CASE ~ Stays(ps, ls, i, t, c)
  <2>1. i \in Live(ps) /\ \A k \in Live(ps) : k = i
    BY <1>1, <1>3, CycleOutcome DEF Sound, AtMostOneLive
  <2>2. CASE Ends(ps, ls, i, c)
    <3>1. Live(c.plans) = {} BY <2>1, <2>2, EndsInFacts DEF Ends
    <3> QED BY <3>1 DEF KeepsTime, Regular
  <2>3. CASE ~ Ends(ps, ls, i, c)
    <3>1. PICK e : RenewsWith(ps, ls, i, t, c, e)
      BY <1>1, <1>3, <2>3, CycleOutcome
    <3> DEFINE qs == c.plans
               ms == c.ledger
    <3>2. /\ e \in LedgerRow /\ e.renewal /\ e.time = CycleOf(ps, ls, i)
          /\ e.plan \in Live(qs) /\ qs[e.plan].status \notin Trials
      BY <3>1 DEF RenewsWith, RenewedAt, Trials
    <3>3. e.time < CycleOf(qs, ms, e.plan) /\ CycleOf(qs, ms, e.plan) \in Nat
      <4>1. Sound(qs, ms) BY <1>1
      <4> HIDE DEF qs, ms
      <4>2. e.plan \in Live(qs) /\ ms = Append(ls, e)
        BY <3>1, <3>2 DEF RenewsWith, qs, ms
      <4> QED BY <1>1, <3>2, <4>1, <4>2, RenewalIsAhead, TimesTyped
    <3>4. /\ CycleOf(ps, ls, i) \in Nat /\ ps[i].next \in Nat
          /\ ps[i].status \in Trials => CycleOf(ps, ls, i) = ps[i].next
      BY <2>1, TimesTyped DEF CycleOf, get_next_billing_cycle
    <3>5. CASE GoesOn(ps, ls, i, t, c) /\ e.plan = i
      <4>1. qs = ps /\ i \in Regular(ps)
        BY <2>1, <3>5 DEF GoesOn, Regular, Trials
      <4> QED
        BY <2>1, <3>1, <3>2, <3>3, <3>4, <3>5, <4>1 DEF RenewsWith, KeepsTime, Regular, InTime, Ahead
    <3>6. CASE Starts(ps, ls, i, t, c) /\ e.plan = i /\ qs[i].next = ps[i].next
      <4>1. Ahead(qs, ms, i)
        BY <3>2, <3>3, <3>4, <3>6 DEF Ahead, Starts, Trials
      <4> QED BY <2>1, <3>1, <3>6, <4>1 DEF RenewsWith, KeepsTime, Regular
    <3>7. CASE e.plan # i /\ qs[e.plan].next = CycleOf(ps, ls, i)
      BY <3>1, <3>2, <3>3, <3>7 DEF RenewsWith, KeepsTime, Regular, Ahead
    <3> QED BY <3>1, <3>5, <3>6, <3>7 DEF RenewsWith
  <2> QED BY <2>2, <2>3
<1> QED BY <1>2, <1>3

LEMMA TimelyStays ==
  ASSUME Sound(plans, ledger), Sound(plans', ledger'), marks \subseteq marks',
         KeepsTime(plans, ledger, plans', ledger')
  PROVE  /\ Aligned => Aligned'
         /\ JobAligned /\ ChargesOn => JobAligned'
<1>1. ASSUME NEW i \in Regular(plans')
      PROVE  /\ plans'[i].next \in Nat /\ CycleOf(plans', ledger', i) \in Nat
             /\ \/ Ahead(plans', ledger', i)
                \/ /\ i \in Regular(plans) /\ plans'[i].next = plans[i].next
                   /\ CycleOf(plans, ledger, i) <= CycleOf(plans', ledger', i)
                   /\ CycleOf(plans, ledger, i) \in Nat
  <2>1. plans'[i].next \in Nat /\ CycleOf(plans', ledger', i) \in Nat
    BY TimesTyped DEF Regular
  <2>2. i \in Regular(plans) => CycleOf(plans, ledger, i) \in Nat
    BY TimesTyped DEF Regular
  <2> QED BY <2>1, <2>2 DEF KeepsTime
<1>2. Aligned => Aligned'
  <2> SUFFICES ASSUME Aligned, NEW i \in Regular(plans')
               PROVE  Mark("late", i) \in marks' \/ InTime(plans', ledger', i)
    BY DEF Aligned
  <2>1. CASE Ahead(plans', ledger', i) BY <1>1, <2>1 DEF Ahead, InTime
  <2>2. CASE ~ Ahead(plans', ledger', i) BY <1>1, <2>2 DEF Aligned, InTime
  <2> QED BY <2>1, <2>2
<1>3. \A i, until : ChargedAhead(i, until, plans, ledger, marks) =>
                      ChargedAhead(i, until, plans', ledger', marks')
  <2> SUFFICES ASSUME NEW i, NEW until, ChargedAhead(i, until, plans, ledger, marks),
                      i \in Regular(plans'), plans'[i].next <= until, ~ Ahead(plans', ledger', i)
               PROVE  Mark("late", i) \in marks'
    BY DEF ChargedAhead
  <2>1. /\ i \in Regular(plans) /\ plans'[i].next = plans[i].next
        /\ CycleOf(plans, ledger, i) <= CycleOf(plans', ledger', i)
        /\ CycleOf(plans, ledger, i) \in Nat /\ plans'[i].next \in Nat
        /\ CycleOf(plans', ledger', i) \in Nat
    BY <1>1
  <2>2. Mark("late", i) \in marks \/ Ahead(plans, ledger, i)
    BY <2>1 DEF ChargedAhead
  <2> QED BY <2>1, <2>2 DEF Ahead
<1>4. JobAligned /\ ChargesOn => JobAligned'
  BY <1>3 DEF JobAligned, ChargesOn
<1> QED BY <1>2, <1>4

(* Steps that write no plan and no entry. *)
LEMMA QuietPeriod ==
  ASSUME Uncrossed, Aligned, JobAligned, UNCHANGED <<plans, ledger, marks>>, ChargesOn
  PROVE  Aligned' /\ JobAligned'
<1>1. KeepsTime(plans, ledger, plans', ledger') BY TimesStay DEF Uncrossed
<1> QED BY <1>1, TimelyStays DEF Uncrossed

LEMMA JobGoesOn ==
  ASSUME UNCHANGED job PROVE ChargesOn
  BY DEF ChargesOn, First

(* Steps of actors other than the job that write the tables. *)
LEMMA OthersKeepPeriod ==
  ASSUME Uncrossed, Aligned, JobAligned, Sound(plans', ledger'), UNCHANGED job,
         marks \subseteq marks', KeepsTime(plans, ledger, plans', ledger')
  PROVE  Aligned' /\ JobAligned'
  BY JobGoesOn, TimelyStays DEF Uncrossed

LEMMA CommitUserChangePeriod ==
  ASSUME Uncrossed, Aligned, JobAligned, Sound(plans', ledger'), ~crossed', crossed \in BOOLEAN,
         NEW t \in Transactions, CommitUserChange(t)
  PROVE  Aligned' /\ JobAligned'
<1> DEFINE x == tx[t]
           i == get_current_plan(plans)
           time == x.reading.time
           c == make_end_of_cycle_updates_if_needed(x.reading, plans, ledger)
<1>1. x.kind = "user" /\ UNCHANGED <<job, marks>> BY DEF CommitUserChange
<1>2. UserTyped(x) BY <1>1 DEF Uncrossed, TxSound
<1>3. CASE x.plan = 0
  <2>1. UNCHANGED tables BY <1>3 DEF CommitUserChange
  <2> QED BY <1>1, <2>1, JobGoesOn, QuietPeriod DEF tables
<1>4. CASE x.plan # 0
  <2>1. /\ i = x.plan
        /\ i # 0 => Reading(i, plans[i], x.reading.time, ledger) = x.reading
    BY DEF CommitUserChange
  <2>2. i \in DOMAIN plans /\ x.reading = Reading(i, plans[i], time, ledger)
    BY <1>4, <2>1, CurrentPlan DEF Uncrossed
  <2>3. time \in Nat BY <1>2, <1>4 DEF UserTyped
  <2>4. c = make_end_of_cycle_updates_if_needed(Reading(i, plans[i], time, ledger), plans, ledger)
    BY <2>2
  <2> HIDE DEF time, i
  <2>5. /\ Sound(c.plans, c.ledger) /\ c.last \in Nat /\ (c.last # 0 => c.last \in DOMAIN c.ledger)
        /\ c.new \in Nat /\ KeepsTime(plans, ledger, c.plans, c.ledger)
    <3> HIDE DEF c
    <3> QED BY <2>2, <2>3, <2>4, CycleKeepsSound, CycleKeepsTime DEF Uncrossed
  <2> DEFINE licenses == Max({x.count, c.ledger[c.last].licenses})
             e == Entry(IF c.new # 0 THEN c.new ELSE x.reading.id, FALSE, x.reading.time,
                        licenses, x.count)
  <2>6. plans' = c.plans /\ ledger' = IF c.last = 0 THEN c.ledger ELSE Append(c.ledger, e)
    BY <1>4 DEF CommitUserChange, update_license_ledger_for_automanaged_plan
  <2>7. KeepsTime(plans, ledger, plans', ledger')
    <3>1. CASE c.last = 0
      <4> HIDE DEF c
      <4> QED BY <2>5, <2>6, <3>1
    <3>2. CASE c.last # 0
      <4>1. x.reading.id = i /\ i \in Nat
        BY <2>2 DEF Reading, Uncrossed, Sound, TablesTyped
      <4> HIDE DEF c
      <4>2. licenses \in Int
        <5>1. c.ledger[c.last] \in LedgerRow
          BY <2>5, <3>2 DEF Sound, TablesTyped
        <5> QED BY <1>2, <5>1, MaxOfTwo DEF LedgerRow, UserTyped
      <4>3. e \in LedgerRow /\ ~e.renewal
        <5> HIDE DEF licenses
        <5> QED BY <1>2, <2>3, <2>5, <4>1, <4>2 DEF Entry, LedgerRow, UserTyped, time
      <4> HIDE DEF e
      <4>4. KeepsTime(c.plans, c.ledger, c.plans, Append(c.ledger, e))
        BY <2>5, <4>3, EntryKeepsTime
      <4>5. Sound(plans, ledger) /\ plans' = c.plans /\ ledger' = Append(c.ledger, e)
        BY <2>6, <3>2 DEF Uncrossed
      <4> QED BY <2>5, <4>4, <4>5, KeepsTimeTwice
    <3> QED BY <3>1, <3>2
  <2> QED BY <1>1, <2>7, OthersKeepPeriod
<1> QED BY <1>3, <1>4

LEMMA DowngradeNowPeriod ==
  ASSUME Uncrossed, Aligned, JobAligned, Sound(plans', ledger'), downgrade_now
  PROVE  Aligned' /\ JobAligned'
<1> DEFINE i == get_current_plan(plans)
           row == DowngradedNow(plans[i], i, ledger)
<1>1. /\ plans' = [plans EXCEPT ![i] = row] /\ UNCHANGED <<ledger, job>> /\ i \in DOMAIN plans
      /\ marks \subseteq marks'
  BY CurrentPlan DEF downgrade_now, Uncrossed
<1>2. row \in Row /\ row.status = "ENDED" /\ plans \in Seq(Row)
  BY <1>1, DowngradedTyped DEF Uncrossed, Sound, TablesTyped
<1> HIDE DEF i, row
<1>3. KeepsDates(plans[i], row)
  BY <1>2 DEF KeepsDates, LiveStatuses, Trials, Switches
<1>4. Written(plans, i, row, plans') BY <1>1, <1>2, ExceptWrites
<1>5. KeepsTime(plans, ledger, plans', ledger')
  BY <1>1, <1>2, <1>3, <1>4, WriteKeepsTime DEF Uncrossed
<1> QED BY <1>1, <1>5, OthersKeepPeriod

LEMMA TierChangePeriod ==
  ASSUME Uncrossed, Aligned, JobAligned, Sound(plans', ledger'), do_change_plan_to_new_tier
  PROVE  Aligned' /\ JobAligned'
<1> DEFINE i == get_current_plan(plans)
           row == [plans[i] EXCEPT !.status = "SWITCH_PLAN_TIER_NOW", !.next = now]
<1>1. /\ plans' = [plans EXCEPT ![i].status = "SWITCH_PLAN_TIER_NOW", ![i].next = now]
      /\ job'.step = "switch" /\ UNCHANGED <<ledger, marks>> /\ i # 0
  BY DEF do_change_plan_to_new_tier, NoJob
<1>2. i \in DOMAIN plans BY <1>1, CurrentPlan DEF Uncrossed
<1> HIDE DEF i
<1>3. plans \in Seq(Row) /\ plans[i] \in Row /\ now \in Nat
  BY <1>2 DEF Uncrossed, Sound, TablesTyped
<1>4. plans' = [plans EXCEPT ![i] = row] BY <1>1, <1>3
<1>5. row \in Row /\ row.status = "SWITCH_PLAN_TIER_NOW"
  BY <1>3 DEF Row, LiveStatuses
<1> HIDE DEF row
<1>6. KeepsDates(plans[i], row) BY <1>5 DEF KeepsDates
<1>7. Written(plans, i, row, plans') BY <1>2, <1>3, <1>4, <1>5, ExceptWrites
<1>8. KeepsTime(plans, ledger, plans', ledger')
  BY <1>1, <1>2, <1>5, <1>6, <1>7, WriteKeepsTime DEF Uncrossed
<1>9. ChargesOn BY <1>1 DEF ChargesOn, Charging
<1> QED BY <1>1, <1>8, <1>9, TimelyStays DEF Uncrossed

(* The first invoice of a new plan is due with the second month, or later *)
(* if it was invoiced at once for extra licenses. *)
LEMMA UpgradePeriod ==
  ASSUME Uncrossed, Sound(plans', ledger'), ~crossed', crossed \in BOOLEAN,
         NEW t \in Transactions, process_initial_upgrade(t)
  PROVE  Aligned' /\ JobAligned'
<1> USE BillingAssumption
<1> DEFINE new == Upgraded(tx[t])
           i == Len(plans) + 1
           qs == Append(plans, new.plan)
<1>1. /\ tx[t].kind = "upgrade" /\ plans' = qs /\ ledger' = ledger \o new.entries
      /\ get_current_plan(plans) = 0 /\ UNCHANGED job
      /\ Len(new.items) = 2 => Mark("late", Len(plans')) \in marks'
  BY DEF process_initial_upgrade
<1>2. UpgradeTyped(tx[t]) BY <1>1 DEF Uncrossed, TxSound
<1>3. /\ new.plan \in Row
      /\ new.plan.status \notin Trials =>
           new.plan.anchor = now /\ (new.plan.next = now + Month \/ Len(new.items) = 2)
  BY <1>2, UpgradedRows
<1>4. PICK e \in LedgerRow :
        /\ e.plan = i /\ e.renewal /\ e.time = now
        /\ \/ new.entries = <<e>>
           \/ \E f \in LedgerRow : ~f.renewal /\ new.entries = <<e, f>>
  BY <1>2, UpgradedRows
<1> HIDE DEF new
<1>5. /\ plans \in Seq(Row) /\ ledger \in Seq(LedgerRow) /\ Live(plans) = {} /\ now \in Nat
      /\ Sound(plans, ledger)
  BY <1>1, CurrentPlan DEF Uncrossed, Sound, TablesTyped
<1>6. /\ DOMAIN qs = DOMAIN plans \cup {i} /\ qs[i] = new.plan /\ i \notin DOMAIN plans
      /\ \A k \in DOMAIN plans : qs[k] = plans[k]
      /\ Len(qs) = i
  <2>1. Len(qs) = i BY <1>3, <1>5
  <2> QED BY <1>3, <1>5, <2>1, RowAppended
<1> HIDE DEF qs, i
<1>7. \A k \in Live(plans') : k = i BY <1>1, <1>5, <1>6 DEF Live
<1>8. ASSUME i \in Regular(plans')
      PROVE  Mark("late", i) \in marks' \/ InTime(plans', ledger', i)
  <2>1. i \in Live(plans') /\ plans'[i] = new.plan /\ new.plan.status \notin Trials
    BY <1>1, <1>6, <1>8 DEF Regular
  <2>2. ledger'[LastRenewal(ledger', i)].time = now
    <3> DEFINE ms == Append(ledger, e)
    <3>1. ms[LastRenewal(ms, i)] = e BY <1>4, <1>5, RenewalAppended
    <3>2. CASE new.entries = <<e>>
      <4>1. ledger' = ms BY <1>1, <1>5, <3>2
      <4> QED BY <1>4, <3>1, <4>1
    <3>3. CASE \E f \in LedgerRow : ~f.renewal /\ new.entries = <<e, f>>
      <4>1. PICK f \in LedgerRow : ~f.renewal /\ new.entries = <<e, f>>
        BY <3>3
      <4>2. ledger' = Append(ms, f) BY <1>1, <1>5, <4>1
      <4>3. ms \in Seq(LedgerRow) /\ i \in DOMAIN plans'
        BY <1>1, <1>5, <1>6, RowAppended
      <4>4. \E k \in DOMAIN ms : ms[k].plan = i /\ ms[k].renewal
        <5>1. Len(ledger) + 1 \in DOMAIN ms /\ ms[Len(ledger) + 1] = e
          BY <1>5, RowAppended
        <5> QED BY <1>4, <5>1
      <4> HIDE DEF ms
      <4>5. LastRenewal(ledger', i) = LastRenewal(ms, i) /\ LastRenewal(ms, i) \in DOMAIN ms
        <5>1. /\ DOMAIN ledger' = DOMAIN ms \cup {Len(ms) + 1} /\ ledger'[Len(ms) + 1] = f
              /\ \A k \in DOMAIN ms : ledger'[k] = ms[k]
          BY <4>2, <4>3, RowAppended
        <5>2. RenewalsOf(ledger', i) = RenewalsOf(ms, i)
          BY <4>1, <5>1 DEF RenewalsOf, EntriesOf
        <5> DEFINE es == RenewalsOf(ms, i)
        <5>3. es # {} /\ es \subseteq DOMAIN ms
          BY <4>4 DEF RenewalsOf, EntriesOf
        <5> HIDE DEF es
        <5>4. Latest(es) \in es BY <4>3, <5>3, LatestTyped
        <5> QED BY <5>2, <5>3, <5>4 DEF LastRenewal, es
      <4>6. ledger'[LastRenewal(ledger', i)] = ms[LastRenewal(ms, i)]
        BY <4>2, <4>3, <4>5, RowAppended
      <4> QED BY <1>4, <3>1, <4>6
    <3> QED BY <1>4, <3>2, <3>3
  <2>3. PICK m \in Nat \ {0} :
          CycleOf(plans', ledger', i) = FirstAfter(plans'[i].anchor, Month * m, now)
    BY <2>1, <2>2, RegularCycle
  <2>4. FirstAfter(now, Month * m, now) = now + Month * m
    <3> DEFINE d == Month * m
    <3>1. d \in Nat \ {0} OBVIOUS
    <3> HIDE DEF d
    <3>2. (now - now) \div d = 0 BY <1>5, <3>1
    <3> QED BY <1>5, <3>1, <3>2 DEF FirstAfter, d
  <2>5. Month <= Month * m
    <3>1. PICK k \in Nat : m = k + 1
      <4>1. m - 1 \in Nat /\ m = (m - 1) + 1 OBVIOUS
      <4> QED BY <4>1
    <3>2. Month * m = Month * k + Month /\ Month * k \in Nat BY <3>1
    <3> QED BY <3>2
  <2>6. CASE new.plan.next = now + Month
    BY <1>3, <1>5, <2>1, <2>3, <2>4, <2>5, <2>6 DEF InTime
  <2>7. CASE Len(new.items) = 2 BY <1>1, <1>6, <2>7
  <2> QED BY <1>3, <2>1, <2>6, <2>7
<1>9. Aligned' BY <1>7, <1>8 DEF Aligned, Regular
<1>10. JobAligned'
  <2> SUFFICES ASSUME job.step \in Charging, First.id \in Regular(plans') PROVE FALSE
    <3>1. First' = First BY <1>1 DEF First
    <3> QED BY <1>1, <3>1 DEF JobAligned, ChargedAhead
  <2>1. First.id \in DOMAIN plans BY CopyReplaced DEF Charging
  <2> QED BY <1>6, <1>7, <2>1 DEF Regular
<1> QED BY <1>9, <1>10

LEMMA UpdatePlanPeriod ==
  ASSUME Uncrossed, Aligned, JobAligned, Sound(plans', ledger'), NEW t \in Transactions,
         NEW request \in Requests, do_update_plan(t, request)
  PROVE  Aligned' /\ JobAligned'
<1>1. PICK i, c : Requested(i, c) BY UpdatePlanRenews
<1>2. KeepsTime(plans, ledger, plans', ledger')
  BY <1>1, CycleKeepsTime DEF Requested, Live, Uncrossed
<1> QED BY <1>2, UpdatePlanRenews, OthersKeepPeriod

LEMMA FinishUpdatePeriod ==
  ASSUME Uncrossed, Aligned, JobAligned, Sound(plans', ledger'), ~crossed', crossed \in BOOLEAN,
         NEW t \in Transactions, NEW request \in Requests, FinishUpdate(t, request)
  PROVE  Aligned' /\ JobAligned'
<1>1. UNCHANGED job /\ marks \subseteq marks' /\ Sound(plans, ledger)
  BY DEF FinishUpdate, WriteUpdate, Uncrossed
<1>2. CASE UNCHANGED <<plans, ledger, marks, cancelled>>
  BY <1>1, <1>2, TimesStay, OthersKeepPeriod
<1> SUFFICES ASSUME NEW i, NEW y, UpdatedBy(request, i, y) PROVE Aligned' /\ JobAligned'
  BY <1>2, UpdateWrites
<1>3. i \in DOMAIN plans BY DEF UpdatedBy, Live
<1>5. KeepsTime(plans, ledger, plans', ledger')
  <2>2. ASSUME NEW row \in Row, Written(plans, i, row, plans'), ledger' = ledger,
               KeepsDates(plans[i], row)
        PROVE  KeepsTime(plans, ledger, plans', ledger')
    BY <1>1, <1>3, <2>2, WriteKeepsTime
  <2>3. CASE \E row : CutOff(i, row)
    BY <2>2, <2>3 DEF CutOff, KeepsDates, LiveStatuses, Trials, Switches
  <2>4. CASE \E os, new, x : ScheduleChanged(i, os, new, x)
    <3>1. PICK os, new, x : ScheduleChanged(i, os, new, x) BY <2>4
    <3>3. \A j \in Live(plans') : j = x.plan
      BY ONLY <1>1, <3>1, ScheduleChangedFacts
    <3>4. plans'[x.plan] = new BY ONLY <1>1, <3>1, ScheduleChangedFacts
    <3> QED BY <3>1, <3>3, <3>4 DEF ScheduleChanged, KeepsTime, Regular, Trials
  <2>5. CASE \E row : StatusChanged(request, i, row)
    <3>1. PICK row : StatusChanged(request, i, row) BY <2>5
    <3>2. KeepsDates(plans[i], row)
      BY <3>1 DEF StatusChanged, KeepsDates, Live
    <3> QED BY <2>2, <3>1, <3>2 DEF StatusChanged
  <2> QED BY <2>3, <2>4, <2>5 DEF UpdatedBy
<1> QED BY <1>1, <1>5, OthersKeepPeriod

LEMMA SwitchTierPeriod ==
  ASSUME Uncrossed, Aligned, JobAligned, Sound(plans', ledger'), ~crossed', crossed \in BOOLEAN,
         switch_plan_tier
  PROVE  Aligned' /\ JobAligned'
<1>1. job'.step = "cycle" /\ First.id \in Live(plans) BY SwitchTierWrites
<1>2. PICK os, new, e : TierSwitched(First.id, os, new, e)
  BY SwitchTierWrites
<1>3. /\ e.plan \in Live(plans') /\ plans'[e.plan].status \notin Trials
      /\ \A j \in Live(plans') : j = e.plan
  BY <1>1, <1>2, TierSwitchedFacts
<1>4. plans'[e.plan] = new /\ ledger \in Seq(LedgerRow)
  BY <1>1, <1>2, TierSwitchedFacts
<1>5. ledger' = Append(ledger, e) /\ e \in LedgerRow /\ e.renewal /\ new.next = e.time
  BY <1>2 DEF TierSwitched
<1>6. e.time < CycleOf(plans', ledger', e.plan)
  <2> DEFINE i == e.plan
  <2>1. i \in Live(plans') /\ i = e.plan /\ plans'[i].status \notin Trials
    BY <1>3
  <2> HIDE DEF i
  <2> QED BY ONLY <1>3, <1>4, <1>5, <2>1, Sound(plans', ledger'), RenewalIsAhead
<1>7. KeepsTime(plans, ledger, plans', ledger')
  BY <1>3, <1>4, <1>5, <1>6 DEF KeepsTime, Regular, Ahead
<1>8. ChargesOn /\ marks \subseteq marks'
  BY <1>1 DEF ChargesOn, Charging, switch_plan_tier
<1> QED BY <1>7, <1>8, TimelyStays DEF Uncrossed

(* What was due is renewed before it is charged. *)
LEMMA BeginInvoicingPeriod ==
  ASSUME Uncrossed, Aligned, JobAligned, Sound(plans', ledger'), ~crossed', crossed \in BOOLEAN,
         BeginInvoicing
  PROVE  Aligned' /\ JobAligned'
<1> DEFINE c == First
           event_time == Min({c.row.next, job.until})
           m == make_end_of_cycle_updates_if_needed(
                    Reading(c.id, c.row, event_time, ledger), plans, ledger)
           row == m.copy
           left == {e \in EntriesOf(m.ledger, c.id) :
                      /\ row.invoicing = "INITIAL" \/ e > row.through
                      /\ m.ledger[e].time <= event_time}
           base == IF row.invoicing = "INITIAL" THEN None ELSE ledger[row.through].licenses
           copies == Replaced(row)
<1>1. job.step = "cycle" /\ UNCHANGED marks BY DEF BeginInvoicing
<1>2. CASE c.row.invoicing = "STARTED"
  <2>1. job' = NoJob /\ UNCHANGED <<plans, ledger>>
    BY <1>2 DEF BeginInvoicing, tables
  <2>2. ChargesOn BY <2>1 DEF ChargesOn, Charging, NoJob
  <2> QED BY <1>1, <2>1, <2>2, QuietPeriod
<1>3. CASE c.row.invoicing # "STARTED"
  <2>1. /\ plans' = m.plans /\ ledger' = m.ledger /\ plans[c.id] = c.row
        /\ job' = [job EXCEPT !.step = "entry", !.copies = copies, !.made = FALSE,
                              !.entries = left, !.base = base]
    BY <1>3 DEF BeginInvoicing
  <2>2. c.id \in DOMAIN plans BY <1>1, CopyReplaced
  <2>3. job'.copies = Replaced(row) /\ job'.until = job.until
    <3> HIDE DEF left, base, copies
    <3>1. job'.copies = copies /\ job'.until = job.until
      BY <2>1 DEF Uncrossed, JobSound
    <3> QED BY <3>1 DEF copies
  <2> HIDE DEF left, base, copies, row
  <2>4. First'.id = c.id BY <1>1, <2>3, FirstReplaced
  <2> HIDE DEF c
  <2>5. event_time \in Int BY <2>1, <2>2, EventTimeTyped
  <2>6. plans[c.id].next <= job.until => event_time = plans[c.id].next
    <3>1. plans[c.id] \in Row BY <2>2 DEF Uncrossed, Sound, TablesTyped
    <3>2. plans[c.id].next \in Int /\ job.until \in Int
      BY <3>1 DEF Row, None, Uncrossed, JobSound
    <3>3. \A a, b \in Int : a <= b => Min({a, b}) = a
      <4> SUFFICES ASSUME NEW a \in Int, NEW b \in Int, a <= b PROVE Min({a, b}) = a
        OBVIOUS
      <4>1. \E x \in {a, b} : \A y \in {a, b} : x <= y OBVIOUS
      <4>2. Min({a, b}) \in {a, b} /\ \A y \in {a, b} : Min({a, b}) <= y
        BY <4>1 DEF Min
      <4> QED BY <4>2
    <3> QED BY <2>1, <3>2, <3>3
  <2> HIDE DEF event_time
  <2>7. m = make_end_of_cycle_updates_if_needed(
                Reading(c.id, plans[c.id], event_time, ledger), plans, ledger)
    BY <2>1
  <2> HIDE DEF m
  <2>8. /\ KeepsTime(plans, ledger, plans', ledger')
        /\ c.id \in Live(plans') => c.id \in Live(plans) /\ plans'[c.id].next = plans[c.id].next
        /\ /\ c.id \in Regular(plans') /\ event_time = plans[c.id].next
           /\ c.id \in Regular(plans) => InTime(plans, ledger, c.id)
           => Ahead(plans', ledger', c.id)
    BY <2>1, <2>2, <2>5, <2>7, CycleKeepsTime DEF Uncrossed
  <2>9. Aligned' BY <1>1, <2>8, TimelyStays DEF Uncrossed
  <2>10. ChargedAhead(c.id, job.until, plans', ledger', marks')
    <3> SUFFICES ASSUME c.id \in Regular(plans'), plans'[c.id].next <= job.until,
                        Mark("late", c.id) \notin marks'
                 PROVE  Ahead(plans', ledger', c.id)
      BY DEF ChargedAhead
    <3>1. event_time = plans[c.id].next BY <2>6, <2>8 DEF Regular
    <3>2. c.id \in Regular(plans) => InTime(plans, ledger, c.id)
      BY <1>1 DEF Aligned
    <3> QED BY <2>8, <3>1, <3>2
  <2> QED BY <2>3, <2>4, <2>9, <2>10 DEF JobAligned
<1> QED BY <1>2, <1>3

LEMMA SaveInvoicingPeriod ==
  ASSUME Uncrossed, Aligned, JobAligned, Sound(plans', ledger'), NEW status \in {"STARTED", "DONE"},
         SaveInvoicing(status), job.step \in {"entry", "done"}, job.entries # {}
  PROVE  Aligned' /\ JobAligned'
<1> DEFINE i == First.id
           row == SavedAs(plans[i], status)
<1>1. /\ i \in DOMAIN plans /\ row \in Row /\ Written(plans, i, row, plans')
      /\ KeepsDates(plans[i], row) /\ UNCHANGED <<ledger, marks>>
      /\ job'.copies = Replaced(SavedAs(First.row, status)) /\ job'.until = job.until
  BY SaveInvoicingWrites DEF KeepsDates
<1>2. ChargesOn
  <2>1. First'.id = First.id BY <1>1, FirstReplaced
  <2> QED BY <1>1, <2>1 DEF ChargesOn, Charging
<1> HIDE DEF i, row
<1>3. KeepsTime(plans, ledger, plans', ledger')
  BY <1>1, WriteKeepsTime DEF Uncrossed
<1> QED BY <1>1, <1>2, <1>3, TimelyStays DEF Uncrossed

(* The next invoice is due at the next date of the grid, which is not *)
(* after the end of a cycle that was renewed. *)
LEMMA FinishInvoicingPeriod ==
  ASSUME Uncrossed, Aligned, JobAligned, Sound(plans', ledger'), ~crossed', crossed \in BOOLEAN,
         FinishInvoicing
  PROVE  Aligned' /\ JobAligned'
<1> USE BillingAssumption
<1> DEFINE c == First
           i == c.id
           next == next_invoice_date(c.row)
           row == [plans[i] EXCEPT !.next = next]
<1>1. /\ plans' = [plans EXCEPT ![i].next = next] /\ plans[i] = c.row /\ UNCHANGED ledger
      /\ job.step = "entry"
      /\ marks \subseteq marks' /\ (c.row.next > job.until => Mark("late", i) \in marks')
  BY DEF FinishInvoicing
<1>2. job'.step \in {"cycle", "idle"}
  BY DEF FinishInvoicing, NoJob, Uncrossed, JobSound
<1>3. i \in DOMAIN plans BY <1>1, CopyReplaced
<1>4. ChargedAhead(i, job.until, plans, ledger, marks)
  BY <1>1 DEF JobAligned, Charging
<1> HIDE DEF c, next
<1>5. plans \in Seq(Row) /\ plans[i] \in Row /\ Sound(plans, ledger)
  BY <1>3 DEF Uncrossed, Sound, TablesTyped
<1>6. /\ DOMAIN plans' = DOMAIN plans /\ \A k \in DOMAIN plans : k # i => plans'[k] = plans[k]
      /\ plans'[i].status = plans[i].status /\ plans'[i].anchor = plans[i].anchor
      /\ plans'[i].schedule = plans[i].schedule /\ plans'[i].next = next
  <2>1. plans'[i] = row /\ DOMAIN plans' = DOMAIN plans
        /\ \A k \in DOMAIN plans : k # i => plans'[k] = plans[k]
    BY <1>1, <1>3, <1>5
  <2>2. /\ row.status = plans[i].status /\ row.anchor = plans[i].anchor
        /\ row.schedule = plans[i].schedule /\ row.next = next
    BY <1>5 DEF Row
  <2> QED BY <2>1, <2>2
<1> HIDE DEF i
<1>7. ASSUME NEW k \in Regular(plans')
      PROVE  /\ k \in Regular(plans) /\ CycleOf(plans', ledger', k) = CycleOf(plans, ledger, k)
             /\ plans[k].status # "ENDED"
  <2>1. k \in Live(plans') /\ k \in DOMAIN plans /\ plans'[k].status = plans[k].status
        /\ plans'[k].anchor = plans[k].anchor /\ plans'[k].schedule = plans[k].schedule
        /\ plans[k].status \notin Trials /\ plans'[k].status \notin Trials
    BY <1>6 DEF Regular, Live
  <2>2. k \in Live(plans) /\ k \in Regular(plans) /\ plans[k].status # "ENDED"
    BY <2>1 DEF Regular, Live, LiveStatuses, Trials, Switches
  <2>3. CycleOf(plans', ledger, k) = CycleOf(plans, ledger, k)
    <3>1. Sound(plans', ledger) BY <1>1
    <3> QED BY <1>5, <2>1, <2>2, <3>1, SameCycle
  <2> QED BY <1>1, <2>2, <2>3
<1>8. ASSUME NEW k \in Regular(plans')
      PROVE  Mark("late", k) \in marks' \/ InTime(plans', ledger', k)
  <2>1. CASE k # i
    <3>1. Mark("late", k) \in marks \/ InTime(plans, ledger, k)
      BY <1>7 DEF Aligned
    <3>2. plans'[k].next = plans[k].next
      BY <1>6, <1>7, <2>1 DEF Regular, Live
    <3> QED BY <1>1, <1>7, <3>1, <3>2 DEF InTime
  <2>2. CASE k = i
    <3>1. i \in Live(plans) /\ plans[i].status \notin Trials /\ plans[i].status # "ENDED"
      BY <1>7, <2>2 DEF Regular
    <3>2. next = FirstAfter(plans[i].anchor, Month, plans[i].next)
      BY <1>1, <3>1 DEF next, next_invoice_date
    <3>3. plans[i].next \in Nat /\ plans[i].anchor \in Nat
      BY <1>5, <3>1, TimesTyped
    <3>4. job.until \in Int BY DEF Uncrossed, JobSound
    <3>5. CASE plans[i].next > job.until BY <1>1, <2>2, <3>5
    <3>6. CASE plans[i].next <= job.until
      <4>1. Mark("late", i) \in marks \/ plans[i].next < CycleOf(plans, ledger, i)
        BY <1>4, <1>7, <2>2, <3>6 DEF ChargedAhead, Ahead
      <4>2. CASE plans[i].next < CycleOf(plans, ledger, i)
        <5>1. PICK m \in Nat \ {0}, s \in Nat :
                CycleOf(plans, ledger, i) = FirstAfter(plans[i].anchor, Month * m, s)
          <6> DEFINE last == ledger[LastRenewal(ledger, i)].time
          <6>1. last \in Nat
                /\ \E m \in Nat \ {0} :
                     CycleOf(plans, ledger, i) = FirstAfter(plans[i].anchor, Month * m, last)
            BY <1>5, <3>1, RegularCycle
          <6> HIDE DEF last
          <6> QED BY <6>1
        <5>2. next <= CycleOf(plans, ledger, i)
          <6>1. plans[i].next < FirstAfter(plans[i].anchor, Month * m, s) /\ Month \in Nat \ {0}
            BY <4>2, <5>1
          <6>2. FirstAfter(plans[i].anchor, Month, plans[i].next)
                  <= FirstAfter(plans[i].anchor, Month * m, s)
            BY <3>3, <6>1, GridBetween
          <6> QED BY <3>2, <5>1, <6>2
        <5> QED BY <1>6, <1>7, <2>2, <5>2 DEF InTime
      <4> QED BY <1>1, <2>2, <4>1, <4>2
    <3> QED BY <3>3, <3>4, <3>5, <3>6
  <2> QED BY <2>1, <2>2
<1>9. Aligned' BY <1>8 DEF Aligned
<1>10. JobAligned' BY <1>2 DEF JobAligned, Charging
<1> QED BY <1>9, <1>10

LEMMA PeriodInit == Init => PeriodInv
<1> SUFFICES ASSUME Init PROVE PeriodInv
  OBVIOUS
<1>1. plans = <<>> /\ job.step = "idle" BY DEF Init, NoJob
<1>2. Regular(plans) = {} BY <1>1 DEF Regular, Live
<1>3. Aligned /\ JobAligned BY <1>1, <1>2 DEF Aligned, JobAligned, Charging
<1> QED BY <1>3, CancelInit DEF PeriodInv

(* Steps that leave the tables and the time alone. *)
LEMMA QuietSteps ==
  ASSUME Uncrossed, Quiet
  PROVE  /\ UNCHANGED <<plans, ledger, marks, now, items>> /\ ChargesOn
         /\ job'.entries \subseteq job.entries
<1>1. CASE invoice_plans_as_needed \/ CreateInvoice \/ JobDies
  BY <1>1, JobQuiet DEF ChargesOn, Charging, First, Uncrossed, JobSound
<1>2. CASE ~ (invoice_plans_as_needed \/ CreateInvoice \/ JobDies)
  <2>1. UNCHANGED <<plans, ledger, marks, now, items, job>>
    BY <1>2 DEF Quiet, BeginUserChange, BeginUpgrade, vars, tables, clock, stripe
  <2> QED BY <2>1, JobGoesOn
<1> QED BY <1>1, <1>2

LEMMA PeriodStep == PeriodInv /\ [Next]_vars => PeriodInv'
<1> SUFFICES ASSUME PeriodInv, [Next]_vars PROVE PeriodInv'
  OBVIOUS
<1>1. CancelInv /\ CancelInv' BY CancelStep DEF PeriodInv
<1>2. crossed \in BOOLEAN /\ crossed' \in BOOLEAN /\ (~crossed' => ~crossed)
  BY <1>1, CrossedGrows DEF CancelInv, BillingInv
<1> SUFFICES ASSUME ~crossed' PROVE Aligned' /\ JobAligned'
  BY <1>1 DEF PeriodInv
<1>3. Uncrossed /\ Honoured /\ Aligned /\ JobAligned /\ Sound(plans', ledger')
  BY <1>1, <1>2 DEF PeriodInv, CancelInv, BillingInv, Uncrossed
<1>4. CASE Quiet BY <1>3, <1>4, QuietSteps, QuietPeriod
<1>5. ASSUME NEW t \in Transactions, CommitUserChange(t) PROVE Aligned' /\ JobAligned'
  BY <1>2, <1>3, <1>5, CommitUserChangePeriod
<1>6. ASSUME NEW t \in Transactions, process_initial_upgrade(t) PROVE Aligned' /\ JobAligned'
  BY <1>2, <1>3, <1>6, UpgradePeriod
<1>7. ASSUME NEW t \in Transactions, NEW request \in Requests,
             do_update_plan(t, request) \/ FinishUpdate(t, request)
      PROVE  Aligned' /\ JobAligned'
  BY <1>2, <1>3, <1>7, UpdatePlanPeriod, FinishUpdatePeriod
<1>8. CASE downgrade_now BY <1>3, <1>8, DowngradeNowPeriod
<1>9. CASE do_change_plan_to_new_tier BY <1>3, <1>9, TierChangePeriod
<1>10. CASE switch_plan_tier BY <1>2, <1>3, <1>10, SwitchTierPeriod
<1>11. CASE BeginInvoicing BY <1>2, <1>3, <1>11, BeginInvoicingPeriod
<1>12. CASE StartEntry \/ SkipEntry \/ FinishEntry
  BY <1>3, <1>12, EntrySaved, SaveInvoicingPeriod
<1>13. CASE CreateItem
  <2>1. /\ job.step = "item" /\ job' = [job EXCEPT !.step = "done", !.made = TRUE]
        /\ UNCHANGED <<plans, ledger, marks>>
    BY <1>13 DEF CreateItem, tables
  <2>2. ChargesOn
    BY <1>3, <2>1 DEF ChargesOn, Charging, First, Uncrossed, JobSound
  <2> QED BY <1>3, <2>1, <2>2, QuietPeriod
<1>14. CASE FinishInvoicing BY <1>2, <1>3, <1>14, FinishInvoicingPeriod
<1>15. CASE Tick
  <2>1. UNCHANGED <<plans, ledger, marks, job>> BY <1>15 DEF Tick, tables
  <2> QED BY <1>3, <2>1, JobGoesOn, QuietPeriod
<1> QED
  BY <1>4, <1>5, <1>6, <1>7, <1>8, <1>9, <1>10, <1>11, <1>12, <1>13, <1>14, <1>15 DEF
     Quiet, Next, Invoicing

LEMMA PeriodsPaid == PeriodInv => NoUnpaidPeriod
<1> SUFFICES ASSUME PeriodInv, ~crossed, Due = {}, NEW i \in Live(plans), ~ Marked("late", i),
                    plans[i].status # "SWITCH_PLAN_TIER_NOW"
             PROVE  get_next_billing_cycle(i, plans[i], ledger) > now
  BY DEF NoUnpaidPeriod
<1>1. Uncrossed /\ Aligned BY DEF PeriodInv, CancelInv, BillingInv
<1>2. /\ i \in DOMAIN plans /\ plans[i].next \in Nat /\ now \in Nat
      /\ CycleOf(plans, ledger, i) \in Nat
  BY <1>1, TimesTyped DEF Uncrossed
<1>3. now < plans[i].next
  <2>1. plans[i].next # None BY <1>2 DEF None
  <2> QED BY <1>2, <2>1 DEF Due
<1>4. CASE plans[i].status \in Trials
  BY <1>2, <1>3, <1>4 DEF get_next_billing_cycle
<1>5. CASE plans[i].status \notin Trials
  <2>1. i \in Regular(plans) BY <1>5 DEF Regular
  <2>2. plans[i].next <= CycleOf(plans, ledger, i)
    BY <1>1, <2>1 DEF Aligned, InTime, Marked
  <2> QED BY <1>2, <1>3, <2>2 DEF CycleOf
<1> QED BY <1>4, <1>5

(* When the job has nothing left to do, every live plan is renewed for the *)
(* present time: its invoices come on the grid of months on which its *)
(* cycles end, also after a trial, a switch of the schedule or a change of *)
(* the tier, for any length of the month and the year.  Exempt are a plan *)
(* that was invoiced before it was due, a tier change that was interrupted *)
(* and what follows a write that crosses another one. *)
THEOREM NoUnpaidPeriodCorrect == Spec => []NoUnpaidPeriod
<1>1. Spec => []PeriodInv BY PeriodInit, PeriodStep, PTL DEF Spec
<1> QED BY <1>1, PeriodsPaid, PTL

-----------------------------------------------------------------------------
(* The periods of a customer's plans follow one another. *)

LEMMA EndTyped ==
  ASSUME NEW ps \in Seq(Row), NEW ls \in Seq(LedgerRow), NEW e \in DOMAIN ls,
         ls[e].plan \in DOMAIN ps
  PROVE  EndOf(ps, ls, e) \in Nat /\ ls[e].time \in Nat /\ ls[e].time < EndOf(ps, ls, e)
<1> USE BillingAssumption
<1> DEFINE p == ps[ls[e].plan]
           step == Month * (IF p.schedule = "annual" THEN MonthsPerYear ELSE 1)
           anchor == p.anchor
           time == ls[e].time
           end == EndOf(ps, ls, e)
<1>1. ls[e] \in LedgerRow /\ p \in Row OBVIOUS
<1>2. time \in Nat /\ anchor \in Nat BY <1>1 DEF LedgerRow, Row
<1>3. step \in Nat \ {0}
  <2>1. CASE p.schedule = "annual"
    <3>1. Month * MonthsPerYear \in Nat \ {0} OBVIOUS
    <3> QED BY <2>1, <3>1
  <2>2. CASE p.schedule # "annual" BY <2>2
  <2> QED BY <2>1, <2>2
<1>4. end = FirstAfter(anchor, step, time)
  BY DEF EndOf, start_of_next_billing_cycle
<1> HIDE DEF anchor, step, time, end
<1>5. end \in Nat /\ time < end BY <1>2, <1>3, <1>4, FirstAfterTyped
<1> QED BY <1>2, <1>5 DEF time, end

(* Marks are only added. *)
LEMMA StillExempt ==
  ASSUME NEW ls, NEW ms, NEW ns, ms \subseteq ns, NEW e, Exempt(ls, ms, e)
  PROVE  Exempt(ls, ns, e)
  BY DEF Exempt, InitialOf

(* An entry that is appended is not the first one of an old plan. *)
LEMMA ExemptAfterEntry ==
  ASSUME NEW ls \in Seq(LedgerRow), NEW x \in LedgerRow, NEW ms, NEW e \in DOMAIN ls
  PROVE  /\ InitialOf(Append(ls, x), ms, e) <=> InitialOf(ls, ms, e)
         /\ Exempt(ls, ms, e) => Exempt(Append(ls, x), ms, e)
<1> DEFINE ns == Append(ls, x)
           n == Len(ls) + 1
<1>1. /\ DOMAIN ns = DOMAIN ls \cup {n} /\ ns[n] = x /\ n \in Nat
      /\ \A k \in DOMAIN ls : ns[k] = ls[k] /\ k \in Nat /\ k < n
  BY RowAppended
<1> HIDE DEF ns, n
<1>2. /\ EntriesOf(ls, ls[e].plan) \subseteq EntriesOf(ns, ns[e].plan)
      /\ EntriesOf(ns, ns[e].plan) \subseteq EntriesOf(ls, ls[e].plan) \cup {n}
  BY <1>1 DEF EntriesOf
<1>3. e <= n /\ ns[e] = ls[e] BY <1>1
<1>4. InitialOf(ns, ms, e) <=> InitialOf(ls, ms, e)
  BY <1>2, <1>3 DEF InitialOf
<1> QED BY <1>3, <1>4 DEF Exempt, ns

(* Rows that keep the terms of a plan with a renewal that can be charged. *)
LEMMA TermsKeepPeriods ==
  ASSUME NEW ps, NEW qs, NEW ls, NEW ms, NEW ns, ms \subseteq ns, OfPlans(ps, ls, ms),
         \A e \in DOMAIN ls : ls[e].renewal =>
           Exempt(ls, ns, e) \/ EndOf(qs, ls, e) = EndOf(ps, ls, e)
  PROVE  /\ Paired(ps, ls, ms) => Paired(qs, ls, ns)
         /\ \A t : CoveredBy(ps, ls, ms, t) => CoveredBy(qs, ls, ns, t)
  BY StillExempt DEF Paired, CoveredBy

LEMMA SameTerms ==
  ASSUME NEW ps, NEW qs, NEW ls, NEW e,
         qs[ls[e].plan].anchor = ps[ls[e].plan].anchor,
         qs[ls[e].plan].schedule = ps[ls[e].plan].schedule
  PROVE  EndOf(qs, ls, e) = EndOf(ps, ls, e)
  BY DEF EndOf, start_of_next_billing_cycle

(* A write that changes no terms.  The periods of a plan that it ends are *)
(* over, or exempt. *)
LEMMA RowsKeepSuccessive ==
  ASSUME NEW ps \in Seq(Row), NEW qs, NEW ls \in Seq(LedgerRow), NEW ms, NEW ns,
         NEW t \in Int, NEW u \in Int, t <= u, Successive(ps, ls, ms, t),
         DOMAIN qs = DOMAIN ps,
         \A i \in DOMAIN ps : qs[i].anchor = ps[i].anchor /\ qs[i].schedule = ps[i].schedule,
         ms \subseteq ns, \A m \in ns : m.plan \in DOMAIN ps,
         \A i \in Live(qs) : i \in Live(ps) /\ (qs[i].status \in Trials => ps[i].status \in Trials),
         \A e \in DOMAIN ls : ls[e].renewal /\ ls[e].plan \in Live(ps) \ Live(qs) =>
           Exempt(ls, ns, e) \/ EndOf(ps, ls, e) <= u
  PROVE  Successive(qs, ls, ns, u)
<1>1. \A e \in DOMAIN ls : EndOf(qs, ls, e) = EndOf(ps, ls, e) /\ EndOf(ps, ls, e) \in Int
  BY SameTerms, EndTyped DEF Successive, OfPlans
<1>2. OfPlans(qs, ls, ns) BY DEF Successive, OfPlans
<1>3. Paired(qs, ls, ns) BY <1>1, TermsKeepPeriods DEF Successive
<1>4. Over(qs, ls, ns, u)
  <2> SUFFICES ASSUME NEW e \in DOMAIN ls, ls[e].renewal, ls[e].plan \notin Live(qs)
               PROVE  Exempt(ls, ns, e) \/ EndOf(qs, ls, e) <= u
    BY DEF Over
  <2>1. CASE ls[e].plan \in Live(ps) BY <1>1, <2>1
  <2>2. CASE ls[e].plan \notin Live(ps)
    <3>1. Exempt(ls, ms, e) \/ EndOf(ps, ls, e) <= t
      BY <2>2 DEF Successive, Over
    <3> QED BY <1>1, <3>1, StillExempt
  <2> QED BY <2>1, <2>2
<1>5. LastOfAll(qs, ls) BY DEF Successive, LastOfAll
<1>6. TrialRows(qs, ls, ns) BY DEF Successive, TrialRows, InitialOf, Live
<1> QED BY <1>2, <1>3, <1>4, <1>5, <1>6 DEF Successive

LEMMA EntryKeepsSuccessive ==
  ASSUME NEW ps, NEW ls, Sound(ps, ls), NEW ms, NEW t, Successive(ps, ls, ms, t),
         NEW x \in LedgerRow, ~x.renewal, x.plan \in DOMAIN ps
  PROVE  Successive(ps, Append(ls, x), ms, t)
<1> DEFINE ns == Append(ls, x)
           n == Len(ls) + 1
<1>1. /\ DOMAIN ns = DOMAIN ls \cup {n} /\ ns[n] = x /\ ls \in Seq(LedgerRow)
      /\ \A k \in DOMAIN ls : ns[k] = ls[k]
  BY RowAppended DEF Sound, TablesTyped
<1>2. \A e \in DOMAIN ls : /\ InitialOf(ns, ms, e) <=> InitialOf(ls, ms, e)
                           /\ Exempt(ls, ms, e) => Exempt(ns, ms, e)
  BY <1>1, ExemptAfterEntry
<1> HIDE DEF ns, n
<1>3. \A e \in DOMAIN ns : ns[e].renewal => e \in DOMAIN ls /\ ns[e] = ls[e]
  BY <1>1
<1>4. \A e \in DOMAIN ls : EndOf(ps, ns, e) = EndOf(ps, ls, e)
  BY <1>1 DEF EndOf
<1>5. \A i : RenewalsOf(ns, i) = RenewalsOf(ls, i) /\ LastRenewal(ns, i) = LastRenewal(ls, i)
  <2>1. \A i : RenewalsOf(ns, i) = RenewalsOf(ls, i)
    BY <1>1, <1>3 DEF RenewalsOf, EntriesOf
  <2> QED BY <2>1 DEF LastRenewal
<1>6. OfPlans(ps, ns, ms) BY <1>1 DEF OfPlans, Successive
<1>7. Paired(ps, ns, ms) BY <1>2, <1>3, <1>4 DEF Paired, Successive
<1>8. Over(ps, ns, ms, t) BY <1>2, <1>3, <1>4 DEF Over, Successive
<1>9. LastOfAll(ps, ns) BY <1>3, <1>5 DEF LastOfAll, Successive
<1>10. TrialRows(ps, ns, ms)
  <2>1. \A i : \A e \in RenewalsOf(ls, i) : e \in DOMAIN ls
    BY DEF RenewalsOf, EntriesOf
  <2> QED BY <1>1, <1>2, <1>5, <2>1 DEF TrialRows, Successive
<1> QED BY <1>6, <1>7, <1>8, <1>9, <1>10 DEF Successive, ns

(* A renewal that begins when the earlier ones have ended. *)
LEMMA RenewalKeepsSuccessive ==
  ASSUME NEW qs \in Seq(Row), NEW ls \in Seq(LedgerRow), NEW x \in LedgerRow, x.renewal,
         x.plan \in DOMAIN qs, NEW ms, NEW t \in Int, x.time <= t,
         OfPlans(qs, ls, ms), Paired(qs, ls, ms), CoveredBy(qs, ls, ms, x.time),
         Live(qs) = {x.plan},
         qs[x.plan].status \in Trials => /\ EntriesOf(ls, x.plan) = {} /\ Mark("trial", x.plan) \in ms
                                         /\ x.time <= qs[x.plan].anchor
  PROVE  Successive(qs, Append(ls, x), ms, t)
<1> DEFINE ns == Append(ls, x)
           n == Len(ls) + 1
<1>1. /\ ns \in Seq(LedgerRow) /\ DOMAIN ns = DOMAIN ls \cup {n} /\ ns[n] = x /\ n \in Nat
      /\ \A k \in DOMAIN ls : ns[k] = ls[k] /\ k \in Nat /\ k < n
  BY RowAppended
<1>2. \A e \in DOMAIN ls : Exempt(ls, ms, e) => Exempt(ns, ms, e)
  BY <1>1, ExemptAfterEntry
<1> HIDE DEF ns, n
<1>3. x.time \in Int BY DEF LedgerRow
<1>4. \A e \in DOMAIN ls : EndOf(qs, ns, e) = EndOf(qs, ls, e) /\ EndOf(qs, ls, e) \in Int
  <2>1. \A e \in DOMAIN ls : EndOf(qs, ns, e) = EndOf(qs, ls, e)
    BY <1>1 DEF EndOf
  <2> QED BY <2>1, EndTyped DEF OfPlans
<1>5. OfPlans(qs, ns, ms) BY <1>1 DEF OfPlans
<1>6. Paired(qs, ns, ms)
  <2> SUFFICES ASSUME NEW d \in DOMAIN ns, NEW e \in DOMAIN ns, ns[d].renewal, ns[e].renewal, d < e
               PROVE  Exempt(ns, ms, d) \/ EndOf(qs, ns, d) <= ns[e].time
    BY DEF Paired
  <2>1. d \in DOMAIN ls /\ ns[d] = ls[d] BY <1>1
  <2>2. CASE e = n
    <3>1. Exempt(ls, ms, d) \/ EndOf(qs, ls, d) <= x.time
      BY <2>1 DEF CoveredBy
    <3> QED BY <1>1, <1>2, <1>4, <2>1, <2>2, <3>1
  <2>3. CASE e # n
    <3>1. e \in DOMAIN ls /\ ns[e] = ls[e] BY <1>1, <2>3
    <3>2. Exempt(ls, ms, d) \/ EndOf(qs, ls, d) <= ls[e].time
      BY <2>1, <3>1 DEF Paired
    <3> QED BY <1>2, <1>4, <2>1, <3>1, <3>2
  <2> QED BY <2>2, <2>3
<1>7. Over(qs, ns, ms, t)
  <2> SUFFICES ASSUME NEW e \in DOMAIN ns, ns[e].renewal, ns[e].plan \notin Live(qs)
               PROVE  Exempt(ns, ms, e) \/ EndOf(qs, ns, e) <= t
    BY DEF Over
  <2>1. e \in DOMAIN ls /\ ns[e] = ls[e] BY <1>1
  <2>2. Exempt(ls, ms, e) \/ EndOf(qs, ls, e) <= x.time
    BY <2>1 DEF CoveredBy
  <2> QED BY <1>2, <1>3, <1>4, <2>1, <2>2
<1>8. LastOfAll(qs, ns)
  <2> SUFFICES ASSUME NEW i \in Live(qs), NEW e \in DOMAIN ns PROVE e <= LastRenewal(ns, i)
    BY DEF LastOfAll
  <2> DEFINE es == RenewalsOf(ns, i)
  <2>1. es \subseteq DOMAIN ns /\ n \in es BY <1>1 DEF RenewalsOf, EntriesOf
  <2> HIDE DEF es
  <2>2. n <= Latest(es) /\ Latest(es) \in Nat BY <1>1, <2>1, LatestTyped
  <2>3. e \in Nat /\ e <= n BY <1>1
  <2> QED BY <1>1, <2>2, <2>3 DEF LastRenewal, es
<1>9. TrialRows(qs, ns, ms)
  <2> SUFFICES ASSUME NEW i \in Live(qs), qs[i].status \in Trials, NEW e \in RenewalsOf(ns, i)
               PROVE  InitialOf(ns, ms, e) /\ ns[e].time <= qs[i].anchor
    BY DEF TrialRows
  <2>1. EntriesOf(ns, i) = {n} BY <1>1 DEF EntriesOf
  <2>2. e = n /\ ns[e] = x /\ i = x.plan BY <1>1, <2>1 DEF RenewalsOf
  <2> QED BY <1>1, <2>1, <2>2 DEF InitialOf
<1> QED BY <1>5, <1>6, <1>7, <1>8, <1>9 DEF Successive, ns

(* A time that is not before the end of the last period, of the live plan, *)
(* is not before the end of any period. *)
LEMMA LastPeriodCovers ==
  ASSUME NEW ps, NEW ls, Sound(ps, ls), NEW ms, NEW ns, ms \subseteq ns, NEW t, Successive(ps, ls, ms, t),
         NEW i \in Live(ps), NEW u \in Int, ls[LastRenewal(ls, i)].time <= u,
         Exempt(ls, ns, LastRenewal(ls, i)) \/ EndOf(ps, ls, LastRenewal(ls, i)) <= u
  PROVE  CoveredBy(ps, ls, ns, u)
<1> DEFINE last == LastRenewal(ls, i)
<1>1. last \in DOMAIN ls /\ ls[last].renewal /\ ls[last].time \in Nat /\ DOMAIN ls \subseteq Nat
  BY LastRenewalFacts DEF Live, Sound, TablesTyped
<1> SUFFICES ASSUME NEW e \in DOMAIN ls, ls[e].renewal
             PROVE  Exempt(ls, ns, e) \/ EndOf(ps, ls, e) <= u
  BY DEF CoveredBy
<1>2. e <= last /\ e \in Nat BY <1>1 DEF Successive, LastOfAll
<1>3. EndOf(ps, ls, e) \in Nat
  BY EndTyped DEF Successive, OfPlans, Sound, TablesTyped
<1> HIDE DEF last
<1>4. CASE e = last BY <1>4 DEF last
<1>5. CASE e # last
  <2>1. e < last BY <1>1, <1>2, <1>5
  <2>2. Exempt(ls, ms, e) \/ EndOf(ps, ls, e) <= ls[last].time
    BY <1>1, <2>1 DEF Successive, Paired
  <2> QED BY <1>1, <1>3, <2>2, StillExempt DEF last
<1> QED BY <1>4, <1>5

(* The next cycle of the live plan begins when all periods are over. *)
LEMMA CycleCovers ==
  ASSUME NEW ps, NEW ls, Sound(ps, ls), NEW ms, NEW t \in Nat, Dated(ps, ls, t),
         Successive(ps, ls, ms, t), NEW i \in Live(ps)
  PROVE  CoveredBy(ps, ls, ms, CycleOf(ps, ls, i)) /\ CycleOf(ps, ls, i) \in Nat
<1> DEFINE last == LastRenewal(ls, i)
           cycle == CycleOf(ps, ls, i)
<1>1. /\ last \in RenewalsOf(ls, i) /\ ls[last].plan = i /\ cycle \in Nat /\ last \in DOMAIN ls
      /\ ls[last].renewal
  BY LastRenewalOfPlan, LastRenewalFacts, TimesTyped DEF Live
<1>2. ls[last].time <= cycle BY <1>1, CycleIsLater DEF CycleOf, RenewedBy
<1>3. Exempt(ls, ms, last) \/ EndOf(ps, ls, last) <= cycle
  <2>1. CASE ps[i].status \in Trials
    BY <1>1, <2>1 DEF Successive, TrialRows, Exempt
  <2>2. CASE ps[i].status \notin Trials
    <3>1. cycle = start_of_next_billing_cycle(ps[i], ls[last].time)
      BY <2>2, RegularCycle
    <3>2. EndOf(ps, ls, last) = cycle BY <1>1, <3>1 DEF EndOf
    <3> QED BY <1>1, <3>2
  <2> QED BY <2>1, <2>2
<1>4. cycle \in Int BY <1>1
<1> HIDE DEF last, cycle
<1> QED BY <1>1, <1>2, <1>3, <1>4, LastPeriodCovers DEF last, cycle

LEMMA CycleKeepsSuccessive ==
  ASSUME NEW ps, NEW ls, Sound(ps, ls), NEW i \in DOMAIN ps, NEW t \in Int, NEW n \in Nat, t <= n,
         NEW ms, Dated(ps, ls, n), Successive(ps, ls, ms, n), NEW c, Cycled(ps, ls, i, t, c)
  PROVE  Successive(c.plans, c.ledger, ms, n)
<1> DEFINE cycle == CycleOf(ps, ls, i)
<1>1. ps \in Seq(Row) /\ ls \in Seq(LedgerRow) /\ OfPlans(ps, ls, ms)
  BY DEF Sound, TablesTyped, Successive
<1>2. CASE Stays(ps, ls, i, t, c) BY <1>2 DEF Stays
<1>3. CASE ~ Stays(ps, ls, i, t, c)
  <2>1. /\ i \in Live(ps) /\ cycle <= t
        /\ GoesOn(ps, ls, i, t, c) \/ Starts(ps, ls, i, t, c) \/ Switched(ps, ls, i, t, c)
             \/ Ends(ps, ls, i, c)
    BY <1>3 DEF Cycled
  <2>2. CoveredBy(ps, ls, ms, cycle) /\ cycle \in Nat /\ cycle <= n /\ n \in Int
    BY <2>1, CycleCovers
  <2>3. \A k \in Live(ps) : k = i BY <2>1 DEF Sound, AtMostOneLive
  <2> HIDE DEF cycle
  <2>4. CASE GoesOn(ps, ls, i, t, c)
    <3>1. PICK e : RenewedAt(ps, ls, i, t, e) /\ e.plan = i /\ c.ledger = Append(ls, e) /\ c.plans = ps
      BY <2>4 DEF GoesOn
    <3>2. e \in LedgerRow /\ e.renewal /\ e.time = cycle
      BY <3>1 DEF RenewedAt, cycle
    <3>3. Live(ps) = {e.plan} /\ ps[e.plan].status \notin Trials /\ e.plan \in DOMAIN ps
      BY <2>1, <2>3, <2>4, <3>1 DEF GoesOn, Trials
    <3>4. Paired(ps, ls, ms) BY DEF Successive
    <3> QED BY <1>1, <2>2, <3>1, <3>2, <3>3, <3>4, RenewalKeepsSuccessive
  <2>5. CASE Starts(ps, ls, i, t, c)
    <3> DEFINE qs == c.plans
    <3>1. PICK e : RenewedAt(ps, ls, i, t, e) /\ e.plan = i /\ c.ledger = Append(ls, e)
      BY <2>5 DEF Starts
    <3>2. PICK row \in Row : Written(ps, i, row, qs) /\ row.status = "ACTIVE"
      BY <2>5 DEF Starts
    <3>3. e \in LedgerRow /\ e.renewal /\ e.time = cycle
      BY <3>1 DEF RenewedAt, cycle
    <3>4. qs \in Seq(Row) /\ DOMAIN qs = DOMAIN ps /\ qs[i] = row /\ \A k \in DOMAIN ps : k # i => qs[k] = ps[k]
      BY <3>2 DEF Written
    <3>5. Live(qs) = {e.plan} /\ qs[e.plan].status \notin Trials /\ e.plan \in DOMAIN qs
      BY <2>1, <2>3, <3>1, <3>2, <3>4 DEF Live, Trials, LiveStatuses
    <3>6. \A k \in DOMAIN ls : ls[k].renewal => Exempt(ls, ms, k) \/ EndOf(qs, ls, k) = EndOf(ps, ls, k)
      <4> SUFFICES ASSUME NEW k \in DOMAIN ls, ls[k].renewal
                   PROVE  Exempt(ls, ms, k) \/ EndOf(qs, ls, k) = EndOf(ps, ls, k)
        OBVIOUS
      <4>1. CASE ls[k].plan = i
        <5>1. k \in RenewalsOf(ls, i) /\ ps[i].status \in Trials
          BY <2>5, <4>1 DEF RenewalsOf, EntriesOf, Starts, Trials
        <5> QED BY <2>1, <5>1 DEF Successive, TrialRows, Exempt
      <4>2. CASE ls[k].plan # i
        <5>1. qs[ls[k].plan] = ps[ls[k].plan]
          BY <1>1, <3>4, <4>2 DEF OfPlans
        <5> QED BY <5>1, SameTerms
      <4> QED BY <4>1, <4>2
    <3>7. Paired(qs, ls, ms) /\ CoveredBy(qs, ls, ms, cycle)
      <4> HIDE DEF qs
      <4>1. Paired(ps, ls, ms) /\ ms \subseteq ms BY DEF Successive
      <4> QED BY <1>1, <2>2, <3>6, <4>1, TermsKeepPeriods
    <3>8. OfPlans(qs, ls, ms) BY <1>1, <3>4 DEF OfPlans
    <3> HIDE DEF qs
    <3>9. Successive(qs, Append(ls, e), ms, n)
      BY <1>1, <2>2, <3>3, <3>4, <3>5, <3>7, <3>8, RenewalKeepsSuccessive
    <3> QED BY <3>1, <3>9 DEF qs
  <2>6. CASE Switched(ps, ls, i, t, c)
    <3>1. PICK e : RenewedAt(ps, ls, i, t, e) /\ e.plan = Len(ps) + 1 /\ c.ledger = Append(ls, e)
      BY <2>6 DEF Switched
    <3>2. PICK os \in Seq(Row), new \in Row :
            EndsIn(ps, ls, i, os) /\ c.plans = Append(os, new) /\ new.status = "ACTIVE"
      BY <2>6 DEF Switched
    <3> DEFINE qs == Append(os, new)
    <3>3. e \in LedgerRow /\ e.renewal /\ e.time = cycle
      BY <3>1 DEF RenewedAt, cycle
    <3>4. /\ DOMAIN os = DOMAIN ps /\ Len(os) = Len(ps) /\ Live(os) = {}
          /\ \A k \in DOMAIN ps : os[k].anchor = ps[k].anchor /\ os[k].schedule = ps[k].schedule
      BY <2>1, <3>2, EndsInFacts
    <3>5. /\ qs \in Seq(Row) /\ DOMAIN qs = DOMAIN os \cup {Len(os) + 1} /\ qs[Len(os) + 1] = new
          /\ \A k \in DOMAIN os : qs[k] = os[k]
      BY RowAppended
    <3> HIDE DEF qs
    <3>6. Live(qs) = {e.plan} /\ qs[e.plan].status \notin Trials /\ e.plan \in DOMAIN qs
      BY <3>1, <3>2, <3>4, <3>5 DEF Live, Trials, LiveStatuses
    <3>7. \A k \in DOMAIN ls : EndOf(qs, ls, k) = EndOf(ps, ls, k)
      BY <1>1, <3>4, <3>5, SameTerms DEF OfPlans
    <3>8. Paired(qs, ls, ms) /\ CoveredBy(qs, ls, ms, cycle)
      <4>1. Paired(ps, ls, ms) /\ ms \subseteq ms BY DEF Successive
      <4> QED BY <1>1, <2>2, <3>7, <4>1, TermsKeepPeriods
    <3>9. OfPlans(qs, ls, ms) BY <1>1, <3>4, <3>5 DEF OfPlans
    <3>10. Successive(qs, Append(ls, e), ms, n)
      BY <1>1, <2>2, <3>3, <3>5, <3>6, <3>8, <3>9, RenewalKeepsSuccessive
    <3> QED BY <3>1, <3>2, <3>10 DEF qs
  <2>7. CASE Ends(ps, ls, i, c)
    <3>1. EndsIn(ps, ls, i, c.plans) /\ c.ledger = ls BY <2>7 DEF Ends
    <3>2. /\ DOMAIN c.plans = DOMAIN ps /\ Live(c.plans) = {}
          /\ \A k \in DOMAIN ps : c.plans[k].anchor = ps[k].anchor /\ c.plans[k].schedule = ps[k].schedule
      BY <2>1, <3>1, EndsInFacts
    <3>3. \A e \in DOMAIN ls : EndOf(ps, ls, e) \in Int
      BY <1>1, EndTyped DEF OfPlans
    <3>4. \A e \in DOMAIN ls : ls[e].renewal => Exempt(ls, ms, e) \/ EndOf(ps, ls, e) <= n
      BY <2>2, <3>3 DEF CoveredBy
    <3>5. ms \subseteq ms /\ (\A m \in ms : m.plan \in DOMAIN ps) /\ n <= n
      BY <1>1 DEF OfPlans
    <3>6. Successive(c.plans, ls, ms, n)
      BY <1>1, <2>2, <3>2, <3>4, <3>5, RowsKeepSuccessive
    <3> QED BY <3>1, <3>6
  <2> QED BY <2>1, <2>4, <2>5, <2>6, <2>7
<1> QED BY <1>2, <1>3

-----------------------------------------------------------------------------
(* Writes that keep the order of the periods. *)

(* A write of one row that keeps the terms.  A plan that it ends is marked *)
LEMMA WriteKeepsOrderly ==
  ASSUME NEW ps, NEW ls, Sound(ps, ls), NEW i \in DOMAIN ps, NEW row \in Row, NEW qs,
         Written(ps, i, row, qs), NEW t \in Int, NEW ms, NEW ns, Orderly(ps, ls, ms, t),
         row.anchor = ps[i].anchor, row.schedule = ps[i].schedule,
         row.through = ps[i].through \/ row.through \in EntriesOf(ls, i),
         row.invoicing \in {ps[i].invoicing, "STARTED", "DONE"},
         row.status \in LiveStatuses => i \in Live(ps),
         row.status \in Trials => ps[i].status \in Trials,
         ms \subseteq ns, \A m \in ns : m \in ms \/ (m.mark # "trial" /\ m.plan \in DOMAIN ps),
         i \in Live(ps) /\ row.status \notin LiveStatuses =>
           Mark("cut", i) \in ns \/ Mark("credit", i) \in ns
  PROVE  Orderly(qs, ls, ns, t) /\ NoNewTrial(ls, ms, ls, ns)
<1>1. /\ ps \in Seq(Row) /\ ls \in Seq(LedgerRow) /\ DOMAIN qs = DOMAIN ps /\ qs[i] = row
      /\ \A k \in DOMAIN ps : k # i => qs[k] = ps[k]
  BY DEF Sound, TablesTyped, Written
<1>2. \A m \in ns : m.plan \in DOMAIN ps BY DEF Orderly, Successive, OfPlans
<1>3. NoNewTrial(ls, ms, ls, ns)
  <2>1. \A k : Mark("trial", k) \in ns => Mark("trial", k) \in ms
    BY DEF Mark
  <2> QED BY <2>1 DEF NoNewTrial, InitialOf
<1>4. Successive(qs, ls, ns, t)
  <2>1. \A k \in DOMAIN ps : qs[k].anchor = ps[k].anchor /\ qs[k].schedule = ps[k].schedule
    BY <1>1
  <2>2. \A k \in Live(qs) : k \in Live(ps) /\ (qs[k].status \in Trials => ps[k].status \in Trials)
    BY <1>1 DEF Live
  <2>3. \A k \in Live(ps) \ Live(qs) : k = i /\ row.status \notin LiveStatuses
    BY <1>1 DEF Live
  <2>4. \A e \in DOMAIN ls : ls[e].renewal /\ ls[e].plan \in Live(ps) \ Live(qs) => Exempt(ls, ns, e)
    BY <2>3 DEF Exempt
  <2>5. t <= t /\ Successive(ps, ls, ms, t) BY DEF Orderly
  <2> QED BY <1>1, <1>2, <2>1, <2>2, <2>4, <2>5, RowsKeepSuccessive
<1>5. FreeTrials(qs, ls, ns)
  <2> SUFFICES ASSUME NEW e \in DOMAIN ls, InitialOf(ls, ms, e)
               PROVE  e <= qs[ls[e].plan].through /\ qs[ls[e].plan].invoicing # "INITIAL"
    BY <1>3 DEF FreeTrials, NoNewTrial
  <2>1. /\ ls[e].plan \in DOMAIN ps /\ e <= ps[ls[e].plan].through
        /\ ps[ls[e].plan].invoicing # "INITIAL"
    BY DEF Orderly, FreeTrials, Successive, OfPlans
  <2>2. CASE ls[e].plan = i
    <3>1. \A d \in EntriesOf(ls, i) : e <= d BY <2>2 DEF InitialOf
    <3> QED BY <1>1, <2>1, <2>2, <3>1
  <2>3. CASE ls[e].plan # i BY <1>1, <2>1, <2>3
  <2> QED BY <2>2, <2>3
<1> QED BY <1>3, <1>4, <1>5 DEF Orderly

(* An entry of a plan that has one begins no trial. *)
LEMMA EntryBeginsNoTrial ==
  ASSUME NEW ls \in Seq(LedgerRow), NEW x \in LedgerRow, NEW ms,
         EntriesOf(ls, x.plan) # {} \/ Mark("trial", x.plan) \notin ms
  PROVE  NoNewTrial(ls, ms, Append(ls, x), ms)
<1> DEFINE ks == Append(ls, x)
           n == Len(ls) + 1
<1>1. /\ DOMAIN ks = DOMAIN ls \cup {n} /\ ks[n] = x /\ n \in Nat
      /\ \A k \in DOMAIN ls : ks[k] = ls[k] /\ k \in Nat /\ k < n
  BY RowAppended
<1>2. \A e \in DOMAIN ls : InitialOf(ks, ms, e) <=> InitialOf(ls, ms, e)
  BY ExemptAfterEntry
<1> HIDE DEF ks, n
<1>3. ~ InitialOf(ks, ms, n)
  <2>1. CASE EntriesOf(ls, x.plan) # {}
    <3>1. PICK d \in EntriesOf(ls, x.plan) : TRUE BY <2>1
    <3>2. d \in EntriesOf(ks, ks[n].plan) /\ ~ (n <= d)
      BY <1>1, <3>1 DEF EntriesOf
    <3> QED BY <3>2 DEF InitialOf
  <2>2. CASE Mark("trial", x.plan) \notin ms BY <1>1, <2>2 DEF InitialOf
  <2> QED BY <2>1, <2>2
<1> QED BY <1>1, <1>2, <1>3 DEF NoNewTrial, ks

LEMMA FreeTrialsStay ==
  ASSUME NEW ps, NEW qs, NEW ls, NEW ks, NEW ms, OfPlans(ps, ls, ms), FreeTrials(ps, ls, ms),
         NoNewTrial(ls, ms, ks, ms), \A e \in DOMAIN ls : ks[e] = ls[e],
         \A k \in DOMAIN ps : qs[k].through = ps[k].through /\ qs[k].invoicing = ps[k].invoicing
  PROVE  FreeTrials(qs, ks, ms)
  BY DEF FreeTrials, NoNewTrial, OfPlans

LEMMA CycleKeepsOrderly ==
  ASSUME NEW ps, NEW ls, Sound(ps, ls), NEW i \in DOMAIN ps, NEW t \in Int, NEW n \in Nat, t <= n,
         NEW ms, Dated(ps, ls, n), Orderly(ps, ls, ms, n), NEW c, Cycled(ps, ls, i, t, c)
  PROVE  Orderly(c.plans, c.ledger, ms, n) /\ NoNewTrial(ls, ms, c.ledger, ms)
<1>1. /\ ps \in Seq(Row) /\ ls \in Seq(LedgerRow) /\ OfPlans(ps, ls, ms) /\ FreeTrials(ps, ls, ms)
      /\ Successive(ps, ls, ms, n) /\ EntriesOf(ls, i) # {}
  BY DEF Sound, TablesTyped, Successive, Orderly, EachRenewed, EntriesOf
<1>2. Successive(c.plans, c.ledger, ms, n) BY <1>1, CycleKeepsSuccessive
<1>3. NoNewTrial(ls, ms, ls, ms) BY DEF NoNewTrial
<1>4. ASSUME NEW e, RenewedAt(ps, ls, i, t, e), c.ledger = Append(ls, e),
             e.plan = i \/ e.plan = Len(ps) + 1
      PROVE  /\ NoNewTrial(ls, ms, c.ledger, ms)
             /\ \A k \in DOMAIN ls : c.ledger[k] = ls[k]
  <2>1. e \in LedgerRow BY <1>4 DEF RenewedAt
  <2>2. e.plan = Len(ps) + 1 => Mark("trial", e.plan) \notin ms
    <3>1. Len(ps) + 1 \notin DOMAIN ps BY <1>1
    <3> QED BY <1>1, <3>1 DEF OfPlans, Mark
  <2>3. EntriesOf(ls, e.plan) # {} \/ Mark("trial", e.plan) \notin ms
    BY <1>1, <1>4, <2>2
  <2>4. NoNewTrial(ls, ms, Append(ls, e), ms)
    BY <1>1, <2>1, <2>3, EntryBeginsNoTrial
  <2>5. \A k \in DOMAIN ls : Append(ls, e)[k] = ls[k]
    BY <1>1, <2>1, RowAppended
  <2> QED BY <1>4, <2>4, <2>5
<1>5. CASE Stays(ps, ls, i, t, c)
  BY <1>1, <1>2, <1>3, <1>5 DEF Stays, Orderly
<1>6. CASE GoesOn(ps, ls, i, t, c)
  <2>1. c.plans = ps /\ \E e : RenewedAt(ps, ls, i, t, e) /\ e.plan = i /\ c.ledger = Append(ls, e)
    BY <1>6 DEF GoesOn
  <2>2. NoNewTrial(ls, ms, c.ledger, ms) /\ \A k \in DOMAIN ls : c.ledger[k] = ls[k]
    BY <1>4, <2>1
  <2>3. FreeTrials(ps, c.ledger, ms) BY <1>1, <2>2, FreeTrialsStay
  <2> QED BY <1>2, <2>1, <2>2, <2>3 DEF Orderly
<1>7. CASE Starts(ps, ls, i, t, c) /\ LatestBy(ls, i, t) # 0
  <2>1. \E e : RenewedAt(ps, ls, i, t, e) /\ e.plan = i /\ c.ledger = Append(ls, e)
    BY <1>7 DEF Starts
  <2>2. NoNewTrial(ls, ms, c.ledger, ms) /\ \A k \in DOMAIN ls : c.ledger[k] = ls[k]
    BY <1>4, <2>1
  <2>3. PICK row \in Row : /\ Written(ps, i, row, c.plans) /\ row.through = LatestBy(ls, i, t)
                           /\ row.invoicing = ps[i].invoicing
    BY <1>7 DEF Starts
  <2>4. LatestBy(ls, i, t) \in EntriesOf(ls, i)
    <3> DEFINE es == {e \in EntriesOf(ls, i) : ls[e].time <= t}
    <3>1. es \subseteq DOMAIN ls /\ es \subseteq EntriesOf(ls, i)
      BY DEF EntriesOf
    <3> HIDE DEF es
    <3>2. Latest(es) # 0 => Latest(es) \in es BY <1>1, <3>1, LatestTyped
    <3> QED BY <1>7, <3>1, <3>2 DEF LatestBy, es
  <2>5. FreeTrials(c.plans, c.ledger, ms)
    <3> SUFFICES ASSUME NEW e \in DOMAIN ls, InitialOf(ls, ms, e)
                 PROVE  e <= c.plans[ls[e].plan].through /\ c.plans[ls[e].plan].invoicing # "INITIAL"
      BY <2>2 DEF FreeTrials, NoNewTrial
    <3>1. /\ ls[e].plan \in DOMAIN ps /\ e <= ps[ls[e].plan].through
          /\ ps[ls[e].plan].invoicing # "INITIAL"
      BY <1>1 DEF FreeTrials, OfPlans
    <3>2. CASE ls[e].plan = i
      <4>1. e <= LatestBy(ls, i, t) BY <2>4, <3>2 DEF InitialOf
      <4>2. c.plans[i] = row BY <2>3 DEF Written
      <4> QED BY <2>3, <3>1, <3>2, <4>1, <4>2
    <3>3. CASE ls[e].plan # i
      <4>1. c.plans[ls[e].plan] = ps[ls[e].plan]
        BY <2>3, <3>1, <3>3 DEF Written
      <4> QED BY <3>1, <4>1
    <3> QED BY <3>2, <3>3
  <2> QED BY <1>2, <2>2, <2>5 DEF Orderly
<1>8. ASSUME NEW os, EndsIn(ps, ls, i, os) PROVE FreeTrials(os, ls, ms)
  <2>1. PICK row \in Row : /\ Written(ps, i, row, os) /\ row.invoicing = ps[i].invoicing
                           /\ row.through \in {ps[i].through, Latest(EntriesOf(ls, i))}
    BY <1>8 DEF EndsIn
  <2>2. \A e \in EntriesOf(ls, i) : e <= Latest(EntriesOf(ls, i))
    <3>1. EntriesOf(ls, i) \subseteq DOMAIN ls BY DEF EntriesOf
    <3> QED BY <1>1, <3>1, LatestTyped
  <2> SUFFICES ASSUME NEW e \in DOMAIN ls, InitialOf(ls, ms, e)
               PROVE  e <= os[ls[e].plan].through /\ os[ls[e].plan].invoicing # "INITIAL"
    BY DEF FreeTrials
  <2>3. /\ ls[e].plan \in DOMAIN ps /\ e <= ps[ls[e].plan].through
        /\ ps[ls[e].plan].invoicing # "INITIAL"
    BY <1>1 DEF FreeTrials, OfPlans
  <2>4. CASE ls[e].plan = i
    <3>1. e \in EntriesOf(ls, i) /\ os[i] = row
      BY <2>1, <2>4 DEF EntriesOf, Written
    <3> QED BY <2>1, <2>2, <2>3, <2>4, <3>1
  <2>5. CASE ls[e].plan # i
    <3>1. os[ls[e].plan] = ps[ls[e].plan] BY <2>1, <2>3, <2>5 DEF Written
    <3> QED BY <2>3, <3>1
  <2> QED BY <2>4, <2>5
<1>9. CASE Switched(ps, ls, i, t, c) /\ i \in Live(ps)
  <2>1. \E e : RenewedAt(ps, ls, i, t, e) /\ e.plan = Len(ps) + 1 /\ c.ledger = Append(ls, e)
    BY <1>9 DEF Switched
  <2>2. NoNewTrial(ls, ms, c.ledger, ms) /\ \A k \in DOMAIN ls : c.ledger[k] = ls[k]
    BY <1>4, <2>1
  <2>3. PICK os \in Seq(Row), new \in Row : EndsIn(ps, ls, i, os) /\ c.plans = Append(os, new)
    BY <1>9 DEF Switched
  <2>4. FreeTrials(os, ls, ms) /\ OfPlans(os, ls, ms)
    BY <1>1, <1>8, <1>9, <2>3, EndsInFacts DEF OfPlans
  <2>5. \A k \in DOMAIN os : c.plans[k] = os[k] BY <2>3, RowAppended
  <2>6. FreeTrials(c.plans, c.ledger, ms)
    BY <2>2, <2>4, <2>5, FreeTrialsStay
  <2> QED BY <1>2, <2>2, <2>6 DEF Orderly
<1>10. CASE Ends(ps, ls, i, c) BY <1>2, <1>3, <1>8, <1>10 DEF Ends, Orderly
<1> QED BY <1>5, <1>6, <1>7, <1>9, <1>10 DEF Cycled

-----------------------------------------------------------------------------
(* Entries and changes of rows keep the order of the periods. *)

LEMMA StillFree ==
  ASSUME JobFree, NoNewTrial(ledger, marks, ledger', marks'), Charged' = Charged,
         job'.entries \subseteq job.entries
  PROVE  JobFree'
  BY DEF JobFree, NoNewTrial

(* Steps that write no plan, no entry and no mark. *)
LEMMA QuietOrder ==
  ASSUME Ordered, UNCHANGED <<plans, ledger, marks, now, items>>, job'.entries \subseteq job.entries
  PROVE  Ordered'
<1>1. Charged' = Charged BY DEF Charged
<1>2. NoNewTrial(ledger, marks, ledger', marks') BY DEF NoNewTrial
<1> QED BY <1>1, <1>2, StillFree DEF Ordered

LEMMA NoneEntered ==
  ASSUME NEW ls, NEW ms, NEW ks, NEW ns, NEW js, NEW os,
         NoNewTrial(ls, ms, ks, ns), NoNewTrial(ks, ns, js, os)
  PROVE  NoNewTrial(ls, ms, js, os)
  BY DEF NoNewTrial

(* An entry of a plan that is not a renewal. *)
LEMMA EntryKeepsOrderly ==
  ASSUME NEW ps, NEW ls, Sound(ps, ls), NEW ms, NEW t, Orderly(ps, ls, ms, t),
         NEW x \in LedgerRow, ~x.renewal, x.plan \in DOMAIN ps
  PROVE  Orderly(ps, Append(ls, x), ms, t) /\ NoNewTrial(ls, ms, Append(ls, x), ms)
<1>1. ls \in Seq(LedgerRow) /\ OfPlans(ps, ls, ms) /\ FreeTrials(ps, ls, ms)
  BY DEF Sound, TablesTyped, Orderly, Successive
<1>2. EntriesOf(ls, x.plan) # {} BY DEF Sound, EachRenewed, EntriesOf
<1>3. NoNewTrial(ls, ms, Append(ls, x), ms)
  BY <1>1, <1>2, EntryBeginsNoTrial
<1>4. \A k \in DOMAIN ls : Append(ls, x)[k] = ls[k] BY <1>1, RowAppended
<1> DEFINE ks == Append(ls, x)
<1>5. Successive(ps, ks, ms, t) BY EntryKeepsSuccessive DEF Orderly
<1>6. FreeTrials(ps, ks, ms)
  <2>1. \A k \in DOMAIN ps : ps[k].through = ps[k].through /\ ps[k].invoicing = ps[k].invoicing
    OBVIOUS
  <2> HIDE DEF ks
  <2> QED BY <1>1, <1>3, <1>4, <2>1, FreeTrialsStay DEF ks
<1> QED BY <1>3, <1>5, <1>6 DEF Orderly

LEMMA CommitUserChangeOrder ==
  ASSUME Uncrossed, Honoured, Ordered, ~crossed', crossed \in BOOLEAN,
         NEW t \in Transactions, CommitUserChange(t)
  PROVE  Ordered'
<1> DEFINE x == tx[t]
           i == get_current_plan(plans)
           time == x.reading.time
           c == make_end_of_cycle_updates_if_needed(x.reading, plans, ledger)
<1>1. x.kind = "user" /\ UNCHANGED <<job, marks, now, items>>
  BY DEF CommitUserChange, clock, stripe
<1>2. UserTyped(x) BY <1>1 DEF Uncrossed, TxSound
<1>3. CASE x.plan = 0
  <2>1. UNCHANGED <<plans, ledger>> BY <1>3 DEF CommitUserChange, tables
  <2> QED BY <1>1, <2>1, QuietOrder
<1>4. CASE x.plan # 0
  <2>1. /\ i = x.plan
        /\ i # 0 => Reading(i, plans[i], x.reading.time, ledger) = x.reading
    BY DEF CommitUserChange
  <2>2. i \in DOMAIN plans /\ x.reading = Reading(i, plans[i], time, ledger)
    BY <1>4, <2>1, CurrentPlan DEF Uncrossed
  <2>3. /\ time \in Nat /\ time <= now /\ now \in Nat
        /\ Sound(plans, ledger) /\ Dated(plans, ledger, now) /\ Orderly(plans, ledger, marks, now)
    BY <1>1, <1>2, <1>4 DEF UserTyped, Honoured, ReadsDated, Uncrossed, Ordered
  <2>4. c = make_end_of_cycle_updates_if_needed(Reading(i, plans[i], time, ledger), plans, ledger)
    BY <2>2
  <2> HIDE DEF time, i
  <2>5. /\ Sound(c.plans, c.ledger) /\ c.last \in Nat /\ (c.last # 0 => c.last \in DOMAIN c.ledger)
        /\ c.new \in Nat /\ (c.new # 0 => c.new \in DOMAIN c.plans)
        /\ Advances(plans, ledger, c.plans, c.ledger)
    <3> HIDE DEF c
    <3> QED BY <2>2, <2>3, <2>4, CycleKeepsSound
  <2>6. Orderly(c.plans, c.ledger, marks, now) /\ NoNewTrial(ledger, marks, c.ledger, marks)
    <3> HIDE DEF c
    <3>1. Cycled(plans, ledger, i, time, c) BY <2>2, <2>3, <2>4, CycleWrites
    <3> QED BY <2>2, <2>3, <3>1, CycleKeepsOrderly
  <2> DEFINE licenses == Max({x.count, c.ledger[c.last].licenses})
             e == Entry(IF c.new # 0 THEN c.new ELSE x.reading.id, FALSE, x.reading.time,
                        licenses, x.count)
  <2>7. plans' = c.plans /\ ledger' = IF c.last = 0 THEN c.ledger ELSE Append(c.ledger, e)
    BY <1>4 DEF CommitUserChange, update_license_ledger_for_automanaged_plan
  <2>8. Orderly(plans', ledger', marks, now) /\ NoNewTrial(ledger, marks, ledger', marks)
    <3>1. CASE c.last = 0
      <4> HIDE DEF c
      <4> QED BY <2>6, <2>7, <3>1
    <3>2. CASE c.last # 0
      <4>1. x.reading.id = i /\ i \in Nat
        BY <2>2 DEF Reading, Uncrossed, Sound, TablesTyped
      <4> HIDE DEF c
      <4>2. licenses \in Int
        <5>1. c.ledger[c.last] \in LedgerRow
          BY <2>5, <3>2 DEF Sound, TablesTyped
        <5> QED BY <1>2, <5>1, MaxOfTwo DEF LedgerRow, UserTyped
      <4>3. e \in LedgerRow /\ ~e.renewal /\ e.plan \in DOMAIN c.plans
        <5>1. i \in DOMAIN c.plans BY <2>2, <2>5 DEF Advances
        <5> HIDE DEF licenses
        <5>2. e \in LedgerRow /\ ~e.renewal
          BY <1>2, <2>3, <2>5, <4>1, <4>2 DEF Entry, LedgerRow, UserTyped, time
        <5>3. e.plan = IF c.new # 0 THEN c.new ELSE x.reading.id
          BY DEF Entry
        <5> HIDE DEF e
        <5> QED BY <2>5, <4>1, <5>1, <5>2, <5>3
      <4> HIDE DEF e
      <4>4. /\ Orderly(c.plans, Append(c.ledger, e), marks, now)
            /\ NoNewTrial(c.ledger, marks, Append(c.ledger, e), marks)
        BY <2>5, <2>6, <4>3, EntryKeepsOrderly
      <4>5. plans' = c.plans /\ ledger' = Append(c.ledger, e) BY <2>7, <3>2
      <4> QED BY <2>6, <4>4, <4>5, NoneEntered
    <3> QED BY <3>1, <3>2
  <2>9. Charged' = Charged BY <1>1 DEF Charged
  <2> HIDE DEF c, e, x
  <2>10. JobFree' BY <1>1, <2>8, <2>9, StillFree DEF Ordered
  <2> QED BY <1>1, <2>8, <2>10 DEF Ordered
<1> QED BY <1>3, <1>4

LEMMA DowngradeKeepsOrderly ==
  ASSUME NEW ps, NEW ls, Sound(ps, ls), NEW i \in DOMAIN ps, NEW t \in Int, NEW ms,
         Orderly(ps, ls, ms, t), NEW row, row = DowngradedNow(ps[i], i, ls),
         NEW qs, Written(ps, i, row, qs),
         NEW ns, ns = ms \cup {Mark("cut", i)}
  PROVE  Orderly(qs, ls, ns, t) /\ NoNewTrial(ls, ms, ls, ns)
<1> DEFINE through == Latest(EntriesOf(ls, i))
<1>1. ps \in Seq(Row) /\ ps[i] \in Row BY DEF Sound, TablesTyped
<1>2. row \in Row /\ row.status = "ENDED" BY DowngradedTyped DEF Sound
<1>3. through \in EntriesOf(ls, i) BY LatestOfPlan
<1>4. row.anchor = ps[i].anchor /\ row.schedule = ps[i].schedule /\ row.through = through
      /\ row.invoicing = ps[i].invoicing
  <2> HIDE DEF through
  <2>1. row = [ps[i] EXCEPT !.status = "ENDED", !.next = None, !.through = through]
    BY DEF DowngradedNow, through
  <2> QED BY <1>1, <2>1 DEF Row
<1> HIDE DEF through
<1>6. row.status \notin LiveStatuses /\ row.status \notin Trials
  BY <1>2 DEF LiveStatuses, Trials, Switches
<1>7. /\ ms \subseteq ns /\ Mark("cut", i) \in ns
      /\ \A m \in ns : m \in ms \/ (m.mark # "trial" /\ m.plan \in DOMAIN ps)
  BY DEF Mark
<1>8. row.through \in EntriesOf(ls, i) /\ row.invoicing \in {ps[i].invoicing, "STARTED", "DONE"}
  BY <1>3, <1>4
<1> QED BY <1>2, <1>4, <1>6, <1>7, <1>8, WriteKeepsOrderly

LEMMA DowngradeNowOrder ==
  ASSUME Uncrossed, Ordered, downgrade_now PROVE Ordered'
<1> DEFINE i == get_current_plan(plans)
           row == DowngradedNow(plans[i], i, ledger)
<1>1. /\ plans' = [plans EXCEPT ![i] = row]
      /\ UNCHANGED <<ledger, job, now, items>> /\ i \in DOMAIN plans
      /\ marks' = marks \cup {Mark("cut", i)}
  BY CurrentPlan DEF downgrade_now, Uncrossed, clock, stripe
<1>2. /\ Sound(plans, ledger) /\ now \in Int /\ Orderly(plans, ledger, marks, now)
      /\ row = DowngradedNow(plans[i], i, ledger) /\ Written(plans, i, row, plans')
  <2>1. row \in Row /\ plans \in Seq(Row)
    BY <1>1, DowngradedTyped DEF Uncrossed, Sound, TablesTyped
  <2> HIDE DEF row, i
  <2>2. Written(plans, i, row, plans') BY <1>1, <2>1, ExceptWrites
  <2> QED BY <2>2 DEF Uncrossed, Ordered, row
<1> HIDE DEF i, row
<1>3. Orderly(plans', ledger, marks', now) /\ NoNewTrial(ledger, marks, ledger, marks')
  BY <1>1, <1>2, DowngradeKeepsOrderly
<1>4. Charged' = Charged BY <1>1 DEF Charged
<1>5. JobFree' BY <1>1, <1>3, <1>4, StillFree DEF Ordered
<1> QED BY <1>1, <1>3, <1>5 DEF Ordered

(* A write of a row that leaves the plan as live as it was. *)
LEMMA LivingWriteKeepsOrderly ==
  ASSUME NEW ps, NEW ls, Sound(ps, ls), NEW i \in DOMAIN ps, NEW row \in Row, NEW qs,
         Written(ps, i, row, qs), NEW t \in Int, NEW ms, Orderly(ps, ls, ms, t),
         NEW ns, ms \subseteq ns, \A m \in ns : m \in ms \/ (m.mark # "trial" /\ m.plan \in DOMAIN ps),
         row.anchor = ps[i].anchor, row.schedule = ps[i].schedule,
         row.through = ps[i].through \/ row.through \in EntriesOf(ls, i),
         row.invoicing \in {ps[i].invoicing, "STARTED", "DONE"},
         row.status = ps[i].status \/ (i \in Live(ps) /\ row.status \in LiveStatuses \ Trials)
  PROVE  Orderly(qs, ls, ns, t) /\ NoNewTrial(ls, ms, ls, ns)
<1>1. /\ row.status \in LiveStatuses => i \in Live(ps)
      /\ row.status \in Trials => ps[i].status \in Trials
      /\ i \in Live(ps) => row.status \in LiveStatuses
  BY DEF Live
<1>2. i \in Live(ps) /\ row.status \notin LiveStatuses =>
        Mark("cut", i) \in ns \/ Mark("credit", i) \in ns
  BY <1>1
<1>3. /\ row.status \in LiveStatuses => i \in Live(ps)
      /\ row.status \in Trials => ps[i].status \in Trials
  BY <1>1
<1> QED BY <1>2, <1>3, WriteKeepsOrderly

LEMMA TierChangeOrder ==
  ASSUME Uncrossed, Ordered, do_change_plan_to_new_tier PROVE Ordered'
<1> DEFINE i == get_current_plan(plans)
           row == [plans[i] EXCEPT !.status = "SWITCH_PLAN_TIER_NOW", !.next = now]
<1>1. /\ plans' = [plans EXCEPT ![i].status = "SWITCH_PLAN_TIER_NOW", ![i].next = now]
      /\ job'.entries = {} /\ UNCHANGED <<ledger, marks, now, items>> /\ i # 0
  BY DEF do_change_plan_to_new_tier, NoJob, clock, stripe
<1>2. i \in DOMAIN plans /\ i \in Live(plans)
  BY <1>1, CurrentPlan DEF Uncrossed
<1> HIDE DEF i
<1>3. /\ plans \in Seq(Row) /\ plans[i] \in Row /\ now \in Nat /\ now \in Int /\ Sound(plans, ledger)
      /\ Orderly(plans, ledger, marks, now)
  BY <1>2 DEF Uncrossed, Sound, TablesTyped, Ordered
<1>4. plans' = [plans EXCEPT ![i] = row] BY <1>1, <1>3
<1>5. /\ row \in Row /\ row.status \in LiveStatuses \ Trials
      /\ row.anchor = plans[i].anchor /\ row.schedule = plans[i].schedule
      /\ row.through = plans[i].through /\ row.invoicing = plans[i].invoicing
  BY <1>3 DEF Row, LiveStatuses, Trials
<1> HIDE DEF row
<1>6. Written(plans, i, row, plans') BY <1>2, <1>3, <1>4, <1>5, ExceptWrites
<1>7. marks \subseteq marks /\ \A m \in marks : m \in marks \/ (m.mark # "trial" /\ m.plan \in DOMAIN plans)
  OBVIOUS
<1>8. row.invoicing \in {plans[i].invoicing, "STARTED", "DONE"} BY <1>5
<1>9. Orderly(plans', ledger, marks, now) /\ NoNewTrial(ledger, marks, ledger, marks)
  BY <1>2, <1>3, <1>5, <1>6, <1>7, <1>8, LivingWriteKeepsOrderly
<1>10. Charged' = Charged BY <1>1 DEF Charged
<1>11. JobFree' BY <1>1, <1>9, <1>10, StillFree DEF Ordered
<1> QED BY <1>1, <1>9, <1>11 DEF Ordered

LEMMA SaveInvoicingOrder ==
  ASSUME Uncrossed, Bills, Ordered, NEW status \in {"STARTED", "DONE"},
         SaveInvoicing(status), UNCHANGED items, job.step \in {"entry", "done"}, job.entries # {}
  PROVE  Ordered'
<1> DEFINE i == First.id
           row == SavedAs(plans[i], status)
<1>1. /\ i \in DOMAIN plans /\ row \in Row /\ Written(plans, i, row, plans')
      /\ row.status = plans[i].status /\ row.through = Min(job.entries)
      /\ row.anchor = plans[i].anchor /\ row.schedule = plans[i].schedule
      /\ row.invoicing = status
      /\ UNCHANGED <<ledger, marks, now>> /\ job'.entries \subseteq job.entries
  BY SaveInvoicingWrites
<1>2. row.through \in EntriesOf(ledger, i) BY <1>1, ChargingFacts
<1> HIDE DEF i, row
<1>3. \A m \in marks : m \in marks \/ (m.mark # "trial" /\ m.plan \in DOMAIN plans)
  OBVIOUS
<1>4. Orderly(plans', ledger, marks, now) /\ NoNewTrial(ledger, marks, ledger, marks)
  BY <1>1, <1>2, <1>3, LivingWriteKeepsOrderly DEF Uncrossed, Sound, TablesTyped, Ordered
<1>5. Charged' = Charged BY DEF Charged
<1>6. JobFree' BY <1>1, <1>4, <1>5, StillFree DEF Ordered
<1> QED BY <1>1, <1>4, <1>6 DEF Ordered

LEMMA FinishInvoicingOrder ==
  ASSUME Uncrossed, Ordered, Sound(plans', ledger'), ~crossed', crossed \in BOOLEAN,
         FinishInvoicing
  PROVE  Ordered'
<1> DEFINE i == First.id
           next == next_invoice_date(First.row)
           row == [plans[i] EXCEPT !.next = next]
<1>1. /\ plans' = [plans EXCEPT ![i].next = next]
      /\ job.step = "entry" /\ job.entries = {} /\ UNCHANGED <<ledger, now, items>>
      /\ marks' \in {marks, marks \cup {Mark("late", i)}}
  BY DEF FinishInvoicing, clock, stripe
<1>2. job'.entries = {}
  <2>1. \/ job' = NoJob
        \/ \E cs : job' = [job EXCEPT !.step = "cycle", !.copies = cs]
        \/ \E cs : job' = [job EXCEPT !.step = "cycle", !.copies = cs, !.tier = FALSE]
    BY DEF FinishInvoicing
  <2>2. job.entries = {} /\ "entries" \in DOMAIN job
    BY <1>1 DEF Uncrossed, JobSound
  <2>3. NoJob.entries = {} BY DEF NoJob
  <2> QED BY <2>1, <2>2, <2>3
<1>3. i \in DOMAIN plans BY <1>1, CopyReplaced
<1> HIDE DEF i, next
<1>4. /\ plans \in Seq(Row) /\ Sound(plans, ledger) /\ now \in Int /\ Orderly(plans, ledger, marks, now)
      /\ plans[i] \in Row /\ plans' \in Seq(Row)
  BY <1>3 DEF Uncrossed, Sound, TablesTyped, Ordered
<1>5. plans' = [plans EXCEPT ![i] = row] BY <1>1, <1>3, <1>4
<1>6. row \in Row
  <2>1. plans'[i] = row /\ i \in DOMAIN plans' BY <1>3, <1>4, <1>5
  <2> QED BY <1>4, <2>1
<1>7. /\ row.status = plans[i].status
      /\ row.anchor = plans[i].anchor /\ row.schedule = plans[i].schedule
      /\ row.through = plans[i].through /\ row.invoicing = plans[i].invoicing
  BY <1>4 DEF Row
<1> HIDE DEF row
<1>8. Written(plans, i, row, plans') BY <1>3, <1>4, <1>5, <1>6, ExceptWrites
<1>9. /\ marks \subseteq marks'
      /\ \A m \in marks' : m \in marks \/ (m.mark # "trial" /\ m.plan \in DOMAIN plans)
  BY <1>1, <1>3 DEF Mark
<1>10. row.invoicing \in {plans[i].invoicing, "STARTED", "DONE"} BY <1>7
<1>11. Orderly(plans', ledger, marks', now) /\ NoNewTrial(ledger, marks, ledger, marks')
  BY <1>3, <1>4, <1>6, <1>7, <1>8, <1>9, <1>10, LivingWriteKeepsOrderly
<1>12. Charged' = Charged BY <1>1 DEF Charged
<1>13. JobFree' BY <1>1, <1>2, <1>11, <1>12, StillFree DEF Ordered
<1> QED BY <1>1, <1>11, <1>13 DEF Ordered

-----------------------------------------------------------------------------
(* Upgrades keep the order of the periods. *)

LEMMA ChargedTogether ==
  ASSUME NEW S, NEW its \in Seq(S), NEW T, NEW js \in Seq(T)
  PROVE  ChargedBy(its \o js) \subseteq ChargedBy(its) \cup ChargedBy(js)
<1> SUFFICES ASSUME NEW k \in DOMAIN (its \o js)
             PROVE  (its \o js)[k].entry \in ChargedBy(its) \cup ChargedBy(js)
  BY DEF ChargedBy
<1> DEFINE U == S \cup T
<1>1. its \in Seq(U) /\ js \in Seq(U) BY SeqMonotonic
<1> HIDE DEF U
<1>2. /\ Len(its) \in Nat /\ Len(js) \in Nat /\ k \in 1..(Len(its) + Len(js))
      /\ DOMAIN its = 1..Len(its) /\ DOMAIN js = 1..Len(js)
      /\ (its \o js)[k] = IF k <= Len(its) THEN its[k] ELSE js[k - Len(its)]
  BY <1>1
<1>3. k \in DOMAIN its \/ k - Len(its) \in DOMAIN js BY <1>2
<1>4. CASE k <= Len(its)
  <2>1. k \in DOMAIN its /\ (its \o js)[k] = its[k] BY <1>2, <1>4
  <2> QED BY <2>1 DEF ChargedBy
<1>5. CASE ~ (k <= Len(its))
  <2> DEFINE l == k - Len(its)
  <2>1. l \in DOMAIN js /\ (its \o js)[k] = js[l] BY <1>2, <1>5
  <2> HIDE DEF l
  <2> QED BY <2>1 DEF ChargedBy
<1> QED BY <1>4, <1>5

(* Only a new plan that is not in a trial is charged for at once. *)
LEMMA UpgradedTrial ==
  ASSUME Uncrossed, NEW x, UpgradeTyped(x), NEW new, new = Upgraded(x)
  PROVE  /\ new.plan.status \in Trials => x.trial
         /\ x.trial => /\ new.plan.through = Len(ledger) + 1 /\ new.plan.invoicing = "DONE"
                       /\ new.items = <<>> /\ \E f : new.entries = <<f>>
         /\ \E S : new.items \in Seq(S)
         /\ ChargedBy(new.items) \subseteq {Len(ledger) + 1, Len(ledger) + 2}
         /\ new.plan.status \in {"ACTIVE", "FREE_TRIAL"}
         /\ \A d, f : new.entries = <<d, f>> => f.plan = Len(plans) + 1
<1> DEFINE i == Len(plans) + 1
           e == Len(ledger) + 1
           first == Entry(i, TRUE, now, x.licenses, x.licenses)
           more == Max({users, x.licenses})
           second == Entry(i, FALSE, now, more, more)
           plan == Plan("ACTIVE", x.schedule, now, now + Month, e, "DONE")
           trial == Plan("FREE_TRIAL", x.schedule, now, now + trial_days, e, "DONE")
<1>1. "ACTIVE" \notin Trials BY DEF Trials
<1>2. CASE x.trial
  <2>1. new.plan = trial /\ new.entries = <<first>> /\ new.items = <<>>
    BY <1>2 DEF Upgraded
  <2>2. trial.through = e /\ trial.invoicing = "DONE" /\ trial.status = "FREE_TRIAL"
    BY DEF Plan
  <2> HIDE DEF trial, first
  <2>3. ChargedBy(new.items) = {} /\ new.items \in Seq(Nat)
    BY <2>1 DEF ChargedBy
  <2> QED BY <1>2, <2>1, <2>2, <2>3
<1>3. CASE ~x.trial /\ more = x.licenses
  <2> DEFINE m == Item(e, x.licenses)
  <2>1. new.plan = plan /\ new.items = <<m>> /\ new.entries = <<first>>
    BY <1>3 DEF Upgraded
  <2>2. m.entry = e /\ plan.status = "ACTIVE" BY DEF Item, Plan
  <2> HIDE DEF plan, m, first, more, e
  <2>3. new.items \in Seq({m}) /\ ChargedBy(new.items) = {e}
    BY <2>1, <2>2 DEF ChargedBy
  <2>4. \A d, f : new.entries # <<d, f>> BY <2>1
  <2>5. /\ new.plan.status = "ACTIVE" /\ new.plan.status \notin Trials
        /\ ChargedBy(new.items) \subseteq {e, Len(ledger) + 2} /\ ~x.trial
    BY <1>1, <1>3, <2>1, <2>2, <2>3
  <2> QED BY <2>3, <2>4, <2>5 DEF e
<1>4. CASE ~x.trial /\ more # x.licenses
  <2> DEFINE late == [plan EXCEPT !.through = e + 1, !.next = next_invoice_date(plan)]
             m == Item(e, x.licenses)
             n == Item(e + 1, more - x.licenses)
  <2>1. new.plan = late /\ new.items = <<m, n>> /\ new.entries = <<first, second>>
    BY <1>4 DEF Upgraded
  <2>2. m.entry = e /\ n.entry = e + 1 /\ late.status = "ACTIVE" /\ second.plan = i
    BY DEF Item, Plan, Entry
  <2>3. Len(ledger) \in Nat BY DEF Uncrossed, Sound, TablesTyped
  <2>4. e + 1 = Len(ledger) + 2 BY <2>3
  <2> HIDE DEF late, m, n, first, second
  <2>5. new.items \in Seq({m, n}) /\ ChargedBy(new.items) = {e, Len(ledger) + 2}
    BY <2>1, <2>2, <2>4 DEF ChargedBy
  <2>6. \A d, f : new.entries = <<d, f>> => f.plan = i
    <3>1. \A d, f : <<first, second>> = <<d, f>> => second = f OBVIOUS
    <3> QED BY <2>1, <2>2, <3>1
  <2>7. /\ new.plan.status = "ACTIVE" /\ new.plan.status \notin Trials
        /\ ChargedBy(new.items) \subseteq {e, Len(ledger) + 2} /\ ~x.trial
    BY <1>1, <1>4, <2>1, <2>2, <2>5
  <2> QED BY <2>5, <2>6, <2>7
<1> QED BY <1>2, <1>3, <1>4 DEF UpgradeTyped

(* A new plan, when none is live, begins with a renewal that is made now. *)
LEMMA UpgradeOrder ==
  ASSUME Uncrossed, Bills, Honoured, Ordered, ~crossed', crossed \in BOOLEAN,
         NEW t \in Transactions, process_initial_upgrade(t)
  PROVE  Ordered'
<1> DEFINE x == tx[t]
           new == Upgraded(x)
           i == Len(plans) + 1
           n == Len(ledger) + 1
           qs == Append(plans, new.plan)
<1>1. /\ x.kind = "upgrade" /\ plans' = qs /\ ledger' = ledger \o new.entries
      /\ get_current_plan(plans) = 0 /\ UNCHANGED <<job, now>> /\ items' = items \o new.items
  BY DEF process_initial_upgrade, clock
<1>2. UpgradeTyped(x) BY <1>1 DEF Uncrossed, TxSound
<1>3. /\ new.plan \in Row
      /\ new.plan.status \in Trials => new.plan.anchor = now /\ now <= new.plan.next
  BY <1>2, UpgradedRows
<1>4. PICK e \in LedgerRow :
        /\ e.plan = i /\ e.renewal /\ e.time = now
        /\ \/ new.entries = <<e>>
           \/ \E f \in LedgerRow : ~f.renewal /\ new.entries = <<e, f>>
  BY <1>2, UpgradedRows
<1>5. /\ new.plan.status \in Trials => x.trial
      /\ x.trial => /\ new.plan.through = n /\ new.plan.invoicing = "DONE"
                    /\ new.items = <<>> /\ \E f : new.entries = <<f>>
      /\ \E S : new.items \in Seq(S)
      /\ ChargedBy(new.items) \subseteq {n, Len(ledger) + 2}
  BY <1>2, UpgradedTrial
<1>6. /\ marks \subseteq marks'
      /\ \A m \in marks' : m \in marks \/ (m.plan = Len(plans') /\ (m.mark = "trial" => x.trial))
      /\ x.trial => Mark("trial", Len(plans')) \in marks'
  BY DEF process_initial_upgrade, Mark
<1> HIDE DEF new, x
<1>7. /\ plans \in Seq(Row) /\ ledger \in Seq(LedgerRow) /\ Live(plans) = {} /\ now \in Nat
      /\ Sound(plans, ledger) /\ Len(ledger) \in Nat /\ DOMAIN ledger = 1..Len(ledger)
  BY <1>1, CurrentPlan DEF Uncrossed, Sound, TablesTyped
<1>8. /\ DOMAIN qs = DOMAIN plans \cup {i} /\ qs[i] = new.plan /\ i \notin DOMAIN plans
      /\ \A k \in DOMAIN plans : qs[k] = plans[k]
      /\ Len(qs) = i /\ qs \in Seq(Row)
  <2>1. Len(qs) = i BY <1>3, <1>7
  <2> QED BY <1>3, <1>7, <2>1, RowAppended
<1>9. new.plan.status \in LiveStatuses
  <2>1. new.plan.status \in {"ACTIVE", "FREE_TRIAL"}
    BY <1>2, UpgradedTrial DEF new
  <2> QED BY <2>1 DEF LiveStatuses, Trials
<1> HIDE DEF qs, i, n
<1>10. Live(qs) = {i} BY <1>7, <1>8, <1>9 DEF Live
<1>11. OfPlans(plans, ledger, marks) /\ OfPlans(qs, ledger, marks')
  <2>1. OfPlans(plans, ledger, marks) BY DEF Ordered, Orderly, Successive
  <2> QED BY <1>1, <1>6, <1>8, <2>1 DEF OfPlans
<1>12. Paired(qs, ledger, marks') /\ CoveredBy(qs, ledger, marks', now)
  <2>1. Paired(plans, ledger, marks) /\ CoveredBy(plans, ledger, marks, now)
    BY <1>7 DEF Ordered, Orderly, Successive, Over, CoveredBy
  <2>2. \A d \in DOMAIN ledger : EndOf(qs, ledger, d) = EndOf(plans, ledger, d)
    BY <1>8, <1>11, SameTerms DEF OfPlans
  <2> QED BY <1>6, <1>11, <2>1, <2>2, TermsKeepPeriods
<1>13. EntriesOf(ledger, i) = {} BY <1>8, <1>11 DEF OfPlans, EntriesOf
<1> DEFINE ls == Append(ledger, e)
<1>14. Successive(qs, ls, marks', now)
  <2>1. now \in Int /\ e.time <= now BY <1>4, <1>7
  <2>2. qs[e.plan].status \in Trials =>
          EntriesOf(ledger, e.plan) = {} /\ Mark("trial", e.plan) \in marks' /\ e.time <= qs[e.plan].anchor
    BY <1>1, <1>3, <1>4, <1>5, <1>6, <1>7, <1>8, <1>13
  <2>3. CoveredBy(qs, ledger, marks', e.time) /\ Live(qs) = {e.plan} /\ e.plan \in DOMAIN qs
    BY <1>4, <1>8, <1>10, <1>12
  <2> HIDE DEF ls
  <2> QED BY <1>4, <1>7, <1>8, <1>11, <1>12, <2>1, <2>2, <2>3, RenewalKeepsSuccessive DEF ls
<1>15. /\ ls \in Seq(LedgerRow) /\ DOMAIN ls = DOMAIN ledger \cup {n} /\ ls[n] = e
       /\ n \notin DOMAIN ledger /\ \A k \in DOMAIN ledger : ls[k] = ledger[k]
  BY <1>7, RowAppended DEF n
<1>16. Sound(qs, ls)
  <2>1. new.plan.next # None BY <1>2, UpgradedRows DEF new
  <2> QED BY <1>3, <1>4, <1>7, <2>1, PlanKeepsSound DEF qs, i
<1> HIDE DEF ls
<1>17. ASSUME NEW d \in DOMAIN ls, InitialOf(ls, marks', d)
       PROVE  \/ d \in DOMAIN ledger /\ InitialOf(ledger, marks, d)
              \/ d = n /\ x.trial
  <2>1. CASE d = n
    <3>1. Mark("trial", i) \in marks'
      BY <1>4, <1>15, <1>17, <2>1 DEF InitialOf
    <3>2. Mark("trial", i) \notin marks BY <1>8, <1>11 DEF OfPlans, Mark
    <3> QED BY <1>6, <2>1, <3>1, <3>2 DEF Mark
  <2>2. CASE d # n
    <3>1. d \in DOMAIN ledger /\ ls[d] = ledger[d] /\ ledger[d].plan \in DOMAIN plans
      BY <1>11, <1>15, <2>2 DEF OfPlans
    <3>2. Mark("trial", ledger[d].plan) \in marks
      BY <1>1, <1>6, <1>8, <1>17, <3>1 DEF InitialOf, Mark
    <3>3. EntriesOf(ledger, ledger[d].plan) \subseteq EntriesOf(ls, ls[d].plan)
      BY <1>15, <3>1 DEF EntriesOf
    <3> QED BY <1>17, <3>1, <3>2, <3>3 DEF InitialOf
  <2> QED BY <2>1, <2>2
<1>18. FreeTrials(qs, ls, marks')
  <2> SUFFICES ASSUME NEW d \in DOMAIN ls, InitialOf(ls, marks', d)
               PROVE  d <= qs[ls[d].plan].through /\ qs[ls[d].plan].invoicing # "INITIAL"
    BY DEF FreeTrials
  <2>1. CASE d = n /\ x.trial
    <3>1. qs[ls[d].plan] = new.plan BY <1>4, <1>8, <1>15, <2>1
    <3>2. n <= n BY <1>7 DEF n
    <3> QED BY <1>5, <2>1, <3>1, <3>2
  <2>2. CASE d \in DOMAIN ledger /\ InitialOf(ledger, marks, d)
    <3>1. /\ d <= plans[ledger[d].plan].through /\ plans[ledger[d].plan].invoicing # "INITIAL"
          /\ ls[d] = ledger[d] /\ ledger[d].plan \in DOMAIN plans
      BY <1>11, <1>15, <2>2 DEF Ordered, Orderly, FreeTrials, OfPlans
    <3> QED BY <1>8, <3>1
  <2> QED BY <1>17, <2>1, <2>2
<1>19. Orderly(qs, ls, marks', now) BY <1>14, <1>18 DEF Orderly
<1>20. /\ Orderly(plans', ledger', marks', now) /\ NoNewTrial(ls, marks', ledger', marks')
  <2>1. CASE new.entries = <<e>>
    <3>1. ledger' = ls BY <1>1, <1>7, <2>1 DEF ls
    <3> QED BY <1>1, <1>19, <3>1 DEF NoNewTrial
  <2>2. CASE \E f \in LedgerRow : ~f.renewal /\ new.entries = <<e, f>>
    <3>1. PICK f \in LedgerRow : ~f.renewal /\ new.entries = <<e, f>>
      BY <2>2
    <3>2. f.plan = i BY <1>2, <3>1, UpgradedTrial DEF new, i
    <3>3. ledger' = Append(ls, f) BY <1>1, <1>7, <3>1 DEF ls
    <3>4. Orderly(qs, Append(ls, f), marks', now) /\ NoNewTrial(ls, marks', Append(ls, f), marks')
      BY <1>8, <1>16, <1>19, <3>1, <3>2, EntryKeepsOrderly
    <3> QED BY <1>1, <3>3, <3>4
  <2> QED BY <1>4, <2>1, <2>2
<1>21. JobFree'
  <2> SUFFICES ASSUME NEW d \in DOMAIN ledger', InitialOf(ledger', marks', d)
               PROVE  d \notin Charged' /\ d \notin job.entries
    BY <1>1 DEF JobFree
  <2>1. \/ d \in DOMAIN ledger /\ InitialOf(ledger, marks, d)
        \/ d = n /\ x.trial
    BY <1>17, <1>20 DEF NoNewTrial
  <2>2. PICK S : items \in Seq(S) BY DEF Bills, OnceEach
  <2>3. Charged' \subseteq Charged \cup ChargedBy(new.items)
    <3>1. PICK T : new.items \in Seq(T) BY <1>5
    <3> QED BY <1>1, <2>2, <3>1, ChargedTogether DEF Charged
  <2>4. Charged \subseteq DOMAIN ledger /\ job.entries \subseteq DOMAIN ledger
    BY DEF Bills, Booked, Uncrossed, JobSound
  <2>5. CASE d = n /\ x.trial
    <3>1. ChargedBy(new.items) = {} BY <1>5, <2>5 DEF ChargedBy
    <3> QED BY <1>15, <2>3, <2>4, <2>5, <3>1
  <2>6. CASE d \in DOMAIN ledger /\ InitialOf(ledger, marks, d)
    <3>1. d \notin Charged /\ d \notin job.entries
      BY <2>6 DEF Ordered, JobFree
    <3>2. d # n /\ d # Len(ledger) + 2 BY <1>7, <2>6 DEF n
    <3> QED BY <1>5, <2>3, <3>1, <3>2
  <2> QED BY <2>1, <2>5, <2>6
<1> QED BY <1>1, <1>20, <1>21 DEF Ordered

-----------------------------------------------------------------------------
(* Replacing the live plan keeps the order of the periods. *)

(* The live plan is ended, and marked, and another one begins. *)
LEMMA ReplaceKeepsOrderly ==
  ASSUME NEW ps, NEW ls, Sound(ps, ls), NEW ms, NEW t \in Int, Orderly(ps, ls, ms, t),
         NEW i \in Live(ps), NEW old \in Row, old.status = "ENDED",
         old.anchor = ps[i].anchor, old.schedule = ps[i].schedule,
         old.through = ps[i].through, old.invoicing = ps[i].invoicing,
         NEW os, Written(ps, i, old, os), NEW new \in Row, new.status \in LiveStatuses,
         NEW x \in LedgerRow, x.renewal, x.plan = Len(ps) + 1, x.time <= t,
         ls[LastRenewal(ls, i)].time <= x.time,
         NEW ns, ms \subseteq ns, Mark("cut", i) \in ns \/ Mark("credit", i) \in ns,
         \A m \in ns : \/ m \in ms \/ (m.mark # "trial" /\ m.plan \in DOMAIN ps)
                       \/ m = Mark("trial", Len(ps) + 1),
         new.status \in Trials => Mark("trial", Len(ps) + 1) \in ns /\ x.time <= new.anchor,
         Mark("trial", Len(ps) + 1) \in ns =>
           new.through = Len(ls) + 1 /\ new.invoicing = "DONE"
  PROVE  /\ Orderly(Append(os, new), Append(ls, x), ns, t)
         /\ \A d \in DOMAIN Append(ls, x) : InitialOf(Append(ls, x), ns, d) =>
              d = Len(ls) + 1 \/ (d \in DOMAIN ls /\ InitialOf(ls, ms, d))
<1> DEFINE k == Len(ps) + 1
           n == Len(ls) + 1
           qs == Append(os, new)
           js == Append(ls, x)
           last == LastRenewal(ls, i)
<1>1. /\ ps \in Seq(Row) /\ ls \in Seq(LedgerRow) /\ OfPlans(ps, ls, ms) /\ i \in DOMAIN ps
      /\ Successive(ps, ls, ms, t) /\ FreeTrials(ps, ls, ms)
  BY DEF Sound, TablesTyped, Orderly, Successive, Live
<1>2. /\ os \in Seq(Row) /\ DOMAIN os = DOMAIN ps /\ os[i] = old
      /\ \A j \in DOMAIN ps : j # i => os[j] = ps[j]
  BY DEF Written
<1>3. Len(os) = Len(ps) /\ k \notin DOMAIN ps /\ Len(ps) \in Nat
  BY <1>1, <1>2
<1>4. /\ qs \in Seq(Row) /\ DOMAIN qs = DOMAIN ps \cup {k} /\ qs[k] = new
      /\ \A j \in DOMAIN ps : qs[j] = os[j]
  BY <1>2, <1>3, RowAppended
<1>5. /\ js \in Seq(LedgerRow) /\ DOMAIN js = DOMAIN ls \cup {n} /\ js[n] = x
      /\ n \notin DOMAIN ls /\ \A e \in DOMAIN ls : js[e] = ls[e]
  BY <1>1, RowAppended
<1> HIDE DEF k, n, qs, js
<1>6. Live(qs) = {k}
  <2>1. "ENDED" \notin LiveStatuses BY DEF LiveStatuses, Trials, Switches
  <2>2. \A j \in Live(ps) : j = i BY DEF Sound, AtMostOneLive
  <2>3. \A j \in DOMAIN ps : qs[j].status \notin LiveStatuses
    <3> TAKE j \in DOMAIN ps
    <3>1. CASE j = i BY <1>2, <1>4, <2>1, <3>1
    <3>2. CASE j # i
      <4>1. qs[j].status = ps[j].status /\ j \notin Live(ps)
        BY <1>2, <1>4, <2>2, <3>2
      <4> QED BY <4>1 DEF Live
    <3> QED BY <3>1, <3>2
  <2>4. qs[k].status \in LiveStatuses BY <1>4
  <2> QED BY <1>4, <2>3, <2>4 DEF Live
<1>7. OfPlans(qs, ls, ns)
  <2>1. \A m \in ns : m.plan \in DOMAIN ps \cup {k}
    BY <1>1 DEF OfPlans, Mark, k
  <2> QED BY <1>1, <1>4, <2>1 DEF OfPlans
<1>8. \A e \in DOMAIN ls : EndOf(qs, ls, e) = EndOf(ps, ls, e)
  <2>1. \A j \in DOMAIN ps : qs[j].anchor = ps[j].anchor /\ qs[j].schedule = ps[j].schedule
    BY <1>2, <1>4
  <2> TAKE e \in DOMAIN ls
  <2>2. ls[e].plan \in DOMAIN ps BY <1>1 DEF OfPlans
  <2> QED BY <2>1, <2>2, SameTerms
<1>9. CoveredBy(ps, ls, ns, x.time)
  <2>1. last \in DOMAIN ls /\ ls[last].plan = i
    BY <1>1, LastRenewalOfPlan DEF RenewalsOf, EntriesOf
  <2>2. Exempt(ls, ns, last) BY <2>1 DEF Exempt
  <2>3. x.time \in Int BY DEF LedgerRow
  <2> HIDE DEF last
  <2> QED BY <1>1, <2>2, <2>3, LastPeriodCovers DEF last
<1>10. Paired(qs, ls, ns) /\ CoveredBy(qs, ls, ns, x.time)
  <2>1. Paired(ps, ls, ns) BY <1>1, StillExempt DEF Successive, Paired
  <2> QED BY <1>8, <1>9, <2>1 DEF Paired, CoveredBy
<1>11. EntriesOf(ls, k) = {} BY <1>1, <1>3 DEF OfPlans, EntriesOf
<1>12. Successive(qs, js, ns, t)
  <2>1. qs[x.plan].status \in Trials =>
          /\ EntriesOf(ls, x.plan) = {} /\ Mark("trial", x.plan) \in ns
          /\ x.time <= qs[x.plan].anchor
    BY <1>4, <1>11 DEF k
  <2>2. x.plan \in DOMAIN qs /\ Live(qs) = {x.plan} BY <1>4, <1>6 DEF k
  <2> QED BY <1>1, <1>4, <1>7, <1>10, <2>1, <2>2, RenewalKeepsSuccessive DEF js
<1>13. ASSUME NEW d \in DOMAIN js, InitialOf(js, ns, d), d # n
       PROVE  d \in DOMAIN ls /\ InitialOf(ls, ms, d)
  <2>1. d \in DOMAIN ls /\ js[d] = ls[d] /\ ls[d].plan \in DOMAIN ps
    BY <1>1, <1>5, <1>13 DEF OfPlans
  <2>2. Mark("trial", ls[d].plan) \in ms
    BY <1>3, <1>13, <2>1 DEF InitialOf, Mark, k
  <2>3. EntriesOf(ls, ls[d].plan) \subseteq EntriesOf(js, js[d].plan)
    BY <1>5, <2>1 DEF EntriesOf
  <2> QED BY <1>13, <2>1, <2>2, <2>3 DEF InitialOf
<1>14. FreeTrials(qs, js, ns)
  <2> SUFFICES ASSUME NEW d \in DOMAIN js, InitialOf(js, ns, d)
               PROVE  d <= qs[js[d].plan].through /\ qs[js[d].plan].invoicing # "INITIAL"
    BY DEF FreeTrials
  <2>1. CASE d = n
    <3>1. Mark("trial", k) \in ns /\ qs[js[d].plan] = new
      BY <1>4, <1>5, <2>1 DEF InitialOf, k
    <3>2. n <= n BY <1>1 DEF n
    <3> QED BY <2>1, <3>1, <3>2 DEF k, n
  <2>2. CASE d # n
    <3>1. d \in DOMAIN ls /\ InitialOf(ls, ms, d) /\ js[d] = ls[d] /\ ls[d].plan \in DOMAIN ps
      BY <1>1, <1>5, <1>13, <2>2 DEF OfPlans
    <3>2. d <= ps[ls[d].plan].through /\ ps[ls[d].plan].invoicing # "INITIAL"
      BY <1>1, <3>1 DEF FreeTrials
    <3>3. /\ qs[ls[d].plan].through = ps[ls[d].plan].through
          /\ qs[ls[d].plan].invoicing = ps[ls[d].plan].invoicing
      BY <1>2, <1>4, <3>1
    <3> QED BY <3>1, <3>2, <3>3
  <2> QED BY <2>1, <2>2
<1> QED BY <1>12, <1>13, <1>14 DEF Orderly, qs, js, n

(* What begins a trial is new, and nobody has heard of it. *)
LEMMA NewTrialsAreFree ==
  ASSUME Uncrossed, Bills, JobFree, Charged' = Charged, job'.entries = job.entries,
         NEW ls, NEW n, n \notin DOMAIN ledger,
         \A d \in DOMAIN ledger' : InitialOf(ledger', marks', d) =>
           d = n \/ (d \in DOMAIN ls /\ InitialOf(ls, marks, d)),
         NoNewTrial(ledger, marks, ls, marks)
  PROVE  JobFree'
<1>1. Charged \subseteq DOMAIN ledger /\ job.entries \subseteq DOMAIN ledger
  BY DEF Bills, Booked, Uncrossed, JobSound
<1> QED BY <1>1 DEF JobFree, NoNewTrial

-----------------------------------------------------------------------------
(* Requests keep the order of the periods. *)

(* A plan that began as a trial has no renewal after its anchor. *)
LEMMA TrialBegan ==
  ASSUME NEW ps, NEW ls, Sound(ps, ls), NEW i \in Live(ps), ps[i].status = "FREE_TRIAL",
         NEW t \in Int, NEW ms, NEW n, Orderly(ps, ls, ms, n), NEW c, Cycled(ps, ls, i, t, c),
         c.last # 0
  PROVE  c.ledger[LastRenewal(c.ledger, i)].time <= c.plans[i].anchor
<1>1. /\ i \in DOMAIN ps /\ ps \in Seq(Row) /\ ls \in Seq(LedgerRow) /\ CycleOf(ps, ls, i) \in Nat
      /\ ps[i].status \in Trials
  BY TimesTyped DEF Live, Sound, TablesTyped, Trials
<1>2. CASE Stays(ps, ls, i, t, c)
  <2>1. c.plans = ps /\ c.ledger = ls BY <1>2 DEF Stays
  <2>2. LastRenewal(ls, i) \in RenewalsOf(ls, i) BY <1>1, LastRenewalOfPlan
  <2> QED BY <1>1, <2>1, <2>2 DEF Orderly, Successive, TrialRows
<1>3. CASE Starts(ps, ls, i, t, c)
  <2>1. PICK e : RenewedAt(ps, ls, i, t, e) /\ e.plan = i /\ c.ledger = Append(ls, e)
    BY <1>3 DEF Starts
  <2>2. PICK row \in Row : Written(ps, i, row, c.plans) /\ row.anchor = CycleOf(ps, ls, i)
    BY <1>3 DEF Starts
  <2>3. c.ledger[LastRenewal(c.ledger, i)] = e
    BY <1>1, <2>1, RenewalAppended DEF RenewedAt
  <2>4. e.time = CycleOf(ps, ls, i) /\ c.plans[i].anchor = CycleOf(ps, ls, i)
    BY <2>1, <2>2 DEF RenewedAt, Written
  <2> QED BY <1>1, <2>3, <2>4
<1> QED BY <1>2, <1>3 DEF Cycled, GoesOn, Switched, Ends, Switches

LEMMA UpdatePlanOrder ==
  ASSUME Uncrossed, Honoured, Ordered, RequestsOrdered, NEW t \in Transactions,
         NEW request \in Requests, do_update_plan(t, request)
  PROVE  Ordered' /\ RequestsOrdered'
<1>1. UNCHANGED <<now, job, items, marks>> /\ Charged' = Charged /\ job'.entries = job.entries
  BY UpdatePlanRenews DEF Charged
<1>2. PICK i, c : Requested(i, c) /\ (tx' = tx \/ Noted(t, request, i, c))
  BY UpdatePlanRenews
<1>3. /\ now \in Nat /\ now \in Int /\ now <= now /\ Sound(plans, ledger) /\ i \in Live(plans)
      /\ Dated(plans, ledger, now) /\ Orderly(plans, ledger, marks, now) /\ i \in DOMAIN plans
      /\ Cycled(plans, ledger, i, now, c) /\ plans' = c.plans /\ ledger' = c.ledger
  BY <1>2 DEF Uncrossed, Honoured, Ordered, Requested, Live
<1>4. Orderly(c.plans, c.ledger, marks, now) /\ NoNewTrial(ledger, marks, c.ledger, marks)
  BY <1>3, CycleKeepsOrderly
<1>5. JobFree' BY <1>1, <1>3, <1>4, StillFree DEF Ordered
<1>6. ASSUME NEW u \in Transactions, tx'[u].kind = "request", tx'[u].request \in Schedules
      PROVE  tx'[u].terms.renewed <= tx'[u].copy.anchor
  <2>1. CASE tx'[u] = tx[u] BY <1>6, <2>1 DEF RequestsOrdered
  <2>2. CASE Noted(t, request, i, c) /\ u = t
    <3>1. /\ tx'[u] = [kind |-> "request", request |-> request, plan |-> i,
                       copy |-> c.plans[i], terms |-> Terms(i, c.plans[i], c.ledger)]
          /\ request \in Offered(plans[i]) /\ c.last # 0
      BY <2>2 DEF Noted, Uncrossed, TxSound
    <3>2. plans[i].status = "FREE_TRIAL"
      BY <1>6, <3>1 DEF Offered, Schedules, Switches
    <3>3. c.ledger[LastRenewal(c.ledger, i)].time <= c.plans[i].anchor
      BY <1>3, <3>1, <3>2, TrialBegan
    <3>4. Terms(i, c.plans[i], c.ledger).renewed = c.ledger[LastRenewal(c.ledger, i)].time
      BY DEF Terms, LastRenewal, RenewalsOf
    <3> QED BY <3>1, <3>3, <3>4
  <2> QED BY <1>2, <2>1, <2>2, TxNoted DEF Uncrossed
<1> QED BY <1>1, <1>3, <1>4, <1>5, <1>6 DEF Ordered, RequestsOrdered

LEMMA FinishUpdateOrder ==
  ASSUME Uncrossed, Bills, Honoured, Ordered, RequestsOrdered, ~crossed', crossed \in BOOLEAN,
         NEW t \in Transactions, NEW request \in Requests, FinishUpdate(t, request)
  PROVE  Ordered'
<1>1. UNCHANGED <<now, job, items>> /\ Charged' = Charged /\ job'.entries = job.entries
  BY DEF FinishUpdate, clock, stripe, Charged
<1>3. /\ now \in Int /\ Sound(plans, ledger) /\ Orderly(plans, ledger, marks, now)
      /\ ledger \in Seq(LedgerRow)
  BY DEF Uncrossed, Ordered, Sound, TablesTyped
<1>4. ASSUME Orderly(plans', ledger', marks', now), NoNewTrial(ledger, marks, ledger', marks')
      PROVE  Ordered'
  BY <1>1, <1>4, StillFree DEF Ordered
<1>5. CASE UNCHANGED <<plans, ledger, marks, cancelled>>
  BY <1>3, <1>4, <1>5 DEF NoNewTrial
<1> SUFFICES ASSUME NEW i, NEW y, UpdatedBy(request, i, y) PROVE Ordered'
  BY <1>5, UpdateWrites
<1>6. i \in DOMAIN plans /\ i \in Live(plans) BY DEF UpdatedBy, Live
<1>8. CASE \E row : CutOff(i, row)
  <2>1. PICK row : CutOff(i, row) BY <1>8
  <2>2. /\ row = DowngradedNow(plans[i], i, ledger) /\ Written(plans, i, row, plans')
        /\ ledger' = ledger /\ marks' = marks \cup {Mark("cut", i)}
    BY <2>1 DEF CutOff
  <2>3. Orderly(plans', ledger, marks', now) /\ NoNewTrial(ledger, marks, ledger, marks')
    BY <1>3, <1>6, <2>2, DowngradeKeepsOrderly
  <2> QED BY <1>4, <2>2, <2>3
<1>9. CASE /\ request \in Schedules /\ plans[i] = y.copy
           /\ \E os, new, x : ScheduleChanged(i, os, new, x)
  <2> DEFINE ps == plans
             ls == ledger
             n == Len(ls) + 1
             begin == Mark("trial", Len(ps) + 1)
             cut == Mark("cut", i)
  <2>1. PICK os, new, x : ScheduleChanged(i, os, new, x) BY <1>9
  <2>2. ls[LastRenewal(ls, i)].time <= ps[i].anchor /\ ps[i].anchor <= now
    <3>1. PICK u \in Transactions : y = tx[u] /\ y.kind = "request" /\ y.request = request
      BY DEF UpdatedBy
    <3>2. y.terms.renewed <= y.copy.anchor BY <1>9, <3>1 DEF RequestsOrdered
    <3>4. y.copy.anchor <= now
      BY <1>9, <3>1 DEF Honoured, ReadsDated, RequestDated
    <3>3. y.terms.renewed = ledger[LastRenewal(ledger, i)].time
      <4>1. y.terms = Terms(i, plans[i], ledger) BY DEF UpdatedBy
      <4> QED BY <4>1 DEF Terms, LastRenewal, RenewalsOf
    <3> QED BY <1>9, <3>2, <3>3, <3>4
  <2> DEFINE old == os[i]
  <2>4. /\ i \in Live(ps) /\ old \in Row /\ old.status = "ENDED"
        /\ old.anchor = ps[i].anchor /\ old.schedule = ps[i].schedule
        /\ old.through = ps[i].through /\ old.invoicing = ps[i].invoicing
        /\ Written(ps, i, old, os) /\ new \in Row /\ new.status \in LiveStatuses
        /\ x \in LedgerRow /\ x.renewal /\ x.plan = Len(ps) + 1 /\ x.time = ps[i].anchor
        /\ x.time <= new.anchor /\ new.through = Len(ls) + 1 /\ new.invoicing = "DONE"
        /\ plans' = Append(os, new) /\ ledger' = Append(ls, x)
    <3>1. x.time = new.anchor /\ x.time \in Nat
      BY <2>1 DEF ScheduleChanged, LedgerRow
    <3> QED BY <2>1, <3>1 DEF ScheduleChanged, LiveStatuses, Trials
  <2>5. x.time <= now /\ ls[LastRenewal(ls, i)].time <= x.time BY <2>2, <2>4
  <2>6. /\ marks \subseteq marks' /\ cut \in marks' /\ begin \in marks'
        /\ \A m \in marks' : \/ m \in marks \/ (m.mark # "trial" /\ m.plan \in DOMAIN ps)
                             \/ m = begin
    <3>1. cut.mark # "trial" /\ cut.plan \in DOMAIN ps BY <1>6 DEF Mark
    <3>2. marks' = marks \cup {cut, begin} BY <2>1 DEF ScheduleChanged
    <3> HIDE DEF cut, begin, ps
    <3> QED BY <3>1, <3>2
  <2>7. Sound(ps, ls) /\ Orderly(ps, ls, marks, now) BY <1>3
  <2> HIDE DEF ps, ls, old, begin, cut
  <2>8. /\ Orderly(plans', ledger', marks', now)
        /\ \A d \in DOMAIN ledger' : InitialOf(ledger', marks', d) =>
             d = Len(ls) + 1 \/ (d \in DOMAIN ls /\ InitialOf(ls, marks, d))
    BY <1>3, <2>4, <2>5, <2>6, <2>7, ReplaceKeepsOrderly DEF begin, cut
  <2> HIDE DEF n
  <2>9. n \notin DOMAIN ledger BY <1>3 DEF n, ls
  <2>10. /\ JobFree /\ NoNewTrial(ledger, marks, ls, marks)
         /\ \A d \in DOMAIN ledger' : InitialOf(ledger', marks', d) =>
              d = n \/ (d \in DOMAIN ls /\ InitialOf(ls, marks, d))
    BY <2>8 DEF Ordered, NoNewTrial, n, ls
  <2>11. JobFree' BY <1>1, <2>9, <2>10, NewTrialsAreFree
  <2> QED BY <1>1, <2>8, <2>11 DEF Ordered
<1>10. CASE \E row : StatusChanged(request, i, row)
  <2>1. PICK row : StatusChanged(request, i, row) BY <1>10
  <2>2. /\ row \in Row /\ Written(plans, i, row, plans') /\ ledger' = ledger /\ marks' = marks
        /\ row.anchor = plans[i].anchor /\ row.schedule = plans[i].schedule
        /\ row.through = plans[i].through
        /\ row.invoicing \in {plans[i].invoicing, "STARTED", "DONE"}
        /\ i \in Live(plans) /\ row.status \in LiveStatuses
        /\ row.status \in Trials => plans[i].status \in Trials
        /\ marks \subseteq marks
        /\ \A m \in marks : m \in marks \/ (m.mark # "trial" /\ m.plan \in DOMAIN plans)
    BY <2>1 DEF StatusChanged
  <2>3. Orderly(plans', ledger, marks, now) /\ NoNewTrial(ledger, marks, ledger, marks)
    BY <1>3, <1>6, <2>2, WriteKeepsOrderly
  <2> QED BY <1>4, <2>2, <2>3
<1> QED BY <1>8, <1>9, <1>10 DEF UpdatedBy

-----------------------------------------------------------------------------
(* Tier changes and the job keep the order of the periods. *)

LEMMA SwitchTierOrder ==
  ASSUME Uncrossed, Bills, Honoured, Ordered, ~crossed', crossed \in BOOLEAN, switch_plan_tier
  PROVE  Ordered'
<1> DEFINE i == First.id
           n == Len(ledger) + 1
<1>1. UNCHANGED <<now, items>> /\ marks' = marks \cup {Mark("credit", i)}
  BY DEF switch_plan_tier, clock, stripe
<1>2. /\ First \in job.copies /\ job.step = "switch" /\ job'.entries = job.entries
      /\ plans[i] = First.row /\ i \in Live(plans)
  BY SwitchTierWrites
<1>3. plans[i].next = now BY <1>2 DEF Honoured, ReadsDated
<1>4. PICK os, new, x : TierSwitched(i, os, new, x) BY SwitchTierWrites
<1> HIDE DEF i
<1>5. /\ Sound(plans, ledger) /\ ledger \in Seq(LedgerRow) /\ i \in DOMAIN plans
      /\ now \in Int /\ Len(plans) \in Nat
  BY <1>2, <1>4, TierSwitchedFacts DEF Live, Uncrossed, Sound, TablesTyped
<1>6. /\ plans' = Append(os, new) /\ ledger' = Append(ledger, x)
      /\ Written(plans, i, os[i], os) /\ os[i] \in Row /\ os[i].status = "ENDED"
      /\ os[i].anchor = plans[i].anchor /\ os[i].schedule = plans[i].schedule
      /\ os[i].through = plans[i].through /\ os[i].invoicing = plans[i].invoicing
      /\ new \in Row /\ new.status \in LiveStatuses /\ new.status \notin Trials
      /\ x \in LedgerRow /\ x.renewal /\ x.plan = Len(plans) + 1 /\ x.time = now /\ x.time <= now
  BY <1>3, <1>4, <1>5 DEF TierSwitched, LiveStatuses, Trials
<1>7. /\ marks \subseteq marks' /\ Mark("credit", i) \in marks'
      /\ \A m \in marks' : m \in marks \/ (m.mark # "trial" /\ m.plan \in DOMAIN plans)
  <2> DEFINE a == Mark("credit", i)
  <2>1. a.mark # "trial" /\ a.plan \in DOMAIN plans BY <1>5 DEF Mark
  <2> HIDE DEF a
  <2>2. marks' = marks \cup {a} BY <1>1 DEF a
  <2> QED BY <2>1, <2>2 DEF a
<1>8. Mark("trial", Len(plans) + 1) \notin marks'
  <2>1. Len(plans) + 1 \notin DOMAIN plans /\ OfPlans(plans, ledger, marks)
    BY <1>5 DEF Ordered, Orderly, Successive
  <2> QED BY <1>7, <2>1 DEF OfPlans, Mark
<1>9. ledger[LastRenewal(ledger, i)].time <= x.time
  BY <1>5, <1>6, LastRenewalFacts DEF Honoured, Dated, RenewedBy
<1>10. /\ Orderly(Append(os, new), Append(ledger, x), marks', now)
       /\ \A d \in DOMAIN Append(ledger, x) : InitialOf(Append(ledger, x), marks', d) =>
            d = Len(ledger) + 1 \/ (d \in DOMAIN ledger /\ InitialOf(ledger, marks, d))
  <2> DEFINE begin == Mark("trial", Len(plans) + 1)
             old == os[i]
  <2>1. /\ new.status \in Trials => begin \in marks' /\ x.time <= new.anchor
        /\ begin \in marks' => new.through = Len(ledger) + 1 /\ new.invoicing = "DONE"
        /\ Mark("cut", i) \in marks' \/ Mark("credit", i) \in marks'
        /\ \A m \in marks' : \/ m \in marks \/ (m.mark # "trial" /\ m.plan \in DOMAIN plans)
                              \/ m = begin
    BY <1>6, <1>7, <1>8
  <2>2. /\ old \in Row /\ old.status = "ENDED" /\ Written(plans, i, old, os)
        /\ old.anchor = plans[i].anchor /\ old.schedule = plans[i].schedule
        /\ old.through = plans[i].through /\ old.invoicing = plans[i].invoicing
    BY <1>6
  <2> HIDE DEF old
  <2>3. Orderly(plans, ledger, marks, now) BY DEF Ordered
  <2> QED BY <1>2, <1>5, <1>6, <1>7, <1>9, <2>1, <2>2, <2>3, ReplaceKeepsOrderly
<1> HIDE DEF n
<1>11. \A d \in DOMAIN ledger' : InitialOf(ledger', marks', d) =>
         d = n \/ (d \in DOMAIN ledger /\ InitialOf(ledger, marks, d))
  BY <1>6, <1>10 DEF n
<1>12. n \notin DOMAIN ledger BY <1>5 DEF n
<1>13. JobFree /\ NoNewTrial(ledger, marks, ledger, marks) /\ Charged' = Charged
  BY <1>1 DEF Ordered, NoNewTrial, Charged
<1>14. JobFree' BY <1>2, <1>11, <1>12, <1>13, NewTrialsAreFree
<1> QED BY <1>1, <1>6, <1>10, <1>14 DEF Ordered

(* What begins a trial is left out: the plan was invoiced through it. *)
LEMMA BeginInvoicingOrder ==
  ASSUME Uncrossed, Honoured, Ordered, ~crossed', crossed \in BOOLEAN, BeginInvoicing
  PROVE  Ordered'
<1> DEFINE c == First
           i == c.id
           event_time == Min({c.row.next, job.until})
           m == make_end_of_cycle_updates_if_needed(
                    Reading(c.id, c.row, event_time, ledger), plans, ledger)
           row == m.copy
           left == {e \in EntriesOf(m.ledger, c.id) :
                      /\ row.invoicing = "INITIAL" \/ e > row.through
                      /\ m.ledger[e].time <= event_time}
           base == IF row.invoicing = "INITIAL" THEN None ELSE ledger[row.through].licenses
           copies == Replaced(row)
<1>1. job.step = "cycle" /\ UNCHANGED <<now, items, marks>>
  BY DEF BeginInvoicing, clock, stripe
<1>2. CASE c.row.invoicing = "STARTED"
  <2>1. job' = NoJob /\ UNCHANGED <<plans, ledger>>
    BY <1>2 DEF BeginInvoicing, tables
  <2>2. job'.entries = {} BY <2>1 DEF NoJob
  <2> QED BY <1>1, <2>1, <2>2, QuietOrder
<1>3. CASE c.row.invoicing # "STARTED"
  <2>1. /\ plans' = m.plans /\ ledger' = m.ledger /\ plans[i] = c.row
        /\ job' = [job EXCEPT !.step = "entry", !.copies = copies, !.made = FALSE,
                              !.entries = left, !.base = base]
    BY <1>3 DEF BeginInvoicing
  <2>2. i \in DOMAIN plans BY <1>1, CopyReplaced
  <2>3. event_time \in Int /\ event_time <= now
    <3> DEFINE r == c.row
    <3>1. r = plans[i] BY <2>1
    <3> HIDE DEF i, r
    <3>2. Min({r.next, job.until}) \in Int /\ Min({r.next, job.until}) <= now
      BY <2>2, <3>1, EventTimeTyped
    <3> QED BY <3>2 DEF r
  <2> HIDE DEF event_time
  <2>4. m = make_end_of_cycle_updates_if_needed(
                Reading(i, plans[i], event_time, ledger), plans, ledger)
    BY <2>1
  <2>5. job'.entries = left
    <3> HIDE DEF left, base, copies
    <3> QED BY <2>1 DEF Uncrossed, JobSound
  <2> HIDE DEF m, copies, base
  <2>6. /\ now \in Nat /\ Sound(plans, ledger) /\ Dated(plans, ledger, now)
        /\ Orderly(plans, ledger, marks, now)
    BY DEF Uncrossed, Honoured, Ordered
  <2>7. left \subseteq EntriesOf(m.ledger, i)
         /\ \A e \in left : row.invoicing = "INITIAL" \/ e > row.through
    OBVIOUS
  <2> HIDE DEF left, i
  <2>8. Orderly(m.plans, m.ledger, marks, now) /\ NoNewTrial(ledger, marks, m.ledger, marks)
    <3>1. Cycled(plans, ledger, i, event_time, m)
      BY <2>2, <2>3, <2>4, <2>6, CycleWrites
    <3> QED BY <2>2, <2>3, <2>6, <3>1, CycleKeepsOrderly
  <2>9. m.copy = m.plans[i] /\ Sound(m.plans, m.ledger) /\ i \in DOMAIN m.plans
    <3>1. /\ m.copy = m.plans[i] /\ Sound(m.plans, m.ledger)
          /\ Advances(plans, ledger, m.plans, m.ledger)
      BY <2>2, <2>3, <2>4, <2>6, CycleKeepsSound
    <3> QED BY <2>2, <3>1 DEF Advances
  <2>10. ASSUME NEW e \in left, InitialOf(m.ledger, marks, e) PROVE FALSE
    <3>1. e \in DOMAIN m.ledger /\ m.ledger[e].plan = i /\ e \in Nat
      BY <2>7, <2>9 DEF EntriesOf, Sound, TablesTyped
    <3>2. e <= row.through /\ row.invoicing # "INITIAL"
      BY <2>8, <2>9, <2>10, <3>1 DEF Orderly, FreeTrials
    <3>3. row.through \in Nat
      <4>1. row \in Row BY <2>9 DEF Sound, TablesTyped
      <4> QED BY <4>1 DEF Row
    <3>4. e > row.through BY <2>7, <3>2
    <3> QED BY <3>1, <3>2, <3>3, <3>4
  <2> HIDE DEF row
  <2>11. Charged' = Charged BY <1>1 DEF Charged
  <2>12. JobFree'
    <3> SUFFICES ASSUME NEW e \in DOMAIN ledger', InitialOf(ledger', marks', e)
                 PROVE  e \notin Charged' /\ e \notin job'.entries
      BY DEF JobFree
    <3>1. InitialOf(m.ledger, marks, e) /\ e \in DOMAIN m.ledger
      BY <1>1, <2>1
    <3>2. e \notin left BY <2>10, <3>1
    <3>3. e \notin Charged BY <2>8, <3>1 DEF Ordered, JobFree, NoNewTrial
    <3> QED BY <2>5, <2>11, <3>2, <3>3
  <2> QED BY <1>1, <2>1, <2>8, <2>12 DEF Ordered
<1> QED BY <1>2, <1>3

(* The job charges what it has set out to charge. *)
LEMMA CreateItemOrder ==
  ASSUME Uncrossed, Bills, Ordered, CreateItem PROVE Ordered'
<1> DEFINE e == Min(job.entries)
           m == Item(e, Quantity(e))
<1>1. /\ job.step = "item" /\ job' = [job EXCEPT !.step = "done", !.made = TRUE]
      /\ UNCHANGED <<plans, ledger, marks, now>>
      /\ items' = IF e \in keys THEN items ELSE Append(items, m)
  BY DEF CreateItem, tables, clock
<1>2. job'.entries = job.entries /\ job.entries # {}
  BY <1>1 DEF Uncrossed, JobSound
<1>3. e \in job.entries BY <1>1, <1>2, ChargingFacts
<1>4. m.entry = e BY DEF Item
<1> HIDE DEF m
<1>5. Charged' \subseteq Charged \cup {e}
  <2>1. CASE e \in keys BY <1>1, <2>1 DEF Charged
  <2>2. CASE e \notin keys
    <3>1. items' = Append(items, m) BY <1>1, <2>2
    <3>2. OnceEach(items) \/ e \in Charged BY DEF Bills
    <3>3. PICK S : items \in Seq(S) BY DEF Bills, OnceEach
    <3> DEFINE U == S \cup {m}
    <3>4. items \in Seq(U) /\ m \in U BY <3>3, SeqMonotonic
    <3> HIDE DEF U
    <3>5. \A k \in DOMAIN items' : (k \in DOMAIN items /\ items'[k] = items[k]) \/ items'[k] = m
      BY <3>1, <3>4
    <3> QED BY <1>4, <3>5 DEF Charged, ChargedBy
  <2> QED BY <2>1, <2>2
<1> HIDE DEF e
<1>6. JobFree' BY <1>1, <1>2, <1>3, <1>5 DEF Ordered, JobFree
<1> QED BY <1>1, <1>6 DEF Ordered

LEMMA TickOrder ==
  ASSUME Uncrossed, Ordered, Tick PROVE Ordered'
<1>1. /\ now' = now + 1 /\ UNCHANGED <<plans, ledger, marks, job, items>> /\ now \in Nat
  BY DEF Tick, tables, Uncrossed
<1>2. plans \in Seq(Row) /\ ledger \in Seq(LedgerRow) /\ Orderly(plans, ledger, marks, now)
  BY DEF Uncrossed, Sound, TablesTyped, Ordered
<1> DEFINE later == now + 1
<1>3. now \in Int /\ later \in Int /\ now <= later BY <1>1
<1>4. /\ marks \subseteq marks /\ (\A m \in marks : m.plan \in DOMAIN plans)
      /\ Live(plans) \ Live(plans) = {} /\ DOMAIN plans = DOMAIN plans
  BY <1>2 DEF Orderly, Successive, OfPlans
<1> HIDE DEF later
<1>5. Successive(plans, ledger, marks, later)
  BY <1>2, <1>3, <1>4, RowsKeepSuccessive DEF Orderly
<1>6. Charged' = Charged BY <1>1 DEF Charged
<1>7. JobFree' BY <1>1, <1>6 DEF Ordered, JobFree
<1> QED BY <1>1, <1>2, <1>5, <1>7 DEF Ordered, Orderly, later

LEMMA PaidInit == Init => PaidInv
<1> SUFFICES ASSUME Init PROVE PaidInv
  OBVIOUS
<1>1. plans = <<>> /\ ledger = <<>> /\ marks = {} /\ Live(plans) = {} /\ DOMAIN ledger = {}
  BY DEF Init, Live
<1>2. Orderly(plans, ledger, marks, now) /\ JobFree
  BY <1>1 DEF Orderly, Successive, FreeTrials, OfPlans, Paired, Over, LastOfAll, TrialRows, JobFree
<1> QED BY <1>2, ChargeInit, CancelInit DEF PaidInv, Ordered, RequestsOrdered, Init, Free

LEMMA Opened ==
  ASSUME NEW t \in Transactions,
         \/ \E delta \in {-1, 1} : BeginUserChange(t, delta)
         \/ \E licenses \in 1..MaxUsers, schedule \in Schedules :
               BeginUpgrade(t, licenses, schedule)
  PROVE  \E x : tx' = [tx EXCEPT ![t] = x] /\ (x.kind = "user" \/ x.kind = "upgrade")
<1>1. ASSUME NEW delta, BeginUserChange(t, delta)
      PROVE  \E x : tx' = [tx EXCEPT ![t] = x] /\ x.kind = "user"
  <2> DEFINE i == get_current_plan(plans)
             x == [kind |-> "user", delta |-> delta, count |-> users + delta, plan |-> i,
                   reading |-> IF i = 0 THEN 0 ELSE Reading(i, plans[i], now, ledger)]
  <2>1. tx' = [tx EXCEPT ![t] = x] /\ x.kind = "user"
    BY <1>1 DEF BeginUserChange
  <2> HIDE DEF x
  <2> QED BY <2>1
<1>2. ASSUME NEW licenses, NEW schedule, BeginUpgrade(t, licenses, schedule)
      PROVE  \E x : tx' = [tx EXCEPT ![t] = x] /\ x.kind = "upgrade"
  <2> DEFINE x == [kind |-> "upgrade", licenses |-> licenses, schedule |-> schedule,
                   trial |-> trial_days > 0 /\ plans = <<>>]
  <2>1. tx' = [tx EXCEPT ![t] = x] /\ x.kind = "upgrade"
    BY <1>2 DEF BeginUpgrade
  <2> HIDE DEF x
  <2> QED BY <2>1
<1> QED BY <1>1, <1>2

(* Only do_update_plan opens a request. *)
LEMMA RequestsStay ==
  ASSUME TxSound, RequestsOrdered, [Next]_vars,
         \A t \in Transactions, request \in Requests : ~ do_update_plan(t, request)
  PROVE  RequestsOrdered'
<1>1. ASSUME NEW t \in Transactions, NEW x, tx' = [tx EXCEPT ![t] = x], x.kind # "request"
      PROVE  RequestsOrdered'
  BY <1>1 DEF RequestsOrdered, TxSound
<1>2. CASE tx' = tx BY <1>2 DEF RequestsOrdered
<1>3. ASSUME NEW t \in Transactions,
             \/ \E delta \in {-1, 1} : BeginUserChange(t, delta)
             \/ \E licenses \in 1..MaxUsers, schedule \in Schedules :
                   BeginUpgrade(t, licenses, schedule)
      PROVE  RequestsOrdered'
  <2>1. PICK x : tx' = [tx EXCEPT ![t] = x] /\ (x.kind = "user" \/ x.kind = "upgrade")
    BY <1>3, Opened
  <2> QED BY <1>1, <2>1
<1>4. ASSUME NEW t \in Transactions,
             \/ CommitUserChange(t) \/ process_initial_upgrade(t)
             \/ \E request \in Requests : FinishUpdate(t, request)
      PROVE  RequestsOrdered'
  <2>1. Free.kind # "request" BY DEF Free
  <2>2. tx' = [tx EXCEPT ![t] = Free]
    BY <1>4 DEF CommitUserChange, process_initial_upgrade, FinishUpdate
  <2> QED BY <1>1, <2>1, <2>2
<1>5. ASSUME \/ downgrade_now \/ do_change_plan_to_new_tier \/ invoice_plans_as_needed
             \/ Invoicing \/ JobDies \/ Tick \/ UNCHANGED vars
      PROVE  tx' = tx
  BY <1>5 DEF downgrade_now, do_change_plan_to_new_tier, invoice_plans_as_needed, Invoicing,
     switch_plan_tier, BeginInvoicing, StartEntry, SkipEntry, CreateItem, FinishEntry,
     SaveInvoicing, CreateInvoice, FinishInvoicing, JobDies, Tick, vars
<1> QED BY <1>2, <1>3, <1>4, <1>5 DEF Next

LEMMA PaidStep == PaidInv /\ [Next]_vars => PaidInv'
<1> SUFFICES ASSUME PaidInv, [Next]_vars PROVE PaidInv'
  OBVIOUS
<1>1. ChargeInv /\ ChargeInv' /\ CancelInv /\ CancelInv'
  BY ChargeStep, CancelStep DEF PaidInv
<1>2. crossed \in BOOLEAN /\ crossed' \in BOOLEAN /\ (~crossed' => ~crossed)
  BY <1>1, CrossedGrows DEF CancelInv, BillingInv
<1> SUFFICES ASSUME ~crossed' PROVE Ordered' /\ RequestsOrdered'
  BY <1>1 DEF PaidInv
<1>3. Uncrossed /\ Bills /\ Honoured /\ Ordered /\ RequestsOrdered /\ Sound(plans', ledger')
  BY <1>1, <1>2 DEF PaidInv, ChargeInv, CancelInv, BillingInv, Uncrossed
<1>4. RequestsOrdered' BY <1>3, UpdatePlanOrder, RequestsStay DEF Uncrossed
<1> SUFFICES Ordered'
  BY <1>4
<1>5. CASE Quiet BY <1>3, <1>5, QuietSteps, QuietOrder
<1>6. ASSUME NEW t \in Transactions, CommitUserChange(t) PROVE Ordered'
  BY <1>2, <1>3, <1>6, CommitUserChangeOrder
<1>7. ASSUME NEW t \in Transactions, process_initial_upgrade(t) PROVE Ordered'
  BY <1>2, <1>3, <1>7, UpgradeOrder
<1>8. ASSUME NEW t \in Transactions, NEW request \in Requests,
             do_update_plan(t, request) \/ FinishUpdate(t, request)
      PROVE  Ordered'
  BY <1>2, <1>3, <1>8, UpdatePlanOrder, FinishUpdateOrder
<1>9. CASE downgrade_now BY <1>3, <1>9, DowngradeNowOrder
<1>10. CASE do_change_plan_to_new_tier BY <1>3, <1>10, TierChangeOrder
<1>11. CASE switch_plan_tier BY <1>2, <1>3, <1>11, SwitchTierOrder
<1>12. CASE BeginInvoicing BY <1>2, <1>3, <1>12, BeginInvoicingOrder
<1>13. CASE StartEntry \/ SkipEntry \/ FinishEntry
  BY <1>3, <1>13, EntrySaved, SaveInvoicingOrder
<1>14. CASE CreateItem BY <1>3, <1>14, CreateItemOrder
<1>15. CASE FinishInvoicing BY <1>2, <1>3, <1>15, FinishInvoicingOrder
<1>16. CASE Tick BY <1>3, <1>16, TickOrder
<1> QED
  BY <1>5, <1>6, <1>7, <1>8, <1>9, <1>10, <1>11, <1>12, <1>13, <1>14, <1>15, <1>16 DEF
     Quiet, Next, Invoicing

LEMMA PeriodsPaidOnce == PaidInv => NoPeriodPaidTwice
<1> SUFFICES ASSUME PaidInv, ~crossed, NEW d \in Renewals, NEW e \in Renewals, d < e,
                    ItemsOf(d) # {}, ~ Marked("cut", ledger[d].plan),
                    ~ Marked("credit", ledger[d].plan)
             PROVE  PeriodEnd(d) <= ledger[e].time
  <2>1. DOMAIN ledger \subseteq Nat \/ crossed \/ ~PaidInv
    BY DEF PaidInv, CancelInv, BillingInv, Uncrossed, Sound, TablesTyped
  <2>2. \A d, e \in Renewals : (PaidInv /\ ~crossed) => (d < e \/ d >= e)
    BY <2>1 DEF Renewals
  <2> QED BY <2>2 DEF NoPeriodPaidTwice
<1>1. Ordered /\ d \in DOMAIN ledger /\ e \in DOMAIN ledger /\ ledger[d].renewal /\ ledger[e].renewal
  BY DEF PaidInv, Renewals
<1>2. d \in Charged BY DEF ItemsOf, Charged, ChargedBy
<1>3. ~ InitialOf(ledger, marks, d) BY <1>1, <1>2 DEF Ordered, JobFree
<1>4. ~ Exempt(ledger, marks, d) BY <1>3 DEF Exempt, Marked
<1>5. EndOf(plans, ledger, d) <= ledger[e].time
  BY <1>1, <1>4 DEF Ordered, Orderly, Successive, Paired
<1> QED BY <1>5 DEF PeriodEnd, EndOf

(* No renewal is charged for a time that an earlier one has paid for, *)
(* whichever of the user transactions, requests, upgrades and runs of the *)
(* job renews a plan, for any length of the month, the year and the trial: *)
(* make_end_of_cycle_updates_if_needed renews at the end of the last *)
(* period, replaced plans end with it, and a trial, whose renewal may *)
(* overlap with the next one, is free.  Exempt are customers who were cut *)
(* off or credited, and what follows a write that crosses another one. *)
THEOREM NoPeriodPaidTwiceCorrect == Spec => []NoPeriodPaidTwice
<1>1. Spec => []PaidInv BY PaidInit, PaidStep, PTL DEF Spec
<1> QED BY <1>1, PeriodsPaidOnce, PTL

-----------------------------------------------------------------------------
(* The live plan is renewed for all users. *)

LEMMA TermFacts ==
  ASSUME NEW p \in Row
  PROVE  /\ Term(p) \in Nat \ {0} /\ Month <= Term(p) /\ Slack(p) \in {0, Month}
         /\ p.schedule = "annual" => 2 * Month <= Term(p) /\ Slack(p) = 0
         /\ p.schedule # "annual" => Term(p) = Month /\ Slack(p) = Month
         /\ Month \in Nat \ {0}
         /\ \A t : start_of_next_billing_cycle(p, t) = FirstAfter(p.anchor, Term(p), t)
<1> USE BillingAssumption, YearAssumption
<1>1. \A t : start_of_next_billing_cycle(p, t) = FirstAfter(p.anchor, Term(p), t)
  BY DEF start_of_next_billing_cycle, Term
<1>2. CASE p.schedule = "annual"
  <2>1. Term(p) = Month * MonthsPerYear /\ Slack(p) = 0
    BY <1>2 DEF Term, Slack
  <2>2. PICK k \in Nat : MonthsPerYear = 2 + k
    <3>1. MonthsPerYear - 2 \in Nat /\ MonthsPerYear = 2 + (MonthsPerYear - 2)
      OBVIOUS
    <3> QED BY <3>1
  <2>3. Month * MonthsPerYear = 2 * Month + Month * k /\ Month * k \in Nat
    BY <2>2
  <2> QED BY <1>1, <1>2, <2>1, <2>3
<1>3. CASE p.schedule # "annual"
  <2>1. Term(p) = Month /\ Slack(p) = Month BY <1>3 DEF Term, Slack
  <2> QED BY <1>1, <1>3, <2>1
<1> QED BY <1>2, <1>3

LEMMA AtAnchor ==
  ASSUME NEW anchor \in Nat, NEW step \in Nat \ {0}
  PROVE  FirstAfter(anchor, step, anchor) = anchor + step
<1>1. (anchor - anchor) \div step = 0 OBVIOUS
<1> QED BY <1>1 DEF FirstAfter

(* The dates of a grid of steps. *)
LEMMA OnGrid ==
  ASSUME NEW anchor \in Nat, NEW step \in Nat \ {0}, NEW s \in Nat
  PROVE  \E n \in Nat : FirstAfter(anchor, step, s) = anchor + n * step
<1>1. CASE s < anchor
  <2>1. FirstAfter(anchor, step, s) = anchor + 0 * step
    BY <1>1 DEF FirstAfter
  <2> QED BY <2>1
<1>2. CASE ~ (s < anchor)
  <2> DEFINE x == s - anchor
             k == x \div step + 1
  <2>1. x \in Nat /\ FirstAfter(anchor, step, s) = anchor + k * step
    BY <1>2 DEF FirstAfter
  <2> HIDE DEF x
  <2>2. k \in Nat BY <2>1
  <2> HIDE DEF k
  <2> QED BY <2>1, <2>2
<1> QED BY <1>1, <1>2

(* After a date of the grid comes the next one, a whole step later. *)
LEMMA WholeStep ==
  ASSUME NEW anchor \in Nat, NEW step \in Nat \ {0}, NEW s \in Nat,
         NEW d, d = FirstAfter(anchor, step, s)
  PROVE  d + step <= FirstAfter(anchor, step, d) /\ d \in Nat
<1>1. PICK n \in Nat : d = anchor + n * step BY OnGrid
<1>2. n * step \in Nat /\ d \in Nat BY <1>1
<1>3. PICK m \in Nat : FirstAfter(anchor, step, d) = anchor + m * step
  BY <1>2, OnGrid
<1>4. d < FirstAfter(anchor, step, d) BY <1>2, FirstAfterTyped
<1>5. m * step \in Nat /\ n * step < m * step BY <1>1, <1>2, <1>3, <1>4
<1>6. (n + 1) * step <= m * step BY <1>5, Multiples
<1>7. (n + 1) * step = n * step + step OBVIOUS
<1> QED BY <1>1, <1>2, <1>3, <1>5, <1>6, <1>7

(* The next date of a grid is at most a step later, or its first. *)
LEMMA OneStep ==
  ASSUME NEW anchor \in Nat, NEW step \in Nat \ {0}, NEW s \in Nat
  PROVE  FirstAfter(anchor, step, s) = anchor \/ FirstAfter(anchor, step, s) <= s + step
<1> SUFFICES ASSUME ~ (s < anchor) PROVE FirstAfter(anchor, step, s) <= s + step
  BY DEF FirstAfter
<1> DEFINE x == s - anchor
           k == x \div step
<1>1. x \in Nat /\ s = anchor + x /\ FirstAfter(anchor, step, s) = anchor + (k + 1) * step
  BY DEF FirstAfter
<1> HIDE DEF x
<1>2. k \in Nat /\ k * step <= x BY <1>1
<1> HIDE DEF k
<1>3. (k + 1) * step = k * step + step /\ k * step \in Nat BY <1>2
<1> QED BY <1>1, <1>2, <1>3

(* Near is what a renewal makes of a plan that is timely. *)
LEMMA CycleGoesOn ==
  ASSUME NEW ps, NEW ls, Sound(ps, ls), NEW i \in Live(ps), ps[i].status \notin Trials,
         NEW e \in LedgerRow, e.renewal, e.plan = i, e.time = CycleOf(ps, ls, i),
         NEW ms, ms = Append(ls, e), Sound(ps, ms)
  PROVE  CycleOf(ps, ls, i) + Term(ps[i]) <= CycleOf(ps, ms, i)
<1>1. /\ ls \in Seq(LedgerRow) /\ ps[i] \in Row /\ ps[i].anchor \in Nat
  BY TimesTyped DEF Sound, TablesTyped
<1>2. /\ Term(ps[i]) \in Nat \ {0}
      /\ \A t : start_of_next_billing_cycle(ps[i], t) = FirstAfter(ps[i].anchor, Term(ps[i]), t)
  BY <1>1, TermFacts
<1>3. ms[LastRenewal(ms, i)] = e BY <1>1, RenewalAppended
<1>4. CycleOf(ps, ms, i) = FirstAfter(ps[i].anchor, Term(ps[i]), e.time)
  <2> DEFINE time == ms[LastRenewal(ms, i)].time
  <2>1. CycleOf(ps, ms, i) = start_of_next_billing_cycle(ps[i], time)
    <3>1. Sound(ps, ms) /\ i \in Live(ps) /\ ps[i].status \notin Trials
      OBVIOUS
    <3> QED BY ONLY <3>1, RegularCycle
  <2>2. time = e.time BY <1>3
  <2> HIDE DEF time
  <2> QED BY <1>2, <2>1, <2>2
<1> DEFINE last == ls[LastRenewal(ls, i)].time
<1>5. last \in Nat /\ CycleOf(ps, ls, i) = FirstAfter(ps[i].anchor, Term(ps[i]), last)
  <2>1. last \in Nat /\ CycleOf(ps, ls, i) = start_of_next_billing_cycle(ps[i], last)
    BY RegularCycle
  <2> HIDE DEF last
  <2> QED BY <1>2, <2>1
<1> HIDE DEF last
<1> DEFINE cycle == CycleOf(ps, ls, i)
           anchor == ps[i].anchor
           step == Term(ps[i])
<1>6. cycle = FirstAfter(anchor, step, last) /\ anchor \in Nat /\ step \in Nat \ {0} /\ last \in Nat
  BY <1>1, <1>2, <1>5
<1> HIDE DEF cycle, anchor, step
<1>7. cycle + step <= FirstAfter(anchor, step, cycle) BY <1>6, WholeStep
<1> QED BY <1>4, <1>7 DEF cycle, anchor, step

(* The first cycle of a plan. *)
LEMMA CycleBegins ==
  ASSUME NEW qs, NEW ls \in Seq(LedgerRow), NEW e \in LedgerRow, e.renewal,
         NEW ms, ms = Append(ls, e), Sound(qs, ms),
         NEW i \in Live(qs), i = e.plan, qs[i].status \notin Trials, qs[i].anchor = e.time
  PROVE  CycleOf(qs, ms, i) = e.time + Term(qs[i])
<1>1. qs[i] \in Row /\ qs[i].anchor \in Nat BY TimesTyped
<1>2. /\ Term(qs[i]) \in Nat \ {0}
      /\ \A t : start_of_next_billing_cycle(qs[i], t) = FirstAfter(qs[i].anchor, Term(qs[i]), t)
  BY <1>1, TermFacts
<1>3. ms[LastRenewal(ms, i)] = e BY RenewalAppended
<1>4. CycleOf(qs, ms, i) = start_of_next_billing_cycle(qs[i], e.time)
  <2> DEFINE time == ms[LastRenewal(ms, i)].time
  <2>1. CycleOf(qs, ms, i) = start_of_next_billing_cycle(qs[i], time)
    BY RegularCycle
  <2>2. time = e.time BY <1>3
  <2> HIDE DEF time
  <2> QED BY <2>1, <2>2
<1>5. FirstAfter(qs[i].anchor, Term(qs[i]), qs[i].anchor) = qs[i].anchor + Term(qs[i])
  BY <1>1, <1>2, AtAnchor
<1> QED BY <1>2, <1>4, <1>5

(* A plan that was renewed as of now, when it is the live one. *)
LEMMA RenewedIsOnTime ==
  ASSUME NEW qs, NEW ms, Sound(qs, ms), NEW i \in DOMAIN qs, \A k \in Live(qs) : k = i,
         NEW n \in Nat, qs[i].status = "ACTIVE", Near(qs, ms, i),
         qs[i].next >= n \/ (Ahead(qs, ms, i) /\ n <= CycleOf(qs, ms, i))
  PROVE  OnTime(qs, ms, n) /\ AllNear(qs, ms)
<1>1. i \in Live(qs) /\ qs[i].status \notin Trials
  BY DEF Live, LiveStatuses, Trials
<1>2. qs[i] \in Row /\ CycleOf(qs, ms, i) \in Nat /\ qs[i].next \in Nat
  BY <1>1, TimesTyped
<1>3. Slack(qs[i]) \in Nat /\ Month \in Nat BY <1>2, TermFacts
<1>4. Timely(qs, ms, i, n) BY <1>2, <1>3 DEF Timely, Near
<1> QED BY <1>1, <1>4 DEF OnTime, AllNear, Regular

LEMMA NoneOnTime ==
  ASSUME NEW qs, NEW ms, NEW n, Live(qs) = {}
  PROVE  OnTime(qs, ms, n) /\ AllNear(qs, ms)
  BY DEF OnTime, AllNear, Regular

(* make_end_of_cycle_updates_if_needed, called as of now, ends plans that *)
(* are timely or renews them, so that the next invoice is in the new cycle *)
LEMMA CycleKeepsOnTime ==
  ASSUME NEW ps, NEW ls, Sound(ps, ls), NEW i \in DOMAIN ps, NEW n \in Nat, OnTime(ps, ls, n),
         NEW c, Cycled(ps, ls, i, n, c), Sound(c.plans, c.ledger)
  PROVE  /\ OnTime(c.plans, c.ledger, n)
         /\ AllNear(c.plans, c.ledger) \/ (c.plans = ps /\ c.ledger = ls)
<1>1. ps \in Seq(Row) /\ ls \in Seq(LedgerRow) /\ ps[i] \in Row
  BY DEF Sound, TablesTyped
<1>2. CASE Stays(ps, ls, i, n, c) BY <1>2 DEF Stays
<1> SUFFICES ASSUME ~ Stays(ps, ls, i, n, c)
             PROVE  OnTime(c.plans, c.ledger, n) /\ AllNear(c.plans, c.ledger)
  BY <1>2
<1> DEFINE cycle == CycleOf(ps, ls, i)
           p == ps[i]
<1>3. /\ i \in Live(ps) /\ cycle <= n
      /\ \/ GoesOn(ps, ls, i, n, c) \/ Starts(ps, ls, i, n, c)
         \/ Switched(ps, ls, i, n, c) \/ Ends(ps, ls, i, c)
  BY DEF Cycled
<1>4. /\ cycle \in Nat /\ p.next \in Nat /\ p.anchor \in Nat
      /\ p.status \in Trials => cycle = p.next
  BY <1>3, TimesTyped DEF CycleOf, get_next_billing_cycle
<1>5. \A k \in Live(ps) : k = i BY <1>3 DEF Sound, AtMostOneLive
<1>6. /\ Term(p) \in Nat \ {0} /\ Month <= Term(p) /\ Slack(p) \in Nat /\ Month \in Nat \ {0}
  BY <1>1, TermFacts
<1>7. p.status \notin Trials \cup {"SWITCH_PLAN_TIER_NOW"} => Timely(ps, ls, i, n)
  BY <1>3 DEF OnTime, Regular
<1> HIDE DEF cycle, p
<1>8. CASE GoesOn(ps, ls, i, n, c)
  <2>1. PICK e : RenewedAt(ps, ls, i, n, e) /\ e.plan = i /\ c.ledger = Append(ls, e)
    BY <1>8 DEF GoesOn
  <2>2. e \in LedgerRow /\ e.renewal /\ e.time = cycle
    BY <2>1 DEF RenewedAt, cycle
  <2>3. c.plans = ps /\ p.status = "ACTIVE" /\ p.status \notin Trials
    BY <1>8 DEF GoesOn, p, Trials
  <2> DEFINE new == CycleOf(c.plans, c.ledger, i)
  <2>4. cycle + Term(p) <= new
    <3> DEFINE ms == c.ledger
    <3>1. ms = Append(ls, e) /\ Sound(ps, ms) BY <2>1, <2>3
    <3> HIDE DEF ms
    <3>2. CycleOf(ps, ls, i) + Term(ps[i]) <= CycleOf(ps, ms, i)
      BY <1>3, <2>1, <2>2, <2>3, <3>1, CycleGoesOn DEF cycle, p
    <3> QED BY <2>3, <3>2 DEF ms, cycle, p
  <2>5. new \in Nat BY <1>3, <2>3, TimesTyped
  <2> HIDE DEF new
  <2>6. Timely(ps, ls, i, n) BY <1>7, <2>3
  <2>7. /\ p.next >= n \/ (p.next < cycle /\ n <= cycle)
        /\ p.next <= cycle + Slack(p) + Month
    BY <2>6 DEF Timely, Ahead, p, cycle
  <2>8. p.next <= new + Slack(p) /\ (p.next >= n \/ (p.next < new /\ n <= new))
    BY <1>4, <1>6, <2>4, <2>5, <2>7
  <2>9. Near(c.plans, c.ledger, i) BY <2>3, <2>8 DEF Near, new, p
  <2>10. c.plans[i].next >= n \/ (Ahead(c.plans, c.ledger, i) /\ n <= CycleOf(c.plans, c.ledger, i))
    BY <2>3, <2>8 DEF Ahead, new, p
  <2> QED BY <1>5, <2>3, <2>9, <2>10, RenewedIsOnTime DEF p
<1>9. CASE Starts(ps, ls, i, n, c)
  <2>1. PICK e : RenewedAt(ps, ls, i, n, e) /\ e.plan = i /\ c.ledger = Append(ls, e)
    BY <1>9 DEF Starts
  <2>2. e \in LedgerRow /\ e.renewal /\ e.time = cycle
    BY <2>1 DEF RenewedAt, cycle
  <2>3. PICK row \in Row : /\ Written(ps, i, row, c.plans) /\ row.status = "ACTIVE"
                           /\ row.anchor = cycle /\ row.next = p.next
    BY <1>9 DEF Starts, cycle, p
  <2>4. p.status \in Trials BY <1>9 DEF Starts, p, Trials
  <2>5. c.plans[i] = row /\ DOMAIN c.plans = DOMAIN ps /\ \A k \in DOMAIN ps : k # i => c.plans[k] = ps[k]
    BY <2>3 DEF Written
  <2>6. \A k \in Live(c.plans) : k = i BY <1>5, <2>5 DEF Live
  <2>7. i \in Live(c.plans) /\ c.plans[i].status \notin Trials
    BY <2>3, <2>5 DEF Live, LiveStatuses, Trials
  <2> DEFINE new == CycleOf(c.plans, c.ledger, i)
  <2>8. new = cycle + Term(row)
    <3> DEFINE qs == c.plans
               ms == c.ledger
    <3>1. ms = Append(ls, e) /\ Sound(qs, ms) /\ i \in Live(qs) /\ qs[i].status \notin Trials /\ qs[i] = row
      BY <2>1, <2>5, <2>7
    <3> HIDE DEF qs, ms
    <3>2. i = e.plan /\ qs[i].anchor = e.time BY <2>1, <2>2, <2>3, <3>1
    <3>3. CycleOf(qs, ms, i) = e.time + Term(qs[i])
      BY <1>1, <2>2, <3>1, <3>2, CycleBegins
    <3> QED BY <2>2, <3>1, <3>3 DEF qs, ms
  <2>9. Term(row) \in Nat \ {0} /\ Slack(row) \in Nat BY TermFacts
  <2>10. p.next >= n BY <1>3, <2>4 DEF OnTime, p
  <2>11. p.next <= new + Slack(row) BY <1>4, <2>4, <2>8, <2>9
  <2> HIDE DEF new
  <2>12. Near(c.plans, c.ledger, i) /\ c.plans[i].next >= n
    BY <2>3, <2>5, <2>10, <2>11 DEF Near, new
  <2> QED BY <2>3, <2>5, <2>6, <2>12, RenewedIsOnTime
<1>10. CASE Switched(ps, ls, i, n, c)
  <2> DEFINE k == Len(ps) + 1
  <2>1. PICK e : RenewedAt(ps, ls, i, n, e) /\ e.plan = k /\ c.ledger = Append(ls, e)
    BY <1>10 DEF Switched
  <2>2. e \in LedgerRow /\ e.renewal /\ e.time = cycle
    BY <2>1 DEF RenewedAt, cycle
  <2>3. PICK os \in Seq(Row), row \in Row :
          /\ EndsIn(ps, ls, i, os) /\ c.plans = Append(os, row) /\ row.status = "ACTIVE"
          /\ row.anchor = cycle /\ row.next = cycle
          /\ row.schedule = IF p.status = "SWITCH_TO_ANNUAL_AT_END_OF_CYCLE"
                            THEN "annual" ELSE "monthly"
    BY <1>10 DEF Switched, cycle, p
  <2>4. p.status \in Switches /\ p.status \notin Trials \cup {"SWITCH_PLAN_TIER_NOW"}
    BY <1>10 DEF Switched, p, Switches, Trials
  <2>5. Len(os) = Len(ps) /\ Live(os) = {} BY <1>3, <2>3, EndsInFacts
  <2>6. /\ DOMAIN c.plans = DOMAIN os \cup {k} /\ c.plans[k] = row
        /\ \A j \in DOMAIN os : c.plans[j] = os[j]
    <3>1. os \in Seq(Row) /\ row \in Row /\ k = Len(os) + 1 /\ c.plans = Append(os, row)
      BY <2>3, <2>5
    <3> HIDE DEF k
    <3> QED BY <3>1, RowAppended
  <2> HIDE DEF k
  <2>7. \A j \in Live(c.plans) : j = k BY <2>5, <2>6 DEF Live
  <2>8. k \in Live(c.plans) /\ c.plans[k].status \notin Trials /\ k \in DOMAIN c.plans
    BY <2>3, <2>6 DEF Live, LiveStatuses, Trials
  <2> DEFINE new == CycleOf(c.plans, c.ledger, k)
  <2>9. new = cycle + Term(row)
    <3> DEFINE qs == c.plans
               ms == c.ledger
    <3>1. ms = Append(ls, e) /\ Sound(qs, ms) /\ k \in Live(qs) /\ qs[k].status \notin Trials /\ qs[k] = row
      BY <2>1, <2>6, <2>8
    <3> HIDE DEF qs, ms
    <3>2. k = e.plan /\ qs[k].anchor = e.time BY <2>1, <2>2, <2>3, <3>1
    <3>3. CycleOf(qs, ms, k) = e.time + Term(qs[k])
      BY <1>1, <2>2, <3>1, <3>2, CycleBegins
    <3> QED BY <2>2, <3>1, <3>3 DEF qs, ms
  <2>10. /\ Term(row) \in Nat \ {0} /\ Slack(row) \in Nat /\ Month <= Term(row)
         /\ row.schedule = "annual" => 2 * Month <= Term(row)
         /\ Slack(p) \in {0, Month} /\ (p.schedule = "annual" => Slack(p) = 0)
    BY <1>1, TermFacts DEF p
  <2>11. Timely(ps, ls, i, n) BY <1>7, <2>4
  <2>12. /\ p.next >= n \/ (p.next < cycle /\ n <= cycle)
         /\ p.next <= cycle + Slack(p) + Month
         /\ p.status = "SWITCH_TO_MONTHLY_AT_END_OF_CYCLE" => p.schedule = "annual"
    BY <2>11 DEF Timely, Ahead, p, cycle
  <2>13. Slack(p) + Month <= Term(row)
    <3>1. CASE p.status = "SWITCH_TO_ANNUAL_AT_END_OF_CYCLE"
      BY <1>6, <2>3, <2>10, <3>1
    <3>2. CASE p.status # "SWITCH_TO_ANNUAL_AT_END_OF_CYCLE"
      <4>1. p.schedule = "annual" BY <2>4, <2>12, <3>2 DEF Switches
      <4> QED BY <1>6, <2>10, <4>1
    <3> QED BY <3>1, <3>2
  <2>14. n <= new /\ cycle < new /\ cycle <= new + Slack(row) /\ new \in Nat
    <3> DEFINE y == Slack(p)
               z == Slack(row)
               w == Term(row)
               v == p.next
    <3>1. /\ cycle \in Nat /\ v \in Nat /\ Month \in Nat \ {0} /\ new = cycle + w /\ w \in Nat \ {0}
          /\ z \in Nat /\ y \in Nat /\ v <= cycle + y + Month /\ y + Month <= w
          /\ v >= n \/ n <= cycle
      BY <1>4, <1>6, <2>9, <2>10, <2>12, <2>13
    <3> HIDE DEF y, z, w, v, new
    <3>2. n <= new /\ cycle < new /\ cycle <= new + z /\ new \in Nat BY <3>1
    <3> QED BY <3>2 DEF z
  <2> HIDE DEF new
  <2>15. Near(c.plans, c.ledger, k) /\ Ahead(c.plans, c.ledger, k) /\ n <= CycleOf(c.plans, c.ledger, k)
    BY <2>3, <2>6, <2>14 DEF Near, Ahead, new
  <2> QED BY <2>3, <2>6, <2>7, <2>8, <2>15, RenewedIsOnTime
<1>11. CASE Ends(ps, ls, i, c)
  <2>1. Live(c.plans) = {} BY <1>3, <1>11, EndsInFacts DEF Ends
  <2> QED BY <2>1, NoneOnTime
<1> QED BY <1>3, <1>8, <1>9, <1>10, <1>11

LEMMA SameIsNear ==
  ASSUME NEW ps, NEW ls PROVE StaysNear(ps, ls, ps, ls)
  BY DEF StaysNear

LEMMA StaysNearTwice ==
  ASSUME NEW ps, NEW ls, NEW qs, NEW ms, NEW rs, NEW ns, DOMAIN ps \subseteq DOMAIN qs,
         StaysNear(ps, ls, qs, ms), StaysNear(qs, ms, rs, ns)
  PROVE  StaysNear(ps, ls, rs, ns)
<1> SUFFICES /\ \A i \in Regular(rs) : ~ Near(rs, ns, i) =>
                  i \in Regular(ps) /\ rs[i].next = ps[i].next /\ ~ Near(ps, ls, i)
             /\ \A i \in DOMAIN ps : Closed(ps[i]) => Closed(rs[i])
  BY DEF StaysNear
<1>1. ASSUME NEW i \in Regular(rs), ~ Near(rs, ns, i)
      PROVE  i \in Regular(ps) /\ rs[i].next = ps[i].next /\ ~ Near(ps, ls, i)
  <2>1. i \in Regular(qs) /\ rs[i].next = qs[i].next /\ ~ Near(qs, ms, i)
    BY <1>1 DEF StaysNear
  <2>2. i \in Regular(ps) /\ qs[i].next = ps[i].next /\ ~ Near(ps, ls, i)
    BY <2>1 DEF StaysNear
  <2> QED BY <2>1, <2>2
<1>2. \A i \in DOMAIN ps : Closed(ps[i]) => Closed(rs[i]) BY DEF StaysNear
<1> QED BY <1>1, <1>2

(* An entry that is no renewal. *)
LEMMA EntryKeepsOnTime ==
  ASSUME NEW ps, NEW ls, Sound(ps, ls), NEW e \in LedgerRow, ~e.renewal, NEW ms, ms = Append(ls, e)
  PROVE  /\ \A t : OnTime(ps, ls, t) => OnTime(ps, ms, t)
         /\ StaysNear(ps, ls, ps, ms)
<1>1. \A i \in Regular(ps) : CycleOf(ps, ms, i) = CycleOf(ps, ls, i)
  BY EntryKeepsCycle
<1>2. \A t : OnTime(ps, ls, t) => OnTime(ps, ms, t)
  BY <1>1 DEF OnTime, Timely, Ahead
<1>3. StaysNear(ps, ls, ps, ms) BY <1>1 DEF StaysNear, Near
<1> QED BY <1>2, <1>3

LEMMA WriteKeepsOnTime ==
  ASSUME NEW ps, NEW ls, Sound(ps, ls), NEW i \in DOMAIN ps, NEW row \in Row,
         NEW qs, Written(ps, i, row, qs), Sound(qs, ls), KeepsTerms(ps[i], row)
  PROVE  /\ \A t : OnTime(ps, ls, t) => OnTime(qs, ls, t)
         /\ StaysNear(ps, ls, qs, ls)
<1>1. qs[i] = row /\ DOMAIN qs = DOMAIN ps /\ \A k \in DOMAIN ps : k # i => qs[k] = ps[k]
  BY DEF Written
<1>2. ASSUME NEW k \in Regular(qs)
      PROVE  /\ k \in Regular(ps) /\ qs[k].next = ps[k].next /\ qs[k].schedule = ps[k].schedule
             /\ CycleOf(qs, ls, k) = CycleOf(ps, ls, k)
             /\ qs[k].status = "SWITCH_TO_MONTHLY_AT_END_OF_CYCLE" =>
                  qs[k].schedule = "annual" \/ qs[k] = ps[k]
  <2>1. k \in Live(qs) /\ qs[k].status \notin Trials /\ k \in DOMAIN ps
    BY <1>1 DEF Regular, Live
  <2>2. /\ k \in Regular(ps) /\ qs[k].next = ps[k].next /\ qs[k].anchor = ps[k].anchor
        /\ qs[k].schedule = ps[k].schedule
    <3>1. CASE k = i
      BY <1>1, <1>2, <3>1 DEF KeepsTerms, KeepsDates, Regular, Live
    <3>2. CASE k # i BY <1>1, <1>2, <2>1, <3>2 DEF Regular, Live
    <3> QED BY <3>1, <3>2
  <2>3. k \in Live(ps) /\ ps[k].status \notin Trials BY <2>2 DEF Regular
  <2>4. CycleOf(qs, ls, k) = CycleOf(ps, ls, k)
    BY <2>1, <2>2, <2>3, SameCycle
  <2> QED BY <1>1, <2>1, <2>2, <2>4 DEF KeepsTerms
<1>3. \A k \in Live(qs) : qs[k].status \in Trials =>
        k \in Live(ps) /\ ps[k].status \in Trials /\ qs[k].next = ps[k].next
  <2>1. \A p \in Row : p.status \in Trials => p.status \in LiveStatuses
    BY DEF LiveStatuses
  <2> SUFFICES ASSUME NEW k \in Live(qs), qs[k].status \in Trials
               PROVE  k \in Live(ps) /\ ps[k].status \in Trials /\ qs[k].next = ps[k].next
    OBVIOUS
  <2>2. k \in DOMAIN ps /\ ps[k] \in Row
    BY <1>1 DEF Live, Sound, TablesTyped
  <2>3. ps[k].status \in Trials /\ qs[k].next = ps[k].next
    BY <1>1, <2>2 DEF KeepsTerms
  <2> QED BY <2>1, <2>2, <2>3 DEF Live
<1>4. ASSUME NEW t, OnTime(ps, ls, t) PROVE OnTime(qs, ls, t)
  <2>1. \A k \in Regular(qs) : Timely(qs, ls, k, t)
    <3> SUFFICES ASSUME NEW k \in Regular(qs) PROVE Timely(qs, ls, k, t)
      OBVIOUS
    <3>1. Timely(ps, ls, k, t) BY <1>2, <1>4 DEF OnTime
    <3> QED BY <1>2, <3>1 DEF Timely, Ahead, Slack
  <2> QED BY <1>3, <1>4, <2>1 DEF OnTime
<1>5. StaysNear(ps, ls, qs, ls)
  <2>1. \A k \in DOMAIN ps : Closed(ps[k]) => Closed(qs[k])
    BY <1>1 DEF KeepsTerms
  <2>2. \A k \in Regular(qs) : Near(qs, ls, k) \/ ~ Near(ps, ls, k)
    BY <1>2 DEF Near, Slack
  <2> QED BY <1>2, <2>1, <2>2 DEF StaysNear
<1> QED BY <1>4, <1>5

(* The entries of a plan, when one is added. *)
LEMMA EntriesAppended ==
  ASSUME NEW ls \in Seq(LedgerRow), NEW e \in LedgerRow, NEW ms, ms = Append(ls, e)
  PROVE  /\ ms[Latest(EntriesOf(ms, e.plan))] = e
         /\ \A j : j # e.plan =>
              /\ EntriesOf(ms, j) = EntriesOf(ls, j)
              /\ \A k \in EntriesOf(ms, j) : ms[k] = ls[k]
         /\ \A t : Past(ls, t) /\ e.time <= t => Past(ms, t)
<1> DEFINE n == Len(ls) + 1
<1>1. /\ ms \in Seq(LedgerRow) /\ DOMAIN ms = DOMAIN ls \cup {n} /\ ms[n] = e
      /\ \A k \in DOMAIN ls : ms[k] = ls[k] /\ k \in Nat /\ k < n
      /\ n \in Nat /\ n \notin DOMAIN ls
  BY RowAppended
<1> HIDE DEF n
<1> DEFINE es == EntriesOf(ms, e.plan)
<1>2. n \in es /\ es \subseteq DOMAIN ms /\ \A k \in es : k \in Nat /\ k <= n
  BY <1>1 DEF EntriesOf
<1> HIDE DEF es
<1>3. Latest(es) \in es /\ n <= Latest(es) BY <1>1, <1>2, LatestTyped
<1>4. Latest(es) = n BY <1>1, <1>2, <1>3
<1>5. \A j : j # e.plan => EntriesOf(ms, j) = EntriesOf(ls, j)
  BY <1>1 DEF EntriesOf
<1>6. \A j : j # e.plan => \A k \in EntriesOf(ms, j) : ms[k] = ls[k]
  BY <1>1 DEF EntriesOf
<1>7. \A t : Past(ls, t) /\ e.time <= t => Past(ms, t) BY <1>1 DEF Past
<1> QED BY <1>1, <1>4, <1>5, <1>6, <1>7 DEF es

LEMMA EntryIsEnough ==
  ASSUME NEW ls \in Seq(LedgerRow), NEW e \in LedgerRow, NEW ms, ms = Append(ls, e),
         NEW qs, \A k \in Live(qs) : k = e.plan, NEW n, e.atRenewal >= n
  PROVE  Enough(qs, ms, n)
<1>1. ms[Latest(EntriesOf(ms, e.plan))] = e BY EntriesAppended
<1> SUFFICES ASSUME NEW k \in Live(qs) PROVE ms[Latest(EntriesOf(ms, k))].atRenewal >= n
  BY DEF Enough
<1>2. k = e.plan OBVIOUS
<1>3. ms[Latest(EntriesOf(ms, k))] = e BY ONLY <1>1, <1>2
<1> QED BY <1>3

LEMMA FewerHaveEnough ==
  ASSUME NEW ps, NEW qs, Live(qs) \subseteq Live(ps), NEW ls, NEW n, Enough(ps, ls, n)
  PROVE  Enough(qs, ls, n)
  BY DEF Enough

LEMMA AllByNow ==
  ASSUME NEW ls, NEW i, NEW n, Past(ls, n)
  PROVE  LatestBy(ls, i, n) = Latest(EntriesOf(ls, i))
<1>1. {e \in EntriesOf(ls, i) : ls[e].time <= n} = EntriesOf(ls, i)
  BY DEF Past, EntriesOf
<1> QED BY <1>1 DEF LatestBy

(* The plans that can be live after make_end_of_cycle_updates_if_needed. *)
LEMMA CycleLives ==
  ASSUME NEW ps, NEW ls, Sound(ps, ls), NEW i \in Live(ps), NEW n \in Nat, NEW c,
         Cycled(ps, ls, i, n, c)
  PROVE  /\ \A k \in Live(c.plans) : k = IF c.new # 0 THEN c.new ELSE i
         /\ \A k \in DOMAIN ps : Closed(ps[k]) => Closed(c.plans[k])
         /\ c.last = 0 /\ ~ Closed(ps[i]) => LatestBy(ls, i, n) = 0 \/ Live(c.plans) = {}
<1>1. ps \in Seq(Row) /\ ls \in Seq(LedgerRow) /\ Len(ps) \in Nat /\ Len(ls) \in Nat /\ i \in DOMAIN ps
  BY DEF Sound, TablesTyped, Live
<1>2. \A k \in Live(ps) : k = i BY DEF Sound, AtMostOneLive
<1>3. ASSUME NEW qs, EndsIn(ps, ls, i, qs)
      PROVE  /\ Live(qs) = {} /\ Len(qs) = Len(ps) /\ DOMAIN qs = DOMAIN ps /\ qs \in Seq(Row)
             /\ \A k \in DOMAIN ps : Closed(ps[k]) => Closed(qs[k])
  <2>1. PICK row : row.status = "ENDED" /\ Written(ps, i, row, qs)
    BY <1>3 DEF EndsIn
  <2>2. qs[i] = row /\ \A k \in DOMAIN ps : k # i => qs[k] = ps[k]
    BY <2>1 DEF Written
  <2>3. \A k \in DOMAIN ps : Closed(ps[k]) => Closed(qs[k])
    BY <2>1, <2>2 DEF Closed
  <2> QED BY <1>3, <2>3, EndsInFacts
<1>4. CASE Stays(ps, ls, i, n, c) BY <1>2, <1>4 DEF Stays, Closed
<1>5. CASE c.last = Len(ls) + 1 /\ GoesOn(ps, ls, i, n, c)
  BY <1>1, <1>2, <1>5 DEF GoesOn
<1>6. CASE c.last = Len(ls) + 1 /\ Starts(ps, ls, i, n, c)
  <2>1. PICK row \in Row : Written(ps, i, row, c.plans) BY <1>6 DEF Starts
  <2>2. /\ DOMAIN c.plans = DOMAIN ps /\ \A k \in DOMAIN ps : k # i => c.plans[k] = ps[k]
        /\ ps[i].status = "FREE_TRIAL" /\ c.new = 0
    BY <1>6, <2>1 DEF Written, Starts
  <2>3. \A k \in Live(c.plans) : k = i BY <1>2, <2>2 DEF Live
  <2>4. \A k \in DOMAIN ps : Closed(ps[k]) => Closed(c.plans[k])
    BY <2>2 DEF Closed
  <2> QED BY <1>1, <1>6, <2>2, <2>3, <2>4
<1>7. CASE c.last = Len(ls) + 1 /\ Switched(ps, ls, i, n, c)
  <2>1. PICK os \in Seq(Row), row \in Row : EndsIn(ps, ls, i, os) /\ c.plans = Append(os, row)
    BY <1>7 DEF Switched
  <2>2. /\ Live(os) = {} /\ Len(os) = Len(ps) /\ DOMAIN os = DOMAIN ps
        /\ \A k \in DOMAIN ps : Closed(ps[k]) => Closed(os[k])
    BY <1>3, <2>1
  <2>3. /\ DOMAIN c.plans = DOMAIN os \cup {Len(os) + 1}
        /\ \A k \in DOMAIN os : c.plans[k] = os[k]
    BY <2>1, RowAppended
  <2>4. c.new = Len(ps) + 1 /\ c.new # 0 BY <1>1, <1>7 DEF Switched
  <2>5. \A k \in Live(c.plans) : k = c.new BY <2>2, <2>3, <2>4 DEF Live
  <2>6. \A k \in DOMAIN ps : Closed(ps[k]) => Closed(c.plans[k])
    BY <2>2, <2>3
  <2> QED BY <1>1, <1>7, <2>4, <2>5, <2>6
<1>8. CASE Ends(ps, ls, i, c)
  <2>1. EndsIn(ps, ls, i, c.plans) BY <1>8 DEF Ends
  <2> QED BY <1>3, <2>1
<1> QED BY <1>4, <1>5, <1>6, <1>7, <1>8 DEF Cycled

(* make_end_of_cycle_updates_if_needed, called as of now, renews for the *)
(* licenses of the last entry. *)
LEMMA CycleKeepsEnough ==
  ASSUME NEW ps, NEW ls, Sound(ps, ls), NEW i \in DOMAIN ps, NEW n \in Nat, Past(ls, n),
         NEW c, Cycled(ps, ls, i, n, c)
  PROVE  /\ Past(c.ledger, n)
         /\ \A k : Enough(ps, ls, k) => Enough(c.plans, c.ledger, k)
<1>1. ls \in Seq(LedgerRow) BY DEF Sound, TablesTyped
<1>2. CASE c.plans = ps /\ c.ledger = ls BY <1>2
<1>3. CASE Ends(ps, ls, i, c)
  <2>1. c.ledger = ls /\ (i \in Live(ps) => Live(c.plans) = {})
    BY <1>3, EndsInFacts DEF Ends
  <2>2. i \in Live(ps)
    BY <1>3 DEF Ends, Downgrades, Live, LiveStatuses, Trials
  <2> QED BY <2>1, <2>2 DEF Enough
<1>4. CASE /\ i \in Live(ps) /\ CycleOf(ps, ls, i) <= n
           /\ \E e : /\ RenewedAt(ps, ls, i, n, e) /\ c.ledger = Append(ls, e)
                     /\ e.plan = IF c.new # 0 THEN c.new ELSE i
  <2>1. PICK e : /\ RenewedAt(ps, ls, i, n, e) /\ c.ledger = Append(ls, e)
                 /\ e.plan = IF c.new # 0 THEN c.new ELSE i
    BY <1>4
  <2>2. /\ e \in LedgerRow /\ e.time <= n
        /\ e.atRenewal = ls[Latest(EntriesOf(ls, i))].atRenewal
    BY <1>4, <2>1, AllByNow DEF RenewedAt
  <2>3. \A k \in Live(c.plans) : k = e.plan BY <1>4, <2>1, CycleLives
  <2>4. Past(c.ledger, n) BY <1>1, <2>1, <2>2, EntriesAppended
  <2>5. ASSUME NEW k, Enough(ps, ls, k) PROVE Enough(c.plans, c.ledger, k)
    <3>1. e.atRenewal >= k BY <1>4, <2>2, <2>5 DEF Enough
    <3> QED BY <1>1, <2>1, <2>2, <2>3, <3>1, EntryIsEnough
  <2> QED BY <2>4, <2>5
<1>5. Stays(ps, ls, i, n, c) => c.plans = ps /\ c.ledger = ls BY DEF Stays
<1>6. GoesOn(ps, ls, i, n, c) =>
        \E e : /\ RenewedAt(ps, ls, i, n, e) /\ c.ledger = Append(ls, e)
               /\ e.plan = IF c.new # 0 THEN c.new ELSE i
  BY DEF GoesOn
<1>7. Starts(ps, ls, i, n, c) =>
        \E e : /\ RenewedAt(ps, ls, i, n, e) /\ c.ledger = Append(ls, e)
               /\ e.plan = IF c.new # 0 THEN c.new ELSE i
  BY DEF Starts
<1>8. Switched(ps, ls, i, n, c) =>
        \E e : /\ RenewedAt(ps, ls, i, n, e) /\ c.ledger = Append(ls, e)
               /\ e.plan = IF c.new # 0 THEN c.new ELSE i
  <2>1. Len(ps) \in Nat BY DEF Sound, TablesTyped
  <2> QED BY <2>1 DEF Switched
<1> QED BY <1>2, <1>3, <1>4, <1>5, <1>6, <1>7, <1>8 DEF Cycled

LEMMA CycleStaysNear ==
  ASSUME NEW ps, NEW ls, Sound(ps, ls), NEW i \in DOMAIN ps, NEW n \in Nat, OnTime(ps, ls, n),
         NEW c, Cycled(ps, ls, i, n, c), Sound(c.plans, c.ledger)
  PROVE  StaysNear(ps, ls, c.plans, c.ledger)
<1>1. CASE c.plans = ps /\ c.ledger = ls BY <1>1, SameIsNear
<1>2. CASE ~ (c.plans = ps /\ c.ledger = ls)
  <2>1. AllNear(c.plans, c.ledger) BY <1>2, CycleKeepsOnTime
  <2>2. i \in Live(ps) BY <1>2 DEF Cycled, Stays
  <2>3. \A k \in DOMAIN ps : Closed(ps[k]) => Closed(c.plans[k])
    BY <2>2, CycleLives
  <2> QED BY <2>1, <2>3 DEF StaysNear, AllNear
<1> QED BY <1>1, <1>2

(* What stays as it is when a regular plan is looked at is not due. *)
LEMMA StaysUntilDue ==
  ASSUME NEW ps, NEW ls, Sound(ps, ls), NEW i \in Regular(ps), NEW t \in Int,
         NEW c, c = make_end_of_cycle_updates_if_needed(Reading(i, ps[i], t, ls), ps, ls),
         c.plans = ps, c.ledger = ls
  PROVE  t < CycleOf(ps, ls, i)
<1> DEFINE p == ps[i]
           cycle == get_next_billing_cycle(i, p, ls)
           es == {e \in EntriesOf(ls, i) : ls[e].time <= t}
           last == Latest(es)
           licenses == ls[last].atRenewal
           due == cycle <= t /\ last # 0
           New(k) == Entry(k, TRUE, cycle, licenses, licenses)
<1> SUFFICES ASSUME cycle <= t PROVE FALSE
  <2>1. cycle = CycleOf(ps, ls, i) /\ cycle \in Nat
    BY TimesTyped DEF CycleOf, Regular
  <2> HIDE DEF cycle
  <2> QED BY <2>1
<1>1. /\ ps \in Seq(Row) /\ ls \in Seq(LedgerRow) /\ Len(ps) \in Nat /\ Len(ls) \in Nat
      /\ i \in DOMAIN ps /\ p \in Row /\ i \in Live(ps) /\ p.status \notin Trials
      /\ p.status # "SWITCH_PLAN_TIER_NOW"
  BY DEF Sound, TablesTyped, Regular, Live
<1>2. last # 0
  <2> DEFINE k == LastRenewal(ls, i)
  <2>1. ls[k].time \in Nat /\ ls[k].time < cycle /\ cycle \in Nat
    BY <1>1, RegularCycle, TimesTyped DEF CycleOf
  <2>2. k \in EntriesOf(ls, i)
    <3> DEFINE rs == RenewalsOf(ls, i)
    <3>1. rs # {} /\ rs \subseteq EntriesOf(ls, i) /\ rs \subseteq DOMAIN ls
      BY <1>1 DEF RenewalsOf, EntriesOf, Sound, EachRenewed
    <3> HIDE DEF rs
    <3>2. Latest(rs) \in rs BY <1>1, <3>1, LatestTyped
    <3> QED BY <3>1, <3>2 DEF LastRenewal, rs
  <2>3. k \in es
    <3> HIDE DEF cycle
    <3>1. ls[k].time <= t BY <2>1
    <3> QED BY <2>2, <3>1
  <2>4. es # {} /\ es \subseteq DOMAIN ls BY <2>3 DEF EntriesOf
  <2> HIDE DEF es
  <2> QED BY <1>1, <2>4, LatestTyped
<1>3. due BY <1>2
<1>4. \A x : Append(ls, x) # ls BY <1>1
<1>5. Ended(ps, i) # ps
  <2>1. Ended(ps, i)[i].status = "ENDED" BY <1>1 DEF Ended, Row
  <2>2. ps[i].status # "ENDED"
    BY <1>1 DEF Live, LiveStatuses, Trials, Switches
  <2> QED BY <2>1, <2>2
<1> HIDE DEF New, due, cycle, last
<1>6. CASE Renews(p.status)
  <2>1. c.ledger = Append(ls, New(i))
    BY <1>3, <1>6 DEF make_end_of_cycle_updates_if_needed, Reading, New, due, cycle, last, Renews, Switches
  <2> QED BY <1>4, <2>1
<1>7. CASE p.status \in Switches
  <2>1. p.status # "FREE_TRIAL" /\ ~Renews(p.status)
    BY <1>7 DEF Renews, Switches
  <2>2. c.ledger = Append(ls, New(Len(ps) + 1))
    BY <1>3, <1>7, <2>1 DEF make_end_of_cycle_updates_if_needed, Reading, New, due, cycle, last, Switches
  <2> QED BY <1>4, <2>2
<1>8. CASE p.status = "DOWNGRADE_AT_END_OF_CYCLE"
  <2>1. c.plans = Ended(ps, i)
    BY <1>3, <1>8 DEF make_end_of_cycle_updates_if_needed, Reading, due, cycle, last, Renews, Switches
  <2> QED BY <1>5, <2>1
<1>9. Renews(p.status) \/ p.status \in Switches \/ p.status = "DOWNGRADE_AT_END_OF_CYCLE"
  BY <1>1 DEF Live, LiveStatuses, Renews
<1> QED BY <1>6, <1>7, <1>8, <1>9

LEMMA MinOfTwo ==
  ASSUME NEW a \in Int, NEW b \in Int
  PROVE  Min({a, b}) = IF a <= b THEN a ELSE b
<1>1. \E x \in {a, b} : \A y \in {a, b} : x <= y OBVIOUS
<1>2. Min({a, b}) \in {a, b} /\ \A y \in {a, b} : Min({a, b}) <= y
  BY <1>1 DEF Min
<1> QED BY <1>2

LEMMA StillReady ==
  ASSUME NEW ps, NEW ls, NEW qs, NEW ms, NEW t, NEW ids, NEW js, NEW tier \in BOOLEAN,
         StaysNear(ps, ls, qs, ms), AllReady(ids, tier, ps, ls, t),
         js \subseteq ids, ids \subseteq DOMAIN ps
  PROVE  AllReady(js, tier, qs, ms, t)
<1>1. ASSUME NEW i \in Regular(qs), tier \/ i \in js PROVE Ready(qs, ms, i, t)
  <2>1. CASE Near(qs, ms, i) BY <2>1 DEF Ready
  <2>2. CASE ~ Near(qs, ms, i)
    <3>1. i \in Regular(ps) /\ qs[i].next = ps[i].next /\ ~ Near(ps, ls, i)
      BY <2>2 DEF StaysNear
    <3>2. Ready(ps, ls, i, t) BY <1>1, <3>1 DEF AllReady
    <3> QED BY <3>1, <3>2 DEF Ready
  <2> QED BY <2>1, <2>2
<1>2. tier => \A i \in js : Closed(qs[i]) BY DEF StaysNear, AllReady
<1> QED BY <1>1, <1>2 DEF AllReady

LEMMA AwaitedPlans ==
  ASSUME Uncrossed PROVE Awaited \subseteq DOMAIN plans
  BY DEF Uncrossed, JobSound, Awaited

(* A step of the job that goes on with the copies it has. *)
LEMMA JobStaysReady ==
  ASSUME Uncrossed, JobReady, job.step # "idle", UNCHANGED now,
         StaysNear(plans, ledger, plans', ledger'),
         Awaited' \subseteq Awaited, \A c, d \in job'.copies : c.id = d.id => c = d,
         "tier" \in DOMAIN job', job'.tier = job.tier, job'.until = job.until,
         job'.step \in Charging /\ First'.id \in Regular(plans') =>
           Near(plans', ledger', First'.id)
  PROVE  JobReady'
<1>1. AllReady(Awaited', job.tier, plans', ledger', now)
  <2> DEFINE js == Awaited'
             tier == job.tier
  <2>1. AllReady(Awaited, tier, plans, ledger, now) /\ tier \in BOOLEAN /\ js \subseteq Awaited
    BY DEF JobReady
  <2> HIDE DEF js, tier
  <2>2. AllReady(js, tier, plans', ledger', now)
    BY <2>1, AwaitedPlans, StillReady
  <2> QED BY <2>2 DEF js, tier
<1> QED BY <1>1 DEF JobReady

(* Steps of others than the job. *)
LEMMA OthersKeepReady ==
  ASSUME Uncrossed, JobReady, UNCHANGED <<job, now>>, StaysNear(plans, ledger, plans', ledger')
  PROVE  JobReady'
<1>1. CASE job.step = "idle" BY <1>1 DEF JobReady
<1>2. CASE job.step # "idle"
  <2>1. First' = First /\ Awaited' = Awaited BY DEF First, Awaited
  <2>2. \A c, d \in job'.copies : c.id = d.id => c = d BY <1>2 DEF JobReady
  <2>3. job'.step \in Charging /\ First'.id \in Regular(plans') => Near(plans', ledger', First'.id)
    BY <1>2, <2>1 DEF JobReady, StaysNear
  <2>4. "tier" \in DOMAIN job' /\ job'.tier = job.tier /\ job'.until = job.until
    BY DEF JobReady
  <2> QED BY <1>2, <2>1, <2>2, <2>3, <2>4, JobStaysReady
<1> QED BY <1>1, <1>2

LEMMA OthersKeepLicenses ==
  ASSUME Uncrossed, Licensed, UNCHANGED <<job, now>>, StaysNear(plans, ledger, plans', ledger'),
         OnTime(plans', ledger', now), Past(ledger', now),
         Short' \/ Enough(plans', ledger', users'), ReadsNow'
  PROVE  Licensed'
  BY OthersKeepReady DEF Licensed

(* Steps that write no plan and no entry. *)
LEMMA QuietLicenses ==
  ASSUME Licensed, UNCHANGED <<plans, ledger, users, marks, now>>, ReadsNow', JobReady'
  PROVE  Licensed'
  BY DEF Licensed, Short, Marked

LEMMA ReadsStayNow ==
  ASSUME Uncrossed, ReadsNow, UNCHANGED now, NEW t \in Transactions, NEW x,
         tx' = [tx EXCEPT ![t] = x], x.kind # "request",
         x.kind = "user" /\ x.plan # 0 => x.reading.time = now
  PROVE  ReadsNow'
<1>1. DOMAIN tx = Transactions BY DEF Uncrossed, TxSound
<1>2. tx'[t] = x /\ \A s \in Transactions : s # t => tx'[s] = tx[s] BY <1>1
<1> QED BY <1>2 DEF ReadsNow

LEMMA ShortStays ==
  ASSUME Short, marks \subseteq marks', DOMAIN plans \subseteq DOMAIN plans'
  PROVE  Short'
  BY DEF Short, Marked

(* make_end_of_cycle_updates_if_needed, called as of now. *)
LEMMA CycleKeepsLicenses ==
  ASSUME NEW ps, NEW ls, Sound(ps, ls), NEW i \in DOMAIN ps, NEW n \in Nat, OnTime(ps, ls, n), Past(ls, n),
         NEW c, c = make_end_of_cycle_updates_if_needed(Reading(i, ps[i], n, ls), ps, ls)
  PROVE  /\ Sound(c.plans, c.ledger) /\ DOMAIN ps \subseteq DOMAIN c.plans
         /\ Cycled(ps, ls, i, n, c)
         /\ OnTime(c.plans, c.ledger, n) /\ Past(c.ledger, n)
         /\ StaysNear(ps, ls, c.plans, c.ledger)
         /\ \A k : Enough(ps, ls, k) => Enough(c.plans, c.ledger, k)
<1>1. n \in Int OBVIOUS
<1>2. Cycled(ps, ls, i, n, c) BY <1>1, CycleWrites
<1>3. Sound(c.plans, c.ledger) /\ DOMAIN ps \subseteq DOMAIN c.plans
  BY <1>1, CycleKeepsSound
<1>4. OnTime(c.plans, c.ledger, n) BY <1>2, <1>3, CycleKeepsOnTime
<1>5. Past(c.ledger, n) /\ \A k : Enough(ps, ls, k) => Enough(c.plans, c.ledger, k)
  BY <1>2, CycleKeepsEnough
<1>6. StaysNear(ps, ls, c.plans, c.ledger) BY <1>2, <1>3, CycleStaysNear
<1> QED BY <1>2, <1>3, <1>4, <1>5, <1>6

LEMMA BeginUserChangeLicenses ==
  ASSUME Uncrossed, Licensed, NEW t \in Transactions, NEW delta \in {-1, 1},
         BeginUserChange(t, delta)
  PROVE  Licensed'
<1> DEFINE i == get_current_plan(plans)
           reading == IF i = 0 THEN 0 ELSE Reading(i, plans[i], now, ledger)
           x == [kind |-> "user", delta |-> delta, count |-> users + delta, plan |-> i,
                 reading |-> reading]
<1>1. tx' = [tx EXCEPT ![t] = x] /\ UNCHANGED <<plans, ledger, users, marks, now, job>>
  BY DEF BeginUserChange, tables, clock
<1>2. (x.plan # 0 => x.reading.time = now) /\ x.kind # "request"
  BY DEF Reading
<1> HIDE DEF x
<1>3. ReadsNow' BY <1>1, <1>2, ReadsStayNow DEF Licensed
<1>4. JobReady'
  <2>1. StaysNear(plans, ledger, plans', ledger') BY <1>1, SameIsNear
  <2> QED BY <1>1, <2>1, OthersKeepReady DEF Licensed
<1> QED BY <1>1, <1>3, <1>4, QuietLicenses

LEMMA BeginUpgradeLicenses ==
  ASSUME Uncrossed, Licensed, NEW t \in Transactions, NEW licenses, NEW schedule,
         BeginUpgrade(t, licenses, schedule)
  PROVE  Licensed'
<1> DEFINE x == [kind |-> "upgrade", licenses |-> licenses, schedule |-> schedule,
                 trial |-> trial_days > 0 /\ plans = <<>>]
<1>1. tx' = [tx EXCEPT ![t] = x] /\ UNCHANGED <<plans, ledger, users, marks, now, job>>
  BY DEF BeginUpgrade, tables, clock
<1>2. x.kind \notin {"user", "request"} OBVIOUS
<1> HIDE DEF x
<1>3. ReadsNow' BY <1>1, <1>2, ReadsStayNow DEF Licensed
<1>4. JobReady'
  <2>1. StaysNear(plans, ledger, plans', ledger') BY <1>1, SameIsNear
  <2> QED BY <1>1, <2>1, OthersKeepReady DEF Licensed
<1> QED BY <1>1, <1>3, <1>4, QuietLicenses

(* The entry of a user transaction ends up in the plan that goes on, which *)
(* is renewed for the users it counted. *)
LEMMA CommitUserChangeLicenses ==
  ASSUME Uncrossed, Licensed, ~crossed', crossed \in BOOLEAN, NEW t \in Transactions,
         CommitUserChange(t)
  PROVE  Licensed'
<1> DEFINE x == tx[t]
           i == get_current_plan(plans)
           c == make_end_of_cycle_updates_if_needed(x.reading, plans, ledger)
<1>1. /\ x.kind = "user" /\ UNCHANGED <<job, marks, now>> /\ tx' = [tx EXCEPT ![t] = Free]
      /\ users' = users + x.delta
  BY DEF CommitUserChange, clock
<1>2. /\ i = x.plan /\ users' = x.count
      /\ i # 0 => /\ Reading(i, plans[i], x.reading.time, ledger) = x.reading
                  /\ plans[i].status # "SWITCH_PLAN_TIER_NOW"
  BY DEF CommitUserChange
<1>3. UserTyped(x) BY <1>1 DEF Uncrossed, TxSound
<1>4. ReadsNow'
  <2>1. Free.kind \notin {"user", "request"} BY DEF Free
  <2> QED BY <1>1, <2>1, ReadsStayNow DEF Licensed
<1>5. Sound(plans, ledger) /\ now \in Nat /\ OnTime(plans, ledger, now) /\ Past(ledger, now)
  BY DEF Uncrossed, Licensed
<1>6. CASE x.plan = 0
  <2>1. UNCHANGED <<plans, ledger>> BY <1>6 DEF CommitUserChange, tables
  <2>2. Live(plans) = {} BY <1>2, <1>5, <1>6, CurrentPlan
  <2>3. Enough(plans', ledger', users') /\ StaysNear(plans, ledger, plans', ledger')
    BY <2>1, <2>2, SameIsNear DEF Enough
  <2> QED BY <1>1, <1>4, <1>5, <2>1, <2>3, OthersKeepLicenses
<1>7. CASE x.plan # 0
  <2>1. /\ i \in Live(plans) /\ i \in DOMAIN plans /\ x.reading.time = now
        /\ x.reading = Reading(i, plans[i], now, ledger)
    BY <1>1, <1>2, <1>5, <1>7, CurrentPlan DEF Licensed, ReadsNow
  <2>2. c = make_end_of_cycle_updates_if_needed(Reading(i, plans[i], now, ledger), plans, ledger)
    BY <2>1
  <2> HIDE DEF i
  <2>3. /\ Sound(c.plans, c.ledger) /\ DOMAIN plans \subseteq DOMAIN c.plans
        /\ Cycled(plans, ledger, i, now, c)
        /\ OnTime(c.plans, c.ledger, now) /\ Past(c.ledger, now)
        /\ StaysNear(plans, ledger, c.plans, c.ledger)
        /\ \A k \in Live(c.plans) : k = IF c.new # 0 THEN c.new ELSE i
        /\ c.last = 0 /\ ~ Closed(plans[i]) => LatestBy(ledger, i, now) = 0 \/ Live(c.plans) = {}
        /\ c.last \in Nat /\ (c.last # 0 => c.last \in DOMAIN c.ledger) /\ c.new \in Nat
    <3> HIDE DEF c
    <3>1. now \in Int BY <1>5
    <3>2. /\ Sound(c.plans, c.ledger) /\ DOMAIN plans \subseteq DOMAIN c.plans
          /\ Cycled(plans, ledger, i, now, c)
          /\ OnTime(c.plans, c.ledger, now) /\ Past(c.ledger, now)
          /\ StaysNear(plans, ledger, c.plans, c.ledger)
      BY <1>5, <2>1, <2>2, CycleKeepsLicenses
    <3>3. c.last \in Nat /\ (c.last # 0 => c.last \in DOMAIN c.ledger) /\ c.new \in Nat
      BY <1>5, <2>1, <2>2, <3>1, CycleKeepsSound
    <3>4. /\ \A k \in Live(c.plans) : k = IF c.new # 0 THEN c.new ELSE i
          /\ c.last = 0 /\ ~ Closed(plans[i]) => LatestBy(ledger, i, now) = 0 \/ Live(c.plans) = {}
      BY <1>5, <2>1, <3>2, CycleLives
    <3> QED BY <3>2, <3>3, <3>4
  <2> DEFINE licenses == Max({x.count, c.ledger[c.last].licenses})
             e == Entry(IF c.new # 0 THEN c.new ELSE x.reading.id, FALSE, x.reading.time,
                        licenses, x.count)
  <2>4. plans' = c.plans /\ ledger' = IF c.last = 0 THEN c.ledger ELSE Append(c.ledger, e)
    BY <1>7 DEF CommitUserChange, update_license_ledger_for_automanaged_plan
  <2>5. /\ StaysNear(plans, ledger, plans', ledger') /\ OnTime(plans', ledger', now)
        /\ Past(ledger', now) /\ Enough(plans', ledger', users')
    <3>1. CASE c.last = 0
      <4> HIDE DEF c
      <4>1. ~ Closed(plans[i])
        <5>1. plans[i].status \in LiveStatuses BY <2>1 DEF Live
        <5>2. "ENDED" \notin LiveStatuses
          BY DEF LiveStatuses, Trials, Switches
        <5> QED BY <1>2, <1>7, <5>1, <5>2 DEF Closed, i
      <4>2. LatestBy(ledger, i, now) # 0
        <5> DEFINE l == Latest(EntriesOf(ledger, i))
        <5>1. LatestBy(ledger, i, now) = l BY <1>5, AllByNow
        <5>2. l \in EntriesOf(ledger, i) BY <1>5, <2>1, LatestOfPlan
        <5> HIDE DEF l
        <5>3. l \in DOMAIN ledger /\ ledger \in Seq(LedgerRow)
          BY <1>5, <5>2 DEF EntriesOf, Sound, TablesTyped
        <5> QED BY <5>1, <5>3
      <4>3. Live(c.plans) = {} BY <2>3, <3>1, <4>1, <4>2
      <4> QED BY <2>3, <2>4, <3>1, <4>3 DEF Enough
    <3>2. CASE c.last # 0
      <4>1. x.reading.id = i /\ i \in Nat
        BY <1>5, <2>1 DEF Reading, Sound, TablesTyped
      <4> HIDE DEF c
      <4>2. licenses \in Int
        <5>1. c.ledger[c.last] \in LedgerRow
          BY <2>3, <3>2 DEF Sound, TablesTyped
        <5> QED BY <1>3, <5>1, MaxOfTwo DEF LedgerRow, UserTyped
      <4>3. /\ e \in LedgerRow /\ ~e.renewal /\ e.time = now /\ e.atRenewal = users'
            /\ e.plan = (IF c.new # 0 THEN c.new ELSE i) /\ e.atRenewal \in Int
        <5> HIDE DEF licenses
        <5> QED BY <1>2, <1>3, <1>5, <2>1, <2>3, <4>1, <4>2 DEF Entry, LedgerRow, UserTyped
      <4> HIDE DEF e
      <4> DEFINE qs == c.plans
                 ks == c.ledger
                 ms == Append(ks, e)
      <4>4. Sound(qs, ks) /\ OnTime(qs, ks, now) /\ Past(ks, now) /\ ks \in Seq(LedgerRow)
        BY <2>3 DEF Sound, TablesTyped
      <4>5. (\A k \in Live(qs) : k = e.plan) /\ e.atRenewal >= users'
        BY <2>3, <4>3
      <4>6. /\ plans' = qs /\ ledger' = ms
            /\ StaysNear(plans, ledger, qs, ks) /\ DOMAIN plans \subseteq DOMAIN qs
        BY <2>3, <2>4, <3>2
      <4> HIDE DEF qs, ks
      <4>7. OnTime(qs, ms, now) /\ StaysNear(qs, ks, qs, ms)
        BY <4>3, <4>4, EntryKeepsOnTime
      <4>8. Past(ms, now)
        <5>1. e.time <= now /\ e \in LedgerRow /\ Past(ks, now) /\ ks \in Seq(LedgerRow) /\ ms = Append(ks, e)
          BY <1>5, <4>3, <4>4
        <5> HIDE DEF ms
        <5> QED BY ONLY <5>1, EntriesAppended
      <4>9. Enough(qs, ms, users') BY <4>3, <4>4, <4>5, EntryIsEnough
      <4> HIDE DEF ms
      <4>10. StaysNear(plans, ledger, qs, ms) BY <4>6, <4>7, StaysNearTwice
      <4> QED BY <4>6, <4>7, <4>8, <4>9, <4>10
    <3> QED BY <3>1, <3>2
  <2> QED BY <1>1, <1>4, <2>5, OthersKeepLicenses
<1> QED BY <1>6, <1>7

LEMMA DowngradeNowLicenses ==
  ASSUME Uncrossed, Licensed, Sound(plans', ledger'), downgrade_now
  PROVE  Licensed'
<1> DEFINE i == get_current_plan(plans)
           row == DowngradedNow(plans[i], i, ledger)
<1>1. /\ plans' = [plans EXCEPT ![i] = row] /\ UNCHANGED <<ledger, job, now, tx, users>>
      /\ i \in DOMAIN plans /\ marks \subseteq marks'
  BY CurrentPlan DEF downgrade_now, Uncrossed, clock
<1>2. row \in Row /\ row.status = "ENDED" /\ plans \in Seq(Row)
  BY <1>1, DowngradedTyped DEF Uncrossed, Sound, TablesTyped
<1> HIDE DEF i, row
<1>3. KeepsTerms(plans[i], row)
  BY <1>2 DEF KeepsTerms, KeepsDates, Closed, LiveStatuses, Trials, Switches
<1>4. Written(plans, i, row, plans') BY <1>1, <1>2, ExceptWrites
<1>5. OnTime(plans', ledger', now) /\ StaysNear(plans, ledger, plans', ledger')
  BY <1>1, <1>2, <1>3, <1>4, WriteKeepsOnTime DEF Uncrossed, Licensed
<1>6. Live(plans') \subseteq Live(plans) /\ DOMAIN plans' = DOMAIN plans
  BY <1>2, <1>4 DEF Written, Live, LiveStatuses, Trials, Switches
<1>7. Short' \/ Enough(plans', ledger', users')
  BY <1>1, <1>6, ShortStays, FewerHaveEnough DEF Licensed
<1>8. Past(ledger', now) /\ ReadsNow' BY <1>1 DEF Licensed, ReadsNow
<1> QED BY <1>1, <1>5, <1>7, <1>8, OthersKeepLicenses

LEMMA TierChangeLicenses ==
  ASSUME Uncrossed, Licensed, Sound(plans', ledger'), do_change_plan_to_new_tier
  PROVE  Licensed'
<1> DEFINE i == get_current_plan(plans)
           row == [plans[i] EXCEPT !.status = "SWITCH_PLAN_TIER_NOW", !.next = now]
<1>1. /\ plans' = [plans EXCEPT ![i].status = "SWITCH_PLAN_TIER_NOW", ![i].next = now]
      /\ UNCHANGED <<ledger, marks, now, tx, users>> /\ i # 0
  BY DEF do_change_plan_to_new_tier, clock
<1>2. i \in DOMAIN plans /\ i \in Live(plans)
  BY <1>1, CurrentPlan DEF Uncrossed
<1>3. job' = [NoJob EXCEPT !.step = "switch", !.copies = {Copy(i, plans')}, !.until = now, !.tier = TRUE]
  BY DEF do_change_plan_to_new_tier
<1> HIDE DEF i
<1>4. plans \in Seq(Row) /\ plans[i] \in Row /\ now \in Nat
  BY <1>2 DEF Uncrossed, Sound, TablesTyped
<1>5. plans' = [plans EXCEPT ![i] = row] BY <1>1, <1>4
<1>6. row \in Row /\ row.status = "SWITCH_PLAN_TIER_NOW"
  BY <1>4 DEF Row, LiveStatuses
<1> HIDE DEF row
<1>7. KeepsTerms(plans[i], row)
  BY <1>6 DEF KeepsTerms, KeepsDates, Closed, Trials
<1>8. Written(plans, i, row, plans') BY <1>2, <1>4, <1>5, <1>6, ExceptWrites
<1>9. OnTime(plans', ledger', now)
  BY <1>1, <1>2, <1>6, <1>7, <1>8, WriteKeepsOnTime DEF Uncrossed, Licensed
<1>10. /\ Live(plans') \subseteq Live(plans) /\ DOMAIN plans' = DOMAIN plans
       /\ plans'[i] = row /\ \A k \in Live(plans') : k = i
  BY <1>2, <1>8 DEF Written, Live, Uncrossed, Sound, AtMostOneLive
<1>11. Short' \/ Enough(plans', ledger', users')
  <2>1. Short => Short' BY <1>1, <1>10, ShortStays
  <2>2. Enough(plans, ledger, users) => Enough(plans', ledger', users')
    <3>1. ledger' = ledger /\ users' = users /\ Live(plans') \subseteq Live(plans)
      BY <1>1, <1>10
    <3> QED BY ONLY <3>1, FewerHaveEnough
  <2> QED BY <2>1, <2>2 DEF Licensed
<1>12. JobReady'
  <2>1. /\ job'.step = "switch" /\ job'.copies = {Copy(i, plans')} /\ job'.until = now /\ job'.tier = TRUE
        /\ "tier" \in DOMAIN job'
    BY <1>3 DEF NoJob
  <2>2. Awaited' = {i} /\ \A c, d \in job'.copies : c.id = d.id => c = d
    BY <2>1 DEF Awaited, Copy
  <2>3. Regular(plans') = {} BY <1>6, <1>10 DEF Regular
  <2>4. AllReady({i}, TRUE, plans', ledger', now)
    BY <1>6, <1>10, <2>3 DEF AllReady, Closed
  <2>5. AllReady(Awaited', job'.tier, plans', ledger', now')
    BY <1>1, <2>1, <2>2, <2>4
  <2> QED BY <1>1, <2>1, <2>2, <2>5 DEF JobReady, Charging
<1> QED BY <1>1, <1>9, <1>11, <1>12 DEF Licensed, ReadsNow

LEMMA PlanBegins ==
  ASSUME NEW os \in Seq(Row), Live(os) = {}, NEW row \in Row, NEW ls \in Seq(LedgerRow), NEW n \in Nat,
         Past(ls, n), NEW e \in LedgerRow, e.plan = Len(os) + 1, Begins(row, e, n),
         Sound(Append(os, row), Append(ls, e))
  PROVE  LET qs == Append(os, row)
             ms == Append(ls, e)
         IN  /\ OnTime(qs, ms, n) /\ AllNear(qs, ms) /\ Past(ms, n)
             /\ DOMAIN qs = DOMAIN os \cup {e.plan} /\ \A k \in DOMAIN os : qs[k] = os[k]
             /\ \A m \in Int : e.atRenewal >= m => Enough(qs, ms, m)
<1> DEFINE qs == Append(os, row)
           ms == Append(ls, e)
<1>a. qs = Append(os, row) /\ ms = Append(ls, e) /\ Sound(qs, ms)
  OBVIOUS
<1> SUFFICES /\ OnTime(qs, ms, n) /\ AllNear(qs, ms) /\ Past(ms, n)
             /\ DOMAIN qs = DOMAIN os \cup {e.plan} /\ \A k \in DOMAIN os : qs[k] = os[k]
             /\ \A m \in Int : e.atRenewal >= m => Enough(qs, ms, m)
  OBVIOUS
<1> HIDE DEF qs, ms
<1> USE <1>a
<1> USE DEF Begins
<1> DEFINE k == Len(os) + 1
<1>1. /\ DOMAIN qs = DOMAIN os \cup {k} /\ qs[k] = row /\ k = e.plan
      /\ \A j \in DOMAIN os : qs[j] = os[j]
  BY RowAppended
<1> HIDE DEF k
<1>2. \A j \in Live(qs) : j = k BY <1>1 DEF Live
<1>3. k \in Live(qs) /\ k \in DOMAIN qs
  BY <1>1 DEF Live, LiveStatuses, Trials
<1>4. Past(ms, n)
  <2>1. ls \in Seq(LedgerRow) /\ e \in LedgerRow /\ ms = Append(ls, e) /\ Past(ls, n) /\ e.time <= n
    OBVIOUS
  <2> QED BY ONLY <2>1, EntriesAppended
<1>5. ASSUME NEW m \in Int, e.atRenewal >= m PROVE Enough(qs, ms, m)
  BY <1>1, <1>2, <1>5, EntryIsEnough
<1>6. CASE row.status = "FREE_TRIAL" /\ n <= row.next
  <2>1. Regular(qs) = {} BY <1>1, <1>2, <1>6 DEF Regular, Trials
  <2>2. qs[k].next >= n
    <3>1. row.next \in Int BY DEF Row, None
    <3> QED BY <1>1, <1>6, <3>1
  <2>3. OnTime(qs, ms, n) /\ AllNear(qs, ms)
    BY <1>2, <2>1, <2>2 DEF OnTime, AllNear
  <2> QED BY <1>1, <1>4, <1>5, <2>3
<1>7. CASE /\ row.status = "ACTIVE" /\ row.anchor = n /\ e.time = n
           /\ n <= row.next /\ row.next <= n + 2 * Month
  <2>1. qs[k].status \notin Trials /\ qs[k].anchor = e.time /\ qs[k] = row
    BY <1>1, <1>7 DEF Trials
  <2>2. CycleOf(qs, ms, k) = e.time + Term(qs[k])
    <3>1. ls \in Seq(LedgerRow) /\ e \in LedgerRow /\ e.renewal /\ ms = Append(ls, e) /\ Sound(qs, ms)
      OBVIOUS
    <3>2. k \in Live(qs) /\ k = e.plan /\ qs[k].status \notin Trials /\ qs[k].anchor = e.time
      BY <1>1, <1>3, <2>1
    <3> QED BY ONLY <3>1, <3>2, CycleBegins
  <2>3. /\ Term(row) \in Nat \ {0} /\ Month <= Term(row) /\ Slack(row) \in {0, Month}
        /\ row.schedule = "annual" => 2 * Month <= Term(row) /\ Slack(row) = 0
        /\ row.schedule # "annual" => Term(row) = Month /\ Slack(row) = Month
        /\ Month \in Nat \ {0}
    BY TermFacts
  <2>4. row.next <= n + Term(row) + Slack(row) /\ n <= row.next /\ row.next \in Int
    <3>1. row.next \in Int BY DEF Row, None
    <3> QED BY <1>7, <2>3, <3>1
  <2>5. CycleOf(qs, ms, k) = n + Term(row) BY <1>7, <2>1, <2>2
  <2>6. Near(qs, ms, k) /\ qs[k].next >= n BY <2>1, <2>4, <2>5 DEF Near
  <2>7. OnTime(qs, ms, n) /\ AllNear(qs, ms)
    BY <1>2, <1>3, <1>7, <2>1, <2>6, RenewedIsOnTime
  <2> QED BY <1>1, <1>4, <1>5, <2>7
<1> QED BY <1>6, <1>7

(* Where every plan is near, and no row that is closed was opened. *)
LEMMA NewIsNear ==
  ASSUME NEW ps, NEW ls, NEW qs, NEW ms, AllNear(qs, ms),
         \A i \in DOMAIN ps : Closed(ps[i]) => Closed(qs[i])
  PROVE  StaysNear(ps, ls, qs, ms)
  BY DEF StaysNear, AllNear

(* An upgrade for fewer licenses than users adds an entry for all of them, *)
(* unless it begins a free trial. *)
LEMMA UpgradedLicenses ==
  ASSUME Uncrossed, NEW x, UpgradeTyped(x), NEW new, new = Upgraded(x)
  PROVE  /\ \/ new.plan.status = "FREE_TRIAL" /\ now <= new.plan.next
            \/ /\ new.plan.status = "ACTIVE" /\ new.plan.anchor = now
               /\ now <= new.plan.next /\ new.plan.next <= now + 2 * Month
         /\ \E e \in LedgerRow :
              /\ e.plan = Len(plans) + 1 /\ e.renewal /\ e.time = now
              /\ \/ /\ new.entries = <<e>>
                    /\ (x.trial /\ x.licenses < users) \/ e.atRenewal >= users
                 \/ \E f \in LedgerRow : /\ f.plan = e.plan /\ ~f.renewal /\ f.time = now
                                         /\ f.atRenewal >= users /\ new.entries = <<e, f>>
<1> USE BillingAssumption
<1> DEFINE i == Len(plans) + 1
           e == Len(ledger) + 1
           first == Entry(i, TRUE, now, x.licenses, x.licenses)
           more == Max({users, x.licenses})
           second == Entry(i, FALSE, now, more, more)
           plan == Plan("ACTIVE", x.schedule, now, now + Month, e, "DONE")
           trial == Plan("FREE_TRIAL", x.schedule, now, now + trial_days, e, "DONE")
<1>1. i \in Nat /\ e \in Nat /\ now \in Nat /\ trial_days \in Nat /\ users \in Int
  BY DEF Uncrossed, Sound, TablesTyped
<1>2. x.licenses \in Int /\ more \in Int /\ more >= users
  <2>1. x.licenses \in Int BY DEF UpgradeTyped
  <2>2. \E y \in {users, x.licenses} : \A z \in {users, x.licenses} : y >= z
    BY <1>1, <2>1
  <2>3. more \in {users, x.licenses} /\ \A z \in {users, x.licenses} : more >= z
    BY <2>2 DEF Max
  <2> QED BY <1>1, <2>1, <2>3
<1>3. /\ first \in LedgerRow /\ first.plan = i /\ first.renewal /\ first.time = now
      /\ first.atRenewal = x.licenses
      /\ second \in LedgerRow /\ second.plan = i /\ ~second.renewal /\ second.time = now
      /\ second.atRenewal = more
  <2> HIDE DEF more, i
  <2> QED BY <1>1, <1>2 DEF Entry, LedgerRow
<1>4. plan.next = now + Month /\ plan.anchor = now /\ plan.status = "ACTIVE"
  BY DEF Plan
<1>5. trial.next = now + trial_days /\ trial.status = "FREE_TRIAL"
  BY DEF Plan
<1>6. CASE x.trial
  <2>1. new.plan = trial /\ new.entries = <<first>> BY <1>6 DEF Upgraded
  <2> HIDE DEF first, trial, more
  <2>2. now <= new.plan.next /\ new.plan.status = "FREE_TRIAL"
    BY <1>1, <1>5, <2>1
  <2>3. (x.trial /\ x.licenses < users) \/ first.atRenewal >= users
    BY <1>1, <1>2, <1>3, <1>6
  <2> QED BY <1>3, <2>1, <2>2, <2>3
<1>7. CASE ~x.trial /\ more = x.licenses
  <2>1. new.plan = plan /\ new.entries = <<first>> BY <1>7 DEF Upgraded
  <2> HIDE DEF first, plan, more
  <2>2. /\ new.plan.status = "ACTIVE" /\ new.plan.anchor = now
        /\ now <= new.plan.next /\ new.plan.next <= now + 2 * Month
    BY <1>1, <1>4, <2>1
  <2>3. first.atRenewal >= users BY <1>2, <1>3, <1>7
  <2> QED BY <1>3, <2>1, <2>2, <2>3
<1>8. CASE ~x.trial /\ more # x.licenses
  <2> DEFINE due == next_invoice_date(plan)
             late == [plan EXCEPT !.through = e + 1, !.next = due]
  <2>1. new.plan = late /\ new.entries = <<first, second>>
    BY <1>8 DEF Upgraded
  <2> DEFINE start == now + Month
  <2>2. due = FirstAfter(now, Month, start)
    <3> HIDE DEF plan
    <3> QED BY <1>4 DEF next_invoice_date
  <2>3. start \in Nat /\ start = now + Month BY <1>1
  <2> HIDE DEF start, due, late, plan, first, second
  <2>4. due \in Nat /\ start < due BY <1>1, <2>2, <2>3, FirstAfterTyped
  <2>5. due = now \/ due <= start + Month BY <1>1, <2>2, <2>3, OneStep
  <2>6. /\ late.next = due /\ late.status = "ACTIVE" /\ late.anchor = now
    <3> USE DEF late, plan
    <3>1. plan = [status |-> "ACTIVE", schedule |-> x.schedule, anchor |-> now, next |-> now + Month,
                  through |-> e, invoicing |-> "DONE"]
      BY DEF Plan
    <3> HIDE DEF due, e
    <3> QED BY <3>1
  <2> HIDE DEF more
  <2>7. /\ new.plan.status = "ACTIVE" /\ new.plan.anchor = now
        /\ now <= new.plan.next /\ new.plan.next <= now + 2 * Month
    BY <1>1, <2>1, <2>3, <2>4, <2>5, <2>6
  <2>8. second.atRenewal >= users BY <1>2, <1>3
  <2> QED BY <1>3, <2>1, <2>7, <2>8
<1> QED BY <1>6, <1>7, <1>8 DEF UpgradeTyped

LEMMA UpgradeLicenses ==
  ASSUME Uncrossed, Licensed, Sound(plans', ledger'), ~crossed', crossed \in BOOLEAN,
         NEW t \in Transactions, process_initial_upgrade(t)
  PROVE  Licensed'
<1> DEFINE x == tx[t]
           new == Upgraded(x)
           k == Len(plans) + 1
<1>1. /\ x.kind = "upgrade" /\ plans' = Append(plans, new.plan) /\ ledger' = ledger \o new.entries
      /\ get_current_plan(plans) = 0 /\ UNCHANGED <<job, now, users>>
      /\ marks \subseteq marks' /\ tx' = [tx EXCEPT ![t] = Free]
      /\ x.trial /\ x.licenses < users => Mark("short", Len(plans')) \in marks'
  BY DEF process_initial_upgrade, clock
<1>2. UpgradeTyped(x) BY <1>1 DEF Uncrossed, TxSound
<1>3. new.plan \in Row /\ new.plan.next # None BY <1>2, UpgradedRows
<1>4. \/ new.plan.status = "FREE_TRIAL" /\ now <= new.plan.next
      \/ /\ new.plan.status = "ACTIVE" /\ new.plan.anchor = now
         /\ now <= new.plan.next /\ new.plan.next <= now + 2 * Month
  BY <1>2, UpgradedLicenses
<1>5. PICK e \in LedgerRow :
        /\ e.plan = k /\ e.renewal /\ e.time = now
        /\ \/ /\ new.entries = <<e>>
              /\ (x.trial /\ x.licenses < users) \/ e.atRenewal >= users
           \/ \E f \in LedgerRow : /\ f.plan = e.plan /\ ~f.renewal /\ f.time = now
                                   /\ f.atRenewal >= users /\ new.entries = <<e, f>>
  BY <1>2, UpgradedLicenses
<1> DEFINE row == new.plan
           entries == new.entries
<1>6. row \in Row /\ row.next # None /\ plans' = Append(plans, row) /\ ledger' = ledger \o entries
  BY <1>1, <1>3
<1> HIDE DEF new
<1>7. /\ plans \in Seq(Row) /\ ledger \in Seq(LedgerRow) /\ Live(plans) = {} /\ now \in Nat
      /\ Sound(plans, ledger) /\ Past(ledger, now) /\ users \in Int
  BY <1>1, CurrentPlan DEF Uncrossed, Sound, TablesTyped, Licensed
<1> DEFINE qs == Append(plans, row)
           ms == Append(ledger, e)
<1>8. Sound(qs, ms) BY <1>5, <1>6, <1>7, PlanKeepsSound
<1>9. e.time <= now /\ e.plan = Len(plans) + 1 /\ qs = Append(plans, row) /\ ms = Append(ledger, e)
  BY <1>5, <1>7
<1>10. Begins(row, e, now) BY <1>4, <1>5, <1>9 DEF Begins
<1> HIDE DEF qs, ms, row, k
<1>11. /\ OnTime(qs, ms, now) /\ AllNear(qs, ms) /\ Past(ms, now)
       /\ DOMAIN qs = DOMAIN plans \cup {e.plan} /\ (\A j \in DOMAIN plans : qs[j] = plans[j])
       /\ \A m \in Int : e.atRenewal >= m => Enough(qs, ms, m)
  <2>1. /\ plans \in Seq(Row) /\ Live(plans) = {} /\ row \in Row /\ ledger \in Seq(LedgerRow)
        /\ now \in Nat /\ Past(ledger, now) /\ e \in LedgerRow /\ e.renewal
    BY <1>5, <1>6, <1>7
  <2> QED BY ONLY <2>1, <1>8, <1>9, <1>10, PlanBegins
<1>12. StaysNear(plans, ledger, qs, ms)
  <2>1. \A j \in DOMAIN plans : Closed(plans[j]) => Closed(qs[j]) BY <1>11
  <2> QED BY <1>11, <2>1, NewIsNear
<1>13. plans' = qs BY <1>6, <1>9
<1>14. Len(plans') \in DOMAIN plans' /\ DOMAIN plans \subseteq DOMAIN plans'
  <2>1. Len(plans') = Len(plans) + 1 BY <1>6, <1>7
  <2>2. Len(plans') = e.plan BY <1>9, <2>1
  <2> QED BY <1>11, <1>13, <2>2
<1>15. Short => Short' BY <1>1, <1>14, ShortStays
<1>16. ReadsNow'
  <2>1. Free.kind \notin {"user", "request"} BY DEF Free
  <2> QED BY <1>1, <2>1, ReadsStayNow DEF Licensed
<1>17. CASE entries = <<e>> /\ ((x.trial /\ x.licenses < users) \/ e.atRenewal >= users)
  <2>1. ledger' = ms BY <1>6, <1>7, <1>9, <1>17
  <2>2. Short' \/ Enough(plans', ledger', users')
    <3>1. CASE x.trial /\ x.licenses < users
      BY <1>1, <1>14, <3>1 DEF Short, Marked
    <3>2. CASE e.atRenewal >= users BY <1>1, <1>7, <1>11, <1>13, <2>1, <3>2
    <3> QED BY <1>17, <3>1, <3>2
  <2> QED BY <1>1, <1>11, <1>12, <1>13, <1>16, <2>1, <2>2, OthersKeepLicenses
<1>18. CASE \E f \in LedgerRow : /\ f.plan = e.plan /\ ~f.renewal /\ f.time = now
                                 /\ f.atRenewal >= users /\ entries = <<e, f>>
  <2>1. PICK f \in LedgerRow : /\ f.plan = e.plan /\ ~f.renewal /\ f.time = now
                               /\ f.atRenewal >= users /\ entries = <<e, f>>
    BY <1>18
  <2> DEFINE ns == Append(ms, f)
  <2>2. ledger' = ns /\ ns = Append(ms, f) BY <1>6, <1>7, <1>9, <2>1
  <2> HIDE DEF ns
  <2>3. OnTime(qs, ns, now) /\ StaysNear(qs, ms, qs, ns)
    BY <1>8, <1>11, <2>1, <2>2, EntryKeepsOnTime
  <2>4. ms \in Seq(LedgerRow) /\ f.time <= now
    BY <1>7, <1>8, <2>1 DEF Sound, TablesTyped
  <2>5. Past(ns, now) BY ONLY <1>11, <2>1, <2>2, <2>4, EntriesAppended
  <2>6. \A j \in Live(qs) : j = f.plan
    <3>1. e.plan \in DOMAIN qs /\ \A j \in DOMAIN qs : j # e.plan => j \in DOMAIN plans /\ qs[j] = plans[j]
      BY <1>11
    <3> QED BY <1>7, <2>1, <3>1 DEF Live
  <2>7. Enough(qs, ns, users) BY <2>1, <2>2, <2>4, <2>6, EntryIsEnough
  <2>8. StaysNear(plans, ledger, qs, ns)
    BY <1>11, <1>12, <2>3, StaysNearTwice
  <2> QED BY <1>1, <1>13, <1>16, <2>2, <2>3, <2>5, <2>7, <2>8, OthersKeepLicenses
<1> QED BY <1>5, <1>17, <1>18

(* A request of the billing page writes the plan that the end of the cycle *)
(* has left, or replaces it by one with an entry for the same licenses. *)
LEMMA UpdatePlanLicenses ==
  ASSUME Uncrossed, Honoured, Licensed, NEW t \in Transactions, NEW request \in Requests,
         do_update_plan(t, request)
  PROVE  Licensed'
<1>1. UNCHANGED <<job, now, users, marks>> BY UpdatePlanRenews
<1>2. PICK i, c : Requested(i, c) /\ (tx' = tx \/ Noted(t, request, i, c))
  BY UpdatePlanRenews
<1>3. /\ now \in Nat /\ now \in Int /\ Sound(plans, ledger) /\ i \in DOMAIN plans
      /\ OnTime(plans, ledger, now) /\ Past(ledger, now)
      /\ c = make_end_of_cycle_updates_if_needed(Reading(i, plans[i], now, ledger), plans, ledger)
      /\ plans' = c.plans /\ ledger' = c.ledger
  BY <1>2 DEF Uncrossed, Licensed, Requested, Live
<1>4. /\ OnTime(plans', ledger', now) /\ Past(ledger', now) /\ DOMAIN plans \subseteq DOMAIN plans'
      /\ StaysNear(plans, ledger, plans', ledger')
      /\ Enough(plans, ledger, users) => Enough(plans', ledger', users)
  BY <1>3, CycleKeepsLicenses
<1>5. Short' \/ Enough(plans', ledger', users')
  BY <1>1, <1>4, ShortStays DEF Licensed
<1>6. Noted(t, request, i, c) /\ request \in Schedules => now <= c.plans[i].next
  <2> SUFFICES ASSUME Noted(t, request, i, c), request \in Schedules PROVE now <= c.plans[i].next
    OBVIOUS
  <2>1. i \in Live(plans) /\ i \in Live(c.plans) /\ plans[i].status \in Trials
    BY <1>2 DEF Noted, Requested, Offered, Schedules, Switches, Trials
  <2>2. c.plans[i].next = plans[i].next BY <1>3, <2>1, CycleKeepsTime
  <2>3. plans[i].next >= now /\ plans[i].next \in Nat
    BY <1>3, <2>1, TimesTyped DEF OnTime
  <2> QED BY <1>3, <2>2, <2>3
<1>7. ASSUME NEW u \in Transactions
      PROVE  /\ tx'[u].kind = "user" /\ tx'[u].plan # 0 => tx'[u].reading.time = now
             /\ tx'[u].kind = "request" /\ tx'[u].request \in Schedules => now <= tx'[u].copy.next
  <2>1. CASE tx'[u] = tx[u] BY <2>1 DEF Licensed, ReadsNow
  <2>2. CASE Noted(t, request, i, c) /\ u = t
    <3>1. tx'[u] = [kind |-> "request", request |-> request, plan |-> i,
                    copy |-> c.plans[i], terms |-> Terms(i, c.plans[i], c.ledger)]
      BY <2>2 DEF Noted, Uncrossed, TxSound
    <3> QED BY <1>6, <2>2, <3>1
  <2> QED BY <1>2, <2>1, <2>2, TxNoted DEF Uncrossed
<1> QED BY <1>1, <1>4, <1>5, <1>7, OthersKeepLicenses DEF ReadsNow

LEMMA FinishUpdateLicenses ==
  ASSUME Uncrossed, Honoured, Licensed, Sound(plans', ledger'), ~crossed', crossed \in BOOLEAN,
         NEW t \in Transactions, NEW request \in Requests, FinishUpdate(t, request)
  PROVE  Licensed'
<1>1. /\ UNCHANGED <<job, now, users>> /\ marks \subseteq marks'
      /\ tx' = [tx EXCEPT ![t] = Free]
  BY DEF FinishUpdate, WriteUpdate, clock
<1>2. ReadsNow'
  <2>1. Free.kind \notin {"user", "request"} BY DEF Free
  <2> QED BY <1>1, <2>1, ReadsStayNow DEF Licensed
<1>3. /\ now \in Nat /\ now \in Int /\ Sound(plans, ledger) /\ users \in Int
      /\ OnTime(plans, ledger, now) /\ Past(ledger, now) /\ ledger \in Seq(LedgerRow)
      /\ plans \in Seq(Row)
  BY DEF Uncrossed, Licensed, Sound, TablesTyped
<1>4. ASSUME /\ OnTime(plans', ledger', now) /\ Past(ledger', now)
             /\ StaysNear(plans, ledger, plans', ledger') /\ DOMAIN plans \subseteq DOMAIN plans'
             /\ Enough(plans, ledger, users) => Enough(plans', ledger', users)
      PROVE  Licensed'
  BY <1>1, <1>2, <1>4, ShortStays, OthersKeepLicenses DEF Licensed
<1>5. CASE UNCHANGED <<plans, ledger, marks, cancelled>>
  BY <1>3, <1>4, <1>5, SameIsNear
<1> SUFFICES ASSUME NEW i, NEW y, UpdatedBy(request, i, y) PROVE Licensed'
  BY <1>5, UpdateWrites
<1>7. i \in Live(plans) /\ i \in DOMAIN plans BY DEF UpdatedBy, Live
<1>6. /\ OnTime(plans', ledger', now) /\ Past(ledger', now)
      /\ StaysNear(plans, ledger, plans', ledger') /\ DOMAIN plans \subseteq DOMAIN plans'
      /\ Enough(plans, ledger, users) => Enough(plans', ledger', users)
  <2>2. ASSUME NEW row \in Row, Written(plans, i, row, plans'), ledger' = ledger,
               KeepsTerms(plans[i], row), row.status \in LiveStatuses => i \in Live(plans)
        PROVE  /\ OnTime(plans', ledger', now) /\ Past(ledger', now)
               /\ StaysNear(plans, ledger, plans', ledger') /\ DOMAIN plans \subseteq DOMAIN plans'
               /\ Enough(plans, ledger, users) => Enough(plans', ledger', users)
    <3>1. OnTime(plans', ledger', now) /\ StaysNear(plans, ledger, plans', ledger')
      <4>1. Sound(plans', ledger) BY <2>2
      <4>2. OnTime(plans', ledger, now) /\ StaysNear(plans, ledger, plans', ledger)
        BY <1>3, <1>7, <2>2, <4>1, WriteKeepsOnTime
      <4> QED BY <2>2, <4>2
    <3>2. Live(plans') \subseteq Live(plans) /\ DOMAIN plans' = DOMAIN plans
      BY <2>2 DEF Written, Live
    <3>3. Enough(plans, ledger, users) => Enough(plans', ledger', users)
      BY <2>2, <3>2, FewerHaveEnough
    <3> QED BY <1>3, <2>2, <3>1, <3>2, <3>3
  <2>3. CASE \E row : CutOff(i, row)
    <3>1. PICK row : CutOff(i, row) BY <2>3
    <3>2. KeepsTerms(plans[i], row) /\ row.status \notin LiveStatuses
      BY <3>1 DEF CutOff, KeepsTerms, KeepsDates, Closed, LiveStatuses, Trials, Switches
    <3> QED BY <2>2, <3>1, <3>2 DEF CutOff
  <2>4. CASE /\ request \in Schedules /\ plans[i] = y.copy
             /\ \E os, new, x : ScheduleChanged(i, os, new, x)
    <3>1. PICK os, new, x : ScheduleChanged(i, os, new, x) BY <2>4
    <3>2. /\ new \in Row /\ new.status = "FREE_TRIAL" /\ new.next = plans[i].next
          /\ plans' = Append(os, new) /\ ledger' = Append(ledger, x)
          /\ x \in LedgerRow /\ x.renewal /\ x.plan = Len(plans) + 1
          /\ x.time = plans[i].anchor
      BY <3>1 DEF ScheduleChanged
    <3>3. Begins(new, x, now)
      <4>1. PICK u \in Transactions : y = tx[u] /\ y.kind = "request" /\ y.request = request
        BY DEF UpdatedBy
      <4>2. plans[i].anchor <= now /\ now <= plans[i].next
        BY <2>4, <4>1 DEF Licensed, ReadsNow, Honoured, ReadsDated, RequestDated
      <4> QED BY <3>2, <4>2 DEF Begins
    <3>4. os \in Seq(Row) /\ Len(os) = Len(plans) /\ DOMAIN os = DOMAIN plans /\ Live(os) = {}
      <4>1. Sound(plans, ledger) BY <1>3
      <4>2. EndsIn(plans, ledger, i, os) /\ i \in Live(plans)
        BY <3>1 DEF ScheduleChanged, EndsIn
      <4> QED BY ONLY <4>1, <4>2, EndsInFacts
    <3>5. Sound(Append(os, new), Append(ledger, x)) /\ x.plan = Len(os) + 1
      BY <3>2, <3>4
    <3>6. /\ OnTime(plans', ledger', now) /\ AllNear(plans', ledger') /\ Past(ledger', now)
          /\ DOMAIN plans' = DOMAIN os \cup {x.plan} /\ (\A k \in DOMAIN os : plans'[k] = os[k])
          /\ \A m \in Int : x.atRenewal >= m => Enough(plans', ledger', m)
      <4>1. ledger \in Seq(LedgerRow) /\ now \in Nat /\ Past(ledger, now)
        BY <1>3
      <4>2. LET rs == Append(os, new)
                ms == Append(ledger, x)
            IN  /\ OnTime(rs, ms, now) /\ AllNear(rs, ms) /\ Past(ms, now)
                /\ DOMAIN rs = DOMAIN os \cup {x.plan} /\ (\A k \in DOMAIN os : rs[k] = os[k])
                /\ \A m \in Int : x.atRenewal >= m => Enough(rs, ms, m)
        BY ONLY <3>2, <3>3, <3>4, <3>5, <4>1, PlanBegins
      <4> QED BY <3>2, <4>2
    <3>7. \A k \in DOMAIN plans : Closed(plans[k]) => Closed(plans'[k])
      <4>1. os[i].status = "ENDED" /\ \A k \in DOMAIN plans : k # i => os[k] = plans[k]
        BY <3>1 DEF ScheduleChanged, Written
      <4> QED BY <3>4, <3>6, <4>1 DEF Closed
    <3>8. StaysNear(plans, ledger, plans', ledger') BY <3>6, <3>7, NewIsNear
    <3>9. Enough(plans, ledger, users) => x.atRenewal >= users
      BY <1>7, <3>1 DEF ScheduleChanged, Enough
    <3> QED BY <1>3, <3>4, <3>6, <3>8, <3>9
  <2>5. CASE \E row : StatusChanged(request, i, row)
    <3>1. PICK row : StatusChanged(request, i, row) BY <2>5
    <3>2. KeepsTerms(plans[i], row)
      <4>1. plans[i].status \in LiveStatuses /\ plans[i].status # "ENDED"
        BY <3>1 DEF StatusChanged, Live, LiveStatuses, Trials, Switches
      <4> QED BY <3>1, <4>1 DEF StatusChanged, KeepsTerms, KeepsDates, Closed
    <3> QED BY <2>2, <3>1, <3>2 DEF StatusChanged
  <2> QED BY <2>3, <2>4, <2>5 DEF UpdatedBy
<1> QED BY <1>4, <1>6

(* A step of the job that writes the plan it invoices. *)
LEMMA ReplacedIsReady ==
  ASSUME Uncrossed, JobReady, job.step # "idle", UNCHANGED now,
         StaysNear(plans, ledger, plans', ledger'),
         NEW row, job'.copies = Replaced(row),
         "tier" \in DOMAIN job', job'.tier = job.tier, job'.until = job.until,
         job'.step \in Charging /\ First.id \in Regular(plans') => Near(plans', ledger', First.id)
  PROVE  JobReady'
<1>1. First'.id = First.id BY FirstReplaced
<1> DEFINE c == First
<1>2. c \in job.copies BY CopyReplaced
<1>3. job'.copies = (job.copies \ {c}) \cup {[id |-> c.id, row |-> row]}
  BY DEF Replaced
<1>4. \A a, b \in job.copies : a.id = b.id => a = b BY DEF JobReady
<1> HIDE DEF c
<1>5. Awaited' \subseteq Awaited BY <1>2, <1>3 DEF Awaited
<1>6. \A a, b \in job'.copies : a.id = b.id => a = b BY <1>2, <1>3, <1>4
<1> QED BY <1>1, <1>5, <1>6, JobStaysReady

LEMMA SwitchTierLicenses ==
  ASSUME Uncrossed, Honoured, Licensed, Sound(plans', ledger'), ~crossed', crossed \in BOOLEAN,
         switch_plan_tier
  PROVE  Licensed'
<1> DEFINE i == First.id
           left == [First.row EXCEPT !.status = "ENDED"]
<1>1. UNCHANGED <<now, tx, users>> /\ marks \subseteq marks'
  BY DEF switch_plan_tier, clock
<1>2. /\ First \in job.copies /\ job.step = "switch" /\ job'.step = "cycle"
      /\ plans[i] = First.row /\ i \in Live(plans)
      /\ \E os, new, e : TierSwitched(i, os, new, e)
  BY SwitchTierWrites
<1>3. plans[i].next = now BY <1>2 DEF Honoured, ReadsDated
<1>4. JobReady /\ StaysNear(plans, ledger, plans', ledger') => JobReady'
  <2>1. /\ job'.copies = Replaced(left) /\ job'.until = job.until /\ UNCHANGED now
        /\ JobReady => "tier" \in DOMAIN job' /\ job'.tier = job.tier
    BY <1>1, SwitchTierWrites DEF JobReady
  <2> HIDE DEF left
  <2> QED BY <1>2, <2>1, ReplacedIsReady DEF Charging
<1> HIDE DEF i, left
<1>5. PICK os, new, e : TierSwitched(i, os, new, e) BY <1>2
<1>6. /\ os \in Seq(Row) /\ Live(os) = {} /\ Len(os) = Len(plans) /\ DOMAIN os = DOMAIN plans
      /\ ledger \in Seq(LedgerRow) /\ now \in Nat /\ users \in Int
      /\ Past(ledger, now) /\ OnTime(plans, ledger, now) /\ plans[i].next \in Nat
  BY <1>2, <1>3, <1>5, TierSwitchedFacts DEF Uncrossed, Licensed
<1>7. /\ plans' = Append(os, new) /\ new \in Row /\ ledger' = Append(ledger, e) /\ e \in LedgerRow
      /\ e.plan = Len(os) + 1 /\ Sound(Append(os, new), Append(ledger, e))
  BY <1>5, <1>6 DEF TierSwitched
<1>8. Begins(new, e, now)
  BY <1>3, <1>5, <1>6, BillingAssumption DEF Begins, TierSwitched
<1>9. /\ OnTime(plans', ledger', now) /\ AllNear(plans', ledger') /\ Past(ledger', now)
      /\ DOMAIN plans' = DOMAIN os \cup {e.plan} /\ (\A k \in DOMAIN os : plans'[k] = os[k])
      /\ \A m \in Int : e.atRenewal >= m => Enough(plans', ledger', m)
  <2>1. LET rs == Append(os, new)
            ms == Append(ledger, e)
        IN  /\ OnTime(rs, ms, now) /\ AllNear(rs, ms) /\ Past(ms, now)
            /\ DOMAIN rs = DOMAIN os \cup {e.plan} /\ (\A k \in DOMAIN os : rs[k] = os[k])
            /\ \A m \in Int : e.atRenewal >= m => Enough(rs, ms, m)
    BY ONLY <1>6, <1>7, <1>8, PlanBegins
  <2> QED BY <1>7, <2>1
<1>10. \A k \in DOMAIN plans : Closed(plans[k]) => Closed(plans'[k])
  <2>1. os[i].status = "ENDED" /\ \A k \in DOMAIN plans : k # i => os[k] = plans[k]
    BY <1>5 DEF TierSwitched, Written
  <2> QED BY <1>6, <1>9, <2>1 DEF Closed
<1>11. JobReady' BY <1>4, <1>9, <1>10, NewIsNear DEF Licensed
<1>12. Short' \/ Enough(plans', ledger', users')
  <2>1. Short => Short' BY <1>1, <1>6, <1>9, ShortStays
  <2>2. Enough(plans, ledger, users) => e.atRenewal >= users
    BY <1>2, <1>5 DEF Enough, TierSwitched
  <2>3. Enough(plans, ledger, users) => Enough(plans', ledger', users')
    BY <1>1, <1>6, <1>9, <2>2
  <2> QED BY <2>1, <2>3 DEF Licensed
<1> QED BY <1>1, <1>9, <1>11, <1>12 DEF Licensed, ReadsNow

LEMMA SaveInvoicingLicenses ==
  ASSUME Uncrossed, Licensed, Sound(plans', ledger'), NEW status \in {"STARTED", "DONE"},
         SaveInvoicing(status), job.step \in {"entry", "done"}, job.entries # {}
  PROVE  Licensed'
<1> DEFINE i == First.id
           row == SavedAs(plans[i], status)
<1>1. /\ job'.copies = Replaced(SavedAs(First.row, status)) /\ job'.until = job.until
      /\ job'.tier = job.tier /\ "tier" \in DOMAIN job'
      /\ UNCHANGED <<ledger, marks, now, tx, users>>
  BY SaveInvoicingWrites DEF Licensed, JobReady
<1>2. /\ i \in DOMAIN plans /\ row \in Row /\ row.status = plans[i].status
      /\ row.next = plans[i].next /\ row.anchor = plans[i].anchor
      /\ row.schedule = plans[i].schedule /\ Written(plans, i, row, plans')
  BY SaveInvoicingWrites
<1>3. i \in Regular(plans) => Near(plans, ledger, i)
  BY DEF Licensed, JobReady, Charging
<1>4. JobReady /\ StaysNear(plans, ledger, plans', ledger')
        /\ (i \in Regular(plans') => Near(plans', ledger', i)) => JobReady'
  BY <1>1, ReplacedIsReady
<1> HIDE DEF i, row
<1>5. /\ OnTime(plans', ledger', now) /\ StaysNear(plans, ledger, plans', ledger')
  <2>1. CASE row.status = "SWITCH_TO_MONTHLY_AT_END_OF_CYCLE" => row.schedule = "annual"
    <3>1. KeepsTerms(plans[i], row)
      BY <1>2, <2>1 DEF KeepsTerms, KeepsDates, Closed
    <3> QED BY <1>1, <1>2, <3>1, WriteKeepsOnTime DEF Uncrossed, Licensed
  <2>2. plans[i].status = "SWITCH_TO_MONTHLY_AT_END_OF_CYCLE" => plans[i].schedule = "annual"
    <3> SUFFICES ASSUME plans[i].status = "SWITCH_TO_MONTHLY_AT_END_OF_CYCLE"
                 PROVE  plans[i].schedule = "annual"
      OBVIOUS
    <3>1. i \in Regular(plans)
      BY <1>2 DEF Regular, Live, LiveStatuses, Trials, Switches
    <3> QED BY <3>1 DEF Licensed, OnTime, Timely
  <2> QED BY <1>2, <2>1, <2>2
<1>6. Live(plans') \subseteq Live(plans) /\ DOMAIN plans' = DOMAIN plans
  BY <1>2 DEF Written, Live
<1>7. Short' \/ Enough(plans', ledger', users')
  <2>1. Short => Short' BY <1>1, <1>6, ShortStays
  <2>2. Enough(plans, ledger, users) => Enough(plans', ledger', users')
    <3>1. ledger' = ledger /\ users' = users /\ Live(plans') \subseteq Live(plans)
      BY <1>1, <1>6
    <3> QED BY ONLY <3>1, FewerHaveEnough
  <2> QED BY <2>1, <2>2 DEF Licensed
<1>8. i \in Regular(plans') => Near(plans', ledger', i)
  BY <1>3, <1>5 DEF StaysNear
<1>9. JobReady' BY <1>4, <1>5, <1>8 DEF Licensed
<1>10. ReadsNow' /\ Past(ledger', now) BY <1>1 DEF Licensed, ReadsNow
<1> QED BY <1>1, <1>5, <1>7, <1>9, <1>10 DEF Licensed

(* invoice_plan renews what it invoices as of an invoice date, which finds *)
(* nothing to renew, or as of the present time. *)
LEMMA InvoiceIsNear ==
  ASSUME NEW ps, NEW ls, Sound(ps, ls), NEW i \in DOMAIN ps, NEW n \in Nat, OnTime(ps, ls, n), Past(ls, n),
         i \in Regular(ps) => Ready(ps, ls, i, n),
         NEW t \in Int, t = IF ps[i].next <= n THEN ps[i].next ELSE n,
         NEW c, c = make_end_of_cycle_updates_if_needed(Reading(i, ps[i], t, ls), ps, ls)
  PROVE  /\ OnTime(c.plans, c.ledger, n) /\ Past(c.ledger, n) /\ DOMAIN ps \subseteq DOMAIN c.plans
         /\ StaysNear(ps, ls, c.plans, c.ledger)
         /\ \A k : Enough(ps, ls, k) => Enough(c.plans, c.ledger, k)
         /\ i \in Regular(c.plans) => Near(c.plans, c.ledger, i)
<1>1. ASSUME NEW k \in Regular(ps)
      PROVE  /\ k \in Live(ps) /\ ps[k].next \in Nat /\ CycleOf(ps, ls, k) \in Nat /\ Slack(ps[k]) \in Nat
             /\ Timely(ps, ls, k, n)
  <2>1. k \in Live(ps) BY DEF Regular
  <2>2. ps[k] \in Row /\ ps[k].next \in Nat /\ CycleOf(ps, ls, k) \in Nat
    BY <2>1, TimesTyped
  <2>3. Slack(ps[k]) \in Nat BY <2>2, TermFacts
  <2> QED BY <2>1, <2>2, <2>3 DEF OnTime
<1>2. ASSUME i \in Regular(ps), ps[i].next < CycleOf(ps, ls, i)
      PROVE  Near(ps, ls, i)
  BY <1>1, <1>2 DEF Near
<1>3. CASE t = n
  <2>1. c = make_end_of_cycle_updates_if_needed(Reading(i, ps[i], n, ls), ps, ls)
    BY <1>3
  <2>2. /\ Sound(c.plans, c.ledger) /\ DOMAIN ps \subseteq DOMAIN c.plans /\ Cycled(ps, ls, i, n, c)
        /\ OnTime(c.plans, c.ledger, n) /\ Past(c.ledger, n) /\ StaysNear(ps, ls, c.plans, c.ledger)
        /\ \A k : Enough(ps, ls, k) => Enough(c.plans, c.ledger, k)
    BY ONLY <2>1, Sound(ps, ls), i \in DOMAIN ps, n \in Nat, OnTime(ps, ls, n), Past(ls, n),
            CycleKeepsLicenses
  <2>3. AllNear(c.plans, c.ledger) \/ (c.plans = ps /\ c.ledger = ls)
    BY <2>2, CycleKeepsOnTime
  <2>4. CASE AllNear(c.plans, c.ledger) BY <2>2, <2>4 DEF AllNear
  <2>5. CASE c.plans = ps /\ c.ledger = ls
    <3> SUFFICES ASSUME i \in Regular(ps) PROVE Near(ps, ls, i)
      BY <2>2, <2>5
    <3>1. n < CycleOf(ps, ls, i) BY <2>1, <2>5, StaysUntilDue
    <3>2. Near(ps, ls, i) \/ ps[i].next <= n BY DEF Ready
    <3> QED BY <1>1, <1>2, <3>1, <3>2
  <2> QED BY <2>3, <2>4, <2>5
<1>4. CASE t # n
  <2>1. ps[i] \in Row BY DEF Sound, TablesTyped
  <2>2. t = ps[i].next /\ ps[i].next < n BY <1>4, <2>1
  <2>3. Cycled(ps, ls, i, t, c) BY CycleWrites
  <2>4. Stays(ps, ls, i, t, c)
    <3> SUFFICES ASSUME ~ Stays(ps, ls, i, t, c) PROVE FALSE
      OBVIOUS
    <3>1. /\ i \in Live(ps) /\ CycleOf(ps, ls, i) <= t
          /\ \/ GoesOn(ps, ls, i, t, c) \/ Starts(ps, ls, i, t, c)
             \/ Switched(ps, ls, i, t, c) \/ Ends(ps, ls, i, c)
      BY <2>3 DEF Cycled
    <3>2. ps[i].status # "SWITCH_PLAN_TIER_NOW"
      BY <3>1 DEF GoesOn, Starts, Switched, Ends, Switches, Downgrades
    <3>3. ps[i].next \in Nat /\ CycleOf(ps, ls, i) \in Nat
      BY <3>1, TimesTyped
    <3>4. CASE ps[i].status \in Trials BY <2>2, <3>1, <3>3, <3>4 DEF OnTime
    <3>5. CASE ps[i].status \notin Trials
      <4>1. i \in Regular(ps) BY <3>1, <3>2, <3>5 DEF Regular
      <4> QED BY <1>1, <2>2, <3>1, <3>3, <4>1 DEF Timely, Ahead
    <3> QED BY <3>4, <3>5
  <2>5. c.plans = ps /\ c.ledger = ls BY <2>4 DEF Stays
  <2>6. i \in Regular(ps) => Near(ps, ls, i)
    BY <1>1, <1>2, <2>2 DEF Timely, Ahead
  <2>7. StaysNear(ps, ls, c.plans, c.ledger) BY <2>5, SameIsNear
  <2> QED BY <2>5, <2>6, <2>7
<1> QED BY <1>3, <1>4

LEMMA BeginInvoicingLicenses ==
  ASSUME Uncrossed, Licensed, Sound(plans', ledger'), ~crossed', crossed \in BOOLEAN, BeginInvoicing
  PROVE  Licensed'
<1> DEFINE c == First
           event_time == Min({c.row.next, job.until})
           m == make_end_of_cycle_updates_if_needed(
                    Reading(c.id, c.row, event_time, ledger), plans, ledger)
           row == m.copy
           left == {e \in EntriesOf(m.ledger, c.id) :
                      /\ row.invoicing = "INITIAL" \/ e > row.through
                      /\ m.ledger[e].time <= event_time}
           base == IF row.invoicing = "INITIAL" THEN None ELSE ledger[row.through].licenses
           copies == Replaced(row)
<1>1. job.step = "cycle" /\ UNCHANGED <<marks, now, tx, users>>
  BY DEF BeginInvoicing, clock
<1>2. ReadsNow' BY <1>1 DEF Licensed, ReadsNow
<1>3. CASE c.row.invoicing = "STARTED"
  <2>1. job' = NoJob /\ UNCHANGED <<plans, ledger>>
    BY <1>3 DEF BeginInvoicing, tables
  <2>2. JobReady' BY <2>1 DEF JobReady, NoJob
  <2> QED BY <1>1, <1>2, <2>1, <2>2, QuietLicenses
<1>4. CASE c.row.invoicing # "STARTED"
  <2>1. /\ plans' = m.plans /\ ledger' = m.ledger /\ plans[c.id] = c.row
        /\ job' = [job EXCEPT !.step = "entry", !.copies = copies, !.made = FALSE,
                              !.entries = left, !.base = base]
    BY <1>4 DEF BeginInvoicing
  <2>2. c.id \in DOMAIN plans /\ c \in job.copies BY <1>1, CopyReplaced
  <2>3. /\ job'.copies = Replaced(row) /\ job'.until = job.until /\ job'.step = "entry"
        /\ "tier" \in DOMAIN job' /\ job'.tier = job.tier
    <3> HIDE DEF left, base, copies
    <3>1. /\ job'.copies = copies /\ job'.until = job.until /\ job'.step = "entry"
          /\ "tier" \in DOMAIN job' /\ job'.tier = job.tier
      BY <2>1 DEF Uncrossed, JobSound, Licensed, JobReady
    <3> QED BY <3>1 DEF copies
  <2> HIDE DEF left, base, copies, row
  <2>4. /\ job.until = now /\ now \in Nat
        /\ c.id \in Regular(plans) => Ready(plans, ledger, c.id, now)
    <3>1. c.id \in Awaited BY <2>2 DEF Awaited
    <3> QED BY <1>1, <3>1 DEF Licensed, JobReady, AllReady, Uncrossed
  <2>5. event_time \in Int BY <2>1, <2>2, EventTimeTyped
  <2>6. event_time = IF plans[c.id].next <= now THEN plans[c.id].next ELSE now
    <3>1. plans[c.id] \in Row BY <2>2 DEF Uncrossed, Sound, TablesTyped
    <3>2. plans[c.id].next \in Int /\ now \in Int
      BY <2>4, <3>1 DEF Row, None
    <3> QED BY <2>1, <2>4, <3>2, MinOfTwo
  <2>7. JobReady /\ StaysNear(plans, ledger, plans', ledger')
        /\ (c.id \in Regular(plans') => Near(plans', ledger', c.id)) => JobReady'
    BY <1>1, <2>3, ReplacedIsReady
  <2> HIDE DEF c, event_time
  <2>8. m = make_end_of_cycle_updates_if_needed(
                Reading(c.id, plans[c.id], event_time, ledger), plans, ledger)
    BY <2>1
  <2> HIDE DEF m
  <2>9. Sound(plans, ledger) /\ OnTime(plans, ledger, now) /\ Past(ledger, now)
    BY DEF Uncrossed, Licensed
  <2>10. /\ OnTime(m.plans, m.ledger, now) /\ Past(m.ledger, now) /\ DOMAIN plans \subseteq DOMAIN m.plans
         /\ StaysNear(plans, ledger, m.plans, m.ledger)
         /\ \A k : Enough(plans, ledger, k) => Enough(m.plans, m.ledger, k)
         /\ c.id \in Regular(m.plans) => Near(m.plans, m.ledger, c.id)
    BY ONLY <2>2, <2>4, <2>5, <2>6, <2>8, <2>9, InvoiceIsNear
  <2>11. JobReady' BY <2>1, <2>7, <2>10 DEF Licensed
  <2>12. Short' \/ Enough(plans', ledger', users')
    <3>1. Short => Short' BY <1>1, <2>1, <2>10, ShortStays
    <3>2. Enough(plans, ledger, users) => Enough(plans', ledger', users')
      BY <1>1, <2>1, <2>10
    <3> QED BY <3>1, <3>2 DEF Licensed
  <2> QED BY <1>1, <1>2, <2>1, <2>10, <2>11, <2>12 DEF Licensed
<1> QED BY <1>3, <1>4

(* The next invoice after one that was near. *)
LEMMA NextInvoiceOnTime ==
  ASSUME NEW ps, NEW ls, Sound(ps, ls), NEW n \in Nat, OnTime(ps, ls, n),
         NEW i \in Live(ps), i \in Regular(ps) => Near(ps, ls, i),
         NEW next, next = FirstAfter(ps[i].anchor, Month, ps[i].next)
  PROVE  /\ ps[i].status \in Trials => next >= n
         /\ i \in Regular(ps) =>
              /\ next >= n \/ (next < CycleOf(ps, ls, i) /\ n <= CycleOf(ps, ls, i))
              /\ next <= CycleOf(ps, ls, i) + Slack(ps[i]) + Month
<1> USE BillingAssumption
<1> DEFINE cycle == CycleOf(ps, ls, i)
           anchor == ps[i].anchor
           old == ps[i].next
<1>1. ps[i] \in Row /\ old \in Nat /\ anchor \in Nat /\ cycle \in Nat /\ Month \in Nat \ {0}
  BY TimesTyped
<1>2. Slack(ps[i]) \in Nat BY <1>1, TermFacts
<1>3. next \in Nat /\ old < next BY <1>1, FirstAfterTyped
<1>4. ps[i].status \in Trials => next >= n BY <1>1, <1>3 DEF OnTime
<1>5. next = anchor \/ next <= old + Month BY <1>1, OneStep
<1> SUFFICES ASSUME i \in Regular(ps)
             PROVE  /\ next >= n \/ (next < cycle /\ n <= cycle)
                    /\ next <= cycle + Slack(ps[i]) + Month
  BY <1>4
<1>6. PICK m \in Nat \ {0}, s \in Nat : cycle = FirstAfter(anchor, Month * m, s)
  <2> DEFINE last == ls[LastRenewal(ls, i)].time
  <2>1. last \in Nat /\ \E m \in Nat \ {0} : cycle = FirstAfter(anchor, Month * m, last)
    BY RegularCycle DEF Regular
  <2> HIDE DEF last, cycle
  <2> QED BY <2>1
<1>7. anchor <= cycle
  <2>1. Month * m \in Nat \ {0} BY <1>1
  <2> DEFINE step == Month * m
  <2> HIDE DEF step
  <2>2. PICK k \in Nat : FirstAfter(anchor, step, s) = anchor + k * step
    BY <1>1, <2>1, OnGrid DEF step
  <2>3. k * step \in Nat BY <2>1 DEF step
  <2> HIDE DEF cycle, anchor
  <2> QED BY <1>1, <1>6, <2>2, <2>3 DEF step
<1>8. old < cycle => next <= cycle
  <2> SUFFICES ASSUME old < cycle PROVE next <= cycle
    OBVIOUS
  <2> HIDE DEF cycle, anchor, old
  <2>1. old < FirstAfter(anchor, Month * m, s) BY <1>6
  <2>2. FirstAfter(anchor, Month, old) <= FirstAfter(anchor, Month * m, s)
    BY <1>1, <2>1, GridBetween
  <2>3. next = FirstAfter(anchor, Month, old) BY DEF anchor, old
  <2> QED BY <1>6, <2>2, <2>3
<1>9. Timely(ps, ls, i, n) /\ Near(ps, ls, i) BY DEF OnTime
<1>10. /\ old >= n \/ (old < cycle /\ n <= cycle)
       /\ old <= cycle + Slack(ps[i])
  BY <1>9 DEF Timely, Ahead, Near
<1> DEFINE slack == Slack(ps[i])
<1> HIDE DEF cycle, anchor, old, slack
<1>11. slack \in Nat /\ old <= cycle + slack BY <1>2, <1>10 DEF slack
<1>12. next <= cycle + slack + Month BY <1>1, <1>3, <1>5, <1>7, <1>11
<1>13. next >= n \/ (next < cycle /\ n <= cycle) BY <1>1, <1>3, <1>8, <1>10
<1> QED BY <1>12, <1>13 DEF slack

LEMMA FinishInvoicingLicenses ==
  ASSUME Uncrossed, Licensed, Sound(plans', ledger'), ~crossed', crossed \in BOOLEAN,
         FinishInvoicing
  PROVE  Licensed'
<1> DEFINE c == First
           i == c.id
           next == next_invoice_date(c.row)
           row == [plans[i] EXCEPT !.next = next]
           again == next # None /\ next <= job.until
           added == IF again THEN {Copy(i, plans')} ELSE {}
           rest == (job.copies \ {c}) \cup added
           new == get_current_plan(plans')
<1>1. /\ plans' = [plans EXCEPT ![i].next = next] /\ plans[i] = c.row
      /\ job.step = "entry" /\ marks \subseteq marks'
      /\ UNCHANGED <<ledger, now, tx, users>>
      /\ \/ rest # {} /\ job' = [job EXCEPT !.step = "cycle", !.copies = rest]
         \/ /\ job.tier /\ new # 0
            /\ job' = [job EXCEPT !.step = "cycle", !.copies = {Copy(new, plans')}, !.tier = FALSE]
         \/ job' = NoJob
  BY DEF FinishInvoicing, clock
<1>2. i \in DOMAIN plans /\ c \in job.copies BY <1>1, CopyReplaced
<1>3. /\ job.until = now /\ now \in Nat /\ \A a, b \in job.copies : a.id = b.id => a = b
      /\ AllReady(Awaited, job.tier, plans, ledger, now) /\ job.tier \in BOOLEAN
      /\ i \in Regular(plans) => Near(plans, ledger, i)
      /\ "tier" \in DOMAIN job /\ {"step", "copies", "until"} \subseteq DOMAIN job
  BY <1>1 DEF Licensed, JobReady, Charging, Uncrossed, JobSound
<1>4. i \in Awaited BY <1>2 DEF Awaited
<1>5. \A k \in {d.id : d \in rest} : k \in Awaited /\ (k = i => next <= now)
  <2> SUFFICES ASSUME NEW d \in rest PROVE d.id \in Awaited /\ (d.id = i => next <= now)
    OBVIOUS
  <2>1. CASE d \in job.copies \ {c} BY <1>2, <1>3, <2>1 DEF Awaited
  <2>2. CASE d \in added BY <1>3, <1>4, <2>2 DEF Copy
  <2> QED BY <2>1, <2>2
<1>6. \A a, b \in rest : a.id = b.id => a = b
  <2>1. \A d \in added : d = Copy(i, plans') /\ d.id = i BY DEF Copy
  <2>2. \A d \in job.copies \ {c} : d.id # i BY <1>2, <1>3
  <2> HIDE DEF added, i
  <2> QED BY <1>3, <2>1, <2>2
<1> HIDE DEF c, next, again, added, rest
<1>7. plans \in Seq(Row) /\ plans[i] \in Row /\ Sound(plans, ledger) /\ OnTime(plans, ledger, now)
  BY <1>2 DEF Uncrossed, Sound, TablesTyped, Licensed
<1>8. /\ DOMAIN plans' = DOMAIN plans /\ \A k \in DOMAIN plans : k # i => plans'[k] = plans[k]
      /\ plans'[i].status = plans[i].status /\ plans'[i].anchor = plans[i].anchor
      /\ plans'[i].schedule = plans[i].schedule /\ plans'[i].next = next
  <2>1. plans'[i] = row /\ DOMAIN plans' = DOMAIN plans
        /\ \A k \in DOMAIN plans : k # i => plans'[k] = plans[k]
    BY <1>1, <1>2, <1>7
  <2>2. /\ row.status = plans[i].status /\ row.anchor = plans[i].anchor
        /\ row.schedule = plans[i].schedule /\ row.next = next
    BY <1>7 DEF Row
  <2> QED BY <2>1, <2>2
<1>9. i \in Live(plans) => next = FirstAfter(plans[i].anchor, Month, plans[i].next)
  <2> SUFFICES ASSUME i \in Live(plans) PROVE next = FirstAfter(plans[i].anchor, Month, plans[i].next)
    OBVIOUS
  <2>1. plans[i].status # "ENDED"
    BY DEF Live, LiveStatuses, Trials, Switches
  <2> QED BY <1>1, <2>1 DEF next, next_invoice_date
<1> HIDE DEF i
<1>10. Live(plans') = Live(plans) /\ Regular(plans') = Regular(plans)
  <2>1. \A k \in DOMAIN plans : plans'[k].status = plans[k].status BY <1>8
  <2> QED BY <1>8, <2>1 DEF Live, Regular
<1>11. \A k \in Regular(plans) : CycleOf(plans', ledger', k) = CycleOf(plans, ledger, k)
                                 /\ Slack(plans'[k]) = Slack(plans[k])
  <2> SUFFICES ASSUME NEW k \in Regular(plans)
               PROVE  CycleOf(plans', ledger, k) = CycleOf(plans, ledger, k)
                      /\ Slack(plans'[k]) = Slack(plans[k])
    BY <1>1
  <2>1. k \in Live(plans) /\ k \in Live(plans') /\ k \in DOMAIN plans
        /\ plans'[k].anchor = plans[k].anchor /\ plans'[k].schedule = plans[k].schedule
        /\ plans[k].status \notin Trials /\ plans'[k].status \notin Trials
    BY <1>8, <1>10 DEF Regular, Live
  <2>2. Sound(plans', ledger) BY <1>1
  <2>3. CycleOf(plans', ledger, k) = CycleOf(plans, ledger, k)
    BY <1>7, <2>1, <2>2, SameCycle
  <2> QED BY <2>1, <2>3 DEF Slack
<1>12. OnTime(plans', ledger', now)
  <2>1. i \in Live(plans) =>
          /\ plans[i].status \in Trials => next >= now
          /\ i \in Regular(plans) =>
              /\ next >= now \/ (next < CycleOf(plans, ledger, i) /\ now <= CycleOf(plans, ledger, i))
              /\ next <= CycleOf(plans, ledger, i) + Slack(plans[i]) + Month
    BY <1>3, <1>7, <1>9, NextInvoiceOnTime
  <2>2. ASSUME NEW k \in Live(plans), plans'[k].status \in Trials PROVE plans'[k].next >= now
    <3>1. k \in DOMAIN plans BY DEF Live
    <3>2. CASE k = i BY <1>8, <2>1, <2>2, <3>2
    <3>3. CASE k # i BY <1>7, <1>8, <2>2, <3>1, <3>3 DEF OnTime
    <3> QED BY <3>2, <3>3
  <2>3. ASSUME NEW k \in Regular(plans) PROVE Timely(plans', ledger', k, now)
    <3>1. k \in Live(plans) /\ k \in DOMAIN plans /\ Timely(plans, ledger, k, now)
      BY <1>7 DEF OnTime, Regular, Live
    <3>2. CASE k = i BY <1>8, <1>11, <2>1, <3>1, <3>2 DEF Timely, Ahead
    <3>3. CASE k # i BY <1>8, <1>11, <3>1, <3>3 DEF Timely, Ahead
    <3> QED BY <3>2, <3>3
  <2> QED BY <1>10, <2>2, <2>3 DEF OnTime
<1>13. ASSUME NEW k \in Regular(plans'), k # i, job.tier \/ k \in Awaited
       PROVE  Ready(plans', ledger', k, now)
  <2>1. Ready(plans, ledger, k, now) /\ plans'[k] = plans[k] /\ k \in Regular(plans)
    BY <1>3, <1>8, <1>10, <1>13 DEF AllReady, Regular, Live
  <2> QED BY <1>11, <2>1 DEF Ready, Near
<1>14. job.tier => i \notin Regular(plans') /\ \A k \in Awaited : Closed(plans'[k])
  <2>1. Awaited \subseteq DOMAIN plans BY AwaitedPlans
  <2>2. \A k \in DOMAIN plans : plans'[k].status = plans[k].status BY <1>8
  <2>3. job.tier => \A k \in Awaited : Closed(plans'[k])
    BY <1>3, <2>1, <2>2 DEF AllReady, Closed
  <2>4. \A k \in Regular(plans') : ~ Closed(plans'[k])
    BY DEF Closed, Regular, Live, LiveStatuses, Trials, Switches
  <2> QED BY <1>4, <2>3, <2>4
<1>15. JobReady'
  <2>1. CASE job' = NoJob BY <2>1 DEF JobReady, NoJob
  <2>2. CASE job' = [job EXCEPT !.step = "cycle", !.copies = rest]
    <3>1. /\ job'.step = "cycle" /\ job'.copies = rest /\ job'.until = now /\ job'.tier = job.tier
          /\ "tier" \in DOMAIN job'
      BY <1>3, <2>2
    <3>2. Awaited' = {d.id : d \in rest} BY <3>1 DEF Awaited
    <3>3. ASSUME NEW k \in Regular(plans'), job.tier \/ k \in Awaited'
          PROVE  Ready(plans', ledger', k, now)
      <4>1. k \in Awaited' => k \in Awaited /\ (k = i => next <= now)
        BY <1>5, <3>2
      <4>2. CASE k = i BY <1>8, <1>14, <3>3, <4>1, <4>2 DEF Ready
      <4>3. CASE k # i BY <1>13, <3>3, <4>1, <4>3
      <4> QED BY <4>2, <4>3
    <3>4. job.tier => \A k \in Awaited' : Closed(plans'[k])
      BY <1>5, <1>14, <3>2
    <3>5. AllReady(Awaited', job.tier, plans', ledger', now)
      BY <3>3, <3>4 DEF AllReady
    <3> QED BY <1>1, <1>3, <1>6, <3>1, <3>5 DEF JobReady, Charging
  <2>3. CASE /\ job.tier
             /\ job' = [job EXCEPT !.step = "cycle", !.copies = {Copy(new, plans')}, !.tier = FALSE]
    <3>1. /\ job'.step = "cycle" /\ job'.copies = {Copy(new, plans')} /\ job'.until = now
          /\ job'.tier = FALSE /\ "tier" \in DOMAIN job'
      BY <1>3, <2>3
    <3> HIDE DEF new
    <3>2. Awaited' = {new} BY <3>1 DEF Awaited, Copy
    <3>3. \A k \in Regular(plans') : k \in Awaited' => Ready(plans', ledger', k, now)
      BY <1>13, <1>14, <2>3
    <3>4. AllReady(Awaited', FALSE, plans', ledger', now)
      BY <3>3 DEF AllReady
    <3> QED BY <1>1, <3>1, <3>4 DEF JobReady, Charging
  <2> QED BY <1>1, <2>1, <2>2, <2>3
<1>16. Short' \/ Enough(plans', ledger', users')
  <2>1. Short => Short' BY <1>1, <1>8, ShortStays
  <2>2. Enough(plans, ledger, users) => Enough(plans', ledger', users')
    BY <1>1, <1>10 DEF Enough
  <2> QED BY <2>1, <2>2 DEF Licensed
<1>17. ReadsNow' /\ Past(ledger', now) BY <1>1 DEF Licensed, ReadsNow
<1> QED BY <1>1, <1>12, <1>15, <1>16, <1>17 DEF Licensed

LEMMA InvoicePlansLicenses ==
  ASSUME Uncrossed, Licensed, invoice_plans_as_needed
  PROVE  Licensed'
<1>1. /\ job' = [NoJob EXCEPT !.step = "cycle", !.until = now, !.copies = {Copy(i, plans) : i \in Due}]
      /\ UNCHANGED <<plans, ledger, users, marks, now, tx>>
  BY DEF invoice_plans_as_needed, tables, clock
<1>2. /\ job'.step = "cycle" /\ job'.until = now /\ job'.copies = {Copy(i, plans) : i \in Due}
      /\ job'.tier = FALSE /\ "tier" \in DOMAIN job'
  BY <1>1 DEF NoJob
<1>3. Awaited' = Due
  <2>1. \A i : Copy(i, plans).id = i BY DEF Copy
  <2>2. ASSUME NEW k \in Awaited' PROVE k \in Due
    <3>1. PICK c \in job'.copies : k = c.id BY <2>2 DEF Awaited
    <3>2. PICK i \in Due : c = Copy(i, plans) BY <1>2
    <3> QED BY <2>1, <3>1, <3>2
  <2>3. ASSUME NEW k \in Due PROVE k \in Awaited'
    <3>1. Copy(k, plans) \in job'.copies BY <1>2
    <3> QED BY <2>1, <3>1 DEF Awaited
  <2> QED BY <2>2, <2>3
<1>4. \A a, b \in job'.copies : a.id = b.id => a = b BY <1>2 DEF Copy
<1>5. AllReady(Due, FALSE, plans, ledger, now) BY DEF AllReady, Ready, Due
<1>6. JobReady' BY <1>1, <1>2, <1>3, <1>4, <1>5 DEF JobReady, Charging
<1>7. ReadsNow' BY <1>1 DEF Licensed, ReadsNow
<1> QED BY <1>1, <1>6, <1>7, QuietLicenses

(* A step of the job that calls Stripe, and one that ends it. *)
LEMMA QuietJobLicenses ==
  ASSUME Uncrossed, Licensed, UNCHANGED <<plans, ledger, users, marks, now, tx>>,
         \/ job' = NoJob
         \/ /\ job'.copies = job.copies /\ job'.until = job.until
            /\ "tier" \in DOMAIN job' /\ job'.tier = job.tier
            /\ job.step \in Charging /\ job'.step \in Charging
  PROVE  Licensed'
<1>1. ReadsNow' BY DEF Licensed, ReadsNow
<1>2. CASE job' = NoJob
  <2>1. JobReady' BY <1>2 DEF JobReady, NoJob
  <2> QED BY <1>1, <2>1, QuietLicenses
<1>3. CASE /\ job'.copies = job.copies /\ job'.until = job.until
           /\ "tier" \in DOMAIN job' /\ job'.tier = job.tier
           /\ job.step \in Charging /\ job'.step \in Charging
  <2>1. First' = First /\ Awaited' = Awaited BY <1>3 DEF First, Awaited
  <2>2. /\ JobReady /\ job.step # "idle" /\ \A a, b \in job'.copies : a.id = b.id => a = b
        /\ First'.id \in Regular(plans') => Near(plans', ledger', First'.id)
    BY <1>3, <2>1 DEF Licensed, JobReady, Charging
  <2>3. StaysNear(plans, ledger, plans', ledger') BY SameIsNear
  <2>4. JobReady' BY <1>3, <2>1, <2>2, <2>3, JobStaysReady
  <2> QED BY <1>1, <2>4, QuietLicenses
<1> QED BY <1>2, <1>3

(* Time passes when no live plan is due. *)
LEMMA TickLicenses ==
  ASSUME Uncrossed, Licensed, Tick, ~outage', outage \in BOOLEAN
  PROVE  Licensed'
<1>1. /\ UNCHANGED <<plans, ledger, users, marks, job>> /\ now' = now + 1 /\ Due = {}
      /\ job.step = "idle" /\ \A t \in Transactions : tx'[t] = Free
  BY DEF Tick, tables
<1>2. /\ now \in Nat /\ Sound(plans, ledger) /\ ledger \in Seq(LedgerRow)
      /\ OnTime(plans, ledger, now) /\ Past(ledger, now)
  BY DEF Uncrossed, Sound, TablesTyped, Licensed
<1>3. ASSUME NEW i \in Live(plans) PROVE plans[i].next >= now + 1
  <2>1. i \in DOMAIN plans /\ plans[i].next \in Nat /\ plans[i].next # None
    BY <1>2, TimesTyped DEF Sound, LiveAreInvoiced
  <2> QED BY <1>1, <1>2, <2>1 DEF Due
<1>4. OnTime(plans, ledger, now + 1)
  <2>1. \A i \in Regular(plans) : i \in Live(plans) /\ Timely(plans, ledger, i, now)
    BY <1>2 DEF OnTime, Regular
  <2>2. \A i \in Regular(plans) : Timely(plans, ledger, i, now + 1)
    BY <1>3, <2>1 DEF Timely
  <2> QED BY <1>3, <2>2 DEF OnTime
<1>5. Past(ledger, now + 1)
  <2> SUFFICES ASSUME NEW e \in DOMAIN ledger PROVE ledger[e].time <= now + 1
    BY DEF Past
  <2>1. ledger[e] \in LedgerRow /\ ledger[e].time <= now BY <1>2 DEF Past
  <2> QED BY <1>2, <2>1 DEF LedgerRow
<1>6. ReadsNow' BY <1>1 DEF ReadsNow, Free
<1>7. JobReady' BY <1>1 DEF Licensed, JobReady
<1>8. (Short \/ Enough(plans, ledger, users))'
  BY <1>1 DEF Licensed, Short, Marked
<1> QED BY <1>1, <1>4, <1>5, <1>6, <1>7, <1>8 DEF Licensed

LEMMA LicenseInit == Init => LicenseInv
<1> SUFFICES ASSUME Init PROVE LicenseInv
  OBVIOUS
<1>1. /\ plans = <<>> /\ ledger = <<>> /\ job = NoJob /\ outage = FALSE
      /\ tx = [t \in Transactions |-> Free]
  BY DEF Init
<1>2. Live(plans) = {} /\ Regular(plans) = {} BY <1>1 DEF Regular, Live
<1>3. OnTime(plans, ledger, now) /\ Past(ledger, now) /\ Enough(plans, ledger, users)
  BY <1>1, <1>2 DEF OnTime, Past, Enough
<1>4. ReadsNow /\ JobReady BY <1>1 DEF ReadsNow, Free, JobReady, NoJob
<1> QED BY <1>1, <1>3, <1>4, CancelInit DEF LicenseInv, Licensed

LEMMA LicenseStep == LicenseInv /\ [Next]_vars => LicenseInv'
<1> SUFFICES ASSUME LicenseInv, [Next]_vars PROVE LicenseInv'
  OBVIOUS
<1>1. CancelInv /\ CancelInv' /\ outage \in BOOLEAN
  BY CancelStep DEF LicenseInv
<1>2. crossed \in BOOLEAN /\ crossed' \in BOOLEAN /\ (~crossed' => ~crossed)
  BY <1>1, CrossedGrows DEF CancelInv, BillingInv
<1>3. outage' = outage \/ Tick
  BY DEF Next, vars, Invoicing, BeginUserChange, CommitUserChange, BeginUpgrade,
         process_initial_upgrade, do_update_plan, FinishUpdate, downgrade_now,
         do_change_plan_to_new_tier,
         invoice_plans_as_needed, switch_plan_tier, BeginInvoicing, StartEntry, SkipEntry,
         SaveInvoicing, CreateItem, FinishEntry, CreateInvoice, FinishInvoicing, JobDies
<1>4. outage' \in BOOLEAN /\ (~outage' => ~outage) BY <1>1, <1>3 DEF Tick
<1> SUFFICES ASSUME ~crossed', ~outage' PROVE Licensed'
  BY <1>1, <1>4 DEF LicenseInv
<1>5. Uncrossed /\ Honoured /\ Licensed /\ Sound(plans', ledger')
  BY <1>1, <1>2, <1>4 DEF LicenseInv, CancelInv, BillingInv, Uncrossed
<1>6. ASSUME NEW t \in Transactions, NEW delta \in {-1, 1}, BeginUserChange(t, delta) PROVE Licensed'
  BY <1>5, <1>6, BeginUserChangeLicenses
<1>7. ASSUME NEW t \in Transactions, CommitUserChange(t) PROVE Licensed'
  BY <1>2, <1>5, <1>7, CommitUserChangeLicenses
<1>8. ASSUME NEW t \in Transactions, NEW licenses \in 1..MaxUsers, NEW schedule \in Schedules,
             BeginUpgrade(t, licenses, schedule)
      PROVE  Licensed'
  BY <1>5, <1>8, BeginUpgradeLicenses
<1>9. ASSUME NEW t \in Transactions, process_initial_upgrade(t) PROVE Licensed'
  BY <1>2, <1>5, <1>9, UpgradeLicenses
<1>10. ASSUME NEW t \in Transactions, NEW request \in Requests,
             do_update_plan(t, request) \/ FinishUpdate(t, request)
      PROVE  Licensed'
  BY <1>2, <1>5, <1>10, UpdatePlanLicenses, FinishUpdateLicenses
<1>11. CASE downgrade_now BY <1>5, <1>11, DowngradeNowLicenses
<1>12. CASE do_change_plan_to_new_tier BY <1>5, <1>12, TierChangeLicenses
<1>13. CASE invoice_plans_as_needed BY <1>5, <1>13, InvoicePlansLicenses
<1>14. CASE switch_plan_tier BY <1>2, <1>5, <1>14, SwitchTierLicenses
<1>15. CASE BeginInvoicing BY <1>2, <1>5, <1>15, BeginInvoicingLicenses
<1>16. CASE StartEntry \/ SkipEntry \/ FinishEntry
  BY <1>5, <1>16, EntrySaved, SaveInvoicingLicenses
<1>17. CASE CreateItem \/ CreateInvoice
  <2>1. /\ \/ job.step = "item" /\ job' = [job EXCEPT !.step = "done", !.made = TRUE]
           \/ job.step = "entry" /\ job' = [job EXCEPT !.made = FALSE]
        /\ UNCHANGED <<plans, ledger, users, marks, now, tx>>
    BY <1>17 DEF CreateItem, CreateInvoice, tables, clock
  <2>2. /\ job'.copies = job.copies /\ job'.until = job.until /\ "tier" \in DOMAIN job'
        /\ job'.tier = job.tier /\ job.step \in Charging /\ job'.step \in Charging
    BY <1>5, <2>1 DEF Charging, Uncrossed, JobSound, Licensed, JobReady
  <2> QED BY <1>5, <2>1, <2>2, QuietJobLicenses
<1>18. CASE FinishInvoicing BY <1>2, <1>5, <1>18, FinishInvoicingLicenses
<1>19. CASE JobDies
  <2>1. job' = NoJob /\ UNCHANGED <<plans, ledger, users, marks, now, tx>>
    BY <1>19 DEF JobDies, tables, clock
  <2> QED BY <1>5, <2>1, QuietJobLicenses
<1>20. CASE Tick BY <1>1, <1>5, <1>20, TickLicenses
<1>21. CASE UNCHANGED vars
  <2>1. UNCHANGED <<plans, ledger, users, marks, now, tx, job>>
    BY <1>21 DEF vars
  <2>2. ReadsNow' /\ JobReady'
    BY <1>5, <2>1, SameIsNear, OthersKeepReady DEF Licensed, ReadsNow
  <2> QED BY <1>5, <2>1, <2>2, QuietLicenses
<1> QED
  BY <1>6, <1>7, <1>8, <1>9, <1>10, <1>11, <1>12, <1>13, <1>14, <1>15, <1>16, <1>17, <1>18,
     <1>19, <1>20, <1>21 DEF Next, Invoicing

LEMMA UsersLicensed == LicenseInv => LicensesForAllUsers
<1> DEFINE i == get_current_plan(plans)
<1> SUFFICES ASSUME LicenseInv, ~crossed, ~outage, i # 0,
                    ~ \E k \in DOMAIN plans : Marked("short", k)
             PROVE  ledger[Latest(EntriesOf(ledger, i))].atRenewal >= users
  BY DEF LicensesForAllUsers
<1>1. Uncrossed /\ Licensed BY DEF LicenseInv, CancelInv, BillingInv
<1>2. i \in Live(plans) BY <1>1, CurrentPlan DEF Uncrossed
<1> QED BY <1>1, <1>2 DEF Licensed, Short, Enough

(* The current plan has licenses at its renewal for all users, also when *)
(* transactions read the plan before others renew, switch or replace it, *)
(* and whatever the length of the month and the year.  It holds because a *)
(* plan whose invoice date has passed was renewed for a cycle that has not *)
(* ended: every actor who adds an entry renews the plan as of the present *)
(* time first, so the entry that is the latest is the one for the present *)
(* number of users.  Exempt are trials for fewer licenses than users, an *)
(* outage of the job and what follows a write that crosses another one. *)
THEOREM LicensesForAllUsersCorrect == Spec => []LicensesForAllUsers
<1>1. Spec => []LicenseInv BY LicenseInit, LicenseStep, PTL DEF Spec
<1> QED BY <1>1, UsersLicensed, PTL

=============================================================================
