------------------------- MODULE BillingInvariants --------------------------
(***************************************************************************)
(* The inductive invariants of Billing: what keeps the tables sound, every *)
(* entry of the ledger charged once, a cancelled plan from being renewed,  *)
(* the next invoice of a plan in its cycle, the periods one after another  *)
(* and the plan renewed for all users.  Each one extends those before it.  *)
(* BillingProofs shows that they hold in every reachable state.            *)
(***************************************************************************)
EXTENDS Billing

(* The tables: the rows of plans and of the ledger, and at most one live   *)
(* plan, which will be invoiced.                                           *)
Row == [status : LiveStatuses \cup {"ENDED"}, schedule : Schedules, anchor : Nat,
        next : Nat \cup {None}, through : Nat, invoicing : {"INITIAL", "STARTED", "DONE"}]

LedgerRow == [plan : Nat, renewal : BOOLEAN, time : Nat, licenses : Int, atRenewal : Int]

TablesTyped(ps, ls) == ps \in Seq(Row) /\ ls \in Seq(LedgerRow)

(* The cycle of a plan is counted from its last renewal, so it needs one.  *)
EachRenewed(ps, ls) ==
  \A i \in DOMAIN ps : \E e \in DOMAIN ls : ls[e].plan = i /\ ls[e].renewal

AtMostOneLive(ps) == \A i, j \in Live(ps) : i = j

LiveAreInvoiced(ps) == \A i \in Live(ps) : ps[i].next # None

Sound(ps, ls) ==
  TablesTyped(ps, ls) /\ EachRenewed(ps, ls) /\ AtMostOneLive(ps) /\ LiveAreInvoiced(ps)

(* During a trial, only entries from before its end are charged.           *)
BeforeEnd(ps, ls, i, e) == ps[i].status \in Trials => ls[e].time < ps[i].next

(* Writes, of any actor, after which what was invoiced still is: the rows  *)
(* stay, trials do not begin in old rows, they do not end before the time  *)
(* of an entry that was before their end, and no such entry gets beyond    *)
(* the one the plan is invoiced through.                                   *)
Advances(ps, ls, qs, ms) ==
  /\ DOMAIN ps \subseteq DOMAIN qs /\ DOMAIN ls \subseteq DOMAIN ms
  /\ \A e \in DOMAIN ls : ms[e] = ls[e]
  /\ \A i \in DOMAIN ps :
       /\ qs[i].invoicing = ps[i].invoicing
       /\ qs[i].status \in Trials => ps[i].status \in Trials
       /\ \A e \in EntriesOf(ls, i) : BeforeEnd(ps, ls, i, e) =>
            /\ BeforeEnd(qs, ms, i, e)
            /\ e <= ps[i].through => e <= qs[i].through
  /\ \A i \in DOMAIN qs \ DOMAIN ps : qs[i].status \in Trials => qs[i].invoicing = "DONE"

-----------------------------------------------------------------------------
(* The copies of a job are of existing plans.  Their contents matter only  *)
(* when the job writes whole decisions back, and then they are compared    *)
(* with the tables by "crossed".                                           *)
JobSound ==
  /\ {"step", "copies", "entries", "until"} \subseteq DOMAIN job
  /\ job.until \in Int /\ job.until <= now
  /\ job.entries \subseteq DOMAIN ledger
  /\ \A c \in job.copies : c.id \in DOMAIN plans
  /\ job.step # "idle" => job.copies # {}
  /\ job.step = "switch" => \A c \in job.copies : c.row.status = "SWITCH_PLAN_TIER_NOW"
  /\ job.step \in {"item", "done"} => job.entries # {}

UserTyped(x) ==
  /\ x.count \in Int /\ x.delta \in Int /\ x.plan \in Nat
  /\ x.plan # 0 => x.reading.time \in Nat

UpgradeTyped(x) == x.licenses \in Int /\ x.schedule \in Schedules /\ x.trial \in BOOLEAN

(* A trial may have become active since the page offered the request.      *)
RequestTyped(x) ==
  /\ x.plan # 0 /\ x.copy \in Row /\ x.request \in Requests
  /\ x.terms.status = x.copy.status /\ x.terms.schedule = x.copy.schedule
  /\ x.copy.status # "SWITCH_PLAN_TIER_NOW"
  /\ \/ x.request \in Offered(x.copy)
     \/ /\ x.copy.status = "ACTIVE"
        /\ x.request \in Schedules \cup {"ENDED", "DOWNGRADE_AT_END_OF_FREE_TRIAL"}

TxSound ==
  /\ DOMAIN tx = Transactions
  /\ \A t \in Transactions : /\ tx[t].kind = "user" => UserTyped(tx[t])
                             /\ tx[t].kind = "upgrade" => UpgradeTyped(tx[t])
                             /\ tx[t].kind = "request" => RequestTyped(tx[t])

Uncrossed ==
  /\ now \in Nat /\ trial_days \in Nat /\ users \in Int
  /\ Sound(plans, ledger) /\ JobSound /\ TxSound

BillingInv == crossed \in BOOLEAN /\ (~crossed => Uncrossed)

-----------------------------------------------------------------------------
(* Stripe is asked to charge an entry of the ledger at most once.  What    *)
(* was charged is behind the mark of its plan (invoiced_through), and what *)
(* the job is going to charge is ahead of it.                              *)

ChargedBy(its) == {its[k].entry : k \in DOMAIN its}

OnceEach(its) ==
  /\ \E S : its \in Seq(S)
  /\ \A k, l \in DOMAIN its : its[k].entry = its[l].entry => k = l

Charged == ChargedBy(items)

(* A plan with charged entries has been invoiced through them.             *)
Booked(ps, ls, charged) ==
  /\ \A e \in charged : /\ e \in DOMAIN ls /\ ls[e].plan \in DOMAIN ps
                        /\ e <= ps[ls[e].plan].through
                        /\ ps[ls[e].plan].invoicing # "INITIAL"
                        /\ BeforeEnd(ps, ls, ls[e].plan, e)
  /\ \A i \in DOMAIN ps : ps[i].status \in Trials => ps[i].invoicing # "INITIAL"

(* While the job calls Stripe, the plan is marked with the entry. *)
JobBooked ==
  job.step \in {"entry", "item", "done"} =>
    /\ \A d \in job.entries :
         /\ ledger[d].plan = First.id /\ BeforeEnd(plans, ledger, First.id, d)
         /\ \A e \in Charged : ledger[e].plan = First.id =>
              e <= d /\ (job.step # "done" => e # d)
    /\ job.step \in {"item", "done"} =>
         /\ plans[First.id].invoicing = "STARTED"
         /\ Min(job.entries) <= plans[First.id].through

Bills == Booked(plans, ledger, Charged) /\ JobBooked /\ OnceEach(items)

ChargeInv == BillingInv /\ (~crossed => Bills)

-----------------------------------------------------------------------------
(* A customer who asked for a downgrade is not renewed after it.  Renewals *)
(* are written in the order of their times and none is dated in the future *)
(* or, of a trial, after its end.  The end of the cycle, which is computed *)
(* from the last renewal of the plan, is therefore later than all of them. *)

RenewalsOf(ls, i) == {e \in EntriesOf(ls, i) : ls[e].renewal}

LastRenewal(ls, i) == Latest(RenewalsOf(ls, i))

RenewedBy(ls, t) == \A e \in DOMAIN ls : ls[e].renewal => ls[e].time <= t

TrialDated(p, ls, t) == RenewedBy(ls, p.next) /\ p.anchor <= p.next /\ p.anchor <= t

Dated(ps, ls, t) ==
  /\ RenewedBy(ls, t)
  /\ \A i \in Live(ps) :
       /\ ps[i].status \in Trials => TrialDated(ps[i], ls, t)
       /\ ps[i].status \notin Trials => RenewedBy(ls, ls[LastRenewal(ls, i)].time)

Downgrades == {"DOWNGRADE_AT_END_OF_CYCLE", "DOWNGRADE_AT_END_OF_FREE_TRIAL"}

(* No plan goes on after the end of the cycle.                             *)
Kept(ps, ls, end) ==
  end # None => /\ \A i \in Live(ps) : ps[i].status \in Downgrades
                /\ \A e \in DOMAIN ls : ls[e].renewal => ls[e].time < end

(* A request has found that the trial goes on, or went on until now.       *)
RequestDated(x, t) ==
  /\ x.copy.status \in Trials => t < x.terms.cycle
  /\ x.request \in Schedules => /\ x.copy.anchor <= x.copy.next /\ x.copy.anchor <= t
                                /\ x.terms.renewed <= x.copy.next

(* Transactions have read in the past, and a change of tier ends the old   *)
(* plan now.                                                               *)
ReadsDated ==
  /\ \A t \in Transactions : tx[t].kind = "user" /\ tx[t].plan # 0 => tx[t].reading.time <= now
  /\ \A t \in Transactions : tx[t].kind = "request" => RequestDated(tx[t], now)
  /\ job.step = "switch" => \A c \in job.copies : c.row.next = now

Honoured ==
  /\ Dated(plans, ledger, now) /\ cancelled \in Int /\ Kept(plans, ledger, cancelled)
  /\ ReadsDated

CancelInv == BillingInv /\ (~crossed => Honoured)

(* A row q that ends the plan p or leaves its trial what it is.            *)
Succeeds(p, q) ==
  /\ q.status \in Trials => p.status \in Trials /\ q.anchor = p.anchor /\ p.next <= q.next
  /\ q.status \in LiveStatuses \ Trials => p.status \notin Trials

Written(ps, i, row, qs) ==
  /\ qs \in Seq(Row) /\ DOMAIN qs = DOMAIN ps /\ qs[i] = row
  /\ \A k \in DOMAIN ps : k # i => qs[k] = ps[k]

-----------------------------------------------------------------------------
(* A live plan is renewed for the present time when it is not due.  Its    *)
(* invoice dates and the ends of its cycles are on one grid of months,     *)
(* that starts at its anchor, so the next invoice is never after the end   *)
(* of the cycle: when they fall together the renewal comes first, and the  *)
(* next invoice is one month on.                                           *)

Regular(ps) == {i \in Live(ps) : ps[i].status \notin Trials \cup {"SWITCH_PLAN_TIER_NOW"}}

CycleOf(ps, ls, i) == get_next_billing_cycle(i, ps[i], ls)

InTime(ps, ls, i) == ps[i].next <= CycleOf(ps, ls, i)

(* The cycle was renewed before the invoice of its first month.            *)
Ahead(ps, ls, i) == ps[i].next < CycleOf(ps, ls, i)

Aligned == \A i \in Regular(plans) : Mark("late", i) \in marks \/ InTime(plans, ledger, i)

Charging == {"entry", "item", "done"}

ChargedAhead(i, until, ps, ls, ms) ==
  i \in Regular(ps) /\ ps[i].next <= until => Mark("late", i) \in ms \/ Ahead(ps, ls, i)

(* While the job charges what was due.                                     *)
JobAligned ==
  job.step \in Charging => ChargedAhead(First.id, job.until, plans, ledger, marks)

PeriodInv == CancelInv /\ (~crossed => Aligned /\ JobAligned)

(* Writes that move no date but the end of the cycle, and that only on.    *)
KeepsTime(ps, ls, qs, ms) ==
  \A i \in Regular(qs) :
    \/ Ahead(qs, ms, i)
    \/ /\ i \in Regular(ps) /\ qs[i].next = ps[i].next
       /\ CycleOf(ps, ls, i) <= CycleOf(qs, ms, i)

(* A row that says no less of the dates than the old one, if it is regular *)
KeepsDates(p, q) ==
  q.status \in LiveStatuses \ (Trials \cup {"SWITCH_PLAN_TIER_NOW"}) =>
    /\ p.status \in LiveStatuses \ (Trials \cup {"SWITCH_PLAN_TIER_NOW"})
    /\ q.next = p.next /\ q.anchor = p.anchor /\ q.schedule = p.schedule

(* A row with the invoicing status of the entry that comes next.           *)
SavedAs(row, status) == [row EXCEPT !.through = Min(job.entries), !.invoicing = status]

(* The steps that leave the tables and the time alone, and of the job at   *)
(* most end it, begin it or turn its items into an invoice.                *)
Quiet ==
  \/ \E t \in Transactions :
       \/ \E delta \in {-1, 1} : BeginUserChange(t, delta)
       \/ \E licenses \in 1..MaxUsers, schedule \in Schedules :
             BeginUpgrade(t, licenses, schedule)
  \/ invoice_plans_as_needed \/ CreateInvoice \/ JobDies
  \/ UNCHANGED vars

(* The job charges what it charged before.                                 *)
ChargesOn ==
  job'.step \in Charging =>
    job.step \in Charging /\ First'.id = First.id /\ job'.until = job.until

-----------------------------------------------------------------------------
(* What make_end_of_cycle_updates_if_needed makes of plan i at time t.     *)

LatestBy(ls, i, t) == Latest({e \in EntriesOf(ls, i) : ls[e].time <= t})

(* A renewal at the end of the cycle, for the licenses of the last entry.  *)
RenewedAt(ps, ls, i, t, e) ==
  /\ e \in LedgerRow /\ e.renewal /\ e.time = CycleOf(ps, ls, i)
  /\ e.atRenewal = ls[LatestBy(ls, i, t)].atRenewal

(* The plan ps[i] is over in qs.                                           *)
EndsIn(ps, ls, i, qs) ==
  \E row \in Row : /\ row.status = "ENDED" /\ Written(ps, i, row, qs)
                   /\ row.anchor = ps[i].anchor /\ row.schedule = ps[i].schedule
                   /\ row.invoicing = ps[i].invoicing
                   /\ row.through \in {ps[i].through, Latest(EntriesOf(ls, i))}

Stays(ps, ls, i, t, c) ==
  /\ c.plans = ps /\ c.ledger = ls /\ c.new = 0
  /\ \/ c.last = LatestBy(ls, i, t) /\ (c.last = 0 \/ t < CycleOf(ps, ls, i))
     \/ c.last = 0 /\ ps[i].status \in {"SWITCH_PLAN_TIER_NOW", "ENDED"}

GoesOn(ps, ls, i, t, c) ==
  /\ ps[i].status = "ACTIVE" /\ c.plans = ps /\ c.new = 0
  /\ \E e : RenewedAt(ps, ls, i, t, e) /\ e.plan = i /\ c.ledger = Append(ls, e)

Starts(ps, ls, i, t, c) ==
  /\ ps[i].status = "FREE_TRIAL" /\ c.new = 0
  /\ \E e : RenewedAt(ps, ls, i, t, e) /\ e.plan = i /\ c.ledger = Append(ls, e)
  /\ \E row \in Row : /\ Written(ps, i, row, c.plans) /\ row.status = "ACTIVE"
                      /\ row.anchor = CycleOf(ps, ls, i) /\ row.next = ps[i].next
                      /\ row.through = LatestBy(ls, i, t) /\ row.invoicing = ps[i].invoicing

Switched(ps, ls, i, t, c) ==
  /\ ps[i].status \in Switches /\ c.new = Len(ps) + 1
  /\ \E e : RenewedAt(ps, ls, i, t, e) /\ e.plan = Len(ps) + 1 /\ c.ledger = Append(ls, e)
  /\ \E os \in Seq(Row), new \in Row :
       /\ EndsIn(ps, ls, i, os) /\ c.plans = Append(os, new) /\ new.status = "ACTIVE"
       /\ new.anchor = CycleOf(ps, ls, i) /\ new.next = CycleOf(ps, ls, i)
       /\ new.schedule = IF ps[i].status = "SWITCH_TO_ANNUAL_AT_END_OF_CYCLE"
                         THEN "annual" ELSE "monthly"

Ends(ps, ls, i, c) ==
  /\ ps[i].status \in Downgrades /\ EndsIn(ps, ls, i, c.plans)
  /\ c.ledger = ls /\ c.new = 0 /\ c.last = 0

Cycled(ps, ls, i, t, c) ==
  \/ Stays(ps, ls, i, t, c)
  \/ /\ i \in Live(ps) /\ CycleOf(ps, ls, i) <= t /\ LatestBy(ls, i, t) # 0
     /\ \/ c.last = Len(ls) + 1 /\ (GoesOn(ps, ls, i, t, c) \/ Starts(ps, ls, i, t, c)
                                      \/ Switched(ps, ls, i, t, c))
        \/ Ends(ps, ls, i, c)

(* With the renewal e, which is of the only plan that lives then.          *)
RenewsWith(ps, ls, i, t, c, e) ==
  /\ RenewedAt(ps, ls, i, t, e) /\ c.ledger = Append(ls, e) /\ c.last = Len(ls) + 1
  /\ e.plan \in Live(c.plans) /\ \A k \in Live(c.plans) : k = e.plan
  /\ c.plans[e.plan].status = "ACTIVE"
  /\ \/ GoesOn(ps, ls, i, t, c) /\ e.plan = i
     \/ Starts(ps, ls, i, t, c) /\ e.plan = i /\ c.plans[i].next = ps[i].next
     \/ /\ Switched(ps, ls, i, t, c) /\ e.plan = Len(ps) + 1 /\ e.plan # i
        /\ c.plans[e.plan].next = CycleOf(ps, ls, i)

(* What a change of tier makes of the live plan i: its end, and a new plan *)
(* as of its next invoice date, with its first renewal.                    *)
TierSwitched(i, os, new, e) ==
  /\ Written(plans, i, os[i], os) /\ os[i] \in Row /\ os[i].status = "ENDED"
  /\ os[i].anchor = plans[i].anchor /\ os[i].schedule = plans[i].schedule
  /\ os[i].through = plans[i].through /\ os[i].invoicing = plans[i].invoicing
  /\ plans' = Append(os, new) /\ new \in Row /\ new.status = "ACTIVE"
  /\ new.anchor = plans[i].next /\ new.next = plans[i].next
  /\ ledger' = Append(ledger, e) /\ e \in LedgerRow /\ e.plan = Len(plans) + 1
  /\ e.renewal /\ e.time = plans[i].next
  /\ e.atRenewal = ledger[Latest(EntriesOf(ledger, i))].atRenewal

-----------------------------------------------------------------------------
(* What do_update_plan makes of the current plan i: the updates at the end *)
(* of its cycle leave the tables as in c,                                  *)

Requested(i, c) ==
  /\ i \in Live(plans) /\ i \in DOMAIN c.plans /\ c.copy = c.plans[i]
  /\ c = make_end_of_cycle_updates_if_needed(Reading(i, plans[i], now, ledger), plans, ledger)
  /\ Cycled(plans, ledger, i, now, c) /\ Sound(c.plans, c.ledger)
  /\ Advances(plans, ledger, c.plans, c.ledger) /\ plans' = c.plans /\ ledger' = c.ledger

(* and the transaction t knows what it found.                              *)
Noted(t, request, i, c) ==
  /\ c.new = 0 /\ c.last # 0 /\ request \in Offered(plans[i]) /\ i \in Live(c.plans)
  /\ tx' = [tx EXCEPT ![t] = [kind |-> "request", request |-> request, plan |-> i,
                              copy |-> c.plans[i], terms |-> Terms(i, c.plans[i], c.ledger)]]

CutOff(i, row) ==
  /\ row = DowngradedNow(plans[i], i, ledger) /\ row \in Row /\ row.status = "ENDED"
  /\ Written(plans, i, row, plans') /\ ledger' = ledger
  /\ marks' = marks \cup {Mark("cut", i)} /\ cancelled' = cancelled

(* Another plan follows, with the rest of the trial.                       *)
ScheduleChanged(i, os, new, x) ==
  /\ plans[i].status \in {"FREE_TRIAL", "ACTIVE"} /\ i \in Live(plans)
  /\ Written(plans, i, os[i], os) /\ os[i] \in Row /\ os[i].status = "ENDED"
  /\ os[i].anchor = plans[i].anchor /\ os[i].schedule = plans[i].schedule
  /\ os[i].through = plans[i].through /\ os[i].invoicing = plans[i].invoicing
  /\ plans' = Append(os, new) /\ new \in Row /\ new.status = "FREE_TRIAL"
  /\ new.anchor = plans[i].anchor /\ new.next = plans[i].next
  /\ new.through = Len(ledger) + 1 /\ new.invoicing = "DONE"
  /\ ledger' = Append(ledger, x) /\ x \in LedgerRow /\ x.plan = Len(plans) + 1
  /\ x.renewal /\ x.time = plans[i].anchor
  /\ x.atRenewal = ledger[Latest(EntriesOf(ledger, i))].atRenewal
  /\ marks' = marks \cup {Mark("cut", i), Mark("trial", Len(plans) + 1)}
  /\ cancelled' = cancelled

StatusChanged(request, i, row) ==
  /\ row = [plans[i] EXCEPT !.status = request] /\ row \in Row /\ row.status = request
  /\ row.schedule = plans[i].schedule /\ row.anchor = plans[i].anchor
  /\ row.next = plans[i].next /\ row.through = plans[i].through
  /\ row.invoicing = plans[i].invoicing
  /\ Written(plans, i, row, plans') /\ ledger' = ledger /\ marks' = marks
  /\ i \in Live(plans) /\ request \in LiveStatuses
  /\ "SWITCH_PLAN_TIER_NOW" \notin {request, plans[i].status}
  /\ request \in Trials <=> plans[i].status \in Trials
  /\ request = "SWITCH_TO_MONTHLY_AT_END_OF_CYCLE" => plans[i].schedule = "annual"
  /\ \/ request \in Downgrades /\ cancelled' = CycleOf(plans, ledger, i)
     \/ request \in {"ACTIVE", "FREE_TRIAL"} /\ cancelled' = None
     \/ request \in Switches /\ plans[i].status \notin Downgrades /\ cancelled' = cancelled

(* The request writes what it has read as y.                               *)
UpdatedBy(request, i, y) ==
  /\ \E t \in Transactions : y = tx[t] /\ y.kind = "request"
  /\ y.request = request /\ i \in Live(plans) /\ Terms(i, plans[i], ledger) = y.terms
  /\ y.copy.status = plans[i].status
  /\ \/ \E row : CutOff(i, row)
     \/ /\ request \in Schedules /\ plans[i] = y.copy
        /\ \E os, new, x : ScheduleChanged(i, os, new, x)
     \/ \E row : StatusChanged(request, i, row)

-----------------------------------------------------------------------------
(* No period is charged twice.  Renewals follow each other: the period of  *)
(* one has ended when the next one begins, unless the customer was cut off *)
(* or credited, or it began a trial, for which no one is charged.  A new   *)
(* renewal is either of the plan that is live, and begins where its last   *)
(* one ends, or is made now, when no plan is live and all periods are over *)

InitialOf(ls, ms, e) ==
  Mark("trial", ls[e].plan) \in ms /\ \A d \in EntriesOf(ls, ls[e].plan) : e <= d

Exempt(ls, ms, e) ==
  \/ Mark("cut", ls[e].plan) \in ms \/ Mark("credit", ls[e].plan) \in ms
  \/ InitialOf(ls, ms, e)

EndOf(ps, ls, e) == start_of_next_billing_cycle(ps[ls[e].plan], ls[e].time)

CoveredBy(ps, ls, ms, t) ==
  \A e \in DOMAIN ls : ls[e].renewal => Exempt(ls, ms, e) \/ EndOf(ps, ls, e) <= t

Paired(ps, ls, ms) ==
  \A d, e \in DOMAIN ls : ls[d].renewal /\ ls[e].renewal /\ d < e =>
    Exempt(ls, ms, d) \/ EndOf(ps, ls, d) <= ls[e].time

Over(ps, ls, ms, t) ==
  \A e \in DOMAIN ls : ls[e].renewal /\ ls[e].plan \notin Live(ps) =>
    Exempt(ls, ms, e) \/ EndOf(ps, ls, e) <= t

LastOfAll(ps, ls) ==
  \A i \in Live(ps) : \A e \in DOMAIN ls : ls[e].renewal => e <= LastRenewal(ls, i)

TrialRows(ps, ls, ms) ==
  \A i \in Live(ps) : ps[i].status \in Trials =>
    \A e \in RenewalsOf(ls, i) : InitialOf(ls, ms, e) /\ ls[e].time <= ps[i].anchor

OfPlans(ps, ls, ms) ==
  /\ \A m \in ms : m.plan \in DOMAIN ps
  /\ \A e \in DOMAIN ls : ls[e].plan \in DOMAIN ps

Successive(ps, ls, ms, t) ==
  /\ OfPlans(ps, ls, ms) /\ Paired(ps, ls, ms) /\ Over(ps, ls, ms, t)
  /\ LastOfAll(ps, ls) /\ TrialRows(ps, ls, ms)

-----------------------------------------------------------------------------
(* The renewal that begins a trial is never charged: the plan is invoiced  *)
(* through it from the start.                                              *)

FreeTrials(ps, ls, ms) ==
  \A e \in DOMAIN ls : InitialOf(ls, ms, e) =>
    e <= ps[ls[e].plan].through /\ ps[ls[e].plan].invoicing # "INITIAL"

Orderly(ps, ls, ms, t) == Successive(ps, ls, ms, t) /\ FreeTrials(ps, ls, ms)

NoNewTrial(ls, ms, ks, ns) ==
  \A e \in DOMAIN ks : InitialOf(ks, ns, e) => e \in DOMAIN ls /\ InitialOf(ls, ms, e)

-----------------------------------------------------------------------------
(* The entries that begin trials are not charged, nor going to be.         *)
JobFree ==
  \A e \in DOMAIN ledger : InitialOf(ledger, marks, e) => e \notin Charged /\ e \notin job.entries

Ordered == Orderly(plans, ledger, marks, now) /\ JobFree

(* A request for another schedule has found that the trial was not renewed *)
(* after its anchor.                                                       *)
RequestsOrdered ==
  \A t \in Transactions : tx[t].kind = "request" /\ tx[t].request \in Schedules =>
    tx[t].terms.renewed <= tx[t].copy.anchor

PaidInv == ChargeInv /\ CancelInv /\ (~crossed => Ordered /\ RequestsOrdered)

-----------------------------------------------------------------------------
(* The current plan is renewed for all users.  The job renews it as of its *)
(* next invoice date, for the licenses of the last entry by then, so that  *)
(* entries since would be forgotten, if it was late.  It is not, without   *)
(* an outage: an invoice date that has passed lies in a cycle that was     *)
(* renewed.                                                                *)

Term(p) == Month * (IF p.schedule = "annual" THEN MonthsPerYear ELSE 1)

(* The first invoice of a monthly plan can be a month late.                *)
Slack(p) == IF p.schedule = "annual" THEN 0 ELSE Month

Near(ps, ls, i) == ps[i].next <= CycleOf(ps, ls, i) + Slack(ps[i])

Timely(ps, ls, i, t) ==
  /\ ps[i].next >= t \/ (Ahead(ps, ls, i) /\ t <= CycleOf(ps, ls, i))
  /\ ps[i].next <= CycleOf(ps, ls, i) + Slack(ps[i]) + Month
  /\ ps[i].status = "SWITCH_TO_MONTHLY_AT_END_OF_CYCLE" => ps[i].schedule = "annual"

OnTime(ps, ls, t) ==
  /\ \A i \in Live(ps) : ps[i].status \in Trials => ps[i].next >= t
  /\ \A i \in Regular(ps) : Timely(ps, ls, i, t)

AllNear(ps, ls) == \A i \in Regular(ps) : Near(ps, ls, i)

(* A plan whose terms the actors no longer change.                         *)
Closed(p) == p.status \in {"SWITCH_PLAN_TIER_NOW", "ENDED"}

(* Writes that let no plan that was near, or is new, be far from its next  *)
(* invoice.                                                                *)
StaysNear(ps, ls, qs, ms) ==
  /\ \A i \in Regular(qs) :
       \/ Near(qs, ms, i)
       \/ i \in Regular(ps) /\ qs[i].next = ps[i].next /\ ~ Near(ps, ls, i)
  /\ \A i \in DOMAIN ps : Closed(ps[i]) => Closed(qs[i])

(* No entry is dated in the future.                                        *)
Past(ls, t) == \A e \in DOMAIN ls : ls[e].time <= t

Enough(ps, ls, n) == \A i \in Live(ps) : ls[Latest(EntriesOf(ls, i))].atRenewal >= n

(* A row q that keeps what the invoices of p depend on.                    *)
KeepsTerms(p, q) ==
  /\ KeepsDates(p, q)
  /\ q.status = "SWITCH_TO_MONTHLY_AT_END_OF_CYCLE" => q.schedule = "annual"
  /\ q.status \in Trials => p.status \in Trials /\ q.next = p.next
  /\ Closed(p) => Closed(q)

Ready(ps, ls, i, t) == Near(ps, ls, i) \/ ps[i].next <= t

(* Plans that the job will invoice are near, or due.  A tier change will   *)
(* also invoice the plan that comes after the one it ends.                 *)
AllReady(ids, tier, ps, ls, t) ==
  /\ \A i \in Regular(ps) : tier \/ i \in ids => Ready(ps, ls, i, t)
  /\ tier => \A i \in ids : Closed(ps[i])

Awaited == {c.id : c \in job.copies}

JobReady ==
  /\ "tier" \in DOMAIN job /\ job.tier \in BOOLEAN
  /\ job.step # "idle" =>
       /\ job.until = now
       /\ \A c, d \in job.copies : c.id = d.id => c = d
       /\ AllReady(Awaited, job.tier, plans, ledger, now)
       /\ job.step \in Charging /\ First.id \in Regular(plans) => Near(plans, ledger, First.id)

ReadsNow ==
  \A t \in Transactions :
    /\ tx[t].kind = "user" /\ tx[t].plan # 0 => tx[t].reading.time = now
    /\ tx[t].kind = "request" /\ tx[t].request \in Schedules => now <= tx[t].copy.next

Short == \E k \in DOMAIN plans : Marked("short", k)

Licensed ==
  /\ OnTime(plans, ledger, now) /\ Past(ledger, now)
  /\ Short \/ Enough(plans, ledger, users)
  /\ ReadsNow /\ JobReady

LicenseInv == CancelInv /\ outage \in BOOLEAN /\ (~crossed /\ ~outage => Licensed)

(* The first row of a new plan, and its first renewal.                     *)
Begins(row, e, n) ==
  /\ e.renewal /\ e.time <= n
  /\ \/ row.status = "FREE_TRIAL" /\ n <= row.next
     \/ /\ row.status = "ACTIVE" /\ row.anchor = n /\ e.time = n
        /\ n <= row.next /\ row.next <= n + 2 * Month

=============================================================================
