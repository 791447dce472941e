------------------------------- MODULE Billing -------------------------------
(***************************************************************************)
(* The billing system of corporate/lib/stripe.py for one Zulip Cloud       *)
(* organization whose licenses are managed automatically and whose card is *)
(* charged automatically: its CustomerPlan rows, the LicenseLedger, and    *)
(* what Stripe was asked to charge.                                        *)
(*                                                                         *)
(* Four kinds of actor work on these tables without locking a row of them: *)
(* the daily invoice_plans job, transactions that create or deactivate a   *)
(* user, requests of the billing page, and the handling of a paid upgrade  *)
(* invoice.  The job holds copies of the plans it loaded when it started   *)
(* and writes single columns back; it talks to Stripe between its writes   *)
(* and can die at every one of these calls.                                *)
(*                                                                         *)
(* A user transaction reads in one step and writes in another, a request   *)
(* of the billing page renews the plan in one and changes it in another.   *)
(* Upgrades, the writes of a tier change before it calls invoice_plan, the *)
(* writes of a change of the schedule and the downgrade of a deactivated   *)
(* organization are one step each.                                         *)
(***************************************************************************)
EXTENDS Integers, Sequences, FiniteSets, FiniteSetsExt

CONSTANTS Transactions,   \* the transactions that may be open at once
          Month,          \* units of time in a month
          MonthsPerYear,  \* 12 in the code
          TrialLengths,   \* values of CLOUD_FREE_TRIAL_DAYS, 0 for no free trial
          MaxTime,        \* bound on the clock
          MaxUsers,       \* bound on the users of the organization
          MaxPlans,       \* bound on the rows of CustomerPlan
          MaxEntries,     \* bound on the rows of LicenseLedger
          MaxDeaths,      \* bound on the deaths of the invoicing job
          MaxChanges      \* bound on user transactions and requests

ASSUME BillingAssumption ==
    /\ Month \in Nat \ {0} /\ MonthsPerYear \in Nat \ {0}
    /\ TrialLengths \subseteq Nat
    /\ {MaxTime, MaxUsers, MaxPlans, MaxEntries, MaxDeaths,
        MaxChanges} \subseteq Nat

(* Twelve in the code; what is used of it is that a year of months ends    *)
(* after the first of them.                                                *)
ASSUME YearAssumption == MonthsPerYear # 1

VARIABLES now,       \* the time
          trial_days, \* the setting CLOUD_FREE_TRIAL_DAYS
          users,     \* users who need a license
          plans,     \* the rows of CustomerPlan, by id
          ledger,    \* the rows of LicenseLedger, by id
          tx,        \* the open transactions of users, upgrades and requests
          job,       \* the invoicing job, or the request that changes a tier
          items,     \* what Stripe was asked to charge: entry and quantity
          keys,      \* idempotency keys that Stripe remembers
          pending,   \* entries with an invoice item that is on no invoice
          deaths,    \* deaths of the job so far
          changes,   \* user transactions and requests so far
          crossed,   \* history: an actor wrote what others had changed since it read
          outage,    \* history: a plan was not invoiced when it was due
          marks,     \* history: what is special about a plan
          cancelled  \* history: end of the last cycle of a cancelled plan, or None

tables == <<plans, ledger>>
stripe == <<items, keys, pending>>
clock == <<now, trial_days>>
vars == <<now, trial_days, users, plans, ledger, tx, job, items, keys, pending,
          deaths, changes, crossed, outage, marks, cancelled>>
-----------------------------------------------------------------------------
None == -1

Schedules == {"monthly", "annual"}

Trials == {"FREE_TRIAL", "DOWNGRADE_AT_END_OF_FREE_TRIAL"}

Switches == {"SWITCH_TO_ANNUAL_AT_END_OF_CYCLE", "SWITCH_TO_MONTHLY_AT_END_OF_CYCLE"}

(* The statuses below LIVE_STATUS_THRESHOLD.                               *)
LiveStatuses ==
    Trials \union Switches
        \union {"ACTIVE", "DOWNGRADE_AT_END_OF_CYCLE", "SWITCH_PLAN_TIER_NOW"}

Plan(status, schedule, anchor, next, through, invoicing) ==
    [status |-> status, schedule |-> schedule, anchor |-> anchor,
     next |-> next, through |-> through, invoicing |-> invoicing]

Entry(plan, renewal, time, licenses, atRenewal) ==
    [plan |-> plan, renewal |-> renewal, time |-> time,
     licenses |-> licenses, atRenewal |-> atRenewal]

Item(e, quantity) == [entry |-> e, quantity |-> quantity]

Live(ps) == {i \in DOMAIN ps : ps[i].status \in LiveStatuses}

(* get_current_plan_by_customer: the live plan with the smallest id.       *)
get_current_plan(ps) == IF Live(ps) = {} THEN 0 ELSE Min(Live(ps))

EntriesOf(ls, i) == {e \in DOMAIN ls : ls[e].plan = i}

Latest(es) == IF es = {} THEN 0 ELSE Max(es)

(* The first of anchor, anchor + step, anchor + 2 step, ... after t.       *)
FirstAfter(anchor, step, t) ==
    IF t < anchor THEN anchor ELSE anchor + ((t - anchor) \div step + 1) * step

start_of_next_billing_cycle(p, t) ==
    FirstAfter(p.anchor,
               Month * (IF p.schedule = "annual" THEN MonthsPerYear ELSE 1), t)

(* Fault: a month is skipped.                                              *)
next_invoice_date_skipping(p) ==
    IF p.status = "ENDED" THEN None ELSE FirstAfter(p.anchor, Month, p.next + Month)

next_invoice_date(p) ==
    IF p.status = "ENDED" THEN None ELSE FirstAfter(p.anchor, Month, p.next)

(* Fault: the cycle is the month of the next invoice.                      *)
get_next_billing_month(i, p, ls) ==
    IF p.status \in Trials THEN p.next
    ELSE FirstAfter(p.anchor, Month,
                    ls[Latest({e \in EntriesOf(ls, i) : ls[e].renewal})].time)

get_next_billing_cycle(i, p, ls) ==
    IF p.status \in Trials THEN p.next
    ELSE start_of_next_billing_cycle(
             p, ls[Latest({e \in EntriesOf(ls, i) : ls[e].renewal})].time)

-----------------------------------------------------------------------------
(***************************************************************************)
(* make_end_of_cycle_updates_if_needed, split into what the transaction    *)
(* reads about plan i, of which the caller holds the copy p, and what it   *)
(* writes.  The result is the tables it leaves, the caller's copy, the new *)
(* plan if it made one, and the last ledger entry, 0 for None.             *)
(***************************************************************************)
Reading(i, p, t, ls) ==
    [id |-> i, copy |-> p, time |-> t,
     last |-> Latest({e \in EntriesOf(ls, i) : ls[e].time <= t}),
     cycle |-> get_next_billing_cycle(i, p, ls)]

(* Fault: a plan that is to be downgraded is renewed.                      *)
RenewsAlways(status) == status \in {"ACTIVE", "DOWNGRADE_AT_END_OF_CYCLE"}

(* The plan goes on after the end of a cycle.                              *)
Renews(status) == status = "ACTIVE"

Ended(ps, i) == [ps EXCEPT ![i].status = "ENDED"]

(* downgrade_now_without_creating_additional_invoices                      *)
DowngradedNow(p, i, ls) ==
    [p EXCEPT !.status = "ENDED", !.next = None, !.through = Latest(EntriesOf(ls, i))]

make_end_of_cycle_updates_if_needed(r, ps, ls) ==
    LET due == r.cycle <= r.time /\ r.last # 0
        licenses == ls[r.last].atRenewal
        Renewal(i) == Append(ls, Entry(i, TRUE, r.cycle, licenses, licenses))
        status == r.copy.status
        Result(ps2, ls2, p, new, last) ==
            [plans |-> ps2, ledger |-> ls2, copy |-> p, new |-> new, last |-> last]
    IN  CASE ~due -> Result(ps, ls, r.copy, 0, r.last)
          [] due /\ Renews(status) ->
                Result(ps, Renewal(r.id), r.copy, 0, Len(ls) + 1)
          [] due /\ status = "FREE_TRIAL" ->
                LET Started(p) == [p EXCEPT !.through = r.last, !.anchor = r.cycle,
                                            !.status = "ACTIVE"]
                IN  Result([ps EXCEPT ![r.id] = Started(@)], Renewal(r.id),
                           Started(r.copy), 0, Len(ls) + 1)
          [] due /\ status \in Switches ->
                LET schedule == IF status = "SWITCH_TO_ANNUAL_AT_END_OF_CYCLE"
                                THEN "annual" ELSE "monthly"
                    new == Plan("ACTIVE", schedule, r.cycle, r.cycle, 0, "INITIAL")
                IN  Result(Append(Ended(ps, r.id), new), Renewal(Len(ps) + 1),
                           [r.copy EXCEPT !.status = "ENDED"], Len(ps) + 1, Len(ls) + 1)
          [] due /\ status = "DOWNGRADE_AT_END_OF_FREE_TRIAL" ->
                Result([ps EXCEPT ![r.id] = DowngradedNow(@, r.id, ls)], ls,
                       DowngradedNow(r.copy, r.id, ls), 0, 0)
          [] due /\ status = "DOWNGRADE_AT_END_OF_CYCLE" ->
                Result(Ended(ps, r.id), ls, [r.copy EXCEPT !.status = "ENDED"], 0, 0)
          [] OTHER -> Result(ps, ls, r.copy, 0, 0)

(* Plans can be marked as cut off without additional invoices, begun as a  *)
(* trial, begun as a trial for fewer licenses than users, invoiced before  *)
(* they were due, which makes the next invoice late, or credited for a     *)
(* change of tier.                                                         *)
Mark(mark, i) == [mark |-> mark, plan |-> i]

Marked(mark, i) == Mark(mark, i) \in marks

(* Room for the rows that a step may add, within the bounds.               *)
Room == Len(plans) < MaxPlans /\ Len(ledger) + 2 <= MaxEntries

-----------------------------------------------------------------------------
(***************************************************************************)
(* Transactions that change the number of users.  update_license_ledger_   *)
(* for_automanaged_plan runs in the transaction of do_create_user,         *)
(* do_deactivate_user and the like, and counts the users it can see.       *)
(***************************************************************************)
Free == [kind |-> "free"]

(* The number of users when the open transactions have committed.          *)
Open == users + MapThenSumSet(LAMBDA t : tx[t].delta,
                              {t \in Transactions : tx[t].kind = "user"})

BeginUserChange(t, delta) ==
    LET i == get_current_plan(plans)
    IN  /\ changes < MaxChanges /\ tx[t] = Free
        /\ Open + delta \in 1..MaxUsers
        /\ tx' = [tx EXCEPT ![t] =
              [kind |-> "user", delta |-> delta, count |-> users + delta, plan |-> i,
               reading |-> IF i = 0 THEN 0 ELSE Reading(i, plans[i], now, ledger)]]
        /\ changes' = changes + 1
        /\ UNCHANGED <<clock, users, tables, job, stripe, deaths, crossed, outage, marks, cancelled>>

(* Fault: the entry belongs to the plan that was read.                     *)
update_license_ledger_for_old_plan(x) ==
    LET r == x.reading
        cycled == make_end_of_cycle_updates_if_needed(r, plans, ledger)
        licenses == Max({x.count, cycled.ledger[cycled.last].licenses})
    IN  /\ plans' = cycled.plans
        /\ ledger' = IF cycled.last = 0 THEN cycled.ledger
                     ELSE Append(cycled.ledger, Entry(r.id, FALSE, r.time, licenses, x.count))

update_license_ledger_for_automanaged_plan(x) ==
    LET r == x.reading
        cycled == make_end_of_cycle_updates_if_needed(r, plans, ledger)
        i == IF cycled.new # 0 THEN cycled.new ELSE r.id
        licenses == Max({x.count, cycled.ledger[cycled.last].licenses})
    IN  /\ plans' = cycled.plans
        /\ ledger' = IF cycled.last = 0 THEN cycled.ledger
                     ELSE Append(cycled.ledger, Entry(i, FALSE, r.time, licenses, x.count))

CommitUserChange(t) ==
    LET x == tx[t]
        i == get_current_plan(plans)
        Current == IF i = 0 THEN 0 ELSE Reading(i, plans[i], x.reading.time, ledger)
    IN  /\ x.kind = "user" /\ Room
        /\ IF x.plan = 0 THEN UNCHANGED tables
           ELSE update_license_ledger_for_automanaged_plan(x)
        /\ users' = users + x.delta
        /\ tx' = [tx EXCEPT ![t] = Free]
        /\ crossed' = (crossed \/ users + x.delta # x.count \/ i # x.plan
                          \/ (i # 0 /\ Current # x.reading)
                          \/ (i # 0 /\ plans[i].status = "SWITCH_PLAN_TIER_NOW"))
        /\ UNCHANGED <<clock, job, stripe, deaths, changes, outage, marks, cancelled>>

-----------------------------------------------------------------------------
(***************************************************************************)
(* process_initial_upgrade, called for a paid invoice or to start a free   *)
(* trial, for the number of licenses the customer saw on the upgrade page. *)
(* It checks that there is no live plan before it opens its transaction.   *)
(***************************************************************************)
BeginUpgrade(t, licenses, schedule) ==
    /\ changes < MaxChanges /\ tx[t] = Free
    /\ get_current_plan(plans) = 0
    /\ tx' = [tx EXCEPT ![t] =
          [kind |-> "upgrade", licenses |-> licenses, schedule |-> schedule,
           trial |-> trial_days > 0 /\ plans = <<>>]]
    /\ changes' = changes + 1
    /\ UNCHANGED <<clock, users, tables, job, stripe, deaths, crossed, outage, marks, cancelled>>

(* The rows an upgrade makes.  A customer with more users than licenses    *)
(* gets a second entry, for which invoice_plan is called at once.          *)
Upgraded(x) ==
    LET i == Len(plans) + 1
        e == Len(ledger) + 1
        first == Entry(i, TRUE, now, x.licenses, x.licenses)
        more == Max({users, x.licenses})
        plan == Plan("ACTIVE", x.schedule, now, now + Month, e, "DONE")
    IN  CASE x.trial ->
                [plan |-> Plan("FREE_TRIAL", x.schedule, now,
                               now + trial_days, e, "DONE"),
                 entries |-> <<first>>, items |-> <<>>]
          [] ~x.trial /\ more = x.licenses ->
                [plan |-> plan, entries |-> <<first>>, items |-> <<Item(e, x.licenses)>>]
          [] ~x.trial /\ more # x.licenses ->
                [plan |-> [plan EXCEPT !.through = e + 1, !.next = next_invoice_date(plan)],
                 entries |-> <<first, Entry(i, FALSE, now, more, more)>>,
                 items |-> <<Item(e, x.licenses), Item(e + 1, more - x.licenses)>>]

process_initial_upgrade(t) ==
    LET new == Upgraded(tx[t])
    IN  /\ tx[t].kind = "upgrade" /\ Room
        /\ plans' = Append(plans, new.plan)
        /\ ledger' = ledger \o new.entries
        /\ items' = items \o new.items
        /\ keys' = keys \union (IF Len(new.items) = 2 THEN {Len(ledger) + 2} ELSE {})
        /\ pending' = IF Len(new.items) = 2 THEN {} ELSE pending
        /\ tx' = [tx EXCEPT ![t] = Free]
        /\ crossed' = (crossed \/ get_current_plan(plans) # 0)
        /\ cancelled' = None
        /\ marks' = marks
              \union (IF tx[t].trial THEN {Mark("trial", Len(plans'))} ELSE {})
              \union (IF tx[t].trial /\ tx[t].licenses < users
                      THEN {Mark("short", Len(plans'))} ELSE {})
              \union (IF Len(new.items) = 2 THEN {Mark("late", Len(plans'))} ELSE {})
        /\ UNCHANGED <<clock, users, job, deaths, changes, outage>>

-----------------------------------------------------------------------------
(***************************************************************************)
(* Requests of the billing page (do_update_plan) and the downgrade of an   *)
(* organization that is deactivated or behind on payments.  A request      *)
(* renews the plan in a transaction of its own, and then writes what was   *)
(* asked for, of what it has read; it can die in between.                  *)
(***************************************************************************)

(* What the page offers for a plan of this status.                         *)
Offered(p) ==
    CASE p.status = "FREE_TRIAL" ->
            {"DOWNGRADE_AT_END_OF_FREE_TRIAL", "ENDED", "monthly", "annual"}
      [] p.status = "DOWNGRADE_AT_END_OF_FREE_TRIAL" -> {"FREE_TRIAL"}
      [] p.status = "ACTIVE" -> Switches \union {"DOWNGRADE_AT_END_OF_CYCLE"}
      [] p.status \in Switches \union {"DOWNGRADE_AT_END_OF_CYCLE"} -> {"ACTIVE"}
      [] OTHER -> {}

(* The assertions of do_update_plan.                                       *)
Accepted(p, request) ==
    /\ p.status \in LiveStatuses
    /\ request \in {"DOWNGRADE_AT_END_OF_FREE_TRIAL", "ENDED"} => p.status = "FREE_TRIAL"
    /\ request = "FREE_TRIAL" => p.status = "DOWNGRADE_AT_END_OF_FREE_TRIAL"
    /\ request = "DOWNGRADE_AT_END_OF_CYCLE" => p.status # "FREE_TRIAL"
    /\ request \in Switches => p.status \notin {"FREE_TRIAL", "DOWNGRADE_AT_END_OF_CYCLE"}
    /\ request = "SWITCH_TO_ANNUAL_AT_END_OF_CYCLE" => p.schedule = "monthly"
    /\ request = "SWITCH_TO_MONTHLY_AT_END_OF_CYCLE" => p.schedule = "annual"

(* Fault: the old plan stays.                                              *)
RescheduledBoth(ps, i, p, schedule, e) ==
    Append(ps, Plan("FREE_TRIAL", schedule, p.anchor, p.next, e, "DONE"))

(* do_change_schedule_after_free_trial replaces the plan i, read as p.     *)
Rescheduled(ps, i, p, schedule, e) ==
    Append([ps EXCEPT ![i].status = "ENDED", ![i].next = None],
           Plan("FREE_TRIAL", schedule, p.anchor, p.next, e, "DONE"))

(* What a request decides by.                                              *)
Terms(i, p, ls) ==
    [status |-> p.status, schedule |-> p.schedule, cycle |-> get_next_billing_cycle(i, p, ls),
     renewed |-> ls[Latest({e \in EntriesOf(ls, i) : ls[e].renewal})].time]

do_update_plan(t, request) ==
    LET i == get_current_plan(plans)
        c == make_end_of_cycle_updates_if_needed(Reading(i, plans[i], now, ledger), plans, ledger)
    IN  /\ changes < MaxChanges /\ Room /\ tx[t] = Free
        /\ i # 0
        /\ request \in Offered(plans[i])
        /\ plans' = c.plans /\ ledger' = c.ledger
        /\ tx' = IF c.new # 0 \/ c.last = 0 THEN tx
                 ELSE [tx EXCEPT ![t] = [kind |-> "request", request |-> request, plan |-> i,
                                         copy |-> c.copy, terms |-> Terms(i, c.copy, c.ledger)]]
        /\ changes' = changes + 1
        /\ UNCHANGED <<clock, users, job, stripe, deaths, crossed, outage, marks, cancelled>>

(* A change of the schedule reads more of the plan.                        *)
Overtaken(x) ==
    \/ get_current_plan(plans) # x.plan
    \/ Terms(x.plan, plans[x.plan], ledger) # x.terms
    \/ x.request \in Schedules /\ plans[x.plan] # x.copy

(* The assertions and the writes of do_update_plan.                        *)
WriteUpdate(x, request) ==
    LET i == x.plan
        licenses == ledger[Latest(EntriesOf(ledger, i))].atRenewal
    IN  /\ Room /\ Accepted(x.copy, request)
        /\ CASE request = "ENDED" ->
                  /\ plans' = [plans EXCEPT ![i] = DowngradedNow(@, i, ledger)]
                  /\ UNCHANGED ledger
             [] request \in Schedules ->
                  /\ plans' = Rescheduled(plans, i, x.copy, request, Len(ledger) + 1)
                  /\ ledger' = Append(ledger,
                        Entry(Len(plans) + 1, TRUE, x.copy.anchor, licenses, licenses))
             [] OTHER ->
                  /\ plans' = [plans EXCEPT ![i].status = request]
                  /\ UNCHANGED ledger
        /\ marks' = marks \union
              (IF request \in Schedules \union {"ENDED"} THEN {Mark("cut", i)} ELSE {})
              \union (IF request \in Schedules THEN {Mark("trial", Len(plans'))} ELSE {})
        /\ cancelled' =
              CASE request \in {"DOWNGRADE_AT_END_OF_CYCLE", "DOWNGRADE_AT_END_OF_FREE_TRIAL"} ->
                      get_next_billing_cycle(i, plans[i], ledger)
                [] request \in {"ACTIVE", "FREE_TRIAL"} -> None
                [] OTHER -> cancelled
        /\ crossed' = (crossed \/ Overtaken(x))

(* The rest of the request, unless it fails or dies.                       *)
FinishUpdate(t, request) ==
    /\ tx[t].kind = "request" /\ tx[t].request = request
    /\ tx' = [tx EXCEPT ![t] = Free]
    /\ \/ WriteUpdate(tx[t], request)
       \/ UNCHANGED <<tables, marks, cancelled, crossed>>
    /\ UNCHANGED <<clock, users, job, stripe, deaths, changes, outage>>

downgrade_now ==
    LET i == get_current_plan(plans)
    IN  /\ changes < MaxChanges
        /\ i # 0
        /\ plans' = [plans EXCEPT ![i] = DowngradedNow(@, i, ledger)]
        /\ marks' = marks \union {Mark("cut", i)}
        /\ changes' = changes + 1
        /\ UNCHANGED <<clock, users, ledger, tx, job, stripe, deaths, crossed, outage, cancelled>>

-----------------------------------------------------------------------------
(***************************************************************************)
(* invoice_plan, called by the invoice_plans job for the plans that were   *)
(* due when it started, in the order of their ids, and by the request that *)
(* moves a customer to a higher tier.  The job holds copies of the plans   *)
(* that are left, the first of which is being invoiced; entries are those  *)
(* that are left to charge.  The request of a tier change is only modelled *)
(* while the job does not run.                                             *)
(***************************************************************************)
NoJob == [step |-> "idle", copies |-> {}, entries |-> {}, base |-> None,
          made |-> FALSE, until |-> None, tier |-> FALSE]

Copy(i, ps) == [id |-> i, row |-> ps[i]]

(* The plan that is being invoiced, and the copies when it has changed.    *)
First == CHOOSE c \in job.copies : \A d \in job.copies : c.id <= d.id
Replaced(row) == (job.copies \ {First}) \union {[id |-> First.id, row |-> row]}

Due == {i \in DOMAIN plans : plans[i].next # None /\ plans[i].next <= now}

invoice_plans_as_needed ==
    /\ job.step = "idle" /\ Due # {}
    /\ job' = [NoJob EXCEPT !.step = "cycle", !.until = now, !.copies = {Copy(i, plans) : i \in Due}]
    /\ UNCHANGED <<clock, users, tables, tx, stripe, deaths, changes, crossed, outage, marks,
                   cancelled>>

(* do_change_plan_to_new_tier, up to the call that credits the customer.   *)
do_change_plan_to_new_tier ==
    LET i == get_current_plan(plans)
    IN  /\ job.step = "idle" /\ changes < MaxChanges
        /\ i # 0 /\ plans[i].status = "ACTIVE"
        /\ plans' = [plans EXCEPT ![i].status = "SWITCH_PLAN_TIER_NOW", ![i].next = now]
        /\ job' = [NoJob EXCEPT !.step = "switch", !.copies = {Copy(i, plans')},
                      !.until = now, !.tier = TRUE]
        /\ changes' = changes + 1
        /\ UNCHANGED <<clock, users, ledger, tx, stripe, deaths, crossed, outage, marks, cancelled>>

switch_plan_tier ==
    LET c == First
        licenses == ledger[Latest(EntriesOf(ledger, c.id))].atRenewal
    IN  /\ job.step = "switch" /\ Room
        /\ plans' = Append(Ended(plans, c.id),
                Plan("ACTIVE", c.row.schedule, c.row.next, c.row.next, 0, "INITIAL"))
        /\ ledger' = Append(ledger,
                Entry(Len(plans) + 1, TRUE, c.row.next, licenses, licenses))
        /\ job' = [job EXCEPT !.step = "cycle",
                              !.copies = Replaced([c.row EXCEPT !.status = "ENDED"])]
        /\ marks' = marks \union {Mark("credit", c.id)}
        /\ crossed' = (crossed \/ plans[c.id] # c.row)
        /\ UNCHANGED <<clock, users, tx, stripe, deaths, changes, outage, cancelled>>

(* invoice_plan up to its loop.  A plan whose invoicing was interrupted    *)
(* raises an exception, which ends the job with the plans after it.  The   *)
(* job invoices a plan as of its next invoice date, which has passed, and  *)
(* a tier change both of its plans as of the time of the request.          *)
BeginInvoicing ==
    LET c == First
        event_time == Min({c.row.next, job.until})
        cycled == make_end_of_cycle_updates_if_needed(
                      Reading(c.id, c.row, event_time, ledger), plans, ledger)
        row == cycled.copy
        initial == row.invoicing = "INITIAL"
        left == {e \in EntriesOf(cycled.ledger, c.id) :
                    /\ initial \/ e > row.through
                    /\ cycled.ledger[e].time <= event_time}
    IN  /\ job.step = "cycle"
        /\ IF c.row.invoicing = "STARTED"
           THEN job' = NoJob /\ UNCHANGED <<tables, crossed>>
           ELSE /\ Room
                /\ plans' = cycled.plans /\ ledger' = cycled.ledger
                /\ job' = [job EXCEPT
                      !.step = "entry", !.copies = Replaced(row), !.made = FALSE,
                      !.entries = left,
                      !.base = IF initial THEN None ELSE ledger[row.through].licenses]
                /\ crossed' = (crossed \/ plans[c.id] # c.row)
        /\ UNCHANGED <<clock, users, tx, stripe, deaths, changes, outage, marks, cancelled>>

(* Fault: all licenses are charged again when one is added.                *)
QuantityInFull(e) ==
    IF ledger[e].renewal \/ ledger[e].licenses # job.base THEN ledger[e].licenses ELSE 0

(* What is charged for the entry e, 0 for nothing.                         *)
Quantity(e) ==
    CASE ledger[e].renewal -> ledger[e].licenses
      [] ~ledger[e].renewal /\ job.base # None -> ledger[e].licenses - job.base
      [] OTHER -> 0

SaveInvoicing(status) ==
    LET c == First
        e == Min(job.entries)
    IN  /\ plans' = [plans EXCEPT ![c.id].through = e, ![c.id].invoicing = status]
        /\ job' = [job EXCEPT
              !.copies = Replaced([c.row EXCEPT !.through = e, !.invoicing = status]),
              !.step = IF status = "STARTED" THEN "item" ELSE "entry",
              !.entries = IF status = "STARTED" THEN @ ELSE @ \ {e},
              !.base = IF status = "STARTED" THEN @ ELSE ledger[e].licenses]
        /\ UNCHANGED <<clock, users, ledger, tx, deaths, changes, crossed, outage, marks, cancelled>>

(* Fault: the status is not saved before Stripe is called.                 *)
StartEntryUnsaved ==
    /\ job.step = "entry" /\ job.entries # {}
    /\ Quantity(Min(job.entries)) # 0
    /\ job' = [job EXCEPT !.step = "item"]
    /\ UNCHANGED <<clock, users, tables, tx, stripe, deaths, changes, crossed, outage, marks,
                   cancelled>>

StartEntry ==
    /\ job.step = "entry" /\ job.entries # {}
    /\ Quantity(Min(job.entries)) # 0
    /\ SaveInvoicing("STARTED")
    /\ UNCHANGED stripe

SkipEntry ==
    /\ job.step = "entry" /\ job.entries # {}
    /\ Quantity(Min(job.entries)) = 0
    /\ SaveInvoicing("DONE")
    /\ UNCHANGED stripe

(* Stripe ignores a request whose idempotency key it remembers.            *)
CreateItem ==
    LET e == Min(job.entries)
    IN  /\ job.step = "item"
        /\ items' = IF e \in keys THEN items ELSE Append(items, Item(e, Quantity(e)))
        /\ pending' = IF e \in keys THEN pending ELSE pending \union {e}
        /\ keys' = keys \union {e}
        /\ job' = [job EXCEPT !.step = "done", !.made = TRUE]
        /\ UNCHANGED <<clock, users, tables, tx, deaths, changes, crossed, outage, marks, cancelled>>

FinishEntry ==
    /\ job.step = "done"
    /\ SaveInvoicing("DONE")
    /\ UNCHANGED stripe

(* Stripe puts all pending items of the customer on a new invoice.         *)
CreateInvoice ==
    /\ job.step = "entry" /\ job.entries = {} /\ job.made
    /\ pending' = {}
    /\ job' = [job EXCEPT !.made = FALSE]
    /\ UNCHANGED <<clock, users, tables, tx, items, keys, deaths, changes, crossed, outage, marks,
                   cancelled>>

(* The end of invoice_plan, and the choice of the next plan to invoice:    *)
(* this one again while it is due, then the next copy of the job, or the   *)
(* new plan of a tier change.                                              *)
FinishInvoicing ==
    LET c == First
        next == next_invoice_date(c.row)
        again == next # None /\ next <= job.until
        rest == (job.copies \ {c}) \union (IF again THEN {Copy(c.id, plans')} ELSE {})
        i == get_current_plan(plans')
    IN  /\ job.step = "entry" /\ job.entries = {} /\ ~job.made
        /\ plans' = [plans EXCEPT ![c.id].next = next]
        /\ job' = CASE rest # {} -> [job EXCEPT !.step = "cycle", !.copies = rest]
                    [] rest = {} /\ job.tier /\ i # 0 ->
                         [job EXCEPT !.step = "cycle", !.copies = {Copy(i, plans')},
                                     !.tier = FALSE]
                    [] OTHER -> NoJob
        /\ crossed' = (crossed \/ plans[c.id] # c.row)
        /\ marks' = marks \union (IF c.row.next > job.until THEN {Mark("late", c.id)} ELSE {})
        /\ UNCHANGED <<clock, users, ledger, tx, stripe, deaths, changes, outage, cancelled>>

(* An exception of a call to Stripe, or the death of the process.          *)
JobDies ==
    /\ job.step # "idle" /\ deaths < MaxDeaths
    /\ job' = NoJob
    /\ deaths' = deaths + 1
    /\ UNCHANGED <<clock, users, tables, tx, stripe, changes, crossed, outage, marks, cancelled>>

(* A unit of time is many days: transactions and runs of the job end       *)
(* within one, and Stripe forgets an idempotency key after a day.          *)
Tick ==
    /\ now < MaxTime
    /\ job.step = "idle" /\ \A t \in Transactions : tx[t] = Free
    /\ now' = now + 1
    /\ keys' = {}
    /\ outage' = (outage \/ Due # {})
    /\ UNCHANGED <<trial_days, users, tables, tx, job, items, pending, deaths, changes, crossed, marks,
                   cancelled>>

-----------------------------------------------------------------------------
Init ==
    /\ now = 0 /\ users \in 1..MaxUsers
    /\ trial_days \in TrialLengths
    /\ plans = <<>> /\ ledger = <<>>
    /\ tx = [t \in Transactions |-> Free]
    /\ job = NoJob
    /\ items = <<>> /\ keys = {} /\ pending = {}
    /\ deaths = 0 /\ changes = 0
    /\ crossed = FALSE /\ outage = FALSE /\ marks = {} /\ cancelled = None

Invoicing ==
    \/ switch_plan_tier \/ BeginInvoicing \/ StartEntry \/ SkipEntry \/ CreateItem
    \/ FinishEntry \/ CreateInvoice \/ FinishInvoicing

Requests == Schedules \union {"ACTIVE", "FREE_TRIAL", "ENDED", "DOWNGRADE_AT_END_OF_CYCLE",
                "DOWNGRADE_AT_END_OF_FREE_TRIAL"} \union Switches

Next ==
    \/ \E t \in Transactions :
          \/ \E delta \in {-1, 1} : BeginUserChange(t, delta)
          \/ CommitUserChange(t)
          \/ \E licenses \in 1..MaxUsers, schedule \in Schedules :
                BeginUpgrade(t, licenses, schedule)
          \/ process_initial_upgrade(t)
          \/ \E request \in Requests : do_update_plan(t, request) \/ FinishUpdate(t, request)
    \/ downgrade_now
    \/ do_change_plan_to_new_tier
    \/ invoice_plans_as_needed
    \/ Invoicing
    \/ JobDies
    \/ Tick

Spec == Init /\ [][Next]_vars

-----------------------------------------------------------------------------
(* Nothing is claimed of what follows a write that crosses another one,    *)
(* and TLC does not explore it.                                            *)
NotCrossed == ~crossed

(* "There should be at most one live plan per customer": trials, switches  *)
(* of the schedule and of the tier and new upgrades end the old plan, also *)
(* when the invoicing job dies halfway, and the live one keeps a next      *)
(* invoice date.  Actors that write what others have changed since they    *)
(* read it can break this.                                                 *)
OneLivePlan ==
    crossed \/ (Cardinality(Live(plans)) <= 1 /\ \A i \in Live(plans) : plans[i].next # None)

ItemsOf(e) == {k \in DOMAIN items : items[k].entry = e}

(* invoice_plan asks Stripe to charge an entry of the ledger at most once, *)
(* also when it dies between the call and the next save and runs again     *)
(* when Stripe has forgotten the idempotency key.                          *)
NeverBilledTwice == crossed \/ \A e \in DOMAIN ledger : Cardinality(ItemsOf(e)) <= 1

Renewals == {e \in DOMAIN ledger : ledger[e].renewal}

(* The renewal that began the period of an entry.                          *)
RenewalOf(e) == Max({r \in Renewals \intersect EntriesOf(ledger, ledger[e].plan) : r <= e})

InTrial(e) ==
    LET i == ledger[e].plan
    IN  Marked("trial", i) /\ RenewalOf(e) = Min(EntriesOf(ledger, i))

Paid(es) == MapThenSumSet(LAMBDA k : items[k].quantity, UNION {ItemsOf(e) : e \in es})

(* Whatever sequence of renewals, switches and new users: when the job is  *)
(* not running, the quantities that were charged in a period add up to the *)
(* licenses of every entry the plan was invoiced through, and a plan that  *)
(* is over was invoiced through its last entry.  Exempt are plans that     *)
(* were cut off, those whose invoicing was interrupted and awaits manual   *)
(* resolution, and customers with a plan that was not invoiced in time.    *)
EveryLicensePaid ==
    crossed \/ outage \/ job.step # "idle" \/ \A i \in DOMAIN plans :
        \/ Marked("cut", i) \/ plans[i].invoicing = "STARTED"
        \/ /\ \A e \in EntriesOf(ledger, i) :
                \/ e > plans[i].through \/ InTrial(e)
                \/ Paid({d \in EntriesOf(ledger, i) : d \in RenewalOf(e)..e})
                       = ledger[e].licenses
           /\ plans[i].next = None => plans[i].through = Latest(EntriesOf(ledger, i))

PeriodEnd(e) == start_of_next_billing_cycle(plans[ledger[e].plan], ledger[e].time)

(* No renewal is charged for a time that an earlier one has paid for,      *)
(* unless the customer was cut off and came back or was given credit for a *)
(* change of the tier (make_end_of_cycle_updates_if_needed is called by    *)
(* every actor and must find out whether the cycle was already renewed).   *)
NoPeriodPaidTwice ==
    crossed \/ job.step # "idle" \/ \A d, e \in Renewals :
        \/ d >= e \/ ItemsOf(d) = {} \/ ItemsOf(e) = {}
        \/ Marked("cut", ledger[d].plan) \/ Marked("credit", ledger[d].plan)
        \/ PeriodEnd(d) <= ledger[e].time

(* When the job has nothing left to do, a live plan is renewed for the     *)
(* present time.  A plan that was invoiced before it was due, because it   *)
(* was upgraded with extra licenses or made while a tier change was under  *)
(* way, is invoiced a month late, and a tier change that was interrupted   *)
(* is never resumed.                                                       *)
NoUnpaidPeriod ==
    crossed \/ job.step # "idle" \/ Due # {} \/ \A i \in Live(plans) :
        \/ Marked("late", i) \/ plans[i].status = "SWITCH_PLAN_TIER_NOW"
        \/ get_next_billing_cycle(i, plans[i], ledger) > now

(* A customer who has asked for a downgrade at the end of the cycle or of  *)
(* the trial, and has not taken it back, is not renewed after it.          *)
CancellationHonoured ==
    crossed \/ cancelled = None \/ \A e \in Renewals : ledger[e].time < cancelled

(* When no transaction is open, the current plan will be renewed for all   *)
(* users, in whichever plan the transactions put their entries while plans *)
(* are renewed and replaced.  A trial may begin with the smaller number of *)
(* users that the upgrade page has shown.                                  *)
LicensesForAllUsers ==
    LET i == get_current_plan(plans)
    IN  \/ crossed \/ outage \/ i = 0 \/ \E t \in Transactions : tx[t] # Free
        \/ \E k \in DOMAIN plans : Marked("short", k)
        \/ ledger[Latest(EntriesOf(ledger, i))].atRenewal >= users

=============================================================================
