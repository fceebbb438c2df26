------------------------------ MODULE Subscriptions ------------------------------
(***************************************************************************)
(* The plan of a tenant and what it is billed: TenantService.updateTenant, *)
(* which writes the tenant's plan and then, in statements of their own     *)
(* whose errors it swallows, its subscription; and the superadmin's        *)
(* updateSubscription. A subscription is named by its place in the order   *)
(* of creation. Billing cycles and periods are left out: a plan has one    *)
(* price.                                                                  *)
(***************************************************************************)
EXTENDS Requests, FiniteSetsExt, Naturals, Integers, Sequences

CONSTANTS Plans,
          MaxPrice   \* bounds the prices, amounts and discounts

ASSUME MoneyAssumption == MaxPrice \in Nat

Money == 0..MaxPrice

VARIABLES
    chosen,   \* the column planType of the tenant
    price,    \* price[p]: what the plan p costs
    billed    \* the subscriptions of the tenant, in the order of their creation

pvars == <<chosen, price, billed>>

SubscribePcs == {"subscription", "rebill", "bill"}
BillingSteps == {"idle", "plan", "put", "done", "swallowed", "lost"} \cup SubscribePcs

\* total is a column that nothing keeps from going below zero.
SubsTypeOK ==
    /\ chosen \in Plans
    /\ price \in [Plans -> Money]
    /\ \A i \in DOMAIN billed :
          billed[i] \in [live: BOOLEAN, plan: Plans, amount: Money, discount: Money, total: Int]
    /\ \A r \in Requests : call[r].pc \in BillingSteps

Subscribed(p) ==
    [live |-> TRUE, plan |-> p, amount |-> price[p], discount |-> 0, total |-> price[p]]

\* createTenant bills the plan, unless that fails.
SubsInit ==
    /\ chosen \in Plans
    /\ price \in [Plans -> Money]
    /\ billed \in {<<>>, <<Subscribed(chosen)>>}

-----------------------------------------------------------------------------
(* updateTenant *)

\* The tenant is read, then the plan p, if it can be found.
ChangePlan(r, p, found) ==
    /\ Begin(r, [pc |-> "plan", plan |-> p, was |-> chosen, found |-> found,
                 row |-> 0, discount |-> 0])
    /\ UNCHANGED pvars

\* The plan is written whether it was found or not.
WriteTenant(r) ==
    /\ call[r].pc = "plan"
    /\ Go(r, "plan", IF call[r].found THEN At(r, "subscription") ELSE Over)
    /\ chosen' = call[r].plan
    /\ UNCHANGED <<price, billed>>

ChangesPlan(q) == q.plan # q.was

\* The youngest subscription that is active or on trial.
LookForSubscription(r) ==
    /\ call[r].pc = "subscription"
    /\ LET live == {i \in DOMAIN billed : billed[i].live} IN
        IF live = {} THEN Go(r, "subscription", At(r, "bill"))
        ELSE IF ~ChangesPlan(call[r]) THEN Go(r, "subscription", Over)
        ELSE Go(r, "subscription", [At(r, "rebill") EXCEPT
                               !.row = Max(live), !.discount = billed[Max(live)].discount])
    /\ UNCHANGED pvars

\* The total is made with the discount that was read before.
Rebill(r) ==
    /\ call[r].pc = "rebill"
    /\ Go(r, "rebill", Over)
    /\ LET q == call[r] IN
        billed' = [billed EXCEPT ![q.row] =
            [@ EXCEPT !.plan = q.plan, !.amount = price[q.plan],
                      !.total = price[q.plan] - q.discount]]
    /\ UNCHANGED <<chosen, price>>

Bill(r) ==
    /\ call[r].pc = "bill"
    /\ Go(r, "bill", Over)
    /\ billed' = Append(billed, Subscribed(call[r].plan))
    /\ UNCHANGED <<chosen, price>>

\* An error in what is done about the subscription is swallowed: the tenant has been updated,
\* and the request answers so.
BillingFails(r) ==
    /\ call[r].pc \in SubscribePcs
    /\ Swallow(r)
    /\ UNCHANGED pvars

-----------------------------------------------------------------------------
(* updateSubscription; {} stands for a field the request leaves out, {x} for x *)

ReviseSubscription(r, i, plan, amount, discount, live) ==
    /\ i \in DOMAIN billed
    /\ Begin(r, [pc |-> "put", row |-> i, seen |-> billed[i],
                 plan |-> plan, amount |-> amount, discount |-> discount, live |-> live])
    /\ UNCHANGED pvars

Given(field, otherwise) == IF field = {} THEN otherwise ELSE CHOOSE x \in field : TRUE

\* Mutant: an amount is billed without the discount that stays.
TotalAfterPlain(q, t) ==
    IF q.discount # {} THEN Given(q.amount, q.seen.amount) - Given(q.discount, 0)
    ELSE IF q.amount # {} THEN Given(q.amount, 0)
    ELSE IF q.plan # {} THEN price[Given(q.plan, chosen)] - q.seen.discount
    ELSE t

\* What the plan, the amount and the discount in q make of the total t, one after the other.
TotalAfter(q, t) ==
    IF q.discount # {} THEN Given(q.amount, q.seen.amount) - Given(q.discount, 0)
    ELSE IF q.amount # {} THEN Given(q.amount, 0) - q.seen.discount
    ELSE IF q.plan # {} THEN price[Given(q.plan, chosen)] - q.seen.discount
    ELSE t

PutSubscription(r) ==
    /\ call[r].pc = "put"
    /\ Go(r, "put", Over)
    /\ LET q == call[r]
           planPrice(row) == IF q.plan = {} THEN row.amount ELSE price[Given(q.plan, chosen)]
       IN billed' = [billed EXCEPT ![q.row] =
             [live     |-> Given(q.live, @.live),
              plan     |-> Given(q.plan, @.plan),
              amount   |-> Given(q.amount, planPrice(@)),
              discount |-> Given(q.discount, @.discount),
              total    |-> TotalAfter(q, @.total)]]
    /\ UNCHANGED <<chosen, price>>

OrNone(S) == {{}} \cup {{x} : x \in S}

BillingStep(r) ==
    \/ \E p \in Plans, found \in BOOLEAN : ChangePlan(r, p, found)
    \/ WriteTenant(r) \/ LookForSubscription(r) \/ Rebill(r) \/ Bill(r) \/ BillingFails(r)
    \/ \E i \in DOMAIN billed, plan \in OrNone(Plans), amount, discount \in OrNone(Money),
          live \in OrNone(BOOLEAN) : ReviseSubscription(r, i, plan, amount, discount, live)
    \/ PutSubscription(r)
    \/ Lose(r) /\ UNCHANGED pvars

BillingNext == \E r \in Requests : BillingStep(r)

BillingSpec == (RequestsInit /\ SubsInit) /\ [][BillingNext]_<<rvars, pvars>>

-----------------------------------------------------------------------------
(* Properties *)

AddsUp(row) == row.total = row.amount - row.discount

\* The plan and the discount are given and the amount is left to the plan.
LeavesAmountToPlan(q) == q.plan # {} /\ q.discount # {} /\ q.amount = {}

\* The youngest live subscription bills the plan the tenant is on, at its price.
BilledForPlan ==
    \E i \in DOMAIN billed :
        /\ billed[i].live /\ \A j \in i + 1..Len(billed) : ~billed[j].live
        /\ billed[i].plan = chosen /\ billed[i].amount = price[chosen] /\ AddsUp(billed[i])

\* Of requests that nothing overlaps, whatever came before (updateTenant 472-661,
\* updateSubscription):
\* a change of plan whose plan is found, and that meets no error, leaves the tenant billed for it;
\* where it ends early, cut off or with its error swallowed, the bills are as they were or right
\* already, never half-way;
\* whichever way it answers, the tenant is on the plan that was asked for;
\* and an update of a subscription leaves a total that adds up as it was, unless it leaves the
\* amount to the plan and gives a discount.
\* An answer whose error was swallowed does not say that the bills are right, nor does asking for
\* the same plan again make them so: see AnsweredChangeBills.
SoloBillIsRight ==
    [][\A r \in Requests :
          /\ EndsAlone(r) /\ call[r].pc \in SubscribePcs /\ ChangesPlan(call[r]) => BilledForPlan'
          /\ alone'[r] /\ call'[r] # call[r] /\ call[r].pc \in SubscribePcs =>
                billed' = billed \/ BilledForPlan'
          /\ alone'[r] /\ call[r].pc \in {"plan"} \cup SubscribePcs
                /\ call'[r].pc \in {"done", "swallowed"} => chosen' = call[r].plan
          /\ EndsAlone(r) /\ call[r].pc = "put" /\ ~LeavesAmountToPlan(call[r]) =>
                \A i \in DOMAIN billed : AddsUp(billed[i]) => AddsUp(billed'[i])
      ]_<<rvars, pvars>>

\* The tenant is billed for its plan when a change of plan that nothing overlaps has answered
\* (updateTenant: on a change of plan, update the subscription).
AnsweredChangeBills ==
    [][\A r \in Requests :
          alone'[r] /\ call[r].pc \in {"plan"} \cup SubscribePcs /\ ChangesPlan(call[r])
              /\ call'[r].pc \in {"done", "swallowed"} => BilledForPlan'
      ]_<<rvars, pvars>>

\* The total of a subscription is its amount less its discount (updateSubscription:
\* totalAmount = amount - discountAmount).
TotalsAddUp == \A i \in DOMAIN billed : AddsUp(billed[i])

\* A tenant has one subscription that is active or on trial (updateTenant: if there is no
\* subscription, create one).
OneLive == \A i, j \in DOMAIN billed : billed[i].live /\ billed[j].live => i = j

\* When no request is under way the tenant is billed for the plan it is on.
PlanIsBilled ==
    (\A r \in Requests : ~Open(r)) =>
        \A i \in DOMAIN billed : billed[i].live => billed[i].plan = chosen
=============================================================================
