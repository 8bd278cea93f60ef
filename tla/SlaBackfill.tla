---------------------------- MODULE SlaBackfill ----------------------------
(***************************************************************************)
(* The day an order is expected: taken from its promise or from the        *)
(* delivery rules when the order is placed, and looked up again by a       *)
(* backfill for the orders that have none.                                 *)
(*                                                                         *)
(* A backfill reads its orders, the oldest first, and then goes through    *)
(* them one query at a time, while rules and regions change and orders     *)
(* are finished.  What it writes, it writes by id.                         *)
(***************************************************************************)
EXTENDS PricingRoutes, FiniteSetsExt, Sequences

CONSTANTS
  Legacy,       \* what may have been placed before there were expected days, by age
  OrderInputs,  \* what orders are placed with
  RuleInputs,   \* what managers save as a delivery rule
  Backfills,    \* backfills in progress at once
  Limit,        \* orders one of them takes
  MaxOrders, MaxRules, MaxFailed   \* bounds

OrderInput == [service : {"std", "express", Unset}, from : Names \cup {Unset},
               to : Names \cup {Unset}, promised : BOOLEAN]
\* createDeliverySlaRuleSchema: two regions, or a zone, or neither.
RuleOK(rule) ==
  /\ rule.service \in {"std", "express"} /\ rule.active \in BOOLEAN
  /\ rule.days \in 1..365 /\ rule.priority \in Nat
  /\ rule.origin \in Regions \cup {Unset} /\ rule.destination \in Regions \cup {Unset}
  /\ rule.zone \in Zones \cup {Unset}
  /\ (rule.origin = Unset) <=> (rule.destination = Unset)
  /\ rule.zone # Unset => rule.origin = Unset

ASSUME SlaAssumption ==
  /\ OrderInputs \subseteq OrderInput
  /\ Legacy \subseteq Seq(OrderInputs) /\ \A l \in Legacy : Len(l) <= MaxOrders
  /\ \A rule \in RuleInputs : RuleOK(rule)
  /\ Limit \in Nat \ {0}
  /\ MaxOrders \in Nat /\ MaxRules \in Nat \ {0} /\ MaxFailed \in Nat

VARIABLES
  order,      \* the orders by age: what they were placed with, active?, due
  rules,      \* the DeliverySlaRule rows by age
  backfill,   \* the backfills in progress
  failed      \* backfills that failed

slaVars == <<order, rules, backfill, failed>>

----------------------------------------------------------------------------
(* resolveOrderSlaSnapshot.                                                *)

\* Where a day comes from: the promise, a rule, or nowhere.
NoDay == [source |-> "NONE", rule |-> 0, days |-> 0]
Promise == [source |-> "PROMISE_DATE", rule |-> 0, days |-> 0]
Day == {NoDay, Promise} \cup [source : {"SLA_RULE"}, rule : 1..MaxRules, days : 1..365]

\* rankDeliverySlaRule: the exact route, the zone, the service's default.
Rank(rule, route) ==
  CASE rule.origin # Unset /\ rule.origin = route.origin
         /\ rule.destination = route.destination           -> 3
    [] rule.zone # Unset /\ rule.zone = route.zone         -> 2
    [] rule.zone = Unset /\ rule.origin = Unset            -> 1
    [] OTHER                                               -> 0

\* The rules that apply, and the first of them by rank, priority and age.
Applicable(service, route) ==
  {i \in DOMAIN rules : /\ rules[i].active /\ rules[i].service = service
                        /\ Rank(rules[i], route) > 0}
BestRule(service, route) ==
  LET Ahead(i, j) ==
        \/ Rank(rules[i], route) > Rank(rules[j], route)
        \/ /\ Rank(rules[i], route) = Rank(rules[j], route)
           /\ \/ rules[i].priority > rules[j].priority
              \/ rules[i].priority = rules[j].priority /\ i > j
      choice == Applicable(service, route)
  IN IF choice = {} THEN 0 ELSE CHOOSE i \in choice : \A j \in choice \ {i} : Ahead(i, j)

\* The day by the rules for a route already looked up.
DayByRule(service, route) ==
  LET i == BestRule(service, route)
  IN IF i = 0 THEN NoDay ELSE [source |-> "SLA_RULE", rule |-> i, days |-> rules[i].days]

Snapshot(input) ==
  IF input.promised THEN Promise
  ELSE IF input.service = Unset THEN NoDay
  ELSE DayByRule(input.service, RouteContext(input.from, input.to))

----------------------------------------------------------------------------
Order == [input : OrderInputs, active : BOOLEAN, due : Day]
NotRunning  == [at |-> "off"]
Backfill ==
  {NotRunning} \cup [at : {"next", "route", "zone", "rules", "write"},
                    left : SUBSET (1..MaxOrders), route : Route \cup {Unset},
                    day : Day, dry : BOOLEAN]

\* assertDeliverySlaRuleReferences.
KnownRegions(rule) == rule.origin \in Known \cup {Unset} /\ rule.destination \in Known \cup {Unset}

SlaInit ==
  /\ order \in {[i \in DOMAIN old |-> [input |-> old[i], active |-> TRUE, due |-> NoDay]] :
                 old \in Legacy}
  /\ rules \in {<<>>} \cup {<<rule>> : rule \in {r \in RuleInputs : KnownRegions(r)}}
  /\ backfill = [b \in Backfills |-> NotRunning]
  /\ failed = 0

\* createOrder asks for the day first.
PlaceOrder(input) ==
  /\ Len(order) < MaxOrders
  /\ order' = Append(order, [input |-> input, active |-> TRUE, due |-> Snapshot(input)])
  /\ UNCHANGED <<rules, backfill, failed>>

\* Delivered, returned or cancelled.
FinishOrder(o) ==
  /\ order[o].active
  /\ order' = [order EXCEPT ![o].active = FALSE]
  /\ UNCHANGED <<rules, backfill, failed>>

\* createDeliverySlaRule and updateDeliverySlaRule, whole rows of known regions.
CreateRule(rule) ==
  /\ Save /\ Len(rules) < MaxRules /\ KnownRegions(rule)
  /\ rules' = Append(rules, rule)
  /\ UNCHANGED <<region, zone, order, backfill, failed>>
UpdateRule(i, rule) ==
  /\ Save /\ KnownRegions(rule)
  /\ rules' = [rules EXCEPT ![i] = rule]
  /\ UNCHANGED <<region, zone, order, backfill, failed>>

----------------------------------------------------------------------------
(* backfillOrderSlaSnapshots.                                              *)

\* Active, of a service, without a day.
Waiting == {o \in DOMAIN order :
              order[o].active /\ order[o].input.service # Unset /\ order[o].due = NoDay}

\* Mutant of Taken: orders are taken whether they have a day or not.
TakenDated == {o \in DOMAIN order :
  /\ order[o].active /\ order[o].input.service # Unset
  /\ Cardinality({p \in DOMAIN order : order[p].active /\ p < o}) < Limit}

\* The oldest of them.
Taken == {o \in Waiting : Cardinality({p \in Waiting : p < o}) < Limit}

Start(b, dry) ==
  /\ backfill[b] = NotRunning
  /\ backfill' = [backfill EXCEPT ![b] = [at |-> "next", left |-> Taken, route |-> Unset,
                                          day |-> NoDay, dry |-> dry]]
  /\ UNCHANGED <<order, rules, failed>>

Current(b) == Min(backfill[b].left)
Input(b)   == order[Current(b)].input
Onward(b)    == [backfill[b] EXCEPT !.at = "next", !.left = @ \ {Current(b)},
                                  !.route = Unset, !.day = NoDay]
\* The day is written; not in a dry run, nor if there is none.
WithDay(b, day) ==
  IF day = NoDay \/ backfill[b].dry THEN Onward(b)
  ELSE [backfill[b] EXCEPT !.at = "write", !.route = Unset, !.day = day]

\* The next order: a promise needs no query.
Consider(b) ==
  /\ backfill[b].at = "next" /\ backfill[b].left # {}
  /\ backfill' = [backfill EXCEPT ![b] =
       IF Input(b).promised THEN WithDay(b, Promise) ELSE [@ EXCEPT !.at = "route"]]
  /\ UNCHANGED <<order, rules, failed>>

\* The regions are read, and in another query the zone, by when the pair may
\* have got a different one.
ReadRoute(b) ==
  /\ backfill[b].at = "route"
  /\ LET route == RouteRegions(Input(b).from, Input(b).to)
     IN  backfill' = [backfill EXCEPT
           ![b].at    = IF route.destination = Unset THEN "rules" ELSE "zone",
           ![b].route = route]
  /\ UNCHANGED <<order, rules, failed>>

ReadZone(b) ==
  /\ backfill[b].at = "zone"
  /\ backfill' = [backfill EXCEPT ![b].at = "rules", ![b].route = WithZone(@)]
  /\ UNCHANGED <<order, rules, failed>>

ReadRules(b) ==
  /\ backfill[b].at = "rules"
  /\ backfill' = [backfill EXCEPT ![b] =
                    WithDay(b, DayByRule(Input(b).service, backfill[b].route))]
  /\ UNCHANGED <<order, rules, failed>>

\* By id: even an order that was finished, or given a day, in between.
WriteDay(b) ==
  /\ backfill[b].at = "write"
  /\ order' = [order EXCEPT ![Current(b)].due = backfill[b].day]
  /\ backfill' = [backfill EXCEPT ![b] = Onward(b)]
  /\ UNCHANGED <<rules, failed>>

\* The answer says how many are left.
Report(b) ==
  /\ backfill[b].at = "next" /\ backfill[b].left = {}
  /\ backfill' = [backfill EXCEPT ![b] = NotRunning]
  /\ UNCHANGED <<order, rules, failed>>

\* A query fails: the days written so far stay.
BackfillFails(b) ==
  /\ backfill[b] # NotRunning
  /\ failed < MaxFailed /\ failed' = failed + 1
  /\ backfill' = [backfill EXCEPT ![b] = NotRunning]
  /\ UNCHANGED <<order, rules>>

BackfillStep(b) ==
  \/ Consider(b) \/ ReadRoute(b) \/ ReadZone(b) \/ ReadRules(b)
  \/ WriteDay(b) \/ Report(b)

OrdersNext ==
  \/ \E input \in OrderInputs : PlaceOrder(input)
  \/ \E o \in DOMAIN order : FinishOrder(o)
  \/ \E b \in Backfills :
       (\E dry \in BOOLEAN : Start(b, dry)) \/ BackfillStep(b) \/ BackfillFails(b)
RulesNext ==
  \E rule \in RuleInputs :
    CreateRule(rule) \/ \E i \in DOMAIN rules : UpdateRule(i, rule)

\* Orders and backfills, rules, and the regions and zones they read.
DaysNext ==
  \/ OrdersNext /\ UNCHANGED routesVars
  \/ RulesNext
  \/ RoutesNext /\ UNCHANGED slaVars
DaysSpec == RoutesInit /\ SlaInit /\ [][DaysNext]_<<routesVars, slaVars>>

----------------------------------------------------------------------------
\* Orders, rules and backfills are well-formed; a backfill in the middle of an
\* order has one, and only a backfill for good comes to write.
SlaTypeOK ==
  /\ order \in Seq(Order) /\ Len(order) <= MaxOrders
  /\ rules \in Seq(RuleInputs) /\ Len(rules) <= MaxRules
  /\ backfill \in [Backfills -> Backfill]
  /\ failed \in 0..MaxFailed
  /\ \A b \in Backfills : backfill[b].at \in {"route", "zone", "rules", "write"} =>
       /\ backfill[b].left \subseteq DOMAIN order /\ backfill[b].left # {}
       /\ (backfill[b].at = "write") => (~backfill[b].dry /\ backfill[b].day # NoDay)

\* Would the rules give the order a day, and do the orders before it that get
\* none leave it a place in a backfill?
Reachable(o) ==
  /\ o \in Waiting
  /\ Snapshot(order[o].input) # NoDay
  /\ Cardinality({p \in Waiting : p < o /\ Snapshot(order[p].input) = NoDay}) < Limit

\* As long as backfills are run for good, no order that could have a day stays
\* without: not even when backfills overlap, fail or work on old rules.  It is
\* left out only behind Limit older ones that get none, which every backfill
\* takes again.
BackfillReaches ==
  []<>(\E b \in Backfills : backfill[b] # NotRunning /\ ~backfill[b].dry)
    => \A o \in 1..MaxOrders : []<>(o \notin DOMAIN order \/ ~Reachable(o))
=============================================================================
