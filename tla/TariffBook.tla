----------------------------- MODULE TariffBook -----------------------------
(***************************************************************************)
(* Tariff plans: how managers edit them, and what a quote makes of them.   *)
(*                                                                         *)
(* An edit is a transaction of up to three statements at READ COMMITTED:   *)
(* the other default of the same service and customer is demoted, the old  *)
(* bands are deleted, and the plan is written with its new bands.  Each    *)
(* statement works on what was committed when it began, waits for the rows *)
(* another edit has changed, and passes over those that no longer match.   *)
(* So two edits at once may both become the default, or leave one plan the *)
(* bands of both.                                                          *)
(***************************************************************************)
EXTENDS PricingRoutes

CONSTANTS
  Plans,        \* ids of tariff plans
  Editors,      \* edits in progress at once
  Customers,    \* customer entities
  Services,
  Weights,
  PlanInputs,   \* what managers save: the plan's row and its bands
  MaxEdits      \* bound on committed edits

\* A plan as it is sent, and the bands createTariffPlanSchema lets through.
PlanRow == [status : {"draft", "active", "archived"}, service : Services,
            owner : Customers \cup {Unset}, isDefault : BOOLEAN, priority : Nat]
Band == [zone : Zones, from : Nat, to : Nat, price : Nat]
SameRange(b, c) == b.zone = c.zone /\ b.from = c.from /\ b.to = c.to
BandsOK(bands) ==
  /\ bands # {} /\ bands \subseteq Band
  /\ \A b \in bands : b.from < b.to
  /\ \A b, c \in bands : SameRange(b, c) => b = c

ASSUME TariffsAssumption ==
  /\ \A input \in PlanInputs : input.row \in PlanRow /\ BandsOK(input.bands)
  /\ Unset \notin Customers \cup Plans
  /\ Weights \subseteq Nat \ {0}
  /\ MaxEdits \in Nat

VARIABLES
  plan,      \* the TariffPlan rows, with the edit that created them
  rates,     \* the TariffRate rows: plan, band and the edit that inserted them
  edit,      \* the edits in progress
  edits      \* committed so far

tariffVars == <<plan, rates, edit, edits>>

----------------------------------------------------------------------------
Plan == [row : {input.row : input \in PlanInputs}, isDefault : BOOLEAN, born : 1..MaxEdits]
Rate == [plan : Plans, band : UNION {input.bands : input \in PlanInputs}, no : 1..MaxEdits]

Edit == [at : {"demote", "demoting", "clear", "clearing", "write"},
         plan : Plans, new : BOOLEAN, input : PlanInputs,
         seen : SUBSET (Plans \cup Rate),     \* what the statement began with
         demoted : SUBSET Plans, cleared : SUBSET Rate,
         met : BOOLEAN]                       \* has another edit been in progress?

\* Null is no row and no edit.
ASSUME TariffNullAssumption == Unset \notin Plan /\ Unset \notin Edit

Editing == {e \in Editors : edit[e] # Unset}
Others(e) == Editing \ {e}

TariffsInit ==
  /\ plan = [p \in Plans |-> Unset]
  /\ rates = {}
  /\ edit = [e \in Editors |-> Unset]
  /\ edits = 0

\* The statements of an edit, in order.
AfterDemote(new) == IF new THEN "write" ELSE "clear"
FirstOf(input, new) == IF input.row.isDefault THEN "demote" ELSE AfterDemote(new)

\* createTariffPlan with a fresh id, updateTariffPlan with a known one.
BeginEdit(e, p, input) ==
  LET new == plan[p] = Unset
  IN /\ edit[e] = Unset
     /\ edits < MaxEdits
     /\ new => \A f \in Editing : edit[f].plan # p
     /\ edit' = [f \in Editors |->
          IF f = e THEN [at |-> FirstOf(input, new), plan |-> p, new |-> new, input |-> input,
                         seen |-> {}, demoted |-> {}, cleared |-> {}, met |-> Editing # {}]
          ELSE IF f \in Editing THEN [edit[f] EXCEPT !.met = TRUE] ELSE Unset]
     /\ UNCHANGED <<plan, rates, edits>>

\* Mutant of Rivals: only the plans in force are looked at.
RivalsInForce(e) ==
  {q \in Plans \ {edit[e].plan} :
     /\ plan[q] # Unset
     /\ plan[q].isDefault
     /\ plan[q].row.status = "active"
     /\ plan[q].row.service = edit[e].input.row.service
     /\ plan[q].row.owner = edit[e].input.row.owner}

\* The defaults an edit takes the place of.
Rivals(e) ==
  {q \in Plans \ {edit[e].plan} :
     /\ plan[q] # Unset
     /\ plan[q].isDefault
     /\ plan[q].row.service = edit[e].input.row.service
     /\ plan[q].row.owner = edit[e].input.row.owner}

BeginDemote(e) ==
  /\ edit[e] # Unset /\ edit[e].at = "demote"
  /\ edit' = [edit EXCEPT ![e].at = "demoting", ![e].seen = Rivals(e)]
  /\ UNCHANGED <<plan, rates, edits>>

Demote(e) ==
  /\ edit[e] # Unset /\ edit[e].at = "demoting"
  /\ \A f \in Others(e) : edit[f].demoted \cap edit[e].seen = {}
  /\ edit' = [edit EXCEPT ![e].at = AfterDemote(edit[e].new), ![e].seen = {},
                          ![e].demoted = edit[e].seen \cap Rivals(e)]
  /\ UNCHANGED <<plan, rates, edits>>

BeginClear(e) ==
  /\ edit[e] # Unset /\ edit[e].at = "clear"
  /\ edit' = [edit EXCEPT ![e].at = "clearing",
                          ![e].seen = {r \in rates : r.plan = edit[e].plan}]
  /\ UNCHANGED <<plan, rates, edits>>

Clear(e) ==
  /\ edit[e] # Unset /\ edit[e].at = "clearing"
  /\ \A f \in Others(e) : edit[f].cleared \cap edit[e].seen = {}
  /\ edit' = [edit EXCEPT ![e].at = "write", ![e].seen = {},
                          ![e].cleared = edit[e].seen \cap rates]
  /\ UNCHANGED <<plan, rates, edits>>

\* A rate in the way of the edit's bands: one range, one row.
InTheWay(e, r) ==
  r.plan = edit[e].plan /\ \E b \in edit[e].input.bands : SameRange(r.band, b)

\* The plan is written with its bands, and the transaction commits; the unique
\* range refuses an edit that another one of the same plan has forestalled.
Write(e) ==
  /\ edit[e] # Unset /\ edit[e].at = "write"
  /\ \A f \in Others(e) :
       /\ edit[e].plan \notin edit[f].demoted
       /\ \A r \in edit[f].cleared : ~InTheWay(e, r)
  /\ edit' = [edit EXCEPT ![e] = Unset]
  /\ IF \E r \in rates \ edit[e].cleared : InTheWay(e, r)
     THEN UNCHANGED <<plan, rates, edits>>
     ELSE /\ edits < MaxEdits
          /\ edits' = edits + 1
          /\ plan' = [q \in Plans |->
               IF q = edit[e].plan
               THEN [row |-> edit[e].input.row, isDefault |-> edit[e].input.row.isDefault,
                     born |-> IF edit[e].new THEN edits' ELSE plan[q].born]
               ELSE IF q \in edit[e].demoted THEN [plan[q] EXCEPT !.isDefault = FALSE]
               ELSE plan[q]]
          /\ rates' = (rates \ edit[e].cleared)
               \cup {[plan |-> edit[e].plan, band |-> b, no |-> edits'] : b \in edit[e].input.bands}

\* A query fails, or two edits wait for one another and the database ends one:
\* the transaction leaves nothing.
AbortEdit(e) ==
  /\ edit[e] # Unset
  /\ edit' = [edit EXCEPT ![e] = Unset]
  /\ UNCHANGED <<plan, rates, edits>>

TariffsNext ==
  \E e \in Editors :
    \/ \E p \in Plans, input \in PlanInputs : BeginEdit(e, p, input)
    \/ BeginDemote(e) \/ Demote(e) \/ BeginClear(e) \/ Clear(e) \/ Write(e) \/ AbortEdit(e)

\* Whatever happens to regions and zones.
TariffsSpec == TariffsInit /\ [][TariffsNext]_tariffVars

----------------------------------------------------------------------------
(* quoteTariff, as its answer would be if nothing changed between its      *)
(* queries.                                                                *)

\* The active plans of the service, shared or the customer's own.
Candidates(service, customer) ==
  {p \in Plans : /\ plan[p] # Unset
                 /\ plan[p].row.status = "active"
                 /\ plan[p].row.service = service
                 /\ plan[p].row.owner \in {customer, Unset}}

\* sortTariffPlans: the customer's own, then the default, then priority, then
\* the newest.
Weight(p, customer) ==
  <<IF customer # Unset /\ plan[p].row.owner = customer THEN 1 ELSE 0,
    IF plan[p].isDefault THEN 1 ELSE 0, plan[p].row.priority, plan[p].born>>
Outranks(v, w) ==
  \E i \in 1..4 : v[i] > w[i] /\ \A j \in 1..(i - 1) : v[j] = w[j]

PlanQuoted(service, customer) ==
  LET plans == Candidates(service, customer)
  IN IF plans = {} THEN Unset
     ELSE CHOOSE p \in plans :
            \A q \in plans : ~Outranks(Weight(q, customer), Weight(p, customer))

\* The bands are tried from the lightest up; a lower limit counts only when no
\* band reaches the weight otherwise.
Lightest(bands) ==
  CHOOSE b \in bands : \A c \in bands : b.from < c.from \/ (b.from = c.from /\ b.to <= c.to)
Price(bands, z, weight) ==
  LET above  == {b \in bands : b.zone = z /\ weight > b.from /\ weight <= b.to}
      within == {b \in bands : b.zone = z /\ weight >= b.from /\ weight <= b.to}
  IN IF above # {} THEN Lightest(above).price
     ELSE IF within # {} THEN Lightest(within).price
     ELSE Unset

BandsOf(p) == {r.band : r \in {x \in rates : x.plan = p}}

Quote(service, customer, from, to, weight) ==
  LET route == RouteContext(from, to)
      p     == PlanQuoted(service, customer)
  IN IF route.zone = Unset \/ p = Unset THEN Unset
     ELSE Price(BandsOf(p), route.zone, weight)

----------------------------------------------------------------------------
\* Plans, rates and edits are well-formed; a plan has one row for a range, and
\* bands as soon as it exists.
TariffsTypeOK ==
  /\ plan \in [Plans -> Plan \cup {Unset}]
  /\ rates \subseteq Rate
  /\ edit \in [Editors -> Edit \cup {Unset}]
  /\ edits \in 0..MaxEdits
  /\ \A r, s \in rates : (r.plan = s.plan /\ SameRange(r.band, s.band)) => r = s
  /\ \A p \in Plans : (plan[p] # Unset) <=> (BandsOf(p) # {})

\* The edit that is committed now: it saves the input as the plan p.
Commits(e, p, input) ==
  /\ edit[e] # Unset /\ edit[e].plan = p /\ edit[e].input = input
  /\ edit'[e] = Unset /\ edits' # edits

\* Is p the only default of what the input is about, and is it quoted?
OnlyDefault(p, row) ==
  \A q \in Plans \ {p} :
    ~ /\ plan[q] # Unset /\ plan[q].isDefault
      /\ plan[q].row.service = row.service /\ plan[q].row.owner = row.owner
QuotedAs(input) ==
  \A from, to \in Names, weight \in Weights :
    LET z == RouteContext(from, to).zone
    IN Quote(input.row.service, input.row.owner, from, to, weight)
         = IF z = Unset THEN Unset ELSE Price(input.bands, z, weight)

\* Whatever overlapping edits have left (two defaults, bands of two edits), an
\* edit that overlaps none puts right: its plan has exactly the bands sent
\* and, sent as the default, is the only one of its service and customer; and
\* if it is active, what is quoted there is what was sent.
EditRestores ==
  [][\A e \in Editors, p \in Plans, input \in PlanInputs :
       (Commits(e, p, input) /\ ~edit[e].met) =>
         /\ BandsOf(p)' = input.bands
         /\ input.row.isDefault =>
              /\ OnlyDefault(p, input.row)'
              /\ input.row.status = "active" => QuotedAs(input)']_tariffVars
=============================================================================
