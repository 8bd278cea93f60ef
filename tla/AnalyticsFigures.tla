-------------------------- MODULE AnalyticsFigures --------------------------
(***************************************************************************)
(* What the four sections of the manager analytics show, which mutations   *)
(* change it, and whether the event a mutation publishes names every       *)
(* section it changes.  Nothing else ties the two together: the queries    *)
(* are in one file, the type of the event is inferred from the request's   *)
(* path in another and the sections of a type are listed in a third.       *)
(*                                                                         *)
(* One order with its invoice and its cash; counts and sums over orders    *)
(* are sums of what one order contributes.  What the passing of time alone *)
(* does to the figures is left to the lifetime of the copies.              *)
(***************************************************************************)
EXTENDS AnalyticsEvents, Integers

CONSTANTS Days     \* bound on the days on which the order is updated

ASSUME FiguresAssumption == Days \in Nat

VARIABLES
  db,        \* the order, its invoice and its cash
  today,
  named      \* the sections the last mutation is known to change

figuresVars == <<db, today, named>>

----------------------------------------------------------------------------
Scopes   == {"manager", "warehouse"}

ActiveStatuses == {"pending", "in_transit", "exception"}
Statuses       == ActiveStatuses \cup {"delivered", "returned"}

Db == [status  : {"none"} \cup Statuses,
       updated : 0..Days,                                     \* Order.updatedAt
       due     : {"unknown", "past", "ahead"},     \* expectedDeliveryAt and the SLA policy
       codPaid : BOOLEAN,
       here    : BOOLEAN,     \* at the scoped warehouse, or its driver belongs there
       invoice : {"none", "pending", "paid"},
       cash    : {"none", "expected", "held", "settled"},
       holder  : {"none", "driver", "warehouse"}]

\* buildScopeOrderWhere, buildScopeOrderSql and buildScopeQueueSql.
InScope(scope, d) == d.status # "none" /\ (scope = "manager" \/ d.here)
Open(d)           == d.status \in ActiveStatuses
Unpaid(d)         == d.cash # "none" /\ ~d.codPaid

\* Each section is the set of rows the order contributes to it.
SummaryFigures(d) ==
  {<<"status", d.status>>, <<"invoice", d.invoice>>, <<"cod", d.cash # "none", Unpaid(d)>>}
    \cup (IF Open(d) THEN {<<"stale", d.updated>>, <<"sla", d.due>>} ELSE {<<"closed", d.updated>>})

TrendFigures(d) ==
  {<<"created">>} \cup (IF d.status = "delivered" THEN {<<"delivered", d.updated>>} ELSE {})

LateFigures(d) ==
  (IF Open(d) /\ d.due = "past" THEN {<<"overdue", d.status, d.updated>>} ELSE {})
    \cup (IF Open(d) THEN {<<"stale", d.status, d.updated, d.due>>} ELSE {})

ExposureFigures(d) ==
  IF Unpaid(d) THEN {<<"exposure", d.status, d.updated>>} ELSE {}

FinanceQueueFigures(d) ==
  IF d.cash \in {"expected", "held"} THEN {<<"queue", d.cash, d.holder, d.status>>} ELSE {}

\* Finance exposure is that of every warehouse, whoever asks: its query has an
\* OR of its own, which takes the place of the one that limits the scope.
Figures(s, scope, d) ==
  LET Scoped(rows) == IF InScope(scope, d) THEN rows ELSE {}
  IN  CASE s = "summary"       -> Scoped(SummaryFigures(d))
        [] s = "trend"         -> Scoped(TrendFigures(d))
        [] s = "warnings"      -> Scoped(LateFigures(d)) \cup ExposureFigures(d)
        [] s = "finance-queue" -> Scoped(FinanceQueueFigures(d))

NoOrder == [status |-> "none", updated |-> 0, due |-> "unknown", codPaid |-> FALSE,
            here |-> FALSE, invoice |-> "none", cash |-> "none", holder |-> "none"]

FiguresInit ==
  /\ db = NoOrder
  /\ today = 0
  /\ named = {}

----------------------------------------------------------------------------
(* From a request to the sections it is taken to change.                   *)

Requests == {"create", "import", "status", "collect", "handoff", "settle"}

\* Mutant of inferEventType: whatever is under /cash is a movement of cash.
inferEventTypeByPrefix ==
  [q \in Requests |-> CASE q = "create" -> "order_created"
                        [] q \in {"collect", "handoff", "settle"} -> "cash_settled"
                        [] OTHER        -> "order_status_changed"]

inferEventType ==
  [q \in Requests |-> CASE q = "create"  -> "order_created"
                        [] q = "settle"  -> "cash_settled"
                        [] q = "handoff" -> "cash_handoff"
                        [] OTHER         -> "order_status_changed"]

\* The response is sent and the event published, which names the sections.
Announce(request) ==
  /\ named' = sectionForEventType[inferEventType[request]]
  /\ UNCHANGED today

\* No route of the mutation is under the middleware that announces: these
\* sections stay as they are until their copies expire.
Unannounced(sections) ==
  /\ named' = sections
  /\ UNCHANGED today

----------------------------------------------------------------------------
(* Mutations.                                                              *)

CreateOrder ==
  /\ db.status = "none"
  /\ \E due \in {"unknown", "past", "ahead"}, cash \in {"none", "expected"},
        invoice \in {"none", "pending"}, here \in BOOLEAN, q \in {"create", "import"} :
       /\ db' = [NoOrder EXCEPT !.status = "pending", !.updated = today, !.due = due,
                                !.cash = cash, !.invoice = invoice, !.here = here]
       /\ Announce(q)

\* Status, assignment, task and scan: the order's row is written.
ChangeStatus ==
  /\ db.status # "none"
  /\ \E st \in Statuses, here \in BOOLEAN :
       db' = [db EXCEPT !.status = st, !.updated = today, !.here = here]
  /\ Announce("status")

\* Collecting writes the order too, handing off and settling do not.
CollectCash ==
  /\ db.cash = "expected"
  /\ db' = [db EXCEPT !.cash = "held", !.holder = "driver", !.codPaid = TRUE, !.updated = today]
  /\ Announce("collect")

HandOffCash ==
  /\ db.cash = "held"
  /\ \E h \in {"driver", "warehouse"} : db' = [db EXCEPT !.holder = h]
  /\ Announce("handoff")

SettleCash ==
  /\ db.cash = "held"
  /\ db' = [db EXCEPT !.cash = "settled", !.holder = "none"]
  /\ Announce("settle")

\* The Stripe webhook is mounted before everything else.
PayInvoice ==
  /\ db.invoice = "pending"
  /\ db' = [db EXCEPT !.invoice = "paid"]
  /\ Unannounced({"summary"})

\* The backfill of delivery dates writes orders from the pricing routes.
BackfillDue ==
  /\ db.due = "unknown" /\ Open(db)
  /\ \E due \in {"past", "ahead"} : db' = [db EXCEPT !.due = due, !.updated = today]
  /\ Unannounced({"summary", "warnings"})

\* The thresholds of the SLA policy move under the date of the order.
ChangePolicy ==
  /\ db.due # "unknown"
  /\ \E due \in {"past", "ahead"} : db' = [db EXCEPT !.due = due]
  /\ Unannounced({"summary", "warnings"})

\* A driver gets another warehouse, and with it the orders assigned to it.
MoveDriver ==
  /\ db.status # "none"
  /\ db' = [db EXCEPT !.here = ~@]
  /\ Unannounced(Sections)

NextDay ==
  /\ today < Days
  /\ today' = today + 1
  /\ UNCHANGED <<db, named>>

FiguresNext ==
  \/ CreateOrder \/ ChangeStatus \/ CollectCash \/ HandOffCash \/ SettleCash
  \/ PayInvoice \/ BackfillDue \/ ChangePolicy \/ MoveDriver
  \/ NextDay

FiguresSpec == FiguresInit /\ [][FiguresNext]_figuresVars

----------------------------------------------------------------------------
\* Rows and announcements are well-formed.
FiguresTypeOK ==
  /\ db \in Db
  /\ today \in 0..Days
  /\ named \in SUBSET Sections

\* No request that publishes an event changes, in any scope, a section that
\* its event does not name: movements of cash may leave the trend out because
\* they never write the order.  Of the mutations that publish nothing, the
\* webhook changes the summary only and the backfill no money.
ChangesAreNamed ==
  [][\A s \in Sections, scope \in Scopes :
       Figures(s, scope, db') # Figures(s, scope, db) => s \in named']_figuresVars
=============================================================================
