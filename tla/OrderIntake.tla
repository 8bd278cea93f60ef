---------------------------- MODULE OrderIntake ----------------------------
(***************************************************************************)
(* How orders come in: the create endpoint and the CSV import, each a      *)
(* series of transactions and external calls of which none is undone when  *)
(* a later one fails; and how an order is paid for: Stripe's webhook.      *)
(*                                                                         *)
(* The rows an order starts with are those of OrderBase; here an order is  *)
(* its number.  Addresses saved to the address book on the way are left    *)
(* out, and so are the contents of documents.                              *)
(***************************************************************************)
EXTENDS Integers, FiniteSets

CONSTANTS
  Calls,      \* requests to create an order or to import a file of them
  Priced,     \* the requests whose amount is positive
  MaxRows,    \* bound on the rows of an imported file
  Copies,     \* deliveries of one event that may be in progress at once
  MaxFaults   \* bound on the deliveries that fail

ASSUME IntakeAssumption ==
  /\ MaxRows \in Nat \ {0}
  /\ MaxFaults \in Nat

VARIABLES
  config,     \* the server's environment: the label mode, payments on or off
  counter,    \* the Counter row "orderNumber"
  call,       \* what each request holds in memory, and its answer
  number,     \* the number of each call's n-th order, 0 before it is placed
  labelled,   \* orders whose parcels carry label keys
  queued,     \* orders with a label job
  rendering,  \* orders whose labels are rendered with nobody waiting
  invoice,    \* the invoice of each created order
  checkout,   \* Stripe's checkout session for it
  document,   \* calls whose invoice document is in the bucket
  hook,       \* the stage of each delivery of a checkout's event
  settled,    \* checkouts whose event was acknowledged
  faults      \* deliveries that failed so far

creation == <<counter, call, number, labelled, queued, rendering>>
payment  == <<document, hook, settled, faults>>

intakeVars == <<config, creation, invoice, checkout, payment>>

----------------------------------------------------------------------------
Configs == [labels : {"sync", "async", "queue"}, payments : BOOLEAN]

Orders == Calls \X (1..MaxRows)

\* The stages of a request in the order of the code; the last two are answers.
InFlight == {"number", "insert", "label", "invoice", "checkout", "link", "reply"}
Answers  == {"created", "refused"}

Call == [kind   : {"create", "import"},
         pc     : {"idle"} \cup InFlight \cup Answers,
         rows   : 1..MaxRows,      \* of the file; one for a single order
         row    : 1..MaxRows,      \* being worked on
         number : Nat,             \* taken for it
         warned : BOOLEAN]         \* the answer will carry a label warning

Invoice == [status : {"absent", "pending", "paid"}, link : BOOLEAN, key : BOOLEAN]

IntakeInit ==
  /\ config \in Configs
  /\ counter = 0
  /\ call = [c \in Calls |-> [kind |-> "create", pc |-> "idle", rows |-> 1, row |-> 1,
                              number |-> 0, warned |-> FALSE]]
  /\ number = [o \in Orders |-> 0]
  /\ labelled = {} /\ queued = {} /\ rendering = {}
  /\ invoice = [c \in Calls |-> [status |-> "absent", link |-> FALSE, key |-> FALSE]]
  /\ checkout = [c \in Calls |-> "none"]
  /\ document = {}
  /\ hook = [e \in Calls \X Copies |-> "idle"]
  /\ settled = {}
  /\ faults = 0

Order(c)  == <<c, call[c].row>>
GoTo(c, pc) == call' = [call EXCEPT ![c].pc = pc]

----------------------------------------------------------------------------
(* Creating orders.                                                        *)

\* A payload that was validated, or a file all of whose rows were.
Begin(c) ==
  /\ call[c].pc = "idle"
  /\ \E kind \in {"create", "import"}, rows \in 1..MaxRows :
       /\ kind = "create" => rows = 1
       /\ call' = [call EXCEPT ![c].kind = kind, ![c].rows = rows, ![c].pc = "number"]
  /\ UNCHANGED <<config, counter, number, labelled, queued, rendering, invoice, checkout, payment>>

\* Mutant of TakeNumber: the number is that of the orders there are, plus one.
TakeNumberByCount(c) ==
  /\ call[c].pc = "number"
  /\ counter' = counter + 1
  /\ call' = [call EXCEPT ![c].pc = "insert",
                          ![c].number = 1 + Cardinality({o \in Orders : number[o] # 0})]
  /\ UNCHANGED <<config, number, labelled, queued, rendering, invoice, checkout, payment>>

\* getNextOrderNumber: one atomic upsert, outside any transaction.
TakeNumber(c) ==
  /\ call[c].pc = "number"
  /\ counter' = counter + 1
  /\ call' = [call EXCEPT ![c].number = counter + 1, ![c].pc = "insert"]
  /\ UNCHANGED <<config, number, labelled, queued, rendering, invoice, checkout, payment>>

\* The order with its parcels, cash rows and first tracking row, in one
\* transaction; order numbers are unique.
Insert(c) ==
  /\ call[c].pc = "insert"
  /\ \A o \in Orders : number[o] # call[c].number
  /\ number' = [number EXCEPT ![Order(c)] = call[c].number]
  /\ GoTo(c, "label")
  /\ UNCHANGED <<config, counter, labelled, queued, rendering, invoice, checkout, payment>>

\* Mutant of AfterLabel: the rows of a file are counted one too far.
AfterLabelPastEnd(c, warned) ==
  LET r    == call[c]
      more == r.kind = "import" /\ r.row <= r.rows
      next == IF more THEN "number"
              ELSE IF r.kind = "import" \/ ~config.payments THEN "reply"
              ELSE IF c \in Priced THEN "invoice" ELSE "refused"
  IN  call' = [call EXCEPT ![c].pc = next, ![c].warned = warned,
                           ![c].row = IF more THEN r.row + 1 ELSE r.row]

\* Where a request goes on after labels: an import to its next row, a single
\* order to its invoice, if payments are on, where a bad amount is only now
\* refused.
AfterLabel(c, warned) ==
  LET r    == call[c]
      more == r.kind = "import" /\ r.row < r.rows
      next == IF more THEN "number"
              ELSE IF r.kind = "import" \/ ~config.payments THEN "reply"
              ELSE IF c \in Priced THEN "invoice" ELSE "refused"
  IN  call' = [call EXCEPT ![c].pc = next, ![c].warned = warned,
                           ![c].row = IF more THEN r.row + 1 ELSE r.row]

Label(c) ==
  /\ call[c].pc = "label"
  /\ \/ /\ config.labels = "queue"
        /\ queued' = queued \cup {Order(c)}
        /\ UNCHANGED <<labelled, rendering>>
     \/ /\ config.labels = "async"
        /\ rendering' = rendering \cup {Order(c)}
        /\ UNCHANGED <<labelled, queued>>
     \/ /\ config.labels = "sync"
        /\ labelled' = labelled \cup {Order(c)}
        /\ UNCHANGED <<queued, rendering>>
  /\ AfterLabel(c, call[c].warned)
  /\ UNCHANGED <<config, counter, number, invoice, checkout, payment>>

\* Mutants of LabelFails: the warning is lost; and an import goes on.
LabelFailsSilently(c) ==
  /\ call[c].pc = "label"
  /\ config.labels # "async"
  /\ IF call[c].kind = "create" THEN AfterLabel(c, FALSE) ELSE GoTo(c, "refused")
  /\ UNCHANGED <<config, counter, number, labelled, queued, rendering, invoice, checkout, payment>>

LabelFailsForRow(c) ==
  /\ call[c].pc = "label"
  /\ config.labels # "async"
  /\ AfterLabel(c, TRUE)
  /\ UNCHANGED <<config, counter, number, labelled, queued, rendering, invoice, checkout, payment>>

\* Rendering or enqueueing fails: a warning to the creator of an order, the
\* end of an import.
LabelFails(c) ==
  /\ call[c].pc = "label"
  /\ config.labels # "async"
  /\ IF call[c].kind = "create" THEN AfterLabel(c, TRUE) ELSE GoTo(c, "refused")
  /\ UNCHANGED <<config, counter, number, labelled, queued, rendering, invoice, checkout, payment>>

\* What was rendered with nobody waiting is written, or its failure logged.
EndRendering(o) ==
  /\ o \in rendering
  /\ rendering' = rendering \ {o}
  /\ labelled' \in {labelled, labelled \cup {o}}
  /\ UNCHANGED <<config, counter, call, number, queued, invoice, checkout, payment>>

CreateInvoice(c) ==
  /\ call[c].pc = "invoice"
  /\ invoice' = [invoice EXCEPT ![c].status = "pending"]
  /\ GoTo(c, "checkout")
  /\ UNCHANGED <<config, counter, number, labelled, queued, rendering, checkout, payment>>

CreateCheckout(c) ==
  /\ call[c].pc = "checkout"
  /\ checkout' = [checkout EXCEPT ![c] = "open"]
  /\ GoTo(c, "link")
  /\ UNCHANGED <<config, counter, number, labelled, queued, rendering, invoice, payment>>

SaveLink(c) ==
  /\ call[c].pc = "link"
  /\ invoice' = [invoice EXCEPT ![c].link = TRUE]
  /\ GoTo(c, "reply")
  /\ UNCHANGED <<config, counter, number, labelled, queued, rendering, checkout, payment>>

\* The order is read once more for the answer.
Reply(c) ==
  /\ call[c].pc = "reply"
  /\ GoTo(c, "created")
  /\ UNCHANGED <<config, counter, number, labelled, queued, rendering, invoice, checkout, payment>>

\* A call to the database or to Stripe fails, or the server dies: the caller
\* gets an error, and what was done stays.
CallFails(c) ==
  /\ call[c].pc \in InFlight
  /\ GoTo(c, "refused")
  /\ UNCHANGED <<config, counter, number, labelled, queued, rendering, invoice, checkout, payment>>

CallStep(c) ==
  \/ Begin(c) \/ TakeNumber(c) \/ Insert(c) \/ Label(c) \/ LabelFails(c)
  \/ CreateInvoice(c) \/ CreateCheckout(c) \/ SaveLink(c)
  \/ Reply(c) \/ CallFails(c)

----------------------------------------------------------------------------
(* Paying for an order.                                                    *)

\* Stripe: whoever sees the link pays, or lets the checkout expire.
EndCheckout(c) ==
  /\ checkout[c] = "open"
  /\ invoice[c].link
  /\ checkout' \in {[checkout EXCEPT ![c] = end] : end \in {"paid", "expired"}}
  /\ UNCHANGED <<config, creation, invoice, payment>>

HookTo(c, d, stage) == hook' = [hook EXCEPT ![<<c, d>>] = stage]

\* Stripe delivers a checkout's event until it is acknowledged, and may
\* deliver it again, also while a delivery is in progress.
Deliver(c, d) ==
  /\ checkout[c] \in {"paid", "expired"}
  /\ hook[<<c, d>>] = "idle"
  /\ HookTo(c, d, "lookup")
  /\ UNCHANGED <<config, creation, invoice, checkout, document, settled, faults>>

\* Events of other types, invoices that do not exist, and deliveries repeated
\* after the first has done everything are acknowledged at once.
NothingToDo(c) ==
  \/ checkout[c] # "paid"
  \/ invoice[c].status = "absent"
  \/ invoice[c].status = "paid" /\ invoice[c].key

LookUp(c, d) ==
  /\ hook[<<c, d>>] = "lookup"
  /\ IF NothingToDo(c)
     THEN HookTo(c, d, "idle") /\ settled' = settled \cup {c}
     ELSE HookTo(c, d, "pay") /\ UNCHANGED settled
  /\ UNCHANGED <<config, creation, invoice, checkout, document, faults>>

\* Mutant of MarkPaid: the key is written with the status.
MarkPaidWithKey(c, d) ==
  /\ hook[<<c, d>>] = "pay"
  /\ invoice' = [invoice EXCEPT ![c].status = "paid", ![c].key = TRUE]
  /\ HookTo(c, d, "upload")
  /\ UNCHANGED <<config, creation, checkout, document, settled, faults>>

MarkPaid(c, d) ==
  /\ hook[<<c, d>>] = "pay"
  /\ invoice' = [invoice EXCEPT ![c].status = "paid"]
  /\ HookTo(c, d, "upload")
  /\ UNCHANGED <<config, creation, checkout, document, settled, faults>>

\* The document is rendered and put into the bucket.
UploadInvoice(c, d) ==
  /\ hook[<<c, d>>] = "upload"
  /\ document' = document \cup {c}
  /\ HookTo(c, d, "key")
  /\ UNCHANGED <<config, creation, invoice, checkout, settled, faults>>

SaveKey(c, d) ==
  /\ hook[<<c, d>>] = "key"
  /\ invoice' = [invoice EXCEPT ![c].key = TRUE]
  /\ HookTo(c, d, "idle")
  /\ settled' = settled \cup {c}
  /\ UNCHANGED <<config, creation, checkout, document, faults>>

\* Mutant of HookFails: the failure is answered like a success.
HookFailsQuietly(c, d) ==
  /\ hook[<<c, d>>] # "idle"
  /\ faults < MaxFaults
  /\ HookTo(c, d, "idle")
  /\ faults' = faults + 1
  /\ settled' = settled \cup {c}
  /\ UNCHANGED <<config, creation, invoice, checkout, document>>

\* A step throws and the delivery is answered with an error, or the server
\* dies and it is not answered.
HookFails(c, d) ==
  /\ hook[<<c, d>>] # "idle"
  /\ faults < MaxFaults
  /\ HookTo(c, d, "idle")
  /\ faults' = faults + 1
  /\ UNCHANGED <<config, creation, invoice, checkout, document, settled>>

HookStep(c, d) ==
  LookUp(c, d) \/ MarkPaid(c, d) \/ UploadInvoice(c, d) \/ SaveKey(c, d)

IntakeNext ==
  \/ \E c \in Calls : CallStep(c) \/ EndCheckout(c)
  \/ \E o \in Orders : EndRendering(o)
  \/ \E c \in Calls, d \in Copies : Deliver(c, d) \/ HookStep(c, d) \/ HookFails(c, d)

IntakeSpec == IntakeInit /\ [][IntakeNext]_intakeVars

\* Stripe delivers an event again until a delivery of it was acknowledged, and
\* not for certain after that; a delivery goes on until it is answered.
\* Nothing obliges anybody to create or pay for an order.
FairIntakeSpec ==
  /\ IntakeSpec
  /\ \A c \in Calls, d \in Copies :
       /\ WF_intakeVars(c \notin settled /\ Deliver(c, d))
       /\ WF_intakeVars(HookStep(c, d))

----------------------------------------------------------------------------
\* The rows, the requests and the deliveries have their types.
IntakeTypeOK ==
  /\ config \in Configs
  /\ counter \in Nat
  /\ call \in [Calls -> Call]
  /\ number \in [Orders -> Nat]
  /\ labelled \subseteq Orders /\ queued \subseteq Orders /\ rendering \subseteq Orders
  /\ invoice \in [Calls -> Invoice]
  /\ checkout \in [Calls -> {"none", "open", "paid", "expired"}]
  /\ document \subseteq Calls
  /\ hook \in [Calls \X Copies -> {"idle", "lookup", "pay", "upload", "key"}]
  /\ settled \subseteq Calls
  /\ faults \in 0..MaxFaults

\* Numbers are taken long before the orders that carry them exist: still, no
\* insert is ever refused for its number, as it is nobody else's, placed or
\* about to be.
NumbersFresh ==
  /\ \A o, p \in Orders : number[o] = number[p] /\ number[o] # 0 => o = p
  /\ \A c \in Calls : call[c].pc = "insert" =>
       /\ \A o \in Orders : number[o] # call[c].number
       /\ \A b \in Calls \ {c} : call[b].pc = "insert" => call[b].number # call[c].number

\* A request answered with success has left everything it promised: each
\* order with labels, a job for them, a warning, or, in async mode, an attempt
\* nobody waits for; and a link to pay by if payments are on.
AnsweredWhole ==
  \A c \in Calls : call[c].pc = "created" =>
    /\ \A n \in 1..call[c].rows :
         /\ number[<<c, n>>] # 0
         /\ \/ <<c, n>> \in labelled \cup queued
            \/ call[c].warned
            \/ config.labels = "async"
    /\ call[c].kind = "create" /\ config.payments => invoice[c].link /\ checkout[c] # "none"

\* An import that fails leaves the first rows of its file, in order and ready
\* to go but for the last of them: where to resume can be told.
LeftoverIsPrefix ==
  \A c \in Calls : call[c].kind = "import" =>
    \A n \in 2..MaxRows : number[<<c, n>>] # 0 =>
      /\ 0 < number[<<c, n - 1>>] /\ number[<<c, n - 1>>] < number[<<c, n>>]
      /\ config.labels # "async" => <<c, n - 1>> \in labelled \cup queued

\* An invoice says paid only of a checkout that was, and has a key only when
\* its document is in the bucket, however deliveries overlap and fail.
PaidForReal ==
  \A c \in Calls :
    /\ invoice[c].status = "paid" => checkout[c] = "paid"
    /\ invoice[c].key => invoice[c].status = "paid" /\ c \in document

\* What Stripe will not deliver again needs no delivery: the invoice of a paid
\* checkout whose event was acknowledged is paid, with its document.
AcknowledgedSettled ==
  \A c \in settled : checkout[c] = "paid" => invoice[c].status = "paid" /\ invoice[c].key

\* Whoever pays gets a paid invoice with a document, whatever failed on the way.
PaymentProcessed ==
  \A c \in Calls : checkout[c] = "paid" ~> invoice[c].status = "paid" /\ invoice[c].key
=============================================================================
