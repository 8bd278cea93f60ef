------------------------- MODULE OrderIntakeProofs -------------------------
(***************************************************************************)
(* The safety of creation, import and payment for any number of requests,  *)
(* rows, deliveries and failures.                                          *)
(***************************************************************************)
EXTENDS OrderIntake, TLAPS

\* Numbers come from the counter, and are used once.
NumbersFit ==
  /\ \A o \in Orders : number[o] <= counter
  /\ \A c \in Calls : call[c].pc = "insert" => call[c].number \in 1..counter
  /\ NumbersFresh

\* What a request has left so far fits the row and the stage it is at.
RowFits(c) ==
  LET r == call[c] IN
  /\ r.row <= r.rows
  /\ r.pc = "idle" => r.row = 1
  /\ r.kind = "create" => r.rows = 1
  /\ r.pc \in {"idle", "number", "insert"} => number[<<c, r.row>>] = 0
  /\ r.pc \in {"label", "invoice", "checkout", "link", "reply", "created"} => number[<<c, r.row>>] # 0
  /\ r.pc \in {"invoice", "checkout", "link", "reply", "created"} =>
       \/ <<c, r.row>> \in labelled \cup queued
       \/ r.warned
       \/ config.labels = "async"
  /\ r.pc \in {"invoice", "checkout", "link"} => r.kind = "create"
  /\ r.pc \in {"reply", "created"} => r.row = r.rows
  /\ \A n \in 1..MaxRows : r.row < n => number[<<c, n>>] = 0
  /\ \A n \in 1..MaxRows : n < r.row =>
       /\ 0 < number[<<c, n>>]
       /\ r.pc = "insert" => number[<<c, n>>] < r.number
       /\ config.labels # "async" => <<c, n>> \in labelled \cup queued
  /\ \A m, n \in 1..MaxRows : m < n /\ number[<<c, n>>] # 0 => number[<<c, m>>] < number[<<c, n>>]

\* The invoice and the checkout come one after the other.
MoneyFits(c) ==
  /\ call[c].pc \in {"idle", "number", "insert", "label", "invoice"} =>
       invoice[c].status = "absent"
  /\ call[c].pc \in {"idle", "number", "insert", "label", "invoice", "checkout"} =>
       checkout[c] = "none"
  /\ call[c].pc \in {"checkout", "link"} => invoice[c].status # "absent"
  /\ call[c].pc = "link" => checkout[c] # "none"
  /\ call[c].pc \in {"reply", "created"} /\ call[c].kind = "create" /\ config.payments =>
       invoice[c].link /\ checkout[c] # "none"
  /\ checkout[c] # "none" => invoice[c].status # "absent"
  /\ invoice[c].status = "paid" => checkout[c] = "paid"
  /\ invoice[c].key => invoice[c].status = "paid" /\ c \in document

\* A delivery at a stage has done what comes before it.
HookFits(c, d) ==
  /\ hook[<<c, d>>] # "idle" => checkout[c] \in {"paid", "expired"}
  /\ hook[<<c, d>>] \in {"pay", "upload", "key"} => checkout[c] = "paid"
  /\ hook[<<c, d>>] \in {"upload", "key"} => invoice[c].status = "paid"
  /\ hook[<<c, d>>] = "key" => c \in document

SettledFits(c) ==
  c \in settled =>
    /\ checkout[c] \in {"paid", "expired"}
    /\ checkout[c] = "paid" => invoice[c].status = "paid" /\ invoice[c].key

IntakeInv ==
  /\ IntakeTypeOK
  /\ NumbersFit
  /\ \A c \in Calls : RowFits(c)
  /\ \A c \in Calls : MoneyFits(c)
  /\ \A c \in Calls, d \in Copies : HookFits(c, d)
  /\ \A c \in Calls : SettledFits(c)

----------------------------------------------------------------------------
\* Nothing has happened yet.
LEMMA IntakeInitInv == ASSUME IntakeInit PROVE IntakeInv
<1>. USE IntakeAssumption DEF IntakeInit
<1>1. IntakeTypeOK
  BY DEF IntakeTypeOK, Call, Invoice, Orders, Configs, InFlight, Answers
<1>2. NumbersFit
  BY DEF NumbersFit, NumbersFresh, Orders
<1>3. \A c \in Calls : RowFits(c)
  BY DEF RowFits, Orders
<1>4. (\A c \in Calls : MoneyFits(c)) /\ (\A c \in Calls : SettledFits(c))
  BY DEF MoneyFits, SettledFits
<1>5. \A c \in Calls, d \in Copies : HookFits(c, d)
  BY DEF HookFits
<1>. QED  BY <1>1, <1>2, <1>3, <1>4, <1>5 DEF IntakeInv

\* What a step of a request's stage alone does to the requests.
LEMMA GoToCall ==
  ASSUME call \in [Calls -> Call], NEW c \in Calls,
         NEW pc \in InFlight \cup Answers, GoTo(c, pc)
  PROVE  /\ call' \in [Calls -> Call]
         /\ call'[c] = [call[c] EXCEPT !.pc = pc]
         /\ \A b \in Calls \ {c} : call'[b] = call[b]
BY DEF GoTo, Call

\* What going on after labels does to the requests.
LEMMA AfterLabelCall ==
  ASSUME call \in [Calls -> Call], NEW c \in Calls, NEW warned \in BOOLEAN,
         AfterLabel(c, warned), call[c].row <= call[c].rows, IntakeAssumption
  PROVE  /\ call' \in [Calls -> Call]
         /\ \A b \in Calls \ {c} : call'[b] = call[b]
         /\ call'[c].kind = call[c].kind
         /\ call'[c].rows = call[c].rows
         /\ call'[c].number = call[c].number
         /\ call'[c].warned = warned
         /\ \/ /\ call[c].kind = "import" /\ call[c].row < call[c].rows
               /\ call'[c].pc = "number" /\ call'[c].row = call[c].row + 1
            \/ /\ call'[c].row = call[c].row
               /\ call'[c].pc = "reply"
               /\ call[c].kind = "import" => call[c].row = call[c].rows
               /\ call[c].kind = "create" => ~config.payments
            \/ /\ call'[c].row = call[c].row
               /\ call'[c].pc \in {"invoice", "refused"} /\ call[c].kind = "create"
<1>. DEFINE r    == call[c]
            more == r.kind = "import" /\ r.row < r.rows
            next == IF more THEN "number"
                    ELSE IF r.kind = "import" \/ ~config.payments THEN "reply"
                    ELSE IF c \in Priced THEN "invoice" ELSE "refused"
            row  == IF more THEN r.row + 1 ELSE r.row
<1>1. call[c] \in Call
  OBVIOUS
<1>2. row \in 1..MaxRows
  BY <1>1 DEF Call, IntakeAssumption
<1>3. next \in InFlight \cup Answers
  BY DEF InFlight, Answers
<1>4. call' = [call EXCEPT ![c] = [[[@ EXCEPT !.pc = next] EXCEPT !.warned = warned] EXCEPT !.row = row]]
  BY DEF AfterLabel
<1>5. /\ \A b \in Calls \ {c} : call'[b] = call[b]
      /\ call'[c] = [[[r EXCEPT !.pc = next] EXCEPT !.warned = warned] EXCEPT !.row = row]
      /\ call' \in [Calls -> Call]
  <2>. HIDE DEF next, row
  <2>1. [[[r EXCEPT !.pc = next] EXCEPT !.warned = warned] EXCEPT !.row = row] \in Call
    BY <1>1, <1>2, <1>3 DEF Call
  <2>. QED  BY <1>4, <2>1
<1>6. /\ call'[c].kind = r.kind /\ call'[c].rows = r.rows /\ call'[c].number = r.number
      /\ call'[c].warned = warned /\ call'[c].row = row /\ call'[c].pc = next
  <2>. HIDE DEF next, row
  <2>. QED  BY <1>1, <1>5 DEF Call
<1>7. r.row \in Nat /\ r.rows \in Nat /\ r.kind \in {"create", "import"}
  BY <1>1 DEF Call
<1>. QED  BY <1>5, <1>6, <1>7

----------------------------------------------------------------------------
\* What a request does concerns its own orders, invoice and checkout.
LEMMA OthersKeep ==
  ASSUME IntakeInv, NEW c \in Calls, config' = config,
         \A b \in Calls \ {c} : call'[b] = call[b] /\ invoice'[b] = invoice[b] /\ checkout'[b] = checkout[b],
         \A b \in Calls \ {c} : \A n \in 1..MaxRows : number'[<<b, n>>] = number[<<b, n>>],
         labelled \subseteq labelled', queued \subseteq queued', document \subseteq document'
  PROVE  \A b \in Calls \ {c} : RowFits(b)' /\ MoneyFits(b)'
<1>. SUFFICES ASSUME NEW b \in Calls \ {c} PROVE RowFits(b)' /\ MoneyFits(b)'
  OBVIOUS
<1>1. RowFits(b) /\ MoneyFits(b) /\ call'[b] = call[b] /\ call[b].row \in 1..MaxRows
  BY DEF IntakeInv, IntakeTypeOK, Call
<1>2. RowFits(b)'
  BY <1>1 DEF RowFits
<1>3. MoneyFits(b)'
  BY <1>1 DEF MoneyFits
<1>. QED  BY <1>2, <1>3

\* Deliveries rely on checkouts that have ended and on what invoices have.
LEMMA DeliveriesKeep ==
  ASSUME IntakeInv, hook' = hook, settled' = settled, document \subseteq document',
         \A c \in Calls : /\ checkout[c] \in {"paid", "expired"} => checkout'[c] = checkout[c]
                          /\ invoice[c].status = "paid" => invoice'[c].status = "paid"
                          /\ invoice[c].key => invoice'[c].key
  PROVE  /\ \A c \in Calls, d \in Copies : HookFits(c, d)'
         /\ \A c \in Calls : SettledFits(c)'
<1>1. ASSUME NEW c \in Calls, NEW d \in Copies PROVE HookFits(c, d)'
  <2>. HookFits(c, d)
    BY DEF IntakeInv
  <2>. QED  BY DEF HookFits
<1>2. ASSUME NEW c \in Calls PROVE SettledFits(c)'
  <2>. SettledFits(c)
    BY DEF IntakeInv
  <2>. QED  BY DEF SettledFits
<1>. QED  BY <1>1, <1>2

\* A step that places no order and lets no request come to an insert.
LEMMA NumbersKeep ==
  ASSUME IntakeInv, number' = number, counter' = counter,
         \A c \in Calls : call'[c].pc = "insert" =>
            call[c].pc = "insert" /\ call'[c].number = call[c].number
  PROVE  NumbersFit'
BY DEF IntakeInv, NumbersFit, NumbersFresh

\* A request is accepted.
LEMMA BeginKeeps ==
  ASSUME IntakeInv, NEW c \in Calls, Begin(c), IntakeAssumption PROVE IntakeInv'
<1>. USE DEF Begin, creation, payment
<1>. PICK kind \in {"create", "import"}, rows \in 1..MaxRows :
       /\ kind = "create" => rows = 1
       /\ call' = [call EXCEPT ![c].kind = kind, ![c].rows = rows, ![c].pc = "number"]
  OBVIOUS
<1>1. call[c] \in Call /\ call \in [Calls -> Call] /\ IntakeTypeOK
  BY DEF IntakeInv, IntakeTypeOK
<1>2. /\ call' \in [Calls -> Call]
      /\ \A b \in Calls \ {c} : call'[b] = call[b]
      /\ call'[c].kind = kind /\ call'[c].rows = rows /\ call'[c].pc = "number"
      /\ call'[c].row = call[c].row
  BY <1>1 DEF Call, InFlight
<1>3. IntakeTypeOK'
  BY <1>1, <1>2 DEF IntakeTypeOK
<1>4. NumbersFit'
  BY <1>2, NumbersKeep
<1>5. RowFits(c) /\ MoneyFits(c)
  BY DEF IntakeInv
<1>6. call[c].pc = "idle" /\ 1 \in 1..MaxRows
  BY IntakeAssumption
<1>7. RowFits(c)'
  BY <1>1, <1>2, <1>5, <1>6 DEF RowFits
<1>8. MoneyFits(c)'
  BY <1>2, <1>5, <1>6 DEF MoneyFits
<1>9. \A b \in Calls \ {c} : RowFits(b)' /\ MoneyFits(b)'
  BY <1>2, OthersKeep
<1>10. (\A b \in Calls, d \in Copies : HookFits(b, d)') /\ (\A b \in Calls : SettledFits(b)')
  BY DeliveriesKeep
<1>. QED  BY <1>3, <1>4, <1>7, <1>8, <1>9, <1>10 DEF IntakeInv

\* Taking a number changes the counter alone, besides the request.
LEMMA TakeNumberKeeps ==
  ASSUME IntakeInv, NEW c \in Calls, TakeNumber(c) PROVE IntakeInv'
<1>. USE DEF TakeNumber, creation, payment
<1>1. call[c] \in Call /\ call \in [Calls -> Call] /\ IntakeTypeOK /\ counter \in Nat
      /\ number \in [Orders -> Nat]
  BY DEF IntakeInv, IntakeTypeOK
<1>2. /\ call' \in [Calls -> Call]
      /\ \A b \in Calls \ {c} : call'[b] = call[b]
      /\ call'[c] = [[call[c] EXCEPT !.number = counter + 1] EXCEPT !.pc = "insert"]
      /\ call'[c].pc = "insert" /\ call'[c].number = counter + 1
      /\ call'[c].row = call[c].row /\ call'[c].rows = call[c].rows
      /\ call'[c].kind = call[c].kind
  BY <1>1 DEF Call, InFlight
<1>3. IntakeTypeOK'
  BY <1>1, <1>2 DEF IntakeTypeOK
<1>4. NumbersFit'
  <2>1. NumbersFit
    BY DEF IntakeInv
  <2>2. ASSUME NEW b \in Calls, call'[b].pc = "insert", b # c
        PROVE  call[b].pc = "insert" /\ call'[b].number = call[b].number /\ call[b].number \in 1..counter
    BY <1>2, <2>1, <2>2 DEF NumbersFit
  <2>3. \A o \in Orders : number'[o] = number[o] /\ number[o] \in Nat /\ number[o] <= counter
    BY <1>1, <2>1 DEF NumbersFit
  <2>4. \A o \in Orders : number'[o] <= counter'
    BY <1>1, <2>3
  <2>5. \A b \in Calls : call'[b].pc = "insert" => call'[b].number \in 1..counter'
    BY <1>1, <1>2, <2>2
  <2>6. NumbersFresh'
    BY <1>1, <1>2, <2>1, <2>2, <2>3 DEF NumbersFit, NumbersFresh
  <2>. QED  BY <2>4, <2>5, <2>6 DEF NumbersFit
<1>5. RowFits(c) /\ MoneyFits(c)
  BY DEF IntakeInv
<1>6. \A n \in 1..MaxRows : number[<<c, n>>] \in Nat /\ number[<<c, n>>] < counter + 1
  BY <1>1 DEF IntakeInv, NumbersFit, Orders
<1>7. RowFits(c)'
  BY <1>1, <1>2, <1>5, <1>6 DEF RowFits, Call
<1>8. MoneyFits(c)'
  BY <1>2, <1>5 DEF MoneyFits
<1>9. \A b \in Calls \ {c} : RowFits(b)' /\ MoneyFits(b)'
  BY <1>2, OthersKeep
<1>10. (\A b \in Calls, d \in Copies : HookFits(b, d)') /\ (\A b \in Calls : SettledFits(b)')
  BY DeliveriesKeep
<1>. QED  BY <1>3, <1>4, <1>7, <1>8, <1>9, <1>10 DEF IntakeInv

\* An insert places an order under the number held for it.
LEMMA InsertKeeps ==
  ASSUME IntakeInv, NEW c \in Calls, Insert(c) PROVE IntakeInv'
<1>. USE DEF Insert, creation, payment
<1>1. call[c] \in Call /\ call \in [Calls -> Call] /\ IntakeTypeOK /\ counter \in Nat
      /\ number \in [Orders -> Nat]
  BY DEF IntakeInv, IntakeTypeOK
<1>2. /\ call' \in [Calls -> Call]
      /\ \A b \in Calls \ {c} : call'[b] = call[b]
      /\ call'[c] = [call[c] EXCEPT !.pc = "label"]
  BY <1>1, GoToCall DEF InFlight
<1>3. /\ call'[c].pc = "label" /\ call'[c].number = call[c].number
      /\ call'[c].row = call[c].row /\ call'[c].rows = call[c].rows
      /\ call'[c].kind = call[c].kind
  BY <1>1, <1>2 DEF Call
<1>4. NumbersFit /\ RowFits(c) /\ MoneyFits(c) /\ call[c].pc = "insert"
  BY DEF IntakeInv
<1>5. /\ Order(c) \in Orders
      /\ number' \in [Orders -> Nat]
      /\ number'[Order(c)] = call[c].number
      /\ \A o \in Orders : o # Order(c) => number'[o] = number[o]
      /\ \A o \in Orders : number[o] # call[c].number
  BY <1>1 DEF Call, Order, Orders
<1>6. IntakeTypeOK'
  BY <1>1, <1>2, <1>5 DEF IntakeTypeOK
<1>7. NumbersFit'
  <2>1. call[c].number \in 1..counter
    BY <1>4 DEF NumbersFit
  <2>2. \A o \in Orders : number'[o] <= counter'
    BY <1>1, <1>4, <1>5, <2>1 DEF NumbersFit
  <2>3. \A b \in Calls : call'[b].pc = "insert" =>
           /\ b # c /\ call[b].pc = "insert" /\ call'[b].number = call[b].number
           /\ call[b].number # call[c].number
    BY <1>2, <1>3, <1>4 DEF NumbersFit, NumbersFresh
  <2>4. \A b \in Calls : call'[b].pc = "insert" => call'[b].number \in 1..counter'
    BY <1>4, <2>3 DEF NumbersFit
  <2>5. \A o, p \in Orders : number'[o] = number'[p] /\ number'[o] # 0 => o = p
    BY <1>4, <1>5 DEF NumbersFit, NumbersFresh
  <2>6. \A b \in Calls : call'[b].pc = "insert" =>
           /\ \A o \in Orders : number'[o] # call'[b].number
           /\ \A e \in Calls \ {b} : call'[e].pc = "insert" => call'[e].number # call'[b].number
    BY <1>4, <1>5, <2>3 DEF NumbersFit, NumbersFresh
  <2>. QED  BY <2>2, <2>4, <2>5, <2>6 DEF NumbersFit, NumbersFresh
<1>8. /\ \A n \in 1..MaxRows : n # call[c].row => number'[<<c, n>>] = number[<<c, n>>]
      /\ number'[<<c, call[c].row>>] = call[c].number
      /\ call[c].number > 0 /\ call[c].row \in 1..MaxRows
      /\ \A n \in 1..MaxRows : number[<<c, n>>] \in Nat
  BY <1>1, <1>4, <1>5 DEF Order, Orders, Call, NumbersFit
<1>9. RowFits(c)'
  BY <1>1, <1>3, <1>4, <1>8 DEF RowFits, Call
<1>10. MoneyFits(c)'
  BY <1>3, <1>4 DEF MoneyFits
<1>11. \A b \in Calls \ {c} : \A n \in 1..MaxRows : number'[<<b, n>>] = number[<<b, n>>]
  BY <1>5 DEF Order, Orders
<1>12. \A b \in Calls \ {c} : RowFits(b)' /\ MoneyFits(b)'
  BY <1>2, <1>11, OthersKeep
<1>13. (\A b \in Calls, d \in Copies : HookFits(b, d)') /\ (\A b \in Calls : SettledFits(b)')
  BY DeliveriesKeep
<1>. QED  BY <1>6, <1>7, <1>9, <1>10, <1>12, <1>13 DEF IntakeInv

\* An order has its labels, a job, or an attempt at them; or its creator is
\* warned: the request goes on.
LEMMA LabelledKeeps ==
  ASSUME IntakeInv, IntakeAssumption, NEW c \in Calls, NEW warned \in BOOLEAN,
         call[c].pc = "label", AfterLabel(c, warned),
         UNCHANGED <<config, counter, number, invoice, checkout, payment>>,
         labelled \subseteq labelled', queued \subseteq queued',
         labelled' \subseteq Orders, queued' \subseteq Orders, rendering' \subseteq Orders,
         \/ Order(c) \in labelled' \cup queued'
         \/ config.labels = "async"
         \/ warned /\ call[c].kind = "create"
  PROVE  IntakeInv'
<1>. USE DEF payment
<1>1. call[c] \in Call /\ call \in [Calls -> Call] /\ IntakeTypeOK /\ RowFits(c) /\ MoneyFits(c)
  BY DEF IntakeInv, IntakeTypeOK
<1>2. call[c].row <= call[c].rows
  BY <1>1 DEF RowFits
<1>3. /\ call' \in [Calls -> Call]
      /\ \A b \in Calls \ {c} : call'[b] = call[b]
      /\ call'[c].kind = call[c].kind
      /\ call'[c].rows = call[c].rows
      /\ call'[c].number = call[c].number
      /\ call'[c].warned = warned
      /\ \/ /\ call[c].kind = "import" /\ call[c].row < call[c].rows
            /\ call'[c].pc = "number" /\ call'[c].row = call[c].row + 1
         \/ /\ call'[c].row = call[c].row
            /\ call'[c].pc = "reply"
            /\ call[c].kind = "import" => call[c].row = call[c].rows
            /\ call[c].kind = "create" => ~config.payments
         \/ /\ call'[c].row = call[c].row
            /\ call'[c].pc \in {"invoice", "refused"} /\ call[c].kind = "create"
  BY <1>1, <1>2, AfterLabelCall
<1>4. IntakeTypeOK'
  BY <1>1, <1>3 DEF IntakeTypeOK
<1>5. \A b \in Calls : call'[b].pc = "insert" =>
         call[b].pc = "insert" /\ call'[b].number = call[b].number
  BY <1>3
<1>6. NumbersFit'
  BY <1>5, NumbersKeep
<1>7. /\ call[c].row \in 1..MaxRows /\ call[c].rows \in 1..MaxRows
      /\ call[c].kind \in {"create", "import"}
      /\ call'[c].row \in 1..MaxRows
      /\ \A n \in 1..MaxRows : number[<<c, n>>] \in Nat
  BY <1>1, <1>3 DEF Call, IntakeTypeOK, Orders
<1>8. \A n \in 1..MaxRows : n < call[c].row =>
         (config.labels # "async" => <<c, n>> \in labelled' \cup queued')
  BY <1>1 DEF RowFits
<1>9. RowFits(c)'
  <2>1. CASE call'[c].pc = "number"
    <3>1. call[c].kind = "import" /\ call[c].row < call[c].rows /\ call'[c].row = call[c].row + 1
      BY <1>3, <2>1
    <3>2. config.labels # "async" => <<c, call[c].row>> \in labelled' \cup queued'
      BY <3>1 DEF Order
    <3>. QED  BY <1>1, <1>3, <1>7, <1>8, <2>1, <3>1, <3>2 DEF RowFits
  <2>2. CASE call'[c].pc # "number"
    <3>1. call'[c].row = call[c].row
      BY <1>3, <2>2
    <3>2. \/ <<c, call[c].row>> \in labelled' \cup queued'
          \/ call'[c].warned
          \/ config.labels = "async"
      BY <1>3 DEF Order
    <3>3. call'[c].pc = "reply" => call[c].row = call[c].rows
      <4>. call[c].kind = "create" => call[c].row = call[c].rows
        BY <1>1, <1>7 DEF RowFits
      <4>. QED  BY <1>3, <1>7
    <3>4. call'[c].pc \in {"reply", "invoice", "refused"}
      BY <1>3, <2>2
    <3>5. call'[c].pc = "invoice" => call[c].kind = "create"
      BY <1>3
    <3>. QED  BY <1>1, <1>3, <1>7, <1>8, <3>1, <3>2, <3>3, <3>4, <3>5 DEF RowFits
  <2>. QED  BY <2>1, <2>2
<1>10. MoneyFits(c)'
  BY <1>1, <1>3 DEF MoneyFits
<1>11. \A b \in Calls \ {c} : RowFits(b)' /\ MoneyFits(b)'
  BY <1>3, OthersKeep
<1>12. (\A b \in Calls, d \in Copies : HookFits(b, d)') /\ (\A b \in Calls : SettledFits(b)')
  BY DeliveriesKeep
<1>. QED  BY <1>4, <1>6, <1>9, <1>10, <1>11, <1>12 DEF IntakeInv

\* Labelling, in each mode.
LEMMA LabelKeeps ==
  ASSUME IntakeInv, IntakeAssumption, NEW c \in Calls, Label(c) PROVE IntakeInv'
<1>1. /\ call[c] \in Call
      /\ labelled \subseteq Orders /\ queued \subseteq Orders /\ rendering \subseteq Orders
  BY DEF IntakeInv, IntakeTypeOK
<1>2. call[c].warned \in BOOLEAN /\ Order(c) \in Orders
  BY <1>1 DEF Call, Order, Orders
<1>3. /\ labelled \subseteq labelled' /\ queued \subseteq queued'
      /\ labelled' \subseteq Orders /\ queued' \subseteq Orders /\ rendering' \subseteq Orders
      /\ Order(c) \in labelled' \cup queued' \/ config.labels = "async"
  BY <1>1, <1>2 DEF Label
<1>. QED  BY <1>2, <1>3, LabelledKeeps DEF Label

\* A request that fails keeps what it has done.
LEMMA RefusedKeeps ==
  ASSUME IntakeInv, NEW c \in Calls, GoTo(c, "refused"),
         UNCHANGED <<config, counter, number, labelled, queued, rendering, invoice, checkout, payment>>
  PROVE  IntakeInv'
<1>. USE DEF payment
<1>1. call[c] \in Call /\ call \in [Calls -> Call] /\ IntakeTypeOK /\ RowFits(c) /\ MoneyFits(c)
  BY DEF IntakeInv, IntakeTypeOK
<1>2. /\ call' \in [Calls -> Call]
      /\ call'[c] = [call[c] EXCEPT !.pc = "refused"]
      /\ \A b \in Calls \ {c} : call'[b] = call[b]
  BY <1>1, GoToCall DEF Answers
<1>3. /\ call'[c].pc = "refused" /\ call'[c].row = call[c].row
      /\ call'[c].rows = call[c].rows /\ call'[c].kind = call[c].kind
  BY <1>1, <1>2 DEF Call
<1>4. IntakeTypeOK'
  BY <1>1, <1>2 DEF IntakeTypeOK
<1>5. NumbersFit'
  BY <1>2, <1>3, NumbersKeep
<1>6. RowFits(c)' /\ MoneyFits(c)'
  BY <1>1, <1>3 DEF RowFits, MoneyFits
<1>7. \A b \in Calls \ {c} : RowFits(b)' /\ MoneyFits(b)'
  BY <1>2, OthersKeep
<1>8. (\A b \in Calls, d \in Copies : HookFits(b, d)') /\ (\A b \in Calls : SettledFits(b)')
  BY DeliveriesKeep
<1>. QED  BY <1>4, <1>5, <1>6, <1>7, <1>8 DEF IntakeInv

\* A failure of labelling is a warning or the end of the request.
LEMMA LabelFailsKeeps ==
  ASSUME IntakeInv, IntakeAssumption, NEW c \in Calls, LabelFails(c) PROVE IntakeInv'
<1>1. CASE call[c].kind = "create"
  <2>. labelled \subseteq Orders /\ queued \subseteq Orders /\ rendering \subseteq Orders
    BY DEF IntakeInv, IntakeTypeOK
  <2>. QED  BY <1>1, LabelledKeeps DEF LabelFails
<1>2. CASE call[c].kind # "create"
  BY <1>2, RefusedKeeps DEF LabelFails
<1>. QED  BY <1>1, <1>2

\* Labels rendered in the background concern nothing else.
LEMMA EndRenderingKeeps ==
  ASSUME IntakeInv, NEW o \in Orders, EndRendering(o) PROVE IntakeInv'
<1>. USE DEF EndRendering, payment
<1>1. labelled \subseteq labelled'
  OBVIOUS
<1>2. IntakeTypeOK'
  BY DEF IntakeInv, IntakeTypeOK
<1>3. NumbersFit'
  BY NumbersKeep
<1>4. \A b \in Calls : RowFits(b)' /\ MoneyFits(b)'
  BY <1>1 DEF IntakeInv, RowFits, MoneyFits
<1>5. (\A b \in Calls, d \in Copies : HookFits(b, d)') /\ (\A b \in Calls : SettledFits(b)')
  BY DeliveriesKeep
<1>. QED  BY <1>2, <1>3, <1>4, <1>5 DEF IntakeInv

\* The invoice, the checkout and the link of an order whose labels are done.
LEMMA BillingKeeps ==
  ASSUME IntakeInv, NEW c \in Calls, CreateInvoice(c) \/ CreateCheckout(c) \/ SaveLink(c)
  PROVE  IntakeInv'
<1>. USE DEF CreateInvoice, CreateCheckout, SaveLink, payment
<1>1. /\ call[c] \in Call /\ call \in [Calls -> Call] /\ IntakeTypeOK /\ RowFits(c) /\ MoneyFits(c)
      /\ invoice \in [Calls -> Invoice] /\ invoice[c] \in Invoice
  BY DEF IntakeInv, IntakeTypeOK
<1>2. PICK pc \in {"checkout", "link", "reply"} :
         /\ GoTo(c, pc)
         /\ pc = "checkout" => CreateInvoice(c)
         /\ pc = "link" => CreateCheckout(c)
         /\ pc = "reply" => SaveLink(c)
  OBVIOUS
<1>3. /\ call' \in [Calls -> Call]
      /\ call'[c] = [call[c] EXCEPT !.pc = pc]
      /\ \A b \in Calls \ {c} : call'[b] = call[b]
  BY <1>1, <1>2, GoToCall DEF InFlight, Answers
<1>4. /\ call'[c].pc = pc /\ call'[c].row = call[c].row /\ call'[c].warned = call[c].warned
      /\ call'[c].rows = call[c].rows /\ call'[c].kind = call[c].kind
  BY <1>1, <1>3 DEF Call
<1>5. /\ invoice' \in [Calls -> Invoice] /\ checkout' \in [Calls -> {"none", "open", "paid", "expired"}]
      /\ \A b \in Calls \ {c} : invoice'[b] = invoice[b] /\ checkout'[b] = checkout[b]
      /\ pc = "checkout" => invoice'[c] = [invoice[c] EXCEPT !.status = "pending"] /\ checkout' = checkout
      /\ pc = "link" => invoice' = invoice /\ checkout'[c] = "open"
      /\ pc = "reply" => invoice'[c] = [invoice[c] EXCEPT !.link = TRUE] /\ checkout' = checkout
  <2>. checkout \in [Calls -> {"none", "open", "paid", "expired"}]
    BY <1>1 DEF IntakeTypeOK
  <2>1. CASE pc = "checkout"
    <3>1. invoice' = [invoice EXCEPT ![c].status = "pending"] /\ checkout' = checkout
      BY <1>2, <2>1
    <3>2. [invoice[c] EXCEPT !.status = "pending"] \in Invoice
      BY <1>1 DEF Invoice
    <3>. QED  BY <1>1, <2>1, <3>1, <3>2
  <2>2. CASE pc = "link"
    BY <1>1, <1>2, <2>2
  <2>3. CASE pc = "reply"
    <3>1. invoice' = [invoice EXCEPT ![c].link = TRUE] /\ checkout' = checkout
      BY <1>2, <2>3
    <3>2. [invoice[c] EXCEPT !.link = TRUE] \in Invoice
      BY <1>1 DEF Invoice
    <3>. QED  BY <1>1, <2>3, <3>1, <3>2
  <2>. QED  BY <2>1, <2>2, <2>3
<1>6. IntakeTypeOK'
  BY <1>1, <1>3, <1>5 DEF IntakeTypeOK
<1>7. NumbersFit'
  BY <1>3, <1>4, NumbersKeep
<1>8. RowFits(c)'
  <2>. call[c].pc \in {"invoice", "checkout", "link"} /\ call[c].row \in 1..MaxRows
       /\ call[c].rows \in 1..MaxRows
    BY <1>1 DEF Call
  <2>1. call[c].kind = "create" /\ call[c].rows = 1 /\ call[c].row = 1
    BY <1>1 DEF RowFits
  <2>. QED  BY <1>1, <1>4, <2>1 DEF RowFits
<1>9. /\ invoice[c].key => invoice[c].status = "paid" /\ c \in document
      /\ invoice[c].status = "paid" => checkout[c] = "paid"
      /\ call[c].pc = "invoice" => invoice[c].status = "absent" /\ checkout[c] = "none"
      /\ call[c].pc = "checkout" => invoice[c].status # "absent" /\ checkout[c] = "none"
      /\ call[c].pc = "link" => invoice[c].status # "absent" /\ checkout[c] # "none"
  BY <1>1 DEF MoneyFits
<1>10. MoneyFits(c)'
  <2>1. CASE pc = "checkout"
    <3>. call[c].pc = "invoice" /\ invoice'[c].status = "pending" /\ invoice'[c].key = invoice[c].key
      BY <1>1, <1>2, <1>5, <2>1 DEF Invoice
    <3>. QED  BY <1>4, <1>5, <1>9, <2>1 DEF MoneyFits
  <2>2. CASE pc = "link"
    <3>. call[c].pc = "checkout"
      BY <1>2, <2>2
    <3>. QED  BY <1>4, <1>5, <1>9, <2>2 DEF MoneyFits
  <2>3. CASE pc = "reply"
    <3>. call[c].pc = "link" /\ invoice'[c].status = invoice[c].status
         /\ invoice'[c].key = invoice[c].key /\ invoice'[c].link
      BY <1>1, <1>2, <1>5, <2>3 DEF Invoice
    <3>. QED  BY <1>4, <1>5, <1>9, <2>3 DEF MoneyFits
  <2>. QED  BY <2>1, <2>2, <2>3
<1>11. \A b \in Calls \ {c} : RowFits(b)' /\ MoneyFits(b)'
  BY <1>3, <1>5, OthersKeep
<1>12. \A b \in Calls : /\ checkout[b] \in {"paid", "expired"} => checkout'[b] = checkout[b]
                        /\ invoice[b].status = "paid" => invoice'[b].status = "paid"
                        /\ invoice[b].key => invoice'[b].key
  <2>1. CASE pc = "checkout"
    <3>. call[c].pc = "invoice"
      BY <1>2, <2>1
    <3>. QED  BY <1>5, <1>9, <2>1
  <2>2. CASE pc = "link"
    <3>. call[c].pc = "checkout"
      BY <1>2, <2>2
    <3>. QED  BY <1>5, <1>9, <2>2
  <2>3. CASE pc = "reply"
    BY <1>1, <1>5, <2>3 DEF Invoice
  <2>. QED  BY <2>1, <2>2, <2>3
<1>13. (\A b \in Calls, d \in Copies : HookFits(b, d)') /\ (\A b \in Calls : SettledFits(b)')
  BY <1>12, DeliveriesKeep
<1>. QED  BY <1>6, <1>7, <1>8, <1>10, <1>11, <1>13 DEF IntakeInv

\* The answer promises what has been done.
LEMMA ReplyKeeps ==
  ASSUME IntakeInv, NEW c \in Calls, Reply(c) PROVE IntakeInv'
<1>. USE DEF Reply, payment
<1>1. call[c] \in Call /\ call \in [Calls -> Call] /\ IntakeTypeOK /\ RowFits(c) /\ MoneyFits(c)
  BY DEF IntakeInv, IntakeTypeOK
<1>2. /\ call' \in [Calls -> Call]
      /\ call'[c] = [call[c] EXCEPT !.pc = "created"]
      /\ \A b \in Calls \ {c} : call'[b] = call[b]
  BY <1>1, GoToCall DEF Answers
<1>3. /\ call'[c].pc = "created" /\ call'[c].row = call[c].row /\ call'[c].warned = call[c].warned
      /\ call'[c].rows = call[c].rows /\ call'[c].kind = call[c].kind
  BY <1>1, <1>2 DEF Call
<1>4. IntakeTypeOK'
  BY <1>1, <1>2 DEF IntakeTypeOK
<1>5. NumbersFit'
  BY <1>2, <1>3, NumbersKeep
<1>6. RowFits(c)' /\ MoneyFits(c)'
  BY <1>1, <1>3 DEF RowFits, MoneyFits
<1>7. \A b \in Calls \ {c} : RowFits(b)' /\ MoneyFits(b)'
  BY <1>2, OthersKeep
<1>8. (\A b \in Calls, d \in Copies : HookFits(b, d)') /\ (\A b \in Calls : SettledFits(b)')
  BY DeliveriesKeep
<1>. QED  BY <1>4, <1>5, <1>6, <1>7, <1>8 DEF IntakeInv

\* A checkout that ends was open, so nothing was delivered of it.
LEMMA EndCheckoutKeeps ==
  ASSUME IntakeInv, NEW c \in Calls, EndCheckout(c) PROVE IntakeInv'
<1>. USE DEF EndCheckout, creation, payment
<1>. PICK end \in {"paid", "expired"} : checkout' = [checkout EXCEPT ![c] = end]
  OBVIOUS
<1>1. checkout \in [Calls -> {"none", "open", "paid", "expired"}]
  BY DEF IntakeInv, IntakeTypeOK
<1>2. checkout'[c] = end /\ \A b \in Calls \ {c} : checkout'[b] = checkout[b]
  BY <1>1
<1>3. IntakeTypeOK'
  BY <1>1 DEF IntakeInv, IntakeTypeOK
<1>4. NumbersFit'
  BY NumbersKeep
<1>5. RowFits(c)' /\ MoneyFits(c)'
  <2>1. RowFits(c) /\ MoneyFits(c)
    BY DEF IntakeInv
  <2>2. RowFits(c)'
    BY <2>1 DEF RowFits
  <2>3. invoice[c].status # "paid" /\ invoice[c].status # "absent"
        /\ call[c].pc \notin {"idle", "number", "insert", "label", "invoice", "checkout"}
    BY <2>1 DEF MoneyFits
  <2>4. MoneyFits(c)'
    BY <1>2, <2>1, <2>3 DEF MoneyFits
  <2>. QED  BY <2>2, <2>4
<1>6. \A b \in Calls \ {c} : RowFits(b)' /\ MoneyFits(b)'
  BY <1>2, OthersKeep
<1>7. \A b \in Calls : checkout[b] \in {"paid", "expired"} => checkout'[b] = checkout[b]
  BY <1>2
<1>8. (\A b \in Calls, d \in Copies : HookFits(b, d)') /\ (\A b \in Calls : SettledFits(b)')
  BY <1>7, DeliveriesKeep
<1>. QED  BY <1>3, <1>4, <1>5, <1>6, <1>8 DEF IntakeInv

----------------------------------------------------------------------------
\* What the stage of one delivery becomes.
LEMMA HookToHook ==
  ASSUME hook \in [Calls \X Copies -> {"idle", "lookup", "pay", "upload", "key"}],
         NEW c \in Calls, NEW d \in Copies,
         NEW stage \in {"idle", "lookup", "pay", "upload", "key"}, HookTo(c, d, stage)
  PROVE  /\ hook' \in [Calls \X Copies -> {"idle", "lookup", "pay", "upload", "key"}]
         /\ hook'[<<c, d>>] = stage
         /\ \A b \in Calls, e \in Copies : <<b, e>> # <<c, d>> => hook'[<<b, e>>] = hook[<<b, e>>]
BY DEF HookTo

\* A step of one delivery for call c, to a stage that fits what was done: the
\* invoice's status, key and document only come to more.
LEMMA DeliveryKeeps ==
  ASSUME IntakeInv, NEW c \in Calls, NEW d \in Copies, HookTo(c, d, hook'[<<c, d>>]),
         hook'[<<c, d>>] \in {"idle", "lookup", "pay", "upload", "key"},
         UNCHANGED <<config, creation, checkout>>,
         faults' \in 0..MaxFaults, invoice' \in [Calls -> Invoice],
         document' \subseteq Calls, document \subseteq document',
         settled' \in {settled, settled \cup {c}},
         \A b \in Calls \ {c} : invoice'[b] = invoice[b],
         invoice'[c].link = invoice[c].link,
         invoice[c].status = "absent" <=> invoice'[c].status = "absent",
         invoice[c].status = "paid" => invoice'[c].status = "paid",
         invoice[c].key => invoice'[c].key,
         invoice'[c].status = "paid" => checkout[c] = "paid",
         invoice'[c].key => invoice'[c].status = "paid" /\ c \in document',
         HookFits(c, d)', settled' # settled => SettledFits(c)'
  PROVE  IntakeInv'
<1>. USE DEF creation
<1>1. hook \in [Calls \X Copies -> {"idle", "lookup", "pay", "upload", "key"}] /\ settled \subseteq Calls
  BY DEF IntakeInv, IntakeTypeOK
<1>2. /\ hook' \in [Calls \X Copies -> {"idle", "lookup", "pay", "upload", "key"}]
      /\ \A b \in Calls, e \in Copies : <<b, e>> # <<c, d>> => hook'[<<b, e>>] = hook[<<b, e>>]
  BY <1>1, HookToHook
<1>3. IntakeTypeOK'
  BY <1>1, <1>2 DEF IntakeInv, IntakeTypeOK
<1>4. NumbersFit'
  BY NumbersKeep
<1>5. \A b \in Calls : RowFits(b)'
  BY DEF IntakeInv, RowFits
<1>6. MoneyFits(c)'
  <2>. MoneyFits(c)
    BY DEF IntakeInv
  <2>. QED  BY DEF MoneyFits
<1>7. \A b \in Calls \ {c} : MoneyFits(b)'
  BY OthersKeep
<1>8. ASSUME NEW b \in Calls, NEW e \in Copies PROVE HookFits(b, e)'
  <2>1. CASE <<b, e>> = <<c, d>>
    BY <2>1
  <2>2. CASE <<b, e>> # <<c, d>>
    <3>1. HookFits(b, e) /\ hook'[<<b, e>>] = hook[<<b, e>>]
      BY <1>2, <2>2 DEF IntakeInv
    <3>2. invoice[b].status = "paid" => invoice'[b].status = "paid"
      OBVIOUS
    <3>. QED  BY <3>1, <3>2 DEF HookFits
  <2>. QED  BY <2>1, <2>2
<1>9. ASSUME NEW b \in Calls PROVE SettledFits(b)'
  <2>1. SettledFits(b)
    BY DEF IntakeInv
  <2>2. CASE b = c /\ settled' # settled
    BY <2>2
  <2>3. CASE b \in settled' => b \in settled
    <3>. (invoice[b].status = "paid" => invoice'[b].status = "paid") /\ (invoice[b].key => invoice'[b].key)
      OBVIOUS
    <3>. QED  BY <2>1, <2>3 DEF SettledFits
  <2>. QED  BY <2>2, <2>3
<1>. QED  BY <1>3, <1>4, <1>5, <1>6, <1>7, <1>8, <1>9 DEF IntakeInv

\* Stripe delivers an event: the checkout has ended.
LEMMA DeliverKeeps ==
  ASSUME IntakeInv, NEW c \in Calls, NEW d \in Copies, Deliver(c, d) PROVE IntakeInv'
<1>. USE DEF Deliver
<1>1. hook'[<<c, d>>] = "lookup" /\ HookFits(c, d)'
  BY HookToHook DEF IntakeInv, IntakeTypeOK, HookFits
<1>2. /\ invoice[c].status = "paid" => checkout[c] = "paid"
      /\ invoice[c].key => invoice[c].status = "paid" /\ c \in document
  BY DEF IntakeInv, MoneyFits
<1>3. faults \in 0..MaxFaults /\ invoice \in [Calls -> Invoice] /\ document \subseteq Calls
  BY DEF IntakeInv, IntakeTypeOK
<1>. QED  BY <1>1, <1>2, <1>3, DeliveryKeeps

\* A delivery finds nothing to do, or goes on for a checkout that was paid.
LEMMA LookUpKeeps ==
  ASSUME IntakeInv, NEW c \in Calls, NEW d \in Copies, LookUp(c, d) PROVE IntakeInv'
<1>. USE DEF LookUp
<1>1. hook \in [Calls \X Copies -> {"idle", "lookup", "pay", "upload", "key"}]
  BY DEF IntakeInv, IntakeTypeOK
<1>2. PICK stage \in {"idle", "pay"} :
        /\ HookTo(c, d, stage)
        /\ stage = "idle" => NothingToDo(c) /\ settled' = settled \cup {c}
        /\ stage = "pay" => ~NothingToDo(c) /\ settled' = settled
  OBVIOUS
<1>3. hook'[<<c, d>>] = stage
  BY <1>1, <1>2, HookToHook
<1>4. /\ checkout[c] \in {"paid", "expired"}
      /\ invoice[c].status # "absent"
      /\ invoice[c].status = "paid" => checkout[c] = "paid"
      /\ invoice[c].key => invoice[c].status = "paid" /\ c \in document
  BY DEF IntakeInv, MoneyFits, HookFits
<1>5. HookFits(c, d)'
  BY <1>2, <1>3, <1>4 DEF HookFits, NothingToDo
<1>6. settled' # settled => SettledFits(c)'
  BY <1>2, <1>4 DEF SettledFits, NothingToDo
<1>7. faults \in 0..MaxFaults /\ invoice \in [Calls -> Invoice] /\ document \subseteq Calls
  BY DEF IntakeInv, IntakeTypeOK
<1>. QED  BY <1>2, <1>3, <1>4, <1>5, <1>6, <1>7, DeliveryKeeps

\* A delivery marks the invoice, uploads its document, and saves the key.
LEMMA MarkPaidKeeps ==
  ASSUME IntakeInv, NEW c \in Calls, NEW d \in Copies,
         MarkPaid(c, d) \/ UploadInvoice(c, d) \/ SaveKey(c, d)
  PROVE  IntakeInv'
<1>. USE DEF MarkPaid, UploadInvoice, SaveKey
<1>1. /\ hook \in [Calls \X Copies -> {"idle", "lookup", "pay", "upload", "key"}]
      /\ faults \in 0..MaxFaults /\ invoice \in [Calls -> Invoice] /\ document \subseteq Calls
      /\ settled \subseteq Calls
  BY DEF IntakeInv, IntakeTypeOK
<1>2. invoice[c] \in Invoice
  BY <1>1
<1>3. /\ checkout[c] = "paid" /\ invoice[c].status # "absent"
      /\ hook[<<c, d>>] \in {"upload", "key"} => invoice[c].status = "paid"
      /\ hook[<<c, d>>] = "key" => c \in document
      /\ invoice[c].key => invoice[c].status = "paid" /\ c \in document
  BY DEF IntakeInv, MoneyFits, HookFits
<1>4. CASE MarkPaid(c, d)
  <2>1. invoice' = [invoice EXCEPT ![c] = [invoice[c] EXCEPT !.status = "paid"]]
    BY <1>4
  <2>2. [invoice[c] EXCEPT !.status = "paid"] \in Invoice
    BY <1>2 DEF Invoice
  <2>3. /\ invoice' \in [Calls -> Invoice]
        /\ \A b \in Calls \ {c} : invoice'[b] = invoice[b]
        /\ invoice'[c] = [invoice[c] EXCEPT !.status = "paid"]
    BY <1>1, <2>1, <2>2
  <2>4. invoice'[c].status = "paid" /\ invoice'[c].link = invoice[c].link /\ invoice'[c].key = invoice[c].key
    BY <1>2, <2>3 DEF Invoice
  <2>5. hook'[<<c, d>>] = "upload"
    BY <1>1, <1>4, HookToHook
  <2>6. HookFits(c, d)'
    BY <1>3, <1>4, <2>4, <2>5 DEF HookFits
  <2>. QED  BY <1>1, <1>3, <1>4, <2>3, <2>4, <2>5, <2>6, DeliveryKeeps
<1>5. CASE UploadInvoice(c, d)
  <2>1. hook'[<<c, d>>] = "key"
    BY <1>1, <1>5, HookToHook
  <2>2. HookFits(c, d)'
    BY <1>3, <1>5, <2>1 DEF HookFits
  <2>3. document' \subseteq Calls /\ document \subseteq document'
    BY <1>1, <1>5
  <2>. QED  BY <1>1, <1>3, <1>5, <2>1, <2>2, <2>3, DeliveryKeeps
<1>6. CASE SaveKey(c, d)
  <2>1. invoice' = [invoice EXCEPT ![c] = [invoice[c] EXCEPT !.key = TRUE]]
    BY <1>6
  <2>2. [invoice[c] EXCEPT !.key = TRUE] \in Invoice
    BY <1>2 DEF Invoice
  <2>3. /\ invoice' \in [Calls -> Invoice]
        /\ \A b \in Calls \ {c} : invoice'[b] = invoice[b]
        /\ invoice'[c] = [invoice[c] EXCEPT !.key = TRUE]
    BY <1>1, <2>1, <2>2
  <2>4. invoice'[c].status = invoice[c].status /\ invoice'[c].link = invoice[c].link /\ invoice'[c].key
    BY <1>2, <2>3 DEF Invoice
  <2>5. hook'[<<c, d>>] = "idle"
    BY <1>1, <1>6, HookToHook
  <2>6. HookFits(c, d)' /\ SettledFits(c)'
    BY <1>3, <1>6, <2>4, <2>5 DEF HookFits, SettledFits
  <2>. QED  BY <1>1, <1>3, <1>6, <2>3, <2>4, <2>5, <2>6, DeliveryKeeps
<1>. QED  BY <1>4, <1>5, <1>6

\* A delivery that fails leaves what it did, and the event to be delivered.
LEMMA HookFailsKeeps ==
  ASSUME IntakeInv, IntakeAssumption, NEW c \in Calls, NEW d \in Copies, HookFails(c, d)
  PROVE  IntakeInv'
<1>. USE DEF HookFails
<1>1. hook'[<<c, d>>] = "idle" /\ HookFits(c, d)'
  BY HookToHook DEF IntakeInv, IntakeTypeOK, HookFits
<1>2. /\ invoice[c].status = "paid" => checkout[c] = "paid"
      /\ invoice[c].key => invoice[c].status = "paid" /\ c \in document
  BY DEF IntakeInv, MoneyFits
<1>3. /\ faults' \in 0..MaxFaults /\ invoice \in [Calls -> Invoice] /\ document \subseteq Calls
  BY DEF IntakeInv, IntakeTypeOK, IntakeAssumption
<1>. QED  BY <1>1, <1>2, <1>3, DeliveryKeeps

----------------------------------------------------------------------------
\* Every step keeps the invariant.
LEMMA IntakeInvStep ==
  ASSUME IntakeInv, IntakeAssumption, [IntakeNext]_intakeVars PROVE IntakeInv'
<1>1. ASSUME NEW c \in Calls, CallStep(c) PROVE IntakeInv'
  <2>1. ASSUME CallFails(c) PROVE IntakeInv'
    BY <2>1, RefusedKeeps DEF CallFails
  <2>. QED  BY <1>1, <2>1, BeginKeeps, TakeNumberKeeps, InsertKeeps, LabelKeeps, LabelFailsKeeps,
               BillingKeeps, ReplyKeeps DEF CallStep
<1>2. ASSUME NEW c \in Calls, EndCheckout(c) PROVE IntakeInv'
  BY <1>2, EndCheckoutKeeps
<1>3. ASSUME NEW o \in Orders, EndRendering(o) PROVE IntakeInv'
  BY <1>3, EndRenderingKeeps
<1>4. ASSUME NEW c \in Calls, NEW d \in Copies, Deliver(c, d) \/ HookStep(c, d) \/ HookFails(c, d)
      PROVE  IntakeInv'
  BY <1>4, DeliverKeeps, LookUpKeeps, MarkPaidKeeps, HookFailsKeeps DEF HookStep
<1>5. CASE UNCHANGED intakeVars
  <2>. USE <1>5 DEF intakeVars, creation, payment
  <2>1. IntakeTypeOK' /\ NumbersFit'
    BY DEF IntakeInv, IntakeTypeOK, NumbersFit, NumbersFresh
  <2>2. \A c \in Calls : RowFits(c)' /\ MoneyFits(c)'
    BY DEF IntakeInv, RowFits, MoneyFits
  <2>3. (\A c \in Calls, d \in Copies : HookFits(c, d)') /\ (\A c \in Calls : SettledFits(c)')
    BY DeliveriesKeep
  <2>. QED  BY <2>1, <2>2, <2>3 DEF IntakeInv
<1>. QED  BY <1>1, <1>2, <1>3, <1>4, <1>5 DEF IntakeNext

\* Whatever overlaps and whatever fails: what requests and deliveries hold in
\* memory fits the rows.
THEOREM IntakeInvariant == IntakeSpec => []IntakeInv
<1>1. IntakeInit => IntakeInv
  BY IntakeInitInv
<1>2. IntakeInv /\ [IntakeNext]_intakeVars => IntakeInv'
  BY IntakeInvStep, IntakeAssumption
<1>. QED  BY <1>1, <1>2, PTL DEF IntakeSpec

\* The rows, the requests and the deliveries have their types.
THEOREM IntakeTyping == IntakeSpec => []IntakeTypeOK
<1>1. IntakeInv => IntakeTypeOK
  BY DEF IntakeInv
<1>. QED  BY <1>1, IntakeInvariant, PTL

\* An order number taken from the counter is nobody else's.
THEOREM NumbersStayFresh == IntakeSpec => []NumbersFresh
<1>1. IntakeInv => NumbersFresh
  BY DEF IntakeInv, NumbersFit
<1>. QED  BY <1>1, IntakeInvariant, PTL

\* Success means that all that was promised is there.
THEOREM SuccessIsWhole == IntakeSpec => []AnsweredWhole
<1>1. ASSUME IntakeInv PROVE AnsweredWhole
  <2>. SUFFICES ASSUME NEW c \in Calls, call[c].pc = "created"
                PROVE  /\ \A n \in 1..call[c].rows :
                            /\ number[<<c, n>>] # 0
                            /\ \/ <<c, n>> \in labelled \cup queued
                               \/ call[c].warned
                               \/ config.labels = "async"
                       /\ call[c].kind = "create" /\ config.payments =>
                            invoice[c].link /\ checkout[c] # "none"
    BY DEF AnsweredWhole
  <2>1. RowFits(c) /\ MoneyFits(c) /\ call[c].rows \in 1..MaxRows
    BY <1>1 DEF IntakeInv, IntakeTypeOK, Call
  <2>2. ASSUME NEW n \in 1..call[c].rows
        PROVE  /\ number[<<c, n>>] # 0
               /\ \/ <<c, n>> \in labelled \cup queued
                  \/ call[c].warned
                  \/ config.labels = "async"
    <3>1. call[c].row = call[c].rows /\ n \in 1..MaxRows
      BY <2>1, IntakeAssumption DEF RowFits, IntakeAssumption
    <3>2. CASE n = call[c].row
      BY <2>1, <3>2 DEF RowFits
    <3>3. CASE n # call[c].row
      <4>. n < call[c].row
        BY <2>1, <3>1, <3>3
      <4>. QED  BY <2>1, <3>1 DEF RowFits
    <3>. QED  BY <3>2, <3>3
  <2>. QED  BY <2>1, <2>2 DEF MoneyFits
<1>. QED  BY <1>1, IntakeInvariant, PTL

\* A failed import leaves the first rows of its file, in order.
THEOREM ImportsInOrder == IntakeSpec => []LeftoverIsPrefix
<1>1. ASSUME IntakeInv, IntakeAssumption PROVE LeftoverIsPrefix
  <2>. SUFFICES ASSUME NEW c \in Calls, NEW n \in 2..MaxRows, number[<<c, n>>] # 0
                PROVE  /\ 0 < number[<<c, n - 1>>] /\ number[<<c, n - 1>>] < number[<<c, n>>]
                       /\ config.labels # "async" => <<c, n - 1>> \in labelled \cup queued
    BY DEF LeftoverIsPrefix
  <2>1. RowFits(c) /\ call[c].row \in 1..MaxRows
    BY <1>1 DEF IntakeInv, IntakeTypeOK, Call
  <2>2. n \in 1..MaxRows /\ n - 1 \in 1..MaxRows /\ n - 1 < n
    BY <1>1 DEF IntakeAssumption
  <2>3. n - 1 < call[c].row
    BY <2>1, <2>2 DEF RowFits
  <2>. QED  BY <2>1, <2>2, <2>3 DEF RowFits
<1>. QED  BY <1>1, IntakeInvariant, IntakeAssumption, PTL

\* Paid invoices were paid, and their documents can be fetched.
THEOREM InvoicesPaidForReal == IntakeSpec => []PaidForReal
<1>1. IntakeInv => PaidForReal
  BY DEF IntakeInv, MoneyFits, PaidForReal
<1>. QED  BY <1>1, IntakeInvariant, PTL

\* What was acknowledged is done.
THEOREM AcknowledgedForReal == IntakeSpec => []AcknowledgedSettled
<1>1. ASSUME IntakeInv PROVE AcknowledgedSettled
  <2>. settled \subseteq Calls
    BY <1>1 DEF IntakeInv, IntakeTypeOK
  <2>. QED  BY <1>1 DEF IntakeInv, SettledFits, AcknowledgedSettled
<1>. QED  BY <1>1, IntakeInvariant, PTL
=============================================================================
