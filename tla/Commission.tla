------------------------------ MODULE Commission ------------------------------
(***************************************************************************)
(* The platform's commission on completed sales: the commission_charges    *)
(* and commission_invoices tables, the three passes of the minute cron     *)
(* (accrue, issue, remind) and the administrator's actions on an invoice.  *)
(*                                                                         *)
(* Time is counted in Cairo days and a week has WeekLength of them.  The   *)
(* cron is one goroutine, but a deployment briefly runs two processes, and *)
(* the code claims that a double run is harmless: Instance is the set of   *)
(* processes.  An invoice is issued in a transaction; every other          *)
(* statement commits by itself.  Amounts are in the smallest unit.         *)
(***************************************************************************)
EXTENDS Integers, FiniteSets, Functions

CONSTANTS
  OrderId,     \* rows of the orders table
  Seller,      \* the merchants
  SellerOf,    \* OrderId -> Seller
  DealValue,   \* OrderId -> Nat: final_price times quantity, rounded
  Instance,    \* processes that run the cron
  WeekLength,  \* days from one close to the next
  Defaults,    \* the settings of a fresh installation
  Rates,       \* bound: the rates (percent) an administrator chooses among
  Weekdays,    \* bound: the closing weekdays an administrator chooses among
  StartDay,    \* commission_start_date
  GraceDays,   \* commission_grace_days
  RemindDays,  \* commission_reminder_days
  Horizon,     \* bound: the clock stops at this day
  MaxFaults,   \* bound: how many cron statements may fail
  MaxChanges,  \* bound: how often an administrator changes a setting
  None         \* SQL NULL

ASSUME CommissionAssumption ==
  /\ IsFiniteSet(OrderId) /\ IsFiniteSet(Seller) /\ IsFiniteSet(Instance)
  /\ SellerOf \in [OrderId -> Seller] /\ DealValue \in [OrderId -> Nat]
  /\ WeekLength \in Nat \ {0} /\ Weekdays \subseteq 0 .. WeekLength - 1
  /\ Rates \subseteq 0 .. 100 /\ Defaults \in [rate : Rates, close : Weekdays]
  /\ {StartDay, GraceDays, RemindDays, Horizon, MaxFaults, MaxChanges} \subseteq Nat
  /\ None \notin Nat \cup Seller \cup OrderId \cup (Seller \X Int)

VARIABLES
  day,       \* the Cairo date
  setting,   \* commission_rate_percent and commission_week_close_day
  done,      \* completed_at of each order, None until it completes
  charge,    \* commission_charges, keyed by UNIQUE (order_id)
  invoice,   \* commission_invoices, keyed by UNIQUE (seller_id, period_start)
  cron,      \* the cron of each process: where it is and what it has read
  nudge,     \* the invoice an administrator's RemindNow has read
  faults,    \* how many statements have failed
  changes    \* how often a setting has changed

vars == <<day, setting, done, charge, invoice, cron, nudge, faults, changes>>

-----------------------------------------------------------------------------
Days == -WeekLength .. Horizon
Key  == Seller \X Days     \* a seller and the first day of a week

Charge == [rate : Nat, amount : Nat, invoice : Key \cup {None}]

Invoice == [status : {"unpaid", "paid", "waived"}, total : Nat, due : Nat,
            reminded : Nat \cup {None}]

\* One row of ListSellersWithUninvoicedCharges.
SellerTotal == [seller : Seller, total : Nat, count : Nat]

CronStep == {"accrue", "charge", "issue", "create", "attach", "commit", "remind", "send"}
Cron == [step : CronStep, orders : SUBSET OrderId, rate : Nat,
         start : Days, due : Nat, sellers : SUBSET SellerTotal,
         bill : SellerTotal \cup {None}, attached : SUBSET OrderId, late : SUBSET Key]

TypeOK ==
  /\ day \in 0 .. Horizon
  /\ setting \in [rate : Rates, close : Weekdays]
  /\ done \in [OrderId -> Nat \cup {None}]
  /\ DOMAIN charge \subseteq OrderId /\ \A o \in DOMAIN charge : charge[o] \in Charge
  /\ DOMAIN invoice \subseteq Key /\ \A k \in DOMAIN invoice : invoice[k] \in Invoice
  /\ cron \in [Instance -> Cron]
  /\ nudge \in Key \cup {None}
  /\ faults \in Nat /\ changes \in Nat

Start == [step |-> "accrue", orders |-> {}, rate |-> 0, start |-> 0, due |-> 0,
          sellers |-> {}, bill |-> None, attached |-> {}, late |-> {}]

NoRows == [x \in {} |-> None]

Init ==
  /\ day = 0
  /\ setting = Defaults
  /\ done = [o \in OrderId |-> None]
  /\ charge = NoRows
  /\ invoice = NoRows
  /\ cron = [i \in Instance |-> Start]
  /\ nudge = None
  /\ faults = 0
  /\ changes = 0

\* A loop over rows ends with the last of them.
After(rest, loop, next) == IF rest = {} THEN next ELSE loop

Insert(table, key, row) == [x \in DOMAIN table \cup {key} |-> IF x = key THEN row ELSE table[x]]

MayFail == faults < MaxFaults
Fail    == faults' = faults + 1

-----------------------------------------------------------------------------
(* AccrueCharges.                                                          *)

\* Round half away from zero of dealValue * rate / 100.
ComputeCharge(value, rate) == (value * rate + 50) \div 100

\* Variant: only the last day is looked at.
ListCompletedTodayWithoutCharge ==
  {o \in OrderId : done[o] = day /\ done[o] >= StartDay /\ o \notin DOMAIN charge}

ListCompletedOrdersWithoutCharge ==
  {o \in OrderId : done[o] # None /\ done[o] >= StartDay /\ o \notin DOMAIN charge}

\* The rate is read once for the batch.
AccrueList(i) ==
  /\ cron[i].step = "accrue"
  /\ \/ /\ cron' = [cron EXCEPT
             ![i].step = After(ListCompletedOrdersWithoutCharge, "charge", "issue"),
             ![i].orders = ListCompletedOrdersWithoutCharge,
             ![i].rate = IF ListCompletedOrdersWithoutCharge = {} THEN 0 ELSE setting.rate]
        /\ UNCHANGED faults
     \/ MayFail /\ Fail /\ cron' = [cron EXCEPT ![i].step = "issue"]
  /\ UNCHANGED <<day, setting, done, charge, invoice, nudge, changes>>

\* ON CONFLICT (order_id) DO NOTHING.
CreateCommissionCharge(o, rate) ==
  charge' = IF o \in DOMAIN charge THEN charge
            ELSE Insert(charge, o, [rate |-> rate,
                                    amount |-> ComputeCharge(DealValue[o], rate),
                                    invoice |-> None])

AccrueOne(i) ==
  /\ cron[i].step = "charge"
  /\ \E o \in cron[i].orders :
       /\ \/ CreateCommissionCharge(o, cron[i].rate) /\ UNCHANGED faults
          \/ MayFail /\ Fail /\ UNCHANGED charge
       /\ cron' = [cron EXCEPT ![i].orders = @ \ {o},
                               ![i].step = After(cron[i].orders \ {o}, "charge", "issue"),
                               ![i].rate = After(cron[i].orders \ {o}, @, 0)]
  /\ UNCHANGED <<day, setting, done, invoice, nudge, changes>>

-----------------------------------------------------------------------------
(* IssueWeeklyInvoices and issueOne.                                       *)

Uninvoiced(seller, start) ==
  {o \in DOMAIN charge : /\ charge[o].invoice = None
                         /\ SellerOf[o] = seller
                         /\ start <= done[o] /\ done[o] < start + WeekLength}

Amounts       == [o \in DOMAIN charge |-> charge[o].amount]
Total(orders) == SumFunctionOnSet(Amounts, orders)

ListSellersWithUninvoicedCharges(start) ==
  {[seller |-> s, total |-> Total(Uninvoiced(s, start)),
    count |-> Cardinality(Uninvoiced(s, start))] :
     s \in {t \in Seller : Uninvoiced(t, start) # {}}}

ClosesToday == day % WeekLength = setting.close

IssueList(i) ==
  /\ cron[i].step = "issue"
  /\ LET sellers == ListSellersWithUninvoicedCharges(day - WeekLength) IN
     cron' = IF ClosesToday /\ sellers # {}
               THEN [cron EXCEPT ![i].step = "create", ![i].sellers = sellers,
                                 ![i].start = day - WeekLength, ![i].due = day + GraceDays]
               ELSE [cron EXCEPT ![i].step = "remind"]
  /\ UNCHANGED <<day, setting, done, charge, invoice, nudge, faults, changes>>

BillKey(i) == <<cron[i].bill.seller, cron[i].start>>

InTransaction(i) == cron[i].step \in {"attach", "commit"}

\* Inserting a key that another open transaction has inserted waits for it.
KeyIsFree(i, key) == \A j \in Instance \ {i} : InTransaction(j) => BillKey(j) # key

\* The seller is passed over: already billed for this week, or a failure.
Pass(i, b) ==
  cron' = [cron EXCEPT ![i] = [Start EXCEPT
    !.step = After(cron[i].sellers \ {b}, "create", "remind"),
    !.sellers = cron[i].sellers \ {b},
    !.start = After(cron[i].sellers \ {b}, cron[i].start, 0),
    !.due = After(cron[i].sellers \ {b}, cron[i].due, 0)]]

CreateCommissionInvoice(i) ==
  /\ cron[i].step = "create"
  /\ \E b \in cron[i].sellers :
       LET key == <<b.seller, cron[i].start>> IN
       \/ /\ KeyIsFree(i, key)
          /\ IF key \in DOMAIN invoice
               THEN Pass(i, b)
               ELSE cron' = [cron EXCEPT ![i].step = "attach", ![i].bill = b]
          /\ UNCHANGED faults
       \/ MayFail /\ Fail /\ Pass(i, b)
  /\ UNCHANGED <<day, setting, done, charge, invoice, nudge, changes>>

\* A row that another open transaction has attached waits for it; once that
\* has committed, the WHERE clause is evaluated again on the new row.
AttachChargesToInvoice(i) ==
  LET wanted == Uninvoiced(cron[i].bill.seller, cron[i].start) IN
  /\ cron[i].step = "attach"
  /\ \A j \in Instance \ {i} : cron[j].step = "commit" => cron[j].attached \cap wanted = {}
  /\ cron' = [cron EXCEPT ![i].step = "commit", ![i].attached = wanted]
  /\ UNCHANGED <<day, setting, done, charge, invoice, nudge, faults, changes>>

\* Variant: the number of attached rows is not compared with the listed one.
CountUnchecked(i) == TRUE

CountMatches(i) == Cardinality(cron[i].attached) = cron[i].bill.count

\* Commit, or roll back on a count mismatch or a failure.
Commit(i) ==
  /\ cron[i].step = "commit"
  /\ \/ /\ CountMatches(i)
        /\ invoice' = Insert(invoice, BillKey(i),
                             [status |-> "unpaid", total |-> cron[i].bill.total,
                              due |-> cron[i].due, reminded |-> None])
        /\ charge' = [o \in DOMAIN charge |->
                        IF o \in cron[i].attached THEN [charge[o] EXCEPT !.invoice = BillKey(i)]
                                                  ELSE charge[o]]
        /\ UNCHANGED faults
     \/ ~ CountMatches(i) /\ UNCHANGED <<invoice, charge, faults>>
     \/ MayFail /\ Fail /\ UNCHANGED <<invoice, charge>>
  /\ Pass(i, cron[i].bill)
  /\ UNCHANGED <<day, setting, done, nudge, changes>>

-----------------------------------------------------------------------------
(* SendPaymentReminders and RemindNow.                                     *)

\* Variant: an invoice that was never reminded does not compare.
ListInvoicesRemindedBefore(cutoff) ==
  {k \in DOMAIN invoice : /\ invoice[k].status = "unpaid" /\ invoice[k].due <= day
                          /\ invoice[k].reminded # None /\ invoice[k].reminded < cutoff}

ListInvoicesNeedingReminder(cutoff) ==
  {k \in DOMAIN invoice : /\ invoice[k].status = "unpaid" /\ invoice[k].due <= day
                          /\ (invoice[k].reminded = None \/ invoice[k].reminded < cutoff)}

RemindList(i) ==
  /\ cron[i].step = "remind"
  /\ LET late == ListInvoicesNeedingReminder(day - RemindDays) IN
     cron' = [cron EXCEPT ![i] = [Start EXCEPT !.step = After(late, "send", "accrue"), !.late = late]]
  /\ UNCHANGED <<day, setting, done, charge, invoice, nudge, faults, changes>>

\* By id alone, whatever the invoice's status is by now.
MarkInvoiceReminded(k) == invoice' = [invoice EXCEPT ![k].reminded = day]

\* The notice goes out first; a failure leaves it unrecorded.
RemindOne(i) ==
  /\ cron[i].step = "send"
  /\ \E k \in cron[i].late :
       /\ \/ MarkInvoiceReminded(k) /\ UNCHANGED faults
          \/ MayFail /\ Fail /\ UNCHANGED invoice
       /\ cron' = [cron EXCEPT ![i] = [Start EXCEPT
                     !.step = After(cron[i].late \ {k}, "send", "accrue"),
                     !.late = cron[i].late \ {k}]]
  /\ UNCHANGED <<day, setting, done, charge, nudge, changes>>

RemindNow(k) ==
  /\ nudge = None
  /\ k \in DOMAIN invoice /\ invoice[k].status = "unpaid"
  /\ nudge' = k
  /\ UNCHANGED <<day, setting, done, charge, invoice, cron, faults, changes>>

RemindNowSend ==
  /\ nudge # None
  /\ MarkInvoiceReminded(nudge)
  /\ nudge' = None
  /\ UNCHANGED <<day, setting, done, charge, cron, faults, changes>>

-----------------------------------------------------------------------------
(* The administrator and the rest of the platform.                         *)

\* Variant: the status is not looked at.
CloseAny(k, status) ==
  /\ k \in DOMAIN invoice
  /\ invoice[k].status # status
  /\ invoice' = [invoice EXCEPT ![k].status = status]

\* MarkInvoicePaid and WaiveInvoice are guarded by the status.
CloseUnpaid(k, status) ==
  /\ k \in DOMAIN invoice
  /\ invoice[k].status = "unpaid"
  /\ invoice' = [invoice EXCEPT ![k].status = status]

MarkPaid(k) ==
  /\ CloseUnpaid(k, "paid")
  /\ UNCHANGED <<day, setting, done, charge, cron, nudge, faults, changes>>

Waive(k) ==
  /\ CloseUnpaid(k, "waived")
  /\ UNCHANGED <<day, setting, done, charge, cron, nudge, faults, changes>>

SetSetting(s) ==
  /\ changes < MaxChanges
  /\ s # setting
  /\ setting' = s
  /\ changes' = changes + 1
  /\ UNCHANGED <<day, done, charge, invoice, cron, nudge, faults>>

OrderCompletes(o) ==
  /\ done[o] = None
  /\ done' = [done EXCEPT ![o] = day]
  /\ UNCHANGED <<day, setting, charge, invoice, cron, nudge, faults, changes>>

\* The cron may be anywhere when the date changes.
NextDay ==
  /\ day < Horizon
  /\ day' = day + 1
  /\ UNCHANGED <<setting, done, charge, invoice, cron, nudge, faults, changes>>

\* The process dies: an open transaction is rolled back with it.
Crash(i) ==
  /\ MayFail /\ Fail
  /\ cron[i] # Start
  /\ cron' = [cron EXCEPT ![i] = Start]
  /\ UNCHANGED <<day, setting, done, charge, invoice, nudge, changes>>

-----------------------------------------------------------------------------
(* What the seller and the administrator are shown.                        *)

InvoicesOf(s)      == {k \in DOMAIN invoice : k[1] = s}
ListChargesBySeller(s) == {o \in DOMAIN charge : SellerOf[o] = s}
Having(status)     == {k \in DOMAIN invoice : invoice[k].status = status}
Totals             == [k \in DOMAIN invoice |-> invoice[k].total]
InvoiceSum(keys)   == SumFunctionOnSet(Totals, keys)
Owing(overdueOnly) == {k \in Having("unpaid") : overdueOnly => invoice[k].due < day}

GetSellerCommissionSummary(s) ==
  [outstanding |-> InvoiceSum(InvoicesOf(s) \cap Owing(FALSE)),
   accruing    |-> Total({o \in ListChargesBySeller(s) : charge[o].invoice = None}),
   overdue     |-> Cardinality(InvoicesOf(s) \cap Owing(TRUE))]

\* What an administrator reads before phoning a seller.
GetSellerDetail(s) ==
  [outstanding |-> GetSellerCommissionSummary(s).outstanding,
   invoices |-> InvoicesOf(s), charges |-> ListChargesBySeller(s)]

\* Variant: only the sellers who are late are on the worklist.
ListLateSellerBalances(overdueOnly) ==
  [s \in {k[1] : k \in Owing(TRUE)} |-> InvoiceSum(InvoicesOf(s) \cap Owing(overdueOnly))]

\* One row for every seller who owes something, or who is late.
ListSellerBalances(overdueOnly) ==
  [s \in {k[1] : k \in Owing(overdueOnly)} |-> InvoiceSum(InvoicesOf(s) \cap Owing(overdueOnly))]

CountSellerBalances(overdueOnly) == Cardinality({k[1] : k \in Owing(overdueOnly)})

GetCommissionTotals ==
  [outstanding |-> InvoiceSum(Owing(FALSE)), overdue |-> InvoiceSum(Owing(TRUE)),
   collected |-> InvoiceSum(Having("paid"))]

ListBalances(overdueOnly) ==
  [sellers |-> ListSellerBalances(overdueOnly), total |-> CountSellerBalances(overdueOnly),
   totals |-> GetCommissionTotals]

ListInvoicesForAdmin(filter) ==
  IF filter = "settled" THEN Having("paid") \cup Having("waived") ELSE Having(filter)

ListInvoiceHistory(filter) ==
  [invoices |-> ListInvoicesForAdmin(filter), totals |-> GetCommissionTotals]

-----------------------------------------------------------------------------
CronNext(i) ==
  \/ AccrueList(i)
  \/ AccrueOne(i)
  \/ IssueList(i)
  \/ CreateCommissionInvoice(i)
  \/ AttachChargesToInvoice(i)
  \/ Commit(i)
  \/ RemindList(i)
  \/ RemindOne(i)

Next ==
  \/ \E i \in Instance : CronNext(i) \/ Crash(i)
  \/ \E k \in DOMAIN invoice : RemindNow(k) \/ MarkPaid(k) \/ Waive(k)
  \/ RemindNowSend
  \/ \E s \in [rate : Rates, close : Weekdays] : SetSetting(s)
  \/ \E o \in OrderId : OrderCompletes(o)
  \/ NextDay

Spec == Init /\ [][Next]_vars

\* The ticker starts the cron every minute, a tick's statements run one after
\* the other, and the date changes; nobody has to complete an order or to pay.
Fairness == (\A i \in Instance : WF_vars(CronNext(i))) /\ WF_vars(NextDay)

FairSpec == Spec /\ Fairness

-----------------------------------------------------------------------------
(* Properties.                                                             *)

\* Weeks of one seller that share a day: the closing weekday changed in between.
Overlap(k, l) == k[1] = l[1] /\ k[2] < l[2] + WeekLength /\ l[2] < k[2] + WeekLength

Billed(k) == {o \in DOMAIN charge : charge[o].invoice = k}

TotalIsExact(k) == invoice[k].total = Total(Billed(k))

\* The total of every invoice is the sum of the charges attached to it, they
\* are the seller's own and of the billed week: although the total was computed
\* before the transaction, and another process may accrue or issue meanwhile.
\* (Comparing the counts is not enough where two weeks of the seller overlap.)
\* Every row keeps its type.
InvoiceMatchesCharges ==
  TypeOK /\ \A k \in DOMAIN invoice :
    /\ (\A l \in DOMAIN invoice \ {k} : ~ Overlap(k, l)) => TotalIsExact(k)
    /\ Billed(k) # {}
    /\ \A o \in Billed(k) :
         SellerOf[o] = k[1] /\ k[2] <= done[o] /\ done[o] < k[2] + WeekLength

\* Each sale is charged once, billed once and settled once.
AccountOf(o) ==
  IF o \notin DOMAIN charge THEN "open"
  ELSE IF charge[o].invoice = None THEN "charged"
  ELSE IF invoice[charge[o].invoice].status = "unpaid" THEN "billed"
  ELSE invoice[charge[o].invoice].status

Ledger == INSTANCE CommissionLedger WITH account <- [o \in OrderId |-> AccountOf(o)]

LedgerKeepsPromise == Ledger!Spec

\* The pages add up.  The rows of the worklist, all of it or the late ones, are
\* as many as its total says and sum to the totals beside them; what the sellers'
\* own pages show as outstanding and accruing makes up, with the settled history,
\* the commission of every charged sale, none lost or doubled; and every charge
\* an administrator is shown as billed is on an invoice of the same page.
PagesAddUp ==
  /\ \A overdueOnly \in BOOLEAN :
       LET page == ListBalances(overdueOnly) IN
       /\ Cardinality(DOMAIN page.sellers) = page.total
       /\ SumFunction(page.sellers)
            = IF overdueOnly THEN page.totals.overdue ELSE page.totals.outstanding
  /\ SumFunction([s \in Seller |-> GetSellerDetail(s).outstanding
                                    + GetSellerCommissionSummary(s).accruing])
       + InvoiceSum(ListInvoiceHistory("settled").invoices)
       = Total(DOMAIN charge)
  /\ \A s \in Seller : \A o \in GetSellerDetail(s).charges :
       charge[o].invoice # None => charge[o].invoice \in GetSellerDetail(s).invoices

\* Every sale completed on or after the start date ends up charged, through
\* failed statements and crashes of the cron: again and again none is left over.
CompletedAreCharged ==
  []<>(\A o \in OrderId : done[o] # None /\ done[o] >= StartDay => o \in DOMAIN charge)

\* Every unpaid invoice that has come due is reminded of, or settled.
UnpaidAreReminded ==
  []<>(\A k \in DOMAIN invoice :
         invoice[k].status = "unpaid" /\ invoice[k].due <= day => invoice[k].reminded # None)

-----------------------------------------------------------------------------
(* The inductive invariant of the proofs.                                  *)

\* A charge belongs to a completed sale, and to an invoice of its seller and week.
ChargesConsistent ==
  \A o \in DOMAIN charge :
    /\ done[o] # None
    /\ charge[o].invoice # None =>
         /\ charge[o].invoice \in DOMAIN invoice
         /\ charge[o].invoice[1] = SellerOf[o]
         /\ charge[o].invoice[2] <= done[o] /\ done[o] < charge[o].invoice[2] + WeekLength

InvoicesConsistent ==
  \A k \in DOMAIN invoice :
    /\ Billed(k) # {}
    /\ (\A l \in DOMAIN invoice \ {k} : ~ Overlap(k, l)) => TotalIsExact(k)

\* The charges that were listed and summed up are still all among the open ones,
\* unless an invoice of the same or an overlapping week has taken some of them.
Listed(b, start, open) ==
  \E sales \in SUBSET DOMAIN charge :
    /\ sales # {} /\ b.total = Total(sales) /\ b.count = Cardinality(sales)
    /\ \/ sales \subseteq open
       \/ \E l \in DOMAIN invoice : Overlap(<<b.seller, start>>, l)

\* What a process remembers of rows that it read.
Remembers(i) ==
  LET c == cron[i] IN
  /\ c.step = "charge" => \A o \in c.orders : done[o] # None
  /\ c.step \in {"create", "attach", "commit"} =>
       \A b \in c.sellers : Listed(b, c.start, Uninvoiced(b.seller, c.start))
  /\ InTransaction(i) => c.bill \in c.sellers /\ BillKey(i) \notin DOMAIN invoice
  /\ c.step = "commit" => /\ c.attached \subseteq Uninvoiced(c.bill.seller, c.start)
                          /\ Listed(c.bill, c.start, c.attached)
  /\ c.late \subseteq DOMAIN invoice

\* Open transactions insert different keys and attach different charges.
Apart(i, j) ==
  /\ InTransaction(i) /\ InTransaction(j) => BillKey(i) # BillKey(j)
  /\ cron[i].step = "commit" /\ cron[j].step = "commit" =>
       cron[i].attached \cap cron[j].attached = {}

IInv ==
  /\ TypeOK
  /\ ChargesConsistent
  /\ InvoicesConsistent
  /\ \A i \in Instance : Remembers(i)
  /\ \A i \in Instance : \A j \in Instance \ {i} : Apart(i, j)
  /\ nudge = None \/ nudge \in DOMAIN invoice
=============================================================================
