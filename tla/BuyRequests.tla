----------------------------- MODULE BuyRequests -----------------------------
(***************************************************************************)
(* Buy requests: the buy_requests, supply_offers and orders tables, the    *)
(* handlers that write them and the buy half of the minute cron.  Unlike a *)
(* sell post, a request may be met by several offers, each for part of its *)
(* quantity; every acceptance makes an order of its own.                   *)
(*                                                                         *)
(* As in SellAuctions every SQL statement commits by itself and is one     *)
(* action; call[c] keeps what a handler has read.                          *)
(***************************************************************************)
EXTENDS Naturals, FiniteSets

CONSTANTS
  BuyRequest,        \* rows the buy_requests table can hold
  OrderId,           \* rows the orders table can hold
  Call,              \* HTTP calls that may be served at the same time
  Buyer,             \* users whose tier lets them post requests
  Supplier,          \* users whose tier lets them make offers
  Quantity,          \* quantities, in units of the DECIMAL(10,2) columns
  Asked,             \* bound: the quantities buyers ask for
  BuyAllFromOne,     \* what buyers choose for buy_all_from_one
  AuctionDuration,   \* AUCTION_DURATION_HOURS
  SelectionWindow,   \* SELECTION_WINDOW_HOURS
  ConfirmWindow,     \* the 30 minutes of CreateOrderFromBuyRequest
  MaxOffers,         \* MAX_OFFERS_PER_REQUEST
  MaxCancellations,  \* the literal 3 in CancelBuyRequest
  PostApproval,      \* POST_APPROVAL_ENABLED
  Horizon,           \* bound: the clock stops here
  MaxFaults,         \* bound: how often a cron statement fails or the process dies
  None               \* SQL NULL

User  == Buyer \cup Supplier
Offer == BuyRequest \X User      \* UNIQUE (buy_request_id, supplier_id)

ASSUME SetsAssumption ==
  /\ IsFiniteSet(Call)
  /\ IsFiniteSet(User)
  /\ None \notin BuyRequest \cup OrderId \cup User

ASSUME LimitsAssumption ==
  /\ AuctionDuration \in Nat /\ SelectionWindow \in Nat /\ ConfirmWindow \in Nat
  /\ MaxOffers \in Nat /\ MaxCancellations \in Nat
  /\ Quantity \subseteq Nat \ {0} /\ Asked \subseteq Quantity /\ BuyAllFromOne \subseteq BOOLEAN
  /\ Horizon \in Nat /\ MaxFaults \in Nat
  /\ PostApproval \in BOOLEAN

VARIABLES
  now,        \* the clock both Go and the database read
  request,    \* buy_requests: BuyRequest -> row
  offered,    \* supply_offers: offered_quantity, 0 where there is no row
  accepted,   \* the offers with is_accepted
  notChosen,  \* the offers with is_not_chosen
  order,      \* orders: OrderId -> row
  told,       \* <<order, event>> for every order notification sent
  call,       \* the HTTP calls being served
  cron,       \* the cron goroutine: where it is and the rows it has read
  faults      \* how many faults there have been

tables == <<request, offered, accepted, notChosen, order>>
vars   == <<now, request, offered, accepted, notChosen, order, told, call, cron, faults>>

-----------------------------------------------------------------------------
RequestStatus == {"none", "pending_approval", "active", "cancelled", "expired",
                  "pending_selection", "fulfilled", "partially_fulfilled",
                  "rejected", "suspended"}
OrderStatus   == {"none", "buyer_confirmed", "completed", "cancelled"}

RequestRow == [status : RequestStatus, owner : User \cup {None}, endTime : Nat,
               quantity : Quantity \cup {0}, allFromOne : BOOLEAN,
               offerCount : Nat, acceptedCount : Nat, fulfilled : Nat]
OrderRow   == [status : OrderStatus, request : BuyRequest \cup {None},
               seller : User \cup {None}, deadline : Nat]

CallStep == {"idle", "create", "offer_dup", "offer_insert", "offer_count",
             "cancel_count", "cancel_write",
             "accept_offer", "accept_flag", "accept_count", "accept_fulfilled",
             "accept_status", "accept_order", "confirm_write"}
CallState == [step : CallStep, request : BuyRequest \cup {None}, user : User \cup {None},
              quantity : Quantity \cup {0}, allFromOne : BOOLEAN,
              order : OrderId \cup {None}, until : Nat]

CronStep  == {"end", "close", "mark", "cancel", "revert"}
CronState == [step : CronStep, ended : SUBSET BuyRequest, barren : SUBSET BuyRequest,
              lapsed : SUBSET BuyRequest, overdue : SUBSET OrderId,
              request : BuyRequest \cup {None}, order : OrderId \cup {None}]

OrderEvent == {"order_completed", "order_expired"}

TypeOK ==
  /\ now \in Nat
  /\ request \in [BuyRequest -> RequestRow]
  /\ offered \in [Offer -> Quantity \cup {0}]
  /\ accepted \subseteq Offer
  /\ notChosen \subseteq Offer
  /\ order \in [OrderId -> OrderRow]
  /\ told \subseteq OrderId \X OrderEvent
  /\ call \in [Call -> CallState]
  /\ cron \in CronState
  /\ faults \in Nat

-----------------------------------------------------------------------------
NoRequest == [status |-> "none", owner |-> None, endTime |-> 0,
              quantity |-> 0, allFromOne |-> FALSE,
              offerCount |-> 0, acceptedCount |-> 0, fulfilled |-> 0]
NoOrder   == [status |-> "none", request |-> None, seller |-> None, deadline |-> 0]
Idle      == [step |-> "idle", request |-> None, user |-> None, quantity |-> 0,
              allFromOne |-> FALSE, order |-> None, until |-> 0]
CronIdle  == [step |-> "cancel", ended |-> {}, barren |-> {}, lapsed |-> {},
              overdue |-> {}, request |-> None, order |-> None]

Init ==
  /\ now = 0
  /\ request = [b \in BuyRequest |-> NoRequest]
  /\ offered = [x \in Offer |-> 0]
  /\ accepted = {}
  /\ notChosen = {}
  /\ order = [o \in OrderId |-> NoOrder]
  /\ told = {}
  /\ call = [c \in Call |-> Idle]
  /\ cron = CronIdle
  /\ faults = 0

Offers == {x \in Offer : offered[x] > 0}

Goto(c, step) == call' = [call EXCEPT ![c].step = step]
Return(c)     == call' = [call EXCEPT ![c] = Idle]

\* For the statements whose errors the handlers ignore.
QueryMayFail == MaxFaults > 0

\* UpdateBuyRequestStatus: by id alone, whatever the row's status is by now.
UpdateStatus(b, status) == request' = [request EXCEPT ![b].status = status]

-----------------------------------------------------------------------------
(* CreateBuyRequest: end_time is computed before the checks, the row is    *)
(* written after them.                                                     *)

CreateBegin(c, u, n, all) ==
  /\ call[c].step = "idle"
  /\ call' = [call EXCEPT ![c] = [Idle EXCEPT !.step = "create", !.user = u,
                                              !.quantity = n, !.allFromOne = all,
                                              !.until = now + AuctionDuration]]
  /\ UNCHANGED <<now, tables, told, cron, faults>>

InitialStatus == IF PostApproval THEN "pending_approval" ELSE "active"

CreateInsert(c, b) ==
  /\ call[c].step = "create"
  /\ request[b].status = "none"
  /\ request' = [request EXCEPT ![b] = [status |-> InitialStatus, owner |-> call[c].user,
                                        endTime |-> call[c].until,
                                        quantity |-> call[c].quantity,
                                        allFromOne |-> call[c].allFromOne,
                                        offerCount |-> 0, acceptedCount |-> 0,
                                        fulfilled |-> 0]]
  /\ Return(c)
  /\ UNCHANGED <<now, offered, accepted, notChosen, order, told, cron, faults>>

-----------------------------------------------------------------------------
(* PlaceOffer.  The request row is read once, at the start.                *)

\* Variant: a part is enough for a request that must be met by one supplier.
OfferFitsPartly(row, n) == n + row.fulfilled <= row.quantity

\* The whole quantity, or at most what fulfilled_quantity leaves open; no
\* quantity in the body means all of the latter and is one of these n.
OfferFits(row, n) ==
  IF row.allFromOne THEN n = row.quantity
                    ELSE n + row.fulfilled <= row.quantity

PlaceOfferRead(c, u, b, n) ==
  /\ call[c].step = "idle"
  /\ request[b].status = "active"
  /\ ~ (request[b].endTime < now)
  /\ request[b].owner # u
  /\ request[b].offerCount < MaxOffers
  /\ OfferFits(request[b], n)
  /\ call' = [call EXCEPT ![c] = [Idle EXCEPT !.step = "offer_dup", !.request = b,
                                              !.user = u, !.quantity = n]]
  /\ UNCHANGED <<now, tables, told, cron, faults>>

\* GetByRequestAndSupplier: any error of it, not only "no rows", lets the
\* handler go on.
PlaceOfferDuplicateCheck(c) ==
  /\ call[c].step = "offer_dup"
  /\ \/ <<call[c].request, call[c].user>> \in Offers /\ Return(c)
     \/ /\ <<call[c].request, call[c].user>> \notin Offers \/ QueryMayFail
        /\ Goto(c, "offer_insert")
  /\ UNCHANGED <<now, tables, told, cron, faults>>

AfterConflict(c) == Return(c)

\* The INSERT looks at nothing but the unique key.
PlaceOfferInsert(c) ==
  LET x == <<call[c].request, call[c].user>> IN
  /\ call[c].step = "offer_insert"
  /\ IF x \in Offers
       THEN AfterConflict(c) /\ UNCHANGED offered
       ELSE Goto(c, "offer_count") /\ offered' = [offered EXCEPT ![x] = call[c].quantity]
  /\ UNCHANGED <<now, request, accepted, notChosen, order, told, cron, faults>>

PlaceOfferCount(c) ==
  /\ call[c].step = "offer_count"
  /\ request' = [request EXCEPT ![call[c].request].offerCount = @ + 1]
  /\ Return(c)
  /\ UNCHANGED <<now, offered, accepted, notChosen, order, told, cron, faults>>

-----------------------------------------------------------------------------
(* CancelBuyRequest.                                                       *)

CancelRead(c, u, b) ==
  /\ call[c].step = "idle"
  /\ request[b].owner = u
  /\ request[b].status = "active"
  /\ request[b].offerCount = 0
  /\ call' = [call EXCEPT ![c] = [Idle EXCEPT !.step = "cancel_count", !.request = b, !.user = u]]
  /\ UNCHANGED <<now, tables, told, cron, faults>>

\* CountMonthlyBuyCancellations; the whole horizon lies in one month.
Cancelled(u) == {b \in BuyRequest : request[b].owner = u /\ request[b].status = "cancelled"}

\* An error of the count is dropped and reads as zero.
CancelCount(c) ==
  /\ call[c].step = "cancel_count"
  /\ \/ Cardinality(Cancelled(call[c].user)) >= MaxCancellations /\ Return(c)
     \/ /\ Cardinality(Cancelled(call[c].user)) < MaxCancellations \/ QueryMayFail
        /\ Goto(c, "cancel_write")
  /\ UNCHANGED <<now, tables, told, cron, faults>>

CancelWrite(c) ==
  LET b == call[c].request IN
  /\ call[c].step = "cancel_write"
  /\ IF request[b].status \in {"active", "pending_approval"}
       THEN UpdateStatus(b, "cancelled")
       ELSE UNCHANGED request
  /\ Return(c)
  /\ UNCHANGED <<now, offered, accepted, notChosen, order, told, cron, faults>>

-----------------------------------------------------------------------------
(* AcceptOffer.  Quantities come from the driver as pgtype.Numeric.        *)

AcceptRead(c, u, b) ==
  /\ call[c].step = "idle"
  /\ request[b].owner = u
  /\ request[b].status \in {"pending_selection", "partially_fulfilled", "active"}
  /\ ~ (now > request[b].endTime + SelectionWindow)
  /\ call' = [call EXCEPT ![c] = [Idle EXCEPT !.step = "accept_offer", !.request = b]]
  /\ UNCHANGED <<now, tables, told, cron, faults>>

\* The handler takes Numeric.Int and drops Exp, which is -2 for these columns.
Coefficient(n) == 100 * n

\* SumAcceptedQuantityByRequest hands over a pgtype.Numeric; the type switch
\* knows float64 and int64 only, so whatever was accepted counts as nothing.
AcceptedSoFar == 0

InRequest(b, c) == b = call[c].request

\* The caller names any offer.
AcceptReadOffer(c, b, u) ==
  LET open == Coefficient(request[call[c].request].quantity) - AcceptedSoFar IN
  /\ call[c].step = "accept_offer"
  /\ <<b, u>> \in Offers
  /\ IF /\ InRequest(b, c)
        /\ <<b, u>> \notin accepted
        /\ Coefficient(offered[<<b, u>>]) <= open
       THEN call' = [call EXCEPT ![c] = [@ EXCEPT !.step = "accept_flag", !.user = u,
                                                  !.quantity = offered[<<b, u>>]]]
       ELSE Return(c)
  /\ UNCHANGED <<now, tables, told, cron, faults>>

AcceptFlag(c) ==
  /\ call[c].step = "accept_flag"
  /\ accepted' = accepted \cup {<<call[c].request, call[c].user>>}
  /\ Goto(c, "accept_count")
  /\ UNCHANGED <<now, request, offered, notChosen, order, told, cron, faults>>

\* The next three writes go by id alone, and the handler ignores their errors.
AcceptCount(c) ==
  /\ call[c].step = "accept_count"
  /\ \/ request' = [request EXCEPT ![call[c].request].acceptedCount = @ + 1]
     \/ QueryMayFail /\ UNCHANGED request
  /\ Goto(c, "accept_fulfilled")
  /\ UNCHANGED <<now, offered, accepted, notChosen, order, told, cron, faults>>

\* The sum is written back as a whole number, without its exponent.
AcceptFulfilled(c) ==
  /\ call[c].step = "accept_fulfilled"
  /\ \/ request' = [request EXCEPT ![call[c].request].fulfilled =
                      AcceptedSoFar + Coefficient(call[c].quantity)]
     \/ QueryMayFail /\ UNCHANGED request
  /\ Goto(c, "accept_status")
  /\ UNCHANGED <<now, offered, accepted, notChosen, order, told, cron, faults>>

\* Variant: only one side of the comparison is scaled.
QuantityMetUnscaled(n, quantity) == AcceptedSoFar + Coefficient(n) >= quantity

QuantityMet(n, quantity) == AcceptedSoFar + Coefficient(n) >= Coefficient(quantity)

AcceptStatus(c) ==
  LET b == call[c].request IN
  /\ call[c].step = "accept_status"
  /\ \/ UpdateStatus(b, IF QuantityMet(call[c].quantity, request[b].quantity)
                          THEN "fulfilled" ELSE "partially_fulfilled")
     \/ QueryMayFail /\ UNCHANGED request
  /\ Goto(c, "accept_order")
  /\ UNCHANGED <<now, offered, accepted, notChosen, order, told, cron, faults>>

\* CreateOrderFromBuyRequest; the orders table has no unique key on the offer.
AcceptCreateOrder(c, o) ==
  /\ call[c].step = "accept_order"
  /\ order[o].status = "none"
  /\ order' = [order EXCEPT ![o] = [status |-> "buyer_confirmed",
                                    request |-> call[c].request,
                                    seller |-> call[c].user,
                                    deadline |-> now + ConfirmWindow]]
  /\ Return(c)
  /\ UNCHANGED <<now, request, offered, accepted, notChosen, told, cron, faults>>

-----------------------------------------------------------------------------
(* ConfirmOrder.  An order of a buy request is born buyer_confirmed, so    *)
(* its seller is the only one who gets past the checks.                    *)

ConfirmRead(c, u, o) ==
  /\ call[c].step = "idle"
  /\ order[o].seller = u
  /\ order[o].status = "buyer_confirmed"
  /\ ~ (order[o].deadline < now)
  /\ call' = [call EXCEPT ![c] = [Idle EXCEPT !.step = "confirm_write", !.user = u, !.order = o]]
  /\ UNCHANGED <<now, tables, told, cron, faults>>

\* Variant: the UPDATE trusts the deadline check made when the row was read.
ConfirmableLate(o) == order[o].status = "buyer_confirmed"

\* The WHERE clause of ConfirmOrderAsSeller.
Confirmable(o) == order[o].status = "buyer_confirmed" /\ order[o].deadline > now

\* ConfirmOrderAsSeller, then the notification, sent even when no row matched.
ConfirmWrite(c) ==
  LET o == call[c].order IN
  /\ call[c].step = "confirm_write"
  /\ IF Confirmable(o)
       THEN order' = [order EXCEPT ![o].status = "completed"]
       ELSE UNCHANGED order
  /\ told' = told \cup {<<o, "order_completed">>}
  /\ Return(c)
  /\ UNCHANGED <<now, request, offered, accepted, notChosen, cron, faults>>

-----------------------------------------------------------------------------
(* Moderation: one guarded UPDATE ... RETURNING each.                      *)

FreshEndTime(b) == now + AuctionDuration

Approve(b) ==
  /\ request[b].status \in {"pending_approval", "suspended"}
  /\ request' = [request EXCEPT ![b] = [@ EXCEPT !.status = "active",
                                                 !.endTime = FreshEndTime(b)]]
  /\ UNCHANGED <<now, offered, accepted, notChosen, order, told, call, cron, faults>>

Rejectable == {"pending_approval"}

Reject(b) ==
  /\ request[b].status \in Rejectable
  /\ UpdateStatus(b, "rejected")
  /\ UNCHANGED <<now, offered, accepted, notChosen, order, told, call, cron, faults>>

Suspend(b) ==
  /\ request[b].status = "active"
  /\ UpdateStatus(b, "suspended")
  /\ UNCHANGED <<now, offered, accepted, notChosen, order, told, call, cron, faults>>

-----------------------------------------------------------------------------
(* The cron goroutine: the buy half of its passes.                         *)

\* Variant: only requests somebody has made an offer for are looked at.
EndedWithOffers == {b \in BuyRequest : /\ request[b].status = "active"
                                       /\ request[b].endTime <= now
                                       /\ request[b].offerCount > 0}

\* GetExpiredActiveBuyRequests.
Ended == {b \in BuyRequest : request[b].status = "active" /\ request[b].endTime <= now}

ReadEnded ==
  /\ cron.step = "cancel"
  /\ cron.overdue = {}
  /\ cron' = [cron EXCEPT !.step = "end",
                          !.ended  = {b \in Ended : request[b].offerCount > 0},
                          !.barren = {b \in Ended : request[b].offerCount = 0}]
  /\ UNCHANGED <<now, tables, told, call, faults>>

\* processExpiredAuctions: the status written follows the offer_count it read.
EndRequest(b) ==
  /\ cron.step = "end"
  /\ \/ b \in cron.ended  /\ UpdateStatus(b, "pending_selection")
     \/ b \in cron.barren /\ UpdateStatus(b, "expired")
  /\ cron' = [cron EXCEPT !.ended = @ \ {b}, !.barren = @ \ {b}]
  /\ UNCHANGED <<now, offered, accepted, notChosen, order, told, call, faults>>

\* GetExpiredPendingSelectionBuyRequests; partially_fulfilled is not in it.
Lapsed == {b \in BuyRequest : /\ request[b].status = "pending_selection"
                              /\ request[b].endTime + SelectionWindow <= now}

ReadLapsed ==
  /\ cron.step = "end"
  /\ cron.ended \cup cron.barren = {}
  /\ cron' = [cron EXCEPT !.step = "close", !.lapsed = Lapsed]
  /\ UNCHANGED <<now, tables, told, call, faults>>

ClosedStatus == "expired"

\* processExpiredSelections, first statement for one request.
CloseSelection(b) ==
  /\ cron.step = "close"
  /\ b \in cron.lapsed
  /\ UpdateStatus(b, ClosedStatus)
  /\ cron' = [cron EXCEPT !.step = "mark", !.lapsed = @ \ {b}, !.request = b]
  /\ UNCHANGED <<now, offered, accepted, notChosen, order, told, call, faults>>

\* MarkNotChosenSupplyOffers, second statement for that request.
MarkNotChosen ==
  /\ cron.step = "mark"
  /\ notChosen' = notChosen \cup {x \in Offers \ accepted : x[1] = cron.request}
  /\ cron' = [cron EXCEPT !.step = "close", !.request = None]
  /\ UNCHANGED <<now, request, offered, accepted, order, told, call, faults>>

\* Variant: the deadline is left out of the query.
OverdueEarly == {o \in OrderId : order[o].status = "buyer_confirmed"}

\* GetOrdersPendingConfirmation.
Overdue == {o \in OrderId : order[o].status = "buyer_confirmed" /\ order[o].deadline < now}

ReadOverdue ==
  /\ cron.step = "close"
  /\ cron.lapsed = {}
  /\ cron' = [cron EXCEPT !.step = "cancel", !.overdue = Overdue]
  /\ UNCHANGED <<now, tables, told, call, faults>>

\* Variant: CancelOrder filters on the status of orders of sell posts only.
CancellableSellOnly(o) == order[o].status = "seller_confirmed"

\* The WHERE clause of CancelOrder.
Cancellable(o) == order[o].status = "buyer_confirmed"

\* CancelExpiredOrders, in deadline order: CancelOrder ...
CancelOrder(o) ==
  /\ cron.step = "cancel"
  /\ o \in cron.overdue
  /\ \A p \in cron.overdue : order[o].deadline <= order[p].deadline
  /\ order' = IF Cancellable(o)
                THEN [order EXCEPT ![o].status = "cancelled"]
                ELSE order
  /\ cron' = [cron EXCEPT !.step = "revert", !.overdue = @ \ {o}, !.order = o]
  /\ UNCHANGED <<now, request, offered, accepted, notChosen, told, call, faults>>

\* ... then RevertBuyRequestToPendingSelection, which resets the counters of
\* the request but not the flag of its offers, and the notifications.
RevertRequest ==
  LET b == order[cron.order].request IN
  /\ cron.step = "revert"
  /\ request' = IF request[b].status \in {"fulfilled", "partially_fulfilled"}
                  THEN [request EXCEPT ![b] = [@ EXCEPT !.status = "pending_selection",
                                                        !.acceptedCount = 0, !.fulfilled = 0]]
                  ELSE request
  /\ told' = told \cup {<<cron.order, "order_expired">>}
  /\ cron' = [cron EXCEPT !.step = "cancel", !.order = None]
  /\ UNCHANGED <<now, offered, accepted, notChosen, order, call, faults>>

-----------------------------------------------------------------------------
(* The environment.                                                        *)

Tick ==
  /\ now < Horizon
  /\ now' = now + 1
  /\ UNCHANGED <<tables, told, call, cron, faults>>

\* A statement whose error is returned fails, a check outside this module
\* refuses (slots, quota, a user row), or the client goes away: the handler
\* returns and whatever it has written stays.
Abort(c) ==
  /\ call[c].step # "idle"
  /\ Return(c)
  /\ UNCHANGED <<now, tables, told, cron, faults>>

\* A statement of the cron fails: its error is dropped, or logged, and the
\* pass goes on.
Fault ==
  /\ faults < MaxFaults
  /\ faults' = faults + 1
  /\ UNCHANGED <<now, tables, call>>

\* A failed SELECT gives the pass nothing to do.
ReadFails ==
  /\ Fault
  /\ \/ /\ cron.step = "cancel" /\ cron.overdue = {}
        /\ cron' = [cron EXCEPT !.step = "end"]
     \/ /\ cron.step = "end" /\ cron.ended \cup cron.barren = {}
        /\ cron' = [cron EXCEPT !.step = "close"]
     \/ /\ cron.step = "close" /\ cron.lapsed = {}
        /\ cron' = [cron EXCEPT !.step = "cancel"]
  /\ UNCHANGED told

\* A failed UPDATE writes nothing; a failed CancelOrder skips the rest of the
\* order.
WriteFails ==
  /\ Fault
  /\ \/ \E b \in cron.ended \cup cron.barren :
        /\ cron.step = "end"
        /\ cron' = [cron EXCEPT !.ended = @ \ {b}, !.barren = @ \ {b}]
     \/ \E b \in cron.lapsed :
        /\ cron.step = "close"
        /\ cron' = [cron EXCEPT !.step = "mark", !.lapsed = @ \ {b}, !.request = b]
     \/ /\ cron.step = "mark"
        /\ cron' = [cron EXCEPT !.step = "close", !.request = None]
     \/ \E o \in cron.overdue :
        /\ cron.step = "cancel"
        /\ cron' = [cron EXCEPT !.overdue = @ \ {o}]
  /\ UNCHANGED told

\* A failed revert is followed by the notifications all the same.
RevertFails ==
  /\ Fault
  /\ cron.step = "revert"
  /\ told' = told \cup {<<cron.order, "order_expired">>}
  /\ cron' = [cron EXCEPT !.step = "cancel", !.order = None]

\* The process dies and is started again: only the tables survive.
Crash ==
  /\ faults < MaxFaults
  /\ faults' = faults + 1
  /\ call' = [c \in Call |-> Idle]
  /\ cron' = CronIdle
  /\ UNCHANGED <<now, tables, told>>

CallNext(c) ==
  \/ \E u \in Buyer, n \in Asked, all \in BuyAllFromOne : CreateBegin(c, u, n, all)
  \/ \E b \in BuyRequest : CreateInsert(c, b)
  \/ \E u \in Supplier, b \in BuyRequest, n \in Quantity : PlaceOfferRead(c, u, b, n)
  \/ PlaceOfferDuplicateCheck(c)
  \/ PlaceOfferInsert(c)
  \/ PlaceOfferCount(c)
  \/ \E u \in Buyer, b \in BuyRequest : CancelRead(c, u, b)
  \/ CancelCount(c)
  \/ CancelWrite(c)
  \/ \E u \in Buyer, b \in BuyRequest : AcceptRead(c, u, b)
  \/ \E b \in BuyRequest, u \in User : AcceptReadOffer(c, b, u)
  \/ AcceptFlag(c)
  \/ AcceptCount(c)
  \/ AcceptFulfilled(c)
  \/ AcceptStatus(c)
  \/ \E o \in OrderId : AcceptCreateOrder(c, o)
  \/ \E u \in User, o \in OrderId : ConfirmRead(c, u, o)
  \/ ConfirmWrite(c)
  \/ Abort(c)

ModerationNext == \E b \in BuyRequest : Approve(b) \/ Reject(b) \/ Suspend(b)

CronNext ==
  \/ ReadEnded
  \/ \E b \in BuyRequest : EndRequest(b)
  \/ ReadLapsed
  \/ \E b \in BuyRequest : CloseSelection(b)
  \/ MarkNotChosen
  \/ ReadOverdue
  \/ \E o \in OrderId : CancelOrder(o)
  \/ RevertRequest

Next ==
  \/ \E c \in Call : CallNext(c)
  \/ ModerationNext
  \/ CronNext
  \/ ReadFails \/ WriteFails \/ RevertFails
  \/ Tick
  \/ Crash

Spec == Init /\ [][Next]_vars

\* The cron and the clock are fair, as in SellAuctions.  People are not.
FairSpec == Spec /\ WF_vars(CronNext) /\ WF_vars(Tick)

-----------------------------------------------------------------------------
(* Safety.                                                                 *)

OffersOn(b) == {x \in Offers : x[1] = b}

\* offer_count, which PlaceOffer raises in a statement of its own and whose
\* error it ignores, never runs ahead of the supply_offers rows: no request
\* is sent to its owner for a choice among no offers.
OfferCountNeverAhead == \A b \in BuyRequest : request[b].offerCount <= Cardinality(OffersOn(b))

\* A request that waits for approval, or was rejected, has no trace in the
\* other tables, although the writes of AcceptOffer and the offer INSERT look
\* at no status at all.
UnpublishedIsUntouched ==
  \A b \in BuyRequest :
    request[b].status \in {"none", "pending_approval", "rejected"} =>
      /\ request[b].offerCount = 0 /\ request[b].acceptedCount = 0 /\ request[b].fulfilled = 0
      /\ \A x \in Offers : x[1] # b
      /\ \A o \in OrderId : order[o].request # b

\* Every order rests on an offer for that very request which is flagged as
\* accepted and was made by somebody else than the owner, however acceptances,
\* cron passes and reverts overlap.
OrdersBackedByOffers ==
  \A o \in OrderId : order[o].status # "none" =>
    /\ <<order[o].request, order[o].seller>> \in Offers \cap accepted
    /\ order[o].seller # request[order[o].request].owner

\* A request that has to be met by one supplier is never met in part: no
\* sequence of offers, acceptances and reverts leaves it partially_fulfilled.
AllFromOneNeverPartial ==
  \A b \in BuyRequest : request[b].allFromOne => request[b].status # "partially_fulfilled"

\* A request counts as fulfilled only when its whole quantity was accepted,
\* although status, counters and flags are written by separate statements
\* whose errors are ignored.
FulfilledIsCovered ==
  \A b \in BuyRequest : request[b].status = "fulfilled" =>
    \E u \in User : <<b, u>> \in accepted /\ offered[<<b, u>>] >= request[b].quantity

\* Whoever is told that an order has expired is told the truth, although
\* CancelExpiredOrders does not look at how many rows CancelOrder changed.
ExpiredNoticeTruthful ==
  \A o \in OrderId : <<o, "order_expired">> \in told => order[o].status = "cancelled"

\* No offer is marked as not chosen while the owner could still choose it.
TurnedDownOnlyAfterWindow ==
  \A x \in notChosen : request[x[1]].endTime + SelectionWindow <= now

-----------------------------------------------------------------------------
(* The strengthening that makes the safety invariants inductive: what a    *)
(* call or the cron may still believe about rows it read earlier.          *)

Published(b) == request[b].status \notin {"none", "pending_approval", "rejected"}

\* Once the market is closed no statement opens it again.
MarketClosed(b) ==
  request[b].status \in {"pending_selection", "fulfilled", "partially_fulfilled",
                         "expired", "cancelled"}

\* Whoever must meet a request alone offers the whole of it.
WholeWhereAsked(b, n) == request[b].allFromOne => n = request[b].quantity

TablesConsistent ==
  /\ UnpublishedIsUntouched
  /\ OrdersBackedByOffers
  /\ AllFromOneNeverPartial
  /\ FulfilledIsCovered
  /\ accepted \subseteq Offers
  /\ \A x \in Offers : /\ x[2] # request[x[1]].owner
                       /\ WholeWhereAsked(x[1], offered[x])
  /\ \A x \in notChosen : MarketClosed(x[1])
  /\ \A o \in OrderId : order[o].status # "none" =>
       order[o].request \in BuyRequest /\ order[o].seller \in User
  /\ \A o \in OrderId : order[o].status = "none" => order[o].request = None
  /\ \A o \in OrderId, e \in OrderEvent : <<o, e>> \in told => order[o].status # "none"

\* What a call in state q may rely on.
CallOK(q) ==
  /\ q.step = "create" => q.user \in User
  /\ q.step \in {"offer_dup", "offer_insert", "offer_count"} =>
       /\ q.request \in BuyRequest /\ Published(q.request)
       /\ q.user \in User /\ q.user # request[q.request].owner
       /\ WholeWhereAsked(q.request, q.quantity)
  /\ q.step \in {"cancel_count", "cancel_write", "accept_offer"} =>
       q.request \in BuyRequest /\ Published(q.request)
  /\ q.step = "accept_flag" =>
       /\ q.request \in BuyRequest /\ q.user \in User
       /\ <<q.request, q.user>> \in Offers
       /\ q.quantity = offered[<<q.request, q.user>>]
  /\ q.step \in {"accept_count", "accept_fulfilled", "accept_status", "accept_order"} =>
       /\ q.request \in BuyRequest /\ q.user \in User
       /\ <<q.request, q.user>> \in accepted
       /\ q.quantity = offered[<<q.request, q.user>>]
  /\ q.step = "confirm_write" => q.order \in OrderId /\ order[q.order].status # "none"

CallsConsistent == \A c \in Call : CallOK(call[c])

CronConsistent ==
  /\ \A b \in cron.ended \cup cron.barren : Published(b)
  /\ \A b \in cron.lapsed : MarketClosed(b) /\ request[b].endTime + SelectionWindow <= now
  /\ cron.step = "mark" =>
       /\ cron.request \in BuyRequest /\ MarketClosed(cron.request)
       /\ request[cron.request].endTime + SelectionWindow <= now
  /\ \A o \in cron.overdue :
       order[o].status \in {"buyer_confirmed", "cancelled"} /\ order[o].deadline < now
  /\ cron.step = "revert" =>
       cron.order \in OrderId /\ order[cron.order].status = "cancelled"

IInv ==
  /\ TypeOK
  /\ TablesConsistent
  /\ TurnedDownOnlyAfterWindow
  /\ ExpiredNoticeTruthful
  /\ CallsConsistent
  /\ CronConsistent

\* Every offer the count shows, or a call is about to show, is in the table, and
\* what a call is about to insert is an offer of something.
Counting(b) == {c \in Call : call[c].step = "offer_count" /\ call[c].request = b}

CountsCovered ==
  /\ \A c \in Call : call[c].step \in {"offer_dup", "offer_insert"} => call[c].quantity > 0
  /\ \A b \in BuyRequest :
       request[b].offerCount + Cardinality(Counting(b)) <= Cardinality(OffersOn(b))

-----------------------------------------------------------------------------
(* Action properties.                                                      *)

\* The counters of a request are reset only with a cancelled order of that very
\* request, whatever confirmations, acceptances and passes overlap: the revert
\* does not look whether CancelOrder changed a row, but nobody can confirm an
\* order any more that a pass has read as overdue.  Of the other orders of the
\* request nothing is promised: see ConfirmedAcceptancesStay.
CountersClearedByCancellation ==
  [][\A b \in BuyRequest : request[b].acceptedCount > 0 /\ request'[b].acceptedCount = 0 =>
       \E o \in OrderId : order[o].request = b /\ order[o].status = "cancelled"]_vars

\* The orders of buy requests keep the promise of module Orders.
OrderPromise == INSTANCE Orders WITH
  status <- [o \in OrderId |-> IF order[o].status = "buyer_confirmed"
                                 THEN "awaiting" ELSE order[o].status],
  deadline <- [o \in OrderId |-> order[o].deadline],
  expiredNotice <- {o \in OrderId : <<o, "order_expired">> \in told}

\* Every step of the handlers and of the cron is a step of Orders or leaves
\* the orders alone: completed before the deadline or cancelled after it.
OrdersKeepPromise == OrderPromise!Spec

-----------------------------------------------------------------------------
(* Liveness.                                                               *)

\* A request whose time is up is taken off the market by the cron, whatever
\* a crash or a failing query lost of the pass that was working on it.
EndedRequestsLeaveMarket ==
  \A b \in BuyRequest :
    (request[b].status = "active" /\ request[b].endTime <= now) ~> request[b].status # "active"

\* No order outlives its deadline for ever: the fair form of the promise.
OrdersEventuallySettle == OrderPromise!FairSpec

-----------------------------------------------------------------------------
(* What the source says and the code does not keep.                        *)

\* "must be >0 and <= remaining open quantity": two accepted offers never ask
\* for more than the request needs.
AcceptedFitTogether ==
  \A b \in BuyRequest, u, v \in User :
    u # v /\ {<<b, u>>, <<b, v>>} \subseteq accepted =>
      offered[<<b, u>>] + offered[<<b, v>>] <= request[b].quantity

\* A Numeric must keep its exponent: what is stored as fulfilled is a part of
\* the quantity.
FulfilledWithinQuantity == \A b \in BuyRequest : request[b].fulfilled <= request[b].quantity

\* accepted_offer_count counts what was accepted: no acceptance whose order is
\* completed is taken out of it.  The revert of another order takes out all.
ConfirmedAcceptancesStay ==
  [][\A b \in BuyRequest : request[b].acceptedCount > 0 /\ request'[b].acceptedCount = 0 =>
       \A o \in OrderId : order[o].request = b => order[o].status # "completed"]_vars

\* An offer that is accepted cannot be accepted again: it has one order.
OneOrderPerOffer ==
  \A o, p \in OrderId :
    o # p /\ order[o].status # "none" /\ order[p].status # "none" =>
      <<order[o].request, order[o].seller>> # <<order[p].request, order[p].seller>>
=============================================================================
