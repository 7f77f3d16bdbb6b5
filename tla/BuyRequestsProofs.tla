------------------------- MODULE BuyRequestsProofs -------------------------
(***************************************************************************)
(* Proofs about BuyRequests, for every number of requests, users, orders,  *)
(* quantities and concurrent calls.  As for sell posts, what a call or the *)
(* cron remembers may be out of date, but what it relies on cannot become  *)
(* false: the request was published, its market is closed, an offer stands *)
(* at its quantity, an order is past its deadline and unconfirmed.         *)
(***************************************************************************)
EXTENDS BuyRequests, FiniteSetTheorems, TLAPS

LEMMA QuantitiesAreNumbers == Quantity \cup {0} \subseteq Nat
<1>1. Quantity \subseteq Nat \ {0}
  BY LimitsAssumption
<1> QED
  BY <1>1

\* The start: empty tables, nobody reading.
LEMMA InitIInv == Init => IInv
<1> SUFFICES ASSUME Init PROVE IInv
  OBVIOUS
<1>1. TypeOK
  <2>1. NoRequest \in RequestRow
    BY DEF NoRequest, RequestRow, RequestStatus
  <2>2. NoOrder \in OrderRow
    BY DEF NoOrder, OrderRow, OrderStatus
  <2>3. Idle \in CallState
    BY DEF Idle, CallState, CallStep
  <2>4. CronIdle \in CronState
    BY DEF CronIdle, CronState, CronStep
  <2> QED
    BY <2>1, <2>2, <2>3, <2>4 DEF Init, TypeOK
<1>2. Offers = {}
  BY DEF Init, Offers
<1>3. TablesConsistent
  BY <1>2, SetsAssumption DEF Init, TablesConsistent, UnpublishedIsUntouched,
     OrdersBackedByOffers, AllFromOneNeverPartial, FulfilledIsCovered, NoRequest, NoOrder
<1>4. TurnedDownOnlyAfterWindow /\ ExpiredNoticeTruthful
  BY DEF Init, TurnedDownOnlyAfterWindow, ExpiredNoticeTruthful
<1>5. CallsConsistent
  BY DEF Init, CallsConsistent, CallOK, Idle
<1>6. CronConsistent
  BY DEF Init, CronConsistent, CronIdle
<1> QED
  BY <1>1, <1>3, <1>4, <1>5, <1>6 DEF IInv

-----------------------------------------------------------------------------
(* Steps that leave the tables alone: what remains to be shown is about    *)
(* whoever takes the step.                                                 *)

\* A notice about a cancelled order.
NoticesAllowed ==
  told' \subseteq told \cup {o \in OrderId : order[o].status = "cancelled"} \X OrderEvent

LEMMA TablesUntouched ==
  ASSUME IInv, UNCHANGED tables, NoticesAllowed
  PROVE  TablesConsistent' /\ ExpiredNoticeTruthful' /\ told' \subseteq OrderId \X OrderEvent
<1>1. Offers' = Offers
  BY DEF Offers, tables
<1>2. UnpublishedIsUntouched' /\ OrdersBackedByOffers'
  BY <1>1 DEF IInv, TablesConsistent, UnpublishedIsUntouched, OrdersBackedByOffers, tables
<1>3. AllFromOneNeverPartial' /\ FulfilledIsCovered'
  BY DEF IInv, TablesConsistent, AllFromOneNeverPartial, FulfilledIsCovered, tables
<1>4. TablesConsistent'
  BY <1>1, <1>2, <1>3 DEF IInv, TablesConsistent, WholeWhereAsked, MarketClosed, tables,
     NoticesAllowed
<1>5. ExpiredNoticeTruthful'
  BY DEF IInv, ExpiredNoticeTruthful, tables, NoticesAllowed
<1>6. told' \subseteq OrderId \X OrderEvent
  BY DEF IInv, TypeOK, NoticesAllowed
<1> QED
  BY <1>4, <1>5, <1>6

LEMMA ReadingCall ==
  ASSUME IInv, UNCHANGED <<now, tables, told, cron, faults>>,
         call' \in [Call -> CallState], CallsConsistent'
  PROVE  IInv'
<1>1. TypeOK'
  BY DEF IInv, TypeOK, tables
<1>2. TablesConsistent' /\ ExpiredNoticeTruthful'
  BY TablesUntouched DEF NoticesAllowed
<1>3. TurnedDownOnlyAfterWindow'
  BY DEF IInv, TurnedDownOnlyAfterWindow, tables
<1>4. CronConsistent'
  BY DEF IInv, CronConsistent, Published, MarketClosed, tables
<1> QED
  BY <1>1, <1>2, <1>3, <1>4 DEF IInv

LEMMA ReadingCron ==
  ASSUME IInv, UNCHANGED <<now, tables, told, call, faults>>,
         cron' \in CronState, CronConsistent'
  PROVE  IInv'
<1>1. TypeOK'
  BY DEF IInv, TypeOK, tables
<1>2. TablesConsistent' /\ ExpiredNoticeTruthful'
  BY TablesUntouched DEF NoticesAllowed
<1>3. TurnedDownOnlyAfterWindow'
  BY DEF IInv, TurnedDownOnlyAfterWindow, tables
<1>4. CallsConsistent'
  BY DEF IInv, CallsConsistent, CallOK, Published, WholeWhereAsked, Offers, tables
<1> QED
  BY <1>1, <1>2, <1>3, <1>4 DEF IInv

-----------------------------------------------------------------------------
(* What no step ever undoes.  Whatever a call or the cron learnt from a    *)
(* row before, these facts about the row still hold when it comes to use   *)
(* them.                                                                   *)

NothingUndone ==
  /\ now <= now'
  /\ accepted \subseteq accepted'
  /\ \A x \in Offers : x \in Offers' /\ offered'[x] = offered[x]
  /\ \A b \in BuyRequest : Published(b) =>
       /\ Published(b)' /\ request'[b].owner = request[b].owner
       /\ request'[b].quantity = request[b].quantity
       /\ request'[b].allFromOne = request[b].allFromOne
  /\ \A b \in BuyRequest : MarketClosed(b) =>
       MarketClosed(b)' /\ request'[b].endTime = request[b].endTime
  /\ \A o \in OrderId : order[o].status # "none" =>
       /\ order'[o].status # "none"
       /\ order'[o].request = order[o].request /\ order'[o].seller = order[o].seller
       /\ order'[o].deadline = order[o].deadline
  /\ \A o \in OrderId : order[o].status = "cancelled" => order'[o].status = "cancelled"
  /\ \A o \in OrderId :
       order[o].status = "buyer_confirmed" /\ order'[o].status = "completed" =>
         now < order[o].deadline

LEMMA TablesKept ==
  ASSUME IInv, UNCHANGED <<now, tables>>
  PROVE  NothingUndone
  BY DEF IInv, TypeOK, NothingUndone, Published, MarketClosed, Offers, tables

\* A call whose own state does not change may rely on what it relied on.
LEMMA CallStillOK ==
  ASSUME IInv, NothingUndone, NEW q \in CallState, CallOK(q)
  PROVE  CallOK(q)'
<1>1. accepted \subseteq Offers
  BY DEF IInv, TablesConsistent
<1> QED
  BY <1>1 DEF NothingUndone, CallOK, CallState, WholeWhereAsked

\* A step of call c that leaves c in a state it may rely on.
LEMMA CallsAfter ==
  ASSUME IInv, NothingUndone, NEW c \in Call, NEW q \in CallState,
         call' = [call EXCEPT ![c] = q], CallOK(q)'
  PROVE  call' \in [Call -> CallState] /\ CallsConsistent'
<1>1. call' \in [Call -> CallState]
  BY DEF IInv, TypeOK
<1>2. ASSUME NEW p \in Call PROVE CallOK(call[p])'
  <2>1. CASE p = c
    <3>1. call'[p] = q
      BY <2>1 DEF IInv, TypeOK
    <3> QED
      BY <3>1 DEF CallOK
  <2>2. CASE p # c
    <3>1. PICK s \in CallState : s = call[p] /\ s = call'[p] /\ CallOK(s)
      BY <2>2 DEF IInv, TypeOK, CallsConsistent
    <3>2. CallOK(s)'
      BY <3>1, CallStillOK
    <3> QED
      BY <3>1, <3>2 DEF CallOK
  <2> QED
    BY <2>1, <2>2
<1> QED
  BY <1>1, <1>2 DEF CallsConsistent

LEMMA CallsAfterReturn ==
  ASSUME IInv, NothingUndone, NEW c \in Call, Return(c)
  PROVE  call' \in [Call -> CallState] /\ CallsConsistent'
<1>1. PICK q \in CallState : q = Idle
  BY DEF Idle, CallState, CallStep
<1>2. CallOK(q)'
  BY <1>1 DEF CallOK, Idle
<1> QED
  BY <1>1, <1>2, CallsAfter DEF Return

LEMMA CallsUnchanged ==
  ASSUME IInv, NothingUndone, UNCHANGED call
  PROVE  call' \in [Call -> CallState] /\ CallsConsistent'
<1>1. ASSUME NEW p \in Call PROVE CallOK(call[p])'
  <2>1. PICK s \in CallState : s = call[p] /\ s = call'[p] /\ CallOK(s)
    BY DEF IInv, TypeOK, CallsConsistent
  <2>2. CallOK(s)'
    BY <2>1, CallStillOK
  <2> QED
    BY <2>1, <2>2 DEF CallOK
<1> QED
  BY <1>1 DEF IInv, TypeOK, CallsConsistent

LEMMA CronStillOK ==
  ASSUME IInv, TypeOK', NothingUndone, UNCHANGED cron
  PROVE  CronConsistent'
  BY LimitsAssumption DEF IInv, TypeOK, CronConsistent, NothingUndone, MarketClosed,
     RequestRow, OrderRow, OrderStatus, CronState

-----------------------------------------------------------------------------
(* Steps of a call that only read.                                         *)

LEMMA CallReads ==
  ASSUME IInv, NEW c \in Call, NEW q \in CallState,
         call' = [call EXCEPT ![c] = q], CallOK(q),
         UNCHANGED <<now, tables, told, cron, faults>>
  PROVE  IInv'
<1>1. NothingUndone
  BY TablesKept
<1>2. CallOK(q)'
  BY <1>1, CallStillOK
<1> QED
  BY <1>1, <1>2, CallsAfter, ReadingCall

\* A handler that returns, or dies, leaves nothing behind to be wrong about.
LEMMA ReturnKeepsIInv ==
  ASSUME IInv, NEW c \in Call, Return(c), UNCHANGED <<now, tables, told, cron, faults>>
  PROVE  IInv'
<1>1. PICK q \in CallState : q = Idle
  BY DEF Idle, CallState, CallStep
<1>2. CallOK(q)
  BY <1>1 DEF CallOK, Idle
<1> QED
  BY <1>1, <1>2, CallReads DEF Return

\* The state a handler is in after Goto.
LEMMA Going ==
  ASSUME IInv, NEW c \in Call, NEW step \in CallStep
  PROVE  \E q \in CallState :
           /\ q = [call[c] EXCEPT !.step = step]
           /\ q.step = step /\ q.request = call[c].request /\ q.user = call[c].user
           /\ q.quantity = call[c].quantity
<1>1. call[c] \in CallState
  BY DEF IInv, TypeOK
<1>2. PICK q \in CallState : q = [call[c] EXCEPT !.step = step]
  BY <1>1 DEF CallState
<1>3. /\ q.step = step /\ q.request = call[c].request /\ q.user = call[c].user
      /\ q.quantity = call[c].quantity
  BY <1>1, <1>2 DEF CallState
<1> QED
  BY <1>2, <1>3

LEMMA CreateBeginKeepsIInv ==
  ASSUME IInv, NEW c \in Call, NEW u \in Buyer, NEW n \in Asked, NEW all \in BuyAllFromOne,
         CreateBegin(c, u, n, all)
  PROVE  IInv'
<1>1. now + AuctionDuration \in Nat /\ all \in BOOLEAN /\ n \in Quantity
  BY LimitsAssumption DEF IInv, TypeOK
<1>2. PICK q \in CallState :
        q = [Idle EXCEPT !.step = "create", !.user = u, !.quantity = n,
                         !.allFromOne = all, !.until = now + AuctionDuration]
  BY <1>1 DEF Idle, CallState, CallStep, User
<1>3. q.step = "create" /\ q.user \in User
  BY <1>2 DEF Idle, User
<1>4. CallOK(q)
  BY <1>3 DEF CallOK
<1> QED
  BY <1>2, <1>4, CallReads DEF CreateBegin

LEMMA PlaceOfferReadKeepsIInv ==
  ASSUME IInv, NEW c \in Call, NEW u \in Supplier, NEW b \in BuyRequest, NEW n \in Quantity,
         PlaceOfferRead(c, u, b, n)
  PROVE  IInv'
<1>1. PICK q \in CallState :
        q = [Idle EXCEPT !.step = "offer_dup", !.request = b, !.user = u, !.quantity = n]
  BY DEF Idle, CallState, CallStep, User
<1>2. q.step = "offer_dup" /\ q.request = b /\ q.user = u /\ q.quantity = n
  BY <1>1 DEF Idle
<1>3. Published(b) /\ u # request[b].owner /\ WholeWhereAsked(b, n)
  BY DEF PlaceOfferRead, Published, OfferFits, WholeWhereAsked
<1>4. CallOK(q)
  BY <1>2, <1>3 DEF CallOK, User
<1> QED
  BY <1>1, <1>4, CallReads DEF PlaceOfferRead

LEMMA PlaceOfferDuplicateCheckKeepsIInv ==
  ASSUME IInv, NEW c \in Call, PlaceOfferDuplicateCheck(c)
  PROVE  IInv'
<1>1. CASE Return(c)
  BY <1>1, ReturnKeepsIInv DEF PlaceOfferDuplicateCheck
<1>2. CASE Goto(c, "offer_insert")
  <2>1. PICK q \in CallState :
          /\ q = [call[c] EXCEPT !.step = "offer_insert"]
          /\ q.step = "offer_insert" /\ q.request = call[c].request /\ q.user = call[c].user
          /\ q.quantity = call[c].quantity
    BY Going DEF CallStep
  <2>2. CallOK(call[c]) /\ call[c].step = "offer_dup"
    BY DEF IInv, CallsConsistent, PlaceOfferDuplicateCheck
  <2>3. CallOK(q)
    BY <2>1, <2>2 DEF CallOK
  <2> QED
    BY <1>2, <2>1, <2>3, CallReads DEF Goto, PlaceOfferDuplicateCheck
<1> QED
  BY <1>1, <1>2 DEF PlaceOfferDuplicateCheck

LEMMA CancelReadsKeepIInv ==
  ASSUME IInv, NEW c \in Call,
         (\E u \in Buyer, b \in BuyRequest : CancelRead(c, u, b)) \/ CancelCount(c)
  PROVE  IInv'
<1>1. ASSUME NEW u \in Buyer, NEW b \in BuyRequest, CancelRead(c, u, b) PROVE IInv'
  <2>1. PICK q \in CallState :
          q = [Idle EXCEPT !.step = "cancel_count", !.request = b, !.user = u]
    BY DEF Idle, CallState, CallStep, User
  <2>2. q.step = "cancel_count" /\ q.request = b
    BY <2>1 DEF Idle
  <2>3. CallOK(q)
    BY <1>1, <2>2 DEF CallOK, CancelRead, Published
  <2> QED
    BY <1>1, <2>1, <2>3, CallReads DEF CancelRead
<1>2. CASE CancelCount(c) /\ Return(c)
  BY <1>2, ReturnKeepsIInv DEF CancelCount
<1>3. CASE CancelCount(c) /\ Goto(c, "cancel_write")
  <2>1. PICK q \in CallState :
          /\ q = [call[c] EXCEPT !.step = "cancel_write"]
          /\ q.step = "cancel_write" /\ q.request = call[c].request
    BY Going DEF CallStep
  <2>2. CallOK(call[c]) /\ call[c].step = "cancel_count"
    BY <1>3 DEF IInv, CallsConsistent, CancelCount
  <2>3. CallOK(q)
    BY <2>1, <2>2 DEF CallOK
  <2> QED
    BY <1>3, <2>1, <2>3, CallReads DEF Goto, CancelCount
<1> QED
  BY <1>1, <1>2, <1>3 DEF CancelCount

LEMMA AcceptReadsKeepIInv ==
  ASSUME IInv, NEW c \in Call, NEW u \in User, NEW b \in BuyRequest,
         AcceptRead(c, u, b) \/ AcceptReadOffer(c, b, u)
  PROVE  IInv'
<1>1. CASE AcceptRead(c, u, b)
  <2>1. PICK q \in CallState : q = [Idle EXCEPT !.step = "accept_offer", !.request = b]
    BY DEF Idle, CallState, CallStep
  <2>2. q.step = "accept_offer" /\ q.request = b
    BY <2>1 DEF Idle
  <2>3. CallOK(q)
    BY <1>1, <2>2 DEF CallOK, AcceptRead, Published
  <2> QED
    BY <1>1, <2>1, <2>3, CallReads DEF AcceptRead
<1>2. CASE AcceptReadOffer(c, b, u) /\ Return(c)
  BY <1>2, ReturnKeepsIInv DEF AcceptReadOffer
<1>3. CASE /\ AcceptReadOffer(c, b, u) /\ InRequest(b, c)
           /\ call' = [call EXCEPT ![c] = [@ EXCEPT !.step = "accept_flag", !.user = u,
                                                    !.quantity = offered[<<b, u>>]]]
  <2>1. call[c] \in CallState /\ offered[<<b, u>>] \in Quantity \cup {0}
    BY DEF IInv, TypeOK, Offer
  <2>2. PICK q \in CallState :
          q = [call[c] EXCEPT !.step = "accept_flag", !.user = u, !.quantity = offered[<<b, u>>]]
    BY <2>1 DEF CallState, CallStep
  <2>3. /\ q.step = "accept_flag" /\ q.user = u /\ q.request = call[c].request
        /\ q.quantity = offered[<<b, u>>]
    BY <2>1, <2>2 DEF CallState
  <2>4. <<b, u>> \in Offers /\ call[c].request = b
    BY <1>3 DEF AcceptReadOffer, InRequest
  <2>5. CallOK(q)
    BY <2>3, <2>4 DEF CallOK
  <2> QED
    BY <1>3, <2>2, <2>5, CallReads DEF IInv, TypeOK, AcceptReadOffer
<1> QED
  BY <1>1, <1>2, <1>3 DEF AcceptReadOffer

LEMMA ConfirmReadKeepsIInv ==
  ASSUME IInv, NEW c \in Call, NEW u \in User, NEW o \in OrderId, ConfirmRead(c, u, o)
  PROVE  IInv'
<1>1. PICK q \in CallState : q = [Idle EXCEPT !.step = "confirm_write", !.user = u, !.order = o]
  BY DEF Idle, CallState, CallStep
<1>2. q.step = "confirm_write" /\ q.order = o
  BY <1>1 DEF Idle
<1>3. CallOK(q)
  BY <1>2 DEF CallOK, ConfirmRead
<1> QED
  BY <1>1, <1>3, CallReads DEF ConfirmRead

-----------------------------------------------------------------------------
(* Writing one row of buy_requests, and perhaps announcing the end of a    *)
(* cancelled order.                                                        *)

WriteRow(b, row) ==
  /\ request' = [request EXCEPT ![b] = row]
  /\ NoticesAllowed
  /\ UNCHANGED <<now, offered, accepted, notChosen, order>>

\* What every statement that writes the row of request b respects.
RowAllowed(b, row) ==
  /\ Published(b) =>
       /\ row.status \notin {"none", "pending_approval", "rejected"}
       /\ row.owner = request[b].owner
       /\ row.quantity = request[b].quantity /\ row.allFromOne = request[b].allFromOne
  /\ MarketClosed(b) =>
       /\ row.status \in {"pending_selection", "fulfilled", "partially_fulfilled",
                          "expired", "cancelled"}
       /\ row.endTime = request[b].endTime
  /\ ~ Published(b) => row.offerCount = 0 /\ row.acceptedCount = 0 /\ row.fulfilled = 0
  /\ row.allFromOne => row.status # "partially_fulfilled"
  /\ row.status = "fulfilled" =>
       \E u \in User : <<b, u>> \in accepted /\ offered[<<b, u>>] >= row.quantity

LEMMA RowWritten ==
  ASSUME IInv, NEW b \in BuyRequest, NEW row \in RequestRow, RowAllowed(b, row), WriteRow(b, row)
  PROVE  /\ request' \in [BuyRequest -> RequestRow] /\ told' \subseteq OrderId \X OrderEvent
         /\ NothingUndone
         /\ TablesConsistent' /\ TurnedDownOnlyAfterWindow' /\ ExpiredNoticeTruthful'
<1>1. request' \in [BuyRequest -> RequestRow]
  BY DEF IInv, TypeOK, WriteRow
<1>2. request'[b] = row /\ \A d \in BuyRequest : d # b => request'[d] = request[d]
  BY DEF IInv, TypeOK, WriteRow
<1>3. \A d \in BuyRequest : Published(d) =>
        /\ Published(d)' /\ request'[d].owner = request[d].owner
        /\ request'[d].quantity = request[d].quantity
        /\ request'[d].allFromOne = request[d].allFromOne
  BY <1>2 DEF RowAllowed, Published
<1>4. \A d \in BuyRequest :
        MarketClosed(d) => MarketClosed(d)' /\ request'[d].endTime = request[d].endTime
  BY <1>2 DEF RowAllowed, MarketClosed
<1>5. now \in Nat /\ now <= now /\ Offers' = Offers
  BY DEF IInv, TypeOK, WriteRow, Offers
<1>6. NothingUndone
  BY <1>3, <1>4, <1>5 DEF WriteRow, NothingUndone
<1>7. UnpublishedIsUntouched'
  BY <1>2, <1>5 DEF IInv, TablesConsistent, UnpublishedIsUntouched, RowAllowed, WriteRow, Published
<1>8. /\ \A x \in Offers : x[1] \in BuyRequest /\ x[2] \in User
      /\ \A x \in notChosen : x[1] \in BuyRequest
  BY DEF IInv, TypeOK, Offers, Offer
<1>9. \A x \in Offers : Published(x[1])
  BY <1>8 DEF IInv, TablesConsistent, UnpublishedIsUntouched, Published
<1>10. \A o \in OrderId : order[o].status # "none" =>
         order[o].request \in BuyRequest /\ Published(order[o].request)
  BY DEF IInv, TablesConsistent, UnpublishedIsUntouched, Published
<1>11. OrdersBackedByOffers'
  BY <1>3, <1>5, <1>10 DEF IInv, TablesConsistent, OrdersBackedByOffers, WriteRow
<1>12. AllFromOneNeverPartial'
  BY <1>2 DEF IInv, TablesConsistent, AllFromOneNeverPartial, RowAllowed
<1>13. FulfilledIsCovered'
  BY <1>2 DEF IInv, TablesConsistent, FulfilledIsCovered, RowAllowed, WriteRow
<1>14. \A x \in Offers' : /\ x[2] # request'[x[1]].owner
                          /\ WholeWhereAsked(x[1], offered[x])'
  BY <1>3, <1>5, <1>8, <1>9 DEF IInv, TablesConsistent, WholeWhereAsked, WriteRow
<1>15. \A x \in notChosen' : MarketClosed(x[1])'
  BY <1>4, <1>8 DEF IInv, TablesConsistent, WriteRow
<1>16. TablesConsistent'
  BY <1>5, <1>7, <1>11, <1>12, <1>13, <1>14, <1>15 DEF IInv, TablesConsistent, WriteRow,
     NoticesAllowed
<1>17. told' \subseteq OrderId \X OrderEvent
  BY DEF IInv, TypeOK, WriteRow, NoticesAllowed
<1>18. TurnedDownOnlyAfterWindow'
  BY <1>4, <1>8 DEF IInv, TablesConsistent, TurnedDownOnlyAfterWindow, WriteRow
<1>19. ExpiredNoticeTruthful'
  BY DEF IInv, ExpiredNoticeTruthful, WriteRow, NoticesAllowed
<1> QED
  BY <1>1, <1>6, <1>16, <1>17, <1>18, <1>19

\* A handler writes a row and goes on, or returns.
LEMMA CallWritesRow ==
  ASSUME IInv, NEW c \in Call, NEW q \in CallState, NEW b \in BuyRequest,
         NEW row \in RequestRow, RowAllowed(b, row), WriteRow(b, row),
         call' = [call EXCEPT ![c] = q], CallOK(q), UNCHANGED <<cron, faults>>
  PROVE  IInv'
<1>1. /\ NothingUndone /\ request' \in [BuyRequest -> RequestRow]
      /\ told' \subseteq OrderId \X OrderEvent
  BY RowWritten
<1>2. CallOK(q)'
  BY <1>1, CallStillOK
<1>3. CallsConsistent' /\ call' \in [Call -> CallState]
  BY <1>1, <1>2, CallsAfter
<1>4. TypeOK'
  BY <1>1, <1>3 DEF IInv, TypeOK, WriteRow
<1>5. CronConsistent'
  BY <1>1, <1>4, CronStillOK
<1> QED
  BY <1>3, <1>4, <1>5, RowWritten DEF IInv

LEMMA CallWritesRowAndReturns ==
  ASSUME IInv, NEW c \in Call, NEW b \in BuyRequest, NEW row \in RequestRow,
         RowAllowed(b, row), WriteRow(b, row), Return(c), UNCHANGED <<cron, faults>>
  PROVE  IInv'
<1>1. PICK q \in CallState : q = Idle
  BY DEF Idle, CallState, CallStep
<1>2. CallOK(q)
  BY <1>1 DEF CallOK, Idle
<1> QED
  BY <1>1, <1>2, CallWritesRow DEF Return

\* An admin or the cron writes a row.
LEMMA OthersWriteRow ==
  ASSUME IInv, NEW b \in BuyRequest, NEW row \in RequestRow,
         RowAllowed(b, row), WriteRow(b, row), UNCHANGED <<call, faults>>,
         cron' \in CronState, CronConsistent'
  PROVE  IInv'
<1>1. /\ NothingUndone /\ request' \in [BuyRequest -> RequestRow]
      /\ told' \subseteq OrderId \X OrderEvent
  BY RowWritten
<1>2. CallsConsistent'
  BY <1>1, CallsUnchanged
<1>3. TypeOK'
  BY <1>1 DEF IInv, TypeOK, WriteRow
<1> QED
  BY <1>2, <1>3, RowWritten DEF IInv

LEMMA AdminWritesRow ==
  ASSUME IInv, NEW b \in BuyRequest, NEW row \in RequestRow,
         RowAllowed(b, row), WriteRow(b, row), UNCHANGED <<call, cron, faults>>
  PROVE  IInv'
<1>1. /\ NothingUndone /\ request' \in [BuyRequest -> RequestRow]
      /\ told' \subseteq OrderId \X OrderEvent
  BY RowWritten
<1>2. TypeOK'
  BY <1>1 DEF IInv, TypeOK, WriteRow
<1>3. CronConsistent' /\ cron' \in CronState
  BY <1>1, <1>2, CronStillOK DEF IInv, TypeOK
<1> QED
  BY <1>3, OthersWriteRow

-----------------------------------------------------------------------------
(* Handlers and admins that write a row of buy_requests.                   *)

LEMMA CreateInsertKeepsIInv ==
  ASSUME IInv, NEW c \in Call, NEW b \in BuyRequest, CreateInsert(c, b)
  PROVE  IInv'
<1>1. /\ call[c].user \in User \cup {None} /\ call[c].until \in Nat
      /\ call[c].quantity \in Quantity \cup {0} /\ call[c].allFromOne \in BOOLEAN
  BY DEF IInv, TypeOK, CallState
<1>2. PICK row : row = [status |-> InitialStatus, owner |-> call[c].user,
                        endTime |-> call[c].until, quantity |-> call[c].quantity,
                        allFromOne |-> call[c].allFromOne,
                        offerCount |-> 0, acceptedCount |-> 0, fulfilled |-> 0]
  OBVIOUS
<1>3. row \in RequestRow
  BY <1>1, <1>2 DEF RequestRow, RequestStatus, InitialStatus
<1>4. /\ row.offerCount = 0 /\ row.acceptedCount = 0 /\ row.fulfilled = 0
      /\ row.status \in {"pending_approval", "active"}
  BY <1>2 DEF InitialStatus
<1>5. RowAllowed(b, row)
  BY <1>4 DEF CreateInsert, RowAllowed, Published, MarketClosed
<1>6. request' = [request EXCEPT ![b] = row]
  BY <1>2 DEF CreateInsert
<1> QED
  BY <1>3, <1>5, <1>6, CallWritesRowAndReturns DEF CreateInsert, WriteRow, NoticesAllowed

\* A row that keeps its status, or is given another one, and whose counters
\* may have been raised.
LEMMA RowChanged ==
  ASSUME IInv, NEW b \in BuyRequest, NEW row \in RequestRow,
         row.owner = request[b].owner, row.quantity = request[b].quantity,
         row.allFromOne = request[b].allFromOne, row.endTime = request[b].endTime,
         \/ Published(b)
         \/ /\ row.offerCount = request[b].offerCount /\ row.fulfilled = request[b].fulfilled
            /\ row.acceptedCount = request[b].acceptedCount,
         \/ row.status = request[b].status
         \/ /\ row.status \notin {"fulfilled", "partially_fulfilled"}
            /\ Published(b) => row.status \notin {"none", "pending_approval", "rejected"}
            /\ MarketClosed(b) => row.status \in {"pending_selection", "expired", "cancelled"}
  PROVE  RowAllowed(b, row)
<1>1. /\ request[b].allFromOne => request[b].status # "partially_fulfilled"
      /\ request[b].status = "fulfilled" =>
           \E u \in User : <<b, u>> \in accepted /\ offered[<<b, u>>] >= request[b].quantity
  BY DEF IInv, TablesConsistent, AllFromOneNeverPartial, FulfilledIsCovered
<1>2. ~ Published(b) => /\ request[b].offerCount = 0 /\ request[b].acceptedCount = 0
                        /\ request[b].fulfilled = 0
  BY DEF IInv, TablesConsistent, UnpublishedIsUntouched, Published
<1> QED
  BY <1>1, <1>2 DEF RowAllowed, Published, MarketClosed

LEMMA PlaceOfferCountKeepsIInv ==
  ASSUME IInv, NEW c \in Call, PlaceOfferCount(c)
  PROVE  IInv'
<1>1. PICK b \in BuyRequest : b = call[c].request /\ Published(b)
  BY DEF IInv, CallsConsistent, CallOK, PlaceOfferCount
<1>2. request[b] \in RequestRow /\ request[b].offerCount + 1 \in Nat
  BY DEF IInv, TypeOK, RequestRow
<1>3. PICK row \in RequestRow : row = [request[b] EXCEPT !.offerCount = @ + 1]
  BY <1>2 DEF RequestRow
<1>4. /\ row.status = request[b].status /\ row.owner = request[b].owner
      /\ row.endTime = request[b].endTime /\ row.quantity = request[b].quantity
      /\ row.allFromOne = request[b].allFromOne
  BY <1>2, <1>3 DEF RequestRow
<1>5. RowAllowed(b, row)
  BY <1>1, <1>4, RowChanged
<1>6. request' = [request EXCEPT ![b] = row]
  BY <1>1, <1>3 DEF PlaceOfferCount
<1> QED
  BY <1>5, <1>6, CallWritesRowAndReturns DEF PlaceOfferCount, WriteRow, NoticesAllowed

\* UpdateBuyRequestStatus and its guarded relatives.
LEMMA StatusRow ==
  ASSUME IInv, NEW b \in BuyRequest,
         NEW status \in RequestStatus \ {"fulfilled", "partially_fulfilled"},
         Published(b) => status \notin {"none", "pending_approval", "rejected"},
         MarketClosed(b) => status \in {"pending_selection", "expired", "cancelled"}
  PROVE  \E row \in RequestRow :
           RowAllowed(b, row) /\ row = [request[b] EXCEPT !.status = status]
<1>1. request[b] \in RequestRow
  BY DEF IInv, TypeOK
<1>2. PICK row \in RequestRow : row = [request[b] EXCEPT !.status = status]
  BY <1>1 DEF RequestRow
<1>3. /\ row.status = status /\ row.owner = request[b].owner
      /\ row.endTime = request[b].endTime /\ row.quantity = request[b].quantity
      /\ row.allFromOne = request[b].allFromOne /\ row.offerCount = request[b].offerCount
      /\ row.fulfilled = request[b].fulfilled /\ row.acceptedCount = request[b].acceptedCount
  BY <1>1, <1>2 DEF RequestRow
<1>4. RowAllowed(b, row)
  BY <1>3, RowChanged
<1> QED
  BY <1>2, <1>4

LEMMA CancelWriteKeepsIInv ==
  ASSUME IInv, NEW c \in Call, CancelWrite(c)
  PROVE  IInv'
<1>1. PICK b \in BuyRequest : b = call[c].request
  BY DEF IInv, CallsConsistent, CallOK, CancelWrite
<1>2. CASE request[b].status \in {"active", "pending_approval"}
  <2>1. PICK row \in RequestRow :
          RowAllowed(b, row) /\ row = [request[b] EXCEPT !.status = "cancelled"]
    BY <1>2, StatusRow DEF RequestStatus
  <2>2. request' = [request EXCEPT ![b] = row]
    BY <1>1, <1>2, <2>1 DEF CancelWrite, UpdateStatus
  <2> QED
    BY <2>1, <2>2, CallWritesRowAndReturns DEF CancelWrite, WriteRow, NoticesAllowed
<1>3. CASE request[b].status \notin {"active", "pending_approval"}
  BY <1>1, <1>3, ReturnKeepsIInv DEF CancelWrite, tables
<1> QED
  BY <1>2, <1>3

LEMMA ModerationKeepsIInv ==
  ASSUME IInv, ModerationNext
  PROVE  IInv'
<1>1. PICK b \in BuyRequest : Approve(b) \/ Reject(b) \/ Suspend(b)
  BY DEF ModerationNext
<1>2. CASE Approve(b)
  <2>1. now + AuctionDuration \in Nat /\ request[b] \in RequestRow
    BY LimitsAssumption DEF IInv, TypeOK
  <2>2. PICK row \in RequestRow :
          row = [request[b] EXCEPT !.status = "active", !.endTime = now + AuctionDuration]
    BY <2>1 DEF RequestRow, RequestStatus
  <2>3. /\ row.status = "active" /\ row.owner = request[b].owner
        /\ row.quantity = request[b].quantity /\ row.allFromOne = request[b].allFromOne
        /\ row.offerCount = request[b].offerCount /\ row.fulfilled = request[b].fulfilled
        /\ row.acceptedCount = request[b].acceptedCount
    BY <2>1, <2>2 DEF RequestRow
  <2>4. RowAllowed(b, row)
    BY <1>2, <2>3 DEF IInv, TablesConsistent, UnpublishedIsUntouched, RowAllowed, Published,
       MarketClosed, Approve
  <2> QED
    BY <1>2, <2>2, <2>4, AdminWritesRow DEF Approve, FreshEndTime, WriteRow, NoticesAllowed
<1>3. CASE Reject(b)
  <2>1. PICK row \in RequestRow :
          RowAllowed(b, row) /\ row = [request[b] EXCEPT !.status = "rejected"]
    BY <1>3, StatusRow DEF Reject, Rejectable, Published, MarketClosed, RequestStatus
  <2> QED
    BY <1>3, <2>1, AdminWritesRow DEF Reject, UpdateStatus, WriteRow, NoticesAllowed
<1>4. CASE Suspend(b)
  <2>1. PICK row \in RequestRow :
          RowAllowed(b, row) /\ row = [request[b] EXCEPT !.status = "suspended"]
    BY <1>4, StatusRow DEF Suspend, Published, MarketClosed, RequestStatus
  <2> QED
    BY <1>4, <2>1, AdminWritesRow DEF Suspend, UpdateStatus, WriteRow, NoticesAllowed
<1> QED
  BY <1>1, <1>2, <1>3, <1>4

-----------------------------------------------------------------------------
(* The chain of writes of AcceptOffer.                                     *)

\* What a call knows once it has flagged an offer, and keeps as it goes on.
LEMMA AcceptGoesOn ==
  ASSUME IInv, NEW c \in Call,
         call[c].step \in {"accept_count", "accept_fulfilled", "accept_status"},
         NEW step \in {"accept_fulfilled", "accept_status", "accept_order"}
  PROVE  \E q \in CallState : q = [call[c] EXCEPT !.step = step] /\ CallOK(q)
<1>1. PICK q \in CallState :
        /\ q = [call[c] EXCEPT !.step = step]
        /\ q.step = step /\ q.request = call[c].request /\ q.user = call[c].user
        /\ q.quantity = call[c].quantity
  BY Going DEF CallStep
<1>2. CallOK(call[c])
  BY DEF IInv, CallsConsistent
<1>3. CallOK(q)
  BY <1>1, <1>2 DEF CallOK
<1> QED
  BY <1>1, <1>3

LEMMA AcceptedOffer ==
  ASSUME IInv, NEW c \in Call,
         call[c].step \in {"accept_count", "accept_fulfilled", "accept_status", "accept_order"}
  PROVE  \E b \in BuyRequest, u \in User :
           /\ b = call[c].request /\ u = call[c].user
           /\ <<b, u>> \in accepted /\ <<b, u>> \in Offers
           /\ call[c].quantity = offered[<<b, u>>] /\ offered[<<b, u>>] \in Nat
           /\ Published(b) /\ u # request[b].owner
           /\ WholeWhereAsked(b, offered[<<b, u>>])
<1>1. PICK b \in BuyRequest, u \in User :
        /\ b = call[c].request /\ u = call[c].user
        /\ <<b, u>> \in accepted /\ call[c].quantity = offered[<<b, u>>]
  BY DEF IInv, CallsConsistent, CallOK
<1>2. <<b, u>> \in Offers
  BY <1>1 DEF IInv, TablesConsistent
<1>3. offered[<<b, u>>] \in Nat
  <2>1. offered[<<b, u>>] \in Quantity \cup {0}
    BY DEF IInv, TypeOK, Offer
  <2> QED
    BY <2>1, QuantitiesAreNumbers
<1>4. Published(b)
  BY <1>2 DEF IInv, TablesConsistent, UnpublishedIsUntouched, Published
<1>5. u # request[b].owner /\ WholeWhereAsked(b, offered[<<b, u>>])
  <2>1. PICK x \in Offers : x = <<b, u>>
    BY <1>2
  <2> QED
    BY <2>1 DEF IInv, TablesConsistent
<1> QED
  BY <1>1, <1>2, <1>3, <1>4, <1>5

LEMMA AcceptCountersKeepIInv ==
  ASSUME IInv, NEW c \in Call, AcceptCount(c) \/ AcceptFulfilled(c)
  PROVE  IInv'
<1>1. PICK b \in BuyRequest, u \in User :
        /\ b = call[c].request /\ <<b, u>> \in Offers /\ Published(b)
        /\ call[c].quantity \in Nat
  BY AcceptedOffer DEF AcceptCount, AcceptFulfilled
<1>2. PICK q \in CallState :
        CallOK(q) /\ call' = [call EXCEPT ![c] = q] /\ UNCHANGED <<cron, faults>>
  <2>1. CASE AcceptCount(c)
    BY <2>1, AcceptGoesOn DEF AcceptCount, Goto
  <2>2. CASE AcceptFulfilled(c)
    BY <2>2, AcceptGoesOn DEF AcceptFulfilled, Goto
  <2> QED
    BY <2>1, <2>2
<1>3. CASE UNCHANGED request
  <2>1. UNCHANGED <<now, tables, told>>
    BY <1>3 DEF AcceptCount, AcceptFulfilled, tables
  <2> QED
    BY <1>2, <2>1, CallReads
<1>4. ASSUME NEW counted \in Nat, NEW met \in Nat,
             request' = [request EXCEPT ![b] = [@ EXCEPT !.acceptedCount = counted,
                                                         !.fulfilled = met]]
      PROVE  IInv'
  <2>1. request[b] \in RequestRow
    BY DEF IInv, TypeOK
  <2>2. PICK row \in RequestRow :
          row = [request[b] EXCEPT !.acceptedCount = counted, !.fulfilled = met]
    BY <2>1 DEF RequestRow
  <2>3. /\ row.status = request[b].status /\ row.owner = request[b].owner
        /\ row.endTime = request[b].endTime /\ row.quantity = request[b].quantity
        /\ row.allFromOne = request[b].allFromOne
    BY <2>1, <2>2 DEF RequestRow
  <2>4. RowAllowed(b, row)
    BY <1>1, <2>3, RowChanged
  <2>5. WriteRow(b, row)
    BY <1>4, <2>2 DEF IInv, TypeOK, AcceptCount, AcceptFulfilled, WriteRow, NoticesAllowed
  <2> QED
    BY <1>2, <2>4, <2>5, CallWritesRow
<1>5. request[b] \in RequestRow
  BY DEF IInv, TypeOK
<1>6. CASE AcceptCount(c) /\ request' = [request EXCEPT ![b].acceptedCount = @ + 1]
  <2>1. request[b].acceptedCount + 1 \in Nat /\ request[b].fulfilled \in Nat
    BY <1>5 DEF RequestRow
  <2>2. [request[b] EXCEPT !.acceptedCount = @ + 1]
          = [request[b] EXCEPT !.acceptedCount = request[b].acceptedCount + 1,
                               !.fulfilled = request[b].fulfilled]
    BY <1>5 DEF RequestRow
  <2> QED
    BY <1>4, <1>6, <2>1, <2>2 DEF IInv, TypeOK
<1>7. CASE /\ AcceptFulfilled(c)
           /\ request' = [request EXCEPT ![b].fulfilled = AcceptedSoFar + Coefficient(call[c].quantity)]
  <2>1. /\ request[b].acceptedCount \in Nat
        /\ AcceptedSoFar + Coefficient(call[c].quantity) \in Nat
    BY <1>1, <1>5 DEF RequestRow, AcceptedSoFar, Coefficient
  <2>2. PICK met \in Nat : met = AcceptedSoFar + Coefficient(call[c].quantity)
    BY <2>1
  <2>3. [request[b] EXCEPT !.fulfilled = met]
          = [request[b] EXCEPT !.acceptedCount = request[b].acceptedCount, !.fulfilled = met]
    BY <1>5 DEF RequestRow
  <2> QED
    BY <1>4, <1>7, <2>1, <2>2, <2>3 DEF IInv, TypeOK
<1> QED
  BY <1>1, <1>3, <1>6, <1>7 DEF AcceptCount, AcceptFulfilled

LEMMA AcceptStatusKeepsIInv ==
  ASSUME IInv, NEW c \in Call, AcceptStatus(c)
  PROVE  IInv'
<1>1. PICK b \in BuyRequest, u \in User :
        /\ b = call[c].request /\ u = call[c].user /\ <<b, u>> \in accepted
        /\ call[c].quantity = offered[<<b, u>>] /\ offered[<<b, u>>] \in Nat
        /\ Published(b) /\ WholeWhereAsked(b, offered[<<b, u>>])
  BY AcceptedOffer DEF AcceptStatus
<1>2. PICK q \in CallState : CallOK(q) /\ call' = [call EXCEPT ![c] = q]
  BY AcceptGoesOn DEF AcceptStatus, Goto
<1>3. CASE UNCHANGED request
  BY <1>2, <1>3, CallReads DEF AcceptStatus, tables
<1>4. ASSUME NEW status \in {"fulfilled", "partially_fulfilled"}, UpdateStatus(b, status),
             status = IF QuantityMet(call[c].quantity, request[b].quantity)
                        THEN "fulfilled" ELSE "partially_fulfilled"
      PROVE  IInv'
  <2>1. request[b] \in RequestRow /\ request[b].quantity \in Nat
    <3>1. request[b] \in RequestRow /\ request[b].quantity \in Quantity \cup {0}
      BY DEF IInv, TypeOK, RequestRow
    <3> QED
      BY <3>1, QuantitiesAreNumbers
  <2>2. PICK row \in RequestRow : row = [request[b] EXCEPT !.status = status]
    BY <2>1 DEF RequestRow, RequestStatus
  <2>3. /\ row.status = status /\ row.owner = request[b].owner
        /\ row.endTime = request[b].endTime /\ row.quantity = request[b].quantity
        /\ row.allFromOne = request[b].allFromOne
    BY <2>1, <2>2 DEF RequestRow
  <2>4. QuantityMet(offered[<<b, u>>], request[b].quantity)
          <=> offered[<<b, u>>] >= request[b].quantity
    BY <1>1, <2>1 DEF QuantityMet, AcceptedSoFar, Coefficient
  <2>5. status = "fulfilled" <=> offered[<<b, u>>] >= request[b].quantity
    BY <1>1, <1>4, <2>4
  <2>6. row.allFromOne => row.status = "fulfilled"
    BY <1>1, <2>1, <2>3, <2>5 DEF WholeWhereAsked
  <2>7. RowAllowed(b, row)
    BY <1>1, <1>4, <2>3, <2>5, <2>6 DEF RowAllowed
  <2>8. WriteRow(b, row)
    BY <1>4, <2>2 DEF AcceptStatus, UpdateStatus, WriteRow, NoticesAllowed
  <2> QED
    BY <1>2, <2>7, <2>8, CallWritesRow DEF AcceptStatus
<1> QED
  BY <1>1, <1>3, <1>4 DEF AcceptStatus

-----------------------------------------------------------------------------
(* Handlers that write supply_offers and orders.                           *)

\* A step of a call that undoes nothing and keeps the tables in order.
LEMMA CallStepKeepsIInv ==
  ASSUME IInv, NothingUndone, NEW c \in Call, NEW q \in CallState,
         call' = [call EXCEPT ![c] = q], CallOK(q)', UNCHANGED <<now, notChosen, cron, faults>>,
         request' \in [BuyRequest -> RequestRow], offered' \in [Offer -> Quantity \cup {0}],
         accepted' \subseteq Offer, order' \in [OrderId -> OrderRow],
         told' \subseteq OrderId \X OrderEvent,
         TablesConsistent', TurnedDownOnlyAfterWindow', ExpiredNoticeTruthful'
  PROVE  IInv'
<1>1. CallsConsistent' /\ call' \in [Call -> CallState]
  BY CallsAfter
<1>2. TypeOK'
  BY <1>1 DEF IInv, TypeOK
<1>3. CronConsistent'
  BY <1>2, CronStillOK
<1> QED
  BY <1>1, <1>2, <1>3 DEF IInv

LEMMA PlaceOfferInsertKeepsIInv ==
  ASSUME IInv, NEW c \in Call, PlaceOfferInsert(c)
  PROVE  IInv'
<1>1. PICK b \in BuyRequest, u \in User :
        /\ b = call[c].request /\ u = call[c].user /\ Published(b) /\ u # request[b].owner
        /\ WholeWhereAsked(b, call[c].quantity)
  BY DEF IInv, CallsConsistent, CallOK, PlaceOfferInsert
<1>2. CASE <<b, u>> \in Offers
  BY <1>1, <1>2, ReturnKeepsIInv DEF PlaceOfferInsert, AfterConflict, tables
<1>3. CASE <<b, u>> \notin Offers
  <2>1. offered' = [offered EXCEPT ![<<b, u>>] = call[c].quantity] /\ Goto(c, "offer_count")
    BY <1>1, <1>3 DEF PlaceOfferInsert
  <2>2. PICK q \in CallState :
          /\ q = [call[c] EXCEPT !.step = "offer_count"]
          /\ q.step = "offer_count" /\ q.request = call[c].request /\ q.user = call[c].user
          /\ q.quantity = call[c].quantity
    BY Going DEF CallStep
  <2>3. q.quantity \in Quantity \cup {0}
    BY DEF CallState
  <2>4. <<b, u>> \in Offer /\ offered \in [Offer -> Quantity \cup {0}]
    BY DEF Offer, IInv, TypeOK
  <2>5. /\ offered' \in [Offer -> Quantity \cup {0}]
        /\ offered'[<<b, u>>] = q.quantity
        /\ \A x \in Offer : x # <<b, u>> => offered'[x] = offered[x]
    BY <2>1, <2>2, <2>3, <2>4
  <2>6. Offers \subseteq Offers' /\ Offers' \subseteq Offers \cup {<<b, u>>}
    BY <1>3, <2>5 DEF Offers
  <2>7. \A x \in Offers : x # <<b, u>> /\ offered'[x] = offered[x]
    BY <1>3, <2>5 DEF Offers
  <2>8. NothingUndone
    BY <2>6, <2>7 DEF IInv, TypeOK, PlaceOfferInsert, NothingUndone, Published, MarketClosed
  <2>9. UnpublishedIsUntouched'
    <3>1. ASSUME NEW d \in BuyRequest, NEW x \in Offers',
                 request[d].status \in {"none", "pending_approval", "rejected"}
          PROVE  x[1] # d
      BY <1>1, <2>6, <3>1 DEF IInv, TablesConsistent, UnpublishedIsUntouched, Published
    <3> QED
      BY <3>1 DEF IInv, TablesConsistent, UnpublishedIsUntouched, PlaceOfferInsert
  <2>10. OrdersBackedByOffers' /\ AllFromOneNeverPartial'
    BY <2>6 DEF IInv, TablesConsistent, OrdersBackedByOffers, AllFromOneNeverPartial,
       PlaceOfferInsert
  <2>11. FulfilledIsCovered'
    <3>1. accepted \subseteq Offers
      BY DEF IInv, TablesConsistent
    <3> QED
      BY <2>7, <3>1 DEF IInv, TablesConsistent, FulfilledIsCovered, PlaceOfferInsert
  <2>12. \A x \in Offers' : x[2] # request[x[1]].owner /\ WholeWhereAsked(x[1], offered'[x])
    <3>1. ASSUME NEW x \in Offers
          PROVE  x[2] # request[x[1]].owner /\ WholeWhereAsked(x[1], offered'[x])
      BY <2>7, <3>1 DEF IInv, TablesConsistent
    <3>2. u # request[b].owner /\ WholeWhereAsked(b, offered'[<<b, u>>])
      BY <1>1, <2>2, <2>5
    <3> QED
      BY <2>6, <3>1, <3>2
  <2>13. TablesConsistent'
    BY <2>6, <2>9, <2>10, <2>11, <2>12 DEF IInv, TablesConsistent, WholeWhereAsked,
       MarketClosed, PlaceOfferInsert
  <2>14. TurnedDownOnlyAfterWindow' /\ ExpiredNoticeTruthful'
    BY DEF IInv, TurnedDownOnlyAfterWindow, ExpiredNoticeTruthful, PlaceOfferInsert
  <2>15. CallOK(q)'
    BY <1>1, <2>2 DEF CallOK, PlaceOfferInsert, Published, WholeWhereAsked
  <2>16. call' = [call EXCEPT ![c] = q]
    BY <2>1, <2>2 DEF Goto
  <2> QED
    BY <2>5, <2>8, <2>13, <2>14, <2>15, <2>16, CallStepKeepsIInv
       DEF IInv, TypeOK, PlaceOfferInsert
<1> QED
  BY <1>2, <1>3

LEMMA AcceptFlagKeepsIInv ==
  ASSUME IInv, NEW c \in Call, AcceptFlag(c)
  PROVE  IInv'
<1>1. PICK b \in BuyRequest, u \in User :
        /\ b = call[c].request /\ u = call[c].user /\ <<b, u>> \in Offers
        /\ call[c].quantity = offered[<<b, u>>]
  BY DEF IInv, CallsConsistent, CallOK, AcceptFlag
<1>2. accepted' = accepted \cup {<<b, u>>} /\ Offers' = Offers
  BY <1>1 DEF AcceptFlag, Offers
<1>3. NothingUndone
  BY <1>2 DEF IInv, TypeOK, AcceptFlag, NothingUndone, Published, MarketClosed
<1>4. UnpublishedIsUntouched' /\ OrdersBackedByOffers'
  BY <1>2 DEF IInv, TablesConsistent, UnpublishedIsUntouched, OrdersBackedByOffers, AcceptFlag
<1>5. AllFromOneNeverPartial' /\ FulfilledIsCovered'
  BY <1>2 DEF IInv, TablesConsistent, AllFromOneNeverPartial, FulfilledIsCovered, AcceptFlag
<1>6. TablesConsistent'
  BY <1>1, <1>2, <1>4, <1>5 DEF IInv, TablesConsistent, WholeWhereAsked, MarketClosed, AcceptFlag
<1>7. TurnedDownOnlyAfterWindow' /\ ExpiredNoticeTruthful'
  BY DEF IInv, TurnedDownOnlyAfterWindow, ExpiredNoticeTruthful, AcceptFlag
<1>8. PICK q \in CallState :
        /\ q = [call[c] EXCEPT !.step = "accept_count"]
        /\ q.step = "accept_count" /\ q.request = call[c].request /\ q.user = call[c].user
        /\ q.quantity = call[c].quantity
  BY Going DEF CallStep
<1>9. CallOK(q)'
  BY <1>1, <1>2, <1>8 DEF CallOK, AcceptFlag
<1>10. accepted' \subseteq Offer
  BY <1>2 DEF IInv, TypeOK, Offer
<1> QED
  BY <1>3, <1>6, <1>7, <1>8, <1>9, <1>10, CallStepKeepsIInv DEF IInv, TypeOK, AcceptFlag, Goto

LEMMA AcceptCreateOrderKeepsIInv ==
  ASSUME IInv, NEW c \in Call, NEW o \in OrderId, AcceptCreateOrder(c, o)
  PROVE  IInv'
<1>1. PICK b \in BuyRequest, u \in User :
        /\ b = call[c].request /\ u = call[c].user
        /\ <<b, u>> \in accepted /\ <<b, u>> \in Offers
        /\ Published(b) /\ u # request[b].owner
  BY AcceptedOffer DEF AcceptCreateOrder
<1>2. now + ConfirmWindow \in Nat
  BY LimitsAssumption DEF IInv, TypeOK
<1>3. PICK row \in OrderRow :
        row = [status |-> "buyer_confirmed", request |-> b, seller |-> u,
               deadline |-> now + ConfirmWindow]
  BY <1>2 DEF OrderRow, OrderStatus
<1>4. row.status = "buyer_confirmed" /\ row.request = b /\ row.seller = u
  BY <1>3
<1>5. order' = [order EXCEPT ![o] = row]
  BY <1>1, <1>3 DEF AcceptCreateOrder
<1>6. /\ order'[o] = row /\ \A p \in OrderId : p # o => order'[p] = order[p]
      /\ order' \in [OrderId -> OrderRow]
  BY <1>5 DEF IInv, TypeOK
<1>7. order[o].status = "none" /\ Offers' = Offers
  BY DEF AcceptCreateOrder, Offers
<1>8. NothingUndone
  BY <1>6, <1>7 DEF IInv, TypeOK, AcceptCreateOrder, NothingUndone, Published, MarketClosed
<1>9. UnpublishedIsUntouched'
  BY <1>1, <1>4, <1>6, <1>7 DEF IInv, TablesConsistent, UnpublishedIsUntouched, Published,
     AcceptCreateOrder
<1>10. OrdersBackedByOffers'
  <2>1. ASSUME NEW p \in OrderId, order'[p].status # "none"
        PROVE  /\ <<order'[p].request, order'[p].seller>> \in Offers \cap accepted
               /\ order'[p].seller # request[order'[p].request].owner
    <3>1. CASE p = o
      BY <1>1, <1>4, <1>6, <3>1
    <3>2. CASE p # o
      BY <1>6, <2>1, <3>2 DEF IInv, TablesConsistent, OrdersBackedByOffers
    <3> QED
      BY <3>1, <3>2
  <2> QED
    BY <1>7, <2>1 DEF OrdersBackedByOffers, AcceptCreateOrder
<1>11. AllFromOneNeverPartial' /\ FulfilledIsCovered'
  BY DEF IInv, TablesConsistent, AllFromOneNeverPartial, FulfilledIsCovered, AcceptCreateOrder
<1>12. TablesConsistent'
  BY <1>4, <1>6, <1>7, <1>9, <1>10, <1>11 DEF IInv, TablesConsistent, WholeWhereAsked,
     MarketClosed, AcceptCreateOrder
<1>13. TurnedDownOnlyAfterWindow'
  BY DEF IInv, TurnedDownOnlyAfterWindow, AcceptCreateOrder
<1>14. ExpiredNoticeTruthful'
  BY <1>6, <1>7 DEF IInv, ExpiredNoticeTruthful, AcceptCreateOrder
<1>15. PICK q \in CallState : q = Idle
  BY DEF Idle, CallState, CallStep
<1>16. CallOK(q)'
  BY <1>15 DEF CallOK, Idle
<1> QED
  BY <1>6, <1>8, <1>12, <1>13, <1>14, <1>15, <1>16, CallStepKeepsIInv
     DEF IInv, TypeOK, AcceptCreateOrder, Return

LEMMA ConfirmWriteKeepsIInv ==
  ASSUME IInv, NEW c \in Call, ConfirmWrite(c)
  PROVE  IInv'
<1>1. PICK o \in OrderId : o = call[c].order /\ order[o].status # "none"
  BY DEF IInv, CallsConsistent, CallOK, ConfirmWrite
<1>2. order' \in [OrderId -> OrderRow]
  BY <1>1 DEF IInv, TypeOK, ConfirmWrite, OrderRow, OrderStatus
<1>3. \A p \in OrderId :
        /\ order'[p].request = order[p].request /\ order'[p].seller = order[p].seller
        /\ order'[p].deadline = order[p].deadline
        /\ order'[p].status = order[p].status
           \/ /\ order[p].status = "buyer_confirmed" /\ order'[p].status = "completed"
              /\ now < order[p].deadline
  BY <1>1 DEF IInv, TypeOK, OrderRow, ConfirmWrite, Confirmable
<1>4. Offers' = Offers
  BY DEF ConfirmWrite, Offers
<1>5. NothingUndone
  <2>1. now \in Nat /\ now <= now
    BY DEF IInv, TypeOK
  <2>2. \A p \in OrderId : order[p].status = "cancelled" => order'[p].status = "cancelled"
    BY <1>3
  <2> QED
    BY <1>3, <1>4, <2>1, <2>2 DEF ConfirmWrite, NothingUndone, Published, MarketClosed
<1>6. told' = told \cup {<<o, "order_completed">>}
  BY <1>1 DEF ConfirmWrite
<1>7. UnpublishedIsUntouched' /\ OrdersBackedByOffers'
  BY <1>3, <1>4 DEF IInv, TablesConsistent, UnpublishedIsUntouched, OrdersBackedByOffers,
     ConfirmWrite
<1>8. AllFromOneNeverPartial' /\ FulfilledIsCovered'
  BY DEF IInv, TablesConsistent, AllFromOneNeverPartial, FulfilledIsCovered, ConfirmWrite
<1>9. TablesConsistent'
  BY <1>1, <1>3, <1>4, <1>6, <1>7, <1>8 DEF IInv, TablesConsistent, WholeWhereAsked,
     MarketClosed, ConfirmWrite
<1>10. TurnedDownOnlyAfterWindow'
  BY DEF IInv, TurnedDownOnlyAfterWindow, ConfirmWrite
<1>11. ExpiredNoticeTruthful'
  BY <1>3, <1>6 DEF IInv, ExpiredNoticeTruthful
<1>12. PICK q \in CallState : q = Idle
  BY DEF Idle, CallState, CallStep
<1>13. CallOK(q)'
  BY <1>12 DEF CallOK, Idle
<1>14. told' \subseteq OrderId \X OrderEvent
  BY <1>1, <1>6 DEF IInv, TypeOK, OrderEvent
<1> QED
  BY <1>2, <1>5, <1>9, <1>10, <1>11, <1>12, <1>13, <1>14, CallStepKeepsIInv
     DEF IInv, TypeOK, ConfirmWrite, Return

-----------------------------------------------------------------------------
(* The cron.                                                               *)

LEMMA CronReadKeepsIInv ==
  ASSUME IInv, ReadEnded \/ ReadLapsed \/ ReadOverdue
  PROVE  IInv'
<1>1. CASE ReadEnded
  <2>1. cron' \in CronState
    BY <1>1 DEF IInv, TypeOK, ReadEnded, Ended, CronState, CronStep
  <2>2. CronConsistent'
    BY <1>1 DEF IInv, TypeOK, CronState, ReadEnded, Ended, CronConsistent, Published,
       MarketClosed, tables
  <2> QED
    BY <1>1, <2>1, <2>2, ReadingCron DEF ReadEnded
<1>2. CASE ReadLapsed
  <2>1. cron' \in CronState
    BY <1>2 DEF IInv, TypeOK, ReadLapsed, Lapsed, CronState, CronStep
  <2>2. CronConsistent'
    BY <1>2 DEF IInv, TypeOK, CronState, ReadLapsed, Lapsed, CronConsistent, Published,
       MarketClosed, tables
  <2> QED
    BY <1>2, <2>1, <2>2, ReadingCron DEF ReadLapsed
<1>3. CASE ReadOverdue
  <2>1. cron' \in CronState
    BY <1>3 DEF IInv, TypeOK, ReadOverdue, Overdue, CronState, CronStep
  <2>2. CronConsistent'
    BY <1>3 DEF IInv, TypeOK, CronState, ReadOverdue, Overdue, CronConsistent, Published,
       MarketClosed, tables
  <2> QED
    BY <1>3, <2>1, <2>2, ReadingCron DEF ReadOverdue
<1> QED
  BY <1>1, <1>2, <1>3

LEMMA EndRequestKeepsIInv ==
  ASSUME IInv, NEW b \in BuyRequest, EndRequest(b)
  PROVE  IInv'
<1>1. PICK status \in {"pending_selection", "expired"} : UpdateStatus(b, status)
  BY DEF EndRequest
<1>2. PICK row \in RequestRow : RowAllowed(b, row) /\ row = [request[b] EXCEPT !.status = status]
  BY StatusRow DEF RequestStatus
<1>3. WriteRow(b, row)
  BY <1>1, <1>2 DEF EndRequest, UpdateStatus, WriteRow, NoticesAllowed
<1>4. NothingUndone
  BY <1>2, <1>3, RowWritten
<1>5. cron' \in CronState
  BY DEF IInv, TypeOK, EndRequest, CronState
<1>6. CronConsistent'
  BY <1>4 DEF IInv, TypeOK, CronState, CronConsistent, EndRequest, NothingUndone, MarketClosed
<1> QED
  BY <1>2, <1>3, <1>5, <1>6, OthersWriteRow DEF EndRequest

LEMMA CloseSelectionKeepsIInv ==
  ASSUME IInv, NEW b \in BuyRequest, CloseSelection(b)
  PROVE  IInv'
<1>1. PICK row \in RequestRow :
        RowAllowed(b, row) /\ row = [request[b] EXCEPT !.status = "expired"]
  BY StatusRow DEF RequestStatus
<1>2. WriteRow(b, row)
  BY <1>1 DEF CloseSelection, UpdateStatus, ClosedStatus, WriteRow, NoticesAllowed
<1>3. NothingUndone
  BY <1>1, <1>2, RowWritten
<1>4. cron' \in CronState
  BY DEF IInv, TypeOK, CloseSelection, CronState, CronStep
<1>5. CronConsistent'
  BY <1>3 DEF IInv, TypeOK, CronState, CronConsistent, CloseSelection, NothingUndone, MarketClosed
<1> QED
  BY <1>1, <1>2, <1>4, <1>5, OthersWriteRow DEF CloseSelection

LEMMA MarkNotChosenKeepsIInv ==
  ASSUME IInv, MarkNotChosen
  PROVE  IInv'
<1>1. Offers' = Offers
  BY DEF MarkNotChosen, Offers
<1>2. NothingUndone
  BY <1>1 DEF IInv, TypeOK, MarkNotChosen, NothingUndone, Published, MarketClosed
<1>3. CallsConsistent'
  BY <1>2, CallsUnchanged DEF MarkNotChosen
<1>4. cron' \in CronState
  BY DEF IInv, TypeOK, MarkNotChosen, CronState, CronStep
<1>5. TypeOK'
  BY <1>4 DEF IInv, TypeOK, MarkNotChosen, Offers
<1>6. UnpublishedIsUntouched' /\ OrdersBackedByOffers'
  BY <1>1 DEF IInv, TablesConsistent, UnpublishedIsUntouched, OrdersBackedByOffers, MarkNotChosen
<1>7. AllFromOneNeverPartial' /\ FulfilledIsCovered'
  BY DEF IInv, TablesConsistent, AllFromOneNeverPartial, FulfilledIsCovered, MarkNotChosen
<1>8. \A x \in notChosen' : MarketClosed(x[1]) /\ request[x[1]].endTime + SelectionWindow <= now
  BY DEF IInv, TablesConsistent, TurnedDownOnlyAfterWindow, CronConsistent, MarkNotChosen
<1>9. TablesConsistent'
  BY <1>1, <1>6, <1>7, <1>8 DEF IInv, TablesConsistent, WholeWhereAsked, MarketClosed, MarkNotChosen
<1>10. TurnedDownOnlyAfterWindow' /\ ExpiredNoticeTruthful'
  BY <1>8 DEF IInv, TurnedDownOnlyAfterWindow, ExpiredNoticeTruthful, MarkNotChosen
<1>11. CronConsistent'
  BY DEF IInv, TypeOK, CronState, CronConsistent, Published, MarketClosed, MarkNotChosen
<1> QED
  BY <1>3, <1>5, <1>9, <1>10, <1>11 DEF IInv

LEMMA CancelOrderKeepsIInv ==
  ASSUME IInv, NEW o \in OrderId, CancelOrder(o)
  PROVE  IInv'
<1>1. order' \in [OrderId -> OrderRow]
  BY DEF IInv, TypeOK, CancelOrder, OrderRow, OrderStatus
<1>2. \A p \in OrderId :
        /\ order'[p].request = order[p].request /\ order'[p].seller = order[p].seller
        /\ order'[p].deadline = order[p].deadline
        /\ order'[p].status = order[p].status
           \/ (order[p].status = "buyer_confirmed" /\ order'[p].status = "cancelled")
  BY DEF IInv, TypeOK, OrderRow, CancelOrder, Cancellable
<1>3. Offers' = Offers /\ now \in Nat /\ now <= now
  BY DEF IInv, TypeOK, CancelOrder, Offers
<1>4. NothingUndone
  BY <1>2, <1>3 DEF CancelOrder, NothingUndone, Published, MarketClosed
<1>5. order'[o].status = "cancelled"
  BY DEF IInv, TypeOK, OrderRow, CronConsistent, CancelOrder, Cancellable
<1>6. CallsConsistent'
  BY <1>4, CallsUnchanged DEF CancelOrder
<1>7. cron' \in CronState
  BY DEF IInv, TypeOK, CancelOrder, CronState, CronStep
<1>8. TypeOK'
  BY <1>1, <1>7 DEF IInv, TypeOK, CancelOrder
<1>9. UnpublishedIsUntouched' /\ OrdersBackedByOffers'
  BY <1>2, <1>3 DEF IInv, TablesConsistent, UnpublishedIsUntouched, OrdersBackedByOffers,
     CancelOrder
<1>10. AllFromOneNeverPartial' /\ FulfilledIsCovered'
  BY DEF IInv, TablesConsistent, AllFromOneNeverPartial, FulfilledIsCovered, CancelOrder
<1>11. TablesConsistent'
  BY <1>2, <1>3, <1>9, <1>10 DEF IInv, TablesConsistent, WholeWhereAsked, MarketClosed, CancelOrder
<1>12. TurnedDownOnlyAfterWindow'
  BY DEF IInv, TurnedDownOnlyAfterWindow, CancelOrder
<1>13. ExpiredNoticeTruthful'
  BY <1>2 DEF IInv, ExpiredNoticeTruthful, CancelOrder
<1>14. CronConsistent'
  <2>1. cron'.step = "revert" /\ cron'.order = o /\ cron'.overdue \subseteq cron.overdue
        /\ cron'.ended = cron.ended /\ cron'.barren = cron.barren /\ cron'.lapsed = cron.lapsed
    BY DEF IInv, TypeOK, CronState, CancelOrder
  <2> QED
    BY <1>2, <1>5, <2>1 DEF IInv, TypeOK, CronState, CronConsistent, Published, MarketClosed,
       CancelOrder
<1> QED
  BY <1>6, <1>8, <1>11, <1>12, <1>13, <1>14 DEF IInv

LEMMA RevertRequestKeepsIInv ==
  ASSUME IInv, RevertRequest
  PROVE  IInv'
<1>1. PICK o \in OrderId : o = cron.order /\ order[o].status = "cancelled"
  BY DEF IInv, CronConsistent, RevertRequest
<1>2. PICK b \in BuyRequest : b = order[o].request
  BY <1>1 DEF IInv, TablesConsistent
<1>3. request[b] \in RequestRow
  BY DEF IInv, TypeOK
<1>4. told' = told \cup {<<o, "order_expired">>}
  BY <1>1 DEF RevertRequest
<1>5. NoticesAllowed
  <2>1. <<o, "order_expired">> \in {p \in OrderId : order[p].status = "cancelled"} \X OrderEvent
    BY <1>1 DEF OrderEvent
  <2> QED
    BY <1>4, <2>1 DEF NoticesAllowed
<1>6. cron' \in CronState
  BY DEF IInv, TypeOK, RevertRequest, CronState, CronStep
<1>7. ASSUME NEW row \in RequestRow, RowAllowed(b, row), request' = [request EXCEPT ![b] = row]
      PROVE  IInv'
  <2>1. WriteRow(b, row)
    BY <1>5, <1>7 DEF RevertRequest, WriteRow
  <2>2. NothingUndone
    BY <1>7, <2>1, RowWritten
  <2>3. CronConsistent'
    BY <2>2 DEF IInv, TypeOK, CronState, CronConsistent, NothingUndone, MarketClosed, RevertRequest
  <2> QED
    BY <1>6, <1>7, <2>1, <2>3, OthersWriteRow DEF RevertRequest
<1>8. CASE request[b].status \in {"fulfilled", "partially_fulfilled"}
  <2>1. PICK row \in RequestRow :
          row = [request[b] EXCEPT !.status = "pending_selection",
                                   !.acceptedCount = 0, !.fulfilled = 0]
    BY <1>3 DEF RequestRow, RequestStatus
  <2>2. /\ row.status = "pending_selection" /\ row.owner = request[b].owner
        /\ row.endTime = request[b].endTime /\ row.quantity = request[b].quantity
        /\ row.allFromOne = request[b].allFromOne
    BY <1>3, <2>1 DEF RequestRow
  <2>3. RowAllowed(b, row)
    BY <1>8, <2>2, RowChanged DEF Published
  <2>4. request' = [request EXCEPT ![b] = row]
    BY <1>1, <1>2, <1>8, <2>1 DEF IInv, TypeOK, RevertRequest
  <2> QED
    BY <1>7, <2>3, <2>4
<1>9. CASE request[b].status \notin {"fulfilled", "partially_fulfilled"}
  <2>1. RowAllowed(b, request[b])
    BY <1>3, RowChanged
  <2>2. request' = [request EXCEPT ![b] = request[b]]
    BY <1>1, <1>2, <1>9 DEF IInv, TypeOK, RevertRequest
  <2> QED
    BY <1>3, <1>7, <2>1, <2>2
<1> QED
  BY <1>8, <1>9

\* An error of the cron loses work, never knowledge.
LEMMA FailureKeepsIInv ==
  ASSUME IInv, Fault, cron' \in CronState, CronConsistent', NoticesAllowed
  PROVE  IInv'
<1>1. NothingUndone
  BY TablesKept DEF Fault
<1>2. CallsConsistent'
  BY <1>1, CallsUnchanged DEF Fault
<1>3. TablesConsistent' /\ ExpiredNoticeTruthful' /\ told' \subseteq OrderId \X OrderEvent
  BY TablesUntouched DEF Fault
<1>4. TypeOK'
  BY <1>3 DEF IInv, TypeOK, Fault, tables
<1>5. TurnedDownOnlyAfterWindow'
  BY DEF IInv, TurnedDownOnlyAfterWindow, Fault, tables
<1> QED
  BY <1>2, <1>3, <1>4, <1>5 DEF IInv

LEMMA CronFailuresKeepIInv ==
  ASSUME IInv, ReadFails \/ WriteFails \/ RevertFails
  PROVE  IInv'
<1>1. UNCHANGED <<now, request, order>> /\ Fault
  BY DEF ReadFails, WriteFails, RevertFails, Fault, tables
<1>2. CASE ReadFails
  <2>1. cron' \in CronState /\ NoticesAllowed
    BY <1>2 DEF IInv, TypeOK, ReadFails, CronState, CronStep, NoticesAllowed
  <2>2. CronConsistent'
    BY <1>1, <1>2 DEF IInv, TypeOK, CronState, CronConsistent, Published, MarketClosed, ReadFails
  <2> QED
    BY <1>1, <2>1, <2>2, FailureKeepsIInv
<1>3. CASE WriteFails
  <2>1. NoticesAllowed
    BY <1>3 DEF WriteFails, NoticesAllowed
  <2>2. ASSUME NEW b \in cron.ended \cup cron.barren, cron.step = "end",
               cron' = [cron EXCEPT !.ended = @ \ {b}, !.barren = @ \ {b}]
        PROVE  cron' \in CronState /\ CronConsistent'
    <3>1. cron' \in CronState
      BY <2>2 DEF IInv, TypeOK, CronState
    <3>2. CronConsistent'
      BY <1>1, <2>2 DEF IInv, TypeOK, CronState, CronConsistent, Published, MarketClosed
    <3> QED
      BY <3>1, <3>2
  <2>3. ASSUME NEW b \in cron.lapsed, cron.step = "close",
               cron' = [cron EXCEPT !.step = "mark", !.lapsed = @ \ {b}, !.request = b]
        PROVE  cron' \in CronState /\ CronConsistent'
    <3>1. cron' \in CronState
      BY <2>3 DEF IInv, TypeOK, CronState, CronStep
    <3>2. CronConsistent'
      BY <1>1, <2>3 DEF IInv, TypeOK, CronState, CronConsistent, Published, MarketClosed
    <3> QED
      BY <3>1, <3>2
  <2>4. ASSUME cron' = [cron EXCEPT !.step = "close", !.request = None]
        PROVE  cron' \in CronState /\ CronConsistent'
    <3>1. cron' \in CronState
      BY <2>4 DEF IInv, TypeOK, CronState, CronStep
    <3>2. CronConsistent'
      BY <1>1, <2>4 DEF IInv, TypeOK, CronState, CronConsistent, Published, MarketClosed
    <3> QED
      BY <3>1, <3>2
  <2>5. ASSUME NEW o \in cron.overdue, cron.step = "cancel",
               cron' = [cron EXCEPT !.overdue = @ \ {o}]
        PROVE  cron' \in CronState /\ CronConsistent'
    <3>1. cron' \in CronState
      BY <2>5 DEF IInv, TypeOK, CronState
    <3>2. CronConsistent'
      BY <1>1, <2>5 DEF IInv, TypeOK, CronState, CronConsistent, Published, MarketClosed
    <3> QED
      BY <3>1, <3>2
  <2>6. cron' \in CronState /\ CronConsistent'
    BY <1>3, <2>2, <2>3, <2>4, <2>5 DEF WriteFails
  <2> QED
    BY <1>1, <2>1, <2>6, FailureKeepsIInv
<1>4. CASE RevertFails
  <2>1. cron' \in CronState
    BY <1>4 DEF IInv, TypeOK, RevertFails, CronState, CronStep
  <2>2. <<cron.order, "order_expired">> \in
          {o \in OrderId : order[o].status = "cancelled"} \X OrderEvent
    BY <1>4 DEF IInv, CronConsistent, RevertFails, OrderEvent
  <2>3. NoticesAllowed
    BY <1>4, <2>2 DEF RevertFails, NoticesAllowed
  <2>4. CronConsistent'
    BY <1>1, <1>4 DEF IInv, TypeOK, CronState, CronConsistent, Published, MarketClosed, RevertFails
  <2> QED
    BY <1>1, <2>1, <2>3, <2>4, FailureKeepsIInv
<1> QED
  BY <1>2, <1>3, <1>4

-----------------------------------------------------------------------------
(* The clock, a restart, and no step at all.                               *)

LEMMA TickKeepsIInv ==
  ASSUME IInv, Tick
  PROVE  IInv'
<1>1. now \in Nat /\ now' = now + 1
  BY DEF IInv, TypeOK, Tick
<1>2. NothingUndone
  BY <1>1 DEF Tick, tables, NothingUndone, Published, MarketClosed, Offers
<1>3. CallsConsistent'
  BY <1>2, CallsUnchanged DEF Tick
<1>4. TypeOK'
  BY <1>1 DEF IInv, TypeOK, Tick, tables
<1>5. CronConsistent'
  BY <1>2, <1>4, CronStillOK DEF Tick
<1>6. TablesConsistent' /\ ExpiredNoticeTruthful'
  BY TablesUntouched DEF Tick, NoticesAllowed
<1>7. TurnedDownOnlyAfterWindow'
  <2>1. \A x \in notChosen : request[x[1]].endTime + SelectionWindow \in Nat
    BY LimitsAssumption DEF IInv, TypeOK, RequestRow, Offer
  <2> QED
    BY <1>1, <2>1 DEF IInv, TurnedDownOnlyAfterWindow, Tick, tables
<1> QED
  BY <1>3, <1>4, <1>5, <1>6, <1>7 DEF IInv

LEMMA CrashKeepsIInv ==
  ASSUME IInv, Crash
  PROVE  IInv'
<1>1. Idle \in CallState /\ CronIdle \in CronState
  BY DEF Idle, CallState, CallStep, CronIdle, CronState, CronStep
<1>2. TypeOK'
  BY <1>1 DEF IInv, TypeOK, Crash, tables
<1>3. TablesConsistent' /\ ExpiredNoticeTruthful'
  BY TablesUntouched DEF Crash, NoticesAllowed
<1>4. TurnedDownOnlyAfterWindow'
  BY DEF IInv, TurnedDownOnlyAfterWindow, Crash, tables
<1>5. CallsConsistent'
  BY DEF Crash, CallsConsistent, CallOK, Idle
<1>6. CronConsistent'
  BY DEF Crash, CronConsistent, CronIdle
<1> QED
  BY <1>2, <1>3, <1>4, <1>5, <1>6 DEF IInv

LEMMA StutterKeepsIInv ==
  ASSUME IInv, UNCHANGED vars
  PROVE  IInv'
<1>1. NothingUndone
  BY TablesKept DEF vars, tables
<1>2. call' \in [Call -> CallState] /\ CallsConsistent'
  BY <1>1, CallsUnchanged DEF vars
<1> QED
  BY <1>2, ReadingCall DEF vars, tables

-----------------------------------------------------------------------------
(* The invariant.                                                          *)

LEMMA CallKeepsIInv ==
  ASSUME IInv, NEW c \in Call, CallNext(c)
  PROVE  IInv'
<1>1. ASSUME NEW u \in Buyer, NEW b \in BuyRequest, AcceptRead(c, u, b) PROVE IInv'
  BY <1>1, AcceptReadsKeepIInv DEF User
<1>2. CASE Abort(c)
  BY <1>2, ReturnKeepsIInv DEF Abort
<1> QED
  BY <1>1, <1>2, CreateBeginKeepsIInv, CreateInsertKeepsIInv, PlaceOfferReadKeepsIInv,
     PlaceOfferDuplicateCheckKeepsIInv, PlaceOfferInsertKeepsIInv, PlaceOfferCountKeepsIInv,
     CancelReadsKeepIInv, CancelWriteKeepsIInv, AcceptReadsKeepIInv, AcceptFlagKeepsIInv,
     AcceptCountersKeepIInv, AcceptStatusKeepsIInv, AcceptCreateOrderKeepsIInv,
     ConfirmReadKeepsIInv, ConfirmWriteKeepsIInv DEF CallNext

LEMMA NextKeepsIInv ==
  ASSUME IInv, [Next]_vars
  PROVE  IInv'
<1>1. ASSUME CronNext PROVE IInv'
  BY <1>1, CronReadKeepsIInv, EndRequestKeepsIInv, CloseSelectionKeepsIInv,
     MarkNotChosenKeepsIInv, CancelOrderKeepsIInv, RevertRequestKeepsIInv DEF CronNext
<1> QED
  BY <1>1, CallKeepsIInv, ModerationKeepsIInv, CronFailuresKeepIInv, TickKeepsIInv,
     CrashKeepsIInv, StutterKeepsIInv DEF Next

\* IInv is an inductive invariant: what calls and the cron rely on holds
\* whenever they come to use it.
THEOREM InductiveInvariant == Spec => []IInv
<1>1. Init => IInv
  BY InitIInv
<1>2. IInv /\ [Next]_vars => IInv'
  BY NextKeepsIInv
<1> QED
  BY <1>1, <1>2, PTL DEF Spec

\* Every row and every handler's state has its type.
THEOREM TypeCorrect == Spec => []TypeOK
<1>1. IInv => TypeOK
  BY DEF IInv
<1> QED
  BY <1>1, InductiveInvariant, PTL

\* A request in the approval queue, or rejected, has no offer, counter or order.
THEOREM UnpublishedUntouched == Spec => []UnpublishedIsUntouched
<1>1. IInv => UnpublishedIsUntouched
  BY DEF IInv, TablesConsistent
<1> QED
  BY <1>1, InductiveInvariant, PTL

\* No order without an accepted offer of somebody else for that very request.
THEOREM OrdersBacked == Spec => []OrdersBackedByOffers
<1>1. IInv => OrdersBackedByOffers
  BY DEF IInv, TablesConsistent
<1> QED
  BY <1>1, InductiveInvariant, PTL

\* A request that one supplier must meet is never met in part.
THEOREM NeverPartialAlone == Spec => []AllFromOneNeverPartial
<1>1. IInv => AllFromOneNeverPartial
  BY DEF IInv, TablesConsistent
<1> QED
  BY <1>1, InductiveInvariant, PTL

\* A fulfilled request has an accepted offer for its whole quantity.
THEOREM FulfilledCovered == Spec => []FulfilledIsCovered
<1>1. IInv => FulfilledIsCovered
  BY DEF IInv, TablesConsistent
<1> QED
  BY <1>1, InductiveInvariant, PTL

\* Only cancelled orders are announced as expired, and offers are turned down
\* only when the selection window is over.
THEOREM NoticesTrue == Spec => [](ExpiredNoticeTruthful /\ TurnedDownOnlyAfterWindow)
<1>1. IInv => ExpiredNoticeTruthful /\ TurnedDownOnlyAfterWindow
  BY DEF IInv
<1> QED
  BY <1>1, InductiveInvariant, PTL

-----------------------------------------------------------------------------
(***************************************************************************)
(* What a step may do: which step clears the counters of a request, and    *)
(* that the steps of the handlers and the cron are steps of Orders.        *)
(***************************************************************************)

\* Every statement that writes the buy_requests table.
RequestWrite ==
  \/ \E c \in Call : \/ \E b \in BuyRequest : CreateInsert(c, b)
                     \/ PlaceOfferCount(c) \/ CancelWrite(c)
                     \/ AcceptCount(c) \/ AcceptFulfilled(c) \/ AcceptStatus(c)
  \/ ModerationNext
  \/ \E b \in BuyRequest : EndRequest(b) \/ CloseSelection(b)
  \/ RevertRequest

LEMMA OnlyRequestWritesWrite ==
  ASSUME [Next]_vars, ~ RequestWrite
  PROVE  UNCHANGED request
<1>1. ASSUME NEW c \in Call, CallNext(c) PROVE UNCHANGED request
  BY <1>1 DEF RequestWrite, CallNext, CreateBegin, PlaceOfferRead, PlaceOfferDuplicateCheck,
     PlaceOfferInsert, CancelRead, CancelCount, AcceptRead, AcceptReadOffer, AcceptFlag,
     AcceptCreateOrder, ConfirmRead, ConfirmWrite, Abort, tables
<1>2. CASE CronNext
  BY <1>2 DEF RequestWrite, CronNext, ReadEnded, ReadLapsed, MarkNotChosen, ReadOverdue,
     CancelOrder, tables
<1>3. CASE ReadFails \/ WriteFails \/ RevertFails \/ Tick \/ Crash
  BY <1>3 DEF ReadFails, WriteFails, RevertFails, Fault, Tick, Crash, tables
<1>4. CASE UNCHANGED vars
  BY <1>4 DEF vars, tables
<1>5. CASE ModerationNext
  BY <1>5 DEF RequestWrite
<1> QED
  BY <1>1, <1>2, <1>3, <1>4, <1>5 DEF Next

-----------------------------------------------------------------------------
CountersKept ==
  \A b \in BuyRequest : request[b].acceptedCount > 0 /\ request'[b].acceptedCount = 0 =>
    \E o \in OrderId : order[o].request = b /\ order[o].status = "cancelled"

LEMMA StepsKeepCounters ==
  ASSUME IInv, [Next]_vars
  PROVE  CountersKept
<1>1. request \in [BuyRequest -> RequestRow]
  BY DEF IInv, TypeOK
<1>2. ASSUME NEW c \in Call, NEW b \in BuyRequest, CreateInsert(c, b) PROVE CountersKept
  <2>1. request[b].acceptedCount = 0
    BY <1>2 DEF IInv, TablesConsistent, UnpublishedIsUntouched, CreateInsert
  <2> QED
    BY <1>1, <1>2, <2>1 DEF CreateInsert, CountersKept
<1>3. ASSUME NEW c \in Call,
             PlaceOfferCount(c) \/ CancelWrite(c) \/ AcceptFulfilled(c) \/ AcceptStatus(c)
      PROVE  CountersKept
  BY <1>1, <1>3 DEF RequestRow, PlaceOfferCount, CancelWrite, AcceptFulfilled, AcceptStatus,
     UpdateStatus, CountersKept
<1>4. ASSUME NEW c \in Call, AcceptCount(c) PROVE CountersKept
  <2>1. PICK b \in BuyRequest : b = call[c].request
    BY <1>4, AcceptedOffer DEF AcceptCount
  <2>2. CASE request' = [request EXCEPT ![b].acceptedCount = @ + 1]
    <3>1. request[b].acceptedCount \in Nat
      BY <1>1 DEF RequestRow
    <3>2. request'[b].acceptedCount = request[b].acceptedCount + 1
      BY <1>1, <2>2 DEF RequestRow
    <3>3. \A d \in BuyRequest : d # b => request'[d] = request[d]
      BY <1>1, <2>2
    <3> QED
      BY <3>1, <3>2, <3>3 DEF CountersKept
  <2>3. CASE UNCHANGED request
    BY <2>3 DEF CountersKept
  <2> QED
    BY <1>4, <2>1, <2>2, <2>3 DEF AcceptCount
<1>5. ASSUME NEW b \in BuyRequest, Approve(b) \/ Reject(b) \/ Suspend(b) PROVE CountersKept
  <2>1. CASE Approve(b)
    BY <1>1, <2>1 DEF RequestRow, Approve, CountersKept
  <2>2. CASE Reject(b) \/ Suspend(b)
    BY <1>1, <2>2 DEF RequestRow, Reject, Suspend, UpdateStatus, CountersKept
  <2> QED
    BY <1>5, <2>1, <2>2
<1>6. ASSUME NEW b \in BuyRequest, EndRequest(b) \/ CloseSelection(b) PROVE CountersKept
  <2>1. PICK status \in RequestStatus : request' = [request EXCEPT ![b].status = status]
    BY <1>6 DEF EndRequest, CloseSelection, ClosedStatus, UpdateStatus, RequestStatus
  <2> QED
    BY <1>1, <2>1 DEF RequestRow, CountersKept
<1>7. CASE RevertRequest
  <2>1. cron.order \in OrderId /\ order[cron.order].status = "cancelled"
    BY <1>7 DEF IInv, CronConsistent, RevertRequest
  <2> QED
    BY <1>1, <1>7, <2>1 DEF RequestRow, RevertRequest, CountersKept
<1>8. CASE UNCHANGED request
  BY <1>8 DEF CountersKept
<1> QED
  BY <1>2, <1>3, <1>4, <1>5, <1>6, <1>7, <1>8, OnlyRequestWritesWrite
     DEF RequestWrite, ModerationNext

\* The counters of a request are cleared only after one of its orders was
\* cancelled.
THEOREM CountersCleared == Spec => CountersClearedByCancellation
<1>1. IInv /\ [Next]_vars => [CountersKept]_vars
  BY StepsKeepCounters
<1>2. Spec => [][CountersKept]_vars
  BY <1>1, InductiveInvariant, PTL DEF Spec
<1> QED
  BY <1>2 DEF CountersKept, CountersClearedByCancellation

-----------------------------------------------------------------------------
(* The orders of buy requests implement Orders.                              *)

Status   == [o \in OrderId |-> IF order[o].status = "buyer_confirmed"
                                 THEN "awaiting" ELSE order[o].status]
Deadline == [o \in OrderId |-> order[o].deadline]
Expired  == {o \in OrderId : <<o, "order_expired">> \in told}

\* A step that leaves the orders, the notices and the clock alone.
OrdersUntouched == UNCHANGED <<now, order, told>>

LEMMA UntouchedStutters ==
  ASSUME OrdersUntouched
  PROVE  UNCHANGED OrderPromise!vars
  BY DEF OrdersUntouched, OrderPromise!vars

LEMMA OrderPlaced ==
  ASSUME IInv, NEW c \in Call, NEW o \in OrderId, AcceptCreateOrder(c, o)
  PROVE  OrderPromise!Place(o)
<1>1. order \in [OrderId -> OrderRow]
  BY DEF IInv, TypeOK
<1>2. order[o].status = "none"
  BY DEF AcceptCreateOrder
<1>3. PICK row : /\ row.status = "buyer_confirmed" /\ row.deadline = now + ConfirmWindow
                 /\ order' = [order EXCEPT ![o] = row]
  BY DEF AcceptCreateOrder
<1>4. Status' = [Status EXCEPT ![o] = "awaiting"]
  BY <1>1, <1>3 DEF Status
<1>5. Deadline' = [Deadline EXCEPT ![o] = now + ConfirmWindow]
  BY <1>1, <1>3 DEF Deadline
<1>6. UNCHANGED <<now, Expired>>
  BY DEF AcceptCreateOrder, Expired
<1> QED
  BY <1>2, <1>4, <1>5, <1>6 DEF OrderPromise!Place, Status, Deadline, Expired

LEMMA OrderConfirmed ==
  ASSUME IInv, NEW c \in Call, ConfirmWrite(c)
  PROVE  UNCHANGED OrderPromise!vars \/ \E o \in OrderId : OrderPromise!Complete(o)
<1>1. PICK o \in OrderId : o = call[c].order
  BY DEF IInv, CallsConsistent, CallOK, ConfirmWrite
<1>2. order \in [OrderId -> OrderRow]
  BY DEF IInv, TypeOK
<1>3. Expired' = Expired
  BY DEF ConfirmWrite, Expired
<1>4. CASE Confirmable(o)
  <2>1. order' = [order EXCEPT ![o].status = "completed"]
    BY <1>1, <1>4 DEF ConfirmWrite
  <2>2. Status' = [Status EXCEPT ![o] = "completed"]
    BY <1>2, <2>1 DEF Status, OrderRow
  <2>3. Deadline' = Deadline
    BY <1>2, <2>1 DEF Deadline, OrderRow
  <2>4. Status[o] = "awaiting" /\ now < Deadline[o]
    BY <1>2, <1>4 DEF IInv, TypeOK, OrderRow, Confirmable, Status, Deadline
  <2> QED
    BY <1>3, <2>2, <2>3, <2>4 DEF ConfirmWrite, OrderPromise!Complete, Status, Deadline, Expired
<1>5. CASE ~ Confirmable(o)
  BY <1>1, <1>3, <1>5 DEF ConfirmWrite, OrderPromise!vars, Expired
<1> QED
  BY <1>4, <1>5

LEMMA OrderLapses ==
  ASSUME IInv, NEW o \in OrderId, CancelOrder(o)
  PROVE  UNCHANGED OrderPromise!vars \/ OrderPromise!Lapse(o)
<1>1. order \in [OrderId -> OrderRow]
  BY DEF IInv, TypeOK
<1>2. order[o].deadline < now
  BY DEF IInv, CronConsistent, CancelOrder
<1>3. CASE Cancellable(o)
  <2>1. order' = [order EXCEPT ![o].status = "cancelled"]
    BY <1>3 DEF CancelOrder
  <2>2. Status' = [Status EXCEPT ![o] = "cancelled"]
    BY <1>1, <2>1 DEF Status, OrderRow
  <2>3. Deadline' = Deadline
    BY <1>1, <2>1 DEF Deadline, OrderRow
  <2>4. Status[o] = "awaiting" /\ Deadline[o] < now
    BY <1>2, <1>3 DEF Cancellable, Status, Deadline
  <2>5. UNCHANGED <<now, Expired>>
    BY DEF CancelOrder, Expired
  <2> QED
    BY <2>2, <2>3, <2>4, <2>5 DEF OrderPromise!Lapse, Status, Deadline, Expired
<1>4. CASE ~ Cancellable(o)
  BY <1>4, UntouchedStutters DEF CancelOrder, OrdersUntouched
<1> QED
  BY <1>3, <1>4

LEMMA ExpiryAnnounced ==
  ASSUME IInv, RevertRequest \/ RevertFails
  PROVE  \E o \in OrderId : OrderPromise!AnnounceExpired(o)
<1>1. PICK o \in OrderId : o = cron.order /\ order[o].status = "cancelled"
  BY DEF IInv, CronConsistent, RevertRequest, RevertFails
<1>2. told' = told \cup {<<o, "order_expired">>} /\ UNCHANGED <<now, order>>
  BY <1>1 DEF RevertRequest, RevertFails, Fault, tables
<1>3. Expired' = Expired \cup {o}
  BY <1>2 DEF Expired
<1> QED
  BY <1>1, <1>2, <1>3 DEF OrderPromise!AnnounceExpired, Status, Deadline, Expired

LEMMA StepsAreOrderSteps ==
  ASSUME IInv, [Next]_vars
  PROVE  [OrderPromise!Next]_(OrderPromise!vars)
<1>1. ASSUME NEW c \in Call, CallNext(c) PROVE [OrderPromise!Next]_(OrderPromise!vars)
  <2>1. \/ OrdersUntouched \/ ConfirmWrite(c)
        \/ \E o \in OrderId : AcceptCreateOrder(c, o)
    BY <1>1 DEF OrdersUntouched, CallNext, CreateBegin, CreateInsert, PlaceOfferRead,
       PlaceOfferDuplicateCheck, PlaceOfferInsert, PlaceOfferCount, CancelRead, CancelCount,
       CancelWrite, AcceptRead, AcceptReadOffer, AcceptFlag, AcceptCount,
       AcceptFulfilled, AcceptStatus,
       ConfirmRead, Abort, tables
  <2> QED
    BY <2>1, UntouchedStutters, OrderConfirmed, OrderPlaced DEF OrderPromise!Next
<1>2. CASE CronNext
  <2>1. \/ OrdersUntouched \/ RevertRequest
        \/ \E o \in OrderId : CancelOrder(o)
    BY <1>2 DEF OrdersUntouched, CronNext, ReadEnded, EndRequest, ReadLapsed, CloseSelection,
       MarkNotChosen, ReadOverdue, tables
  <2> QED
    BY <2>1, UntouchedStutters, OrderLapses, ExpiryAnnounced DEF OrderPromise!Next
<1>3. CASE Tick
  BY <1>3 DEF Tick, tables, OrderPromise!Next, OrderPromise!Tick
<1>4. CASE RevertFails
  BY <1>4, ExpiryAnnounced DEF OrderPromise!Next
<1>5. CASE ModerationNext \/ ReadFails \/ WriteFails \/ Crash \/ UNCHANGED vars
  <2>1. OrdersUntouched
    BY <1>5 DEF OrdersUntouched, ModerationNext, Approve, Reject, Suspend, ReadFails,
       WriteFails, Fault, Crash, vars, tables
  <2> QED
    BY <2>1, UntouchedStutters
<1> QED
  BY <1>1, <1>2, <1>3, <1>4, <1>5 DEF Next

\* Orders of buy requests are completed before their deadline or cancelled after
\* it, and announced as expired only when cancelled.
THEOREM BuyOrdersImplementOrders == Spec => OrdersKeepPromise
<1>1. Init => OrderPromise!Init
  BY DEF Init, NoOrder, OrderPromise!Init
<1>2. IInv /\ [Next]_vars => [OrderPromise!Next]_(OrderPromise!vars)
  BY StepsAreOrderSteps
<1> QED
  BY <1>1, <1>2, InductiveInvariant, PTL DEF Spec, OrdersKeepPromise, OrderPromise!Spec

-----------------------------------------------------------------------------
(***************************************************************************)
(* The counter of a request and its offers: PlaceOffer inserts the row in  *)
(* one statement and counts it in another.                                 *)
(***************************************************************************)

\* Both sides of the comparison are numbers.
LEMMA CountsFinite ==
  ASSUME TypeOK, NEW b \in BuyRequest
  PROVE  /\ IsFiniteSet(Counting(b)) /\ Cardinality(Counting(b)) \in Nat
         /\ IsFiniteSet(OffersOn(b)) /\ Cardinality(OffersOn(b)) \in Nat
<1>1. IsFiniteSet(Counting(b))
  BY SetsAssumption, FS_Subset DEF Counting
<1>2. IsFiniteSet({b} \X User)
  BY SetsAssumption, FS_Singleton, FS_Product
<1>3. OffersOn(b) \in SUBSET ({b} \X User)
  BY DEF OffersOn, Offers, Offer
<1>4. IsFiniteSet(OffersOn(b))
  BY <1>2, <1>3, FS_Subset
<1> QED
  BY <1>1, <1>4, FS_CardinalityType

\* What the counter and the calls show, against what the table holds.
Covered(b) == request[b].offerCount + Cardinality(Counting(b)) <= Cardinality(OffersOn(b))

AsksForSomething == \A c \in Call : call[c].step \in {"offer_dup", "offer_insert"} => call[c].quantity > 0

\* No counter is raised, no offer goes, and no call comes to count one.
LEMMA NothingCounted ==
  ASSUME IInv, IInv', CountsCovered, NEW b \in BuyRequest,
         request'[b].offerCount <= request[b].offerCount,
         OffersOn(b)' = OffersOn(b), Counting(b)' \subseteq Counting(b)
  PROVE  Covered(b)'
<1>1. PICK S, T, S1 : S = Counting(b) /\ T = OffersOn(b) /\ S1 = Counting(b)'
  OBVIOUS
<1>2. IsFiniteSet(S) /\ Cardinality(S) \in Nat /\ Cardinality(T) \in Nat
  BY <1>1, CountsFinite DEF IInv
<1>3. IsFiniteSet(S1) /\ Cardinality(S1) \in Nat /\ Cardinality(S1) <= Cardinality(S)
  BY <1>1, <1>2, FS_Subset, FS_CardinalityType
<1>4. request[b].offerCount \in Nat /\ request'[b].offerCount \in Nat
  BY DEF IInv, TypeOK, RequestRow
<1>5. request[b].offerCount + Cardinality(S) <= Cardinality(T)
  BY <1>1 DEF CountsCovered
<1> QED
  BY <1>1, <1>2, <1>3, <1>4, <1>5 DEF Covered

\* A call that comes to count an offer has just inserted it.
LEMMA InsertCovered ==
  ASSUME IInv, IInv', CountsCovered, NEW c \in Call, PlaceOfferInsert(c)
  PROVE  CountsCovered'
<1>1. PICK b \in BuyRequest, u \in User : b = call[c].request /\ u = call[c].user
  BY DEF PlaceOfferInsert, IInv, CallsConsistent, CallOK
<1>2. PICK x \in Offer : x = <<b, u>>
  BY DEF Offer
<1>3. x[1] = b
  BY <1>2
<1>4. call[c].step = "offer_insert" /\ call[c].quantity > 0 /\ UNCHANGED request
  BY DEF PlaceOfferInsert, CountsCovered
<1>5. CASE x \in Offers
  <2>1. UNCHANGED offered /\ call' = [call EXCEPT ![c] = Idle]
    BY <1>1, <1>2, <1>5 DEF PlaceOfferInsert, AfterConflict, Return
  <2>2. AsksForSomething'
    BY <2>1 DEF AsksForSomething, CountsCovered, Idle, IInv, TypeOK
  <2>3. ASSUME NEW d \in BuyRequest PROVE Covered(d)'
    <3>1. Counting(d)' \subseteq Counting(d) /\ OffersOn(d)' = OffersOn(d)
      BY <2>1 DEF Counting, OffersOn, Offers, Idle, IInv, TypeOK
    <3>2. request'[d].offerCount <= request[d].offerCount
      BY <1>4 DEF IInv, TypeOK, RequestRow
    <3> QED
      BY <3>1, <3>2, NothingCounted
  <2> QED
    BY <2>2, <2>3 DEF CountsCovered, AsksForSomething, Covered
<1>6. CASE x \notin Offers
  <2>1. /\ offered' = [offered EXCEPT ![x] = call[c].quantity]
        /\ call' = [call EXCEPT ![c].step = "offer_count"]
    BY <1>1, <1>2, <1>6 DEF PlaceOfferInsert, Goto
  <2>2. AsksForSomething'
    BY <2>1 DEF AsksForSomething, CountsCovered, IInv, TypeOK, CallState
  <2>3. ASSUME NEW d \in BuyRequest PROVE Covered(d)'
    <3>1. PICK S, T : S = Counting(d) /\ T = OffersOn(d)
      OBVIOUS
    <3>2. /\ IsFiniteSet(S) /\ Cardinality(S) \in Nat /\ IsFiniteSet(T) /\ Cardinality(T) \in Nat
          /\ request[d].offerCount \in Nat /\ request'[d] = request[d]
      BY <1>4, <3>1, CountsFinite DEF IInv, TypeOK, RequestRow
    <3>3. request[d].offerCount + Cardinality(S) <= Cardinality(T)
      BY <3>1 DEF CountsCovered
    <3>4. Offers' = Offers \cup {x}
      BY <1>4, <2>1 DEF Offers, IInv, TypeOK
    <3>5. CASE d = b
      <4>1. Counting(d)' = S \cup {c} /\ c \notin S
        BY <1>1, <1>4, <2>1, <3>1, <3>5 DEF Counting, IInv, TypeOK, CallState
      <4>2. OffersOn(d)' = T \cup {x} /\ x \notin T
        BY <1>6, <1>3, <3>1, <3>4, <3>5 DEF OffersOn
      <4>3. /\ Cardinality(S \cup {c}) = Cardinality(S) + 1
            /\ Cardinality(T \cup {x}) = Cardinality(T) + 1
        BY <3>2, <4>1, <4>2, FS_AddElement
      <4> QED
        BY <3>2, <3>3, <4>1, <4>2, <4>3 DEF Covered
    <3>6. CASE d # b
      <4>1. Counting(d)' = S
        BY <1>1, <1>4, <2>1, <3>1, <3>6 DEF Counting, IInv, TypeOK, CallState
      <4>2. OffersOn(d)' = T
        BY <1>3, <3>1, <3>4, <3>6 DEF OffersOn
      <4> QED
        BY <3>2, <3>3, <4>1, <4>2 DEF Covered
    <3> QED
      BY <3>5, <3>6
  <2> QED
    BY <2>2, <2>3 DEF CountsCovered, AsksForSomething, Covered
<1> QED
  BY <1>5, <1>6

\* A call that has counted its offer is done with it.
LEMMA CountCovered ==
  ASSUME IInv, IInv', CountsCovered, NEW c \in Call, PlaceOfferCount(c)
  PROVE  CountsCovered'
<1>1. PICK b \in BuyRequest : b = call[c].request
  BY DEF PlaceOfferCount, IInv, CallsConsistent, CallOK
<1>2. /\ call[c].step = "offer_count" /\ UNCHANGED offered
      /\ request' = [request EXCEPT ![b].offerCount = @ + 1] /\ call' = [call EXCEPT ![c] = Idle]
  BY <1>1 DEF PlaceOfferCount, Return
<1>3. AsksForSomething'
  BY <1>2 DEF AsksForSomething, CountsCovered, Idle, IInv, TypeOK
<1>4. ASSUME NEW d \in BuyRequest PROVE Covered(d)'
  <2>1. PICK S, T : S = Counting(d) /\ T = OffersOn(d)
    OBVIOUS
  <2>2. /\ IsFiniteSet(S) /\ Cardinality(S) \in Nat /\ Cardinality(T) \in Nat
        /\ request[d] \in RequestRow /\ request[d].offerCount \in Nat
    BY <2>1, CountsFinite DEF IInv, TypeOK, RequestRow
  <2>3. request[d].offerCount + Cardinality(S) <= Cardinality(T) /\ OffersOn(d)' = T
    BY <1>2, <2>1 DEF CountsCovered, OffersOn, Offers
  <2>4. CASE d = b
    <3>1. Counting(d)' = S \ {c} /\ c \in S
      BY <1>1, <1>2, <2>1, <2>4 DEF Counting, IInv, TypeOK, Idle
    <3>2. Cardinality(S \ {c}) = Cardinality(S) - 1
      BY <2>2, <3>1, FS_RemoveElement
    <3>3. request'[d].offerCount = request[d].offerCount + 1
      BY <1>2, <2>2, <2>4 DEF IInv, TypeOK, RequestRow
    <3> QED
      BY <2>2, <2>3, <3>1, <3>2, <3>3 DEF Covered
  <2>5. CASE d # b
    <3>1. Counting(d)' = S /\ request'[d] = request[d]
      BY <1>1, <1>2, <2>1, <2>5 DEF Counting, IInv, TypeOK, Idle
    <3> QED
      BY <2>2, <2>3, <3>1 DEF Covered
  <2> QED
    BY <2>4, <2>5
<1> QED
  BY <1>3, <1>4 DEF CountsCovered, AsksForSomething, Covered

NoneCounted == \A b \in BuyRequest : request'[b].offerCount <= request[b].offerCount

\* The counter is written by the count and, with zero, by a new request.
LEMMA CounterWritten ==
  ASSUME IInv, [Next]_vars, \A c \in Call : ~PlaceOfferCount(c)
  PROVE  NoneCounted
<1>0. request \in [BuyRequest -> RequestRow] /\ \A b \in BuyRequest : request[b].offerCount \in Nat
  BY DEF IInv, TypeOK, RequestRow
<1>1. ASSUME UNCHANGED request PROVE NoneCounted
  BY <1>0, <1>1 DEF NoneCounted
<1>2. ASSUME NEW c \in Call, NEW b \in BuyRequest, CreateInsert(c, b) PROVE NoneCounted
  BY <1>0, <1>2 DEF CreateInsert, NoneCounted
<1>3. ASSUME NEW b \in BuyRequest, NEW s, UpdateStatus(b, s) PROVE NoneCounted
  BY <1>0, <1>3 DEF UpdateStatus, RequestRow, NoneCounted
<1>4. ASSUME NEW c \in Call, CancelWrite(c) \/ AcceptStatus(c) PROVE NoneCounted
  <2>1. call[c].request \in BuyRequest
    BY <1>4 DEF CancelWrite, AcceptStatus, IInv, CallsConsistent, CallOK
  <2> QED
    BY <1>1, <1>3, <1>4, <2>1 DEF CancelWrite, AcceptStatus
<1>5. ASSUME NEW c \in Call, AcceptCount(c) \/ AcceptFulfilled(c) PROVE NoneCounted
  BY <1>0, <1>5 DEF AcceptCount, AcceptFulfilled, RequestRow, NoneCounted
<1>6. ASSUME NEW b \in BuyRequest, Approve(b) PROVE NoneCounted
  BY <1>0, <1>6 DEF Approve, RequestRow, NoneCounted
<1>7. ASSUME NEW b \in BuyRequest, Reject(b) \/ Suspend(b) \/ EndRequest(b) \/ CloseSelection(b)
      PROVE  NoneCounted
  BY <1>3, <1>7 DEF Reject, Suspend, EndRequest, CloseSelection
<1>8. ASSUME RevertRequest PROVE NoneCounted
  BY <1>0, <1>8 DEF RevertRequest, RequestRow, NoneCounted
<1> QED
  BY <1>1, <1>2, <1>4, <1>5, <1>6, <1>7, <1>8, OnlyRequestWritesWrite DEF RequestWrite, ModerationNext

\* No statement but the insert sends a call to count an offer or adds one to
\* the table, and a call that asks for nothing does not come to insert it.
Counts(c) == call'[c].step = "offer_count" => call'[c] = call[c]

Asks(c) == call'[c].step \in {"offer_dup", "offer_insert"} => call'[c].quantity > 0

Sent == UNCHANGED offered /\ \A c \in Call : Counts(c) /\ Asks(c)

LEMMA CountingSent ==
  ASSUME IInv, CountsCovered, [Next]_vars, \A c \in Call : ~PlaceOfferInsert(c)
  PROVE  Sent
<1>0. call \in [Call -> CallState] /\ Idle.step = "idle"
  BY DEF IInv, TypeOK, Idle
<1>1. \A c \in Call : call'[c] = call[c] => Counts(c) /\ Asks(c)
  BY DEF Counts, Asks, CountsCovered
<1>2. ASSUME NEW c \in Call, CallNext(c) PROVE Sent
  <2>1. ASSUME NEW q, call' = [call EXCEPT ![c] = q], UNCHANGED offered,
               q.step # "offer_count", q.step \in {"offer_dup", "offer_insert"} => q.quantity > 0
        PROVE  Sent
    <3>1. call'[c] = q /\ \A p \in Call \ {c} : call'[p] = call[p]
      BY <1>0, <2>1
    <3>2. Counts(c) /\ Asks(c)
      BY <2>1, <3>1 DEF Counts, Asks
    <3> QED
      BY <1>1, <2>1, <3>1, <3>2 DEF Sent
  <2>2. ASSUME Return(c), UNCHANGED offered PROVE Sent
    BY <1>0, <2>1, <2>2 DEF Return
  <2>3. ASSUME NEW step \in CallStep \ {"offer_dup", "offer_insert", "offer_count"},
               Goto(c, step), UNCHANGED offered
        PROVE  Sent
    <3>1. call'[c].step = step /\ \A p \in Call \ {c} : call'[p] = call[p]
      BY <1>0, <2>3 DEF Goto, CallState
    <3>2. Counts(c) /\ Asks(c)
      BY <3>1 DEF Counts, Asks
    <3> QED
      BY <1>1, <2>3, <3>1, <3>2 DEF Sent
  <2>4. ASSUME NEW u \in Buyer, NEW n \in Asked, NEW all \in BuyAllFromOne, CreateBegin(c, u, n, all)
        PROVE  Sent
    <3>1. PICK q : q = [Idle EXCEPT !.step = "create", !.user = u, !.quantity = n,
                                    !.allFromOne = all, !.until = now + AuctionDuration]
      OBVIOUS
    <3>2. q.step = "create"
      BY <3>1 DEF Idle
    <3>3. call' = [call EXCEPT ![c] = q] /\ UNCHANGED offered
      BY <2>4, <3>1 DEF CreateBegin, tables
    <3> QED
      BY <2>1, <3>2, <3>3
  <2>5. ASSUME NEW u \in Supplier, NEW b \in BuyRequest, NEW n \in Quantity, PlaceOfferRead(c, u, b, n)
        PROVE  Sent
    <3>1. PICK q : q = [Idle EXCEPT !.step = "offer_dup", !.request = b, !.user = u, !.quantity = n]
      OBVIOUS
    <3>2. q.step = "offer_dup" /\ q.quantity = n
      BY <3>1 DEF Idle
    <3>3. n > 0
      BY LimitsAssumption
    <3>4. call' = [call EXCEPT ![c] = q] /\ UNCHANGED offered
      BY <2>5, <3>1 DEF PlaceOfferRead, tables
    <3> QED
      BY <2>1, <3>2, <3>3, <3>4
  <2>6. ASSUME NEW u \in Buyer, NEW b \in BuyRequest, CancelRead(c, u, b) \/ AcceptRead(c, u, b)
        PROVE  Sent
    <3>1. PICK q, r : /\ q = [Idle EXCEPT !.step = "cancel_count", !.request = b, !.user = u]
                      /\ r = [Idle EXCEPT !.step = "accept_offer", !.request = b]
      OBVIOUS
    <3>2. q.step = "cancel_count" /\ r.step = "accept_offer"
      BY <3>1 DEF Idle
    <3>3. call' = [call EXCEPT ![c] = q] \/ call' = [call EXCEPT ![c] = r]
      BY <2>6, <3>1 DEF CancelRead, AcceptRead
    <3>4. UNCHANGED offered
      BY <2>6 DEF CancelRead, AcceptRead, tables
    <3> QED
      BY <2>1, <3>2, <3>3, <3>4
  <2>7. ASSUME NEW u \in User, NEW o \in OrderId, ConfirmRead(c, u, o) PROVE Sent
    <3>1. PICK q : q = [Idle EXCEPT !.step = "confirm_write", !.user = u, !.order = o]
      OBVIOUS
    <3>2. q.step = "confirm_write"
      BY <3>1 DEF Idle
    <3>3. call' = [call EXCEPT ![c] = q] /\ UNCHANGED offered
      BY <2>7, <3>1 DEF ConfirmRead, tables
    <3> QED
      BY <2>1, <3>2, <3>3
  <2>8. ASSUME NEW b \in BuyRequest, NEW u \in User, AcceptReadOffer(c, b, u) PROVE Sent
    <3>1. UNCHANGED offered
      BY <2>8 DEF AcceptReadOffer, tables
    <3>2. ASSUME call' = [call EXCEPT ![c] = [@ EXCEPT !.step = "accept_flag", !.user = u,
                                                      !.quantity = offered[<<b, u>>]]]
          PROVE  Sent
      <4>1. call'[c].step = "accept_flag" /\ \A p \in Call \ {c} : call'[p] = call[p]
        BY <1>0, <3>2 DEF CallState
      <4>2. Counts(c) /\ Asks(c)
        BY <4>1 DEF Counts, Asks
      <4> QED
        BY <1>1, <3>1, <4>1, <4>2 DEF Sent
    <3> QED
      BY <2>2, <2>8, <3>1, <3>2 DEF AcceptReadOffer
  <2>9. ASSUME PlaceOfferDuplicateCheck(c) PROVE Sent
    <3>1. UNCHANGED offered /\ call[c].step = "offer_dup" /\ call[c].quantity > 0
      BY <2>9 DEF PlaceOfferDuplicateCheck, CountsCovered, tables
    <3>2. ASSUME Goto(c, "offer_insert") PROVE Sent
      <4>1. /\ call'[c].step = "offer_insert" /\ call'[c].quantity = call[c].quantity
            /\ \A p \in Call \ {c} : call'[p] = call[p]
        BY <1>0, <3>2 DEF Goto, CallState
      <4>2. Counts(c) /\ Asks(c)
        BY <3>1, <4>1 DEF Counts, Asks
      <4> QED
        BY <1>1, <3>1, <4>1, <4>2 DEF Sent
    <3> QED
      BY <2>2, <2>9, <3>1, <3>2 DEF PlaceOfferDuplicateCheck
  <2>10. ASSUME \/ PlaceOfferCount(c) \/ CancelCount(c) \/ CancelWrite(c) \/ ConfirmWrite(c) \/ Abort(c)
                \/ \E b \in BuyRequest : CreateInsert(c, b)
                \/ \E o \in OrderId : AcceptCreateOrder(c, o)
         PROVE  Sent
    <3>1. UNCHANGED offered
      BY <2>10 DEF PlaceOfferCount, CancelCount, CancelWrite, ConfirmWrite, Abort, CreateInsert,
         AcceptCreateOrder, tables
    <3>2. Return(c) \/ Goto(c, "cancel_write")
      BY <2>10 DEF PlaceOfferCount, CancelCount, CancelWrite, ConfirmWrite, Abort, CreateInsert,
         AcceptCreateOrder
    <3> QED
      BY <2>2, <2>3, <3>1, <3>2 DEF CallStep
  <2>11. ASSUME AcceptFlag(c) \/ AcceptCount(c) \/ AcceptFulfilled(c) \/ AcceptStatus(c) PROVE Sent
    <3>1. UNCHANGED offered
      BY <2>11 DEF AcceptFlag, AcceptCount, AcceptFulfilled, AcceptStatus
    <3>2. \E step \in {"accept_count", "accept_fulfilled", "accept_status", "accept_order"} : Goto(c, step)
      BY <2>11 DEF AcceptFlag, AcceptCount, AcceptFulfilled, AcceptStatus
    <3> QED
      BY <2>3, <3>1, <3>2 DEF CallStep
  <2> QED
    BY <1>2, <2>4, <2>5, <2>6, <2>7, <2>8, <2>9, <2>10, <2>11 DEF CallNext
<1>3. ASSUME UNCHANGED <<call, offered>> PROVE Sent
  BY <1>1, <1>3 DEF Sent
<1>4. ASSUME CronNext PROVE UNCHANGED <<call, offered>>
  BY <1>4 DEF CronNext, ReadEnded, EndRequest, ReadLapsed, CloseSelection, MarkNotChosen, ReadOverdue,
     CancelOrder, RevertRequest, tables
<1>5. ASSUME ModerationNext PROVE UNCHANGED <<call, offered>>
  BY <1>5 DEF ModerationNext, Approve, Reject, Suspend
<1>6. ASSUME ReadFails \/ WriteFails \/ RevertFails \/ Tick \/ UNCHANGED vars
      PROVE  UNCHANGED <<call, offered>>
  BY <1>6 DEF ReadFails, WriteFails, RevertFails, Fault, Tick, tables, vars
<1>7. ASSUME Crash PROVE Sent
  BY <1>0, <1>7 DEF Crash, tables, Sent, Counts, Asks
<1> QED
  BY <1>2, <1>3, <1>4, <1>5, <1>6, <1>7 DEF Next

\* The counter of a request never runs ahead of its offers, though the two are
\* written by separate statements.
THEOREM CounterNeverAhead == Spec => []OfferCountNeverAhead
<1>1. Init => CountsCovered
  <2> SUFFICES ASSUME Init PROVE CountsCovered
    OBVIOUS
  <2>1. ASSUME NEW b \in BuyRequest PROVE Covered(b)
    <3>1. Counting(b) = {} /\ OffersOn(b) = {} /\ request[b].offerCount = 0
      BY DEF Init, Counting, OffersOn, Offers, Idle, NoRequest
    <3> QED
      BY <3>1, FS_EmptySet DEF Covered
  <2> QED
    BY <2>1 DEF CountsCovered, Covered, Init, Idle
<1>2. IInv /\ IInv' /\ CountsCovered /\ [Next]_vars => CountsCovered'
  <2> SUFFICES ASSUME IInv, IInv', CountsCovered, [Next]_vars PROVE CountsCovered'
    OBVIOUS
  <2>1. CASE \E c \in Call : PlaceOfferInsert(c)
    BY <2>1, InsertCovered
  <2>2. CASE \E c \in Call : PlaceOfferCount(c)
    BY <2>2, CountCovered
  <2>3. CASE \A c \in Call : ~PlaceOfferInsert(c) /\ ~PlaceOfferCount(c)
    <3>1. NoneCounted /\ Sent
      BY <2>3, CounterWritten, CountingSent
    <3>2. ASSUME NEW b \in BuyRequest PROVE Covered(b)'
      <4>1. OffersOn(b)' = OffersOn(b) /\ Counting(b)' \subseteq Counting(b)
        BY <3>1 DEF OffersOn, Offers, Counting, Sent, Counts
      <4> QED
        BY <3>1, <4>1, NothingCounted DEF NoneCounted
    <3>3. AsksForSomething'
      BY <3>1 DEF AsksForSomething, Sent, Asks
    <3> QED
      BY <3>2, <3>3 DEF CountsCovered, Covered, AsksForSomething
  <2> QED
    BY <2>1, <2>2, <2>3
<1>3. IInv /\ CountsCovered => OfferCountNeverAhead
  <2> SUFFICES ASSUME IInv, CountsCovered, NEW b \in BuyRequest
               PROVE  request[b].offerCount <= Cardinality(OffersOn(b))
    BY DEF OfferCountNeverAhead
  <2>1. /\ Cardinality(Counting(b)) \in Nat /\ Cardinality(OffersOn(b)) \in Nat
        /\ request[b].offerCount \in Nat
    BY CountsFinite DEF IInv, TypeOK, RequestRow
  <2> QED
    BY <2>1 DEF CountsCovered
<1> QED
  BY <1>1, <1>2, <1>3, InductiveInvariant, PTL DEF Spec
=============================================================================
