---------------------------- MODULE SellAuctions ----------------------------
(***************************************************************************)
(* Sell posts of the auction platform: the sell_auctions, sell_bids and    *)
(* orders tables, the HTTP handlers that write them and the three passes   *)
(* of the minute cron that time them out.                                  *)
(*                                                                         *)
(* No handler opens a transaction, so every SQL statement commits by       *)
(* itself (SELECT ... FOR UPDATE releases its lock at once).  A handler is *)
(* therefore modelled as the sequence of its statements, one action each,  *)
(* and a request keeps in req[r] the values it read and still has to use.  *)
(* Requests interleave with each other, with the cron and with the clock.  *)
(***************************************************************************)
EXTENDS Naturals, FiniteSets

CONSTANTS
  Auction,           \* rows the sell_auctions table can hold
  OrderId,           \* rows the orders table can hold
  Request,           \* requests that may be served at the same time
  Seller,            \* users whose tier and role let them post
  Bidder,            \* users whose tier lets them bid
  AuctionDuration,   \* AUCTION_DURATION_HOURS
  SelectionWindow,   \* SELECTION_WINDOW_HOURS
  ConfirmWindow,     \* the 30 minutes of CreateOrderFromSellAuction
  MaxBidsPerAuction, \* MAX_BIDS_PER_AUCTION
  MaxCancellations,  \* the literal 3 in CancelSellAuction
  PostApproval,      \* POST_APPROVAL_ENABLED
  Horizon,           \* bound: the clock stops here
  MaxFaults,         \* bound: how often a cron statement fails or the process dies
  None               \* SQL NULL

User == Seller \cup Bidder

ASSUME SetsAssumption ==
  /\ IsFiniteSet(Request)
  /\ IsFiniteSet(User)
  /\ None \notin Auction \cup OrderId \cup User

ASSUME LimitsAssumption ==
  /\ AuctionDuration \in Nat /\ SelectionWindow \in Nat /\ ConfirmWindow \in Nat
  /\ MaxBidsPerAuction \in Nat /\ MaxCancellations \in Nat
  /\ Horizon \in Nat /\ MaxFaults \in Nat
  /\ PostApproval \in BOOLEAN

VARIABLES
  now,        \* the clock both Go and the database read
  auction,    \* sell_auctions: Auction -> row
  bids,       \* sell_bids, keyed by UNIQUE (auction_id, bidder_id)
  chosen,     \* the bids with is_selected
  notChosen,  \* the bids with is_not_chosen
  order,      \* orders: OrderId -> row
  told,       \* <<order, event>> for every order notification sent
  req,        \* the requests being served
  cron,       \* the cron goroutine: where it is and the rows it has read
  faults      \* how many faults there have been

tables == <<auction, bids, chosen, notChosen, order>>
vars   == <<now, auction, bids, chosen, notChosen, order, told, req, cron, faults>>

-----------------------------------------------------------------------------
AuctionStatus == {"none", "pending_approval", "active", "cancelled", "expired",
                  "pending_selection", "winner_selected", "rejected", "suspended"}
OrderStatus   == {"none", "seller_confirmed", "completed", "cancelled"}

AuctionRow == [status : AuctionStatus, owner : User \cup {None}, endTime : Nat,
               bidCount : Nat, winner : User \cup {None}]
OrderRow   == [status : OrderStatus, auction : Auction \cup {None},
               buyer : User \cup {None}, deadline : Nat]

RequestStep == {"idle", "create",
                "bid_dup", "bid_insert", "bid_count",
                "cancel_count", "cancel_write",
                "select_bid", "select_flag", "select_auction", "select_order",
                "confirm_write"}
RequestState == [step : RequestStep, auction : Auction \cup {None},
                 user : User \cup {None}, order : OrderId \cup {None}, until : Nat]

CronStep  == {"end", "close", "mark", "cancel", "revert"}
CronState == [step : CronStep, ended : SUBSET Auction, barren : SUBSET Auction,
              lapsed : SUBSET Auction, overdue : SUBSET OrderId,
              auction : Auction \cup {None}, order : OrderId \cup {None}]

OrderEvent == {"order_completed", "order_expired"}

TypeOK ==
  /\ now \in Nat
  /\ auction \in [Auction -> AuctionRow]
  /\ bids \subseteq Auction \X User
  /\ chosen \subseteq bids
  /\ notChosen \subseteq bids
  /\ order \in [OrderId -> OrderRow]
  /\ told \subseteq OrderId \X OrderEvent
  /\ req \in [Request -> RequestState]
  /\ cron \in CronState
  /\ faults \in Nat

-----------------------------------------------------------------------------
NoAuction == [status |-> "none", owner |-> None, endTime |-> 0,
              bidCount |-> 0, winner |-> None]
NoOrder   == [status |-> "none", auction |-> None, buyer |-> None, deadline |-> 0]
Idle      == [step |-> "idle", auction |-> None, user |-> None,
              order |-> None, until |-> 0]
CronIdle  == [step |-> "cancel", ended |-> {}, barren |-> {}, lapsed |-> {},
              overdue |-> {}, auction |-> None, order |-> None]

Init ==
  /\ now = 0
  /\ auction = [a \in Auction |-> NoAuction]
  /\ bids = {}
  /\ chosen = {}
  /\ notChosen = {}
  /\ order = [o \in OrderId |-> NoOrder]
  /\ told = {}
  /\ req = [r \in Request |-> Idle]
  /\ cron = CronIdle
  /\ faults = 0

Goto(r, step) == req' = [req EXCEPT ![r].step = step]
Return(r)     == req' = [req EXCEPT ![r] = Idle]

\* For the queries whose errors the handlers ignore.
QueryMayFail == MaxFaults > 0

\* UpdateSellAuctionStatus: by id alone, whatever the row's status is by now.
UpdateStatus(a, status) == auction' = [auction EXCEPT ![a].status = status]

-----------------------------------------------------------------------------
(* CreateSellAuction: end_time is computed before the checks, the row is   *)
(* written after them.                                                     *)

CreateBegin(r, u) ==
  /\ req[r].step = "idle"
  /\ req' = [req EXCEPT ![r] = [Idle EXCEPT !.step = "create", !.user = u,
                                            !.until = now + AuctionDuration]]
  /\ UNCHANGED <<now, tables, told, cron, faults>>

InitialStatus == IF PostApproval THEN "pending_approval" ELSE "active"

CreateInsert(r, a) ==
  /\ req[r].step = "create"
  /\ auction[a].status = "none"
  /\ auction' = [auction EXCEPT ![a] = [NoAuction EXCEPT !.status = InitialStatus,
                                                         !.owner = req[r].user,
                                                         !.endTime = req[r].until]]
  /\ Return(r)
  /\ UNCHANGED <<now, bids, chosen, notChosen, order, told, cron, faults>>

-----------------------------------------------------------------------------
(* PlaceBid.  The auction row is read once, at the start.                  *)

PlaceBidRead(r, u, a) ==
  /\ req[r].step = "idle"
  /\ auction[a].status = "active"
  /\ ~ (auction[a].endTime < now)
  /\ auction[a].owner # u
  /\ auction[a].bidCount < MaxBidsPerAuction
  /\ req' = [req EXCEPT ![r] = [Idle EXCEPT !.step = "bid_dup", !.auction = a, !.user = u]]
  /\ UNCHANGED <<now, tables, told, cron, faults>>

\* GetByAuctionAndBidder: a bid of this user already there is ErrAlreadyBid;
\* any error of the query, not only "no rows", lets the handler go on.
PlaceBidDuplicateCheck(r) ==
  /\ req[r].step = "bid_dup"
  /\ \/ <<req[r].auction, req[r].user>> \in bids /\ Return(r)
     \/ (<<req[r].auction, req[r].user>> \notin bids \/ QueryMayFail) /\ Goto(r, "bid_insert")
  /\ UNCHANGED <<now, tables, told, cron, faults>>

\* Variant: the unique violation is swallowed and the handler goes on.
AfterConflictIgnored(r) == Goto(r, "bid_count")

AfterConflict(r) == Return(r)

\* The INSERT looks at nothing but the unique key.
PlaceBidInsert(r) ==
  LET bid == <<req[r].auction, req[r].user>> IN
  /\ req[r].step = "bid_insert"
  /\ IF bid \in bids
       THEN AfterConflict(r) /\ UNCHANGED bids
       ELSE Goto(r, "bid_count") /\ bids' = bids \cup {bid}
  /\ UNCHANGED <<now, auction, chosen, notChosen, order, told, cron, faults>>

PlaceBidCount(r) ==
  /\ req[r].step = "bid_count"
  /\ auction' = [auction EXCEPT ![req[r].auction].bidCount = @ + 1]
  /\ Return(r)
  /\ UNCHANGED <<now, bids, chosen, notChosen, order, told, cron, faults>>

-----------------------------------------------------------------------------
(* CancelSellAuction.                                                      *)

CancelRead(r, u, a) ==
  /\ req[r].step = "idle"
  /\ auction[a].owner = u
  /\ auction[a].status = "active"
  /\ auction[a].bidCount = 0
  /\ req' = [req EXCEPT ![r] = [Idle EXCEPT !.step = "cancel_count", !.auction = a, !.user = u]]
  /\ UNCHANGED <<now, tables, told, cron, faults>>

\* CountMonthlySellCancellations; the whole horizon lies in one month.
Cancelled(u) == {a \in Auction : auction[a].owner = u /\ auction[a].status = "cancelled"}

\* An error of the count is dropped and reads as zero.
CancelCount(r) ==
  /\ req[r].step = "cancel_count"
  /\ \/ Cardinality(Cancelled(req[r].user)) >= MaxCancellations /\ Return(r)
     \/ /\ Cardinality(Cancelled(req[r].user)) < MaxCancellations \/ QueryMayFail
        /\ Goto(r, "cancel_write")
  /\ UNCHANGED <<now, tables, told, cron, faults>>

\* Variant: the UPDATE goes by the row it read, as UpdateSellAuctionStatus does.
WithdrawableById(a) == auction[a].status # "none"

\* The WHERE clause of CancelSellAuction.
Withdrawable(a) == auction[a].status \in {"active", "pending_approval"}

CancelWrite(r) ==
  LET a == req[r].auction IN
  /\ req[r].step = "cancel_write"
  /\ IF Withdrawable(a)
       THEN UpdateStatus(a, "cancelled")
       ELSE UNCHANGED auction
  /\ Return(r)
  /\ UNCHANGED <<now, bids, chosen, notChosen, order, told, cron, faults>>

-----------------------------------------------------------------------------
(* SelectWinner.  The row lock of GetByPublicIDForUpdate ends with the     *)
(* statement, so nothing holds the row between the checks and the writes.  *)

SelectRead(r, u, a) ==
  /\ req[r].step = "idle"
  /\ auction[a].owner = u
  /\ auction[a].status \in {"pending_selection", "active"}
  /\ ~ (now > auction[a].endTime + SelectionWindow)
  /\ req' = [req EXCEPT ![r] = [Idle EXCEPT !.step = "select_bid", !.auction = a]]
  /\ UNCHANGED <<now, tables, told, cron, faults>>

InAuction(a, r) == a = req[r].auction

\* The caller names any bid; one of another auction is BID_NOT_IN_AUCTION.
SelectReadBid(r, u, a) ==
  /\ req[r].step = "select_bid"
  /\ <<a, u>> \in bids
  /\ IF InAuction(a, r)
       THEN req' = [req EXCEPT ![r] = [@ EXCEPT !.step = "select_flag", !.user = u]]
       ELSE Return(r)
  /\ UNCHANGED <<now, tables, told, cron, faults>>

SelectFlagBid(r) ==
  /\ req[r].step = "select_flag"
  /\ chosen' = chosen \cup {<<req[r].auction, req[r].user>>}
  /\ Goto(r, "select_auction")
  /\ UNCHANGED <<now, auction, bids, notChosen, order, told, cron, faults>>

\* SelectSellWinner: by id alone, whatever the row's status is by now.
SelectWriteAuction(r) ==
  /\ req[r].step = "select_auction"
  /\ auction' = [auction EXCEPT ![req[r].auction] = [@ EXCEPT !.status = "winner_selected",
                                                            !.winner = req[r].user]]
  /\ Goto(r, "select_order")
  /\ UNCHANGED <<now, bids, chosen, notChosen, order, told, cron, faults>>

\* CreateOrderFromSellAuction; the orders table has no unique key on the auction.
SelectCreateOrder(r, o) ==
  /\ req[r].step = "select_order"
  /\ order[o].status = "none"
  /\ order' = [order EXCEPT ![o] = [status |-> "seller_confirmed",
                                    auction |-> req[r].auction,
                                    buyer |-> req[r].user,
                                    deadline |-> now + ConfirmWindow]]
  /\ Return(r)
  /\ UNCHANGED <<now, auction, bids, chosen, notChosen, told, cron, faults>>

-----------------------------------------------------------------------------
(* ConfirmOrder.  A sell order is born seller_confirmed, so its buyer is   *)
(* the only one who gets past the checks.                                  *)

ConfirmRead(r, u, o) ==
  /\ req[r].step = "idle"
  /\ order[o].buyer = u
  /\ order[o].status = "seller_confirmed"
  /\ ~ (order[o].deadline < now)
  /\ req' = [req EXCEPT ![r] = [Idle EXCEPT !.step = "confirm_write", !.user = u, !.order = o]]
  /\ UNCHANGED <<now, tables, told, cron, faults>>

\* Variant: the UPDATE trusts the deadline check made when the row was read.
ConfirmableLate(o) == order[o].status = "seller_confirmed"

\* The WHERE clause of ConfirmOrderAsBuyer.
Confirmable(o) == order[o].status = "seller_confirmed" /\ order[o].deadline > now

\* ConfirmOrderAsBuyer, then the notification, sent even when no row matched.
ConfirmWrite(r) ==
  LET o == req[r].order IN
  /\ req[r].step = "confirm_write"
  /\ IF Confirmable(o)
       THEN order' = [order EXCEPT ![o].status = "completed"]
       ELSE UNCHANGED order
  /\ told' = told \cup {<<o, "order_completed">>}
  /\ Return(r)
  /\ UNCHANGED <<now, auction, bids, chosen, notChosen, cron, faults>>

-----------------------------------------------------------------------------
(* Moderation: one guarded UPDATE ... RETURNING each.                      *)

FreshEndTime(a) == now + AuctionDuration

Approve(a) ==
  /\ auction[a].status \in {"pending_approval", "suspended"}
  /\ auction' = [auction EXCEPT ![a] = [@ EXCEPT !.status = "active",
                                                 !.endTime = FreshEndTime(a)]]
  /\ UNCHANGED <<now, bids, chosen, notChosen, order, told, req, cron, faults>>

Rejectable == {"pending_approval"}

Reject(a) ==
  /\ auction[a].status \in Rejectable
  /\ UpdateStatus(a, "rejected")
  /\ UNCHANGED <<now, bids, chosen, notChosen, order, told, req, cron, faults>>

Suspend(a) ==
  /\ auction[a].status = "active"
  /\ UpdateStatus(a, "suspended")
  /\ UNCHANGED <<now, bids, chosen, notChosen, order, told, req, cron, faults>>

-----------------------------------------------------------------------------
(* The cron goroutine.  Each pass reads the rows that are due and then     *)
(* writes them one by one; a pass starts when the one before it is done.   *)

\* Variant: only auctions somebody has bid on are looked at.
EndedWithBids == {a \in Auction : /\ auction[a].status = "active"
                                  /\ auction[a].endTime <= now
                                  /\ auction[a].bidCount > 0}

\* GetExpiredActiveSellAuctions.
Ended == {a \in Auction : auction[a].status = "active" /\ auction[a].endTime <= now}

ReadEnded ==
  /\ cron.step = "cancel"
  /\ cron.overdue = {}
  /\ cron' = [cron EXCEPT !.step = "end",
                          !.ended  = {a \in Ended : auction[a].bidCount > 0},
                          !.barren = {a \in Ended : auction[a].bidCount = 0}]
  /\ UNCHANGED <<now, tables, told, req, faults>>

\* processExpiredAuctions: the status written follows the bid_count it read.
EndAuction(a) ==
  /\ cron.step = "end"
  /\ \/ a \in cron.ended  /\ UpdateStatus(a, "pending_selection")
     \/ a \in cron.barren /\ UpdateStatus(a, "expired")
  /\ cron' = [cron EXCEPT !.ended = @ \ {a}, !.barren = @ \ {a}]
  /\ UNCHANGED <<now, bids, chosen, notChosen, order, told, req, faults>>

\* Variant: the selection window is left out of the query.
LapsedAtOnce == {a \in Auction : /\ auction[a].status = "pending_selection"
                                 /\ auction[a].endTime <= now}

\* GetExpiredPendingSelectionSellAuctions.
Lapsed == {a \in Auction : /\ auction[a].status = "pending_selection"
                           /\ auction[a].endTime + SelectionWindow <= now}

ReadLapsed ==
  /\ cron.step = "end"
  /\ cron.ended \cup cron.barren = {}
  /\ cron' = [cron EXCEPT !.step = "close",
                          !.lapsed = Lapsed]
  /\ UNCHANGED <<now, tables, told, req, faults>>

\* Variant: the closing pass writes the wrong end of the state machine.
ClosedStatusReopened == "pending_selection"

ClosedStatus == "expired"

\* processExpiredSelections, first statement for one auction.
CloseSelection(a) ==
  /\ cron.step = "close"
  /\ a \in cron.lapsed
  /\ UpdateStatus(a, ClosedStatus)
  /\ cron' = [cron EXCEPT !.step = "mark", !.lapsed = @ \ {a}, !.auction = a]
  /\ UNCHANGED <<now, bids, chosen, notChosen, order, told, req, faults>>

\* MarkNotChosenSellBids, second statement for that auction.
MarkNotChosen ==
  /\ cron.step = "mark"
  /\ notChosen' = notChosen \cup {b \in bids \ chosen : b[1] = cron.auction}
  /\ cron' = [cron EXCEPT !.step = "close", !.auction = None]
  /\ UNCHANGED <<now, auction, bids, chosen, order, told, req, faults>>

\* Variant: the deadline is left out of the query.
OverdueEarly == {o \in OrderId : order[o].status = "seller_confirmed"}

\* GetOrdersPendingConfirmation.
Overdue == {o \in OrderId : order[o].status = "seller_confirmed" /\ order[o].deadline < now}

ReadOverdue ==
  /\ cron.step = "close"
  /\ cron.lapsed = {}
  /\ cron' = [cron EXCEPT !.step = "cancel",
                          !.overdue = Overdue]
  /\ UNCHANGED <<now, tables, told, req, faults>>

\* Variant: CancelOrder still filters on the status orders had before they
\* were born confirmed.
CancellableStale(o) == order[o].status = "created"

\* The WHERE clause of CancelOrder.
Cancellable(o) == order[o].status = "seller_confirmed"

\* CancelExpiredOrders, in deadline order: CancelOrder ...
CancelOrder(o) ==
  /\ cron.step = "cancel"
  /\ o \in cron.overdue
  /\ \A p \in cron.overdue : order[o].deadline <= order[p].deadline
  /\ order' = IF Cancellable(o)
                THEN [order EXCEPT ![o].status = "cancelled"]
                ELSE order
  /\ cron' = [cron EXCEPT !.step = "revert", !.overdue = @ \ {o}, !.order = o]
  /\ UNCHANGED <<now, auction, bids, chosen, notChosen, told, req, faults>>

\* ... then RevertSellAuctionToPendingSelection and the notifications.
RevertAuction ==
  LET a == order[cron.order].auction IN
  /\ cron.step = "revert"
  /\ auction' = IF auction[a].status = "winner_selected"
                  THEN [auction EXCEPT ![a] = [@ EXCEPT !.status = "pending_selection",
                                                      !.winner = None]]
                  ELSE auction
  /\ told' = told \cup {<<cron.order, "order_expired">>}
  /\ cron' = [cron EXCEPT !.step = "cancel", !.order = None]
  /\ UNCHANGED <<now, bids, chosen, notChosen, order, req, faults>>

-----------------------------------------------------------------------------
(* The environment.                                                        *)

Tick ==
  /\ now < Horizon
  /\ now' = now + 1
  /\ UNCHANGED <<tables, told, req, cron, faults>>

\* A statement fails, a check outside this module refuses (slots, quota,
\* minimum amount, a user row), or the client goes away: the handler returns
\* and whatever it has written stays.
Abort(r) ==
  /\ req[r].step # "idle"
  /\ Return(r)
  /\ UNCHANGED <<now, tables, told, cron, faults>>

\* A statement of the cron fails: its error is dropped, or logged, and the
\* pass goes on.
Fault ==
  /\ faults < MaxFaults
  /\ faults' = faults + 1
  /\ UNCHANGED <<now, tables, req>>

\* A failed SELECT gives the pass nothing to do.
ReadFails ==
  /\ Fault
  /\ \/ /\ cron.step = "cancel" /\ cron.overdue = {}
        /\ cron' = [cron EXCEPT !.step = "end"]
     \/ /\ cron.step = "end" /\ cron.ended \cup cron.barren = {}
        /\ cron' = [cron EXCEPT !.step = "close"]
     \/ /\ cron.step = "close" /\ cron.lapsed = {}
        /\ cron' = [cron EXCEPT !.step = "cancel"]
  /\ UNCHANGED told

\* A failed UPDATE writes nothing; a failed CancelOrder skips the rest of the
\* order, a failed revert is followed by the notifications all the same.
WriteFails ==
  /\ Fault
  /\ \/ \E a \in cron.ended \cup cron.barren :
        /\ cron.step = "end"
        /\ cron' = [cron EXCEPT !.ended = @ \ {a}, !.barren = @ \ {a}]
     \/ \E a \in cron.lapsed :
        /\ cron.step = "close"
        /\ cron' = [cron EXCEPT !.step = "mark", !.lapsed = @ \ {a}, !.auction = a]
     \/ /\ cron.step = "mark"
        /\ cron' = [cron EXCEPT !.step = "close", !.auction = None]
     \/ \E o \in cron.overdue :
        /\ cron.step = "cancel"
        /\ cron' = [cron EXCEPT !.overdue = @ \ {o}]
  /\ UNCHANGED told

RevertFails ==
  /\ Fault
  /\ cron.step = "revert"
  /\ told' = told \cup {<<cron.order, "order_expired">>}
  /\ cron' = [cron EXCEPT !.step = "cancel", !.order = None]

\* The process dies and is started again: only the tables survive.
Crash ==
  /\ faults < MaxFaults
  /\ faults' = faults + 1
  /\ req' = [r \in Request |-> Idle]
  /\ cron' = CronIdle
  /\ UNCHANGED <<now, tables, told>>

RequestNext(r) ==
  \/ \E u \in Seller : CreateBegin(r, u)
  \/ \E a \in Auction : CreateInsert(r, a)
  \/ \E u \in Bidder, a \in Auction : PlaceBidRead(r, u, a)
  \/ PlaceBidDuplicateCheck(r)
  \/ PlaceBidInsert(r)
  \/ PlaceBidCount(r)
  \/ \E u \in Seller, a \in Auction : CancelRead(r, u, a)
  \/ CancelCount(r)
  \/ CancelWrite(r)
  \/ \E u \in Seller, a \in Auction : SelectRead(r, u, a)
  \/ \E u \in User, a \in Auction : SelectReadBid(r, u, a)
  \/ SelectFlagBid(r)
  \/ SelectWriteAuction(r)
  \/ \E o \in OrderId : SelectCreateOrder(r, o)
  \/ \E u \in User, o \in OrderId : ConfirmRead(r, u, o)
  \/ ConfirmWrite(r)
  \/ Abort(r)

ModerationNext == \E a \in Auction : Approve(a) \/ Reject(a) \/ Suspend(a)

CronNext ==
  \/ ReadEnded
  \/ \E a \in Auction : EndAuction(a)
  \/ ReadLapsed
  \/ \E a \in Auction : CloseSelection(a)
  \/ MarkNotChosen
  \/ ReadOverdue
  \/ \E o \in OrderId : CancelOrder(o)
  \/ RevertAuction

Next ==
  \/ \E r \in Request : RequestNext(r)
  \/ ModerationNext
  \/ CronNext
  \/ ReadFails \/ WriteFails \/ RevertFails
  \/ Tick
  \/ Crash

Spec == Init /\ [][Next]_vars

\* The ticker fires every minute and its goroutine always runs to the end of
\* a pass, so the cron and the clock are fair.  People are not.
FairSpec == Spec /\ WF_vars(CronNext) /\ WF_vars(Tick)

-----------------------------------------------------------------------------
(* Safety.                                                                 *)

BidsOn(a) == {b \in bids : b[1] = a}

\* bid_count, which PlaceBid raises in a statement of its own and whose error
\* it ignores, may lag the sell_bids rows but never runs ahead of them: an
\* auction is never sent to its owner for a selection among no bids.
BidCountNeverAhead == \A a \in Auction : auction[a].bidCount <= Cardinality(BidsOn(a))

\* A post that is waiting for approval, or was rejected, has no trace in the
\* other tables, although SelectSellWinner, UpdateSellAuctionStatus and the bid
\* INSERT look at no status at all: nobody can have read it as active.
UnpublishedIsUntouched ==
  \A a \in Auction :
    auction[a].status \in {"none", "pending_approval", "rejected"} =>
      /\ auction[a].bidCount = 0 /\ auction[a].winner = None
      /\ \A b \in bids : b[1] # a
      /\ \A o \in OrderId : order[o].auction # a

\* Every winner and every order is backed by a bid on that very auction which
\* has been flagged as selected and was placed by somebody else than the owner,
\* however selections, cron passes and reverts overlap.
DealsBackedByBids ==
  /\ \A a \in Auction : auction[a].winner # None =>
       <<a, auction[a].winner>> \in bids \cap chosen /\ auction[a].winner # auction[a].owner
  /\ \A o \in OrderId : order[o].status # "none" =>
       /\ <<order[o].auction, order[o].buyer>> \in bids \cap chosen
       /\ order[o].buyer # auction[order[o].auction].owner

\* Whoever is told that an order has expired is told the truth, although
\* CancelExpiredOrders does not look at how many rows CancelOrder changed.
ExpiredNoticeTruthful ==
  \A o \in OrderId : <<o, "order_expired">> \in told => order[o].status = "cancelled"

\* No bid is marked as not chosen while the owner could still choose it.
TurnedDownOnlyAfterWindow ==
  \A b \in notChosen : auction[b[1]].endTime + SelectionWindow <= now

-----------------------------------------------------------------------------
(* The strengthening that makes the safety invariants inductive: what a    *)
(* request or the cron may still believe about rows it read earlier.       *)

Published(a) == auction[a].status \notin {"none", "pending_approval", "rejected"}

\* Once the market is closed no statement opens it again.
MarketClosed(a) ==
  auction[a].status \in {"pending_selection", "winner_selected", "expired", "cancelled"}

TablesConsistent ==
  /\ UnpublishedIsUntouched
  /\ DealsBackedByBids
  /\ \A b \in bids : b[2] # auction[b[1]].owner
  /\ \A b \in notChosen : MarketClosed(b[1])
  /\ \A o \in OrderId : order[o].status # "none" =>
       order[o].auction \in Auction /\ order[o].buyer \in User
  /\ \A o \in OrderId : order[o].status = "none" => order[o].auction = None
  /\ \A o \in OrderId, e \in OrderEvent : <<o, e>> \in told => order[o].status # "none"

\* What a request in state q may rely on.
RequestOK(q) ==
  /\ q.step = "create" => q.user \in User
  /\ q.step \in {"bid_dup", "bid_insert", "bid_count"} =>
       /\ q.auction \in Auction /\ Published(q.auction)
       /\ q.user \in User /\ q.user # auction[q.auction].owner
  /\ q.step \in {"cancel_count", "cancel_write", "select_bid"} =>
       q.auction \in Auction /\ Published(q.auction)
  /\ q.step = "select_flag" =>
       q.auction \in Auction /\ q.user \in User /\ <<q.auction, q.user>> \in bids
  /\ q.step \in {"select_auction", "select_order"} =>
       q.auction \in Auction /\ q.user \in User /\ <<q.auction, q.user>> \in chosen
  /\ q.step = "confirm_write" => q.order \in OrderId /\ order[q.order].status # "none"

RequestsConsistent == \A r \in Request : RequestOK(req[r])

CronConsistent ==
  /\ \A a \in cron.ended \cup cron.barren : Published(a)
  /\ \A a \in cron.lapsed : MarketClosed(a) /\ auction[a].endTime + SelectionWindow <= now
  /\ cron.step = "mark" =>
       /\ cron.auction \in Auction /\ MarketClosed(cron.auction)
       /\ auction[cron.auction].endTime + SelectionWindow <= now
  /\ \A o \in cron.overdue :
       order[o].status \in {"seller_confirmed", "cancelled"} /\ order[o].deadline < now
  /\ cron.step = "revert" =>
       cron.order \in OrderId /\ order[cron.order].status = "cancelled"

IInv ==
  /\ TypeOK
  /\ TablesConsistent
  /\ TurnedDownOnlyAfterWindow
  /\ ExpiredNoticeTruthful
  /\ RequestsConsistent
  /\ CronConsistent

\* Every bid the count shows, or a request is about to show, is in the table.
Counting(a) == {r \in Request : req[r].step = "bid_count" /\ req[r].auction = a}

CountsCovered ==
  \A a \in Auction : auction[a].bidCount + Cardinality(Counting(a)) <= Cardinality(BidsOn(a))

-----------------------------------------------------------------------------
(* Action properties.                                                      *)

\* A winner is taken off an auction only after an order of that auction was
\* cancelled: RevertSellAuctionToPendingSelection never undoes a sale that is
\* completed or may still be confirmed, as far as one order is concerned.
WinnerClearedByCancellation ==
  [][\A a \in Auction : auction[a].winner # None /\ auction'[a].winner = None =>
       \E o \in OrderId : order[o].auction = a /\ order[o].status = "cancelled"]_vars

\* The ending pass and a selection write by id over whatever a post has become;
\* they alone may still hold a suspended post as it was before.
HeldLive(a) ==
  \/ a \in cron.ended \cup cron.barren
  \/ \E r \in Request : /\ req[r].step \in {"select_bid", "select_flag", "select_auction"}
                        /\ req[r].auction = a

\* A suspension outlives every late write but those: once the pass and the
\* selections that read the post before it are through, the post stays down,
\* no cancellation, closing pass or revert that was under way touches it and
\* nobody new gets hold of it, until an admin approves it for a whole run.
SuspensionHolds ==
  [][\A a \in Auction : auction[a].status = "suspended" /\ ~HeldLive(a) =>
       \/ auction'[a].status = "suspended" /\ ~HeldLive(a)'
       \/ auction'[a].status = "active" /\ auction'[a].endTime = now + AuctionDuration]_vars

\* The orders of sell posts keep the promise of module Orders.
OrderPromise == INSTANCE Orders WITH
  status <- [o \in OrderId |-> IF order[o].status = "seller_confirmed"
                                 THEN "awaiting" ELSE order[o].status],
  deadline <- [o \in OrderId |-> order[o].deadline],
  expiredNotice <- {o \in OrderId : <<o, "order_expired">> \in told}

\* Every step of the handlers and of the cron is a step of Orders or leaves
\* the orders alone: completed before the deadline or cancelled after it.
OrdersKeepPromise == OrderPromise!Spec

-----------------------------------------------------------------------------
(* Liveness.                                                               *)

\* An auction whose time is up is taken off the market by the cron, whatever
\* a crash lost of the pass that was working on it.
EndedAuctionsLeaveMarket ==
  \A a \in Auction :
    (auction[a].status = "active" /\ auction[a].endTime <= now) ~> auction[a].status # "active"

\* A selection nobody made in time is closed.
LapsedSelectionsClose ==
  \A a \in Auction : (a \in Lapsed) ~> auction[a].status # "pending_selection"

\* No order outlives its deadline for ever: the fair form of the promise.
OrdersEventuallySettle == OrderPromise!FairSpec

-----------------------------------------------------------------------------
(* What the source says and the code does not keep.                        *)

\* "Suspend takes a live post down": only an admin brings a suspended post
\* back into circulation.
SuspendedStaysDown ==
  [][\A a \in Auction : auction[a].status = "suspended" =>
       auction'[a].status \in {"suspended", "active"}]_vars

\* A deal cannot be cancelled once it has bids.
CancelledHasNoBids ==
  [][\A a \in Auction :
       auction[a].status # "cancelled" /\ auction'[a].status = "cancelled" => BidsOn(a) = {}]_vars

\* "Notify the other party that order is now completed".
CompletedNoticeTruthful ==
  \A o \in OrderId : <<o, "order_completed">> \in told => order[o].status = "completed"
=============================================================================
