------------------------- MODULE SellAuctionsProofs -------------------------
(***************************************************************************)
(* Proofs about SellAuctions, for every number of auctions, users, orders  *)
(* and concurrent requests.  The argument: whatever a request or the cron  *)
(* read earlier may be out of date, but three facts about it cannot become *)
(* false - the post has been published, the market is closed, the order is *)
(* past its deadline and unconfirmed.  IInv states them.                   *)
(***************************************************************************)
EXTENDS SellAuctions, FiniteSetTheorems, TLAPS

\* The start: empty tables, nobody reading.
LEMMA InitIInv == Init => IInv
<1> SUFFICES ASSUME Init PROVE IInv
  OBVIOUS
<1>1. TypeOK
  <2>1. NoAuction \in AuctionRow
    BY DEF NoAuction, AuctionRow, AuctionStatus
  <2>2. NoOrder \in OrderRow
    BY DEF NoOrder, OrderRow, OrderStatus
  <2>3. Idle \in RequestState
    BY DEF Idle, RequestState, RequestStep
  <2>4. CronIdle \in CronState
    BY DEF CronIdle, CronState, CronStep
  <2> QED
    BY <2>1, <2>2, <2>3, <2>4 DEF Init, TypeOK
<1>2. TablesConsistent
  BY SetsAssumption DEF Init, TablesConsistent, UnpublishedIsUntouched, DealsBackedByBids,
     NoAuction, NoOrder
<1>3. TurnedDownOnlyAfterWindow /\ ExpiredNoticeTruthful
  BY DEF Init, TurnedDownOnlyAfterWindow, ExpiredNoticeTruthful
<1>4. RequestsConsistent
  BY DEF Init, RequestsConsistent, RequestOK, Idle
<1>5. CronConsistent
  BY DEF Init, CronConsistent, CronIdle
<1> QED
  BY <1>1, <1>2, <1>3, <1>4, <1>5 DEF IInv

-----------------------------------------------------------------------------
(* Steps that only read: what remains to be shown is about the reader.     *)

LEMMA ReadingRequest ==
  ASSUME IInv, UNCHANGED <<now, tables, told, cron, faults>>,
         req' \in [Request -> RequestState], RequestsConsistent'
  PROVE  IInv'
<1>1. TypeOK'
  BY DEF IInv, TypeOK, tables
<1>2. TablesConsistent'
  BY DEF IInv, TablesConsistent, UnpublishedIsUntouched, DealsBackedByBids, MarketClosed, tables
<1>3. TurnedDownOnlyAfterWindow' /\ ExpiredNoticeTruthful'
  BY DEF IInv, TurnedDownOnlyAfterWindow, ExpiredNoticeTruthful, tables
<1>4. CronConsistent'
  BY DEF IInv, CronConsistent, Published, MarketClosed, tables
<1> QED
  BY <1>1, <1>2, <1>3, <1>4 DEF IInv

LEMMA ReadingCron ==
  ASSUME IInv, UNCHANGED <<now, tables, told, req, faults>>,
         cron' \in CronState, CronConsistent'
  PROVE  IInv'
<1>1. TypeOK'
  BY DEF IInv, TypeOK, tables
<1>2. TablesConsistent'
  BY DEF IInv, TablesConsistent, UnpublishedIsUntouched, DealsBackedByBids, MarketClosed, tables
<1>3. TurnedDownOnlyAfterWindow' /\ ExpiredNoticeTruthful'
  BY DEF IInv, TurnedDownOnlyAfterWindow, ExpiredNoticeTruthful, tables
<1>4. RequestsConsistent'
  BY DEF IInv, RequestsConsistent, RequestOK, Published, tables
<1> QED
  BY <1>1, <1>2, <1>3, <1>4 DEF IInv

\* A handler that returns, or dies, leaves nothing behind to be wrong about.
LEMMA ReturnKeepsIInv ==
  ASSUME IInv, NEW r \in Request, Return(r),
         UNCHANGED <<now, tables, told, cron, faults>>
  PROVE  IInv'
<1>1. req' \in [Request -> RequestState]
  BY DEF IInv, TypeOK, Return, Idle, RequestState, RequestStep
<1>2. RequestsConsistent'
  BY <1>1 DEF IInv, TypeOK, RequestsConsistent, RequestOK, Published, Return, Idle, tables
<1> QED
  BY <1>1, <1>2, ReadingRequest

LEMMA RequestReads ==
  ASSUME IInv, NEW r \in Request,
         \/ \E u \in Seller : CreateBegin(r, u)
         \/ \E u \in Bidder, a \in Auction : PlaceBidRead(r, u, a)
         \/ PlaceBidDuplicateCheck(r)
         \/ \E u \in Seller, a \in Auction : CancelRead(r, u, a)
         \/ CancelCount(r)
         \/ \E u \in Seller, a \in Auction : SelectRead(r, u, a)
         \/ \E u \in User, a \in Auction : SelectReadBid(r, u, a)
         \/ \E u \in User, o \in OrderId : ConfirmRead(r, u, o)
         \/ Abort(r)
  PROVE  IInv'
<1> USE DEF RequestState, RequestStep, Idle, tables
<1>1. ASSUME NEW u \in Seller, CreateBegin(r, u) PROVE IInv'
  <2>1. req' \in [Request -> RequestState]
    <3>1. now + AuctionDuration \in Nat
      BY LimitsAssumption DEF IInv, TypeOK
    <3>2. [Idle EXCEPT !.step = "create", !.user = u, !.until = now + AuctionDuration]
            \in RequestState
      BY <3>1 DEF User
    <3> QED
      BY <1>1, <3>2 DEF IInv, TypeOK, CreateBegin
  <2>2. RequestsConsistent'
    BY <1>1, <2>1 DEF IInv, TypeOK, CreateBegin, RequestsConsistent, RequestOK, Published, User
  <2> QED
    BY <1>1, <2>1, <2>2, ReadingRequest DEF CreateBegin
<1>2. ASSUME NEW u \in Bidder, NEW a \in Auction, PlaceBidRead(r, u, a) PROVE IInv'
  <2>1. req' \in [Request -> RequestState]
    BY <1>2 DEF IInv, TypeOK, PlaceBidRead, User
  <2>2. RequestsConsistent'
    BY <1>2, <2>1 DEF IInv, TypeOK, PlaceBidRead, RequestsConsistent, RequestOK, Published, User
  <2> QED
    BY <1>2, <2>1, <2>2, ReadingRequest DEF PlaceBidRead
<1>3. CASE PlaceBidDuplicateCheck(r)
  <2>1. CASE Return(r)
    BY <1>3, <2>1, ReturnKeepsIInv DEF PlaceBidDuplicateCheck
  <2>2. CASE Goto(r, "bid_insert")
    <3>1. req' \in [Request -> RequestState]
      BY <2>2 DEF IInv, TypeOK, Goto
    <3>2. RequestsConsistent'
      BY <1>3, <2>2, <3>1 DEF IInv, TypeOK, PlaceBidDuplicateCheck, Goto,
         RequestsConsistent, RequestOK, Published
    <3> QED
      BY <1>3, <3>1, <3>2, ReadingRequest DEF PlaceBidDuplicateCheck
  <2> QED
    BY <1>3, <2>1, <2>2 DEF PlaceBidDuplicateCheck
<1>4. ASSUME NEW u \in Seller, NEW a \in Auction, CancelRead(r, u, a) PROVE IInv'
  <2>1. req' \in [Request -> RequestState]
    BY <1>4 DEF IInv, TypeOK, CancelRead, User
  <2>2. RequestsConsistent'
    BY <1>4, <2>1 DEF IInv, TypeOK, CancelRead, RequestsConsistent, RequestOK, Published, User
  <2> QED
    BY <1>4, <2>1, <2>2, ReadingRequest DEF CancelRead
<1>5. CASE CancelCount(r)
  <2>1. CASE Return(r)
    BY <1>5, <2>1, ReturnKeepsIInv DEF CancelCount
  <2>2. CASE Goto(r, "cancel_write")
    <3>1. req' \in [Request -> RequestState]
      BY <2>2 DEF IInv, TypeOK, Goto
    <3>2. RequestsConsistent'
      BY <1>5, <2>2, <3>1 DEF IInv, TypeOK, CancelCount, Goto, RequestsConsistent, RequestOK, Published
    <3> QED
      BY <1>5, <3>1, <3>2, ReadingRequest DEF CancelCount
  <2> QED
    BY <1>5, <2>1, <2>2 DEF CancelCount
<1>6. ASSUME NEW u \in Seller, NEW a \in Auction, SelectRead(r, u, a) PROVE IInv'
  <2>1. req' \in [Request -> RequestState]
    BY <1>6 DEF IInv, TypeOK, SelectRead
  <2>2. RequestsConsistent'
    BY <1>6, <2>1 DEF IInv, TypeOK, SelectRead, RequestsConsistent, RequestOK, Published
  <2> QED
    BY <1>6, <2>1, <2>2, ReadingRequest DEF SelectRead
<1>7. ASSUME NEW u \in User, NEW a \in Auction, SelectReadBid(r, u, a) PROVE IInv'
  <2>1. CASE Return(r)
    BY <1>7, <2>1, ReturnKeepsIInv DEF SelectReadBid
  <2>2. CASE /\ a = req[r].auction
             /\ req' = [req EXCEPT ![r] = [@ EXCEPT !.step = "select_flag", !.user = u]]
    <3>1. req' \in [Request -> RequestState]
      BY <2>2 DEF IInv, TypeOK
    <3>2. RequestsConsistent'
      BY <1>7, <2>2, <3>1 DEF IInv, TypeOK, SelectReadBid, RequestsConsistent, RequestOK, Published
    <3> QED
      BY <1>7, <3>1, <3>2, ReadingRequest DEF SelectReadBid
  <2> QED
    BY <1>7, <2>1, <2>2 DEF SelectReadBid, InAuction
<1>8. ASSUME NEW u \in User, NEW o \in OrderId, ConfirmRead(r, u, o) PROVE IInv'
  <2>1. req' \in [Request -> RequestState]
    BY <1>8 DEF IInv, TypeOK, ConfirmRead
  <2>2. RequestsConsistent'
    BY <1>8, <2>1 DEF IInv, TypeOK, ConfirmRead, RequestsConsistent, RequestOK, Published
  <2> QED
    BY <1>8, <2>1, <2>2, ReadingRequest DEF ConfirmRead
<1>9. CASE Abort(r)
  BY <1>9, ReturnKeepsIInv DEF Abort
<1> QED
  BY <1>1, <1>2, <1>3, <1>4, <1>5, <1>6, <1>7, <1>8, <1>9
-----------------------------------------------------------------------------
(* What no step ever undoes.  Whatever a request or the cron learnt from a *)
(* row before, these facts about the row still hold when it comes to use   *)
(* them.                                                                   *)

NothingUndone ==
  /\ now <= now'
  /\ bids \subseteq bids' /\ chosen \subseteq chosen'
  /\ \A a \in Auction : Published(a) =>
       Published(a)' /\ auction'[a].owner = auction[a].owner
  /\ \A a \in Auction : MarketClosed(a) =>
       MarketClosed(a)' /\ auction'[a].endTime = auction[a].endTime
  /\ \A o \in OrderId : order[o].status # "none" =>
       /\ order'[o].status # "none"
       /\ order'[o].auction = order[o].auction /\ order'[o].buyer = order[o].buyer
       /\ order'[o].deadline = order[o].deadline
  /\ \A o \in OrderId : order[o].status = "cancelled" => order'[o].status = "cancelled"
  /\ \A o \in OrderId :
       order[o].status = "seller_confirmed" /\ order'[o].status = "completed" =>
         now < order[o].deadline

\* A request whose own state does not change may rely on what it relied on.
LEMMA RequestStillOK ==
  ASSUME IInv, NothingUndone, NEW q \in RequestState, RequestOK(q)
  PROVE  RequestOK(q)'
  BY DEF NothingUndone, RequestOK, RequestState

\* A step of request r that leaves r in a state it may rely on.
LEMMA RequestsAfter ==
  ASSUME IInv, NothingUndone, NEW r \in Request, NEW q \in RequestState,
         req' = [req EXCEPT ![r] = q], RequestOK(q)'
  PROVE  req' \in [Request -> RequestState] /\ RequestsConsistent'
<1>1. req' \in [Request -> RequestState]
  BY DEF IInv, TypeOK
<1>2. ASSUME NEW p \in Request PROVE RequestOK(req[p])'
  <2>1. CASE p = r
    <3>1. req'[p] = q
      BY <2>1 DEF IInv, TypeOK
    <3> QED
      BY <3>1 DEF RequestOK
  <2>2. CASE p # r
    <3>1. PICK s \in RequestState : s = req[p] /\ s = req'[p] /\ RequestOK(s)
      BY <2>2 DEF IInv, TypeOK, RequestsConsistent
    <3>2. RequestOK(s)'
      BY <3>1, RequestStillOK
    <3> QED
      BY <3>1, <3>2 DEF RequestOK
  <2> QED
    BY <2>1, <2>2
<1> QED
  BY <1>1, <1>2 DEF RequestsConsistent

LEMMA RequestsAfterReturn ==
  ASSUME IInv, NothingUndone, NEW r \in Request, Return(r)
  PROVE  req' \in [Request -> RequestState] /\ RequestsConsistent'
<1>1. PICK q \in RequestState : q = Idle
  BY DEF Idle, RequestState, RequestStep
<1>2. RequestOK(q)'
  BY <1>1 DEF RequestOK, Idle
<1> QED
  BY <1>1, <1>2, RequestsAfter DEF Return

LEMMA RequestsUnchanged ==
  ASSUME IInv, NothingUndone, UNCHANGED req
  PROVE  req' \in [Request -> RequestState] /\ RequestsConsistent'
<1>1. ASSUME NEW p \in Request PROVE RequestOK(req[p])'
  <2>1. PICK s \in RequestState : s = req[p] /\ s = req'[p] /\ RequestOK(s)
    BY DEF IInv, TypeOK, RequestsConsistent
  <2>2. RequestOK(s)'
    BY <2>1, RequestStillOK
  <2> QED
    BY <2>1, <2>2 DEF RequestOK
<1> QED
  BY <1>1 DEF IInv, TypeOK, RequestsConsistent

LEMMA CronStillOK ==
  ASSUME IInv, TypeOK', NothingUndone, UNCHANGED cron
  PROVE  CronConsistent'
  BY LimitsAssumption DEF IInv, TypeOK, CronConsistent, NothingUndone, MarketClosed,
     AuctionRow, OrderRow, OrderStatus, CronState

-----------------------------------------------------------------------------
(* Writing one row of sell_auctions, and perhaps announcing the end of a   *)
(* cancelled order.                                                        *)

WriteRow(a, row) ==
  /\ auction' = [auction EXCEPT ![a] = row]
  /\ told' \subseteq told \cup {o \in OrderId : order[o].status = "cancelled"} \X OrderEvent
  /\ UNCHANGED <<now, bids, chosen, notChosen, order>>

\* What every statement that writes the row of auction a respects.
RowAllowed(a, row) ==
  /\ Published(a) => /\ row.status \notin {"none", "pending_approval", "rejected"}
                     /\ row.owner = auction[a].owner
  /\ MarketClosed(a) =>
       /\ row.status \in {"pending_selection", "winner_selected", "expired", "cancelled"}
       /\ row.endTime = auction[a].endTime
  /\ ~ Published(a) => row.bidCount = 0 /\ row.winner = None
  /\ row.winner # None => <<a, row.winner>> \in chosen /\ row.winner # row.owner

LEMMA RowWritten ==
  ASSUME IInv, NEW a \in Auction, NEW row \in AuctionRow, RowAllowed(a, row), WriteRow(a, row)
  PROVE  /\ auction' \in [Auction -> AuctionRow] /\ told' \subseteq OrderId \X OrderEvent
         /\ NothingUndone
         /\ TablesConsistent' /\ TurnedDownOnlyAfterWindow' /\ ExpiredNoticeTruthful'
<1>1. auction' \in [Auction -> AuctionRow]
  BY DEF IInv, TypeOK, WriteRow
<1>2. auction'[a] = row /\ \A b \in Auction : b # a => auction'[b] = auction[b]
  BY DEF IInv, TypeOK, WriteRow
<1>3. \A b \in Auction : Published(b) => Published(b)' /\ auction'[b].owner = auction[b].owner
  BY <1>2 DEF RowAllowed, Published
<1>4. \A b \in Auction :
        MarketClosed(b) => MarketClosed(b)' /\ auction'[b].endTime = auction[b].endTime
  BY <1>2 DEF RowAllowed, MarketClosed
<1>5. now \in Nat /\ now <= now
  BY DEF IInv, TypeOK
<1>6. NothingUndone
  BY <1>3, <1>4, <1>5 DEF WriteRow, NothingUndone
<1>7. UnpublishedIsUntouched'
  BY <1>2 DEF IInv, TablesConsistent, UnpublishedIsUntouched, RowAllowed, WriteRow, Published
<1>8. bids \subseteq Auction \X User /\ chosen \subseteq bids /\ notChosen \subseteq bids
  BY DEF IInv, TypeOK
<1>9. \A b \in bids : Published(b[1])
  BY <1>8 DEF IInv, TablesConsistent, UnpublishedIsUntouched, Published
<1>10. \A o \in OrderId : order[o].status # "none" =>
         order[o].auction \in Auction /\ Published(order[o].auction)
  BY DEF IInv, TablesConsistent, UnpublishedIsUntouched, Published
<1>11. DealsBackedByBids'
  BY <1>2, <1>3, <1>8, <1>10 DEF IInv, TablesConsistent, DealsBackedByBids, RowAllowed, WriteRow
<1>12. \A b \in bids' : b[2] # auction'[b[1]].owner
  BY <1>3, <1>8, <1>9 DEF IInv, TablesConsistent, WriteRow
<1>13. \A b \in notChosen' : MarketClosed(b[1])'
  BY <1>4, <1>8 DEF IInv, TablesConsistent, WriteRow
<1>14. TablesConsistent'
  BY <1>7, <1>11, <1>12, <1>13 DEF IInv, TablesConsistent, WriteRow
<1>17. told' \subseteq OrderId \X OrderEvent
  BY DEF IInv, TypeOK, WriteRow
<1>15. TurnedDownOnlyAfterWindow'
  BY <1>4, <1>8 DEF IInv, TablesConsistent, TurnedDownOnlyAfterWindow, WriteRow
<1>16. ExpiredNoticeTruthful'
  BY DEF IInv, ExpiredNoticeTruthful, WriteRow
<1> QED
  BY <1>1, <1>6, <1>14, <1>15, <1>16, <1>17

\* A handler writes a row and returns.
LEMMA HandlerWritesRow ==
  ASSUME IInv, NEW r \in Request, NEW a \in Auction, NEW row \in AuctionRow,
         RowAllowed(a, row), WriteRow(a, row), Return(r), UNCHANGED <<cron, faults>>
  PROVE  IInv'
<1>1. /\ NothingUndone /\ auction' \in [Auction -> AuctionRow]
      /\ told' \subseteq OrderId \X OrderEvent
  BY RowWritten
<1>2. RequestsConsistent' /\ req' \in [Request -> RequestState]
  BY <1>1, RequestsAfterReturn
<1>3. TypeOK'
  BY <1>1, <1>2 DEF IInv, TypeOK, WriteRow
<1>4. CronConsistent'
  BY <1>1, <1>3, CronStillOK
<1> QED
  BY <1>2, <1>3, <1>4, RowWritten DEF IInv

\* An admin writes a row.
LEMMA AdminWritesRow ==
  ASSUME IInv, NEW a \in Auction, NEW row \in AuctionRow,
         RowAllowed(a, row), WriteRow(a, row), UNCHANGED <<req, cron, faults>>
  PROVE  IInv'
<1>1. /\ NothingUndone /\ auction' \in [Auction -> AuctionRow]
      /\ told' \subseteq OrderId \X OrderEvent
  BY RowWritten
<1>2. RequestsConsistent'
  BY <1>1, RequestsUnchanged
<1>3. TypeOK'
  BY <1>1 DEF IInv, TypeOK, WriteRow
<1>4. CronConsistent'
  BY <1>1, <1>3, CronStillOK
<1> QED
  BY <1>2, <1>3, <1>4, RowWritten DEF IInv

\* The cron writes a row.
LEMMA CronWritesRow ==
  ASSUME IInv, NEW a \in Auction, NEW row \in AuctionRow,
         RowAllowed(a, row), WriteRow(a, row), UNCHANGED <<req, faults>>,
         cron' \in CronState, CronConsistent'
  PROVE  IInv'
<1>1. /\ NothingUndone /\ auction' \in [Auction -> AuctionRow]
      /\ told' \subseteq OrderId \X OrderEvent
  BY RowWritten
<1>2. RequestsConsistent'
  BY <1>1, RequestsUnchanged
<1>3. TypeOK'
  BY <1>1 DEF IInv, TypeOK, WriteRow
<1> QED
  BY <1>2, <1>3, RowWritten DEF IInv

-----------------------------------------------------------------------------
(* Handlers and admins that write a row of sell_auctions.                  *)

LEMMA CreateInsertKeepsIInv ==
  ASSUME IInv, NEW r \in Request, NEW a \in Auction, CreateInsert(r, a)
  PROVE  IInv'
<1>1. PICK row \in AuctionRow :
        row = [NoAuction EXCEPT !.status = InitialStatus, !.owner = req[r].user,
                                !.endTime = req[r].until]
  BY DEF IInv, TypeOK, RequestState, AuctionRow, AuctionStatus, NoAuction, InitialStatus
<1>2. row.bidCount = 0 /\ row.winner = None
  BY <1>1 DEF NoAuction
<1>3. RowAllowed(a, row)
  BY <1>2 DEF CreateInsert, RowAllowed, Published, MarketClosed
<1> QED
  BY <1>1, <1>3, HandlerWritesRow DEF CreateInsert, WriteRow

LEMMA PlaceBidCountKeepsIInv ==
  ASSUME IInv, NEW r \in Request, PlaceBidCount(r)
  PROVE  IInv'
<1>1. PICK a \in Auction : a = req[r].auction /\ Published(a)
  BY DEF IInv, RequestsConsistent, RequestOK, PlaceBidCount
<1>2. PICK row \in AuctionRow : row = [auction[a] EXCEPT !.bidCount = @ + 1]
  <2>1. auction[a] \in AuctionRow /\ auction[a].bidCount + 1 \in Nat
    BY DEF IInv, TypeOK, AuctionRow
  <2> QED
    BY <2>1 DEF AuctionRow
<1>3. /\ row.status = auction[a].status /\ row.owner = auction[a].owner
      /\ row.endTime = auction[a].endTime /\ row.winner = auction[a].winner
  BY <1>2 DEF IInv, TypeOK, AuctionRow
<1>4. RowAllowed(a, row)
  BY <1>1, <1>3 DEF IInv, TablesConsistent, DealsBackedByBids, RowAllowed, Published, MarketClosed
<1>5. auction' = [auction EXCEPT ![a] = row]
  BY <1>1, <1>2 DEF PlaceBidCount
<1> QED
  BY <1>4, <1>5, HandlerWritesRow DEF PlaceBidCount, WriteRow

\* UpdateSellAuctionStatus and its guarded relatives.
LEMMA StatusRow ==
  ASSUME IInv, NEW a \in Auction, NEW status \in AuctionStatus,
         Published(a) => status \notin {"none", "pending_approval", "rejected"},
         MarketClosed(a) =>
           status \in {"pending_selection", "winner_selected", "expired", "cancelled"}
  PROVE  \E row \in AuctionRow :
           RowAllowed(a, row) /\ row = [auction[a] EXCEPT !.status = status]
<1>1. PICK row \in AuctionRow : row = [auction[a] EXCEPT !.status = status]
  BY DEF IInv, TypeOK, AuctionRow
<1>2. /\ row.status = status /\ row.owner = auction[a].owner
      /\ row.endTime = auction[a].endTime /\ row.winner = auction[a].winner
      /\ row.bidCount = auction[a].bidCount
  BY <1>1 DEF IInv, TypeOK, AuctionRow
<1>3. RowAllowed(a, row)
  BY <1>2 DEF IInv, TablesConsistent, DealsBackedByBids, UnpublishedIsUntouched,
     RowAllowed, Published, MarketClosed
<1> QED
  BY <1>1, <1>3

LEMMA CancelWriteKeepsIInv ==
  ASSUME IInv, NEW r \in Request, CancelWrite(r)
  PROVE  IInv'
<1>1. PICK a \in Auction : a = req[r].auction
  BY DEF IInv, RequestsConsistent, RequestOK, CancelWrite
<1>2. CASE auction[a].status \in {"active", "pending_approval"}
  <2>1. PICK row \in AuctionRow :
          RowAllowed(a, row) /\ row = [auction[a] EXCEPT !.status = "cancelled"]
    BY <1>2, StatusRow DEF AuctionStatus
  <2>2. auction' = [auction EXCEPT ![a] = row]
    BY <1>1, <1>2, <2>1 DEF CancelWrite, Withdrawable, UpdateStatus
  <2> QED
    BY <2>1, <2>2, HandlerWritesRow DEF CancelWrite, WriteRow
<1>3. CASE auction[a].status \notin {"active", "pending_approval"}
  BY <1>1, <1>3, ReturnKeepsIInv DEF CancelWrite, Withdrawable, tables
<1> QED
  BY <1>2, <1>3

LEMMA SelectWriteAuctionKeepsIInv ==
  ASSUME IInv, NEW r \in Request, SelectWriteAuction(r)
  PROVE  IInv'
<1>1. PICK a \in Auction, u \in User :
        a = req[r].auction /\ u = req[r].user /\ <<a, u>> \in chosen
  BY DEF IInv, RequestsConsistent, RequestOK, SelectWriteAuction
<1>2. PICK row \in AuctionRow :
        row = [auction[a] EXCEPT !.status = "winner_selected", !.winner = u]
  BY DEF IInv, TypeOK, AuctionRow, AuctionStatus
<1>3. /\ row.status = "winner_selected" /\ row.winner = u
      /\ row.owner = auction[a].owner /\ row.endTime = auction[a].endTime
  BY <1>2 DEF IInv, TypeOK, AuctionRow
<1>4. <<a, u>> \in bids
  BY <1>1 DEF IInv, TypeOK
<1>5. u # auction[a].owner /\ Published(a)
  BY <1>4 DEF IInv, TablesConsistent, UnpublishedIsUntouched, Published
<1>6. RowAllowed(a, row)
  BY <1>1, <1>3, <1>5 DEF RowAllowed
<1>7. auction' = [auction EXCEPT ![a] = row]
  BY <1>1, <1>2 DEF SelectWriteAuction
<1>8. WriteRow(a, row)
  BY <1>7 DEF SelectWriteAuction, WriteRow
<1>9. NothingUndone /\ auction' \in [Auction -> AuctionRow]
  BY <1>6, <1>8, RowWritten
<1>10. PICK q \in RequestState : q = [req[r] EXCEPT !.step = "select_order"]
  BY DEF IInv, TypeOK, RequestState, RequestStep
<1>11. q.step = "select_order" /\ q.auction = a /\ q.user = u
  BY <1>1, <1>10 DEF IInv, TypeOK, RequestState
<1>12. RequestOK(q)'
  BY <1>1, <1>11 DEF RequestOK, SelectWriteAuction
<1>13. RequestsConsistent' /\ req' \in [Request -> RequestState]
  BY <1>9, <1>10, <1>12, RequestsAfter DEF SelectWriteAuction, Goto
<1>14. TypeOK'
  BY <1>9, <1>13 DEF IInv, TypeOK, SelectWriteAuction
<1>15. CronConsistent'
  BY <1>9, <1>14, CronStillOK DEF SelectWriteAuction
<1> QED
  BY <1>6, <1>8, <1>13, <1>14, <1>15, RowWritten DEF IInv

LEMMA ModerationKeepsIInv ==
  ASSUME IInv, ModerationNext
  PROVE  IInv'
<1>1. PICK a \in Auction : Approve(a) \/ Reject(a) \/ Suspend(a)
  BY DEF ModerationNext
<1>2. CASE Approve(a)
  <2>1. now + AuctionDuration \in Nat
    BY LimitsAssumption DEF IInv, TypeOK
  <2>2. PICK row \in AuctionRow :
          row = [auction[a] EXCEPT !.status = "active", !.endTime = now + AuctionDuration]
    BY <2>1 DEF IInv, TypeOK, AuctionRow, AuctionStatus
  <2>3. /\ row.status = "active" /\ row.owner = auction[a].owner
        /\ row.winner = auction[a].winner /\ row.bidCount = auction[a].bidCount
    BY <2>2 DEF IInv, TypeOK, AuctionRow
  <2>4. RowAllowed(a, row)
    BY <1>2, <2>3 DEF IInv, TablesConsistent, DealsBackedByBids, UnpublishedIsUntouched,
       RowAllowed, Published, MarketClosed, Approve
  <2> QED
    BY <1>2, <2>2, <2>4, AdminWritesRow DEF Approve, FreshEndTime, WriteRow
<1>3. CASE Reject(a)
  <2>1. PICK row \in AuctionRow :
          RowAllowed(a, row) /\ row = [auction[a] EXCEPT !.status = "rejected"]
    BY <1>3, StatusRow DEF Reject, Rejectable, Published, MarketClosed, AuctionStatus
  <2> QED
    BY <1>3, <2>1, AdminWritesRow DEF Reject, UpdateStatus, WriteRow
<1>4. CASE Suspend(a)
  <2>1. PICK row \in AuctionRow :
          RowAllowed(a, row) /\ row = [auction[a] EXCEPT !.status = "suspended"]
    BY <1>4, StatusRow DEF Suspend, Published, MarketClosed, AuctionStatus
  <2> QED
    BY <1>4, <2>1, AdminWritesRow DEF Suspend, UpdateStatus, WriteRow
<1> QED
  BY <1>1, <1>2, <1>3, <1>4

-----------------------------------------------------------------------------
(* Handlers that write sell_bids and orders.                               *)

LEMMA PlaceBidInsertKeepsIInv ==
  ASSUME IInv, NEW r \in Request, PlaceBidInsert(r)
  PROVE  IInv'
<1>1. PICK a \in Auction, u \in User :
        a = req[r].auction /\ u = req[r].user /\ Published(a) /\ u # auction[a].owner
  BY DEF IInv, RequestsConsistent, RequestOK, PlaceBidInsert
<1>2. CASE <<a, u>> \in bids
  BY <1>1, <1>2, ReturnKeepsIInv DEF PlaceBidInsert, AfterConflict, tables
<1>3. CASE <<a, u>> \notin bids
  <2>1. bids' = bids \cup {<<a, u>>} /\ Goto(r, "bid_count")
    BY <1>1, <1>3 DEF PlaceBidInsert
  <2>2. NothingUndone
    BY <2>1 DEF IInv, TypeOK, PlaceBidInsert, NothingUndone, Published, MarketClosed
  <2>3. TablesConsistent'
    BY <1>1, <2>1 DEF IInv, TablesConsistent, UnpublishedIsUntouched, DealsBackedByBids,
       Published, MarketClosed, PlaceBidInsert
  <2>4. TurnedDownOnlyAfterWindow' /\ ExpiredNoticeTruthful'
    BY DEF IInv, TurnedDownOnlyAfterWindow, ExpiredNoticeTruthful, PlaceBidInsert
  <2>5. PICK q \in RequestState : q = [req[r] EXCEPT !.step = "bid_count"]
    BY DEF IInv, TypeOK, RequestState, RequestStep
  <2>6. q.step = "bid_count" /\ q.auction = a /\ q.user = u
    BY <1>1, <2>5 DEF IInv, TypeOK, RequestState
  <2>7. RequestOK(q)'
    BY <1>1, <2>6 DEF RequestOK, PlaceBidInsert, Published
  <2>8. RequestsConsistent' /\ req' \in [Request -> RequestState]
    BY <2>1, <2>2, <2>5, <2>7, RequestsAfter DEF Goto
  <2>9. TypeOK'
    BY <2>1, <2>8 DEF IInv, TypeOK, PlaceBidInsert
  <2>10. CronConsistent'
    BY <2>2, <2>9, CronStillOK DEF PlaceBidInsert
  <2> QED
    BY <2>3, <2>4, <2>8, <2>9, <2>10 DEF IInv
<1> QED
  BY <1>2, <1>3

LEMMA SelectFlagBidKeepsIInv ==
  ASSUME IInv, NEW r \in Request, SelectFlagBid(r)
  PROVE  IInv'
<1>1. PICK a \in Auction, u \in User :
        a = req[r].auction /\ u = req[r].user /\ <<a, u>> \in bids
  BY DEF IInv, RequestsConsistent, RequestOK, SelectFlagBid
<1>2. chosen' = chosen \cup {<<a, u>>}
  BY <1>1 DEF SelectFlagBid
<1>3. NothingUndone
  BY <1>2 DEF IInv, TypeOK, SelectFlagBid, NothingUndone, Published, MarketClosed
<1>4. TablesConsistent'
  BY <1>2 DEF IInv, TablesConsistent, UnpublishedIsUntouched, DealsBackedByBids,
     MarketClosed, SelectFlagBid
<1>5. TurnedDownOnlyAfterWindow' /\ ExpiredNoticeTruthful'
  BY DEF IInv, TurnedDownOnlyAfterWindow, ExpiredNoticeTruthful, SelectFlagBid
<1>6. PICK q \in RequestState : q = [req[r] EXCEPT !.step = "select_auction"]
  BY DEF IInv, TypeOK, RequestState, RequestStep
<1>7. q.step = "select_auction" /\ q.auction = a /\ q.user = u
  BY <1>1, <1>6 DEF IInv, TypeOK, RequestState
<1>8. RequestOK(q)'
  BY <1>1, <1>2, <1>7 DEF RequestOK, SelectFlagBid
<1>9. RequestsConsistent' /\ req' \in [Request -> RequestState]
  BY <1>3, <1>6, <1>8, RequestsAfter DEF SelectFlagBid, Goto
<1>10. TypeOK'
  BY <1>1, <1>2, <1>9 DEF IInv, TypeOK, SelectFlagBid
<1>11. CronConsistent'
  BY <1>3, <1>10, CronStillOK DEF SelectFlagBid
<1> QED
  BY <1>4, <1>5, <1>9, <1>10, <1>11 DEF IInv

LEMMA SelectCreateOrderKeepsIInv ==
  ASSUME IInv, NEW r \in Request, NEW o \in OrderId, SelectCreateOrder(r, o)
  PROVE  IInv'
<1>1. PICK a \in Auction, u \in User :
        a = req[r].auction /\ u = req[r].user /\ <<a, u>> \in chosen
  BY DEF IInv, RequestsConsistent, RequestOK, SelectCreateOrder
<1>2. now + ConfirmWindow \in Nat
  BY LimitsAssumption DEF IInv, TypeOK
<1>3. PICK row \in OrderRow :
        row = [status |-> "seller_confirmed", auction |-> a, buyer |-> u,
               deadline |-> now + ConfirmWindow]
  BY <1>2 DEF OrderRow, OrderStatus
<1>4. row.status = "seller_confirmed" /\ row.auction = a /\ row.buyer = u
  BY <1>3
<1>5. order' = [order EXCEPT ![o] = row]
  BY <1>1, <1>3 DEF SelectCreateOrder
<1>6. order'[o] = row /\ \A p \in OrderId : p # o => order'[p] = order[p]
  BY <1>5 DEF IInv, TypeOK
<1>7. order[o].status = "none"
  BY DEF SelectCreateOrder
<1>8. NothingUndone
  BY <1>6, <1>7 DEF IInv, TypeOK, SelectCreateOrder, NothingUndone, Published, MarketClosed
<1>9. <<a, u>> \in bids
  BY <1>1 DEF IInv, TypeOK
<1>10. u # auction[a].owner /\ Published(a)
  BY <1>9 DEF IInv, TablesConsistent, UnpublishedIsUntouched, Published
<1>11. UnpublishedIsUntouched'
  BY <1>4, <1>6, <1>10 DEF IInv, TablesConsistent, UnpublishedIsUntouched, Published,
     SelectCreateOrder
<1>12. DealsBackedByBids'
  <2>1. UNCHANGED <<auction, bids, chosen>>
    BY DEF SelectCreateOrder
  <2>2. ASSUME NEW p \in OrderId, order'[p].status # "none"
        PROVE  /\ <<order'[p].auction, order'[p].buyer>> \in bids \cap chosen
               /\ order'[p].buyer # auction[order'[p].auction].owner
    <3>1. CASE p = o
      BY <1>1, <1>4, <1>6, <1>9, <1>10, <3>1
    <3>2. CASE p # o
      BY <1>6, <2>2, <3>2 DEF IInv, TablesConsistent, DealsBackedByBids
    <3> QED
      BY <3>1, <3>2
  <2> QED
    BY <2>1, <2>2 DEF IInv, TablesConsistent, DealsBackedByBids
<1>13. TablesConsistent'
  BY <1>4, <1>6, <1>11, <1>12 DEF IInv, TablesConsistent, MarketClosed, SelectCreateOrder
<1>14. TurnedDownOnlyAfterWindow'
  BY DEF IInv, TurnedDownOnlyAfterWindow, SelectCreateOrder
<1>15. ExpiredNoticeTruthful'
  BY <1>6, <1>7 DEF IInv, ExpiredNoticeTruthful, SelectCreateOrder
<1>16. RequestsConsistent' /\ req' \in [Request -> RequestState]
  BY <1>8, RequestsAfterReturn DEF SelectCreateOrder
<1>17. TypeOK'
  BY <1>5, <1>16 DEF IInv, TypeOK, SelectCreateOrder
<1>18. CronConsistent'
  BY <1>8, <1>17, CronStillOK DEF SelectCreateOrder
<1> QED
  BY <1>13, <1>14, <1>15, <1>16, <1>17, <1>18 DEF IInv

LEMMA ConfirmWriteKeepsIInv ==
  ASSUME IInv, NEW r \in Request, ConfirmWrite(r)
  PROVE  IInv'
<1>1. PICK o \in OrderId : o = req[r].order /\ order[o].status # "none"
  BY DEF IInv, RequestsConsistent, RequestOK, ConfirmWrite
<1>2. order' \in [OrderId -> OrderRow]
  BY <1>1 DEF IInv, TypeOK, ConfirmWrite, OrderRow, OrderStatus
<1>3. \A p \in OrderId :
        /\ order'[p].auction = order[p].auction /\ order'[p].buyer = order[p].buyer
        /\ order'[p].deadline = order[p].deadline
        /\ order'[p].status = order[p].status
           \/ /\ order[p].status = "seller_confirmed" /\ order'[p].status = "completed"
              /\ now < order[p].deadline
  BY <1>1 DEF IInv, TypeOK, OrderRow, ConfirmWrite, Confirmable
<1>4. NothingUndone
  BY <1>3 DEF IInv, TypeOK, OrderRow, ConfirmWrite, NothingUndone, Published, MarketClosed
<1>5. told' = told \cup {<<o, "order_completed">>}
  BY <1>1 DEF ConfirmWrite
<1>6. TablesConsistent'
  BY <1>1, <1>3, <1>5 DEF IInv, TablesConsistent, UnpublishedIsUntouched, DealsBackedByBids,
     MarketClosed, ConfirmWrite
<1>7. TurnedDownOnlyAfterWindow'
  BY DEF IInv, TurnedDownOnlyAfterWindow, ConfirmWrite
<1>8. ExpiredNoticeTruthful'
  BY <1>3, <1>5 DEF IInv, ExpiredNoticeTruthful
<1>9. RequestsConsistent' /\ req' \in [Request -> RequestState]
  BY <1>4, RequestsAfterReturn DEF ConfirmWrite
<1>10. TypeOK'
  BY <1>1, <1>2, <1>5, <1>9 DEF IInv, TypeOK, ConfirmWrite, OrderEvent
<1>11. CronConsistent'
  BY <1>4, <1>10, CronStillOK DEF ConfirmWrite
<1> QED
  BY <1>6, <1>7, <1>8, <1>9, <1>10, <1>11 DEF IInv

-----------------------------------------------------------------------------
(* The cron.                                                               *)

LEMMA CronReadKeepsIInv ==
  ASSUME IInv, ReadEnded \/ ReadLapsed \/ ReadOverdue
  PROVE  IInv'
<1>1. CASE ReadEnded
  <2>1. cron' \in CronState
    BY <1>1 DEF IInv, TypeOK, ReadEnded, Ended, CronState, CronStep
  <2>2. CronConsistent'
    BY <1>1 DEF IInv, TypeOK, CronState, ReadEnded, Ended, CronConsistent, Published,
       MarketClosed, tables
  <2> QED
    BY <1>1, <2>1, <2>2, ReadingCron DEF ReadEnded
<1>2. CASE ReadLapsed
  <2>1. cron' \in CronState
    BY <1>2 DEF IInv, TypeOK, ReadLapsed, Lapsed, CronState, CronStep
  <2>2. CronConsistent'
    BY <1>2 DEF IInv, TypeOK, CronState, ReadLapsed, Lapsed, CronConsistent, Published,
       MarketClosed, tables
  <2> QED
    BY <1>2, <2>1, <2>2, ReadingCron DEF ReadLapsed
<1>3. CASE ReadOverdue
  <2>1. cron' \in CronState
    BY <1>3 DEF IInv, TypeOK, ReadOverdue, Overdue, CronState, CronStep
  <2>2. CronConsistent'
    BY <1>3 DEF IInv, TypeOK, CronState, ReadOverdue, Overdue, CronConsistent, Published,
       MarketClosed, tables
  <2> QED
    BY <1>3, <2>1, <2>2, ReadingCron DEF ReadOverdue
<1> QED
  BY <1>1, <1>2, <1>3

LEMMA EndAuctionKeepsIInv ==
  ASSUME IInv, NEW a \in Auction, EndAuction(a)
  PROVE  IInv'
<1>1. PICK status \in {"pending_selection", "expired"} : UpdateStatus(a, status)
  BY DEF EndAuction
<1>2. PICK row \in AuctionRow : RowAllowed(a, row) /\ row = [auction[a] EXCEPT !.status = status]
  BY StatusRow DEF AuctionStatus
<1>3. WriteRow(a, row)
  BY <1>1, <1>2 DEF EndAuction, UpdateStatus, WriteRow
<1>4. NothingUndone
  BY <1>2, <1>3, RowWritten
<1>5. cron' \in CronState
  BY DEF IInv, TypeOK, EndAuction, CronState
<1>6. CronConsistent'
  BY <1>4 DEF IInv, TypeOK, CronState, CronConsistent, EndAuction, NothingUndone, MarketClosed
<1> QED
  BY <1>2, <1>3, <1>5, <1>6, CronWritesRow DEF EndAuction

LEMMA CloseSelectionKeepsIInv ==
  ASSUME IInv, NEW a \in Auction, CloseSelection(a)
  PROVE  IInv'
<1>1. PICK row \in AuctionRow :
        RowAllowed(a, row) /\ row = [auction[a] EXCEPT !.status = "expired"]
  BY StatusRow DEF AuctionStatus
<1>2. WriteRow(a, row)
  BY <1>1 DEF CloseSelection, UpdateStatus, ClosedStatus, WriteRow
<1>3. NothingUndone
  BY <1>1, <1>2, RowWritten
<1>4. cron' \in CronState
  BY DEF IInv, TypeOK, CloseSelection, CronState, CronStep
<1>5. CronConsistent'
  BY <1>3 DEF IInv, TypeOK, CronState, CronConsistent, CloseSelection, NothingUndone, MarketClosed
<1> QED
  BY <1>1, <1>2, <1>4, <1>5, CronWritesRow DEF CloseSelection

LEMMA MarkNotChosenKeepsIInv ==
  ASSUME IInv, MarkNotChosen
  PROVE  IInv'
<1>1. NothingUndone
  BY DEF IInv, TypeOK, MarkNotChosen, NothingUndone, Published, MarketClosed
<1>2. RequestsConsistent'
  BY <1>1, RequestsUnchanged DEF MarkNotChosen
<1>3. cron' \in CronState
  BY DEF IInv, TypeOK, MarkNotChosen, CronState, CronStep
<1>4. TypeOK'
  BY <1>3 DEF IInv, TypeOK, MarkNotChosen
<1>5. TablesConsistent'
  BY DEF IInv, TablesConsistent, UnpublishedIsUntouched, DealsBackedByBids, CronConsistent,
     MarketClosed, MarkNotChosen
<1>6. TurnedDownOnlyAfterWindow'
  BY DEF IInv, TurnedDownOnlyAfterWindow, CronConsistent, MarkNotChosen
<1>7. ExpiredNoticeTruthful'
  BY DEF IInv, ExpiredNoticeTruthful, MarkNotChosen
<1>8. CronConsistent'
  BY DEF IInv, TypeOK, CronState, CronConsistent, Published, MarketClosed, MarkNotChosen
<1> QED
  BY <1>2, <1>4, <1>5, <1>6, <1>7, <1>8 DEF IInv

LEMMA CancelOrderKeepsIInv ==
  ASSUME IInv, NEW o \in OrderId, CancelOrder(o)
  PROVE  IInv'
<1>1. order' \in [OrderId -> OrderRow]
  BY DEF IInv, TypeOK, CancelOrder, OrderRow, OrderStatus
<1>2. \A p \in OrderId :
        /\ order'[p].auction = order[p].auction /\ order'[p].buyer = order[p].buyer
        /\ order'[p].deadline = order[p].deadline
        /\ order'[p].status = order[p].status
           \/ (order[p].status = "seller_confirmed" /\ order'[p].status = "cancelled")
  BY DEF IInv, TypeOK, OrderRow, CancelOrder, Cancellable
<1>3. NothingUndone
  BY <1>2 DEF IInv, TypeOK, OrderRow, CancelOrder, NothingUndone, Published, MarketClosed
<1>4. order'[o].status = "cancelled"
  BY DEF IInv, TypeOK, OrderRow, CronConsistent, CancelOrder, Cancellable
<1>5. RequestsConsistent'
  BY <1>3, RequestsUnchanged DEF CancelOrder
<1>6. cron' \in CronState
  BY DEF IInv, TypeOK, CancelOrder, CronState, CronStep
<1>7. TypeOK'
  BY <1>1, <1>6 DEF IInv, TypeOK, CancelOrder
<1>8. TablesConsistent'
  BY <1>2 DEF IInv, TablesConsistent, UnpublishedIsUntouched, DealsBackedByBids,
     MarketClosed, CancelOrder
<1>9. TurnedDownOnlyAfterWindow'
  BY DEF IInv, TurnedDownOnlyAfterWindow, CancelOrder
<1>10. ExpiredNoticeTruthful'
  BY <1>2 DEF IInv, ExpiredNoticeTruthful, CancelOrder
<1>11. CronConsistent'
  <2>1. cron'.step = "revert" /\ cron'.order = o /\ cron'.overdue \subseteq cron.overdue
        /\ cron'.ended = cron.ended /\ cron'.barren = cron.barren /\ cron'.lapsed = cron.lapsed
    BY DEF IInv, TypeOK, CronState, CancelOrder
  <2> QED
    BY <1>2, <1>4, <2>1 DEF IInv, TypeOK, CronState, CronConsistent, Published, MarketClosed,
       CancelOrder
<1> QED
  BY <1>5, <1>7, <1>8, <1>9, <1>10, <1>11 DEF IInv

LEMMA RevertAuctionKeepsIInv ==
  ASSUME IInv, RevertAuction
  PROVE  IInv'
<1>1. PICK o \in OrderId : o = cron.order /\ order[o].status = "cancelled"
  BY DEF IInv, CronConsistent, RevertAuction
<1>2. PICK a \in Auction : a = order[o].auction
  BY <1>1 DEF IInv, TablesConsistent
<1>3. PICK row \in AuctionRow :
        row = IF auction[a].status = "winner_selected"
                THEN [auction[a] EXCEPT !.status = "pending_selection", !.winner = None]
                ELSE auction[a]
  BY DEF IInv, TypeOK, AuctionRow, AuctionStatus
<1>4. /\ row.owner = auction[a].owner /\ row.endTime = auction[a].endTime
      /\ row.bidCount = auction[a].bidCount
      /\ \/ row.status = auction[a].status /\ row.winner = auction[a].winner
         \/ /\ row.status = "pending_selection" /\ row.winner = None
            /\ auction[a].status = "winner_selected"
  BY <1>3 DEF IInv, TypeOK, AuctionRow
<1>5. RowAllowed(a, row)
  BY <1>4 DEF IInv, TablesConsistent, DealsBackedByBids, UnpublishedIsUntouched,
     RowAllowed, Published, MarketClosed
<1>6. auction' = [auction EXCEPT ![a] = row]
  BY <1>1, <1>2, <1>3 DEF IInv, TypeOK, RevertAuction
<1>7. told' = told \cup {<<o, "order_expired">>}
  BY <1>1 DEF RevertAuction
<1>8. <<o, "order_expired">> \in {p \in OrderId : order[p].status = "cancelled"} \X OrderEvent
  BY <1>1 DEF OrderEvent
<1>9. WriteRow(a, row)
  BY <1>6, <1>7, <1>8 DEF RevertAuction, WriteRow
<1>10. NothingUndone
  BY <1>5, <1>9, RowWritten
<1>11. cron' \in CronState
  BY DEF IInv, TypeOK, RevertAuction, CronState, CronStep
<1>12. CronConsistent'
  BY <1>10 DEF IInv, TypeOK, CronState, CronConsistent, NothingUndone, MarketClosed, RevertAuction
<1> QED
  BY <1>5, <1>9, <1>11, <1>12, CronWritesRow DEF RevertAuction

\* An error of the cron loses work, never knowledge.
LEMMA FailureKeepsIInv ==
  ASSUME IInv, Fault, cron' \in CronState, CronConsistent',
         told' \subseteq told \cup {o \in OrderId : order[o].status = "cancelled"} \X OrderEvent
  PROVE  IInv'
<1>1. NothingUndone
  BY DEF IInv, TypeOK, Fault, NothingUndone, Published, MarketClosed, tables
<1>2. RequestsConsistent'
  BY <1>1, RequestsUnchanged DEF Fault
<1>3. told' \subseteq OrderId \X OrderEvent
  BY DEF IInv, TypeOK
<1>4. TypeOK'
  BY <1>3 DEF IInv, TypeOK, Fault, tables
<1>5. UnpublishedIsUntouched' /\ DealsBackedByBids'
  BY DEF IInv, TablesConsistent, UnpublishedIsUntouched, DealsBackedByBids, Fault, tables
<1>6. TablesConsistent'
  BY <1>5 DEF IInv, TablesConsistent, MarketClosed, Fault, tables
<1>7. TurnedDownOnlyAfterWindow'
  BY DEF IInv, TurnedDownOnlyAfterWindow, Fault, tables
<1>8. ExpiredNoticeTruthful'
  BY DEF IInv, ExpiredNoticeTruthful, Fault, tables
<1> QED
  BY <1>2, <1>4, <1>6, <1>7, <1>8 DEF IInv

LEMMA CronFailuresKeepIInv ==
  ASSUME IInv, ReadFails \/ WriteFails \/ RevertFails
  PROVE  IInv'
<1>1. UNCHANGED <<now, auction, order>> /\ Fault
  BY DEF ReadFails, WriteFails, RevertFails, Fault, tables
<1>2. CASE ReadFails
  <2>1. cron' \in CronState /\ told' = told
    BY <1>2 DEF IInv, TypeOK, ReadFails, CronState, CronStep
  <2>2. CronConsistent'
    BY <1>1, <1>2 DEF IInv, TypeOK, CronState, CronConsistent, Published, MarketClosed, ReadFails
  <2> QED
    BY <1>1, <2>1, <2>2, FailureKeepsIInv
<1>3. CASE WriteFails
  <2>1. told' = told
    BY <1>3 DEF WriteFails
  <2>2. ASSUME NEW a \in cron.ended \cup cron.barren, cron.step = "end",
               cron' = [cron EXCEPT !.ended = @ \ {a}, !.barren = @ \ {a}]
        PROVE  cron' \in CronState /\ CronConsistent'
    <3>1. cron' \in CronState
      BY <2>2 DEF IInv, TypeOK, CronState
    <3>2. CronConsistent'
      BY <1>1, <2>2 DEF IInv, TypeOK, CronState, CronConsistent, Published, MarketClosed
    <3> QED
      BY <3>1, <3>2
  <2>3. ASSUME NEW a \in cron.lapsed, cron.step = "close",
               cron' = [cron EXCEPT !.step = "mark", !.lapsed = @ \ {a}, !.auction = a]
        PROVE  cron' \in CronState /\ CronConsistent'
    <3>1. cron' \in CronState
      BY <2>3 DEF IInv, TypeOK, CronState, CronStep
    <3>2. CronConsistent'
      BY <1>1, <2>3 DEF IInv, TypeOK, CronState, CronConsistent, Published, MarketClosed
    <3> QED
      BY <3>1, <3>2
  <2>4. ASSUME cron' = [cron EXCEPT !.step = "close", !.auction = None]
        PROVE  cron' \in CronState /\ CronConsistent'
    <3>1. cron' \in CronState
      BY <2>4 DEF IInv, TypeOK, CronState, CronStep
    <3>2. CronConsistent'
      BY <1>1, <2>4 DEF IInv, TypeOK, CronState, CronConsistent, Published, MarketClosed
    <3> QED
      BY <3>1, <3>2
  <2>5. ASSUME NEW o \in cron.overdue, cron.step = "cancel",
               cron' = [cron EXCEPT !.overdue = @ \ {o}]
        PROVE  cron' \in CronState /\ CronConsistent'
    <3>1. cron' \in CronState
      BY <2>5 DEF IInv, TypeOK, CronState
    <3>2. CronConsistent'
      BY <1>1, <2>5 DEF IInv, TypeOK, CronState, CronConsistent, Published, MarketClosed
    <3> QED
      BY <3>1, <3>2
  <2>6. cron' \in CronState /\ CronConsistent'
    BY <1>3, <2>2, <2>3, <2>4, <2>5 DEF WriteFails
  <2> QED
    BY <1>1, <2>1, <2>6, FailureKeepsIInv
<1>4. CASE RevertFails
  <2>1. cron' \in CronState
    BY <1>4 DEF IInv, TypeOK, RevertFails, CronState, CronStep
  <2>2. <<cron.order, "order_expired">> \in
          {o \in OrderId : order[o].status = "cancelled"} \X OrderEvent
    BY <1>4 DEF IInv, CronConsistent, RevertFails, OrderEvent
  <2>3. CronConsistent'
    BY <1>1, <1>4 DEF IInv, TypeOK, CronState, CronConsistent, Published, MarketClosed, RevertFails
  <2> QED
    BY <1>1, <1>4, <2>1, <2>2, <2>3, FailureKeepsIInv DEF RevertFails
<1> QED
  BY <1>2, <1>3, <1>4

-----------------------------------------------------------------------------
(* The clock, a restart, and no step at all.                               *)

LEMMA TickKeepsIInv ==
  ASSUME IInv, Tick
  PROVE  IInv'
<1>1. now \in Nat /\ now' = now + 1
  BY DEF IInv, TypeOK, Tick
<1>2. NothingUndone
  BY <1>1 DEF Tick, tables, NothingUndone, Published, MarketClosed
<1>3. RequestsConsistent'
  BY <1>2, RequestsUnchanged DEF Tick
<1>4. TypeOK'
  BY <1>1 DEF IInv, TypeOK, Tick, tables
<1>5. CronConsistent'
  BY <1>2, <1>4, CronStillOK DEF Tick
<1>6. TablesConsistent' /\ ExpiredNoticeTruthful'
  BY DEF IInv, TablesConsistent, UnpublishedIsUntouched, DealsBackedByBids, MarketClosed,
     ExpiredNoticeTruthful, Tick, tables
<1>7. TurnedDownOnlyAfterWindow'
  BY <1>1, LimitsAssumption DEF IInv, TypeOK, AuctionRow, TurnedDownOnlyAfterWindow, Tick, tables
<1> QED
  BY <1>3, <1>4, <1>5, <1>6, <1>7 DEF IInv

LEMMA CrashKeepsIInv ==
  ASSUME IInv, Crash
  PROVE  IInv'
<1>1. Idle \in RequestState /\ CronIdle \in CronState
  BY DEF Idle, RequestState, RequestStep, CronIdle, CronState, CronStep
<1>2. TypeOK'
  BY <1>1 DEF IInv, TypeOK, Crash, tables
<1>3. TablesConsistent'
  BY DEF IInv, TablesConsistent, UnpublishedIsUntouched, DealsBackedByBids, MarketClosed,
     Crash, tables
<1>4. TurnedDownOnlyAfterWindow' /\ ExpiredNoticeTruthful'
  BY DEF IInv, TurnedDownOnlyAfterWindow, ExpiredNoticeTruthful, Crash, tables
<1>5. RequestsConsistent'
  BY DEF Crash, RequestsConsistent, RequestOK, Idle
<1>6. CronConsistent'
  BY DEF Crash, CronConsistent, CronIdle
<1> QED
  BY <1>2, <1>3, <1>4, <1>5, <1>6 DEF IInv

LEMMA StutterKeepsIInv ==
  ASSUME IInv, UNCHANGED vars
  PROVE  IInv'
<1>1. req' \in [Request -> RequestState] /\ RequestsConsistent'
  BY DEF IInv, TypeOK, RequestsConsistent, RequestOK, Published, vars
<1> QED
  BY <1>1, ReadingRequest DEF vars, tables

-----------------------------------------------------------------------------
(* The invariant.                                                          *)

LEMMA NextKeepsIInv ==
  ASSUME IInv, [Next]_vars
  PROVE  IInv'
<1>1. ASSUME NEW r \in Request, RequestNext(r) PROVE IInv'
  BY <1>1, RequestReads, CreateInsertKeepsIInv, PlaceBidInsertKeepsIInv, PlaceBidCountKeepsIInv,
     CancelWriteKeepsIInv, SelectFlagBidKeepsIInv, SelectWriteAuctionKeepsIInv,
     SelectCreateOrderKeepsIInv, ConfirmWriteKeepsIInv DEF RequestNext
<1>2. ASSUME CronNext PROVE IInv'
  BY <1>2, CronReadKeepsIInv, EndAuctionKeepsIInv, CloseSelectionKeepsIInv,
     MarkNotChosenKeepsIInv, CancelOrderKeepsIInv, RevertAuctionKeepsIInv DEF CronNext
<1> QED
  BY <1>1, <1>2, ModerationKeepsIInv, CronFailuresKeepIInv, TickKeepsIInv,
     CrashKeepsIInv, StutterKeepsIInv DEF Next

\* IInv is an inductive invariant: what requests and the cron rely on holds
\* whenever they come to use it.
THEOREM InductiveInvariant == Spec => []IInv
<1>1. Init => IInv
  BY InitIInv
<1>2. IInv /\ [Next]_vars => IInv'
  BY NextKeepsIInv
<1> QED
  BY <1>1, <1>2, PTL DEF Spec

\* Every row and every handler's state has its type.
THEOREM TypeCorrect == Spec => []TypeOK
<1>1. IInv => TypeOK
  BY DEF IInv
<1> QED
  BY <1>1, InductiveInvariant, PTL

\* A post in the approval queue, or rejected, has no bid, winner or order.
THEOREM UnpublishedUntouched == Spec => []UnpublishedIsUntouched
<1>1. IInv => UnpublishedIsUntouched
  BY DEF IInv, TablesConsistent
<1> QED
  BY <1>1, InductiveInvariant, PTL

\* No winner and no order without a selected bid of somebody else on the post.
THEOREM DealsBacked == Spec => []DealsBackedByBids
<1>1. IInv => DealsBackedByBids
  BY DEF IInv, TablesConsistent
<1> QED
  BY <1>1, InductiveInvariant, PTL

\* Only cancelled orders are announced as expired.
THEOREM ExpiredNoticesTrue == Spec => []ExpiredNoticeTruthful
<1>1. IInv => ExpiredNoticeTruthful
  BY DEF IInv
<1> QED
  BY <1>1, InductiveInvariant, PTL

\* Bids are turned down only when the selection window is over.
THEOREM TurnedDownAfterWindow == Spec => []TurnedDownOnlyAfterWindow
<1>1. IInv => TurnedDownOnlyAfterWindow
  BY DEF IInv
<1> QED
  BY <1>1, InductiveInvariant, PTL

-----------------------------------------------------------------------------
(***************************************************************************)
(* What a step may do: which step takes a winner off a post, which undoes  *)
(* a suspension, and that the steps of the handlers and the cron are steps *)
(* of Orders.                                                              *)
(***************************************************************************)

\* Every statement that writes the sell_auctions table.
AuctionWrite ==
  \/ \E r \in Request : \/ \E a \in Auction : CreateInsert(r, a)
                        \/ PlaceBidCount(r) \/ CancelWrite(r) \/ SelectWriteAuction(r)
  \/ ModerationNext
  \/ \E a \in Auction : EndAuction(a) \/ CloseSelection(a)
  \/ RevertAuction

LEMMA OnlyAuctionWritesWrite ==
  ASSUME [Next]_vars, ~ AuctionWrite
  PROVE  UNCHANGED auction
<1>1. ASSUME NEW r \in Request, RequestNext(r) PROVE UNCHANGED auction
  BY <1>1 DEF AuctionWrite, RequestNext, CreateBegin, PlaceBidRead, PlaceBidDuplicateCheck,
     PlaceBidInsert, CancelRead, CancelCount, SelectRead, SelectReadBid, SelectFlagBid,
     SelectCreateOrder, ConfirmRead, ConfirmWrite, Abort, tables
<1>2. CASE CronNext
  BY <1>2 DEF AuctionWrite, CronNext, ReadEnded, ReadLapsed, MarkNotChosen, ReadOverdue,
     CancelOrder, tables
<1>3. CASE ReadFails \/ WriteFails \/ RevertFails \/ Tick \/ Crash
  BY <1>3 DEF ReadFails, WriteFails, RevertFails, Fault, Tick, Crash, tables
<1>4. CASE UNCHANGED vars
  BY <1>4 DEF vars
<1>5. CASE ModerationNext
  BY <1>5 DEF AuctionWrite
<1> QED
  BY <1>1, <1>2, <1>3, <1>4, <1>5 DEF Next

-----------------------------------------------------------------------------
WinnerKept ==
  \A a \in Auction : auction[a].winner # None /\ auction'[a].winner = None =>
    \E o \in OrderId : order[o].auction = a /\ order[o].status = "cancelled"

LEMMA StepsKeepWinners ==
  ASSUME IInv, [Next]_vars
  PROVE  WinnerKept
<1>1. auction \in [Auction -> AuctionRow] /\ None \notin User
  BY SetsAssumption DEF IInv, TypeOK
<1>2. ASSUME NEW r \in Request, NEW a \in Auction, CreateInsert(r, a) PROVE WinnerKept
  BY <1>1, <1>2 DEF IInv, TablesConsistent, UnpublishedIsUntouched, CreateInsert, WinnerKept
<1>3. ASSUME NEW r \in Request, PlaceBidCount(r) PROVE WinnerKept
  BY <1>1, <1>3 DEF AuctionRow, PlaceBidCount, WinnerKept
<1>4. ASSUME NEW r \in Request, CancelWrite(r) PROVE WinnerKept
  BY <1>1, <1>4 DEF AuctionRow, CancelWrite, UpdateStatus, WinnerKept
<1>5. ASSUME NEW r \in Request, SelectWriteAuction(r) PROVE WinnerKept
  <2>1. req[r].user \in User
    BY <1>5 DEF IInv, RequestsConsistent, RequestOK, SelectWriteAuction
  <2> QED
    BY <1>1, <1>5, <2>1 DEF AuctionRow, SelectWriteAuction, WinnerKept
<1>6. ASSUME NEW a \in Auction, Approve(a) \/ Reject(a) \/ Suspend(a) PROVE WinnerKept
  <2>1. CASE Approve(a)
    BY <1>1, <2>1 DEF AuctionRow, Approve, WinnerKept
  <2>2. CASE Reject(a) \/ Suspend(a)
    BY <1>1, <2>2 DEF AuctionRow, Reject, Suspend, UpdateStatus, WinnerKept
  <2> QED
    BY <1>6, <2>1, <2>2
<1>7. ASSUME NEW a \in Auction, EndAuction(a) \/ CloseSelection(a) PROVE WinnerKept
  <2>1. PICK status \in AuctionStatus : auction' = [auction EXCEPT ![a].status = status]
    BY <1>7 DEF EndAuction, CloseSelection, ClosedStatus, UpdateStatus, AuctionStatus
  <2> QED
    BY <1>1, <2>1 DEF AuctionRow, WinnerKept
<1>8. CASE RevertAuction
  <2>1. cron.order \in OrderId /\ order[cron.order].status = "cancelled"
    BY <1>8 DEF IInv, CronConsistent, RevertAuction
  <2> QED
    BY <1>1, <1>8, <2>1 DEF AuctionRow, RevertAuction, WinnerKept
<1>9. CASE UNCHANGED auction
  BY <1>9 DEF WinnerKept
<1> QED
  BY <1>2, <1>3, <1>4, <1>5, <1>6, <1>7, <1>8, <1>9, OnlyAuctionWritesWrite
     DEF AuctionWrite, ModerationNext

\* A winner disappears only after an order of the post was cancelled.
THEOREM WinnersClearedByCancellation == Spec => WinnerClearedByCancellation
<1>1. IInv /\ [Next]_vars => [WinnerKept]_vars
  BY StepsKeepWinners
<1>2. Spec => [][WinnerKept]_vars
  BY <1>1, InductiveInvariant, PTL DEF Spec
<1> QED
  BY <1>2 DEF WinnerKept, WinnerClearedByCancellation

-----------------------------------------------------------------------------
SuspensionKept ==
  \A a \in Auction : auction[a].status = "suspended" /\ ~HeldLive(a) =>
    \/ auction'[a].status = "suspended" /\ ~HeldLive(a)'
    \/ auction'[a].status = "active" /\ auction'[a].endTime = now + AuctionDuration

\* Its two halves: the row, and who holds it.
StaysDown ==
  \A a \in Auction : auction[a].status = "suspended" /\ ~HeldLive(a) =>
    \/ auction'[a].status = "suspended"
    \/ auction'[a].status = "active" /\ auction'[a].endTime = now + AuctionDuration

NobodyNew ==
  \A a \in Auction : auction[a].status = "suspended" /\ ~HeldLive(a) => ~HeldLive(a)'

\* A step writes a suspended row only on behalf of somebody who held the post
\* before, or as the approval.
LEMMA StepsStayDown ==
  ASSUME IInv, [Next]_vars
  PROVE  StaysDown
<1>1. auction \in [Auction -> AuctionRow]
  BY DEF IInv, TypeOK
<1>2. ASSUME NEW r \in Request, NEW a \in Auction, CreateInsert(r, a) PROVE StaysDown
  BY <1>1, <1>2 DEF CreateInsert, StaysDown
<1>3. ASSUME NEW r \in Request, PlaceBidCount(r) PROVE StaysDown
  BY <1>1, <1>3 DEF AuctionRow, PlaceBidCount, StaysDown
<1>4. ASSUME NEW r \in Request, CancelWrite(r) PROVE StaysDown
  BY <1>1, <1>4 DEF AuctionRow, CancelWrite, Withdrawable, UpdateStatus, StaysDown
<1>5. ASSUME NEW r \in Request, SelectWriteAuction(r) PROVE StaysDown
  BY <1>1, <1>5 DEF AuctionRow, SelectWriteAuction, HeldLive, StaysDown
<1>6. ASSUME NEW a \in Auction, Approve(a) \/ Reject(a) \/ Suspend(a) PROVE StaysDown
  BY <1>1, <1>6 DEF AuctionRow, Approve, FreshEndTime, Reject, Rejectable, Suspend,
     UpdateStatus, StaysDown
<1>7. ASSUME NEW a \in Auction, EndAuction(a) PROVE StaysDown
  BY <1>1, <1>7 DEF AuctionRow, EndAuction, UpdateStatus, HeldLive, StaysDown
<1>8. ASSUME NEW a \in Auction, CloseSelection(a) PROVE StaysDown
  <2>1. auction[a].status # "suspended"
    BY <1>8 DEF IInv, CronConsistent, MarketClosed, CloseSelection
  <2> QED
    BY <1>1, <1>8, <2>1 DEF AuctionRow, CloseSelection, UpdateStatus, StaysDown
<1>9. CASE RevertAuction
  BY <1>1, <1>9 DEF AuctionRow, RevertAuction, StaysDown
<1>10. CASE UNCHANGED auction
  BY <1>10 DEF StaysDown
<1> QED
  BY <1>2, <1>3, <1>4, <1>5, <1>6, <1>7, <1>8, <1>9, <1>10, OnlyAuctionWritesWrite
     DEF AuctionWrite, ModerationNext

Choosing(q, a) == q.step \in {"select_bid", "select_flag", "select_auction"} /\ q.auction = a

\* Nobody comes to hold a post that is suspended.
LEMMA NobodyComesToHold ==
  ASSUME IInv, [Next]_vars
  PROVE  NobodyNew
<1> DEFINE Keep(r) == \A a \in Auction :
             Choosing(req'[r], a) => Choosing(req[r], a) \/ auction[a].status # "suspended"
           Others(r) == \A q \in Request \ {r} : req'[q] = req[q]
<1>0. /\ req \in [Request -> RequestState] /\ Idle.step = "idle" /\ CronIdle.ended = {}
      /\ CronIdle.barren = {} /\ cron \in CronState
  BY DEF IInv, TypeOK, Idle, CronIdle
<1>1. ASSUME NEW r \in Request, RequestNext(r) PROVE Keep(r) /\ Others(r) /\ UNCHANGED cron
  <2>1. CASE Return(r) /\ UNCHANGED cron
    BY <1>0, <2>1 DEF Return, Choosing
  <2>2. ASSUME NEW step \in RequestStep \ {"select_bid", "select_flag", "select_auction"},
               Goto(r, step), UNCHANGED cron
        PROVE  Keep(r) /\ Others(r) /\ UNCHANGED cron
    <3>1. req'[r].step = step /\ Others(r)
      BY <1>0, <2>2 DEF Goto, RequestState
    <3> QED
      BY <2>2, <3>1 DEF Choosing
  <2>3. CASE \/ \E u \in Seller : CreateBegin(r, u)
             \/ \E u \in Bidder, a \in Auction : PlaceBidRead(r, u, a)
             \/ \E u \in Seller, a \in Auction : CancelRead(r, u, a)
             \/ \E u \in User, o \in OrderId : ConfirmRead(r, u, o)
    <3>1. UNCHANGED cron /\ Others(r)
      BY <1>0, <2>3 DEF CreateBegin, PlaceBidRead, CancelRead, ConfirmRead
    <3>2. req'[r].step \in {"create", "bid_dup", "cancel_count", "confirm_write"}
      BY <1>0, <2>3 DEF CreateBegin, PlaceBidRead, CancelRead, ConfirmRead, Idle
    <3> QED
      BY <3>1, <3>2 DEF Choosing
  <2>4. ASSUME NEW u \in Seller, NEW a \in Auction, SelectRead(r, u, a)
        PROVE  Keep(r) /\ Others(r) /\ UNCHANGED cron
    <3>1. req'[r].auction = a /\ auction[a].status # "suspended"
      BY <1>0, <2>4 DEF SelectRead, Idle
    <3> QED
      BY <1>0, <2>4, <3>1 DEF SelectRead, Choosing
  <2>5. ASSUME NEW u \in User, NEW a \in Auction, SelectReadBid(r, u, a)
        PROVE  Keep(r) /\ Others(r) /\ UNCHANGED cron
    <3>1. CASE req' = [req EXCEPT ![r] = [@ EXCEPT !.step = "select_flag", !.user = u]]
      <4>1. req'[r].auction = req[r].auction /\ Others(r)
        BY <1>0, <3>1 DEF RequestState
      <4> QED
        BY <2>5, <4>1 DEF SelectReadBid, Choosing
    <3> QED
      BY <2>1, <2>5, <3>1 DEF SelectReadBid
  <2>6. CASE SelectFlagBid(r)
    <3>1. req'[r].auction = req[r].auction /\ Others(r)
      BY <1>0, <2>6 DEF SelectFlagBid, Goto, RequestState
    <3> QED
      BY <2>6, <3>1 DEF SelectFlagBid, Choosing
  <2>7. CASE (\E a \in Auction : CreateInsert(r, a)) \/ PlaceBidDuplicateCheck(r) \/ PlaceBidInsert(r)
             \/ PlaceBidCount(r) \/ CancelCount(r) \/ CancelWrite(r) \/ SelectWriteAuction(r)
             \/ (\E o \in OrderId : SelectCreateOrder(r, o)) \/ ConfirmWrite(r) \/ Abort(r)
    <3>1. UNCHANGED cron
      BY <2>7 DEF CreateInsert, PlaceBidDuplicateCheck, PlaceBidInsert, PlaceBidCount, CancelCount,
         CancelWrite, SelectWriteAuction, SelectCreateOrder, ConfirmWrite, Abort
    <3>2. Return(r) \/ \E step \in {"bid_insert", "bid_count", "cancel_write", "select_order"} : Goto(r, step)
      BY <2>7 DEF CreateInsert, PlaceBidDuplicateCheck, PlaceBidInsert, AfterConflict, PlaceBidCount,
         CancelCount, CancelWrite, SelectWriteAuction, SelectCreateOrder, ConfirmWrite, Abort
    <3> QED
      BY <2>1, <2>2, <3>1, <3>2 DEF RequestStep
  <2> QED
    BY <1>1, <2>3, <2>4, <2>5, <2>6, <2>7 DEF RequestNext
<1>2. ASSUME NEW r \in Request, RequestNext(r) PROVE NobodyNew
  BY <1>1, <1>2 DEF NobodyNew, HeldLive, Choosing
<1>3. CASE ReadEnded
  <2>1. UNCHANGED req /\ cron'.ended \cup cron'.barren \subseteq Ended
    BY <1>0, <1>3 DEF ReadEnded, CronState
  <2> QED
    BY <2>1 DEF NobodyNew, HeldLive, Ended
<1>4. ASSUME UNCHANGED req,
             cron'.ended \subseteq cron.ended /\ cron'.barren \subseteq cron.barren
      PROVE  NobodyNew
  BY <1>4 DEF NobodyNew, HeldLive
<1>5. CASE CronNext
  <2>1. ASSUME NEW a \in Auction, EndAuction(a) \/ CloseSelection(a) PROVE NobodyNew
    BY <1>0, <1>4, <2>1 DEF EndAuction, CloseSelection, CronState
  <2>2. CASE ReadLapsed \/ MarkNotChosen \/ ReadOverdue \/ RevertAuction
    BY <1>0, <1>4, <2>2 DEF ReadLapsed, MarkNotChosen, ReadOverdue, RevertAuction, CronState, tables
  <2>3. ASSUME NEW o \in OrderId, CancelOrder(o) PROVE NobodyNew
    BY <1>0, <1>4, <2>3 DEF CancelOrder, CronState
  <2> QED
    BY <1>3, <1>5, <2>1, <2>2, <2>3 DEF CronNext
<1>6. CASE ReadFails \/ RevertFails
  BY <1>0, <1>4, <1>6 DEF ReadFails, RevertFails, Fault, CronState
<1>7. CASE WriteFails
  BY <1>0, <1>4, <1>7 DEF WriteFails, Fault, CronState
<1>8. CASE Tick \/ ModerationNext \/ UNCHANGED vars
  BY <1>4, <1>8 DEF Tick, ModerationNext, Approve, Reject, Suspend, vars
<1>9. CASE Crash
  BY <1>0, <1>9 DEF Crash, NobodyNew, HeldLive
<1> QED
  BY <1>2, <1>5, <1>6, <1>7, <1>8, <1>9 DEF Next

\* A suspended post that nobody holds any more from before stays down, and
\* nobody comes to hold it, until an admin approves it.
THEOREM SuspensionsHold == Spec => SuspensionHolds
<1>1. IInv /\ [Next]_vars => [SuspensionKept]_vars
  <2> SUFFICES ASSUME IInv, [Next]_vars PROVE SuspensionKept
    OBVIOUS
  <2> QED
    BY StepsStayDown, NobodyComesToHold DEF StaysDown, NobodyNew, SuspensionKept
<1>2. Spec => [][SuspensionKept]_vars
  BY <1>1, InductiveInvariant, PTL DEF Spec
<1> QED
  BY <1>2 DEF SuspensionKept, SuspensionHolds

-----------------------------------------------------------------------------
(* The orders of sell posts implement Orders.                              *)

Status   == [o \in OrderId |-> IF order[o].status = "seller_confirmed"
                                 THEN "awaiting" ELSE order[o].status]
Deadline == [o \in OrderId |-> order[o].deadline]
Expired  == {o \in OrderId : <<o, "order_expired">> \in told}

\* A step that leaves the orders, the notices and the clock alone.
OrdersUntouched == UNCHANGED <<now, order, told>>

LEMMA UntouchedStutters ==
  ASSUME OrdersUntouched
  PROVE  UNCHANGED OrderPromise!vars
  BY DEF OrdersUntouched, OrderPromise!vars

LEMMA OrderPlaced ==
  ASSUME IInv, NEW r \in Request, NEW o \in OrderId, SelectCreateOrder(r, o)
  PROVE  OrderPromise!Place(o)
<1>1. order \in [OrderId -> OrderRow]
  BY DEF IInv, TypeOK
<1>2. order[o].status = "none"
  BY DEF SelectCreateOrder
<1>3. PICK row : /\ row.status = "seller_confirmed" /\ row.deadline = now + ConfirmWindow
                 /\ order' = [order EXCEPT ![o] = row]
  BY DEF SelectCreateOrder
<1>4. Status' = [Status EXCEPT ![o] = "awaiting"]
  BY <1>1, <1>3 DEF Status
<1>5. Deadline' = [Deadline EXCEPT ![o] = now + ConfirmWindow]
  BY <1>1, <1>3 DEF Deadline
<1>6. UNCHANGED <<now, Expired>>
  BY DEF SelectCreateOrder, Expired
<1> QED
  BY <1>2, <1>4, <1>5, <1>6 DEF OrderPromise!Place, Status, Deadline, Expired

LEMMA OrderConfirmed ==
  ASSUME IInv, NEW r \in Request, ConfirmWrite(r)
  PROVE  UNCHANGED OrderPromise!vars \/ \E o \in OrderId : OrderPromise!Complete(o)
<1>1. PICK o \in OrderId : o = req[r].order
  BY DEF IInv, RequestsConsistent, RequestOK, ConfirmWrite
<1>2. order \in [OrderId -> OrderRow]
  BY DEF IInv, TypeOK
<1>3. Expired' = Expired
  BY DEF ConfirmWrite, Expired
<1>4. CASE Confirmable(o)
  <2>1. order' = [order EXCEPT ![o].status = "completed"]
    BY <1>1, <1>4 DEF ConfirmWrite
  <2>2. Status' = [Status EXCEPT ![o] = "completed"]
    BY <1>2, <2>1 DEF Status, OrderRow
  <2>3. Deadline' = Deadline
    BY <1>2, <2>1 DEF Deadline, OrderRow
  <2>4. Status[o] = "awaiting" /\ now < Deadline[o]
    BY <1>2, <1>4 DEF IInv, TypeOK, OrderRow, Confirmable, Status, Deadline
  <2> QED
    BY <1>3, <2>2, <2>3, <2>4 DEF ConfirmWrite, OrderPromise!Complete, Status, Deadline, Expired
<1>5. CASE ~ Confirmable(o)
  BY <1>1, <1>3, <1>5 DEF ConfirmWrite, OrderPromise!vars, Expired
<1> QED
  BY <1>4, <1>5

LEMMA OrderLapses ==
  ASSUME IInv, NEW o \in OrderId, CancelOrder(o)
  PROVE  UNCHANGED OrderPromise!vars \/ OrderPromise!Lapse(o)
<1>1. order \in [OrderId -> OrderRow]
  BY DEF IInv, TypeOK
<1>2. order[o].deadline < now
  BY DEF IInv, CronConsistent, CancelOrder
<1>3. CASE Cancellable(o)
  <2>1. order' = [order EXCEPT ![o].status = "cancelled"]
    BY <1>3 DEF CancelOrder
  <2>2. Status' = [Status EXCEPT ![o] = "cancelled"]
    BY <1>1, <2>1 DEF Status, OrderRow
  <2>3. Deadline' = Deadline
    BY <1>1, <2>1 DEF Deadline, OrderRow
  <2>4. Status[o] = "awaiting" /\ Deadline[o] < now
    BY <1>2, <1>3 DEF Cancellable, Status, Deadline
  <2>5. UNCHANGED <<now, Expired>>
    BY DEF CancelOrder, Expired
  <2> QED
    BY <2>2, <2>3, <2>4, <2>5 DEF OrderPromise!Lapse, Status, Deadline, Expired
<1>4. CASE ~ Cancellable(o)
  BY <1>4, UntouchedStutters DEF CancelOrder, OrdersUntouched
<1> QED
  BY <1>3, <1>4

LEMMA ExpiryAnnounced ==
  ASSUME IInv, RevertAuction \/ RevertFails
  PROVE  \E o \in OrderId : OrderPromise!AnnounceExpired(o)
<1>1. PICK o \in OrderId : o = cron.order /\ order[o].status = "cancelled"
  BY DEF IInv, CronConsistent, RevertAuction, RevertFails
<1>2. told' = told \cup {<<o, "order_expired">>} /\ UNCHANGED <<now, order>>
  BY <1>1 DEF RevertAuction, RevertFails, Fault, tables
<1>3. Expired' = Expired \cup {o}
  BY <1>2 DEF Expired
<1> QED
  BY <1>1, <1>2, <1>3 DEF OrderPromise!AnnounceExpired, Status, Deadline, Expired

LEMMA StepsAreOrderSteps ==
  ASSUME IInv, [Next]_vars
  PROVE  [OrderPromise!Next]_(OrderPromise!vars)
<1>1. ASSUME NEW r \in Request, RequestNext(r) PROVE [OrderPromise!Next]_(OrderPromise!vars)
  <2>1. \/ OrdersUntouched \/ ConfirmWrite(r)
        \/ \E o \in OrderId : SelectCreateOrder(r, o)
    BY <1>1 DEF OrdersUntouched, RequestNext, CreateBegin, CreateInsert, PlaceBidRead,
       PlaceBidDuplicateCheck, PlaceBidInsert, PlaceBidCount, CancelRead, CancelCount,
       CancelWrite, SelectRead, SelectReadBid, SelectFlagBid, SelectWriteAuction,
       ConfirmRead, Abort, tables
  <2> QED
    BY <2>1, UntouchedStutters, OrderConfirmed, OrderPlaced DEF OrderPromise!Next
<1>2. CASE CronNext
  <2>1. \/ OrdersUntouched \/ RevertAuction
        \/ \E o \in OrderId : CancelOrder(o)
    BY <1>2 DEF OrdersUntouched, CronNext, ReadEnded, EndAuction, ReadLapsed, CloseSelection,
       MarkNotChosen, ReadOverdue, tables
  <2> QED
    BY <2>1, UntouchedStutters, OrderLapses, ExpiryAnnounced DEF OrderPromise!Next
<1>3. CASE Tick
  BY <1>3 DEF Tick, tables, OrderPromise!Next, OrderPromise!Tick
<1>4. CASE RevertFails
  BY <1>4, ExpiryAnnounced DEF OrderPromise!Next
<1>5. CASE ModerationNext \/ ReadFails \/ WriteFails \/ Crash \/ UNCHANGED vars
  <2>1. OrdersUntouched
    BY <1>5 DEF OrdersUntouched, ModerationNext, Approve, Reject, Suspend, ReadFails,
       WriteFails, Fault, Crash, vars, tables
  <2> QED
    BY <2>1, UntouchedStutters
<1> QED
  BY <1>1, <1>2, <1>3, <1>4, <1>5 DEF Next

\* Orders of sell posts are completed before their deadline or cancelled after
\* it, and announced as expired only when cancelled.
THEOREM SellOrdersImplementOrders == Spec => OrdersKeepPromise
<1>1. Init => OrderPromise!Init
  BY DEF Init, NoOrder, OrderPromise!Init
<1>2. IInv /\ [Next]_vars => [OrderPromise!Next]_(OrderPromise!vars)
  BY StepsAreOrderSteps
<1> QED
  BY <1>1, <1>2, InductiveInvariant, PTL DEF Spec, OrdersKeepPromise, OrderPromise!Spec

-----------------------------------------------------------------------------
(***************************************************************************)
(* The bid counter.  A request raises it in a statement after the one that *)
(* inserts the bid, so the counter and the requests between the two        *)
(* statements are covered by the bids in the table.                        *)
(***************************************************************************)

\* The sets counted are finite.
LEMMA CountsFinite ==
  ASSUME TypeOK, NEW a \in Auction
  PROVE  /\ IsFiniteSet(Counting(a)) /\ IsFiniteSet(BidsOn(a))
         /\ Cardinality(Counting(a)) \in Nat /\ Cardinality(BidsOn(a)) \in Nat
<1>1. IsFiniteSet(Counting(a))
  BY SetsAssumption, FS_Subset DEF Counting
<1>2. IsFiniteSet({a} \X User)
  BY SetsAssumption, FS_Singleton, FS_Product
<1>3. BidsOn(a) \in SUBSET ({a} \X User)
  BY DEF TypeOK, BidsOn
<1>4. IsFiniteSet(BidsOn(a))
  BY <1>2, <1>3, FS_Subset
<1> QED
  BY <1>1, <1>4, FS_CardinalityType

\* No counter is raised, no bid goes, and no request comes to count one.
LEMMA NothingCounted ==
  ASSUME IInv, IInv', CountsCovered,
         \A a \in Auction : auction'[a].bidCount <= auction[a].bidCount,
         \A a \in Auction : BidsOn(a) \subseteq BidsOn(a)' /\ Counting(a)' \subseteq Counting(a)
  PROVE  CountsCovered'
<1> SUFFICES ASSUME NEW a \in Auction
             PROVE  auction'[a].bidCount + Cardinality(Counting(a)') <= Cardinality(BidsOn(a)')
  BY DEF CountsCovered
<1>1. PICK S, T, S1, T1 : /\ S = Counting(a) /\ T = BidsOn(a)
                          /\ S1 = Counting(a)' /\ T1 = BidsOn(a)'
  OBVIOUS
<1>2. /\ IsFiniteSet(S) /\ Cardinality(S) \in Nat /\ Cardinality(T) \in Nat
  BY <1>1, CountsFinite DEF IInv
<1>3. /\ IsFiniteSet(S1) /\ IsFiniteSet(T1) /\ Cardinality(S1) \in Nat /\ Cardinality(T1) \in Nat
  <2>1. S1 \in SUBSET Request
    BY <1>1 DEF Counting
  <2>2. T1 \in SUBSET ({a} \X User)
    BY <1>1 DEF IInv, TypeOK, BidsOn
  <2>3. IsFiniteSet(S1) /\ IsFiniteSet(T1)
    BY <2>1, <2>2, SetsAssumption, FS_Singleton, FS_Product, FS_Subset
  <2> QED
    BY <2>3, FS_CardinalityType
<1>4. S1 \in SUBSET S /\ T \in SUBSET T1
  BY <1>1
<1>5. Cardinality(S1) <= Cardinality(S) /\ Cardinality(T) <= Cardinality(T1)
  BY <1>2, <1>3, <1>4, FS_Subset
<1>6. auction[a].bidCount \in Nat /\ auction'[a].bidCount \in Nat
  BY DEF IInv, TypeOK, AuctionRow
<1>7. auction[a].bidCount + Cardinality(S) <= Cardinality(T)
  BY <1>1 DEF CountsCovered
<1> QED
  BY <1>1, <1>2, <1>3, <1>5, <1>6, <1>7

\* A request that comes to count a bid has just inserted it.
LEMMA InsertCovered ==
  ASSUME IInv, IInv', CountsCovered, NEW r \in Request, PlaceBidInsert(r)
  PROVE  CountsCovered'
<1> DEFINE b == req[r].auction
           bid == <<b, req[r].user>>
<1>0. b \in Auction /\ req[r].step = "bid_insert"
  BY DEF PlaceBidInsert, IInv, RequestsConsistent, RequestOK
<1>1. CASE bid \in bids
  <2>1. UNCHANGED <<auction, bids>> /\ req' = [req EXCEPT ![r] = Idle]
    BY <1>1 DEF PlaceBidInsert, AfterConflict, Return
  <2>2. \A a \in Auction : Counting(a)' \subseteq Counting(a)
    BY <2>1 DEF Counting, Idle, IInv, TypeOK
  <2> QED
    BY <2>1, <2>2, NothingCounted DEF BidsOn, IInv, TypeOK, AuctionRow
<1>2. CASE bid \notin bids
  <2>1. /\ UNCHANGED auction /\ bids' = bids \cup {bid}
        /\ req' = [req EXCEPT ![r].step = "bid_count"]
    BY <1>2 DEF PlaceBidInsert, Goto
  <2> SUFFICES ASSUME NEW a \in Auction
               PROVE  auction'[a].bidCount + Cardinality(Counting(a)') <= Cardinality(BidsOn(a)')
    BY DEF CountsCovered
  <2>2. PICK S, T : S = Counting(a) /\ T = BidsOn(a)
    OBVIOUS
  <2>3. /\ IsFiniteSet(S) /\ Cardinality(S) \in Nat /\ IsFiniteSet(T) /\ Cardinality(T) \in Nat
        /\ auction[a].bidCount \in Nat /\ auction'[a] = auction[a]
    BY <2>1, <2>2, CountsFinite DEF IInv, TypeOK, AuctionRow
  <2>4. auction[a].bidCount + Cardinality(S) <= Cardinality(T)
    BY <2>2 DEF CountsCovered
  <2>5. CASE a = b
    <3>1. Counting(a)' = S \cup {r} /\ BidsOn(a)' = T \cup {bid}
      BY <2>1, <2>2, <2>5 DEF Counting, BidsOn, IInv, TypeOK, RequestState
    <3>2. r \notin S /\ bid \notin T
      BY <1>0, <1>2, <2>2 DEF Counting, BidsOn
    <3>3. Cardinality(S \cup {r}) = Cardinality(S) + 1
          /\ Cardinality(T \cup {bid}) = Cardinality(T) + 1
      BY <2>3, <3>2, FS_AddElement
    <3> HIDE DEF bid
    <3> QED
      BY <2>3, <2>4, <3>1, <3>3
  <2>6. CASE a # b
    <3>1. Counting(a)' = S /\ BidsOn(a)' = T
      BY <1>0, <2>1, <2>2, <2>6 DEF Counting, BidsOn, IInv, TypeOK, RequestState
    <3> QED
      BY <2>3, <2>4, <3>1
  <2> QED
    BY <2>5, <2>6
<1> QED
  BY <1>1, <1>2

\* A request that has counted its bid is done with it.
LEMMA CountCovered ==
  ASSUME IInv, IInv', CountsCovered, NEW r \in Request, PlaceBidCount(r)
  PROVE  CountsCovered'
<1> DEFINE b == req[r].auction
<1>0. b \in Auction /\ req[r].step = "bid_count" /\ UNCHANGED bids
      /\ auction' = [auction EXCEPT ![b].bidCount = @ + 1] /\ req' = [req EXCEPT ![r] = Idle]
  BY DEF PlaceBidCount, Return, IInv, RequestsConsistent, RequestOK
<1> SUFFICES ASSUME NEW a \in Auction
             PROVE  auction'[a].bidCount + Cardinality(Counting(a)') <= Cardinality(BidsOn(a)')
  BY DEF CountsCovered
<1>1. PICK S, T : S = Counting(a) /\ T = BidsOn(a)
  OBVIOUS
<1>2. /\ IsFiniteSet(S) /\ Cardinality(S) \in Nat /\ Cardinality(T) \in Nat
      /\ auction[a] \in AuctionRow /\ auction[a].bidCount \in Nat
  BY <1>1, CountsFinite DEF IInv, TypeOK, AuctionRow
<1>3. auction[a].bidCount + Cardinality(S) <= Cardinality(T) /\ BidsOn(a)' = T
  BY <1>0, <1>1 DEF CountsCovered, BidsOn
<1>4. CASE a = b
  <2>1. Counting(a)' = S \ {r} /\ r \in S
    BY <1>0, <1>1, <1>4 DEF Counting, IInv, TypeOK, Idle
  <2>2. Cardinality(S \ {r}) = Cardinality(S) - 1
    BY <1>2, <2>1, FS_RemoveElement
  <2>3. auction'[a].bidCount = auction[a].bidCount + 1
    BY <1>0, <1>2, <1>4 DEF IInv, TypeOK, AuctionRow
  <2> QED
    BY <1>2, <1>3, <2>1, <2>2, <2>3
<1>5. CASE a # b
  <2>1. Counting(a)' = S /\ auction'[a] = auction[a]
    BY <1>0, <1>1, <1>5 DEF Counting, IInv, TypeOK, Idle
  <2> QED
    BY <1>2, <1>3, <2>1
<1> QED
  BY <1>4, <1>5

\* A row written with the counter it had.
LEMMA CounterCopied ==
  ASSUME IInv, NEW a \in Auction, NEW w, w.bidCount = auction[a].bidCount,
         auction' = [auction EXCEPT ![a] = w]
  PROVE  \A c \in Auction : auction'[c].bidCount <= auction[c].bidCount
<1>1. \A c \in Auction : auction[c].bidCount \in Nat /\ auction'[c].bidCount = auction[c].bidCount
  BY DEF IInv, TypeOK, AuctionRow
<1> QED
  BY <1>1

\* The counter is written by the count and, with zero, by a new post.
LEMMA CounterWritten ==
  ASSUME IInv, IInv', [Next]_vars, \A r \in Request : ~PlaceBidCount(r)
  PROVE  \A a \in Auction : auction'[a].bidCount <= auction[a].bidCount
<1>0. \A a \in Auction : auction[a] \in AuctionRow /\ auction[a].bidCount \in Nat
  BY DEF IInv, TypeOK, AuctionRow
<1>1. CASE UNCHANGED auction
  BY <1>0, <1>1
<1>2. ASSUME NEW r \in Request, NEW a \in Auction, CreateInsert(r, a)
      PROVE  \A c \in Auction : auction'[c].bidCount <= auction[c].bidCount
  BY <1>0, <1>2 DEF CreateInsert, NoAuction, IInv, TypeOK
<1>3. ASSUME NEW r \in Request, CancelWrite(r) \/ SelectWriteAuction(r)
      PROVE  \A c \in Auction : auction'[c].bidCount <= auction[c].bidCount
  <2>1. req[r].auction \in Auction
    BY <1>3 DEF CancelWrite, SelectWriteAuction, IInv, RequestsConsistent, RequestOK
  <2> DEFINE a == req[r].auction
  <2>2. \A s, u : /\ [auction[a] EXCEPT !.status = s].bidCount = auction[a].bidCount
                  /\ [auction[a] EXCEPT !.status = s, !.winner = u].bidCount = auction[a].bidCount
    BY <1>0, <2>1 DEF AuctionRow
  <2>3. CASE UNCHANGED auction
    BY <1>0, <2>3
  <2>4. CASE CancelWrite(r) /\ UpdateStatus(a, "cancelled")
    BY <2>1, <2>2, <2>4, CounterCopied DEF UpdateStatus
  <2>5. CASE SelectWriteAuction(r)
    BY <2>1, <2>2, <2>5, CounterCopied DEF SelectWriteAuction
  <2> QED
    BY <1>3, <2>3, <2>4, <2>5 DEF CancelWrite
<1>4. ASSUME NEW a \in Auction, Approve(a) \/ Reject(a) \/ Suspend(a)
      PROVE  \A c \in Auction : auction'[c].bidCount <= auction[c].bidCount
  <2>1. \A s, t : /\ [auction[a] EXCEPT !.status = s].bidCount = auction[a].bidCount
                  /\ [auction[a] EXCEPT !.status = s, !.endTime = t].bidCount = auction[a].bidCount
    BY <1>0 DEF AuctionRow
  <2>2. CASE Approve(a)
    <3>1. auction' = [auction EXCEPT ![a] = [auction[a] EXCEPT !.status = "active", !.endTime = FreshEndTime(a)]]
      BY <2>2 DEF Approve
    <3> QED
      BY <2>1, <3>1, CounterCopied
  <2>3. ASSUME NEW s, UpdateStatus(a, s)
        PROVE  \A c \in Auction : auction'[c].bidCount <= auction[c].bidCount
    <3>1. auction' = [auction EXCEPT ![a] = [auction[a] EXCEPT !.status = s]]
      BY <2>3 DEF UpdateStatus
    <3> QED
      BY <2>1, <3>1, CounterCopied
  <2> QED
    BY <1>4, <2>2, <2>3 DEF Reject, Suspend
<1>5. ASSUME NEW a \in Auction, EndAuction(a) \/ CloseSelection(a)
      PROVE  \A c \in Auction : auction'[c].bidCount <= auction[c].bidCount
  BY <1>0, <1>5 DEF EndAuction, CloseSelection, UpdateStatus, IInv, TypeOK, AuctionRow
<1>6. CASE RevertAuction
  BY <1>0, <1>6 DEF RevertAuction, IInv, TypeOK, AuctionRow
<1> QED
  BY <1>1, <1>2, <1>3, <1>4, <1>5, <1>6, OnlyAuctionWritesWrite DEF AuctionWrite, ModerationNext

\* No statement but the insert sends a request to count a bid.
LEMMA CountingSent ==
  ASSUME IInv, [Next]_vars, \A r \in Request : ~PlaceBidInsert(r)
  PROVE  UNCHANGED bids /\ \A a \in Auction : Counting(a)' \subseteq Counting(a)
<1> DEFINE Sent == UNCHANGED bids /\ \A q \in Request : req'[q] = req[q] \/ req'[q].step # "bid_count"
<1>0. req \in [Request -> RequestState] /\ Idle.step = "idle"
  BY DEF IInv, TypeOK, Idle
<1>1. ASSUME NEW r \in Request, RequestNext(r) PROVE Sent
  <2>1. CASE Return(r) /\ UNCHANGED bids
    BY <1>0, <2>1 DEF Return
  <2>2. ASSUME NEW step \in RequestStep \ {"bid_count"}, Goto(r, step), UNCHANGED bids
        PROVE  Sent
    <3>1. req'[r].step = step /\ \A q \in Request \ {r} : req'[q] = req[q]
      BY <1>0, <2>2 DEF Goto, RequestState
    <3> QED
      BY <2>2, <3>1
  <2>3. CASE \/ \E u \in Seller : CreateBegin(r, u)
             \/ \E u \in Bidder, a \in Auction : PlaceBidRead(r, u, a)
             \/ \E u \in Seller, a \in Auction : CancelRead(r, u, a) \/ SelectRead(r, u, a)
             \/ \E u \in User, o \in OrderId : ConfirmRead(r, u, o)
    <3>1. UNCHANGED bids /\ \A q \in Request \ {r} : req'[q] = req[q]
      BY <1>0, <2>3 DEF CreateBegin, PlaceBidRead, CancelRead, SelectRead, ConfirmRead, tables
    <3>2. req'[r].step \in {"create", "bid_dup", "cancel_count", "select_bid", "confirm_write"}
      BY <1>0, <2>3 DEF CreateBegin, PlaceBidRead, CancelRead, SelectRead, ConfirmRead, Idle
    <3> QED
      BY <3>1, <3>2
  <2>4. CASE \E u \in User, a \in Auction : SelectReadBid(r, u, a)
    <3>1. PICK u \in User, a \in Auction : SelectReadBid(r, u, a)
      BY <2>4
    <3>2. CASE req' = [req EXCEPT ![r] = [@ EXCEPT !.step = "select_flag", !.user = u]]
      <4>1. req'[r].step = "select_flag" /\ \A q \in Request \ {r} : req'[q] = req[q]
        BY <1>0, <3>2 DEF RequestState
      <4> QED
        BY <3>1, <4>1 DEF SelectReadBid, tables
    <3> QED
      BY <2>1, <3>1, <3>2 DEF SelectReadBid, tables
  <2>5. CASE (\E a \in Auction : CreateInsert(r, a)) \/ PlaceBidDuplicateCheck(r) \/ PlaceBidCount(r)
             \/ CancelCount(r) \/ CancelWrite(r) \/ SelectFlagBid(r) \/ SelectWriteAuction(r)
             \/ (\E o \in OrderId : SelectCreateOrder(r, o)) \/ ConfirmWrite(r) \/ Abort(r)
    <3>1. UNCHANGED bids
      BY <2>5 DEF CreateInsert, PlaceBidDuplicateCheck, PlaceBidCount, CancelCount, CancelWrite,
         SelectFlagBid, SelectWriteAuction, SelectCreateOrder, ConfirmWrite, Abort, tables
    <3>2. Return(r) \/ \E step \in {"bid_insert", "cancel_write", "select_auction", "select_order"} : Goto(r, step)
      BY <2>5 DEF CreateInsert, PlaceBidDuplicateCheck, PlaceBidCount, CancelCount, CancelWrite,
         SelectFlagBid, SelectWriteAuction, SelectCreateOrder, ConfirmWrite, Abort
    <3> QED
      BY <2>1, <2>2, <3>1, <3>2 DEF RequestStep
  <2> QED
    BY <1>1, <2>3, <2>4, <2>5 DEF RequestNext
<1>2. ASSUME \/ CronNext \/ ModerationNext \/ ReadFails \/ WriteFails \/ RevertFails \/ Tick
             \/ UNCHANGED vars
      PROVE  Sent
  BY <1>2 DEF CronNext, ModerationNext, ReadFails, WriteFails, RevertFails, Tick, vars, Fault, tables,
     ReadEnded, EndAuction, ReadLapsed, CloseSelection, MarkNotChosen, ReadOverdue, CancelOrder,
     RevertAuction, Approve, Reject, Suspend
<1>3. ASSUME Crash PROVE Sent
  BY <1>0, <1>3 DEF Crash, tables
<1>4. Sent
  BY <1>1, <1>2, <1>3 DEF Next
<1> QED
  BY <1>4 DEF Counting

\* The counter of a post never runs ahead of its bids.
THEOREM CounterNeverAhead == Spec => []BidCountNeverAhead
<1>1. Init => CountsCovered
  <2> SUFFICES ASSUME Init, NEW a \in Auction
               PROVE  auction[a].bidCount + Cardinality(Counting(a)) <= Cardinality(BidsOn(a))
    BY DEF CountsCovered
  <2>1. Counting(a) = {} /\ BidsOn(a) = {} /\ auction[a].bidCount = 0
    BY DEF Init, Counting, BidsOn, Idle, NoAuction
  <2> QED
    BY <2>1, FS_EmptySet
<1>2. IInv /\ IInv' /\ CountsCovered /\ [Next]_vars => CountsCovered'
  <2> SUFFICES ASSUME IInv, IInv', CountsCovered, [Next]_vars PROVE CountsCovered'
    OBVIOUS
  <2>1. CASE \E r \in Request : PlaceBidInsert(r)
    BY <2>1, InsertCovered
  <2>2. CASE \E r \in Request : PlaceBidCount(r)
    BY <2>2, CountCovered
  <2>3. CASE \A r \in Request : ~PlaceBidInsert(r) /\ ~PlaceBidCount(r)
    <3>1. \A a \in Auction : auction'[a].bidCount <= auction[a].bidCount
      BY <2>3, CounterWritten
    <3>2. UNCHANGED bids /\ \A a \in Auction : Counting(a)' \subseteq Counting(a)
      BY <2>3, CountingSent
    <3> QED
      BY <3>1, <3>2, NothingCounted DEF BidsOn
  <2> QED
    BY <2>1, <2>2, <2>3
<1>3. IInv /\ CountsCovered => BidCountNeverAhead
  <2> SUFFICES ASSUME IInv, CountsCovered, NEW a \in Auction
               PROVE  auction[a].bidCount <= Cardinality(BidsOn(a))
    BY DEF BidCountNeverAhead
  <2>1. /\ Cardinality(Counting(a)) \in Nat /\ Cardinality(BidsOn(a)) \in Nat
        /\ auction[a].bidCount \in Nat
    BY CountsFinite DEF IInv, TypeOK, AuctionRow
  <2> QED
    BY <2>1 DEF CountsCovered
<1> QED
  BY <1>1, <1>2, <1>3, InductiveInvariant, PTL DEF Spec
=============================================================================
