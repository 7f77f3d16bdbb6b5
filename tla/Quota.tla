--------------------------------- MODULE Quota ---------------------------------
(***************************************************************************)
(* What a member may do: bidding slots, bidders per post, and the monthly  *)
(* allowance of a subscription, with the subscriptions themselves.         *)
(*                                                                         *)
(* PlaceBid and PlaceOffer compare limits with rows read earlier, one       *)
(* statement after the other; CreateSellAuction and CreateBuyRequest only  *)
(* have the monthly allowance.  Nothing is locked, so requests that run at *)
(* the same time may overrun a limit; the properties say by how much.      *)
(***************************************************************************)
EXTENDS Integers, FiniteSets

CONSTANTS
  Member,
  SellPost, BuyPost, \* posts of members outside the model
  Visit,         \* bound: the members and posts that may meet
  Tier,          \* subscription tiers; those of equal price, as 028 left them
  Trading,       \* the tiers that allow posting, bidding and offering
  Limit,         \* a tier's monthly maximum, None when unlimited
  Call, Admin,   \* requests of members and of administrators
  MaxActive,     \* MAX_ACTIVE_BIDS
  MaxBidders,    \* MAX_BIDS_PER_AUCTION
  FirstOfMonth,  \* the first day of a day's month, DATE_TRUNC('month', day)
  FirstBefore,   \* the first day of the month before
  Horizon,       \* bound: the last day
  MaxUses,       \* bound: uses of an allowance after which no request starts
  MaxGrants,     \* bound: subscriptions granted or edited
  MaxRestores,   \* bound: suspended posts approved again
  MaxFaults,     \* bound: statements that fail
  Start,         \* bound: the situations the model starts from
  None           \* SQL NULL, or no such row

Post == SellPost \cup BuyPost

Op  == {"sell", "buy", "bid", "offer"}
Day == 0 .. Horizon + 1

PostRow == [status : {"active", "suspended", "over"}, count : Nat]
SubRow  == [active : BOOLEAN, primary : BOOLEAN, ends : Day \cup {None},
            used : [Op -> Nat], reset : Day]
Step    == {"own", "first", "second", "tier", "reset", "spend", "insert", "count"}

\* held: the slots counted so far; tier: the subscription row as read.
CallState == [op : Op, step : Step, member : Member, post : Post \cup {None},
              held : Nat, tier : Tier \cup {None}]
GrantState == [member : Member, tier : Tier, step : {"lookup", "reactivate", "create"}]

ASSUME QuotaAssumption ==
  /\ Trading \subseteq Tier /\ SellPost \cap BuyPost = {} /\ Call # {}
  /\ IsFiniteSet(Call) /\ IsFiniteSet(Member) /\ IsFiniteSet(Post)
  /\ Limit \in [Tier -> Nat \cup {None}]
  /\ {MaxActive, MaxBidders} \subseteq Nat \ {0}
  /\ {Horizon, MaxUses, MaxGrants, MaxRestores, MaxFaults} \subseteq Nat
  /\ None \notin Nat \cup Post \cup SubRow \cup CallState \cup GrantState
  /\ Visit \subseteq Member \X Post
  /\ Start \subseteq [open : SUBSET Post, tier : [Member -> Tier \cup {None}],
                     today : 0 .. Horizon, granted : 0 .. MaxGrants]

\* A month is at least a day long, and a day starts one or goes on with that
\* of the day before.
ASSUME CalendarAssumption ==
  /\ {FirstOfMonth, FirstBefore} \subseteq [0 .. Horizon -> Int]
  /\ \A d \in 0 .. Horizon : FirstBefore[d] < FirstOfMonth[d] /\ FirstOfMonth[d] <= d
  /\ \A d \in 1 .. Horizon :
       \/ FirstOfMonth[d] = d /\ FirstBefore[d] = FirstOfMonth[d - 1]
       \/ FirstOfMonth[d] = FirstOfMonth[d - 1] /\ FirstBefore[d] = FirstBefore[d - 1]

VARIABLES
  post,    \* sell_auctions and buy_requests
  bids,    \* sell_bids and supply_offers
  sub,     \* user_subscriptions: a row per member and tier
  call,    \* members' requests
  grant,   \* administrators' requests
  today, granted, restored, faults

vars == <<post, bids, sub, call, grant, today, granted, restored, faults>>

-----------------------------------------------------------------------------
TypeOK ==
  /\ post \in [Post -> PostRow] /\ bids \subseteq Member \X Post
  /\ sub \in [Member -> [Tier -> SubRow \cup {None}]]
  /\ call \in [Call -> CallState \cup {None}] /\ grant \in [Admin -> GrantState \cup {None}]
  /\ today \in 0 .. Horizon /\ {granted, restored, faults} \subseteq Nat

Unused == [op \in Op |-> 0]
Row(ends) == [active |-> TRUE, primary |-> TRUE, ends |-> ends, used |-> Unused, reset |-> today]

\* At most one subscription each, running without an end.
Init ==
  \E s \in Start :
    /\ today = s.today /\ granted = s.granted /\ restored = 0 /\ faults = 0
    /\ post = [p \in Post |-> [status |-> IF p \in s.open THEN "active" ELSE "over", count |-> 0]]
    /\ bids = {}
    /\ sub = [m \in Member |-> [t \in Tier |-> IF t = s.tier[m] THEN Row(None) ELSE None]]
    /\ call = [c \in Call |-> None] /\ grant = [a \in Admin |-> None]

At(c, step)   == call[c] # None /\ call[c].step = step
Goto(c, step) == call' = [call EXCEPT ![c].step = step]
Done(c)       == call' = [call EXCEPT ![c] = None]
Fail          == faults < MaxFaults /\ faults' = faults + 1

Count(S) == Cardinality(S)

MayStart(m, op) == \A t \in Tier : sub[m][t] # None => sub[m][t].used[op] < MaxUses

-----------------------------------------------------------------------------
(* PlaceBid and PlaceOffer.                                                 *)

BidOrOffer(p) == IF p \in SellPost THEN "bid" ELSE "offer"

\* Variant: the post takes one bidder more than it should.
HasRoomForOne(p) == post[p].count <= MaxBidders

HasRoom(p) == post[p].count < MaxBidders

\* GetByPublicID: the status and the bidder count are those of the row read here.
ReadPost(c, m, p) ==
  /\ call[c] = None /\ post[p].status = "active" /\ HasRoom(p) /\ MayStart(m, BidOrOffer(p))
  /\ call' = [call EXCEPT ![c] = [op |-> BidOrOffer(p), step |-> "own", member |-> m,
                                  post |-> p, held |-> 0, tier |-> None]]
  /\ UNCHANGED <<post, bids, sub, grant, today, granted, restored, faults>>

\* GetByAuctionAndBidder, GetByRequestAndSupplier.
CheckOwn(c) ==
  /\ At(c, "own")
  /\ IF <<call[c].member, call[c].post>> \in bids THEN Done(c) ELSE Goto(c, "first")
  /\ UNCHANGED <<post, bids, sub, grant, today, granted, restored, faults>>

\* A member's bids, or offers, on posts that are still active.
Active(m, posts) == {p \in posts : <<m, p>> \in bids /\ post[p].status = "active"}

\* PlaceBid counts bids first, PlaceOffer offers.
CountFirst(c) ==
  /\ At(c, "first")
  /\ call' = [call EXCEPT ![c].step = "second",
                ![c].held = Count(Active(call[c].member,
                                         IF call[c].op = "bid" THEN SellPost ELSE BuyPost))]
  /\ UNCHANGED <<post, bids, sub, grant, today, granted, restored, faults>>

\* Variant: bids are held against bids only, offers against offers.
SlotsOfOneKind(c, others) == call[c].held

SlotsOfBothKinds(c, others) == call[c].held + others

CountSecond(c) ==
  LET others == Count(Active(call[c].member, IF call[c].op = "bid" THEN BuyPost ELSE SellPost))
  IN  /\ At(c, "second")
      /\ IF SlotsOfBothKinds(c, others) < MaxActive
         THEN call' = [call EXCEPT ![c].step = "tier", ![c].held = 0] ELSE Done(c)
      /\ UNCHANGED <<post, bids, sub, grant, today, granted, restored, faults>>

\* CreateSellAuction and CreateBuyRequest start here.
Create(c, m, op) ==
  /\ call[c] = None /\ MayStart(m, op)
  /\ call' = [call EXCEPT ![c] = [op |-> op, step |-> "tier", member |-> m, post |-> None,
                                  held |-> 0, tier |-> None]]
  /\ UNCHANGED <<post, bids, sub, grant, today, granted, restored, faults>>

-----------------------------------------------------------------------------
(* The subscription and its monthly allowance.                             *)

Live(m) == {t \in Tier : /\ sub[m][t] # None /\ sub[m][t].active
                         /\ sub[m][t].ends # None => sub[m][t].ends > today}

Primary(m) == {t \in Live(m) : sub[m][t].primary}

\* The rows LIMIT 1 may return: primary ones first, then by price.
GetUserWithSubscription(m) == IF Primary(m) # {} THEN Primary(m) ELSE Live(m)

\* AddDate(0, -1, 0): the same day of the month before; past the end of that
\* month the days go on counting, into the month of d itself.
MonthAgo(d) == FirstBefore[d] + (d - FirstOfMonth[d])

\* MonthResetAt.Before(now.AddDate(0, -1, 0)).  On the very day both may be
\* the case: the time of day, which is not modelled, decides.
MonthPassed(row) == row.reset <= MonthAgo(today)
MonthRuns(row)   == row.reset >= MonthAgo(today)

\* Variant: the last use of the month is allowed twice.
SpentPast(used, t) == used > Limit[t]

Spent(used, t) == used >= Limit[t]

\* What is left to do under tier t, when the row says `used`.
Spend(c, t, used) ==
  IF Spent(used, t) THEN Done(c) ELSE call' = [call EXCEPT ![c].step = "spend", ![c].tier = t]

\* No tier, or one that does not trade, ends the request; an unlimited one
\* goes straight on; a limited one is compared as it was read.
CheckTier(c) ==
  LET m == call[c].member
      read == GetUserWithSubscription(m)
  IN  /\ At(c, "tier")
      /\ \/ (read \subseteq Trading => read = {}) /\ Done(c)
         \/ \E t \in read \cap Trading :
              \/ Limit[t] = None /\ Goto(c, "insert")
              \/ /\ Limit[t] # None /\ MonthPassed(sub[m][t])
                 /\ call' = [call EXCEPT ![c].step = "reset", ![c].tier = t]
              \/ /\ Limit[t] # None /\ MonthRuns(sub[m][t])
                 /\ Spend(c, t, sub[m][t].used[call[c].op])
      /\ UNCHANGED <<post, bids, sub, grant, today, granted, restored, faults>>

\* month_reset_at < DATE_TRUNC('month', NOW()).
Due(row) == row.reset < FirstOfMonth[today]

ResetRow(row) ==
  IF row # None /\ Due(row) THEN [row EXCEPT !.used = Unused, !.reset = today] ELSE row

\* Every member's rows at once.  A failure is ignored; the handler counts from
\* zero all the same.
ResetMonthlyCounts(c) ==
  /\ At(c, "reset")
  /\ Spend(c, call[c].tier, 0)
  /\ \/ sub' = [m \in Member |-> [t \in Tier |-> ResetRow(sub[m][t])]] /\ UNCHANGED faults
     \/ Fail /\ UNCHANGED sub
  /\ UNCHANGED <<post, bids, grant, today, granted, restored>>

\* IncrementBidCount and its three siblings; a failure is ignored.  The
\* checks that follow may still refuse the request.
IncrementCount(c) ==
  /\ At(c, "spend")
  /\ \/ /\ sub' = [sub EXCEPT ![call[c].member][call[c].tier].used[call[c].op] = @ + 1]
        /\ UNCHANGED faults
     \/ Fail /\ UNCHANGED sub
  /\ call' = [call EXCEPT ![c].step = "insert", ![c].tier = None]
  /\ UNCHANGED <<post, bids, grant, today, granted, restored>>

\* CreateSellBid or CreateSupplyOffer.  UNIQUE (post, member); the price and
\* other checks come first and may refuse.  New posts are not followed here.
Insert(c) ==
  /\ At(c, "insert")
  /\ \/ Done(c) /\ UNCHANGED bids
     \/ /\ call[c].op \in {"bid", "offer"} /\ <<call[c].member, call[c].post>> \notin bids
        /\ bids' = bids \cup {<<call[c].member, call[c].post>>} /\ Goto(c, "count")
  /\ UNCHANGED <<post, sub, grant, today, granted, restored, faults>>

\* IncrementBidCount, IncrementOfferCount of the post; a failure is ignored.
IncrementPostCount(c) ==
  /\ At(c, "count") /\ Done(c)
  /\ \/ post' = [post EXCEPT ![call[c].post].count = @ + 1] /\ UNCHANGED faults
     \/ Fail /\ UNCHANGED post
  /\ UNCHANGED <<bids, sub, grant, today, granted, restored>>

-----------------------------------------------------------------------------
(* Administrators: GrantSubscription, statement by statement, and          *)
(* UpdateSubscription, of which CancelSubscription is a case.              *)

DeactivateRow(row) ==
  IF row # None /\ row.active THEN [row EXCEPT !.active = FALSE, !.primary = FALSE] ELSE row

DeactivateAllUserSubscriptions(a, m, t) ==
  /\ grant[a] = None /\ granted < MaxGrants /\ granted' = granted + 1
  /\ sub' = [sub EXCEPT ![m] = [tier \in Tier |-> DeactivateRow(sub[m][tier])]]
  /\ grant' = [grant EXCEPT ![a] = [member |-> m, tier |-> t, step |-> "lookup"]]
  /\ UNCHANGED <<post, bids, call, today, restored, faults>>

GrantAt(a, step) == grant[a] # None /\ grant[a].step = step

LookUpRow(a) ==
  /\ GrantAt(a, "lookup")
  /\ grant' = [grant EXCEPT ![a].step =
                 IF sub[grant[a].member][grant[a].tier] = None THEN "create" ELSE "reactivate"]
  /\ UNCHANGED <<post, bids, sub, call, today, granted, restored, faults>>

\* The counters of the row go on where they were.
ReactivateRow(row, end) == [row EXCEPT !.active = TRUE, !.primary = TRUE, !.ends = end]

\* A failed write leaves the member with nothing; so does a second grant
\* that runs into the first one's UNIQUE row.
WriteGrant(a, step, row(_, _)) ==
  LET g == grant[a]
  IN  /\ GrantAt(a, step)
      /\ grant' = [grant EXCEPT ![a] = None]
      /\ \/ \E end \in {today + 1, Horizon + 1} :
              sub' = [sub EXCEPT ![g.member][g.tier] = row(@, end)] /\ UNCHANGED faults
         \/ Fail /\ UNCHANGED sub
      /\ UNCHANGED <<post, bids, call, today, granted, restored>>

CreateRow(row, end) == IF row = None THEN Row(end) ELSE row

ReactivateUserSubscription(a) == WriteGrant(a, "reactivate", ReactivateRow)
CreateUserSubscription(a)     == WriteGrant(a, "create", CreateRow)

UpdateUserSubscription(m, t) ==
  /\ sub[m][t] # None /\ granted < MaxGrants /\ granted' = granted + 1
  /\ \E active, primary \in BOOLEAN, ends \in {sub[m][t].ends, today, Horizon + 1} :
       sub' = [sub EXCEPT ![m][t].active = active, ![m][t].primary = primary, ![m][t].ends = ends]
  /\ UNCHANGED <<post, bids, call, grant, today, restored, faults>>

-----------------------------------------------------------------------------
\* The post ends, is selected or cancelled; or moderation suspends it.
Close(p) ==
  /\ post[p].status = "active"
  /\ \E status \in {"over", "suspended"} : post' = [post EXCEPT ![p].status = status]
  /\ UNCHANGED <<bids, sub, call, grant, today, granted, restored, faults>>

\* ApproveSellAuction and ApproveBuyRequest take suspended posts too.
Restore(p) ==
  /\ post[p].status = "suspended" /\ restored < MaxRestores /\ restored' = restored + 1
  /\ post' = [post EXCEPT ![p].status = "active"]
  /\ UNCHANGED <<bids, sub, call, grant, today, granted, faults>>

Tick ==
  /\ today < Horizon /\ today' = today + 1
  /\ UNCHANGED <<post, bids, sub, call, grant, granted, restored, faults>>

CallNext(c) ==
  \/ \E v \in Visit : ReadPost(c, v[1], v[2])
  \/ \E m \in Member, op \in {"sell", "buy"} : Create(c, m, op)
  \/ CheckOwn(c) \/ CountFirst(c) \/ CountSecond(c) \/ CheckTier(c)
  \/ ResetMonthlyCounts(c) \/ IncrementCount(c) \/ Insert(c) \/ IncrementPostCount(c)

AdminNext ==
  \/ \E a \in Admin : \/ LookUpRow(a) \/ ReactivateUserSubscription(a) \/ CreateUserSubscription(a)
                      \/ \E m \in Member, t \in Tier : DeactivateAllUserSubscriptions(a, m, t)
  \/ \E m \in Member, t \in Tier : UpdateUserSubscription(m, t)

Next == (\E c \in Call : CallNext(c)) \/ AdminNext \/ (\E p \in Post : Close(p) \/ Restore(p)) \/ Tick

Spec == Init /\ [][Next]_vars

-----------------------------------------------------------------------------
(* Properties.  Requests that run at the same time overrun a limit by one  *)
(* each, and not by more however long they go on.                          *)

Overrun == Cardinality(Call) - 1

\* MAX_ACTIVE_BIDS: the bids and offers a member has on active posts stay
\* within the limit, apart from those whose checks overlapped and from posts
\* that moderation took away and gave back; and every row keeps its type.
SlotsHold == TypeOK /\ \A m \in Member : Count(Active(m, Post)) <= MaxActive + Overrun + restored

\* MAX_BIDS_PER_AUCTION: the same for a post's bidders, apart from those
\* whose count was not written.
BiddersHold == \A p \in Post : Count({m \in Member : <<m, p>> \in bids}) <= MaxBidders + Overrun + faults

\* On some day since the row was emptied the handler could find that a month
\* had passed while the reset found the row still of this month: one of the
\* last days of a month longer than the one before it, for a row emptied in
\* the first days of the same month.
Forgotten(row) ==
  \E d \in row.reset .. today : FirstOfMonth[d] <= row.reset /\ row.reset <= MonthAgo(d)

Within(m, t, op) == sub[m][t].used[op] <= Limit[t] + Overrun + faults

\* The monthly allowance: the same for each counter, apart from a reset that
\* failed and from the rows the two notions of a month disagree about, whose
\* counter the handler takes for zero again and again.
AllowanceHolds ==
  \A m \in Member, t \in Tier, op \in Op :
    (sub[m][t] # None /\ Limit[t] # None /\ ~Forgotten(sub[m][t])) => Within(m, t, op)

-----------------------------------------------------------------------------
(* What the source says and the code does not keep.                        *)

\* "Reset if new month": the counter is taken for zero when a new month has
\* begun, so that a month's uses stay within the limit on its last days too.
AllowanceHoldsAllMonth ==
  \A m \in Member, t \in Tier, op \in Op :
    (sub[m][t] # None /\ Limit[t] # None) => Within(m, t, op)

-----------------------------------------------------------------------------
(* The inductive invariant: for each limit, where the requests that passed *)
(* its check are on their way to use it up.                                *)

CallOK(c) ==
  call[c] # None =>
    /\ call[c].op \in {"bid", "offer"} <=> call[c].post \in Post
    /\ call[c].step \in {"own", "first", "second", "count"} => call[c].post \in Post
    /\ call[c].step \in {"reset", "spend"} =>
         /\ call[c].tier \in Tier /\ Limit[call[c].tier] # None
         /\ sub[call[c].member][call[c].tier] # None
    /\ call[c].step = "spend" => Limit[call[c].tier] >= 1

GrantsConsistent == \A a \in Admin :
  GrantAt(a, "reactivate") => sub[grant[a].member][grant[a].tier] # None

\* MAX_BIDS_PER_AUCTION.  Requests on post p before their bid is written, and
\* those that still have to count it.
Enters(state, p) == state # None /\ state.post = p /\ state.step # "count"
Counts(state, p) == state # None /\ state.post = p /\ state.step = "count"

Entering(p) == {c \in Call : Enters(call[c], p)}
Counting(p) == {c \in Call : Counts(call[c], p)}
Bidders(p)  == {m \in Member : <<m, p>> \in bids}

BiddersOK(p) ==
  /\ Count(Bidders(p)) <= post[p].count + Count(Counting(p)) + faults
  /\ Count(Bidders(p)) + Count(Entering(p)) <= MaxBidders + Overrun + faults

\* The monthly allowance.  A request that waits to reset the month will count
\* from zero; while the row is due the reset still empties it.
Takes(state, step, m, t, op) ==
  state # None /\ state.step = step /\ state.member = m /\ state.tier = t /\ state.op = op

Spending(m, t, op)  == {c \in Call : Takes(call[c], "spend", m, t, op)}
Resetting(m, t, op) == {c \in Call : Takes(call[c], "reset", m, t, op)}

AllowanceOK(m, t, op) ==
  (sub[m][t] # None /\ Limit[t] # None /\ ~Forgotten(sub[m][t])) =>
    LET used == sub[m][t].used[op]
    IN  /\ used + Count(Spending(m, t, op)) <= Limit[t] + Overrun + faults
        /\ ~Due(sub[m][t]) /\ Limit[t] >= 1 =>
             used + Count(Spending(m, t, op)) + Count(Resetting(m, t, op))
               <= Limit[t] + Overrun + faults

\* MAX_ACTIVE_BIDS.  The two counts of a check are taken at different times.
\* Of the checks that have passed, take the one whose first count is the
\* latest: since then every other request has added one bid at most.  rank
\* is the order of the first counts, star the place of that check in it.
Clears(state, m) == /\ state # None /\ state.member = m /\ state.post \in Post
                    /\ state.step \in {"tier", "reset", "spend", "insert"}
Halves(state, m) == state # None /\ state.member = m /\ state.step = "second"

Cleared(m) == {c \in Call : Clears(call[c], m)}
Halfway(m) == {c \in Call : Halves(call[c], m)}
Older(m, rank, n) == {c \in Halfway(m) : rank[c] < n}

FirstKind(c) == IF call[c].op = "bid" THEN SellPost ELSE BuyPost

Ranked(m, rank, star, top) ==
  /\ star <= top /\ \A c \in Call : rank[c] < top
  /\ \A c, d \in Halfway(m) : c # d => rank[c] # rank[d]
  /\ Count(Active(m, Post)) + Count(Cleared(m)) + Count(Older(m, rank, star))
       <= MaxActive + Overrun + restored
  /\ \A c \in Halfway(m) : rank[c] >= star =>
       Count(Active(m, FirstKind(c))) + Count(Cleared(m)) + Count(Older(m, rank, rank[c]))
         <= call[c].held + Overrun + restored

SlotsOK(m) == \E rank \in [Call -> Nat], star \in Nat, top \in Nat : Ranked(m, rank, star, top)

IInv ==
  /\ TypeOK /\ GrantsConsistent
  /\ \A c \in Call : CallOK(c)
  /\ \A p \in Post : BiddersOK(p)
  /\ \A m \in Member, t \in Tier, op \in Op : AllowanceOK(m, t, op)
  /\ \A m \in Member : SlotsOK(m)
=============================================================================
