-------------------------------- MODULE Listings --------------------------------
(***************************************************************************)
(* Who sees which posts: the feeds, searches and lists of sell_auctions    *)
(* and buy_requests, their totals, and the members a new post is announced *)
(* to.  A page of rows and its total come from two queries that repeat the *)
(* same WHERE clause, and a third query decides who is told about a post.  *)
(***************************************************************************)
EXTENDS Integers, FiniteSets, SequencesExt

CONSTANTS
  Member,
  SellPost, BuyPost,
  Owner,         \* a post's owner
  Region,        \* a post's governorate
  Interest,      \* a post's interest
  Profile,       \* a member's role, governorate, supplies_to_retail and first interests
  RegionFilter,  \* REGION_FILTER_ENABLED
  Search,        \* the sets of posts that a search may find; all of them, for a feed
  PageSize,
  None           \* SQL NULL; nobody, for an anonymous visitor

Post == SellPost \cup BuyPost

\* SupplySideRoles, RetailerRoleKey, CarrierRoleKey; all others trade freely.
SupplySide == {"wholesaler"}
Role == SupplySide \cup {"retailer", "shipping_company", "importer"}

ASSUME ListingsAssumption ==
  /\ IsFiniteSet(Member) /\ IsFiniteSet(Post)
  /\ SellPost \cap BuyPost = {} /\ None \notin Member /\ PageSize \in Nat \ {0}
  /\ Owner \in [Post -> Member] /\ DOMAIN Region = Post /\ DOMAIN Interest = Post
  /\ DOMAIN Profile = Member /\ RegionFilter \in BOOLEAN
  /\ Search \subseteq SUBSET Post
  /\ \A m \in Member : Profile[m].role \in Role /\ Profile[m].supplies \in BOOLEAN

VARIABLES
  post,   \* sell_auctions and buy_requests
  user,   \* users.status and user_interests
  now     \* hours, or the instance's unit, since midnight of the first day

\* born: created_at, as the order in which the posts were written.
Live(p) == post[p].status = "active" /\ post[p].end > now

Exists(p) == post[p].status # "none"

-----------------------------------------------------------------------------
(* Feeds and searches; a search is a feed of the posts with the term in    *)
(* their title.                                                            *)

\* viewerContext of a member, or of an anonymous visitor.
Unfiltered(u) == [id |-> u, region |-> None, isRetailer |-> FALSE]

viewer(u) ==
  IF u = None THEN Unfiltered(u)
  ELSE [id |-> u, region |-> IF RegionFilter THEN Profile[u].region ELSE None,
        isRetailer |-> Profile[u].role = "retailer"]

ownerJobKeys(v) == IF v.isRetailer THEN SupplySide ELSE {}

\* Whether a sell post's owner is one that a retailer may see.
SellsTo(v, p) ==
  ownerJobKeys(v) # {} => Profile[Owner[p]].role \in ownerJobKeys(v) /\ Profile[Owner[p]].supplies

InRegion(v, p) == v.region # None => Region[p] = v.region

ListActiveSellAuctions(v) ==
  { p \in SellPost : Live(p) /\ Owner[p] # v.id /\ InRegion(v, p) /\ SellsTo(v, p) }

\* Variant: the total forgets what retailers may not see.
CountRegionSellAuctions(v) ==
  Cardinality({ p \in SellPost : Live(p) /\ Owner[p] # v.id /\ InRegion(v, p) })

CountActiveSellAuctions(v) ==
  Cardinality({ p \in SellPost : Live(p) /\ Owner[p] # v.id /\ InRegion(v, p) /\ SellsTo(v, p) })

\* found: the posts with the term in their title.
SearchSellAuctions(v, found) ==
  { p \in SellPost \cap found : Live(p) /\ Owner[p] # v.id /\ InRegion(v, p) /\ SellsTo(v, p) }

CountSearchSellAuctions(v, found) ==
  Cardinality({ p \in SellPost \cap found :
                  Live(p) /\ Owner[p] # v.id /\ InRegion(v, p) /\ SellsTo(v, p) })

ListActiveBuyRequests(v) ==
  { p \in BuyPost : Live(p) /\ Owner[p] # v.id /\ InRegion(v, p) }

CountActiveBuyRequests(v) ==
  Cardinality({ p \in BuyPost : Live(p) /\ Owner[p] # v.id /\ InRegion(v, p) })

SearchBuyRequests(v, found) ==
  { p \in BuyPost \cap found : Live(p) /\ Owner[p] # v.id /\ InRegion(v, p) }

CountSearchBuyRequests(v, found) ==
  Cardinality({ p \in BuyPost \cap found : Live(p) /\ Owner[p] # v.id /\ InRegion(v, p) })

\* The lists of an owner and of the moderators, and their totals.
ListSellAuctionsByOwner(u)        == { p \in SellPost : Exists(p) /\ Owner[p] = u }
CountSellAuctionsByOwner(u)       == Cardinality({ p \in SellPost : Exists(p) /\ Owner[p] = u })
ListBuyRequestsByOwner(u)         == { p \in BuyPost : Exists(p) /\ Owner[p] = u }
CountBuyRequestsByOwner(u)        == Cardinality({ p \in BuyPost : Exists(p) /\ Owner[p] = u })
ListPendingApprovalSellAuctions   == { p \in SellPost : post[p].status = "pending_approval" }
CountPendingApprovalSellAuctions  == Cardinality({ p \in SellPost : post[p].status = "pending_approval" })
ListPendingApprovalBuyRequests    == { p \in BuyPost : post[p].status = "pending_approval" }
CountPendingApprovalBuyRequests   == Cardinality({ p \in BuyPost : post[p].status = "pending_approval" })
ListModeratableSellAuctions       == { p \in SellPost : post[p].status \in {"active", "suspended"} }
CountModeratableSellAuctions      == Cardinality({ p \in SellPost : post[p].status \in {"active", "suspended"} })
ListModeratableBuyRequests        == { p \in BuyPost : post[p].status \in {"active", "suspended"} }
CountModeratableBuyRequests       == Cardinality({ p \in BuyPost : post[p].status \in {"active", "suspended"} })

-----------------------------------------------------------------------------
(* Pages.                                                                  *)

\* Posts of one's interests first, newest first.
Before(interests, p, q) ==
  LET mine(r) == Interest[r] \in interests
  IN  IF mine(p) = mine(q) THEN post[p].born > post[q].born ELSE mine(p)

\* The rows one after the other: the k-th is the one with k - 1 rows before it.
Ordered(rows, before) ==
  [k \in 1 .. Cardinality(rows) |->
     CHOOSE p \in rows : Cardinality({q \in rows : <<q, p>> \in before}) = k - 1]

FeedOrder(rows, interests) ==
  Ordered(rows, {x \in rows \X rows : Before(interests, x[1], x[2])})

\* The approval queue shows the oldest first.
QueueOrder(rows) ==
  Ordered(rows, {x \in rows \X rows : post[x[1]].born < post[x[2]].born})

\* LIMIT pageSize OFFSET (page - 1) * pageSize.
Page(rows, page) ==
  LET offset == (page - 1) * PageSize
      upto   == offset + PageSize
  IN  SubSeq(rows, offset + 1, IF upto < Len(rows) THEN upto ELSE Len(rows))

\* Turning the pages that the total promises shows every row once.
Shows(rows, total) ==
  FlattenSeq([k \in 1 .. (total + PageSize - 1) \div PageSize |-> Page(rows, k)]) = rows

\* The service's answer for a feed: rows and total; a retailer is told that
\* there are no buy requests without a query.
ListActiveAuctions(v, interests) ==
  [rows |-> FeedOrder(ListActiveSellAuctions(v), interests), total |-> CountActiveSellAuctions(v)]

SearchAuctions(v, found, interests) ==
  [rows |-> FeedOrder(SearchSellAuctions(v, found), interests),
   total |-> CountSearchSellAuctions(v, found)]

Nothing == [rows |-> <<>>, total |-> 0]

ListRequests(v, interests) ==
  IF v.isRetailer THEN Nothing
  ELSE [rows |-> FeedOrder(ListActiveBuyRequests(v), interests), total |-> CountActiveBuyRequests(v)]

SearchRequests(v, found, interests) ==
  IF v.isRetailer THEN Nothing
  ELSE [rows |-> FeedOrder(SearchBuyRequests(v, found), interests),
        total |-> CountSearchBuyRequests(v, found)]

ListMySellAuctions(u) ==
  [rows |-> FeedOrder(ListSellAuctionsByOwner(u), {}), total |-> CountSellAuctionsByOwner(u)]

ListMyBuyRequests(u) ==
  [rows |-> FeedOrder(ListBuyRequestsByOwner(u), {}), total |-> CountBuyRequestsByOwner(u)]

Exact(answer) == Shows(answer.rows, answer.total) /\ answer.total = Len(answer.rows)

\* The moderators' pages hold a page of each kind, under one total.
ListPending ==
  [sell |-> QueueOrder(ListPendingApprovalSellAuctions),
   buy |-> QueueOrder(ListPendingApprovalBuyRequests),
   total |-> CountPendingApprovalSellAuctions + CountPendingApprovalBuyRequests]

ListPublished ==
  [sell |-> FeedOrder(ListModeratableSellAuctions, {}),
   buy |-> FeedOrder(ListModeratableBuyRequests, {}),
   total |-> CountModeratableSellAuctions + CountModeratableBuyRequests]

ExactQueue(answer) ==
  /\ Shows(answer.sell, answer.total) /\ Shows(answer.buy, answer.total)
  /\ answer.total = Len(answer.sell) + Len(answer.buy)

-----------------------------------------------------------------------------
(* GetActiveUsersByInterest: whom a post is announced to.                  *)

\* Retailers hear of sell posts of the supply side only, and of no buy request.
ExcludeRetailers(p) == p \in BuyPost \/ Profile[Owner[p]].role \notin SupplySide

Audience(p) ==
  { m \in Member :
      /\ Interest[p] \in user[m].interests /\ user[m].status = "active" /\ m # Owner[p]
      /\ RegionFilter => Profile[m].region = Region[p]
      /\ ExcludeRetailers(p) => Profile[m].role # "retailer"
      /\ Profile[m].role # "shipping_company" }
=============================================================================
