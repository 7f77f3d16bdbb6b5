---------------------------- MODULE ShippingQuotes ----------------------------
(***************************************************************************)
(* The prices carriers quote for moving the goods of a post or of an       *)
(* order: the shipping_quotes table, the carrier columns of orders, the    *)
(* carrier's and the merchant's endpoints, and the step of a closing deal  *)
(* that carries a quote accepted on the post over to the order.            *)
(*                                                                         *)
(* Every SQL statement commits by itself, so a call is the sequence of its *)
(* statements and calls interleave between them.  Columns that no          *)
(* statement updates (who owns a job, who sent a quote, its price) are     *)
(* read where they are needed, and only calls that pass the checks on them *)
(* are modelled: those of the job's parties and of approved carriers.      *)
(***************************************************************************)
EXTENDS Naturals, FiniteSets

CONSTANTS
  Carrier,     \* users with the carrier role
  Post,        \* sell posts and buy requests
  OrderId,     \* rows the orders table can hold
  Region,      \* governorates
  Origin,      \* Post -> Region: region_id of the post
  Coverage,    \* Carrier -> set of Region: carrier_regions
  Price,       \* prices
  Ask,         \* bound: Carrier -> Price, the one price a carrier asks
  Stages,      \* bound: the stages the administrator chooses among
  Call,        \* calls that may be served at the same time
  MaxFaults,   \* bound: how many statements may fail
  None         \* SQL NULL

Job == Post \cup OrderId

ASSUME JobsAssumption ==
  /\ Post \cap OrderId = {}
  /\ Origin \in [Post -> Region]
  /\ Coverage \in [Carrier -> SUBSET Region]
  /\ Ask \in [Carrier -> Price]
  /\ None \notin Carrier \cup Job \cup Price
  /\ Stages \subseteq {"order", "post", "both"}

VARIABLES
  stage,     \* app_settings carrier_quote_stage
  post,      \* the posts, as far as quoting looks at them
  order,     \* orders: status, post, the far end, carrier_id, shipping_price
  quote,     \* shipping_quotes, keyed by carrier and job
  told,      \* <<carrier, job, answer>> for every answer sent
  pickedAt,  \* orders inserted when their post already had an accepted quote
  call,      \* the calls being served
  faults     \* how many statements have failed

rows == <<stage, post, order, quote, told, pickedAt>>
vars == <<rows, call, faults>>

-----------------------------------------------------------------------------
QuoteStatus == {"none", "pending", "accepted", "rejected", "withdrawn"}

\* "ended" is a post whose status is still active after its end_time.
PostStatus  == {"none", "active", "ended", "inactive"}

\* "open" stands for created, seller_confirmed and buyer_confirmed.
OrderStatus == {"none", "open", "completed", "cancelled"}

QuoteRow == [status : QuoteStatus, price : Price \cup {None}]
OrderRow == [status : OrderStatus, post : Post \cup {None}, to : Region \cup {None},
             carrier : Carrier \cup {None}, price : Price \cup {None}]

CallStep == {"idle", "insert", "attach", "siblings", "accept_notify",
             "reject_notify", "find", "carry"}
CallState == [step : CallStep, carrier : Carrier \cup {None}, job : Job \cup {None},
              price : Price \cup {None}, losers : SUBSET Carrier]

TypeOK ==
  /\ stage \in Stages
  /\ post \in [Post -> PostStatus]
  /\ order \in [OrderId -> OrderRow]
  /\ quote \in [Carrier -> [Job -> QuoteRow]]
  /\ told \subseteq Carrier \X Job \X {"accepted", "rejected"}
  /\ pickedAt \subseteq OrderId
  /\ call \in [Call -> CallState]
  /\ faults \in Nat

NoQuote == [status |-> "none", price |-> None]
NoOrder == [status |-> "none", post |-> None, to |-> None, carrier |-> None, price |-> None]
Idle    == [step |-> "idle", carrier |-> None, job |-> None, price |-> None, losers |-> {}]

Init ==
  /\ stage \in Stages
  /\ post = [p \in Post |-> "none"]
  /\ order = [o \in OrderId |-> NoOrder]
  /\ quote = [c \in Carrier |-> [j \in Job |-> NoQuote]]
  /\ told = {}
  /\ pickedAt = {}
  /\ call = [k \in Call |-> Idle]
  /\ faults = 0

Goto(k, step) == call' = [call EXCEPT ![k].step = step]
Return(k)     == call' = [call EXCEPT ![k] = Idle]

MayFail == faults < MaxFaults
Fail    == faults' = faults + 1

QuotesOnOrders == stage \in {"order", "both"}
QuotesOnPosts  == stage \in {"post", "both"}

-----------------------------------------------------------------------------
(* What a carrier is shown, and what the endpoint lets it quote.           *)

ListQuotableOrdersForCarrier(c) ==
  {o \in OrderId : /\ order[o].carrier = None
                   /\ order[o].status \in {"open", "completed"}
                   /\ {Origin[order[o].post], order[o].to} \cap Coverage[c] # {}}

ListQuotablePostsForCarrier(c) ==
  {p \in Post : post[p] = "active" /\ Origin[p] \in Coverage[c]}

ListJobs(c) ==
  (IF QuotesOnOrders THEN ListQuotableOrdersForCarrier(c) ELSE {}) \cup
  (IF QuotesOnPosts  THEN ListQuotablePostsForCarrier(c)  ELSE {})

\* Variant: the order is looked up by its status alone.
ResolveOrderByStatus(o) == order[o].status = "open"

ResolveOrder(o) == order[o].status \in {"open", "completed"} /\ order[o].carrier = None

ResolvePost(p)  == post[p] \in {"active", "ended"}

ResolveTarget(j) ==
  \/ j \in OrderId /\ QuotesOnOrders /\ ResolveOrder(j)
  \/ j \in Post    /\ QuotesOnPosts  /\ ResolvePost(j)

-----------------------------------------------------------------------------
(* What the carrier and the job's merchants are shown.                     *)

ListMyQuotes(c) == {j \in Job : quote[c][j] # NoQuote}

ListShippingQuotesForOrder(o) == {c \in Carrier : quote[c][o].status \notin {"none", "withdrawn"}}
ListShippingQuotesForPost(p)  == {c \in Carrier : quote[c][p].status \notin {"none", "withdrawn"}}

ListQuoteRows(j) ==
  IF j \in OrderId THEN ListShippingQuotesForOrder(j) ELSE ListShippingQuotesForPost(j)

\* The carriers whose phone ListQuotesForJob shows.
PhonesShown(j) == {c \in ListQuoteRows(j) : quote[c][j].status = "accepted"}

-----------------------------------------------------------------------------
(* CreateQuote.                                                            *)

\* Both reads, of the account and of the job, before anything is written.
QuoteBegin(k, c, j) ==
  /\ call[k].step = "idle"
  /\ ResolveTarget(j)
  /\ call' = [call EXCEPT ![k] = [Idle EXCEPT !.step = "insert", !.carrier = c,
                                              !.job = j, !.price = Ask[c]]]
  /\ UNCHANGED <<rows, faults>>

\* The unique indexes span withdrawn rows too; the job is not looked at again.
CreateShippingQuote(k) ==
  LET c == call[k].carrier
      j == call[k].job
  IN
  /\ call[k].step = "insert"
  /\ quote' = IF quote[c][j] = NoQuote
                THEN [quote EXCEPT ![c][j] = [status |-> "pending", price |-> call[k].price]]
                ELSE quote
  /\ Return(k)
  /\ UNCHANGED <<stage, post, order, told, pickedAt, faults>>

-----------------------------------------------------------------------------
(* WithdrawQuote, AcceptQuote, RejectQuote: one UPDATE decides.            *)

Answered(c, j, status) ==
  /\ quote[c][j].status = "pending"
  /\ quote' = [quote EXCEPT ![c][j].status = status]

WithdrawQuote(k, c, j) ==
  /\ call[k].step = "idle"
  /\ Answered(c, j, "withdrawn")
  /\ UNCHANGED <<stage, post, order, told, pickedAt, call, faults>>

AcceptShippingQuote(k, c, j) ==
  /\ call[k].step = "idle"
  /\ Answered(c, j, "accepted")
  /\ call' = [call EXCEPT ![k] = [Idle EXCEPT !.step = IF j \in OrderId THEN "attach" ELSE "siblings",
                                              !.carrier = c, !.job = j,
                                              !.price = quote[c][j].price]]
  /\ UNCHANGED <<stage, post, order, told, pickedAt, faults>>

\* Variant: the price of the order is left for a later statement.
AttachCarrierOnly(o, c, price) == order' = [order EXCEPT ![o].carrier = c]

AttachCarrierToOrder(o, c, price) ==
  order' = [order EXCEPT ![o].carrier = c, ![o].price = price]

\* A failure ends the call with the quote already accepted.
AcceptAttach(k) ==
  /\ call[k].step = "attach"
  /\ \/ /\ AttachCarrierToOrder(call[k].job, call[k].carrier, call[k].price)
        /\ Goto(k, "siblings")
        /\ UNCHANGED faults
     \/ MayFail /\ Fail /\ Return(k) /\ UNCHANGED order
  /\ UNCHANGED <<stage, post, quote, told, pickedAt>>

\* Variant: the siblings are answered whatever their status.
AllSiblings(c, j) == {d \in Carrier \ {c} : quote[d][j].status # "none"}

Siblings(c, j) == {d \in Carrier \ {c} : quote[d][j].status = "pending"}

\* A failure is logged and leaves the losers pending.
RejectSiblingShippingQuotes(k) ==
  LET j == call[k].job
      lost == Siblings(call[k].carrier, j)
  IN
  /\ call[k].step = "siblings"
  /\ \/ /\ quote' = [d \in Carrier |->
                       IF d \in lost THEN [quote[d] EXCEPT ![j].status = "rejected"]
                                     ELSE quote[d]]
        /\ call' = [call EXCEPT ![k].step = "accept_notify", ![k].losers = lost]
        /\ UNCHANGED faults
     \/ MayFail /\ Fail /\ Goto(k, "accept_notify") /\ UNCHANGED quote
  /\ UNCHANGED <<stage, post, order, told, pickedAt>>

\* Variant: only the winner hears of it.
AcceptNotifyWinner(k) ==
  /\ call[k].step = "accept_notify"
  /\ told' = told \cup {<<call[k].carrier, call[k].job, "accepted">>}
  /\ Return(k)
  /\ UNCHANGED <<stage, post, order, quote, pickedAt, faults>>

AcceptNotify(k) ==
  LET j == call[k].job IN
  /\ call[k].step = "accept_notify"
  /\ told' = told \cup {<<call[k].carrier, j, "accepted">>}
                  \cup {<<d, j, "rejected">> : d \in call[k].losers}
  /\ Return(k)
  /\ UNCHANGED <<stage, post, order, quote, pickedAt, faults>>

RejectShippingQuote(k, c, j) ==
  /\ call[k].step = "idle"
  /\ Answered(c, j, "rejected")
  /\ call' = [call EXCEPT ![k] = [Idle EXCEPT !.step = "reject_notify", !.carrier = c, !.job = j]]
  /\ UNCHANGED <<stage, post, order, told, pickedAt, faults>>

RejectNotify(k) ==
  /\ call[k].step = "reject_notify"
  /\ told' = told \cup {<<call[k].carrier, call[k].job, "rejected">>}
  /\ Return(k)
  /\ UNCHANGED <<stage, post, order, quote, pickedAt, faults>>

-----------------------------------------------------------------------------
(* A deal closes: the post has left the active status, the order is        *)
(* inserted, and CarryQuoteToOrder runs before the parties are told.       *)

AcceptedOn(j) == {c \in Carrier : quote[c][j].status = "accepted"}

DealCloses(k, p, o, to) ==
  /\ call[k].step = "idle"
  /\ post[p] = "inactive"
  /\ order[o].status = "none"
  /\ order' = [order EXCEPT ![o] = [NoOrder EXCEPT !.status = "open", !.post = p, !.to = to]]
  /\ pickedAt' = IF AcceptedOn(p) # {} THEN pickedAt \cup {o} ELSE pickedAt
  /\ call' = [call EXCEPT ![k] = [Idle EXCEPT !.step = "find", !.job = o]]
  /\ UNCHANGED <<stage, post, quote, told, faults>>

\* Variant: the quote is looked for on the order, which has none yet.
QuotesOfTheOrder(o) == AcceptedOn(o)

\* GetAcceptedQuoteForPost has no ORDER BY: any accepted quote may come back.
GetAcceptedQuoteForPost(o) == AcceptedOn(order[o].post)

CarryFind(k) ==
  LET found == GetAcceptedQuoteForPost(call[k].job) IN
  /\ call[k].step = "find"
  /\ \/ \E c \in found :
          /\ call' = [call EXCEPT ![k].step = "carry", ![k].carrier = c,
                                  ![k].price = quote[c][order[call[k].job].post].price]
          /\ UNCHANGED faults
     \/ found = {} /\ Return(k) /\ UNCHANGED faults
     \/ MayFail /\ Fail /\ Return(k)
  /\ UNCHANGED rows

CarryAttach(k) ==
  /\ call[k].step = "carry"
  /\ \/ AttachCarrierToOrder(call[k].job, call[k].carrier, call[k].price) /\ UNCHANGED faults
     \/ MayFail /\ Fail /\ UNCHANGED order
  /\ Return(k)
  /\ UNCHANGED <<stage, post, quote, told, pickedAt>>

-----------------------------------------------------------------------------
(* The rest of the platform, as far as quoting can see it.                 *)

SetStage(s) ==
  /\ stage # s
  /\ stage' = s
  /\ UNCHANGED <<post, order, quote, told, pickedAt, call, faults>>

PostMoves(p) ==
  /\ \E s \in PostStatus :
       /\ <<post[p], s>> \in {<<"none", "active">>, <<"active", "ended">>, <<"active", "inactive">>,
                              <<"ended", "inactive">>, <<"inactive", "active">>}
       /\ post' = [post EXCEPT ![p] = s]
  /\ UNCHANGED <<stage, order, quote, told, pickedAt, call, faults>>

OrderEnds(o, status) ==
  /\ order[o].status = "open"
  /\ order' = [order EXCEPT ![o].status = status]
  /\ UNCHANGED <<stage, post, quote, told, pickedAt, call, faults>>

-----------------------------------------------------------------------------
QuoteNext(k) ==
  \/ \E c \in Carrier, j \in Job :
       \/ QuoteBegin(k, c, j)
       \/ WithdrawQuote(k, c, j)
       \/ AcceptShippingQuote(k, c, j)
       \/ RejectShippingQuote(k, c, j)
  \/ CreateShippingQuote(k)
  \/ AcceptAttach(k)
  \/ RejectSiblingShippingQuotes(k)
  \/ AcceptNotify(k)
  \/ RejectNotify(k)

CarryNext(k) ==
  \/ \E p \in Post, o \in OrderId, to \in Region : DealCloses(k, p, o, to)
  \/ CarryFind(k)
  \/ CarryAttach(k)

PlatformNext ==
  \/ \E s \in Stages : SetStage(s)
  \/ \E p \in Post : PostMoves(p)
  \/ \E o \in OrderId, s \in {"completed", "cancelled"} : OrderEnds(o, s)

Next == (\E k \in Call : QuoteNext(k) \/ CarryNext(k)) \/ PlatformNext

Spec == Init /\ [][Next]_vars

-----------------------------------------------------------------------------
(* Properties.                                                             *)

\* An order names a carrier only if that carrier's quote, on the order or on
\* the post it came from, was accepted, and at the price of that quote.  Three
\* statements of two different calls write these columns, which keep their types.
CarrierBacked ==
  TypeOK /\ \A o \in OrderId :
    order[o].carrier # None =>
      \E j \in {o, order[o].post} :
        quote[order[o].carrier][j] = [status |-> "accepted", price |-> order[o].price]

\* What a carrier was told still shows on both sides: an accepted carrier finds
\* the job in its list and the merchant sees its phone, a rejected one stands as
\* rejected; however its own withdrawal falls between the merchant's statements.
AnswersTruthful ==
  \A t \in told :
    /\ t[2] \in ListMyQuotes(t[1])
    /\ t[3] = "accepted" => t[1] \in PhonesShown(t[2])
    /\ t[3] = "rejected" => t[1] \in ListQuoteRows(t[2]) \ PhonesShown(t[2])

\* What the feed offers an approved carrier the endpoint accepts: the SQL of the
\* feed and the Go of resolveTarget agree on the order's status and carrier, the
\* post's status and the administrator's stage.
FeedAgreesWithEndpoint == \A c \in Carrier : \A j \in ListJobs(c) : ResolveTarget(j)

\* When no statement has failed and the calls are done, a quote accepted on an
\* order has put a carrier on it, and an order whose post had an accepted quote
\* when it was inserted has one too.
AcceptedIsAttached ==
  (faults = 0 /\ \A k \in Call : call[k].step = "idle") =>
    \A o \in OrderId :
      AcceptedOn(o) # {} \/ o \in pickedAt => order[o].carrier # None

\* Every carrier turned down has been told so once the calls are done.
RejectedAreTold ==
  (\A k \in Call : call[k].step = "idle") =>
    \A c \in Carrier, j \in Job :
      quote[c][j].status = "rejected" => <<c, j, "rejected">> \in told

\* What the migration promises: an accepted quote of a post is on its order,
\* so the order is always the record of who moves the goods.
OrderRecordsCarrier ==
  (faults = 0 /\ \A k \in Call : call[k].step = "idle") =>
    \A o \in OrderId :
      order[o].status # "none" /\ AcceptedOn(order[o].post) # {} => order[o].carrier # None
-----------------------------------------------------------------------------
(* The inductive invariant of the proofs.  What a call read may be out of  *)
(* date by the time it writes, except for two things: a quote that was     *)
(* answered keeps its answer and its price, and an order that was inserted *)
(* keeps its post.                                                         *)

OrdersConsistent ==
  \A o \in OrderId :
    /\ order[o].status = "none" => order[o] = NoOrder
    /\ order[o].status # "none" => order[o].post \in Post

\* Nobody can quote on an order before it is inserted.
QuotesOnRealJobs ==
  \A c \in Carrier, o \in OrderId :
    order[o].status = "none" => quote[c][o] = NoQuote

Holds(c, j, price) == quote[c][j] = [status |-> "accepted", price |-> price]

CallOK(k) ==
  LET s == call[k] IN
  /\ s.step # "idle" => s.job \in Job
  /\ s.step \in {"insert", "attach", "siblings", "accept_notify", "reject_notify", "carry"}
       => s.carrier \in Carrier
  /\ s.step \in {"attach", "find", "carry"} => s.job \in OrderId
  /\ s.step \in {"insert", "attach", "find", "carry"} /\ s.job \in OrderId
       => order[s.job].status # "none"
  /\ s.step \in {"attach", "siblings", "accept_notify"} => Holds(s.carrier, s.job, s.price)
  /\ s.step = "carry" => Holds(s.carrier, order[s.job].post, s.price)
  /\ s.step = "reject_notify" => quote[s.carrier][s.job].status = "rejected"
  /\ \A d \in s.losers : s.step = "accept_notify" /\ quote[d][s.job].status = "rejected"

CallsConsistent == \A k \in Call : CallOK(k)

ToldConsistent == \A t \in told : quote[t[1]][t[2]].status = t[3]

\* The call that has still to tell a carrier it was turned down.
WillTell(k, c, j) ==
  /\ call[k].job = j
  /\ \/ call[k].step = "reject_notify" /\ call[k].carrier = c
     \/ call[k].step = "accept_notify" /\ c \in call[k].losers

RejectedAreHeard ==
  \A c \in Carrier, j \in Job :
    quote[c][j].status = "rejected" =>
      <<c, j, "rejected">> \in told \/ \E k \in Call : WillTell(k, c, j)

\* The calls that have still to put a carrier on the order.
Accepting(k, o) == call[k].job = o /\ call[k].step = "attach"
Carrying(k, o)  == call[k].job = o /\ call[k].step \in {"find", "carry"}

AttachedOrUnderWay ==
  \A o \in OrderId :
    /\ o \in pickedAt => order[o].status # "none" /\ AcceptedOn(order[o].post) # {}
    /\ faults = 0 /\ AcceptedOn(o) # {} =>
         order[o].carrier # None \/ \E k \in Call : Accepting(k, o)
    /\ faults = 0 /\ o \in pickedAt =>
         order[o].carrier # None \/ \E k \in Call : Carrying(k, o)

IInv ==
  /\ CarrierBacked
  /\ OrdersConsistent
  /\ QuotesOnRealJobs
  /\ CallsConsistent
  /\ ToldConsistent
  /\ RejectedAreHeard
  /\ AttachedOrUnderWay
=============================================================================
