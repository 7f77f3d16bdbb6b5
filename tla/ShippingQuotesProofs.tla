------------------------ MODULE ShippingQuotesProofs ------------------------
(***************************************************************************)
(* Proofs about ShippingQuotes, for every number of carriers, posts,       *)
(* orders and calls, and however many statements fail.  The argument: no   *)
(* statement takes an answer back (QuotesKept) or an order away            *)
(* (OrdersKept), so what a call read of either still holds when it writes, *)
(* and every answer or carrier that is owed is owed by a call under way.   *)
(***************************************************************************)
EXTENDS ShippingQuotes, TLAPS

Answer == {"accepted", "rejected", "withdrawn"}

\* A step takes no answer back.
QuotesKept ==
  \A c \in Carrier, j \in Job :
    quote[c][j].status \in Answer => quote'[c][j] = quote[c][j]

\* A step takes no order away, nor its carrier.
OrdersKept ==
  \A o \in OrderId : order[o].status # "none" =>
    /\ order'[o].status # "none"
    /\ order'[o].post = order[o].post
    /\ order[o].carrier # None => order'[o].carrier # None

\* The start: empty tables and no call.
LEMMA InitIInv == Init => IInv
<1> SUFFICES ASSUME Init PROVE IInv
  OBVIOUS
<1>1. TypeOK
  <2>1. NoQuote \in QuoteRow
    BY DEF NoQuote, QuoteRow, QuoteStatus
  <2>2. NoOrder \in OrderRow
    BY DEF NoOrder, OrderRow, OrderStatus
  <2>3. Idle \in CallState
    BY DEF Idle, CallState, CallStep
  <2> QED
    BY <2>1, <2>2, <2>3 DEF Init, TypeOK, PostStatus
<1>2. CarrierBacked /\ OrdersConsistent /\ QuotesOnRealJobs
  BY <1>1 DEF Init, CarrierBacked, OrdersConsistent, QuotesOnRealJobs, NoOrder, NoQuote, Job
<1>3. CallsConsistent
  BY DEF Init, CallsConsistent, CallOK, Idle
<1>4. ToldConsistent /\ RejectedAreHeard /\ AttachedOrUnderWay
  BY DEF Init, ToldConsistent, RejectedAreHeard, AttachedOrUnderWay, AcceptedOn, NoQuote, Job
<1> QED
  BY <1>1, <1>2, <1>3, <1>4 DEF IInv

-----------------------------------------------------------------------------
(* What a step has to respect to keep each part of IInv.                   *)

\* A step that keeps the accepted quotes and the carriers keeps carriers backed.
LEMMA BackingKept ==
  ASSUME IInv, TypeOK', QuotesKept, UNCHANGED order
  PROVE  CarrierBacked'
<1> SUFFICES ASSUME NEW o \in OrderId, order[o].carrier # None
             PROVE  \E j \in {o, order[o].post} :
                      quote'[order[o].carrier][j] = [status |-> "accepted", price |-> order[o].price]
  BY DEF CarrierBacked
<1>1. PICK j \in {o, order[o].post} :
        quote[order[o].carrier][j] = [status |-> "accepted", price |-> order[o].price]
  BY DEF IInv, CarrierBacked
<1>2. order[o].carrier \in Carrier /\ j \in Job
  <2>1. order[o] \in OrderRow
    BY DEF IInv, CarrierBacked, TypeOK
  <2>2. order[o].post \in Post
    BY <2>1 DEF IInv, OrdersConsistent, NoOrder
  <2> QED
    BY <2>1, <2>2 DEF OrderRow, Job
<1> QED
  BY <1>1, <1>2 DEF QuotesKept, Answer

\* A step that keeps the answered quotes keeps the messages true.
LEMMA ToldKept ==
  ASSUME IInv, QuotesKept, UNCHANGED told
  PROVE  ToldConsistent'
<1> SUFFICES ASSUME NEW t \in told PROVE quote'[t[1]][t[2]].status = t[3]
  BY DEF ToldConsistent
<1>1. t[1] \in Carrier /\ t[2] \in Job /\ t[3] \in {"accepted", "rejected"}
  BY DEF IInv, CarrierBacked, TypeOK
<1>2. quote[t[1]][t[2]].status = t[3]
  BY DEF IInv, ToldConsistent
<1> QED
  BY <1>1, <1>2 DEF QuotesKept, Answer

\* What a call holds survives the steps of the others.
LEMMA CallsKept ==
  ASSUME IInv, QuotesKept, OrdersKept,
         \A k \in Call : call'[k] = call[k] \/ CallOK(k)'
  PROVE  CallsConsistent'
<1> SUFFICES ASSUME NEW k \in Call, call'[k] = call[k] PROVE CallOK(k)'
  BY DEF CallsConsistent
<1>1. CallOK(k)
  BY DEF IInv, CallsConsistent
<1>2. call[k] \in CallState
  BY DEF IInv, CarrierBacked, TypeOK
<1> DEFINE s == call[k]
<1>3. s.step \in {"insert", "attach", "find", "carry"} /\ s.job \in OrderId
        => order'[s.job].status # "none"
  BY <1>1 DEF CallOK, OrdersKept
<1>4. s.step \in {"attach", "siblings", "accept_notify"} =>
        quote'[s.carrier][s.job] = [status |-> "accepted", price |-> s.price]
  BY <1>1 DEF CallOK, QuotesKept, Answer, Holds
<1>5. s.step = "carry" =>
        quote'[s.carrier][order'[s.job].post] = [status |-> "accepted", price |-> s.price]
  <2> SUFFICES ASSUME s.step = "carry"
               PROVE  quote'[s.carrier][order'[s.job].post]
                        = [status |-> "accepted", price |-> s.price]
    OBVIOUS
  <2>1. s.job \in OrderId /\ order[s.job].status # "none" /\ s.carrier \in Carrier
    BY <1>1 DEF CallOK
  <2>2. order[s.job].post \in Job /\ order'[s.job].post = order[s.job].post
    BY <2>1 DEF IInv, OrdersConsistent, Job, OrdersKept
  <2>3. quote[s.carrier][order[s.job].post] = [status |-> "accepted", price |-> s.price]
    BY <1>1 DEF CallOK, Holds
  <2> QED
    BY <2>1, <2>2, <2>3 DEF QuotesKept, Answer
<1>6. s.step = "reject_notify" => quote'[s.carrier][s.job].status = "rejected"
  BY <1>1 DEF CallOK, QuotesKept, Answer
<1>7. \A d \in s.losers : quote'[d][s.job].status = "rejected"
  BY <1>1, <1>2 DEF CallOK, CallState, QuotesKept, Answer
<1> QED
  BY <1>1, <1>3, <1>4, <1>5, <1>6, <1>7 DEF CallOK, Holds

\* A rejected carrier that was or will be told still is.
LEMMA HeardKept ==
  ASSUME IInv, told \subseteq told',
         \A c \in Carrier, j \in Job :
           quote'[c][j].status = "rejected" =>
             \/ quote[c][j].status = "rejected"
             \/ \E k \in Call : WillTell(k, c, j)',
         \A k \in Call, c \in Carrier, j \in Job :
           WillTell(k, c, j) => WillTell(k, c, j)' \/ <<c, j, "rejected">> \in told'
  PROVE  RejectedAreHeard'
BY DEF IInv, RejectedAreHeard

\* An accepted quote stays attached or under way.
LEMMA AttachedKept ==
  ASSUME IInv, TypeOK', QuotesKept, OrdersKept, UNCHANGED pickedAt,
         faults' = 0 => faults = 0,
         \A o \in OrderId, c \in Carrier :
           quote'[c][o].status = "accepted" =>
             quote[c][o].status = "accepted" \/ \E k \in Call : Accepting(k, o)',
         \A k \in Call, o \in OrderId :
           Accepting(k, o) => Accepting(k, o)' \/ order'[o].carrier # None \/ faults' # 0,
         \A k \in Call, o \in OrderId :
           Carrying(k, o) /\ o \in pickedAt =>
             Carrying(k, o)' \/ order'[o].carrier # None \/ faults' # 0
  PROVE  AttachedOrUnderWay'
<1> SUFFICES ASSUME NEW o \in OrderId
             PROVE  /\ o \in pickedAt => order'[o].status # "none" /\ AcceptedOn(order[o].post)' # {}
                    /\ faults' = 0 /\ AcceptedOn(o)' # {} =>
                         order'[o].carrier # None \/ \E k \in Call : Accepting(k, o)'
                    /\ faults' = 0 /\ o \in pickedAt =>
                         order'[o].carrier # None \/ \E k \in Call : Carrying(k, o)'
  BY DEF AttachedOrUnderWay
<1>0. order[o].status = "none" => order[o].carrier = None
  BY DEF IInv, OrdersConsistent, NoOrder
<1>1. ASSUME o \in pickedAt PROVE order'[o].status # "none" /\ AcceptedOn(order[o].post)' # {}
  <2>1. order[o].status # "none" /\ AcceptedOn(order[o].post) # {}
    BY <1>1 DEF IInv, AttachedOrUnderWay
  <2>2. order[o].post \in Job
    BY <2>1 DEF IInv, OrdersConsistent, Job
  <2> QED
    BY <2>1, <2>2 DEF AcceptedOn, OrdersKept, QuotesKept, Answer
<1>2. ASSUME faults' = 0, AcceptedOn(o)' # {}
      PROVE  order'[o].carrier # None \/ \E k \in Call : Accepting(k, o)'
  <2>1. PICK c \in Carrier : quote'[c][o].status = "accepted"
    BY <1>2 DEF AcceptedOn
  <2>2. CASE AcceptedOn(o) # {}
    BY <1>0, <1>2, <2>2 DEF IInv, AttachedOrUnderWay, OrdersKept
  <2>3. CASE AcceptedOn(o) = {}
    BY <2>1, <2>3 DEF AcceptedOn
  <2> QED
    BY <2>2, <2>3
<1>3. ASSUME faults' = 0, o \in pickedAt
      PROVE  order'[o].carrier # None \/ \E k \in Call : Carrying(k, o)'
  BY <1>0, <1>3 DEF IInv, AttachedOrUnderWay, OrdersKept
<1> QED
  BY <1>1, <1>2, <1>3

-----------------------------------------------------------------------------
(* Steps that write no table: a call reads, fails or returns.              *)

\* Setting one call leaves the others alone.
LEMMA CallSet ==
  ASSUME TypeOK, NEW k \in Call, NEW v \in CallState, call' = [call EXCEPT ![k] = v]
  PROVE  /\ call' \in [Call -> CallState]
         /\ call'[k] = v
         /\ \A m \in Call : m # k => call'[m] = call[m]
BY DEF TypeOK

\* A call that returns holds nothing.
LEMMA IdleIsOK ==
  /\ Idle \in CallState
  /\ \A k \in Call : call'[k] = Idle => CallOK(k)'
BY DEF Idle, CallState, CallStep, CallOK

\* A step that only moves one call keeps IInv.
LEMMA OnlyTheCall ==
  ASSUME IInv, NEW k \in Call, NEW v \in CallState, call' = [call EXCEPT ![k] = v],
         UNCHANGED rows, faults' \in {faults, faults + 1}, CallOK(k)',
         \A c \in Carrier, j \in Job : ~WillTell(k, c, j),
         \A o \in OrderId : Accepting(k, o) => faults' # 0,
         \A o \in pickedAt : Carrying(k, o) => faults' # 0 \/ Carrying(k, o)'
  PROVE  IInv'
<1> USE DEF rows
<1>0. TypeOK
  BY DEF IInv, CarrierBacked
<1>1. /\ call' \in [Call -> CallState]
      /\ \A m \in Call : m # k => call'[m] = call[m]
  BY <1>0, CallSet
<1>2. TypeOK'
  BY <1>0, <1>1 DEF TypeOK
<1>3. QuotesKept /\ OrdersKept
  BY DEF QuotesKept, OrdersKept
<1>4. CarrierBacked' /\ OrdersConsistent' /\ QuotesOnRealJobs' /\ ToldConsistent'
  BY <1>2, <1>3, BackingKept, ToldKept DEF IInv, OrdersConsistent, QuotesOnRealJobs
<1>5. CallsConsistent'
  BY <1>1, <1>3, CallsKept
<1>6. RejectedAreHeard'
  <2>1. \A m \in Call, c \in Carrier, j \in Job : WillTell(m, c, j) => WillTell(m, c, j)'
    BY <1>1 DEF WillTell
  <2> QED
    BY <2>1, HeardKept
<1>7. AttachedOrUnderWay'
  <2>1. \A m \in Call, o \in OrderId : Accepting(m, o) => Accepting(m, o)' \/ faults' # 0
    BY <1>1 DEF Accepting
  <2>2. \A m \in Call, o \in OrderId :
          Carrying(m, o) /\ o \in pickedAt => Carrying(m, o)' \/ faults' # 0
    BY <1>1 DEF Carrying
  <2>3. faults' = 0 => faults = 0
    BY <1>0 DEF TypeOK
  <2> QED
    BY <1>2, <1>3, <2>1, <2>2, <2>3, AttachedKept
<1> QED
  BY <1>4, <1>5, <1>6, <1>7 DEF IInv

\* CreateQuote reads its target.
LEMMA QuoteBeginStep ==
  ASSUME IInv, NEW k \in Call, NEW c \in Carrier, NEW j \in Job, QuoteBegin(k, c, j)
  PROVE  IInv'
<1> DEFINE v == [Idle EXCEPT !.step = "insert", !.carrier = c, !.job = j, !.price = Ask[c]]
<1>1. /\ v \in CallState
      /\ v.step = "insert" /\ v.carrier = c /\ v.job = j /\ v.losers = {}
  BY JobsAssumption DEF Idle, CallState, CallStep
<1> HIDE DEF v
<1>2. call' = [call EXCEPT ![k] = v]
  BY DEF QuoteBegin, v
<1>3. call'[k] = v
  BY <1>1, <1>2, CallSet DEF IInv, CarrierBacked
<1>4. j \in OrderId => order[j].status # "none"
  BY JobsAssumption DEF QuoteBegin, ResolveTarget, ResolveOrder
<1>5. CallOK(k)'
  <2>1. order' = order
    BY DEF QuoteBegin, rows
  <2> QED
    BY <1>1, <1>3, <1>4, <2>1 DEF CallOK
<1> QED
  BY <1>1, <1>2, <1>5, OnlyTheCall DEF QuoteBegin, WillTell, Accepting, Carrying

\* CarryQuoteToOrder reads the accepted quote of the post.
LEMMA CarryFindStep ==
  ASSUME IInv, NEW k \in Call, CarryFind(k)
  PROVE  IInv'
<1> DEFINE o == call[k].job
           p == order[o].post
<1>0. TypeOK /\ call[k].step = "find" /\ UNCHANGED rows
  BY DEF IInv, CarrierBacked, CarryFind
<1>1. o \in OrderId /\ order[o].status # "none" /\ call[k].losers = {} /\ CallOK(k)
  BY <1>0 DEF IInv, CallsConsistent, CallOK, CarryFind
<1>2. p \in Job
  BY <1>1 DEF IInv, OrdersConsistent, Job
<1>3. /\ \A c \in Carrier, j \in Job : ~WillTell(k, c, j)
      /\ \A q \in OrderId : ~Accepting(k, q)
      /\ \A q \in OrderId : Carrying(k, q) => q = o
  BY <1>0 DEF WillTell, Accepting, Carrying
<1>4. ASSUME NEW c \in AcceptedOn(p), UNCHANGED faults,
             call' = [call EXCEPT ![k].step = "carry", ![k].carrier = c,
                                  ![k].price = quote[c][p].price]
      PROVE  IInv'
  <2> DEFINE v == [call[k] EXCEPT !.step = "carry", !.carrier = c, !.price = quote[c][p].price]
  <2>1. c \in Carrier /\ quote[c][p].status = "accepted" /\ quote[c][p] \in QuoteRow
    BY <1>0, <1>2 DEF AcceptedOn, TypeOK
  <2>2. /\ v \in CallState
        /\ v.step = "carry" /\ v.carrier = c /\ v.job = o /\ v.price = quote[c][p].price
        /\ v.losers = {}
    BY <1>0, <1>1, <2>1 DEF TypeOK, CallState, CallStep, QuoteRow
  <2> HIDE DEF v
  <2>4. call' = [call EXCEPT ![k] = v]
    BY <1>4 DEF v
  <2>5. call'[k] = v
    BY <1>0, <2>2, <2>4, CallSet
  <2>6. quote[c][p] = [status |-> "accepted", price |-> quote[c][p].price]
    BY <2>1 DEF QuoteRow
  <2>7. CallOK(k)'
    BY <1>0, <1>1, <2>1, <2>2, <2>5, <2>6 DEF CallOK, rows, Job, Holds
  <2>8. \A q \in pickedAt : Carrying(k, q) => Carrying(k, q)'
    BY <2>2, <2>5 DEF Carrying
  <2> QED
    BY <1>0, <1>3, <1>4, <2>2, <2>4, <2>7, <2>8, OnlyTheCall DEF TypeOK
<1>5. ASSUME Return(k), \/ UNCHANGED faults /\ AcceptedOn(p) = {}
                        \/ Fail
      PROVE  IInv'
  <2>1. call'[k] = Idle
    BY <1>0, <1>5, IdleIsOK, CallSet DEF Return
  <2>2. \A q \in pickedAt : Carrying(k, q) => faults' # 0
    <3>1. o \in pickedAt => AcceptedOn(p) # {}
      BY <1>1 DEF IInv, AttachedOrUnderWay
    <3>2. Fail => faults' # 0
      BY <1>0 DEF TypeOK, Fail
    <3>3. pickedAt \subseteq OrderId
      BY <1>0 DEF TypeOK
    <3> QED
      BY <1>3, <1>5, <3>1, <3>2, <3>3
  <2>3. faults' \in {faults, faults + 1}
    BY <1>5 DEF Fail
  <2> QED
    BY <1>0, <1>3, <1>5, <2>1, <2>2, <2>3, IdleIsOK, OnlyTheCall DEF Return
<1> QED
  BY <1>0, <1>4, <1>5 DEF CarryFind, GetAcceptedQuoteForPost

-----------------------------------------------------------------------------
(* Steps that write shipping_quotes.                                       *)

\* A step of call k that writes quotes owes nothing to the carriers but what k still holds.
QuotesWrittenBy(k) ==
  /\ quote' \in [Carrier -> [Job -> QuoteRow]]
  /\ QuotesKept
  /\ \A c \in Carrier, o \in OrderId :
       quote'[c][o] = quote[c][o] \/ order[o].status # "none"
  /\ \A c \in Carrier, j \in Job :
       quote'[c][j].status = "rejected" =>
         quote[c][j].status = "rejected" \/ WillTell(k, c, j)'
  /\ \A c \in Carrier, o \in OrderId :
       quote'[c][o].status = "accepted" =>
         quote[c][o].status = "accepted" \/ Accepting(k, o)'

\* A step that writes quotes, and no order or message, keeps IInv.
LEMMA QuoteWritten ==
  ASSUME IInv, NEW k \in Call, NEW v \in CallState, call' = [call EXCEPT ![k] = v],
         UNCHANGED <<stage, post, order, told, pickedAt, faults>>,
         call[k].step \in {"idle", "insert", "siblings"},
         QuotesWrittenBy(k), CallOK(k)'
  PROVE  IInv'
<1>0. TypeOK
  BY DEF IInv, CarrierBacked
<1> USE DEF QuotesWrittenBy
<1>1. /\ call' \in [Call -> CallState]
      /\ \A m \in Call : m # k => call'[m] = call[m]
  BY <1>0, CallSet
<1>2. TypeOK'
  BY <1>0, <1>1 DEF TypeOK
<1>3. OrdersKept
  BY DEF OrdersKept
<1>4. CarrierBacked' /\ OrdersConsistent' /\ ToldConsistent'
  BY <1>2, BackingKept, ToldKept DEF IInv, OrdersConsistent
<1>5. QuotesOnRealJobs'
  BY DEF IInv, QuotesOnRealJobs
<1>6. CallsConsistent'
  BY <1>1, <1>3, CallsKept
<1>7. RejectedAreHeard'
  <2>1. \A m \in Call, c \in Carrier, j \in Job : WillTell(m, c, j) => WillTell(m, c, j)'
    BY <1>1 DEF WillTell
  <2> QED
    BY <2>1, HeardKept
<1>8. AttachedOrUnderWay'
  <2>1. \A m \in Call, o \in OrderId : Accepting(m, o) => Accepting(m, o)'
    BY <1>1 DEF Accepting
  <2>2. \A m \in Call, o \in OrderId : Carrying(m, o) => Carrying(m, o)'
    BY <1>1 DEF Carrying
  <2> QED
    BY <1>2, <1>3, <2>1, <2>2, AttachedKept
<1> QED
  BY <1>4, <1>5, <1>6, <1>7, <1>8 DEF IInv

\* A conditional UPDATE changes a pending row, keeps its price and takes no answer back.
AnswerWritten(c, j, status) ==
  /\ quote' \in [Carrier -> [Job -> QuoteRow]]
  /\ QuotesKept
  /\ quote'[c][j] = [status |-> status, price |-> quote[c][j].price]
  /\ \A d \in Carrier, i \in Job : d # c \/ i # j => quote'[d][i] = quote[d][i]
  /\ j \in OrderId => order[j].status # "none"

\* The status guard: an answer finds a pending quote and changes no other.
LEMMA AnsweredOnce ==
  ASSUME IInv, NEW c \in Carrier, NEW j \in Job, NEW status \in Answer, Answered(c, j, status)
  PROVE  AnswerWritten(c, j, status)
<1>1. quote \in [Carrier -> [Job -> QuoteRow]]
  BY DEF IInv, CarrierBacked, TypeOK
<1>2. quote[c][j] \in QuoteRow
  BY <1>1
<1>3. [quote[c][j] EXCEPT !.status = status] = [status |-> status, price |-> quote[c][j].price]
  BY <1>2 DEF QuoteRow
<1>4. [status |-> status, price |-> quote[c][j].price] \in QuoteRow
  BY <1>2 DEF QuoteRow, QuoteStatus, Answer
<1>5. quote' = [quote EXCEPT ![c][j] = [status |-> status, price |-> quote[c][j].price]]
  BY <1>3 DEF Answered
<1>6. /\ quote' \in [Carrier -> [Job -> QuoteRow]]
      /\ quote'[c][j] = [status |-> status, price |-> quote[c][j].price]
      /\ \A d \in Carrier, i \in Job : d # c \/ i # j => quote'[d][i] = quote[d][i]
  BY <1>1, <1>4, <1>5
<1>7. QuotesKept
  BY <1>6 DEF QuotesKept, Answer, Answered
<1>8. j \in OrderId => order[j].status # "none"
  BY DEF IInv, QuotesOnRealJobs, NoQuote, Answered
<1> QED
  BY <1>6, <1>7, <1>8 DEF AnswerWritten

\* A carrier takes a pending quote back.
LEMMA WithdrawStep ==
  ASSUME IInv, NEW k \in Call, NEW c \in Carrier, NEW j \in Job, WithdrawQuote(k, c, j)
  PROVE  IInv'
<1>1. /\ call[k] \in CallState
      /\ call' = [call EXCEPT ![k] = call[k]]
  BY DEF IInv, CarrierBacked, TypeOK, WithdrawQuote
<1>2. /\ quote' \in [Carrier -> [Job -> QuoteRow]]
      /\ QuotesKept
      /\ quote'[c][j].status = "withdrawn"
      /\ \A d \in Carrier, i \in Job : d # c \/ i # j => quote'[d][i] = quote[d][i]
      /\ j \in OrderId => order[j].status # "none"
  <2>1. AnswerWritten(c, j, "withdrawn")
    BY AnsweredOnce DEF WithdrawQuote, Answer
  <2> QED
    BY <2>1 DEF AnswerWritten
<1>3. CallOK(k)'
  BY DEF IInv, CallsConsistent, CallOK, WithdrawQuote
<1>4. /\ \A d \in Carrier, i \in Job :
           \/ quote'[d][i] = quote[d][i]
           \/ quote'[d][i].status = "withdrawn"
      /\ \A d \in Carrier, o \in OrderId :
           quote'[d][o] = quote[d][o] \/ order[o].status # "none"
  BY <1>2 DEF Job
<1>5. QuotesWrittenBy(k)
  BY <1>2, <1>4 DEF QuotesWrittenBy, Job
<1>6. UNCHANGED <<stage, post, order, told, pickedAt, faults>> /\ call[k].step = "idle"
  BY DEF WithdrawQuote
<1> QED
  BY <1>1, <1>3, <1>5, <1>6, QuoteWritten

\* The owner accepts: the first statement of AcceptQuote.
LEMMA AcceptStep ==
  ASSUME IInv, NEW k \in Call, NEW c \in Carrier, NEW j \in Job, AcceptShippingQuote(k, c, j)
  PROVE  IInv'
<1> DEFINE v == [Idle EXCEPT !.step = IF j \in OrderId THEN "attach" ELSE "siblings",
                             !.carrier = c, !.job = j, !.price = quote[c][j].price]
<1>0. TypeOK /\ quote[c][j] \in QuoteRow
  BY DEF IInv, CarrierBacked, TypeOK
<1>1. /\ v \in CallState
      /\ v.step = IF j \in OrderId THEN "attach" ELSE "siblings"
      /\ v.carrier = c /\ v.job = j /\ v.price = quote[c][j].price /\ v.losers = {}
  BY <1>0 DEF Idle, CallState, CallStep, QuoteRow
<1> HIDE DEF v
<1>2. call' = [call EXCEPT ![k] = v] /\ Answered(c, j, "accepted")
  BY DEF AcceptShippingQuote, v
<1>3. call'[k] = v
  BY <1>0, <1>1, <1>2, CallSet
<1>4. /\ quote' \in [Carrier -> [Job -> QuoteRow]]
      /\ QuotesKept
      /\ quote'[c][j] = [status |-> "accepted", price |-> v.price]
      /\ \A d \in Carrier, i \in Job : d # c \/ i # j => quote'[d][i] = quote[d][i]
      /\ j \in OrderId => order[j].status # "none"
  <2>1. AnswerWritten(c, j, "accepted")
    BY <1>2, AnsweredOnce DEF Answer
  <2> QED
    BY <1>1, <2>1 DEF AnswerWritten
<1>5. CallOK(k)'
  <2>1. order' = order
    BY DEF AcceptShippingQuote
  <2> QED
    BY <1>1, <1>3, <1>4, <2>1 DEF CallOK, Holds
<1>6. /\ \A d \in Carrier, i \in Job :
           quote'[d][i].status = "rejected" => quote[d][i].status = "rejected"
      /\ \A d \in Carrier, o \in OrderId :
           quote'[d][o] = quote[d][o] \/ order[o].status # "none"
      /\ \A d \in Carrier, o \in OrderId :
           quote'[d][o].status = "accepted" =>
             quote[d][o].status = "accepted" \/ Accepting(k, o)'
  BY <1>1, <1>3, <1>4 DEF Job, Accepting
<1>7. UNCHANGED <<stage, post, order, told, pickedAt, faults>> /\ call[k].step = "idle"
  BY DEF AcceptShippingQuote
<1>8. QuotesWrittenBy(k)
  BY <1>4, <1>6 DEF QuotesWrittenBy
<1> QED
  BY <1>1, <1>2, <1>5, <1>7, <1>8, QuoteWritten

\* The owner rejects one quote.
LEMMA RejectStep ==
  ASSUME IInv, NEW k \in Call, NEW c \in Carrier, NEW j \in Job, RejectShippingQuote(k, c, j)
  PROVE  IInv'
<1> DEFINE v == [Idle EXCEPT !.step = "reject_notify", !.carrier = c, !.job = j]
<1>1. /\ v \in CallState
      /\ v.step = "reject_notify" /\ v.carrier = c /\ v.job = j /\ v.losers = {}
  BY DEF Idle, CallState, CallStep
<1> HIDE DEF v
<1>2. call' = [call EXCEPT ![k] = v] /\ Answered(c, j, "rejected")
  BY DEF RejectShippingQuote, v
<1>3. call'[k] = v
  BY <1>1, <1>2, CallSet DEF IInv, CarrierBacked
<1>4. /\ quote' \in [Carrier -> [Job -> QuoteRow]]
      /\ QuotesKept
      /\ quote'[c][j].status = "rejected"
      /\ \A d \in Carrier, i \in Job : d # c \/ i # j => quote'[d][i] = quote[d][i]
      /\ j \in OrderId => order[j].status # "none"
  <2>1. AnswerWritten(c, j, "rejected")
    BY <1>2, AnsweredOnce DEF Answer
  <2> QED
    BY <2>1 DEF AnswerWritten
<1>5. CallOK(k)'
  BY <1>1, <1>3, <1>4 DEF CallOK
<1>6. /\ \A d \in Carrier, i \in Job :
           quote'[d][i].status = "rejected" =>
             quote[d][i].status = "rejected" \/ WillTell(k, d, i)'
      /\ \A d \in Carrier, i \in Job :
           quote'[d][i].status = "accepted" => quote[d][i].status = "accepted"
      /\ \A d \in Carrier, o \in OrderId :
           quote'[d][o] = quote[d][o] \/ order[o].status # "none"
  BY <1>1, <1>3, <1>4 DEF Job, WillTell
<1>7. UNCHANGED <<stage, post, order, told, pickedAt, faults>> /\ call[k].step = "idle"
  BY DEF RejectShippingQuote
<1>8. QuotesWrittenBy(k)
  BY <1>4, <1>6 DEF QuotesWrittenBy, Job
<1> QED
  BY <1>1, <1>2, <1>5, <1>7, <1>8, QuoteWritten

\* CreateQuote inserts its row.
LEMMA CreateStep ==
  ASSUME IInv, NEW k \in Call, CreateShippingQuote(k)
  PROVE  IInv'
<1> DEFINE c == call[k].carrier
           j == call[k].job
           row == [status |-> "pending", price |-> call[k].price]
<1>0. TypeOK /\ call[k] \in CallState
  BY DEF IInv, CarrierBacked, TypeOK
<1>1. /\ c \in Carrier /\ j \in Job
      /\ j \in OrderId => order[j].status # "none"
  BY DEF IInv, CallsConsistent, CallOK, CreateShippingQuote
<1>2. row \in QuoteRow
  BY <1>0 DEF CallState, QuoteRow, QuoteStatus
<1>3. /\ quote' \in [Carrier -> [Job -> QuoteRow]]
      /\ \A d \in Carrier, i \in Job :
           \/ quote'[d][i] = quote[d][i]
           \/ /\ d = c /\ i = j
              /\ quote[d][i].status = "none"
              /\ quote'[d][i].status = "pending"
  <2>1. CASE quote[c][j] = NoQuote
    <3>1. quote' = [quote EXCEPT ![c][j] = row]
      BY <2>1 DEF CreateShippingQuote
    <3> QED
      BY <1>0, <1>1, <1>2, <2>1, <3>1 DEF TypeOK, NoQuote
  <2>2. CASE quote[c][j] # NoQuote
    BY <1>0, <2>2 DEF CreateShippingQuote, TypeOK
  <2> QED
    BY <2>1, <2>2
<1>4. QuotesKept
  BY <1>3 DEF QuotesKept, Answer
<1>5. call'[k] = Idle /\ call' = [call EXCEPT ![k] = Idle]
  BY <1>0, IdleIsOK, CallSet DEF CreateShippingQuote, Return
<1>6. /\ \A d \in Carrier, i \in Job :
           quote'[d][i].status = "rejected" => quote[d][i].status = "rejected"
      /\ \A d \in Carrier, o \in OrderId :
           quote'[d][o].status = "accepted" => quote[d][o].status = "accepted"
      /\ \A d \in Carrier, o \in OrderId :
           quote'[d][o] = quote[d][o] \/ order[o].status # "none"
  BY <1>1, <1>3 DEF Job
<1>7. UNCHANGED <<stage, post, order, told, pickedAt, faults>> /\ call[k].step = "insert"
  BY DEF CreateShippingQuote
<1>8. Idle \in CallState /\ CallOK(k)'
  BY <1>5, IdleIsOK
<1>9. QuotesWrittenBy(k)
  BY <1>3, <1>4, <1>6 DEF QuotesWrittenBy
<1> QED
  BY <1>5, <1>7, <1>8, <1>9, QuoteWritten

\* The rivals of the accepted quote are rejected in one statement.
LEMMA SiblingsStep ==
  ASSUME IInv, NEW k \in Call, RejectSiblingShippingQuotes(k)
  PROVE  IInv'
<1> DEFINE c == call[k].carrier
           j == call[k].job
           lost == Siblings(c, j)
<1>0. TypeOK /\ call[k] \in CallState /\ call[k].step = "siblings"
  BY DEF IInv, CarrierBacked, TypeOK, RejectSiblingShippingQuotes
<1>1. c \in Carrier /\ j \in Job /\ Holds(c, j, call[k].price) /\ call[k].losers = {}
  BY <1>0 DEF IInv, CallsConsistent, CallOK
<1>2. lost \subseteq Carrier /\ \A d \in lost : quote[d][j].status = "pending"
  BY DEF Siblings
<1>3. ASSUME quote' = [d \in Carrier |->
                         IF d \in lost THEN [quote[d] EXCEPT ![j].status = "rejected"]
                                       ELSE quote[d]],
             call' = [call EXCEPT ![k].step = "accept_notify", ![k].losers = lost],
             UNCHANGED faults
      PROVE  IInv'
  <2> DEFINE v == [call[k] EXCEPT !.step = "accept_notify", !.losers = lost]
  <2>1. /\ v \in CallState
        /\ v.step = "accept_notify" /\ v.carrier = c /\ v.job = j /\ v.price = call[k].price
        /\ v.losers = lost
    BY <1>0, <1>2 DEF CallState, CallStep
  <2> HIDE DEF v
  <2>2. call' = [call EXCEPT ![k] = v]
    BY <1>3 DEF v
  <2>3. call'[k] = v
    BY <1>0, <2>1, <2>2, CallSet
  <2>4. /\ quote' \in [Carrier -> [Job -> QuoteRow]]
        /\ \A d \in Carrier, i \in Job :
             \/ quote'[d][i] = quote[d][i]
             \/ /\ d \in lost /\ i = j
                /\ quote[d][i].status = "pending"
        /\ \A d \in lost : quote'[d][j].status = "rejected"
    <3> DEFINE turned(d) == [quote[d] EXCEPT ![j].status = "rejected"]
    <3>1. ASSUME NEW d \in Carrier
          PROVE  /\ turned(d) \in [Job -> QuoteRow]
                 /\ turned(d)[j].status = "rejected"
                 /\ \A i \in Job : i # j => turned(d)[i] = quote[d][i]
      <4>1. quote[d] \in [Job -> QuoteRow] /\ quote[d][j] \in QuoteRow
        BY <1>0, <1>1, <3>1 DEF TypeOK
      <4>2. [quote[d][j] EXCEPT !.status = "rejected"] \in QuoteRow
        BY <4>1 DEF QuoteRow, QuoteStatus
      <4> QED
        BY <1>1, <4>1, <4>2
    <3>2. quote' = [d \in Carrier |-> IF d \in lost THEN turned(d) ELSE quote[d]]
      BY <1>3
    <3>3. \A d \in Carrier : quote[d] \in [Job -> QuoteRow]
      BY <1>0 DEF TypeOK
    <3> HIDE DEF lost, turned, j
    <3> QED
      BY <1>2, <3>1, <3>2, <3>3
  <2>5. QuotesKept
    BY <2>4 DEF QuotesKept, Answer
  <2>6. CallOK(k)'
    <3>1. quote'[c][j] = [status |-> "accepted", price |-> call[k].price]
      BY <1>1, <2>5 DEF Holds, QuotesKept, Answer
    <3> QED
      BY <1>1, <2>1, <2>3, <2>4, <3>1 DEF CallOK, Holds
  <2>7. /\ \A d \in Carrier, i \in Job :
             quote'[d][i].status = "rejected" =>
               quote[d][i].status = "rejected" \/ WillTell(k, d, i)'
        /\ \A d \in Carrier, i \in Job :
             quote'[d][i].status = "accepted" => quote[d][i].status = "accepted"
        /\ \A d \in Carrier, i \in Job :
             quote'[d][i] = quote[d][i] \/ i \notin OrderId \/ order[i].status # "none"
    <3>1. j \in OrderId => order[j].status # "none"
      BY <1>1 DEF Holds, IInv, QuotesOnRealJobs, NoQuote
    <3> QED
      BY <2>1, <2>3, <2>4, <3>1 DEF WillTell
  <2>8. UNCHANGED <<stage, post, order, told, pickedAt, faults>>
    BY <1>3 DEF RejectSiblingShippingQuotes
  <2>9. \A d \in Carrier, o \in OrderId :
          /\ quote'[d][o].status = "accepted" => quote[d][o].status = "accepted"
          /\ quote'[d][o] = quote[d][o] \/ order[o].status # "none"
    BY <2>7 DEF Job
  <2>10. QuotesWrittenBy(k)
    BY <2>4, <2>5, <2>7, <2>9 DEF QuotesWrittenBy
  <2> QED
    BY <1>0, <2>1, <2>2, <2>6, <2>8, <2>10, QuoteWritten
<1>4. ASSUME Fail, Goto(k, "accept_notify"), UNCHANGED quote
      PROVE  IInv'
  <2> DEFINE v == [call[k] EXCEPT !.step = "accept_notify"]
  <2>1. /\ v \in CallState
        /\ v.step = "accept_notify" /\ v.carrier = c /\ v.job = j /\ v.price = call[k].price
        /\ v.losers = {}
    BY <1>0, <1>1 DEF CallState, CallStep
  <2> HIDE DEF v
  <2>2. call' = [call EXCEPT ![k] = v]
    BY <1>4 DEF v, Goto
  <2>3. call'[k] = v
    BY <1>0, <2>1, <2>2, CallSet
  <2>4. UNCHANGED rows /\ faults' = faults + 1
    BY <1>4 DEF RejectSiblingShippingQuotes, rows, Fail
  <2>5. CallOK(k)'
    BY <1>1, <2>1, <2>3, <2>4 DEF CallOK, Holds, rows
  <2> QED
    BY <1>0, <2>1, <2>2, <2>4, <2>5, OnlyTheCall DEF WillTell, Accepting, Carrying
<1> QED
  BY <1>3, <1>4 DEF RejectSiblingShippingQuotes

-----------------------------------------------------------------------------
(* Steps that send the answers.                                            *)

\* A step that only sends answers keeps IInv.
LEMMA AnswerSent ==
  ASSUME IInv, NEW k \in Call, Return(k), NEW sent, told' = told \cup sent,
         call[k].step \in {"accept_notify", "reject_notify"},
         \A t \in sent : /\ t \in Carrier \X Job \X {"accepted", "rejected"}
                         /\ quote[t[1]][t[2]].status = t[3],
         \A c \in Carrier, j \in Job : WillTell(k, c, j) => <<c, j, "rejected">> \in sent,
         UNCHANGED <<stage, post, order, quote, pickedAt, faults>>
  PROVE  IInv'
<1>0. TypeOK
  BY DEF IInv, CarrierBacked
<1>1. /\ call' \in [Call -> CallState]
      /\ call'[k] = Idle
      /\ \A m \in Call : m # k => call'[m] = call[m]
  BY <1>0, IdleIsOK, CallSet DEF Return
<1>2. TypeOK'
  BY <1>0, <1>1 DEF TypeOK
<1>3. QuotesKept /\ OrdersKept
  BY DEF QuotesKept, OrdersKept
<1>4. CarrierBacked' /\ OrdersConsistent' /\ QuotesOnRealJobs'
  BY <1>2, <1>3, BackingKept DEF IInv, OrdersConsistent, QuotesOnRealJobs
<1>5. ToldConsistent'
  BY DEF IInv, ToldConsistent
<1>6. CallsConsistent'
  BY <1>1, <1>3, IdleIsOK, CallsKept
<1>7. RejectedAreHeard'
  <2>1. \A m \in Call, c \in Carrier, j \in Job :
          WillTell(m, c, j) => WillTell(m, c, j)' \/ <<c, j, "rejected">> \in told'
    BY <1>1 DEF WillTell
  <2> QED
    BY <2>1, HeardKept
<1>8. AttachedOrUnderWay'
  <2>1. \A m \in Call, o \in OrderId : Accepting(m, o) => Accepting(m, o)'
    BY <1>1 DEF Accepting
  <2>2. \A m \in Call, o \in OrderId : Carrying(m, o) => Carrying(m, o)'
    BY <1>1 DEF Carrying
  <2> QED
    BY <1>2, <1>3, <2>1, <2>2, AttachedKept
<1> QED
  BY <1>4, <1>5, <1>6, <1>7, <1>8 DEF IInv

\* The accepted carrier and the rejected ones are told.
LEMMA AcceptNotifyStep ==
  ASSUME IInv, NEW k \in Call, AcceptNotify(k)
  PROVE  IInv'
<1> DEFINE c == call[k].carrier
           j == call[k].job
           sent == {<<c, j, "accepted">>} \cup {<<d, j, "rejected">> : d \in call[k].losers}
<1>0. call[k] \in CallState /\ call[k].step = "accept_notify"
  BY DEF IInv, CarrierBacked, TypeOK, AcceptNotify
<1>1. /\ c \in Carrier /\ j \in Job
      /\ quote[c][j].status = "accepted"
      /\ \A d \in call[k].losers : d \in Carrier /\ quote[d][j].status = "rejected"
  <2>1. CallOK(k)
    BY DEF IInv, CallsConsistent
  <2>2. call[k].losers \subseteq Carrier
    BY <1>0 DEF CallState
  <2> QED
    BY <1>0, <2>1, <2>2 DEF CallOK, Holds
<1>2. \A t \in sent : /\ t \in Carrier \X Job \X {"accepted", "rejected"}
                      /\ quote[t[1]][t[2]].status = t[3]
  BY <1>1
<1>3. \A d \in Carrier, i \in Job : WillTell(k, d, i) => <<d, i, "rejected">> \in sent
  BY <1>0 DEF WillTell
<1>4. told' = told \cup sent /\ Return(k)
  BY DEF AcceptNotify
<1>5. UNCHANGED <<stage, post, order, quote, pickedAt, faults>>
  BY DEF AcceptNotify
<1> HIDE DEF sent
<1> QED
  BY <1>0, <1>2, <1>3, <1>4, <1>5, AnswerSent

\* The rejected carrier is told.
LEMMA RejectNotifyStep ==
  ASSUME IInv, NEW k \in Call, RejectNotify(k)
  PROVE  IInv'
<1> DEFINE c == call[k].carrier
           j == call[k].job
           sent == {<<c, j, "rejected">>}
<1>0. call[k].step = "reject_notify"
  BY DEF RejectNotify
<1>1. c \in Carrier /\ j \in Job /\ quote[c][j].status = "rejected"
  BY <1>0 DEF IInv, CallsConsistent, CallOK
<1>2. \A t \in sent : /\ t \in Carrier \X Job \X {"accepted", "rejected"}
                      /\ quote[t[1]][t[2]].status = t[3]
  BY <1>1
<1>3. \A d \in Carrier, i \in Job : WillTell(k, d, i) => <<d, i, "rejected">> \in sent
  BY <1>0 DEF WillTell
<1>4. told' = told \cup sent /\ Return(k)
  BY DEF RejectNotify
<1>5. UNCHANGED <<stage, post, order, quote, pickedAt, faults>>
  BY DEF RejectNotify
<1> HIDE DEF sent
<1> QED
  BY <1>0, <1>2, <1>3, <1>4, <1>5, AnswerSent

-----------------------------------------------------------------------------
(* Steps that write orders.                                                *)

\* A step that names a backed carrier on one order keeps IInv.
LEMMA CarrierWritten ==
  ASSUME IInv, NEW k \in Call, NEW v \in CallState, call' = [call EXCEPT ![k] = v],
         NEW o \in OrderId, NEW c \in Carrier, NEW price \in Price \cup {None},
         AttachCarrierToOrder(o, c, price),
         order[o].status # "none",
         \E j \in {o, order[o].post} : Holds(c, j, price),
         UNCHANGED <<stage, post, quote, told, pickedAt, faults>>,
         CallOK(k)',
         call[k].step \in {"attach", "carry"}, call[k].job = o
  PROVE  IInv'
<1>0. TypeOK
  BY DEF IInv, CarrierBacked
<1>1. /\ call' \in [Call -> CallState]
      /\ \A m \in Call : m # k => call'[m] = call[m]
  BY <1>0, CallSet
<1> DEFINE row == [order[o] EXCEPT !.carrier = c, !.price = price]
<1>2. order[o] \in OrderRow
  BY <1>0 DEF TypeOK
<1>3. /\ row \in OrderRow
      /\ row.status = order[o].status /\ row.post = order[o].post
      /\ row.carrier = c /\ row.price = price
  BY <1>2 DEF OrderRow
<1> HIDE DEF row
<1>4. order' = [order EXCEPT ![o] = row]
  BY DEF AttachCarrierToOrder, row
<1>5. /\ order' \in [OrderId -> OrderRow]
      /\ order'[o] = row
      /\ \A q \in OrderId : q # o => order'[q] = order[q]
  BY <1>0, <1>3, <1>4 DEF TypeOK
<1>6. TypeOK'
  BY <1>0, <1>1, <1>5 DEF TypeOK
<1>7. QuotesKept /\ OrdersKept
  BY <1>3, <1>5, JobsAssumption DEF QuotesKept, OrdersKept
<1>8. CarrierBacked'
  <2> SUFFICES ASSUME NEW q \in OrderId, order'[q].carrier # None
               PROVE  \E j \in {q, order'[q].post} :
                        quote[order'[q].carrier][j] = [status |-> "accepted", price |-> order'[q].price]
    BY <1>6 DEF CarrierBacked
  <2>1. CASE q = o
    BY <1>3, <1>5, <2>1 DEF Holds
  <2>2. CASE q # o
    BY <1>5, <2>2 DEF IInv, CarrierBacked
  <2> QED
    BY <2>1, <2>2
<1>9. OrdersConsistent' /\ QuotesOnRealJobs' /\ ToldConsistent'
  BY <1>3, <1>5, <1>7, ToldKept DEF IInv, OrdersConsistent, QuotesOnRealJobs
<1>10. CallsConsistent'
  BY <1>1, <1>7, CallsKept
<1>11. RejectedAreHeard'
  <2>1. \A m \in Call, d \in Carrier, j \in Job : WillTell(m, d, j) => WillTell(m, d, j)'
    BY <1>1 DEF WillTell
  <2> QED
    BY <2>1, HeardKept
<1>12. AttachedOrUnderWay'
  <2>0. order'[o].carrier # None
    BY <1>3, <1>5, JobsAssumption
  <2>1. \A m \in Call, q \in OrderId :
          Accepting(m, q) => Accepting(m, q)' \/ order'[q].carrier # None
    BY <1>1, <2>0 DEF Accepting
  <2>2. \A m \in Call, q \in OrderId :
          Carrying(m, q) => Carrying(m, q)' \/ order'[q].carrier # None
    BY <1>1, <2>0 DEF Carrying
  <2> QED
    BY <1>6, <1>7, <2>1, <2>2, AttachedKept
<1> QED
  BY <1>8, <1>9, <1>10, <1>11, <1>12 DEF IInv

\* A statement that fails ends its call with the order as it was.
LEMMA AttachFailed ==
  ASSUME IInv, NEW k \in Call, call[k].step \in {"attach", "carry"}, Fail, Return(k),
         UNCHANGED rows
  PROVE  IInv'
<1>1. faults' = faults + 1 /\ faults' # 0
  BY DEF Fail, IInv, CarrierBacked, TypeOK
<1>2. call' = [call EXCEPT ![k] = Idle] /\ call'[k] = Idle
  BY IdleIsOK, CallSet DEF Return, IInv, CarrierBacked
<1>3. Idle \in CallState /\ CallOK(k)'
  BY <1>2, IdleIsOK
<1>4. \A c \in Carrier, j \in Job : ~WillTell(k, c, j)
  BY DEF WillTell
<1> QED
  BY <1>1, <1>2, <1>3, <1>4, OnlyTheCall

\* AcceptQuote attaches the carrier to the order.
LEMMA AcceptAttachStep ==
  ASSUME IInv, NEW k \in Call, AcceptAttach(k)
  PROVE  IInv'
<1> DEFINE o == call[k].job
           c == call[k].carrier
           price == call[k].price
<1>0. TypeOK /\ call[k] \in CallState /\ call[k].step = "attach"
  BY DEF IInv, CarrierBacked, TypeOK, AcceptAttach
<1>1. /\ o \in OrderId /\ c \in Carrier /\ o \in Job
      /\ order[o].status # "none" /\ Holds(c, o, price) /\ call[k].losers = {}
  BY <1>0 DEF IInv, CallsConsistent, CallOK
<1>2. ASSUME AttachCarrierToOrder(o, c, price), Goto(k, "siblings"), UNCHANGED faults
      PROVE  IInv'
  <2> DEFINE v == [call[k] EXCEPT !.step = "siblings"]
  <2>1. /\ v \in CallState
        /\ v.step = "siblings" /\ v.carrier = c /\ v.job = o /\ v.price = price
        /\ v.losers = {}
    BY <1>0, <1>1 DEF CallState, CallStep
  <2> HIDE DEF v
  <2>2. call' = [call EXCEPT ![k] = v]
    BY <1>2 DEF v, Goto
  <2>3. call'[k] = v
    BY <1>0, <2>1, <2>2, CallSet
  <2>4. UNCHANGED <<stage, post, quote, told, pickedAt, faults>>
    BY <1>2 DEF AcceptAttach
  <2>5. CallOK(k)'
    BY <1>1, <2>1, <2>3, <2>4 DEF CallOK, Holds
  <2>6. price \in Price \cup {None}
    BY <1>0 DEF CallState
  <2> QED
    BY <1>0, <1>1, <1>2, <2>1, <2>2, <2>4, <2>5, <2>6, CarrierWritten
<1>3. ASSUME Fail, Return(k), UNCHANGED order
      PROVE  IInv'
  BY <1>0, <1>3, AttachFailed DEF AcceptAttach, rows
<1> QED
  BY <1>2, <1>3 DEF AcceptAttach

\* CarryQuoteToOrder attaches the carrier to the new order.
LEMMA CarryAttachStep ==
  ASSUME IInv, NEW k \in Call, CarryAttach(k)
  PROVE  IInv'
<1> DEFINE o == call[k].job
           c == call[k].carrier
           price == call[k].price
<1>0. TypeOK /\ call[k] \in CallState /\ call[k].step = "carry" /\ Return(k)
  BY DEF IInv, CarrierBacked, TypeOK, CarryAttach
<1>1. /\ o \in OrderId /\ c \in Carrier
      /\ order[o].status # "none" /\ Holds(c, order[o].post, price)
  BY <1>0 DEF IInv, CallsConsistent, CallOK
<1>2. ASSUME AttachCarrierToOrder(o, c, price), UNCHANGED faults
      PROVE  IInv'
  <2>1. call' = [call EXCEPT ![k] = Idle] /\ call'[k] = Idle
    BY <1>0, IdleIsOK, CallSet DEF Return
  <2>2. Idle \in CallState /\ CallOK(k)'
    BY <2>1, IdleIsOK
  <2>3. UNCHANGED <<stage, post, quote, told, pickedAt, faults>>
    BY <1>2 DEF CarryAttach
  <2>4. price \in Price \cup {None}
    BY <1>0 DEF CallState
  <2> QED
    BY <1>0, <1>1, <1>2, <2>1, <2>2, <2>3, <2>4, CarrierWritten
<1>3. ASSUME Fail, UNCHANGED order
      PROVE  IInv'
  BY <1>0, <1>3, AttachFailed DEF CarryAttach, rows
<1> QED
  BY <1>2, <1>3 DEF CarryAttach

\* A deal on a post creates an order without a carrier.
LEMMA DealClosesStep ==
  ASSUME IInv, NEW k \in Call, NEW p \in Post, NEW o \in OrderId, NEW to \in Region,
         DealCloses(k, p, o, to)
  PROVE  IInv'
<1> DEFINE v == [Idle EXCEPT !.step = "find", !.job = o]
           row == [NoOrder EXCEPT !.status = "open", !.post = p, !.to = to]
<1>0. TypeOK
  BY DEF IInv, CarrierBacked
<1>1. v \in CallState /\ v.step = "find" /\ v.job = o /\ v.losers = {}
  BY DEF Idle, CallState, CallStep, Job
<1>2. row \in OrderRow /\ row.status = "open" /\ row.post = p /\ row.carrier = None
  BY DEF NoOrder, OrderRow, OrderStatus
<1> HIDE DEF v, row
<1>3. /\ call' = [call EXCEPT ![k] = v]
      /\ order' = [order EXCEPT ![o] = row]
      /\ order[o].status = "none" /\ call[k].step = "idle"
      /\ UNCHANGED <<stage, post, quote, told, faults>>
  BY DEF DealCloses, v, row
<1>4. /\ call' \in [Call -> CallState]
      /\ call'[k] = v
      /\ \A m \in Call : m # k => call'[m] = call[m]
  BY <1>0, <1>1, <1>3, CallSet
<1>5. /\ order' \in [OrderId -> OrderRow]
      /\ order'[o] = row
      /\ \A q \in OrderId : q # o => order'[q] = order[q]
  BY <1>0, <1>2, <1>3 DEF TypeOK
<1>6. pickedAt' = IF AcceptedOn(p) # {} THEN pickedAt \cup {o} ELSE pickedAt
  BY DEF DealCloses
<1>7. TypeOK'
  BY <1>0, <1>3, <1>4, <1>5, <1>6 DEF TypeOK
<1>8. QuotesKept /\ OrdersKept
  BY <1>3, <1>5 DEF QuotesKept, OrdersKept
<1>9. CarrierBacked'
  <2> SUFFICES ASSUME NEW q \in OrderId, order'[q].carrier # None
               PROVE  \E j \in {q, order'[q].post} :
                        quote'[order'[q].carrier][j]
                          = [status |-> "accepted", price |-> order'[q].price]
    BY <1>7 DEF CarrierBacked
  <2> QED
    BY <1>2, <1>3, <1>5 DEF IInv, CarrierBacked
<1>10. OrdersConsistent' /\ QuotesOnRealJobs' /\ ToldConsistent'
  BY <1>2, <1>3, <1>5, <1>8, ToldKept DEF IInv, OrdersConsistent, QuotesOnRealJobs
<1>11. CallsConsistent'
  <2>1. CallOK(k)'
    BY <1>1, <1>2, <1>4, <1>5 DEF CallOK, Job
  <2> QED
    BY <1>4, <1>8, <2>1, CallsKept
<1>12. RejectedAreHeard'
  <2>1. \A m \in Call, c \in Carrier, j \in Job : WillTell(m, c, j) => WillTell(m, c, j)'
    BY <1>3, <1>4 DEF WillTell
  <2> QED
    BY <1>3, <2>1, HeardKept
<1>13. AttachedOrUnderWay'
  <2>1. AcceptedOn(o) = {} /\ o \notin pickedAt
    BY <1>3 DEF IInv, QuotesOnRealJobs, AttachedOrUnderWay, AcceptedOn, NoQuote
  <2>2. \A q \in OrderId : Carrying(k, q)' <=> q = o
    BY <1>1, <1>4 DEF Carrying
  <2>3. \A m \in Call, q \in OrderId : /\ Accepting(m, q) => Accepting(m, q)'
                                       /\ Carrying(m, q) => Carrying(m, q)'
    BY <1>3, <1>4 DEF Accepting, Carrying
  <2>4. \A j : AcceptedOn(j)' = AcceptedOn(j)
    BY <1>3 DEF AcceptedOn
  <2>5. \A q \in OrderId : q \in pickedAt' =>
          order'[q].status # "none" /\ AcceptedOn(order'[q].post) # {}
    <3> SUFFICES ASSUME NEW q \in OrderId, q \in pickedAt'
                 PROVE  order'[q].status # "none" /\ AcceptedOn(order'[q].post) # {}
      OBVIOUS
    <3>1. CASE q = o
      BY <1>2, <1>5, <1>6, <2>1, <3>1
    <3>2. CASE q # o
      BY <1>5, <1>6, <3>2 DEF IInv, AttachedOrUnderWay
    <3> QED
      BY <3>1, <3>2
  <2>6. \A q \in OrderId : faults' = 0 /\ AcceptedOn(q) # {} =>
          order'[q].carrier # None \/ \E m \in Call : Accepting(m, q)'
    BY <1>3, <1>5, <2>1, <2>3 DEF IInv, AttachedOrUnderWay
  <2>7. \A q \in OrderId : faults' = 0 /\ q \in pickedAt' =>
          order'[q].carrier # None \/ \E m \in Call : Carrying(m, q)'
    BY <1>3, <1>5, <1>6, <2>2, <2>3 DEF IInv, AttachedOrUnderWay
  <2> QED
    BY <2>4, <2>5, <2>6, <2>7 DEF AttachedOrUnderWay
<1> QED
  BY <1>9, <1>10, <1>11, <1>12, <1>13 DEF IInv

-----------------------------------------------------------------------------
(* The rest of the platform.                                               *)

\* The other steps of the platform: orders move on, posts close, stages change.
LEMMA PlatformStep ==
  ASSUME IInv, PlatformNext
  PROVE  IInv'
<1>0. TypeOK
  BY DEF IInv, CarrierBacked
<1>1. UNCHANGED <<quote, told, pickedAt, call, faults>>
  BY DEF PlatformNext, SetStage, PostMoves, OrderEnds
<1>2. /\ order' \in [OrderId -> OrderRow]
      /\ \A q \in OrderId :
           \/ order'[q] = order[q]
           \/ /\ order[q].status # "none" /\ order'[q].status # "none"
              /\ order'[q].post = order[q].post
              /\ order'[q].carrier = order[q].carrier
              /\ order'[q].price = order[q].price
  <2>1. ASSUME NEW o \in OrderId, NEW s \in {"completed", "cancelled"}, OrderEnds(o, s)
        PROVE  <1>2!1 /\ <1>2!2
    <3> DEFINE row == [order[o] EXCEPT !.status = s]
    <3>1. /\ row \in OrderRow
          /\ row.status = s /\ row.post = order[o].post /\ row.carrier = order[o].carrier
          /\ row.price = order[o].price
      BY <1>0 DEF TypeOK, OrderRow, OrderStatus
    <3> HIDE DEF row
    <3>2. order' = [order EXCEPT ![o] = row] /\ order[o].status = "open"
      BY <2>1 DEF OrderEnds, row
    <3> QED
      BY <1>0, <3>1, <3>2 DEF TypeOK
  <2>2. CASE UNCHANGED order
    BY <1>0, <2>2 DEF TypeOK
  <2> QED
    BY <2>1, <2>2 DEF PlatformNext, SetStage, PostMoves
<1>3. stage' \in Stages /\ post' \in [Post -> PostStatus]
  BY <1>0 DEF TypeOK, PlatformNext, SetStage, PostMoves, OrderEnds
<1>4. TypeOK'
  BY <1>0, <1>1, <1>2, <1>3 DEF TypeOK
<1>5. QuotesKept /\ OrdersKept
  BY <1>1, <1>2 DEF QuotesKept, OrdersKept
<1>6. CarrierBacked'
  <2> SUFFICES ASSUME NEW q \in OrderId, order'[q].carrier # None
               PROVE  \E j \in {q, order'[q].post} :
                        quote'[order'[q].carrier][j]
                          = [status |-> "accepted", price |-> order'[q].price]
    BY <1>4 DEF CarrierBacked
  <2> QED
    BY <1>1, <1>2 DEF IInv, CarrierBacked
<1>7. OrdersConsistent' /\ QuotesOnRealJobs' /\ ToldConsistent'
  BY <1>1, <1>2, <1>5, ToldKept DEF IInv, OrdersConsistent, QuotesOnRealJobs
<1>8. CallsConsistent'
  BY <1>1, <1>5, CallsKept
<1>9. RejectedAreHeard'
  BY <1>1 DEF IInv, RejectedAreHeard, WillTell
<1>10. AttachedOrUnderWay'
  <2>1. \A m \in Call, q \in OrderId : Accepting(m, q) => Accepting(m, q)'
    BY <1>1 DEF Accepting
  <2>2. \A m \in Call, q \in OrderId : Carrying(m, q) => Carrying(m, q)'
    BY <1>1 DEF Carrying
  <2> QED
    BY <1>1, <1>4, <1>5, <2>1, <2>2, AttachedKept
<1> QED
  BY <1>6, <1>7, <1>8, <1>9, <1>10 DEF IInv

-----------------------------------------------------------------------------
(* The theorems.                                                           *)

\* Every step keeps IInv.
LEMMA StepKeepsIInv == IInv /\ [Next]_vars => IInv'
<1> SUFFICES ASSUME IInv, [Next]_vars PROVE IInv'
  OBVIOUS
<1>1. ASSUME NEW k \in Call, QuoteNext(k) PROVE IInv'
  BY <1>1, QuoteBeginStep, WithdrawStep, AcceptStep, RejectStep, CreateStep, AcceptAttachStep,
     SiblingsStep, AcceptNotifyStep, RejectNotifyStep DEF QuoteNext
<1>2. ASSUME NEW k \in Call, CarryNext(k) PROVE IInv'
  BY <1>2, DealClosesStep, CarryFindStep, CarryAttachStep DEF CarryNext
<1>3. CASE PlatformNext
  BY <1>3, PlatformStep
<1>4. CASE UNCHANGED vars
  BY <1>4 DEF vars, rows, IInv, CarrierBacked, TypeOK, OrdersConsistent, QuotesOnRealJobs,
     CallsConsistent, CallOK, Holds, ToldConsistent, RejectedAreHeard, WillTell,
     AttachedOrUnderWay, AcceptedOn, Accepting, Carrying
<1> QED
  BY <1>1, <1>2, <1>3, <1>4 DEF Next

\* IInv holds in every reachable state.
THEOREM Invariance == Spec => []IInv
BY InitIInv, StepKeepsIInv, PTL DEF Spec

\* An order names a carrier only if that carrier's quote, on the order or on its
\* post, was accepted and at that price: the columns AcceptQuote and CarryQuoteToOrder
\* write (src/shipping/service/service.go).
THEOREM CarriersAreBacked == Spec => []CarrierBacked
BY Invariance, PTL DEF IInv

\* What a carrier was told by AcceptQuote and RejectQuote still shows in its own
\* list and in the merchant's.
THEOREM AnswersStayTrue == Spec => []AnswersTruthful
<1>1. IInv => AnswersTruthful
  <2> SUFFICES ASSUME IInv, NEW t \in told
               PROVE  /\ t[2] \in ListMyQuotes(t[1])
                      /\ t[3] = "accepted" => t[1] \in PhonesShown(t[2])
                      /\ t[3] = "rejected" => t[1] \in ListQuoteRows(t[2]) \ PhonesShown(t[2])
    BY DEF AnswersTruthful
  <2>1. t[1] \in Carrier /\ t[2] \in Job /\ t[3] \in {"accepted", "rejected"}
    BY DEF IInv, CarrierBacked, TypeOK
  <2>2. quote[t[1]][t[2]].status = t[3]
    BY DEF IInv, ToldConsistent
  <2> QED
    BY <2>1, <2>2 DEF ListMyQuotes, NoQuote, PhonesShown, ListQuoteRows,
       ListShippingQuotesForOrder, ListShippingQuotesForPost
<1> QED
  BY <1>1, Invariance, PTL

\* Every job ListJobs offers a carrier passes resolveTarget, whatever the stage setting.
THEOREM FeedAndEndpointAgree == Spec => []FeedAgreesWithEndpoint
<1>1. FeedAgreesWithEndpoint
  BY DEF FeedAgreesWithEndpoint, ListJobs, ListQuotableOrdersForCarrier,
     ListQuotablePostsForCarrier, ResolveTarget, ResolveOrder, ResolvePost
<1> QED
  BY <1>1, PTL

\* With no call under way and no statement failed, every acceptance has put a
\* carrier on the order: that of a quote on the order (AcceptQuote) and that of a
\* quote the post had when the deal closed (CarryQuoteToOrder).
THEOREM AcceptancesReachTheOrder == Spec => []AcceptedIsAttached
<1>1. IInv => AcceptedIsAttached
  BY DEF IInv, AcceptedIsAttached, AttachedOrUnderWay, Accepting, Carrying
<1> QED
  BY <1>1, Invariance, PTL

\* With no call under way, every carrier turned down, directly or as a sibling of
\* the winner, has been told so, even if statements failed.
THEOREM RejectionsAreTold == Spec => []RejectedAreTold
<1>1. IInv => RejectedAreTold
  BY DEF IInv, RejectedAreTold, RejectedAreHeard, WillTell
<1> QED
  BY <1>1, Invariance, PTL

=============================================================================
