------------------------------ MODULE QuotaProofs ------------------------------
(***************************************************************************)
(* Proofs about Quota, for every number of members, posts, tiers and       *)
(* concurrent requests, and every limit.  The argument, for each limit:    *)
(* the requests whose check has passed and which have not used it up yet   *)
(* are counted together with what is used up; a request joins them when    *)
(* the limit was not reached, so all but the other requests fit below it.  *)
(***************************************************************************)
EXTENDS Quota, FiniteSetTheorems, TLAPS

\* The limits are numbers, and there is at least one request.
LEMMA Numbers ==
  /\ MaxActive \in Nat /\ MaxBidders \in Nat /\ Horizon \in Nat
  /\ Cardinality(Call) \in Nat /\ Overrun \in Nat /\ Cardinality(Call) = Overrun + 1
<1>1. Cardinality(Call) \in Nat /\ Cardinality(Call) # 0
  BY QuotaAssumption, FS_CardinalityType, FS_EmptySet
<1> QED
  BY <1>1, QuotaAssumption DEF Overrun

\* Sets of requests: their size, and one request joining or leaving.
LEMMA CallSet ==
  ASSUME NEW T \in SUBSET Call
  PROVE  /\ IsFiniteSet(T) /\ Cardinality(T) \in Nat /\ Cardinality(T) <= Overrun + 1
         /\ \A c : c \in T => Cardinality(T \ {c}) = Cardinality(T) - 1
         /\ \A c : c \notin T => Cardinality(T \cup {c}) = Cardinality(T) + 1
         /\ \A U \in SUBSET T : Cardinality(U) <= Cardinality(T)
<1>1. IsFiniteSet(T) /\ Cardinality(T) <= Cardinality(Call)
  BY QuotaAssumption, FS_Subset
<1>2. Cardinality(T) \in Nat
  BY <1>1, FS_CardinalityType
<1>3. \A c : c \in T => Cardinality(T \ {c}) = Cardinality(T) - 1
  BY <1>1, FS_RemoveElement
<1>4. \A c : c \notin T => Cardinality(T \cup {c}) = Cardinality(T) + 1
  BY <1>1, FS_AddElement
<1>5. \A U \in SUBSET T : Cardinality(U) <= Cardinality(T)
  BY <1>1, FS_Subset
<1> QED
  BY <1>1, <1>2, <1>3, <1>4, <1>5, Numbers

\* Two sets of requests without a common one.
LEMMA TwoSets ==
  ASSUME NEW T \in SUBSET Call, NEW U \in SUBSET Call, T \cap U = {}
  PROVE  /\ Cardinality(T) + Cardinality(U) <= Overrun + 1
         /\ \A c \in Call : c \notin T /\ c \notin U => Cardinality(T) + Cardinality(U) <= Overrun
<1>1. IsFiniteSet(T) /\ IsFiniteSet(U) /\ Cardinality(T) \in Nat /\ Cardinality(U) \in Nat
  BY CallSet
<1>2. Cardinality(T \cup U) = Cardinality(T) + Cardinality(U) - Cardinality({})
  BY <1>1, FS_Union
<1>3. Cardinality(T \cup U) = Cardinality(T) + Cardinality(U)
  BY <1>1, <1>2, FS_EmptySet
<1>4. T \cup U \in SUBSET Call
  OBVIOUS
<1>5. Cardinality(T \cup U) <= Overrun + 1
  BY <1>4, CallSet
<1>6. ASSUME NEW c \in Call, c \notin T, c \notin U PROVE Cardinality(T) + Cardinality(U) <= Overrun
  <2> DEFINE V == T \cup U
  <2>1. V \cup {c} \in SUBSET Call /\ c \notin V
    BY <1>6
  <2> HIDE DEF V
  <2>2. V \in SUBSET Call
    BY <2>1
  <2>3. Cardinality(V \cup {c}) = Cardinality(V) + 1 /\ Cardinality(V) \in Nat
    BY <2>1, <2>2, CallSet
  <2>4. Cardinality(V \cup {c}) <= Overrun + 1
    BY <2>1, CallSet
  <2> QED
    BY <1>3, <2>3, <2>4, Numbers DEF V
<1> QED
  BY <1>3, <1>5, <1>6

\* The rows the tables start with.
LEMMA FreshRow ==
  ASSUME today \in 0 .. Horizon, NEW d \in Day \cup {None}
  PROVE  Row(d) \in SubRow /\ Row(d).reset = today /\ \A op \in Op : Row(d).used[op] = 0
<1>1. today \in Day
  BY Numbers DEF Day
<1> QED
  BY <1>1 DEF Row, SubRow, Unused

-----------------------------------------------------------------------------
(* How a request moves.                                                    *)

Moved(c, w) == call' = [call EXCEPT ![c] = w] /\ w \in CallState \cup {None}

\* The request goes on, or ends, from one step to one of some others.
GoesOn(c, w, from, to) ==
  /\ Moved(c, w) /\ call[c] # None /\ call[c].step = from
  /\ w # None => /\ w.step \in to /\ w.member = call[c].member /\ w.post = call[c].post
                 /\ w.op = call[c].op

\* Going to a step leaves the rest of the request alone.
LEMMA Going ==
  ASSUME TypeOK, NEW c \in Call, call[c] # None, NEW step \in Step, Goto(c, step)
  PROVE  \E w \in CallState : /\ call' = [call EXCEPT ![c] = w] /\ w.step = step
                              /\ w.member = call[c].member /\ w.post = call[c].post
                              /\ w.op = call[c].op /\ w.tier = call[c].tier /\ w.held = call[c].held
<1> DEFINE w == [call[c] EXCEPT !.step = step]
<1>1. call[c] \in CallState
  BY DEF TypeOK
<1>2. /\ w \in CallState /\ w.step = step
      /\ w.member = call[c].member /\ w.post = call[c].post
      /\ w.op = call[c].op /\ w.tier = call[c].tier /\ w.held = call[c].held
  BY <1>1 DEF CallState
<1>3. call' = [call EXCEPT ![c] = w]
  BY DEF Goto
<1> QED
  BY <1>2, <1>3

\* A request's end.
LEMMA Ending ==
  ASSUME TypeOK, NEW c \in Call, call[c] # None, Done(c)
  PROVE  \A from, to : call[c].step = from => GoesOn(c, None, from, to)
BY DEF GoesOn, Moved, Done

\* The posts a member is active on are counted by a number.
LEMMA ActiveSet ==
  ASSUME NEW m, NEW posts \in SUBSET Post
  PROVE  IsFiniteSet(Active(m, posts)) /\ Count(Active(m, posts)) \in Nat
<1>1. Active(m, posts) \in SUBSET Post
  BY DEF Active
<1> QED
  BY <1>1, QuotaAssumption, FS_Subset, FS_CardinalityType DEF Count

\* A member who has not bid on the post goes on to the counts.
LEMMA CheckOwnMoves ==
  ASSUME TypeOK, NEW c \in Call, CheckOwn(c)
  PROVE  /\ \E w : GoesOn(c, w, "own", {"first"})
         /\ UNCHANGED <<post, bids, sub, grant, today, granted, restored, faults>>
<1>1. call[c] # None /\ call[c].step = "own" /\ "first" \in Step
      /\ UNCHANGED <<post, bids, sub, grant, today, granted, restored, faults>>
  BY DEF CheckOwn, At, Step
<1>2. CASE Done(c)
  BY <1>1, <1>2, Ending
<1>3. CASE Goto(c, "first")
  BY <1>1, <1>3, Going DEF GoesOn, Moved
<1> QED
  BY <1>1, <1>2, <1>3 DEF CheckOwn

\* The first count is taken along, as it is at this moment.
LEMMA CountFirstMoves ==
  ASSUME TypeOK, NEW c \in Call, CallOK(c), CountFirst(c)
  PROVE  /\ \E w : /\ GoesOn(c, w, "first", {"second"}) /\ w # None
                   /\ w.held = Count(Active(call[c].member, FirstKind(c)))
         /\ UNCHANGED <<post, bids, sub, grant, today, granted, restored, faults>>
<1>1. call[c] # None /\ call[c].step = "first" /\ call[c] \in CallState
      /\ UNCHANGED <<post, bids, sub, grant, today, granted, restored, faults>>
  BY DEF CountFirst, At, TypeOK
<1>2. FirstKind(c) \in SUBSET Post
  BY DEF FirstKind, Post
<1>3. PICK n \in Nat : n = Count(Active(call[c].member, FirstKind(c)))
  BY <1>2, ActiveSet
<1> DEFINE w == [call[c] EXCEPT !.step = "second", !.held = n]
<1>4. call' = [call EXCEPT ![c].step = "second", ![c].held = n]
  BY <1>3 DEF CountFirst, FirstKind
<1>5. call' = [call EXCEPT ![c] = w]
  BY <1>1, <1>4 DEF TypeOK, CallState
<1>6. /\ w \in CallState /\ w.step = "second" /\ w.held = n /\ w.member = call[c].member
      /\ w.post = call[c].post /\ w.op = call[c].op
  BY <1>1 DEF CallState, Step
<1>7. w # None
  BY <1>6, QuotaAssumption
<1> HIDE DEF w
<1>8. GoesOn(c, w, "first", {"second"}) /\ w # None /\ w.held = n
  BY <1>1, <1>5, <1>6, <1>7 DEF GoesOn, Moved
<1> QED
  BY <1>1, <1>3, <1>8

\* The kind of post counted second.
SecondKind(c) == IF call[c].op = "bid" THEN BuyPost ELSE SellPost

\* What the second count of the slots lets through.
SlotFree(c) == call[c].held + Count(Active(call[c].member, SecondKind(c))) < MaxActive

\* The second count lets the request through, or ends it.
LEMMA CountSecondMoves ==
  ASSUME TypeOK, NEW c \in Call, CountSecond(c)
  PROVE  /\ \E w : /\ GoesOn(c, w, "second", {"tier"})
                   /\ w # None => SlotFree(c)
         /\ UNCHANGED <<post, bids, sub, grant, today, granted, restored, faults>>
<1>1. call[c] # None /\ call[c].step = "second" /\ call[c] \in CallState
      /\ UNCHANGED <<post, bids, sub, grant, today, granted, restored, faults>>
  BY DEF CountSecond, At, TypeOK
<1>2. CASE Done(c)
  BY <1>1, <1>2, Ending
<1>3. CASE /\ call[c].held + Count(Active(call[c].member, SecondKind(c))) < MaxActive
           /\ call' = [call EXCEPT ![c].step = "tier", ![c].held = 0]
  <2> DEFINE w == [call[c] EXCEPT !.step = "tier", !.held = 0]
  <2>1. call' = [call EXCEPT ![c] = w]
    BY <1>1, <1>3 DEF TypeOK, CallState
  <2>2. /\ w \in CallState /\ w.step = "tier" /\ w.member = call[c].member
        /\ w.post = call[c].post /\ w.op = call[c].op
    BY <1>1 DEF CallState, Step
  <2> HIDE DEF w
  <2>3. GoesOn(c, w, "second", {"tier"})
    BY <1>1, <2>1, <2>2 DEF GoesOn, Moved
  <2> QED
    BY <1>1, <1>3, <2>3 DEF SlotFree
<1> QED
  BY <1>1, <1>2, <1>3 DEF CountSecond, SlotsOfBothKinds, SecondKind, SlotFree

\* What a request has to know when it goes for the allowance of tier t.
Limited(c, t) ==
  t \in Tier /\ Limit[t] \in Nat /\ sub[call[c].member][t] \in SubRow

\* What the tier lets through: a request that will reset the month first, or
\* one that found the counter below the limit.
WillReset(c, w) ==
  w # None /\ w.step = "reset" => Limited(c, w.tier) /\ MonthPassed(sub[call[c].member][w.tier])

WillSpend(c, w) ==
  w # None /\ w.step = "spend" =>
    Limited(c, w.tier) /\ sub[call[c].member][w.tier].used[call[c].op] < Limit[w.tier]

\* The subscription as read decides where the request goes on.
LEMMA CheckTierMoves ==
  ASSUME TypeOK, NEW c \in Call, CheckTier(c)
  PROVE  /\ \E w : /\ GoesOn(c, w, "tier", {"insert", "reset", "spend"})
                   /\ WillReset(c, w) /\ WillSpend(c, w)
         /\ UNCHANGED <<post, bids, sub, grant, today, granted, restored, faults>>
<1>1. call[c] # None /\ call[c].step = "tier" /\ call[c] \in CallState
      /\ UNCHANGED <<post, bids, sub, grant, today, granted, restored, faults>>
  BY DEF CheckTier, At, TypeOK
<1>2. CASE Done(c)
  BY <1>1, <1>2, Ending DEF WillReset, WillSpend
<1>3. CASE Goto(c, "insert")
  <2>1. PICK w \in CallState : /\ call' = [call EXCEPT ![c] = w] /\ w.step = "insert"
                               /\ w.member = call[c].member /\ w.post = call[c].post
                               /\ w.op = call[c].op
    BY <1>1, <1>3, Going DEF Step
  <2>2. GoesOn(c, w, "tier", {"insert", "reset", "spend"})
    BY <1>1, <2>1 DEF GoesOn, Moved
  <2> QED
    BY <1>1, <2>1, <2>2 DEF WillReset, WillSpend
<1>4. ASSUME NEW t \in Tier, NEW step \in {"reset", "spend"}, Limited(c, t),
             call' = [call EXCEPT ![c].step = step, ![c].tier = t],
             step = "reset" => MonthPassed(sub[call[c].member][t]),
             step = "spend" => sub[call[c].member][t].used[call[c].op] < Limit[t]
      PROVE  \E w : /\ GoesOn(c, w, "tier", {"insert", "reset", "spend"})
                    /\ WillReset(c, w) /\ WillSpend(c, w)
  <2> DEFINE w == [call[c] EXCEPT !.step = step, !.tier = t]
  <2>1. call' = [call EXCEPT ![c] = w]
    BY <1>1, <1>4 DEF TypeOK, CallState
  <2>2. /\ w \in CallState /\ w.step = step /\ w.tier = t /\ w.member = call[c].member
        /\ w.post = call[c].post /\ w.op = call[c].op
    BY <1>1, <1>4 DEF CallState, Step
  <2> HIDE DEF w
  <2>3. GoesOn(c, w, "tier", {"insert", "reset", "spend"})
    BY <1>1, <1>4, <2>1, <2>2 DEF GoesOn, Moved
  <2> QED
    BY <1>4, <2>2, <2>3 DEF WillReset, WillSpend
<1>5. ASSUME NEW t \in GetUserWithSubscription(call[c].member), t \in Trading, Limit[t] # None
      PROVE  t \in Tier /\ Limited(c, t)
  <2>1. t \in Tier /\ sub[call[c].member][t] # None
    BY <1>5 DEF GetUserWithSubscription, Primary, Live
  <2>2. call[c].member \in Member
    BY <1>1 DEF CallState
  <2>3. Limit[t] \in Nat
    BY <1>5, <2>1, QuotaAssumption
  <2> QED
    BY <2>1, <2>2, <2>3 DEF Limited, TypeOK
<1>6. CASE \E t \in GetUserWithSubscription(call[c].member) \cap Trading :
              /\ Limit[t] # None /\ MonthPassed(sub[call[c].member][t])
              /\ call' = [call EXCEPT ![c].step = "reset", ![c].tier = t]
  <2>1. PICK t \in GetUserWithSubscription(call[c].member) :
              /\ t \in Trading /\ Limit[t] # None /\ MonthPassed(sub[call[c].member][t])
              /\ call' = [call EXCEPT ![c].step = "reset", ![c].tier = t]
    BY <1>6
  <2>2. t \in Tier /\ Limited(c, t)
    BY <1>5, <2>1
  <2> QED
    BY <1>1, <1>4, <2>1, <2>2
<1>7. CASE \E t \in GetUserWithSubscription(call[c].member) \cap Trading :
              /\ Limit[t] # None /\ ~Spent(sub[call[c].member][t].used[call[c].op], t)
              /\ call' = [call EXCEPT ![c].step = "spend", ![c].tier = t]
  <2>1. PICK t \in GetUserWithSubscription(call[c].member) :
              /\ t \in Trading /\ Limit[t] # None
              /\ ~Spent(sub[call[c].member][t].used[call[c].op], t)
              /\ call' = [call EXCEPT ![c].step = "spend", ![c].tier = t]
    BY <1>7
  <2>2. t \in Tier /\ Limited(c, t)
    BY <1>5, <2>1
  <2>3. sub[call[c].member][t].used[call[c].op] \in Nat /\ Limit[t] \in Nat
    BY <1>1, <2>2 DEF Limited, SubRow, CallState
  <2>4. sub[call[c].member][t].used[call[c].op] < Limit[t]
    BY <2>1, <2>3 DEF Spent
  <2> QED
    BY <1>1, <1>4, <2>1, <2>2, <2>4
<1> QED
  BY <1>1, <1>2, <1>3, <1>6, <1>7 DEF CheckTier, Spend

\* The request goes on under the tier it read, which allows one at least.
StillLimited(c, w) == w # None => w.tier = call[c].tier /\ Limit[w.tier] >= 1

\* The month is reset, or is not; the request goes on from zero either way.
LEMMA ResetMoves ==
  ASSUME TypeOK, NEW c \in Call, CallOK(c), ResetMonthlyCounts(c)
  PROVE  /\ \E w : /\ GoesOn(c, w, "reset", {"spend"})
                   /\ StillLimited(c, w)
         /\ call[c].tier \in Tier /\ Limit[call[c].tier] \in Nat
         /\ sub[call[c].member][call[c].tier] # None
         /\ \/ sub' = [m \in Member |-> [t \in Tier |-> ResetRow(sub[m][t])]] /\ UNCHANGED faults
            \/ faults' = faults + 1 /\ UNCHANGED sub
         /\ UNCHANGED <<post, bids, grant, today, granted, restored>>
<1>1. /\ call[c] # None /\ call[c].step = "reset" /\ call[c] \in CallState
      /\ call[c].tier \in Tier /\ Limit[call[c].tier] # None
      /\ sub[call[c].member][call[c].tier] # None
  BY DEF ResetMonthlyCounts, At, TypeOK, CallOK
<1>2. Limit[call[c].tier] \in Nat
  BY <1>1, QuotaAssumption
<1>3. \E w : /\ GoesOn(c, w, "reset", {"spend"})
             /\ StillLimited(c, w)
  <2>1. CASE Done(c)
    BY <1>1, <2>1, Ending DEF StillLimited
  <2>2. CASE ~Spent(0, call[c].tier) /\ call' = [call EXCEPT ![c].step = "spend", ![c].tier = call[c].tier]
    <3> DEFINE w == [call[c] EXCEPT !.step = "spend"]
    <3>1. call' = [call EXCEPT ![c] = w]
      BY <1>1, <2>2 DEF TypeOK, CallState
    <3>2. /\ w \in CallState /\ w.step = "spend" /\ w.tier = call[c].tier
          /\ w.member = call[c].member /\ w.post = call[c].post /\ w.op = call[c].op
      BY <1>1 DEF CallState, Step
    <3> HIDE DEF w
    <3>3. GoesOn(c, w, "reset", {"spend"})
      BY <1>1, <3>1, <3>2 DEF GoesOn, Moved
    <3>4. Limit[call[c].tier] >= 1
      BY <1>2, <2>2 DEF Spent
    <3> QED
      BY <3>2, <3>3, <3>4 DEF StillLimited
  <2> QED
    BY <2>1, <2>2 DEF ResetMonthlyCounts, Spend
<1> QED
  BY <1>1, <1>2, <1>3 DEF ResetMonthlyCounts, Fail

\* One is taken from the allowance, or the write is lost.
LEMMA IncrementCountMoves ==
  ASSUME TypeOK, NEW c \in Call, CallOK(c), IncrementCount(c)
  PROVE  /\ \E w : GoesOn(c, w, "spend", {"insert"}) /\ w # None
         /\ call[c].tier \in Tier /\ call[c].member \in Member /\ call[c].op \in Op
         /\ sub[call[c].member][call[c].tier] \in SubRow
         /\ \/ /\ sub' = [sub EXCEPT ![call[c].member][call[c].tier].used[call[c].op] = @ + 1]
               /\ UNCHANGED faults
            \/ faults' = faults + 1 /\ UNCHANGED sub
         /\ UNCHANGED <<post, bids, grant, today, granted, restored>>
<1>1. /\ call[c] # None /\ call[c].step = "spend" /\ call[c] \in CallState
      /\ call[c].tier \in Tier /\ sub[call[c].member][call[c].tier] # None
  BY DEF IncrementCount, At, TypeOK, CallOK
<1>2. call[c].member \in Member /\ call[c].op \in Op
  BY <1>1 DEF CallState
<1>3. sub[call[c].member][call[c].tier] \in SubRow
  BY <1>1, <1>2 DEF TypeOK
<1> DEFINE w == [call[c] EXCEPT !.step = "insert", !.tier = None]
<1>4. call' = [call EXCEPT ![c].step = "insert", ![c].tier = None]
  BY DEF IncrementCount
<1>5. call' = [call EXCEPT ![c] = w]
  BY <1>1, <1>4 DEF TypeOK, CallState
<1>6. /\ w \in CallState /\ w.step = "insert" /\ w.member = call[c].member
      /\ w.post = call[c].post /\ w.op = call[c].op
  BY <1>1 DEF CallState, Step
<1>7. w # None
  BY <1>6, QuotaAssumption
<1> HIDE DEF w
<1>8. GoesOn(c, w, "spend", {"insert"}) /\ w # None
  BY <1>1, <1>5, <1>6, <1>7 DEF GoesOn, Moved
<1> QED
  BY <1>1, <1>2, <1>3, <1>8 DEF IncrementCount, Fail

\* The bid or offer is written, or the request is refused.
LEMMA InsertMoves ==
  ASSUME TypeOK, NEW c \in Call, CallOK(c), Insert(c)
  PROVE  /\ \/ GoesOn(c, None, "insert", {"count"}) /\ UNCHANGED bids
            \/ /\ \E w : GoesOn(c, w, "insert", {"count"}) /\ w # None
               /\ call[c].post \in Post /\ call[c].member \in Member
               /\ <<call[c].member, call[c].post>> \notin bids
               /\ bids' = bids \cup {<<call[c].member, call[c].post>>}
         /\ UNCHANGED <<post, sub, grant, today, granted, restored, faults>>
<1>1. /\ call[c] # None /\ call[c].step = "insert" /\ call[c] \in CallState
      /\ call[c].member \in Member
  BY DEF Insert, At, TypeOK, CallState
<1>2. CASE Done(c) /\ UNCHANGED bids
  BY <1>1, <1>2, Ending DEF Insert
<1>3. CASE /\ call[c].op \in {"bid", "offer"} /\ <<call[c].member, call[c].post>> \notin bids
           /\ bids' = bids \cup {<<call[c].member, call[c].post>>} /\ Goto(c, "count")
  <2>1. call[c].post \in Post
    BY <1>1, <1>3 DEF CallOK
  <2>2. PICK w \in CallState : /\ call' = [call EXCEPT ![c] = w] /\ w.step = "count"
                               /\ w.member = call[c].member /\ w.post = call[c].post
                               /\ w.op = call[c].op
    BY <1>1, <1>3, Going DEF Step
  <2>3. GoesOn(c, w, "insert", {"count"}) /\ w # None
    BY <1>1, <2>2, QuotaAssumption DEF GoesOn, Moved
  <2> QED
    BY <1>1, <1>3, <2>1, <2>3 DEF Insert
<1> QED
  BY <1>2, <1>3 DEF Insert

\* The bidder is counted at the post, or the write is lost.
LEMMA PostCountMoves ==
  ASSUME TypeOK, NEW c \in Call, CallOK(c), IncrementPostCount(c)
  PROVE  /\ GoesOn(c, None, "count", {}) /\ call[c].post \in Post
         /\ \/ post' = [post EXCEPT ![call[c].post].count = @ + 1] /\ UNCHANGED faults
            \/ faults' = faults + 1 /\ UNCHANGED post
         /\ UNCHANGED <<bids, sub, grant, today, granted, restored>>
<1>1. call[c] # None /\ call[c].step = "count" /\ Done(c)
  BY DEF IncrementPostCount, At
<1> QED
  BY <1>1, Ending DEF IncrementPostCount, CallOK, Fail

\* A request comes in.
Comes(c, w) == Moved(c, w) /\ call[c] = None /\ w \in CallState /\ w # None

\* A request for a bid or offer starts at a post that has room.
LEMMA ReadPostMoves ==
  ASSUME TypeOK, NEW c \in Call, NEW v \in Visit, ReadPost(c, v[1], v[2])
  PROVE  /\ \E w : /\ Comes(c, w) /\ w.step = "own" /\ w.post = v[2] /\ w.op \in {"bid", "offer"}
         /\ v[2] \in Post /\ post[v[2]].count < MaxBidders
         /\ UNCHANGED <<post, bids, sub, grant, today, granted, restored, faults>>
<1>1. v[1] \in Member /\ v[2] \in Post
  BY QuotaAssumption
<1> DEFINE w == [op |-> BidOrOffer(v[2]), step |-> "own", member |-> v[1], post |-> v[2],
                 held |-> 0, tier |-> None]
<1>2. w \in CallState /\ w.step = "own" /\ w.post = v[2] /\ w.op \in {"bid", "offer"}
  BY <1>1 DEF CallState, Step, Op, BidOrOffer
<1>3. call' = [call EXCEPT ![c] = w]
  BY DEF ReadPost
<1> HIDE DEF w
<1>4. Comes(c, w)
  BY <1>2, <1>3, QuotaAssumption DEF Comes, Moved, ReadPost
<1> QED
  BY <1>1, <1>2, <1>4 DEF ReadPost, HasRoom

\* A request for a new post starts at the subscription.
LEMMA CreateMoves ==
  ASSUME TypeOK, NEW c \in Call, NEW m \in Member, NEW op \in {"sell", "buy"}, Create(c, m, op)
  PROVE  /\ \E w : Comes(c, w) /\ w.step = "tier" /\ w.post = None /\ w.op \in {"sell", "buy"}
         /\ UNCHANGED <<post, bids, sub, grant, today, granted, restored, faults>>
<1> DEFINE w == [op |-> op, step |-> "tier", member |-> m, post |-> None,
                 held |-> 0, tier |-> None]
<1>2. w \in CallState /\ w.step = "tier" /\ w.post = None /\ w.op \in {"sell", "buy"}
  BY DEF CallState, Step, Op
<1>3. call' = [call EXCEPT ![c] = w]
  BY DEF Create
<1> HIDE DEF w
<1>4. Comes(c, w)
  BY <1>2, <1>3, QuotaAssumption DEF Comes, Moved, Create
<1> QED
  BY <1>2, <1>4 DEF Create

-----------------------------------------------------------------------------
(* Types, and what a request or a grant knows of the rows it works on.     *)

\* Subscription rows are never deleted.
SubsStay ==
  /\ sub' \in [Member -> [Tier -> SubRow \cup {None}]]
  /\ \A m \in Member, t \in Tier : sub[m][t] # None => sub'[m][t] # None

\* What CallOK says, of one request and the rows the step leaves.
Fits(w) ==
  w # None =>
    /\ w.op \in {"bid", "offer"} <=> w.post \in Post
    /\ w.step \in {"own", "first", "second", "count"} => w.post \in Post
    /\ w.step \in {"reset", "spend"} =>
         /\ w.tier \in Tier /\ Limit[w.tier] # None /\ sub'[w.member][w.tier] # None
    /\ w.step = "spend" => Limit[w.tier] >= 1

\* One request moves and the others stay.
LEMMA OneMoves ==
  ASSUME TypeOK, NEW c \in Call, NEW w, Moved(c, w)
  PROVE  /\ call' \in [Call -> CallState \cup {None}] /\ call'[c] = w
         /\ \A d \in Call : d # c => call'[d] = call[d]
BY DEF TypeOK, Moved

\* So CallOK has only to be shown of the request that moved.
LEMMA CallsKept ==
  ASSUME TypeOK, \A d \in Call : CallOK(d), NEW c \in Call, NEW w, Moved(c, w), SubsStay, Fits(w)
  PROVE  \A d \in Call : CallOK(d)'
<1>1. call'[c] = w /\ \A d \in Call : d # c => call'[d] = call[d]
  BY OneMoves
<1>2. CallOK(c)'
  BY <1>1 DEF CallOK, Fits
<1>3. ASSUME NEW d \in Call, d # c PROVE CallOK(d)'
  <2>1. call'[d] = call[d] /\ CallOK(d)
    BY <1>1, <1>3
  <2>2. call[d] # None => call[d].member \in Member
    BY DEF TypeOK, CallState
  <2> QED
    BY <2>1, <2>2 DEF CallOK, SubsStay
<1> QED
  BY <1>2, <1>3

\* Requests leave the administrators' requests alone.
LEMMA GrantsKept ==
  ASSUME TypeOK, GrantsConsistent, SubsStay, UNCHANGED grant
  PROVE  GrantsConsistent'
<1>1. ASSUME NEW a \in Admin, GrantAt(a, "reactivate")'
      PROVE  sub'[grant'[a].member][grant'[a].tier] # None
  <2>1. GrantAt(a, "reactivate")
    BY <1>1 DEF GrantAt
  <2>2. grant[a].member \in Member /\ grant[a].tier \in Tier
    BY <2>1 DEF TypeOK, GrantAt, GrantState
  <2> QED
    BY <2>1, <2>2 DEF GrantsConsistent, SubsStay
<1> QED
  BY <1>1 DEF GrantsConsistent

\* A reset empties the rows that are due and leaves the others.
LEMMA ResetRows ==
  ASSUME TypeOK, NEW row \in SubRow \cup {None}
  PROVE  /\ ResetRow(None) = None
         /\ row # None => ResetRow(row) \in SubRow
         /\ row # None /\ ~Due(row) => ResetRow(row) = row
         /\ row # None /\ Due(row) => /\ ResetRow(row).reset = today
                                      /\ \A op \in Op : ResetRow(row).used[op] = 0
<1>1. today \in Day
  BY Numbers DEF Day, TypeOK
<1>2. Unused \in [Op -> Nat] /\ \A op \in Op : Unused[op] = 0
  BY DEF Unused
<1>3. CASE row # None
  <2>1. row \in SubRow
    BY <1>3
  <2>2. CASE Due(row)
    <3>1. ResetRow(row) = [row EXCEPT !.used = Unused, !.reset = today]
      BY <1>3, <2>2 DEF ResetRow, Due
    <3> QED
      BY <1>1, <1>2, <2>1, <2>2, <3>1 DEF SubRow, ResetRow
  <2>3. CASE ~Due(row)
    BY <1>3, <2>1, <2>3 DEF ResetRow, Due
  <2> QED
    BY <2>2, <2>3 DEF ResetRow
<1> QED
  BY <1>3 DEF ResetRow

\* What a reset of the month does to the table.
LEMMA ResetTable ==
  ASSUME TypeOK, sub' = [m \in Member |-> [t \in Tier |-> ResetRow(sub[m][t])]]
  PROVE  /\ SubsStay
         /\ \A m \in Member, t \in Tier : sub'[m][t] = ResetRow(sub[m][t])
<1>1. \A m \in Member, t \in Tier : sub'[m][t] = ResetRow(sub[m][t])
  OBVIOUS
<1>2. \A m \in Member, t \in Tier : sub[m][t] \in SubRow \cup {None}
  BY DEF TypeOK
<1>3. None \notin SubRow
  BY QuotaAssumption
<1>4. \A m \in Member, t \in Tier : /\ ResetRow(sub[m][t]) \in SubRow \cup {None}
                                    /\ sub[m][t] # None => ResetRow(sub[m][t]) # None
  BY <1>2, <1>3, ResetRows
<1> QED
  BY <1>1, <1>4 DEF SubsStay

\* One row of the table is written.
LEMMA WriteTable ==
  ASSUME TypeOK, NEW m \in Member, NEW t \in Tier, NEW row \in SubRow,
         sub' = [sub EXCEPT ![m][t] = row]
  PROVE  /\ SubsStay /\ sub'[m][t] = row
         /\ \A n \in Member, u \in Tier : n # m \/ u # t => sub'[n][u] = sub[n][u]
<1>1. sub \in [Member -> [Tier -> SubRow \cup {None}]] /\ None \notin SubRow
  BY QuotaAssumption DEF TypeOK
<1> QED
  BY <1>1 DEF SubsStay

\* Row `row` with one counter more.
OneMore(row, old, op) ==
  /\ row.reset = old.reset /\ row.used[op] = old.used[op] + 1
  /\ \A other \in Op : other # op => row.used[other] = old.used[other]

\* A counter of a row goes up by one.
LEMMA Increments ==
  ASSUME TypeOK, NEW m \in Member, NEW t \in Tier, NEW op \in Op, sub[m][t] \in SubRow,
         sub' = [sub EXCEPT ![m][t].used[op] = @ + 1]
  PROVE  \E row \in SubRow : sub' = [sub EXCEPT ![m][t] = row] /\ OneMore(row, sub[m][t], op)
<1>1. PICK old : old = sub[m][t]
  OBVIOUS
<1>2. PICK used : used = old.used
  OBVIOUS
<1>3. used \in [Op -> Nat] /\ old \in SubRow
  BY <1>1, <1>2 DEF SubRow
<1> DEFINE more == [used EXCEPT ![op] = used[op] + 1]
           row == [old EXCEPT !.used = more]
<1>4. more \in [Op -> Nat] /\ more[op] = used[op] + 1
      /\ \A other \in Op : other # op => more[other] = used[other]
  BY <1>3
<1>5. [old EXCEPT !.used[op] = @ + 1] = row
  BY <1>2, <1>3 DEF SubRow
<1>6. sub' = [sub EXCEPT ![m] = [sub[m] EXCEPT ![t] = row]]
  BY <1>1, <1>5
<1> HIDE DEF more
<1>7. row \in SubRow /\ row.reset = old.reset /\ row.used = more
  BY <1>3, <1>4 DEF SubRow
<1> HIDE DEF row
<1>8. sub' = [sub EXCEPT ![m][t] = row]
  BY <1>6
<1> QED
  BY <1>1, <1>2, <1>4, <1>7, <1>8 DEF OneMore

\* The invariant's statements about rows, whatever the limits.
Consistent == TypeOK /\ GrantsConsistent /\ \A c \in Call : CallOK(c)

\* A request's step that writes no table.
LEMMA QuietStep ==
  ASSUME Consistent, NEW c \in Call, NEW w, Moved(c, w), Fits(w),
         UNCHANGED <<post, bids, sub, grant, today, granted, restored, faults>>
  PROVE  Consistent'
<1>1. TypeOK' /\ SubsStay
  BY OneMoves DEF Consistent, TypeOK, SubsStay
<1> QED
  BY <1>1, CallsKept, GrantsKept DEF Consistent

\* Each step of a request keeps the types and what the requests know.
LEMMA CallTypes ==
  ASSUME Consistent, NEW c \in Call, CallNext(c)
  PROVE  Consistent'
<1>0. TypeOK /\ CallOK(c)
  BY DEF Consistent
<1>1. call[c] # None => call[c].member \in Member
  BY <1>0 DEF TypeOK, CallState
<1>2. ASSUME NEW v \in Visit, ReadPost(c, v[1], v[2])
      PROVE  Consistent'
  <2>1. PICK w : Comes(c, w) /\ w.step = "own" /\ w.post = v[2] /\ w.op \in {"bid", "offer"}
    BY <1>0, <1>2, ReadPostMoves
  <2>2. Fits(w)
    BY <1>0, <1>2, <2>1, ReadPostMoves DEF Fits
  <2> QED
    BY <1>0, <1>2, <2>1, <2>2, ReadPostMoves, QuietStep DEF Comes
<1>3. ASSUME NEW m \in Member, NEW op \in {"sell", "buy"}, Create(c, m, op)
      PROVE  Consistent'
  <2>1. PICK w : Comes(c, w) /\ w.step = "tier" /\ w.post = None /\ w.op \in {"sell", "buy"}
    BY <1>0, <1>3, CreateMoves
  <2>2. Fits(w)
    BY <2>1, QuotaAssumption DEF Fits
  <2> QED
    BY <1>0, <1>3, <2>1, <2>2, CreateMoves, QuietStep DEF Comes
<1>4. CASE CheckOwn(c)
  <2>1. PICK w : GoesOn(c, w, "own", {"first"})
    BY <1>0, <1>4, CheckOwnMoves
  <2>2. Fits(w)
    BY <1>0, <2>1 DEF Fits, GoesOn, CallOK
  <2> QED
    BY <1>0, <1>4, <2>1, <2>2, CheckOwnMoves, QuietStep DEF GoesOn
<1>5. CASE CountFirst(c)
  <2>1. PICK w : GoesOn(c, w, "first", {"second"})
    BY <1>0, <1>5, CountFirstMoves
  <2>2. Fits(w)
    BY <1>0, <2>1 DEF Fits, GoesOn, CallOK
  <2> QED
    BY <1>0, <1>5, <2>1, <2>2, CountFirstMoves, QuietStep DEF GoesOn
<1>6. CASE CountSecond(c)
  <2>1. PICK w : /\ GoesOn(c, w, "second", {"tier"})
                 /\ w # None => SlotFree(c)
    BY <1>0, <1>6, CountSecondMoves
  <2>2. Fits(w)
    BY <1>0, <2>1 DEF Fits, GoesOn, CallOK
  <2> QED
    BY <1>0, <1>6, <2>1, <2>2, CountSecondMoves, QuietStep DEF GoesOn
<1>7. CASE CheckTier(c)
  <2>1. PICK w : /\ GoesOn(c, w, "tier", {"insert", "reset", "spend"})
                 /\ WillReset(c, w) /\ WillSpend(c, w)
    BY <1>0, <1>7, CheckTierMoves, Zenon
  <2>2. UNCHANGED <<post, bids, sub, grant, today, granted, restored, faults>>
    BY <1>0, <1>7, CheckTierMoves
  <2>3. ASSUME w = None PROVE Fits(w)
    BY <2>3 DEF Fits
  <2>4. ASSUME w # None, w.step = "insert" PROVE Fits(w)
    BY <1>0, <2>1, <2>4 DEF Fits, GoesOn, CallOK
  <2>5. ASSUME w # None, w.step \in {"reset", "spend"} PROVE Fits(w)
    <3>1. Limited(c, w.tier) /\ w.member = call[c].member
      BY <2>1, <2>5 DEF GoesOn, WillReset, WillSpend
    <3>2. w.tier \in Tier /\ Limit[w.tier] # None /\ sub'[w.member][w.tier] # None
      BY <2>2, <3>1, QuotaAssumption DEF Limited
    <3>3. w.step = "spend" => Limit[w.tier] >= 1
      <4> SUFFICES ASSUME w.step = "spend" PROVE Limit[w.tier] >= 1
        OBVIOUS
      <4>1. call[c] # None /\ call[c] \in CallState
        BY <1>0, <2>1 DEF GoesOn, TypeOK
      <4>2. call[c].op \in Op
        BY <4>1 DEF CallState
      <4>3. sub[call[c].member][w.tier].used[call[c].op] \in Nat /\ Limit[w.tier] \in Nat
        BY <3>1, <4>2 DEF Limited, SubRow
      <4>4. sub[call[c].member][w.tier].used[call[c].op] < Limit[w.tier]
        BY <2>1, <2>5 DEF WillSpend
      <4> QED
        BY <4>3, <4>4
    <3>4. /\ w.op \in {"bid", "offer"} <=> w.post \in Post
      BY <1>0, <2>1, <2>5 DEF GoesOn, CallOK
    <3> QED
      BY <2>5, <3>2, <3>3, <3>4 DEF Fits
  <2>6. Fits(w)
    BY <2>1, <2>3, <2>4, <2>5 DEF GoesOn, Fits
  <2> QED
    BY <2>1, <2>2, <2>6, QuietStep DEF GoesOn
<1>8. CASE ResetMonthlyCounts(c)
  <2>1. PICK w : /\ GoesOn(c, w, "reset", {"spend"})
                 /\ StillLimited(c, w)
    BY <1>0, <1>8, ResetMoves, Zenon
  <2>2. /\ call[c].tier \in Tier /\ Limit[call[c].tier] \in Nat
        /\ sub[call[c].member][call[c].tier] # None
        /\ \/ sub' = [m \in Member |-> [t \in Tier |-> ResetRow(sub[m][t])]] /\ UNCHANGED faults
           \/ faults' = faults + 1 /\ UNCHANGED sub
        /\ UNCHANGED <<post, bids, grant, today, granted, restored>>
    BY <1>0, <1>8, ResetMoves
  <2>3. SubsStay
    BY <1>0, <2>2, ResetTable DEF SubsStay, TypeOK
  <2>4. Fits(w)
    BY <1>0, <1>1, <2>1, <2>2, <2>3, QuotaAssumption DEF Fits, GoesOn, CallOK, SubsStay, StillLimited
  <2>5. faults' \in Nat
    BY <1>0, <2>2 DEF TypeOK
  <2>6. TypeOK'
    BY <1>0, <2>1, <2>2, <2>3, <2>5, OneMoves DEF TypeOK, SubsStay, GoesOn
  <2> QED
    BY <1>0, <2>1, <2>2, <2>3, <2>4, <2>6, CallsKept, GrantsKept DEF Consistent, GoesOn
<1>9. CASE IncrementCount(c)
  <2>1. PICK w : GoesOn(c, w, "spend", {"insert"})
    BY <1>0, <1>9, IncrementCountMoves
  <2>2. /\ call[c].tier \in Tier /\ call[c].member \in Member /\ call[c].op \in Op
        /\ sub[call[c].member][call[c].tier] \in SubRow
        /\ \/ /\ sub' = [sub EXCEPT ![call[c].member][call[c].tier].used[call[c].op] = @ + 1]
              /\ UNCHANGED faults
           \/ faults' = faults + 1 /\ UNCHANGED sub
        /\ UNCHANGED <<post, bids, grant, today, granted, restored>>
    BY <1>0, <1>9, IncrementCountMoves
  <2>3. PICK m \in Member, t \in Tier, op \in Op :
          m = call[c].member /\ t = call[c].tier /\ op = call[c].op
    BY <2>2
  <2>4. SubsStay
    <3>1. CASE sub' = [sub EXCEPT ![m][t].used[op] = @ + 1]
      <4>1. PICK row \in SubRow : sub' = [sub EXCEPT ![m][t] = row] /\ OneMore(row, sub[m][t], op)
        <5>1. sub[m][t] \in SubRow
          BY <2>2, <2>3
        <5> QED
          BY <1>0, <3>1, <5>1, Increments, Zenon
      <4> QED
        BY <1>0, <4>1, WriteTable
    <3>2. CASE UNCHANGED sub
      BY <1>0, <3>2 DEF SubsStay, TypeOK
    <3> QED
      BY <2>2, <2>3, <3>1, <3>2
  <2>5. Fits(w)
    BY <1>0, <2>1 DEF Fits, GoesOn, CallOK
  <2>6. faults' \in Nat
    BY <1>0, <2>2 DEF TypeOK
  <2>7. TypeOK'
    BY <1>0, <2>1, <2>2, <2>4, <2>6, OneMoves DEF TypeOK, SubsStay, GoesOn
  <2> QED
    BY <1>0, <2>1, <2>2, <2>4, <2>5, <2>7, CallsKept, GrantsKept DEF Consistent, GoesOn
<1>10. CASE Insert(c)
  <2>1. PICK w : /\ GoesOn(c, w, "insert", {"count"})
                 /\ w # None => call[c].post \in Post
    BY <1>0, <1>10, InsertMoves, Zenon
  <2>2. UNCHANGED <<post, sub, grant, today, granted, restored, faults>>
    BY <1>0, <1>10, InsertMoves
  <2>3. bids' \subseteq Member \X Post
    <3>1. \/ UNCHANGED bids
          \/ /\ call[c].post \in Post /\ call[c].member \in Member
             /\ bids' = bids \cup {<<call[c].member, call[c].post>>}
      BY <1>0, <1>10, InsertMoves
    <3> QED
      BY <1>0, <3>1 DEF TypeOK
  <2>4. Fits(w)
    BY <1>0, <2>1 DEF Fits, GoesOn, CallOK
  <2>5. SubsStay /\ TypeOK'
    BY <1>0, <2>1, <2>2, <2>3, OneMoves DEF TypeOK, SubsStay, GoesOn
  <2> QED
    BY <1>0, <2>1, <2>2, <2>4, <2>5, CallsKept, GrantsKept DEF Consistent, GoesOn
<1>11. CASE IncrementPostCount(c)
  <2>1. /\ GoesOn(c, None, "count", {}) /\ call[c].post \in Post
        /\ \/ post' = [post EXCEPT ![call[c].post].count = @ + 1] /\ UNCHANGED faults
           \/ faults' = faults + 1 /\ UNCHANGED post
        /\ UNCHANGED <<bids, sub, grant, today, granted, restored>>
    BY <1>0, <1>11, PostCountMoves
  <2>2. PICK p \in Post : p = call[c].post
    BY <2>1
  <2>3. post' \in [Post -> PostRow] /\ faults' \in Nat
    <3>1. post \in [Post -> PostRow] /\ faults \in Nat
      BY <1>0 DEF TypeOK
    <3> QED
      BY <2>1, <2>2, <3>1 DEF PostRow
  <2>4. SubsStay /\ TypeOK' /\ Fits(None)
    BY <1>0, <2>1, <2>3, OneMoves DEF TypeOK, SubsStay, GoesOn, Fits
  <2> QED
    BY <1>0, <2>1, <2>4, CallsKept, GrantsKept DEF Consistent, GoesOn
<1> QED
  BY <1>2, <1>3, <1>4, <1>5, <1>6, <1>7, <1>8, <1>9, <1>10, <1>11 DEF CallNext

\* Steps of others keep what the requests know.
LEMMA CallsStay ==
  ASSUME TypeOK, \A d \in Call : CallOK(d), SubsStay, UNCHANGED call
  PROVE  \A d \in Call : CallOK(d)'
<1>1. ASSUME NEW d \in Call PROVE CallOK(d)'
  <2>1. CallOK(d) /\ (call[d] # None => call[d].member \in Member)
    BY DEF TypeOK, CallState
  <2> QED
    BY <2>1 DEF CallOK, SubsStay
<1> QED
  BY <1>1

\* How an administrator writes the subscriptions of a member: the counters
\* stay, and a row that was not there starts empty.
RowKept(row, old) ==
  IF old = None THEN row = None \/ (row \in SubRow /\ \A op \in Op : row.used[op] = 0)
  ELSE row \in SubRow /\ row.reset = old.reset /\ row.used = old.used

RowsKept == /\ sub' \in [Member -> [Tier -> SubRow \cup {None}]]
            /\ \A m \in Member, t \in Tier : RowKept(sub'[m][t], sub[m][t])

\* Kept rows stay.
LEMMA RowsKeptStay ==
  ASSUME RowsKept
  PROVE  SubsStay
BY QuotaAssumption DEF RowsKept, RowKept, SubsStay

\* The administrators' way of writing one row.
LEMMA WriteRow ==
  ASSUME TypeOK, NEW m \in Member, NEW t \in Tier, NEW row \in SubRow, RowKept(row, sub[m][t]),
         sub' = [sub EXCEPT ![m][t] = row]
  PROVE  RowsKept
<1>1. sub \in [Member -> [Tier -> SubRow \cup {None}]]
  BY DEF TypeOK
<1>2. SubsStay /\ sub'[m][t] = row
      /\ \A n \in Member, u \in Tier : n # m \/ u # t => sub'[n][u] = sub[n][u]
  BY <1>1, QuotaAssumption DEF SubsStay
<1>3. \A n \in Member, u \in Tier : sub[n][u] \in SubRow \cup {None}
  BY <1>1
<1>4. ASSUME NEW n \in Member, NEW u \in Tier PROVE RowKept(sub'[n][u], sub[n][u])
  <2>1. CASE n = m /\ u = t
    BY <1>2, <2>1
  <2>2. CASE n # m \/ u # t
    BY <1>2, <1>3, <2>2 DEF RowKept
  <2> QED
    BY <2>1, <2>2
<1> QED
  BY <1>2, <1>4 DEF RowsKept, SubsStay

\* Giving and editing subscriptions.
LEMMA AdminMoves ==
  ASSUME Consistent, AdminNext
  PROVE  RowsKept /\ faults' \in Nat /\ faults' >= faults
         /\ UNCHANGED <<post, bids, call, today, restored>>
         /\ granted' \in Nat /\ grant' \in [Admin -> GrantState \cup {None}]
         /\ GrantsConsistent'
<1>0. TypeOK /\ None \notin SubRow /\ None \notin GrantState /\ today \in Day
      /\ today + 1 \in Day /\ Horizon + 1 \in Day
  BY QuotaAssumption, Numbers DEF Consistent, TypeOK, Day
<1>1. sub \in [Member -> [Tier -> SubRow \cup {None}]]
      /\ grant \in [Admin -> GrantState \cup {None}] /\ faults \in Nat /\ granted \in Nat
  BY <1>0 DEF TypeOK
<1>2. UNCHANGED sub => RowsKept
  BY <1>1 DEF RowsKept, RowKept
<1>3. ASSUME NEW a \in Admin, NEW m \in Member, NEW t \in Tier,
             DeactivateAllUserSubscriptions(a, m, t)
      PROVE  /\ RowsKept /\ granted' \in Nat /\ grant' \in [Admin -> GrantState \cup {None}]
             /\ GrantsConsistent'
             /\ UNCHANGED <<post, bids, call, today, restored, faults>>
  <2>1. PICK rows : rows = [tier \in Tier |-> DeactivateRow(sub[m][tier])]
    OBVIOUS
  <2>2. ASSUME NEW u \in Tier
        PROVE  rows[u] \in SubRow \cup {None} /\ RowKept(rows[u], sub[m][u])
    <3>1. PICK old : old = sub[m][u]
      OBVIOUS
    <3>2. old \in SubRow \cup {None} /\ rows[u] = DeactivateRow(old)
      BY <1>1, <2>1, <3>1
    <3>3. CASE old # None /\ old.active
      BY <1>0, <3>1, <3>2, <3>3 DEF DeactivateRow, RowKept, SubRow
    <3>4. CASE old = None \/ ~old.active
      BY <1>0, <3>1, <3>2, <3>4 DEF DeactivateRow, RowKept
    <3> QED
      BY <3>3, <3>4
  <2>3. sub' = [sub EXCEPT ![m] = rows]
    BY <1>3, <2>1 DEF DeactivateAllUserSubscriptions
  <2>4. rows \in [Tier -> SubRow \cup {None}]
    BY <2>1, <2>2
  <2>5. sub' \in [Member -> [Tier -> SubRow \cup {None}]]
        /\ sub'[m] = rows /\ \A n \in Member : n # m => sub'[n] = sub[n]
    BY <1>1, <2>3, <2>4
  <2>6. ASSUME NEW n \in Member, NEW u \in Tier PROVE RowKept(sub'[n][u], sub[n][u])
    BY <1>1, <2>2, <2>5 DEF RowKept
  <2>7. RowsKept
    BY <2>5, <2>6 DEF RowsKept
  <2>8. granted' \in Nat /\ UNCHANGED <<post, bids, call, today, restored, faults>>
    BY <1>1, <1>3 DEF DeactivateAllUserSubscriptions
  <2>9. PICK g : g = [member |-> m, tier |-> t, step |-> "lookup"]
    OBVIOUS
  <2>10. g \in GrantState /\ g.step = "lookup" /\ grant' = [grant EXCEPT ![a] = g]
    BY <1>3, <2>9 DEF DeactivateAllUserSubscriptions, GrantState
  <2>11. grant' \in [Admin -> GrantState \cup {None}]
    BY <1>1, <2>10
  <2>12. ASSUME NEW b \in Admin, GrantAt(b, "reactivate")'
         PROVE  sub'[grant'[b].member][grant'[b].tier] # None
    <3>1. b # a /\ grant'[b] = grant[b]
      BY <1>1, <2>10, <2>12 DEF GrantAt
    <3>2. grant[b].member \in Member /\ grant[b].tier \in Tier /\ GrantAt(b, "reactivate")
      BY <1>1, <2>12, <3>1 DEF GrantAt, GrantState
    <3> QED
      BY <2>7, <3>1, <3>2, RowsKeptStay DEF Consistent, GrantsConsistent, SubsStay
  <2> QED
    BY <2>7, <2>8, <2>11, <2>12 DEF GrantsConsistent
<1>4. ASSUME NEW a \in Admin, LookUpRow(a)
      PROVE  /\ UNCHANGED sub /\ granted' \in Nat /\ grant' \in [Admin -> GrantState \cup {None}]
             /\ GrantsConsistent'
             /\ UNCHANGED <<post, bids, call, today, restored, faults>>
  <2>1. grant[a] \in GrantState /\ UNCHANGED <<post, bids, sub, call, today, granted, restored, faults>>
    BY <1>1, <1>4 DEF LookUpRow, GrantAt
  <2>2. PICK step : step = IF sub[grant[a].member][grant[a].tier] = None THEN "create" ELSE "reactivate"
    OBVIOUS
  <2>3. PICK g : g = [grant[a] EXCEPT !.step = step]
    OBVIOUS
  <2>4. g \in GrantState /\ g.step = step /\ g.member = grant[a].member /\ g.tier = grant[a].tier
    BY <2>1, <2>2, <2>3 DEF GrantState
  <2>5. grant' = [grant EXCEPT ![a] = g]
    BY <1>1, <1>4, <2>2, <2>3 DEF LookUpRow
  <2>6. grant' \in [Admin -> GrantState \cup {None}]
    BY <1>1, <2>4, <2>5
  <2>7. ASSUME NEW b \in Admin, GrantAt(b, "reactivate")'
        PROVE  sub'[grant'[b].member][grant'[b].tier] # None
    <3>1. CASE b = a
      BY <1>1, <2>1, <2>2, <2>4, <2>5, <2>7, <3>1 DEF GrantAt
    <3>2. CASE b # a
      <4>1. grant'[b] = grant[b] /\ GrantAt(b, "reactivate")
        BY <1>1, <2>5, <2>7, <3>2 DEF GrantAt
      <4> QED
        BY <2>1, <4>1 DEF Consistent, GrantsConsistent
    <3> QED
      BY <3>1, <3>2
  <2> QED
    BY <1>1, <2>1, <2>6, <2>7 DEF GrantsConsistent
<1>5. ASSUME NEW a \in Admin, ReactivateUserSubscription(a) \/ CreateUserSubscription(a)
      PROVE  /\ RowsKept /\ granted' \in Nat /\ grant' \in [Admin -> GrantState \cup {None}]
             /\ GrantsConsistent' /\ faults' \in Nat /\ faults' >= faults
             /\ UNCHANGED <<post, bids, call, today, restored>>
  <2>1. PICK m, t : m = grant[a].member /\ t = grant[a].tier
    OBVIOUS
  <2>2. grant[a] # None /\ grant' = [grant EXCEPT ![a] = None]
        /\ UNCHANGED <<post, bids, call, today, granted, restored>>
    BY <1>5 DEF ReactivateUserSubscription, CreateUserSubscription, WriteGrant, GrantAt
  <2>3. m \in Member /\ t \in Tier /\ sub[m][t] \in SubRow \cup {None}
    BY <1>1, <2>1, <2>2 DEF GrantState
  <2>4. \/ UNCHANGED sub /\ faults' = faults + 1
        \/ /\ UNCHANGED faults /\ sub[m][t] # None
           /\ \E end \in Day : sub' = [sub EXCEPT ![m][t] = ReactivateRow(sub[m][t], end)]
        \/ /\ UNCHANGED faults
           /\ \E end \in Day : sub' = [sub EXCEPT ![m][t] = CreateRow(sub[m][t], end)]
    <3>1. CASE ReactivateUserSubscription(a)
      <4>1. sub[m][t] # None
        BY <2>1, <3>1 DEF ReactivateUserSubscription, WriteGrant, Consistent, GrantsConsistent
      <4> QED
        BY <1>0, <2>1, <3>1, <4>1 DEF ReactivateUserSubscription, WriteGrant, Fail
    <3>2. CASE CreateUserSubscription(a)
      BY <1>0, <2>1, <3>2 DEF CreateUserSubscription, WriteGrant, Fail
    <3> QED
      BY <1>5, <3>1, <3>2
  <2>5. RowsKept
    <3>1. ASSUME sub[m][t] # None, NEW end \in Day, sub' = [sub EXCEPT ![m][t] = ReactivateRow(sub[m][t], end)]
          PROVE  RowsKept
      <4>1. PICK row : row = ReactivateRow(sub[m][t], end)
        OBVIOUS
      <4>2. row \in SubRow /\ RowKept(row, sub[m][t])
        BY <2>3, <3>1, <4>1 DEF ReactivateRow, SubRow, RowKept
      <4> QED
        BY <1>0, <2>3, <3>1, <4>1, <4>2, WriteRow
    <3>2. ASSUME NEW end \in Day, sub' = [sub EXCEPT ![m][t] = CreateRow(sub[m][t], end)]
          PROVE  RowsKept
      <4>1. PICK row : row = CreateRow(sub[m][t], end)
        OBVIOUS
      <4>2. row \in SubRow /\ RowKept(row, sub[m][t])
        <5>1. CASE sub[m][t] = None
          <6>1. row = Row(end)
            BY <4>1, <5>1 DEF CreateRow
          <6>2. row \in SubRow /\ \A op \in Op : row.used[op] = 0
            BY <1>0, <6>1, FreshRow DEF TypeOK
          <6> QED
            BY <5>1, <6>2 DEF RowKept
        <5>2. CASE sub[m][t] # None
          <6>1. row = sub[m][t]
            BY <4>1, <5>2 DEF CreateRow
          <6> QED
            BY <2>3, <5>2, <6>1 DEF RowKept
        <5> QED
          BY <5>1, <5>2
      <4> QED
        BY <1>0, <2>3, <3>2, <4>1, <4>2, WriteRow
    <3> QED
      BY <1>2, <2>4, <3>1, <3>2
  <2>6. grant' \in [Admin -> GrantState \cup {None}]
    BY <1>1, <2>2
  <2>7. ASSUME NEW b \in Admin, GrantAt(b, "reactivate")'
        PROVE  sub'[grant'[b].member][grant'[b].tier] # None
    <3>1. grant'[b] = grant[b] /\ GrantAt(b, "reactivate")
      BY <1>1, <2>2, <2>7 DEF GrantAt
    <3>2. grant[b].member \in Member /\ grant[b].tier \in Tier
      BY <1>1, <3>1 DEF GrantAt, GrantState
    <3> QED
      BY <2>5, <3>1, <3>2, RowsKeptStay DEF Consistent, GrantsConsistent, SubsStay
  <2>8. faults' \in Nat /\ faults' >= faults
    BY <1>1, <2>4
  <2> QED
    BY <1>1, <2>2, <2>5, <2>6, <2>7, <2>8 DEF GrantsConsistent
<1>6. ASSUME NEW m \in Member, NEW t \in Tier, UpdateUserSubscription(m, t)
      PROVE  /\ RowsKept /\ granted' \in Nat /\ UNCHANGED grant /\ GrantsConsistent'
             /\ UNCHANGED <<post, bids, call, today, restored, faults>>
  <2>1. PICK active \in BOOLEAN, primary \in BOOLEAN, ends \in {sub[m][t].ends, today, Horizon + 1} :
          sub' = [sub EXCEPT ![m][t].active = active, ![m][t].primary = primary, ![m][t].ends = ends]
    BY <1>6 DEF UpdateUserSubscription
  <2>2. sub[m][t] \in SubRow
    BY <1>1, <1>6 DEF UpdateUserSubscription
  <2>3. PICK row : row = [sub[m][t] EXCEPT !.active = active, !.primary = primary, !.ends = ends]
    OBVIOUS
  <2>4. row \in SubRow /\ row.reset = sub[m][t].reset /\ row.used = sub[m][t].used
    BY <1>0, <2>2, <2>3 DEF SubRow
  <2>5. sub' = [sub EXCEPT ![m][t] = row]
    BY <1>1, <2>1, <2>3
  <2>6. RowKept(row, sub[m][t])
    BY <1>0, <2>2, <2>4 DEF RowKept
  <2>7. RowsKept
    BY <1>0, <2>4, <2>5, <2>6, WriteRow
  <2>8. granted' \in Nat /\ UNCHANGED <<post, bids, call, grant, today, restored, faults>>
    BY <1>1, <1>6 DEF UpdateUserSubscription
  <2> QED
    BY <1>0, <2>7, <2>8, RowsKeptStay, GrantsKept DEF Consistent
<1> QED
  BY <1>1, <1>2, <1>3, <1>4, <1>5, <1>6 DEF AdminNext

-----------------------------------------------------------------------------
(* MAX_BIDS_PER_AUCTION.                                                    *)

\* The sets a post's bidders are counted with.
LEMMA BidderSets ==
  ASSUME NEW p \in Post, TypeOK
  PROVE  /\ IsFiniteSet(Bidders(p)) /\ Count(Bidders(p)) \in Nat
         /\ Entering(p) \subseteq Call /\ Counting(p) \subseteq Call /\ Entering(p) \cap Counting(p) = {}
         /\ Count(Entering(p)) \in Nat /\ Count(Counting(p)) \in Nat
         /\ post[p].count \in Nat /\ faults \in Nat /\ MaxBidders \in Nat /\ Overrun \in Nat
<1>1. Bidders(p) \in SUBSET Member
  BY DEF Bidders
<1>2. IsFiniteSet(Bidders(p)) /\ Count(Bidders(p)) \in Nat
  BY <1>1, QuotaAssumption, FS_Subset, FS_CardinalityType DEF Count
<1>3. Entering(p) \in SUBSET Call /\ Counting(p) \in SUBSET Call
  BY DEF Entering, Counting
<1>4. Count(Entering(p)) \in Nat /\ Count(Counting(p)) \in Nat
  BY <1>3, CallSet DEF Count
<1>5. Entering(p) \cap Counting(p) = {}
  BY DEF Entering, Counting, Enters, Counts
<1>6. post[p].count \in Nat /\ faults \in Nat
  BY DEF TypeOK, PostRow
<1> QED
  BY <1>2, <1>3, <1>4, <1>5, <1>6, Numbers

\* Steps that neither bring a request to the post nor write its bids.
LEMMA BiddersQuiet ==
  ASSUME TypeOK, faults' \in Nat, faults' >= faults, NEW p \in Post, BiddersOK(p),
         NEW c \in Call, NEW w, Moved(c, w), Enters(w, p) => Enters(call[c], p),
         ~Counts(call[c], p), ~Counts(w, p), Bidders(p)' = Bidders(p),
         post'[p].count = post[p].count
  PROVE  BiddersOK(p)'
<1>1. call'[c] = w /\ \A d \in Call : d # c => call'[d] = call[d]
  BY OneMoves
<1>2. PICK E, C : E = Entering(p)' /\ C = Counting(p)'
  OBVIOUS
<1>3. E \in SUBSET Entering(p) /\ C = Counting(p) /\ Entering(p) \in SUBSET Call
  BY <1>1, <1>2 DEF Entering, Counting
<1>4. Cardinality(E) <= Cardinality(Entering(p)) /\ Cardinality(E) \in Nat
  BY <1>3, CallSet
<1>5. Count(Bidders(p)') = Count(Bidders(p)) /\ Count(E) <= Count(Entering(p))
      /\ Count(C) = Count(Counting(p)) /\ Count(E) \in Nat
  BY <1>3, <1>4 DEF Count
<1>6. Count(Bidders(p)') <= post'[p].count + Count(C) + faults'
  BY <1>5, BidderSets DEF BiddersOK
<1>7. Count(Bidders(p)') + Count(E) <= MaxBidders + Overrun + faults'
  BY <1>5, BidderSets DEF BiddersOK
<1> QED
  BY <1>2, <1>6, <1>7 DEF BiddersOK, Count

\* A request reads the post: the bidders it finds counted are fewer than the
\* limit, and those not counted belong to other requests.
LEMMA BiddersEnter ==
  ASSUME TypeOK, NEW p \in Post, BiddersOK(p), NEW c \in Call, NEW w, Comes(c, w),
         w.step = "own", w.post = p, post[p].count < MaxBidders,
         UNCHANGED <<post, bids, faults>>
  PROVE  BiddersOK(p)'
<1>1. call'[c] = w /\ \A d \in Call : d # c => call'[d] = call[d]
  BY OneMoves DEF Comes
<1>2. PICK E, C : E = Entering(p) /\ C = Counting(p)
  OBVIOUS
<1>3. Entering(p)' = E \cup {c} /\ Counting(p)' = C /\ c \notin E /\ c \notin C
  BY <1>1, <1>2 DEF Entering, Counting, Enters, Counts, Comes
<1>4. E \in SUBSET Call /\ C \in SUBSET Call /\ E \cap C = {}
  BY <1>2, BidderSets
<1>5. Cardinality(E \cup {c}) = Cardinality(E) + 1 /\ Cardinality(E) + Cardinality(C) <= Overrun
      /\ Cardinality(E) \in Nat /\ Cardinality(C) \in Nat
  BY <1>3, <1>4, CallSet, TwoSets
<1>6. Bidders(p)' = Bidders(p)
  BY DEF Bidders
<1>7. PICK b \in Nat : b = Cardinality(Bidders(p))
  BY BidderSets DEF Count
<1>8. b <= post[p].count + Cardinality(C) + faults
  BY <1>2, <1>7 DEF BiddersOK, Count
<1>9. b + (Cardinality(E) + 1) <= MaxBidders + Overrun + faults
  BY <1>5, <1>8, BidderSets
<1> QED
  BY <1>3, <1>5, <1>6, <1>7, <1>8, <1>9 DEF BiddersOK, Count

\* A bid is written by a request that had read the post.
LEMMA BiddersInsert ==
  ASSUME TypeOK, NEW p \in Post, BiddersOK(p), NEW c \in Call, NEW w, NEW m \in Member,
         GoesOn(c, w, "insert", {"count"}), w # None, call[c].post = p, m = call[c].member,
         <<m, p>> \notin bids, bids' = bids \cup {<<m, p>>}, UNCHANGED <<post, faults>>
  PROVE  BiddersOK(p)'
<1>0. w.step = "count" /\ w.post = p /\ call[c] # None /\ call[c].step = "insert"
  BY DEF GoesOn
<1>1. call'[c] = w /\ \A d \in Call : d # c => call'[d] = call[d]
  BY OneMoves DEF GoesOn
<1>2. PICK E, C, B : E = Entering(p) /\ C = Counting(p) /\ B = Bidders(p)
  OBVIOUS
<1>3. Entering(p)' = E \ {c} /\ Counting(p)' = C \cup {c} /\ c \in E /\ c \notin C
  BY <1>0, <1>1, <1>2 DEF Entering, Counting, Enters, Counts
<1>4. E \in SUBSET Call /\ C \in SUBSET Call /\ IsFiniteSet(B) /\ Cardinality(B) \in Nat
  BY <1>2, BidderSets DEF Count
<1>5. Cardinality(E \ {c}) = Cardinality(E) - 1 /\ Cardinality(C \cup {c}) = Cardinality(C) + 1
      /\ Cardinality(E) \in Nat /\ Cardinality(C) \in Nat
  BY <1>3, <1>4, CallSet
<1>6. Bidders(p)' = B \cup {m} /\ m \notin B
  BY <1>2 DEF Bidders
<1>7. Cardinality(B \cup {m}) = Cardinality(B) + 1
  BY <1>4, <1>6, FS_AddElement
<1>8. /\ Cardinality(B) <= post[p].count + Cardinality(C) + faults
      /\ Cardinality(B) + Cardinality(E) <= MaxBidders + Overrun + faults
  BY <1>2 DEF BiddersOK, Count
<1>9. /\ Cardinality(B) + 1 <= post[p].count + (Cardinality(C) + 1) + faults
      /\ (Cardinality(B) + 1) + (Cardinality(E) - 1) <= MaxBidders + Overrun + faults
  BY <1>4, <1>5, <1>8, BidderSets
<1> QED
  BY <1>3, <1>5, <1>6, <1>7, <1>9 DEF BiddersOK, Count

\* A bid is counted, or its count is lost.
LEMMA BiddersCounted ==
  ASSUME TypeOK, NEW p \in Post, BiddersOK(p), NEW c \in Call,
         GoesOn(c, None, "count", {}), call[c].post = p, UNCHANGED bids,
         \/ post'[p].count = post[p].count + 1 /\ UNCHANGED faults
         \/ UNCHANGED post /\ faults' = faults + 1
  PROVE  BiddersOK(p)'
<1>1. call'[c] = None /\ \A d \in Call : d # c => call'[d] = call[d]
  BY OneMoves DEF GoesOn
<1>2. PICK E, C : E = Entering(p) /\ C = Counting(p)
  OBVIOUS
<1>3. Entering(p)' = E /\ Counting(p)' = C \ {c} /\ c \in C
  BY <1>1, <1>2 DEF Entering, Counting, Enters, Counts, GoesOn
<1>4. E \in SUBSET Call /\ C \in SUBSET Call
  BY <1>2, BidderSets
<1>5. Cardinality(C \ {c}) = Cardinality(C) - 1 /\ Cardinality(E) \in Nat /\ Cardinality(C) \in Nat
  BY <1>3, <1>4, CallSet
<1>6. Bidders(p)' = Bidders(p)
  BY DEF Bidders
<1>7. PICK b \in Nat : b = Cardinality(Bidders(p))
  BY BidderSets DEF Count
<1>8. /\ b <= post[p].count + Cardinality(C) + faults
      /\ b + Cardinality(E) <= MaxBidders + Overrun + faults
  BY <1>2, <1>7 DEF BiddersOK, Count
<1>9. /\ b <= post'[p].count + (Cardinality(C) - 1) + faults'
      /\ b + Cardinality(E) <= MaxBidders + Overrun + faults'
  BY <1>5, <1>8, BidderSets
<1> QED
  BY <1>3, <1>5, <1>6, <1>7, <1>9 DEF BiddersOK, Count

\* The steps of a request keep what is said about every post's bidders.
LEMMA BiddersCall ==
  ASSUME Consistent, \A p \in Post : BiddersOK(p), NEW c \in Call, CallNext(c)
  PROVE  \A p \in Post : BiddersOK(p)'
<1> SUFFICES ASSUME NEW p \in Post PROVE BiddersOK(p)'
  OBVIOUS
<1>0. TypeOK /\ CallOK(c) /\ BiddersOK(p) /\ faults \in Nat /\ faults' \in Nat /\ p # None
  BY CallTypes, QuotaAssumption DEF Consistent, TypeOK
<1>1. ASSUME NEW w, NEW from, NEW to, GoesOn(c, w, from, to), from # "count", "count" \notin to,
             UNCHANGED <<post, bids>>, faults' >= faults
      PROVE  BiddersOK(p)'
  <2>1. Moved(c, w) /\ (Enters(w, p) => Enters(call[c], p)) /\ ~Counts(call[c], p) /\ ~Counts(w, p)
    BY <1>1 DEF GoesOn, Enters, Counts
  <2>2. Bidders(p)' = Bidders(p)
    BY <1>1 DEF Bidders
  <2> QED
    BY <1>0, <1>1, <2>1, <2>2, BiddersQuiet
<1>2. ASSUME NEW w, Comes(c, w), w.post # p, w.step # "count", UNCHANGED <<post, bids, faults>>
      PROVE  BiddersOK(p)'
  <2>1. Moved(c, w) /\ ~Enters(w, p) /\ ~Counts(call[c], p) /\ ~Counts(w, p)
    BY <1>2 DEF Comes, Enters, Counts
  <2>2. Bidders(p)' = Bidders(p) /\ faults' >= faults
    BY <1>0, <1>2 DEF Bidders
  <2> QED
    BY <1>0, <1>2, <2>1, <2>2, BiddersQuiet
<1>3. ASSUME NEW v \in Visit, ReadPost(c, v[1], v[2])
      PROVE  BiddersOK(p)'
  <2>1. PICK w : Comes(c, w) /\ w.step = "own" /\ w.post = v[2] /\ w.op \in {"bid", "offer"}
    BY <1>0, <1>3, ReadPostMoves
  <2>2. post[v[2]].count < MaxBidders /\ UNCHANGED <<post, bids, faults>>
    BY <1>0, <1>3, ReadPostMoves
  <2>3. CASE v[2] = p
    BY <1>0, <2>1, <2>2, <2>3, BiddersEnter
  <2>4. CASE v[2] # p
    BY <1>2, <2>1, <2>2, <2>4
  <2> QED
    BY <2>3, <2>4
<1>4. ASSUME NEW m \in Member, NEW op \in {"sell", "buy"}, Create(c, m, op)
      PROVE  BiddersOK(p)'
  <2>1. PICK w : Comes(c, w) /\ w.step = "tier" /\ w.post = None /\ w.op \in {"sell", "buy"}
    BY <1>0, <1>4, CreateMoves
  <2>2. UNCHANGED <<post, bids, faults>>
    BY <1>0, <1>4, CreateMoves
  <2> QED
    BY <1>0, <1>2, <2>1, <2>2
<1>5. CASE CheckOwn(c)
  <2>1. PICK w : GoesOn(c, w, "own", {"first"})
    BY <1>0, <1>5, CheckOwnMoves
  <2> QED
    BY <1>0, <1>1, <1>5, <2>1, CheckOwnMoves
<1>6. CASE CountFirst(c)
  <2>1. PICK w : GoesOn(c, w, "first", {"second"})
    BY <1>0, <1>6, CountFirstMoves
  <2> QED
    BY <1>0, <1>1, <1>6, <2>1, CountFirstMoves
<1>7. CASE CountSecond(c)
  <2>1. PICK w : GoesOn(c, w, "second", {"tier"})
    BY <1>0, <1>7, CountSecondMoves
  <2> QED
    BY <1>0, <1>1, <1>7, <2>1, CountSecondMoves
<1>8. CASE CheckTier(c)
  <2>1. PICK w : GoesOn(c, w, "tier", {"insert", "reset", "spend"})
    BY <1>0, <1>8, CheckTierMoves
  <2> QED
    BY <1>0, <1>1, <1>8, <2>1, CheckTierMoves
<1>9. CASE ResetMonthlyCounts(c)
  <2>1. PICK w : GoesOn(c, w, "reset", {"spend"})
    BY <1>0, <1>9, ResetMoves
  <2>2. UNCHANGED <<post, bids>> /\ faults' >= faults
    BY <1>0, <1>9, ResetMoves
  <2> QED
    BY <1>1, <2>1, <2>2
<1>10. CASE IncrementCount(c)
  <2>1. PICK w : GoesOn(c, w, "spend", {"insert"})
    BY <1>0, <1>10, IncrementCountMoves
  <2>2. UNCHANGED <<post, bids>> /\ faults' >= faults
    <3>1. UNCHANGED <<post, bids>> /\ (UNCHANGED faults \/ faults' = faults + 1)
      BY <1>0, <1>10, IncrementCountMoves
    <3> QED
      BY <1>0, <3>1
  <2> QED
    BY <1>1, <2>1, <2>2
<1>11. CASE Insert(c)
  <2>0. UNCHANGED <<post, faults>> /\ faults' >= faults
    <3>1. UNCHANGED <<post, faults>>
      BY <1>0, <1>11, InsertMoves
    <3> QED
      BY <1>0, <3>1
  <2>1. CASE GoesOn(c, None, "insert", {"count"}) /\ UNCHANGED bids
    <3>1. Moved(c, None) /\ ~Enters(None, p) /\ ~Counts(call[c], p) /\ ~Counts(None, p)
      BY <2>1 DEF GoesOn, Enters, Counts
    <3>2. Bidders(p)' = Bidders(p)
      BY <2>1 DEF Bidders
    <3> QED
      BY <1>0, <2>0, <3>1, <3>2, BiddersQuiet
  <2>2. CASE /\ \E w : GoesOn(c, w, "insert", {"count"}) /\ w # None
             /\ call[c].post \in Post /\ call[c].member \in Member
             /\ <<call[c].member, call[c].post>> \notin bids
             /\ bids' = bids \cup {<<call[c].member, call[c].post>>}
    <3>1. PICK w : GoesOn(c, w, "insert", {"count"}) /\ w # None
      BY <2>2
    <3>2. PICK m \in Member : m = call[c].member
      BY <2>2
    <3>3. CASE call[c].post = p
      BY <1>0, <2>0, <2>2, <3>1, <3>2, <3>3, BiddersInsert
    <3>4. CASE call[c].post # p
      <4>1. Moved(c, w) /\ ~Enters(w, p) /\ ~Counts(call[c], p) /\ ~Counts(w, p)
        BY <3>1, <3>4 DEF GoesOn, Enters, Counts
      <4>2. Bidders(p)' = Bidders(p)
        BY <2>2, <3>4 DEF Bidders
      <4> QED
        BY <1>0, <2>0, <4>1, <4>2, BiddersQuiet
    <3> QED
      BY <3>3, <3>4
  <2> QED
    BY <1>0, <1>11, <2>1, <2>2, InsertMoves
<1>12. CASE IncrementPostCount(c)
  <2>1. /\ GoesOn(c, None, "count", {}) /\ call[c].post \in Post /\ UNCHANGED bids
        /\ \/ post' = [post EXCEPT ![call[c].post].count = @ + 1] /\ UNCHANGED faults
           \/ faults' = faults + 1 /\ UNCHANGED post
    BY <1>0, <1>12, PostCountMoves
  <2>2. PICK q \in Post : q = call[c].post
    BY <2>1
  <2>3. post[q] \in PostRow /\ post[p] \in PostRow
    BY <1>0 DEF TypeOK
  <2>4. CASE q = p
    <3>1. \/ post'[p].count = post[p].count + 1 /\ UNCHANGED faults
          \/ UNCHANGED post /\ faults' = faults + 1
      BY <1>0, <2>1, <2>2, <2>3, <2>4 DEF TypeOK, PostRow
    <3> QED
      BY <1>0, <2>1, <2>2, <2>4, <3>1, BiddersCounted
  <2>5. CASE q # p
    <3>1. Moved(c, None) /\ ~Enters(None, p) /\ ~Counts(call[c], p) /\ ~Counts(None, p)
      BY <2>1, <2>2, <2>5 DEF GoesOn, Enters, Counts
    <3>2. Bidders(p)' = Bidders(p)
      BY <2>1 DEF Bidders
    <3>3. post'[p].count = post[p].count /\ faults' >= faults
      BY <1>0, <2>1, <2>2, <2>3, <2>5 DEF TypeOK, PostRow
    <3> QED
      BY <1>0, <3>1, <3>2, <3>3, BiddersQuiet
  <2> QED
    BY <2>4, <2>5
<1> QED
  BY <1>3, <1>4, <1>5, <1>6, <1>7, <1>8, <1>9, <1>10, <1>11, <1>12 DEF CallNext

-----------------------------------------------------------------------------
(* The monthly allowance.                                                   *)

\* The day a month ago is before today, and the month's first day neither
\* after today nor ever moving back.
LEMMA Calendar ==
  ASSUME TypeOK
  PROVE  /\ today \in Nat /\ FirstOfMonth[today] \in Int /\ FirstOfMonth[today] <= today
         /\ MonthAgo(today) \in Int /\ MonthAgo(today) < today
         /\ Tick => FirstOfMonth[today] <= FirstOfMonth[today']
<1>1. today \in Nat /\ today \in 0 .. Horizon /\ Horizon \in Nat
  BY Numbers DEF TypeOK
<1>2. \A d \in 0 .. Horizon : FirstOfMonth[d] \in Int /\ FirstBefore[d] \in Int
  BY CalendarAssumption
<1>3. FirstBefore[today] < FirstOfMonth[today] /\ FirstOfMonth[today] <= today
  BY <1>1, CalendarAssumption
<1>4. MonthAgo(today) \in Int /\ MonthAgo(today) < today
  BY <1>1, <1>2, <1>3 DEF MonthAgo
<1>5. ASSUME Tick PROVE FirstOfMonth[today] <= FirstOfMonth[today']
  <2>1. PICK d \in 1 .. Horizon : d = today' /\ d = today + 1 /\ d - 1 = today
    BY <1>1, <1>5 DEF Tick
  <2>2. FirstOfMonth[d] = d \/ FirstOfMonth[d] = FirstOfMonth[d - 1]
    BY CalendarAssumption
  <2>3. FirstOfMonth[d - 1] = FirstOfMonth[today] /\ FirstOfMonth[today] \in Int
    BY <1>1, <1>2, <2>1
  <2> QED
    BY <1>1, <1>3, <2>1, <2>2, <2>3
<1> QED
  BY <1>1, <1>2, <1>3, <1>4, <1>5

\* When the handler may find a month passed, the reset finds the row due,
\* unless it is one that is forgotten; a row that is due, or forgotten, stays
\* so as the days pass.
LEMMA DueRows ==
  ASSUME TypeOK, NEW row \in SubRow
  PROVE  /\ MonthPassed(row) /\ ~Forgotten(row) => Due(row)
         /\ Tick /\ Due(row) => Due(row)'
         /\ Tick /\ Forgotten(row) => Forgotten(row)'
<1>1. /\ today \in Nat /\ FirstOfMonth[today] \in Int /\ FirstOfMonth[today] <= today
      /\ MonthAgo(today) \in Int /\ MonthAgo(today) < today
      /\ Tick => FirstOfMonth[today] <= FirstOfMonth[today']
  BY Calendar
<1>2. row.reset \in Nat
  BY Numbers DEF SubRow, Day
<1>3. ASSUME MonthPassed(row), ~Forgotten(row) PROVE Due(row)
  <2>1. row.reset <= MonthAgo(today)
    BY <1>3 DEF MonthPassed
  <2>2. today \in row.reset .. today
    BY <1>1, <1>2, <2>1
  <2>3. ~(FirstOfMonth[today] <= row.reset)
    BY <1>3, <2>1, <2>2 DEF Forgotten
  <2> QED
    BY <1>1, <1>2, <2>3 DEF Due
<1>4. ASSUME Tick, Due(row) PROVE Due(row)'
  <2>1. row.reset < FirstOfMonth[today] /\ FirstOfMonth[today] <= FirstOfMonth[today']
    BY <1>1, <1>4 DEF Due
  <2>2. today' \in 0 .. Horizon
    BY <1>1, <1>4, Numbers DEF Tick
  <2>3. FirstOfMonth[today'] \in Int
    BY <2>2, CalendarAssumption
  <2>4. row.reset < FirstOfMonth[today']
    BY <1>1, <1>2, <2>1, <2>3
  <2> QED
    BY <2>4 DEF Due
<1>5. ASSUME Tick, Forgotten(row) PROVE Forgotten(row)'
  <2>1. today' = today + 1
    BY <1>5 DEF Tick
  <2>2. PICK d \in row.reset .. today : FirstOfMonth[d] <= row.reset /\ row.reset <= MonthAgo(d)
    BY <1>5 DEF Forgotten
  <2>3. d \in row.reset .. today'
    BY <1>1, <1>2, <2>1, <2>2
  <2> QED
    BY <2>2, <2>3 DEF Forgotten, MonthAgo
<1> QED
  BY <1>3, <1>4, <1>5

\* The sets an allowance is counted with.
LEMMA AllowanceSets ==
  ASSUME TypeOK, NEW m \in Member, NEW t \in Tier, NEW op \in Op
  PROVE  /\ Spending(m, t, op) \subseteq Call /\ Resetting(m, t, op) \subseteq Call
         /\ Spending(m, t, op) \cap Resetting(m, t, op) = {}
         /\ Count(Spending(m, t, op)) \in Nat /\ Count(Resetting(m, t, op)) \in Nat
         /\ faults \in Nat /\ Overrun \in Nat /\ (Limit[t] # None => Limit[t] \in Nat)
         /\ sub[m][t] # None => sub[m][t] \in SubRow /\ sub[m][t].used[op] \in Nat
<1>1. Spending(m, t, op) \in SUBSET Call /\ Resetting(m, t, op) \in SUBSET Call
  BY DEF Spending, Resetting
<1>2. Count(Spending(m, t, op)) \in Nat /\ Count(Resetting(m, t, op)) \in Nat
  BY <1>1, CallSet DEF Count
<1>3. Spending(m, t, op) \cap Resetting(m, t, op) = {}
  BY DEF Spending, Resetting, Takes
<1>4. faults \in Nat /\ Overrun \in Nat /\ (Limit[t] # None => Limit[t] \in Nat)
  BY Numbers, QuotaAssumption DEF TypeOK
<1>5. sub[m][t] # None => sub[m][t] \in SubRow /\ sub[m][t].used[op] \in Nat
  BY DEF TypeOK, SubRow
<1> QED
  BY <1>1, <1>2, <1>3, <1>4, <1>5

\* A request about to take from a tier's counter, or to reset it, knows its
\* row, so there is none where there is no row; with nothing allowed, none
\* takes.
LEMMA NoTakers ==
  ASSUME Consistent, NEW m \in Member, NEW t \in Tier, NEW op \in Op
  PROVE  /\ sub[m][t] = None => Spending(m, t, op) = {} /\ Resetting(m, t, op) = {}
         /\ Limit[t] = 0 => Spending(m, t, op) = {}
<1>1. \A c \in Call : CallOK(c)
  BY DEF Consistent
<1>2. sub[m][t] = None => Spending(m, t, op) = {} /\ Resetting(m, t, op) = {}
  BY <1>1 DEF Spending, Resetting, Takes, CallOK
<1>3. Limit[t] = 0 => Spending(m, t, op) = {}
  BY <1>1 DEF Spending, Takes, CallOK
<1> QED
  BY <1>2, <1>3

\* Neither the reset nor the exception forgets a row.
Ages(m, t) ==
  /\ sub[m][t] # None /\ Due(sub[m][t]) => Due(sub[m][t])'
  /\ sub[m][t] # None /\ Forgotten(sub[m][t]) => Forgotten(sub[m][t])'

\* On the same day a row that keeps the day of its reset is due, and is
\* forgotten, as before.
LEMMA SameDay ==
  ASSUME UNCHANGED today, NEW m, NEW t, sub'[m][t].reset = sub[m][t].reset
  PROVE  /\ (Due(sub[m][t])' <=> Due(sub[m][t]))
         /\ (Forgotten(sub[m][t])' <=> Forgotten(sub[m][t]))
BY DEF Due, Forgotten, MonthAgo

\* Steps that use nothing up and send nobody to.
LEMMA AllowanceKept ==
  ASSUME Consistent, Consistent', faults' >= faults,
         NEW m \in Member, NEW t \in Tier, NEW op \in Op, AllowanceOK(m, t, op),
         RowKept(sub'[m][t], sub[m][t]),
         Ages(m, t),
         Spending(m, t, op)' \subseteq Spending(m, t, op),
         Resetting(m, t, op)' \subseteq Resetting(m, t, op)
  PROVE  AllowanceOK(m, t, op)'
<1>0. TypeOK /\ faults \in Nat /\ faults' \in Nat
  BY DEF Consistent, TypeOK
<1>1. PICK S, R, T, U : /\ S = Spending(m, t, op) /\ R = Resetting(m, t, op)
                        /\ T = Spending(m, t, op)' /\ U = Resetting(m, t, op)'
  OBVIOUS
<1>2. S \in SUBSET Call /\ R \in SUBSET Call /\ T \in SUBSET S /\ U \in SUBSET R
  BY <1>0, <1>1, AllowanceSets
<1>3. /\ Cardinality(T) <= Cardinality(S) /\ Cardinality(U) <= Cardinality(R)
      /\ {Cardinality(T), Cardinality(S), Cardinality(U), Cardinality(R)} \subseteq Nat
  BY <1>2, CallSet
<1>4. CASE sub[m][t] = None
  <2>1. T = {} /\ U = {}
    BY <1>1, <1>2, <1>4, NoTakers
  <2>2. Cardinality(T) = 0 /\ Cardinality(U) = 0
    BY <2>1, FS_EmptySet
  <2>3. sub'[m][t] # None => sub'[m][t].used[op] = 0
    BY <1>4 DEF RowKept
  <2>4. Limit[t] # None => 0 + 0 <= Limit[t] + Overrun + faults' /\ 0 + 0 + 0 <= Limit[t] + Overrun + faults'
    BY <1>0, AllowanceSets
  <2> QED
    BY <1>1, <2>2, <2>3, <2>4 DEF AllowanceOK, Count
<1>5. CASE sub[m][t] # None
  <2>1. /\ sub'[m][t] # None /\ sub'[m][t].used[op] = sub[m][t].used[op]
        /\ sub'[m][t].reset = sub[m][t].reset
    BY <1>5, QuotaAssumption DEF RowKept
  <2>2. /\ Due(sub[m][t]) => Due(sub[m][t])'
        /\ Forgotten(sub[m][t]) => Forgotten(sub[m][t])'
    BY <1>5 DEF Ages
  <2> SUFFICES ASSUME Limit[t] # None, ~Forgotten(sub[m][t])
               PROVE  /\ sub[m][t].used[op] + Cardinality(T) <= Limit[t] + Overrun + faults'
                      /\ ~Due(sub[m][t]) /\ Limit[t] >= 1 =>
                           sub[m][t].used[op] + Cardinality(T) + Cardinality(U)
                             <= Limit[t] + Overrun + faults'
    BY <1>1, <2>1, <2>2 DEF AllowanceOK, Count
  <2>3. /\ sub[m][t].used[op] + Cardinality(S) <= Limit[t] + Overrun + faults
        /\ ~Due(sub[m][t]) /\ Limit[t] >= 1 =>
             sub[m][t].used[op] + Cardinality(S) + Cardinality(R) <= Limit[t] + Overrun + faults
    BY <1>1, <1>5 DEF AllowanceOK, Count
  <2> QED
    BY <1>0, <1>3, <1>5, <2>3, AllowanceSets
<1> QED
  BY <1>4, <1>5

\* Who takes from a counter after a request has moved.
LEMMA TakersMove ==
  ASSUME TypeOK, NEW c \in Call, NEW w, Moved(c, w), NEW m, NEW t, NEW op
  PROVE  /\ Spending(m, t, op)' = IF Takes(w, "spend", m, t, op) THEN Spending(m, t, op) \cup {c}
                                  ELSE Spending(m, t, op) \ {c}
         /\ Resetting(m, t, op)' = IF Takes(w, "reset", m, t, op) THEN Resetting(m, t, op) \cup {c}
                                   ELSE Resetting(m, t, op) \ {c}
<1>1. call'[c] = w /\ \A d \in Call : d # c => call'[d] = call[d]
  BY OneMoves
<1> QED
  BY <1>1 DEF Spending, Resetting

\* A request found the counter below the limit and will take one; all that
\* others may still take fits above it.
LEMMA AllowanceTaken ==
  ASSUME Consistent, NEW c \in Call, NEW w, NEW m \in Member, NEW t \in Tier, NEW op \in Op,
         AllowanceOK(m, t, op), Moved(c, w), Takes(w, "spend", m, t, op),
         c \notin Spending(m, t, op), c \notin Resetting(m, t, op),
         UNCHANGED <<sub, today, faults>>, sub[m][t] # None, sub[m][t].used[op] < Limit[t]
  PROVE  AllowanceOK(m, t, op)'
<1>0. TypeOK
  BY DEF Consistent
<1>1. PICK S, R : S = Spending(m, t, op) /\ R = Resetting(m, t, op)
  OBVIOUS
<1>2. S \in SUBSET Call /\ R \in SUBSET Call /\ S \cap R = {} /\ c \notin S /\ c \notin R
  BY <1>0, <1>1, AllowanceSets
<1>3. Spending(m, t, op)' = S \cup {c} /\ Resetting(m, t, op)' = R
  <2>1. ~Takes(w, "reset", m, t, op)
    BY DEF Takes
  <2> QED
    BY <1>0, <1>1, <1>2, <2>1, TakersMove
<1>4. /\ Cardinality(S \cup {c}) = Cardinality(S) + 1 /\ Cardinality(S) + Cardinality(R) <= Overrun
      /\ Cardinality(S) \in Nat /\ Cardinality(R) \in Nat
  BY <1>2, CallSet, TwoSets
<1>5. Limit[t] # None =>
        sub[m][t].used[op] + (Cardinality(S) + 1) + Cardinality(R) <= Limit[t] + Overrun + faults
  BY <1>0, <1>4, AllowanceSets
<1>6. Limit[t] # None =>
        sub[m][t].used[op] + (Cardinality(S) + 1) <= Limit[t] + Overrun + faults
  BY <1>0, <1>4, <1>5, AllowanceSets
<1> QED
  BY <1>3, <1>4, <1>5, <1>6 DEF AllowanceOK, Count

\* A request will reset a row that is due.
LEMMA AllowanceAwaits ==
  ASSUME Consistent, NEW c \in Call, NEW w, NEW m \in Member, NEW t \in Tier, NEW op \in Op,
         AllowanceOK(m, t, op), Moved(c, w), Takes(w, "reset", m, t, op),
         c \notin Spending(m, t, op),
         UNCHANGED <<sub, today, faults>>, ~Forgotten(sub[m][t]) => Due(sub[m][t])
  PROVE  AllowanceOK(m, t, op)'
<1>0. TypeOK
  BY DEF Consistent
<1>1. ~Takes(w, "spend", m, t, op)
  BY DEF Takes
<1>2. Spending(m, t, op)' = Spending(m, t, op)
  <2>1. Spending(m, t, op)' = Spending(m, t, op) \ {c}
    BY <1>0, <1>1, TakersMove
  <2> QED
    BY <2>1
<1>3. Due(sub[m][t])' \/ Forgotten(sub[m][t])'
  BY SameDay
<1>4. (Forgotten(sub[m][t])' <=> Forgotten(sub[m][t])) /\ UNCHANGED <<sub, faults>>
  BY SameDay
<1> QED
  BY <1>2, <1>3, <1>4 DEF AllowanceOK, Count

\* A row that was reset: no more requests can take from it than there are.
LEMMA AllowanceReset ==
  ASSUME Consistent, Consistent', NEW m \in Member, NEW t \in Tier, NEW op \in Op,
         sub[m][t] # None, Due(sub[m][t]), sub'[m][t] = ResetRow(sub[m][t])
  PROVE  AllowanceOK(m, t, op)'
<1>0. TypeOK /\ sub[m][t] \in SubRow
  BY DEF Consistent, TypeOK
<1>1. sub'[m][t].used[op] = 0
  BY <1>0, ResetRows
<1>2. PICK S, R : S = Spending(m, t, op)' /\ R = Resetting(m, t, op)'
  OBVIOUS
<1>3. S \in SUBSET Call /\ R \in SUBSET Call /\ S \cap R = {}
  BY <1>2 DEF Spending, Resetting, Takes
<1>4. /\ Cardinality(S) + Cardinality(R) <= Overrun + 1
      /\ Cardinality(S) \in Nat /\ Cardinality(R) \in Nat
  BY <1>3, TwoSets, CallSet
<1>5. Limit[t] = 0 => S = {}
  BY <1>2 DEF Consistent, CallOK, Spending, Takes
<1>6. Limit[t] = 0 => Cardinality(S) = 0
  BY <1>5, FS_EmptySet
<1>7. faults' \in Nat
  BY DEF Consistent, TypeOK
<1>8. Limit[t] # None => /\ 0 + Cardinality(S) <= Limit[t] + Overrun + faults'
                         /\ Limit[t] >= 1 =>
                              0 + Cardinality(S) + Cardinality(R) <= Limit[t] + Overrun + faults'
  BY <1>0, <1>4, <1>6, <1>7, AllowanceSets
<1> QED
  BY <1>1, <1>2, <1>8 DEF AllowanceOK, Count

\* A request that waited for the reset goes on to take one: of a row that was
\* not due, or of one whose reset failed.
LEMMA AllowanceMoves ==
  ASSUME Consistent, NEW c \in Call, NEW w, NEW m \in Member, NEW t \in Tier, NEW op \in Op,
         AllowanceOK(m, t, op), Moved(c, w), Takes(call[c], "reset", m, t, op),
         Takes(w, "spend", m, t, op), Limit[t] >= 1,
         sub'[m][t] = sub[m][t], UNCHANGED today,
         \/ UNCHANGED faults /\ ~Due(sub[m][t])
         \/ faults' = faults + 1
  PROVE  AllowanceOK(m, t, op)'
<1>0. TypeOK
  BY DEF Consistent
<1>1. PICK S, R : S = Spending(m, t, op) /\ R = Resetting(m, t, op)
  OBVIOUS
<1>2. S \in SUBSET Call /\ R \in SUBSET Call /\ S \cap R = {} /\ c \in R /\ c \notin S
  <2>1. c \in R
    BY <1>1 DEF Resetting
  <2> QED
    BY <1>0, <1>1, <2>1, AllowanceSets
<1>3. Spending(m, t, op)' = S \cup {c} /\ Resetting(m, t, op)' = R \ {c}
  <2>1. ~Takes(w, "reset", m, t, op)
    BY DEF Takes
  <2> QED
    BY <1>0, <1>1, <2>1, TakersMove
<1>4. /\ Cardinality(S \cup {c}) = Cardinality(S) + 1 /\ Cardinality(R \ {c}) = Cardinality(R) - 1
      /\ Cardinality(S) \in Nat /\ Cardinality(R) \in Nat /\ Cardinality(R \ {c}) \in Nat
  BY <1>2, CallSet
<1>5. /\ (Due(sub[m][t])' <=> Due(sub[m][t]))
      /\ (Forgotten(sub[m][t])' <=> Forgotten(sub[m][t]))
  BY SameDay
<1> SUFFICES ASSUME sub[m][t] # None, Limit[t] # None, ~Forgotten(sub[m][t])
             PROVE  /\ sub[m][t].used[op] + (Cardinality(S) + 1) <= Limit[t] + Overrun + faults'
                    /\ ~Due(sub[m][t]) =>
                         sub[m][t].used[op] + (Cardinality(S) + 1) + (Cardinality(R) - 1)
                           <= Limit[t] + Overrun + faults'
  BY <1>3, <1>4, <1>5 DEF AllowanceOK, Count
<1>6. /\ sub[m][t].used[op] + Cardinality(S) <= Limit[t] + Overrun + faults
      /\ ~Due(sub[m][t]) =>
           sub[m][t].used[op] + Cardinality(S) + Cardinality(R) <= Limit[t] + Overrun + faults
  BY <1>1 DEF AllowanceOK, Count
<1> QED
  BY <1>0, <1>4, <1>6, AllowanceSets

\* A request takes one, or the write is lost.
LEMMA AllowanceUsed ==
  ASSUME Consistent, NEW c \in Call, NEW w, NEW m \in Member, NEW t \in Tier, NEW op \in Op,
         AllowanceOK(m, t, op), Moved(c, w), Takes(call[c], "spend", m, t, op),
         w # None, w.step = "insert", UNCHANGED today,
         sub'[m][t].reset = sub[m][t].reset, sub[m][t] # None, sub'[m][t] # None,
         \/ UNCHANGED faults /\ sub'[m][t].used[op] = sub[m][t].used[op] + 1
         \/ faults' = faults + 1 /\ sub'[m][t].used[op] = sub[m][t].used[op]
  PROVE  AllowanceOK(m, t, op)'
<1>0. TypeOK
  BY DEF Consistent
<1>1. PICK S, R : S = Spending(m, t, op) /\ R = Resetting(m, t, op)
  OBVIOUS
<1>2. S \in SUBSET Call /\ R \in SUBSET Call /\ S \cap R = {} /\ c \in S /\ c \notin R
  <2>1. c \in S
    BY <1>1 DEF Spending
  <2> QED
    BY <1>0, <1>1, <2>1, AllowanceSets
<1>3. Spending(m, t, op)' = S \ {c} /\ Resetting(m, t, op)' = R
  <2>1. ~Takes(w, "reset", m, t, op) /\ ~Takes(w, "spend", m, t, op)
    BY DEF Takes
  <2> QED
    BY <1>0, <1>1, <1>2, <2>1, TakersMove
<1>4. /\ Cardinality(S \ {c}) = Cardinality(S) - 1
      /\ Cardinality(S) \in Nat /\ Cardinality(R) \in Nat
  BY <1>2, CallSet
<1>5. /\ (Due(sub[m][t])' <=> Due(sub[m][t]))
      /\ (Forgotten(sub[m][t])' <=> Forgotten(sub[m][t]))
  BY SameDay
<1>6. ASSUME Limit[t] # None, ~Forgotten(sub[m][t])
      PROVE  /\ sub'[m][t].used[op] + (Cardinality(S) - 1) <= Limit[t] + Overrun + faults'
             /\ ~Due(sub[m][t]) /\ Limit[t] >= 1 =>
                  sub'[m][t].used[op] + (Cardinality(S) - 1) + Cardinality(R)
                    <= Limit[t] + Overrun + faults'
  <2>1. /\ sub[m][t].used[op] + Cardinality(S) <= Limit[t] + Overrun + faults
        /\ ~Due(sub[m][t]) /\ Limit[t] >= 1 =>
             sub[m][t].used[op] + Cardinality(S) + Cardinality(R) <= Limit[t] + Overrun + faults
    BY <1>1, <1>6 DEF AllowanceOK, Count
  <2> QED
    BY <1>0, <1>4, <1>6, <2>1, AllowanceSets
<1> QED
  BY <1>3, <1>4, <1>5, <1>6 DEF AllowanceOK, Count

\* A request's step that is not about this counter.
LEMMA AllowanceQuiet ==
  ASSUME Consistent, Consistent', faults' >= faults, UNCHANGED today, NEW c \in Call, NEW w, Moved(c, w),
         NEW m \in Member, NEW t \in Tier, NEW op \in Op, AllowanceOK(m, t, op),
         sub'[m][t] = sub[m][t], ~Takes(w, "spend", m, t, op), ~Takes(w, "reset", m, t, op)
  PROVE  AllowanceOK(m, t, op)'
<1>0. TypeOK
  BY DEF Consistent
<1>1. /\ Spending(m, t, op)' \subseteq Spending(m, t, op)
      /\ Resetting(m, t, op)' \subseteq Resetting(m, t, op)
  BY <1>0, TakersMove
<1>2. RowKept(sub'[m][t], sub[m][t])
  BY <1>0 DEF RowKept, TypeOK
<1>3. Ages(m, t)
  BY SameDay DEF Ages
<1> QED
  BY <1>1, <1>2, <1>3, AllowanceKept

\* The steps of a request keep what is said about every counter.
LEMMA AllowanceCall ==
  ASSUME Consistent, \A m \in Member, t \in Tier, op \in Op : AllowanceOK(m, t, op),
         NEW c \in Call, CallNext(c)
  PROVE  \A m \in Member, t \in Tier, op \in Op : AllowanceOK(m, t, op)'
<1> SUFFICES ASSUME NEW m \in Member, NEW t \in Tier, NEW op \in Op PROVE AllowanceOK(m, t, op)'
  OBVIOUS
<1>0. TypeOK /\ CallOK(c) /\ AllowanceOK(m, t, op) /\ faults \in Nat
  BY DEF Consistent, TypeOK
<1>C. Consistent'
  BY CallTypes
<1>1. ASSUME NEW w, Moved(c, w), w # None => w.step \notin {"spend", "reset"},
             UNCHANGED <<sub, today, faults>>
      PROVE  AllowanceOK(m, t, op)'
  <2>1. ~Takes(w, "spend", m, t, op) /\ ~Takes(w, "reset", m, t, op)
    BY <1>1 DEF Takes
  <2>2. sub'[m][t] = sub[m][t] /\ faults' >= faults /\ UNCHANGED today
    BY <1>0, <1>1
  <2> QED
    BY <1>0, <1>1, <1>C, <2>1, <2>2, AllowanceQuiet
<1>2. ASSUME NEW v \in Visit, ReadPost(c, v[1], v[2])
      PROVE  AllowanceOK(m, t, op)'
  <2>1. PICK w : Comes(c, w) /\ w.step = "own" /\ w.post = v[2] /\ w.op \in {"bid", "offer"}
    BY <1>0, <1>2, ReadPostMoves
  <2>2. UNCHANGED <<sub, today, faults>>
    BY <1>0, <1>2, ReadPostMoves
  <2> QED
    BY <1>1, <2>1, <2>2 DEF Comes
<1>3. ASSUME NEW n \in Member, NEW o \in {"sell", "buy"}, Create(c, n, o)
      PROVE  AllowanceOK(m, t, op)'
  <2>1. PICK w : Comes(c, w) /\ w.step = "tier" /\ w.post = None /\ w.op \in {"sell", "buy"}
    BY <1>0, <1>3, CreateMoves
  <2>2. UNCHANGED <<sub, today, faults>>
    BY <1>0, <1>3, CreateMoves
  <2> QED
    BY <1>1, <2>1, <2>2 DEF Comes
<1>4. CASE CheckOwn(c)
  <2>1. PICK w : GoesOn(c, w, "own", {"first"})
    BY <1>0, <1>4, CheckOwnMoves
  <2> QED
    BY <1>0, <1>1, <1>4, <2>1, CheckOwnMoves DEF GoesOn
<1>5. CASE CountFirst(c)
  <2>1. PICK w : GoesOn(c, w, "first", {"second"})
    BY <1>0, <1>5, CountFirstMoves
  <2> QED
    BY <1>0, <1>1, <1>5, <2>1, CountFirstMoves DEF GoesOn
<1>6. CASE CountSecond(c)
  <2>1. PICK w : GoesOn(c, w, "second", {"tier"})
    BY <1>0, <1>6, CountSecondMoves
  <2> QED
    BY <1>0, <1>1, <1>6, <2>1, CountSecondMoves DEF GoesOn
<1>7. CASE CheckTier(c)
  <2>1. PICK w : GoesOn(c, w, "tier", {"insert", "reset", "spend"}) /\ WillReset(c, w) /\ WillSpend(c, w)
    BY <1>0, <1>7, CheckTierMoves, Zenon
  <2>2. UNCHANGED <<sub, today, faults>> /\ faults' >= faults /\ sub'[m][t] = sub[m][t]
    <3>1. UNCHANGED <<sub, today, faults>>
      BY <1>0, <1>7, CheckTierMoves
    <3> QED
      BY <1>0, <3>1
  <2>3. Moved(c, w) /\ c \notin Spending(m, t, op) /\ c \notin Resetting(m, t, op)
    BY <2>1 DEF GoesOn, Spending, Resetting, Takes
  <2>4. CASE Takes(w, "spend", m, t, op)
    <3>1. w # None /\ w.step = "spend" /\ w.tier = t /\ call[c].member = m /\ call[c].op = op
      BY <2>1, <2>4 DEF Takes, GoesOn
    <3>2. sub[m][t] \in SubRow /\ sub[m][t].used[op] < Limit[t]
      BY <2>1, <3>1 DEF WillSpend, Limited
    <3> QED
      BY <1>0, <2>2, <2>3, <2>4, <3>2, AllowanceTaken, QuotaAssumption
  <2>5. CASE Takes(w, "reset", m, t, op)
    <3>1. w # None /\ w.step = "reset" /\ w.tier = t /\ call[c].member = m
      BY <2>1, <2>5 DEF Takes, GoesOn
    <3>2. sub[m][t] \in SubRow /\ MonthPassed(sub[m][t])
      BY <2>1, <3>1 DEF WillReset, Limited
    <3>3. ~Forgotten(sub[m][t]) => Due(sub[m][t])
      BY <1>0, <3>2, DueRows
    <3> QED
      BY <1>0, <2>2, <2>3, <2>5, <3>3, AllowanceAwaits
  <2>6. CASE ~Takes(w, "spend", m, t, op) /\ ~Takes(w, "reset", m, t, op)
    BY <1>0, <1>C, <2>2, <2>3, <2>6, AllowanceQuiet
  <2> QED
    BY <2>4, <2>5, <2>6
<1>8. CASE ResetMonthlyCounts(c)
  <2>1. PICK w : GoesOn(c, w, "reset", {"spend"}) /\ StillLimited(c, w)
    BY <1>0, <1>8, ResetMoves, Zenon
  <2>2. /\ \/ sub' = [n \in Member |-> [u \in Tier |-> ResetRow(sub[n][u])]] /\ UNCHANGED faults
           \/ faults' = faults + 1 /\ UNCHANGED sub
        /\ UNCHANGED today
    BY <1>0, <1>8, ResetMoves
  <2>3. faults' >= faults
    BY <1>0, <2>2
  <2>4. Moved(c, w) /\ ~Takes(w, "reset", m, t, op)
        /\ (Takes(w, "spend", m, t, op) => Takes(call[c], "reset", m, t, op) /\ Limit[t] >= 1)
    BY <2>1 DEF GoesOn, Takes, StillLimited
  <2>5. CASE sub'[m][t] = sub[m][t] /\ ~Takes(w, "spend", m, t, op)
    BY <1>0, <1>C, <2>2, <2>3, <2>4, <2>5, AllowanceQuiet
  <2>6. CASE UNCHANGED sub /\ faults' = faults + 1 /\ Takes(w, "spend", m, t, op)
    BY <1>0, <2>2, <2>4, <2>6, AllowanceMoves
  <2>7. CASE sub' = [n \in Member |-> [u \in Tier |-> ResetRow(sub[n][u])]] /\ UNCHANGED faults
    <3>1. sub'[m][t] = ResetRow(sub[m][t]) /\ sub[m][t] \in SubRow \cup {None}
      BY <1>0, <2>7, ResetTable DEF TypeOK
    <3>2. CASE sub[m][t] = None
      <4>1. sub'[m][t] = sub[m][t]
        BY <3>1, <3>2 DEF ResetRow
      <4>2. ~Takes(w, "spend", m, t, op)
        <5>1. Resetting(m, t, op) = {}
          BY <3>2, NoTakers
        <5> QED
          BY <2>4, <5>1 DEF Resetting
      <4> QED
        BY <2>5, <4>1, <4>2
    <3>3. CASE sub[m][t] # None /\ Due(sub[m][t])
      BY <1>C, <3>1, <3>3, AllowanceReset
    <3>4. CASE sub[m][t] # None /\ ~Due(sub[m][t])
      <4>1. sub'[m][t] = sub[m][t]
        BY <1>0, <3>1, <3>4, ResetRows
      <4>2. CASE Takes(w, "spend", m, t, op)
        BY <1>0, <2>2, <2>4, <2>7, <3>4, <4>1, <4>2, AllowanceMoves
      <4> QED
        BY <2>5, <4>1, <4>2
    <3> QED
      BY <3>2, <3>3, <3>4
  <2> QED
    BY <2>2, <2>5, <2>6, <2>7
<1>9. CASE IncrementCount(c)
  <2>1. PICK w : GoesOn(c, w, "spend", {"insert"}) /\ w # None
    BY <1>0, <1>9, IncrementCountMoves
  <2>2. /\ call[c].tier \in Tier /\ call[c].member \in Member /\ call[c].op \in Op
        /\ sub[call[c].member][call[c].tier] \in SubRow
        /\ \/ /\ sub' = [sub EXCEPT ![call[c].member][call[c].tier].used[call[c].op] = @ + 1]
              /\ UNCHANGED faults
           \/ faults' = faults + 1 /\ UNCHANGED sub
        /\ UNCHANGED today
    BY <1>0, <1>9, IncrementCountMoves
  <2>3. PICK n \in Member, u \in Tier, o \in Op :
          n = call[c].member /\ u = call[c].tier /\ o = call[c].op
    BY <2>2
  <2>4. sub[n][u] \in SubRow /\ None \notin SubRow /\ faults' >= faults
    <3>1. sub[n][u] \in SubRow
      BY <2>2, <2>3
    <3>2. UNCHANGED faults \/ faults' = faults + 1
      BY <2>2
    <3>3. faults' >= faults
      BY <1>0, <3>2
    <3> QED
      BY <3>1, <3>3, QuotaAssumption
  <2>5. Moved(c, w) /\ ~Takes(w, "reset", m, t, op) /\ ~Takes(w, "spend", m, t, op)
        /\ w.step = "insert" /\ Takes(call[c], "spend", n, u, o)
    BY <2>1, <2>3 DEF GoesOn, Takes
  <2>6. CASE UNCHANGED sub /\ faults' = faults + 1
    <3>1. CASE m = n /\ t = u /\ op = o
      BY <1>0, <2>1, <2>2, <2>4, <2>5, <2>6, <3>1, AllowanceUsed
    <3>2. CASE ~(m = n /\ t = u /\ op = o)
      BY <1>0, <1>C, <2>2, <2>4, <2>5, <2>6, AllowanceQuiet
    <3> QED
      BY <3>1, <3>2
  <2>7. CASE sub' = [sub EXCEPT ![n][u].used[o] = @ + 1] /\ UNCHANGED faults
    <3>1. PICK row \in SubRow : sub' = [sub EXCEPT ![n][u] = row] /\ OneMore(row, sub[n][u], o)
      BY <1>0, <2>4, <2>7, Increments, Zenon
    <3>2. sub'[n][u] = row /\ \A b \in Member, v \in Tier : b # n \/ v # u => sub'[b][v] = sub[b][v]
      BY <1>0, <3>1 DEF TypeOK
    <3>3. CASE m = n /\ t = u /\ op = o
      <4>1. sub'[m][t].used[op] = sub[m][t].used[op] + 1 /\ sub'[m][t].reset = sub[m][t].reset
            /\ sub'[m][t] # None /\ sub[m][t] # None
        BY <2>4, <3>1, <3>2, <3>3 DEF OneMore
      <4> QED
        BY <1>0, <2>1, <2>2, <2>5, <2>7, <3>3, <4>1, AllowanceUsed
    <3>4. CASE m = n /\ t = u /\ op # o
      <4>1. sub'[m][t].used[op] = sub[m][t].used[op] /\ sub'[m][t].reset = sub[m][t].reset
            /\ sub'[m][t] # None /\ sub[m][t] # None
        BY <2>4, <3>1, <3>2, <3>4 DEF OneMore
      <4>2. ~Takes(w, "reset", m, t, op) /\ ~Takes(w, "spend", m, t, op) /\ faults' = faults
        BY <2>5, <2>7
      <4>3. /\ Spending(m, t, op)' = Spending(m, t, op)
            /\ Resetting(m, t, op)' = Resetting(m, t, op)
        <5>1. c \notin Spending(m, t, op) /\ c \notin Resetting(m, t, op)
          BY <2>3, <2>5, <3>4 DEF Spending, Resetting, Takes
        <5> QED
          BY <1>0, <2>5, <4>2, <5>1, TakersMove
      <4>4. /\ (Due(sub[m][t])' <=> Due(sub[m][t]))
            /\ (Forgotten(sub[m][t])' <=> Forgotten(sub[m][t]))
        BY <2>2, <4>1, SameDay
      <4> QED
        BY <1>0, <4>1, <4>2, <4>3, <4>4 DEF AllowanceOK, Count
    <3>5. CASE m # n \/ t # u
      <4>1. sub'[m][t] = sub[m][t]
        BY <3>2, <3>5
      <4> QED
        BY <1>0, <1>C, <2>2, <2>4, <2>5, <4>1, AllowanceQuiet
    <3> QED
      BY <3>3, <3>4, <3>5
  <2> QED
    BY <2>2, <2>3, <2>6, <2>7
<1>10. CASE Insert(c)
  <2>1. PICK w : GoesOn(c, w, "insert", {"count"})
    BY <1>0, <1>10, InsertMoves
  <2> QED
    BY <1>0, <1>1, <1>10, <2>1, InsertMoves DEF GoesOn
<1>11. CASE IncrementPostCount(c)
  <2>1. GoesOn(c, None, "count", {}) /\ UNCHANGED <<sub, today>>
        /\ (UNCHANGED faults \/ faults' = faults + 1)
    BY <1>0, <1>11, PostCountMoves
  <2>2. Moved(c, None) /\ ~Takes(None, "spend", m, t, op) /\ ~Takes(None, "reset", m, t, op)
    BY <2>1 DEF GoesOn, Takes
  <2>3. sub'[m][t] = sub[m][t] /\ faults' >= faults
    BY <1>0, <2>1
  <2> QED
    BY <1>0, <1>C, <2>1, <2>2, <2>3, AllowanceQuiet
<1> QED
  BY <1>2, <1>3, <1>4, <1>5, <1>6, <1>7, <1>8, <1>9, <1>10, <1>11 DEF CallNext

-----------------------------------------------------------------------------
(* MAX_ACTIVE_BIDS.                                                         *)

\* The sets a member's slots are counted with.
LEMMA SlotSets ==
  ASSUME NEW m
  PROVE  /\ Cleared(m) \in SUBSET Call /\ Halfway(m) \in SUBSET Call /\ Cleared(m) \cap Halfway(m) = {}
         /\ \A rank, n : Older(m, rank, n) \in SUBSET Halfway(m)
BY DEF Cleared, Halfway, Older, Clears, Halves

\* By how much the posts a member is active on may grow in a step.
ActiveGrows(m, e) ==
  \A posts \in {Post, SellPost, BuyPost} :
    Cardinality(Active(m, posts)') <= Cardinality(Active(m, posts)) + e

\* Not at all when no bid is written and no post becomes active.
LEMMA NoneMoreActive ==
  ASSUME NEW m, bids' = bids,
         \A p \in Post : post'[p].status = "active" => post[p].status = "active"
  PROVE  ActiveGrows(m, 0)
<1>1. ASSUME NEW posts \in {Post, SellPost, BuyPost}
      PROVE  Cardinality(Active(m, posts)') <= Cardinality(Active(m, posts)) + 0
  <2>1. posts \in SUBSET Post
    BY DEF Post
  <2>2. PICK A, B : A = Active(m, posts)' /\ B = Active(m, posts)
    OBVIOUS
  <2>3. A \subseteq B
    BY <2>1, <2>2 DEF Active
  <2>4. IsFiniteSet(B) /\ Cardinality(B) \in Nat
    BY <2>1, <2>2, ActiveSet DEF Count
  <2>5. Cardinality(A) <= Cardinality(B) /\ IsFiniteSet(A)
    BY <2>3, <2>4, FS_Subset
  <2>6. Cardinality(A) \in Nat
    BY <2>5, FS_CardinalityType
  <2> QED
    BY <2>2, <2>4, <2>5, <2>6
<1> QED
  BY <1>1 DEF ActiveGrows

\* By one when one bid is written, or one post becomes active.
LEMMA OneMoreActive ==
  ASSUME NEW m, NEW q,
         \A p \in Post : p # q => /\ <<m, p>> \in bids' => <<m, p>> \in bids
                                  /\ post'[p].status = "active" => post[p].status = "active"
  PROVE  ActiveGrows(m, 1)
<1>1. ASSUME NEW posts \in {Post, SellPost, BuyPost}
      PROVE  Cardinality(Active(m, posts)') <= Cardinality(Active(m, posts)) + 1
  <2>1. posts \in SUBSET Post
    BY DEF Post
  <2>2. PICK A, B : A = Active(m, posts)' /\ B = Active(m, posts)
    OBVIOUS
  <2>3. A \subseteq B \cup {q}
    BY <2>1, <2>2 DEF Active
  <2>4. IsFiniteSet(B) /\ Cardinality(B) \in Nat
    BY <2>1, <2>2, ActiveSet DEF Count
  <2>5. IsFiniteSet(B \cup {q}) /\ Cardinality(B \cup {q}) <= Cardinality(B) + 1
    <3>1. CASE q \in B
      <4>1. B \cup {q} = B
        BY <3>1
      <4> QED
        BY <2>4, <4>1
    <3>2. CASE q \notin B
      BY <2>4, <3>2, FS_AddElement
    <3> QED
      BY <3>1, <3>2
  <2>6. Cardinality(A) <= Cardinality(B \cup {q}) /\ IsFiniteSet(A)
    BY <2>3, <2>5, FS_Subset
  <2>7. Cardinality(A) \in Nat /\ Cardinality(B \cup {q}) \in Nat
    BY <2>5, <2>6, FS_CardinalityType
  <2> QED
    BY <2>2, <2>4, <2>5, <2>6, <2>7
<1> QED
  BY <1>1 DEF ActiveGrows

\* Steps after which the same ranks do: what becomes active comes from the
\* requests that were cleared, or is restored.
LEMMA RankedKept ==
  ASSUME NEW m, NEW rank \in [Call -> Nat], NEW star \in Nat, NEW top \in Nat,
         Ranked(m, rank, star, top), restored \in Nat, restored' \in Nat,
         NEW e \in Nat, ActiveGrows(m, e),
         Cardinality(Cleared(m)') + e + restored <= Cardinality(Cleared(m)) + restored',
         Halfway(m)' \subseteq Halfway(m), \A d \in Halfway(m)' : call'[d] = call[d],
         call \in [Call -> CallState \cup {None}]
  PROVE  Ranked(m, rank, star, top)'
<1>1. PICK C, H, D, I : /\ C = Cleared(m) /\ H = Halfway(m)
                        /\ D = Cleared(m)' /\ I = Halfway(m)'
  OBVIOUS
<1>2. C \in SUBSET Call /\ H \in SUBSET Call /\ D \in SUBSET Call /\ I \in SUBSET H
  BY <1>1, SlotSets DEF Cleared
<1>3. Cardinality(C) \in Nat /\ Cardinality(D) \in Nat
  BY <1>2, CallSet
<1>4. MaxActive \in Nat /\ Overrun \in Nat
  BY Numbers
<1>5. ASSUME NEW n
      PROVE  /\ Cardinality(Older(m, rank, n)') \in Nat /\ Cardinality(Older(m, rank, n)) \in Nat
             /\ Cardinality(Older(m, rank, n)') <= Cardinality(Older(m, rank, n))
  <2>1. PICK O, P : O = Older(m, rank, n) /\ P = Older(m, rank, n)'
    OBVIOUS
  <2>2. O \in SUBSET Call /\ P \in SUBSET O
    BY <1>1, <1>2, <2>1 DEF Older
  <2>3. Cardinality(O) \in Nat /\ Cardinality(P) <= Cardinality(O)
    BY <2>2, CallSet
  <2>4. Cardinality(P) \in Nat
    BY <2>2, CallSet
  <2> QED
    BY <2>1, <2>3, <2>4
<1>6. ASSUME NEW posts \in {Post, SellPost, BuyPost}
      PROVE  /\ Cardinality(Active(m, posts)') <= Cardinality(Active(m, posts)) + e
             /\ Cardinality(Active(m, posts)') \in Nat /\ Cardinality(Active(m, posts)) \in Nat
  <2>1. posts \in SUBSET Post
    BY DEF Post
  <2>2. PICK A : A = Active(m, posts)'
    OBVIOUS
  <2>3. A \in SUBSET Post
    BY <2>1, <2>2 DEF Active
  <2>4. Cardinality(A) \in Nat
    BY <2>3, QuotaAssumption, FS_Subset, FS_CardinalityType
  <2>5. Cardinality(Active(m, posts)) \in Nat
    BY <2>1, ActiveSet DEF Count
  <2> QED
    BY <2>2, <2>4, <2>5 DEF ActiveGrows
<1>7. /\ star <= top /\ \A c \in Call : rank[c] < top
      /\ \A c, d \in I : c # d => rank[c] # rank[d]
  BY <1>1, <1>2 DEF Ranked
<1>8. Cardinality(Active(m, Post)') + Cardinality(D) + Cardinality(Older(m, rank, star)')
        <= MaxActive + Overrun + restored'
  <2>1. Cardinality(Active(m, Post)) + Cardinality(C) + Cardinality(Older(m, rank, star))
          <= MaxActive + Overrun + restored
    BY <1>1 DEF Ranked, Count
  <2> QED
    BY <1>1, <1>3, <1>4, <1>5, <1>6, <2>1
<1>9. ASSUME NEW d \in I, rank[d] >= star
      PROVE  Cardinality(Active(m, FirstKind(d))') + Cardinality(D) + Cardinality(Older(m, rank, rank[d])')
               <= call'[d].held + Overrun + restored'
  <2>1. PICK posts : posts = FirstKind(d)
    OBVIOUS
  <2>2. posts \in {Post, SellPost, BuyPost}
    BY <2>1 DEF FirstKind
  <2>3. call'[d] = call[d] /\ d \in Call /\ call[d] \in CallState
    BY <1>1, <1>2, <1>9 DEF Halfway, Halves
  <2>4. Active(m, FirstKind(d))' = Active(m, posts)'
    BY <2>1, <2>3 DEF Active, FirstKind
  <2>5. Cardinality(Active(m, posts)) + Cardinality(C) + Cardinality(Older(m, rank, rank[d]))
          <= call[d].held + Overrun + restored
    BY <1>1, <1>2, <1>9, <2>1 DEF Ranked, Count
  <2>6. call[d].held \in Nat
    BY <2>3 DEF CallState
  <2>7. PICK n \in Nat : n = rank[d]
    BY <2>3
  <2>8. Cardinality(Active(m, posts)') + Cardinality(D) + Cardinality(Older(m, rank, n)')
          <= call[d].held + Overrun + restored'
    BY <1>1, <1>3, <1>4, <1>5, <1>6, <2>2, <2>5, <2>6, <2>7
  <2> QED
    BY <2>3, <2>4, <2>7, <2>8
<1> QED
  BY <1>1, <1>7, <1>8, <1>9 DEF Ranked, Count

\* The same for the invariant's part.
LEMMA SlotsKept ==
  ASSUME TypeOK, NEW m, SlotsOK(m), restored' \in Nat, NEW e \in Nat, ActiveGrows(m, e),
         Cardinality(Cleared(m)') + e + restored <= Cardinality(Cleared(m)) + restored',
         Halfway(m)' \subseteq Halfway(m), \A d \in Halfway(m)' : call'[d] = call[d]
  PROVE  SlotsOK(m)'
<1>1. PICK rank \in [Call -> Nat], star \in Nat, top \in Nat : Ranked(m, rank, star, top)
  BY DEF SlotsOK
<1>2. Ranked(m, rank, star, top)'
  BY <1>1, RankedKept DEF TypeOK
<1> QED
  BY <1>2 DEF SlotsOK

\* A request whose step clears nothing and counts nothing.
LEMMA SlotsQuiet ==
  ASSUME TypeOK, restored' = restored, NEW m, SlotsOK(m), NEW c \in Call, NEW w, Moved(c, w),
         ~Halves(w, m), Clears(w, m) => Clears(call[c], m), bids' = bids,
         \A p \in Post : post'[p].status = post[p].status
  PROVE  SlotsOK(m)'
<1>1. call'[c] = w /\ \A d \in Call : d # c => call'[d] = call[d]
  BY OneMoves
<1>2. Halfway(m)' \subseteq Halfway(m) /\ \A d \in Halfway(m)' : call'[d] = call[d]
  BY <1>1 DEF Halfway
<1>3. PICK D : D = Cleared(m)'
  OBVIOUS
<1>4. D \in SUBSET Cleared(m) /\ Cleared(m) \in SUBSET Call
  BY <1>1, <1>3 DEF Cleared
<1>5. Cardinality(D) <= Cardinality(Cleared(m)) /\ Cardinality(D) \in Nat /\ Cardinality(Cleared(m)) \in Nat
  BY <1>4, CallSet
<1>6. restored \in Nat /\ restored' \in Nat
  BY DEF TypeOK
<1>7. Cardinality(Cleared(m)') + 0 + restored <= Cardinality(Cleared(m)) + restored'
  BY <1>3, <1>5, <1>6
<1>8. ActiveGrows(m, 0)
  BY NoneMoreActive
<1> QED
  BY <1>2, <1>6, <1>7, <1>8, SlotsKept

\* A request writes a bid: one slot more in use, one cleared request less.
LEMMA SlotsInsert ==
  ASSUME TypeOK, restored' = restored, NEW m, SlotsOK(m), NEW c \in Call, NEW w, Moved(c, w),
         ~Halves(w, m), ~Clears(w, m), Clears(call[c], m), NEW q, bids' = bids \cup {<<m, q>>},
         UNCHANGED post
  PROVE  SlotsOK(m)'
<1>1. call'[c] = w /\ \A d \in Call : d # c => call'[d] = call[d]
  BY OneMoves
<1>2. Halfway(m)' \subseteq Halfway(m) /\ \A d \in Halfway(m)' : call'[d] = call[d]
  BY <1>1 DEF Halfway
<1>3. Cleared(m)' = Cleared(m) \ {c} /\ c \in Cleared(m) /\ Cleared(m) \in SUBSET Call
  BY <1>1 DEF Cleared
<1>4. Cardinality(Cleared(m) \ {c}) = Cardinality(Cleared(m)) - 1 /\ Cardinality(Cleared(m)) \in Nat
  BY <1>3, CallSet
<1>5. restored \in Nat /\ restored' \in Nat
  BY DEF TypeOK
<1>6. Cardinality(Cleared(m)') + 1 + restored <= Cardinality(Cleared(m)) + restored'
  BY <1>3, <1>4, <1>5
<1>7. \A p \in Post : (p # q) => (<<m, p>> \in bids' => <<m, p>> \in bids)
  OBVIOUS
<1>8. ActiveGrows(m, 1)
  BY <1>7, OneMoreActive
<1> QED
  BY <1>2, <1>5, <1>6, <1>8, SlotsKept

\* The first count of a check is the latest of all.
LEMMA SlotsFirst ==
  ASSUME TypeOK, restored' = restored, NEW m, SlotsOK(m), NEW c \in Call, NEW w,
         GoesOn(c, w, "first", {"second"}), w # None, call[c].member = m,
         w.held = Count(Active(m, FirstKind(c))), UNCHANGED <<post, bids>>
  PROVE  SlotsOK(m)'
<1>1. call'[c] = w /\ \A d \in Call : d # c => call'[d] = call[d]
  BY OneMoves DEF GoesOn
<1>2. /\ call[c] # None /\ call[c].step = "first" /\ w.step = "second" /\ w.member = m
      /\ w.op = call[c].op
  BY DEF GoesOn
<1>3. PICK rank \in [Call -> Nat], star \in Nat, top \in Nat : Ranked(m, rank, star, top)
  BY DEF SlotsOK
<1>4. PICK C, H : C = Cleared(m) /\ H = Halfway(m)
  OBVIOUS
<1>5. Cleared(m)' = C /\ Halfway(m)' = H \cup {c} /\ c \notin C /\ c \notin H
  BY <1>1, <1>2, <1>4 DEF Cleared, Halfway, Clears, Halves
<1>6. C \in SUBSET Call /\ H \in SUBSET Call /\ C \cap H = {}
  BY <1>4, SlotSets
<1>7. Cardinality(C) + Cardinality(H) <= Overrun /\ Cardinality(C) \in Nat /\ Cardinality(H) \in Nat
  BY <1>5, <1>6, TwoSets, CallSet
<1>8. PICK r : r = [rank EXCEPT ![c] = top]
  OBVIOUS
<1>9. r \in [Call -> Nat] /\ r[c] = top /\ \A d \in Call : d # c => r[d] = rank[d]
  BY <1>8
<1>10. /\ star <= top /\ \A d \in Call : rank[d] < top
       /\ \A d, e \in H : d # e => rank[d] # rank[e]
  BY <1>3, <1>4 DEF Ranked
<1>12. \A d \in H \cup {c} : Active(m, FirstKind(d))' = Active(m, FirstKind(d))
  BY <1>1, <1>2, <1>6 DEF Active, FirstKind
<1>13. ASSUME NEW n \in Nat, n <= top
       PROVE  Older(m, r, n)' = Older(m, rank, n)
  <2>1. \A d \in H \cup {c} : r[d] < n <=> d # c /\ rank[d] < n
    BY <1>5, <1>6, <1>9, <1>13
  <2> QED
    BY <1>4, <1>5, <2>1 DEF Older
<1>14. star <= top + 1 /\ \A d \in Call : r[d] < top + 1
  BY <1>9, <1>10
<1>15. \A d, e \in H \cup {c} : d # e => r[d] # r[e]
  BY <1>5, <1>6, <1>9, <1>10
<1>16. Cardinality(Active(m, Post)') + Cardinality(C) + Cardinality(Older(m, r, star)')
         <= MaxActive + Overrun + restored'
  <2>1. Older(m, r, star)' = Older(m, rank, star)
    BY <1>10, <1>13
  <2>2. Active(m, Post)' = Active(m, Post)
    BY DEF Active
  <2>3. Cardinality(Active(m, Post)) + Cardinality(C) + Cardinality(Older(m, rank, star))
          <= MaxActive + Overrun + restored
    BY <1>3, <1>4 DEF Ranked, Count
  <2> QED
    BY <2>1, <2>2, <2>3
<1>17. ASSUME NEW d \in H \cup {c}, r[d] >= star
       PROVE  Cardinality(Active(m, FirstKind(d))') + Cardinality(C) + Cardinality(Older(m, r, r[d])')
                <= call'[d].held + Overrun + restored'
  <2>1. Active(m, FirstKind(d))' = Active(m, FirstKind(d))
    BY <1>12
  <2>2. PICK n \in Nat : n = r[d] /\ n <= top
    BY <1>6, <1>9, <1>10
  <2>3. Older(m, r, n)' = Older(m, rank, n)
    BY <2>2, <1>13
  <2>4. CASE d = c
    <3>1. PICK O : O = Older(m, rank, n)
      OBVIOUS
    <3>2. O \in SUBSET H /\ H \in SUBSET Call
      BY <1>4, <1>6, <3>1 DEF Older
    <3>3. Cardinality(O) <= Cardinality(H) /\ Cardinality(O) \in Nat
      BY <3>2, CallSet
    <3>4. PICK k : k = Cardinality(Active(m, FirstKind(c)))
      OBVIOUS
    <3>5. k \in Nat
      <4>1. FirstKind(c) \in SUBSET Post
        BY DEF FirstKind, Post
      <4> QED
        BY <3>4, <4>1, ActiveSet DEF Count
    <3>6. call'[c].held = k
      BY <1>1, <3>4 DEF Count
    <3>7. k + Cardinality(C) + Cardinality(O) <= k + Overrun + restored
      <4>1. restored \in Nat /\ Overrun \in Nat
        BY Numbers DEF TypeOK
      <4> QED
        BY <1>7, <3>3, <3>5, <4>1
    <3> QED
      BY <2>1, <2>2, <2>3, <2>4, <3>1, <3>4, <3>6, <3>7
  <2>5. CASE d # c
    <3>1. d \in H /\ n = rank[d] /\ rank[d] >= star /\ call'[d] = call[d]
      BY <1>1, <1>6, <1>9, <1>17, <2>2, <2>5
    <3>2. Cardinality(Active(m, FirstKind(d))) + Cardinality(C) + Cardinality(Older(m, rank, rank[d]))
            <= call[d].held + Overrun + restored
      BY <1>3, <1>4, <3>1 DEF Ranked, Count
    <3> QED
      BY <2>1, <2>2, <2>3, <3>1, <3>2
  <2> QED
    BY <2>4, <2>5
<1>18. Ranked(m, r, star, top + 1)'
  BY <1>5, <1>14, <1>15, <1>16, <1>17 DEF Ranked, Count
<1> QED
  BY <1>9, <1>18 DEF SlotsOK

\* A check passes.  When its first count was later than that of the checks
\* which passed before, it is the one to look at from now on.
LEMMA SlotsSecond ==
  ASSUME TypeOK, restored' = restored, NEW m, SlotsOK(m), NEW c \in Call, NEW w,
         GoesOn(c, w, "second", {"tier"}), w # None, call[c].member = m, call[c].post \in Post,
         SlotFree(c), UNCHANGED <<post, bids>>
  PROVE  SlotsOK(m)'
<1>1. call'[c] = w /\ \A d \in Call : d # c => call'[d] = call[d]
  BY OneMoves DEF GoesOn
<1>2. /\ call[c] # None /\ call[c].step = "second" /\ w.step = "tier" /\ w.member = m
      /\ w.post \in Post
  BY DEF GoesOn
<1>3. PICK rank \in [Call -> Nat], star \in Nat, top \in Nat : Ranked(m, rank, star, top)
  BY DEF SlotsOK
<1>4. PICK C, H : C = Cleared(m) /\ H = Halfway(m)
  OBVIOUS
<1>5. Cleared(m)' = C \cup {c} /\ Halfway(m)' = H \ {c} /\ c \notin C /\ c \in H
  BY <1>1, <1>2, <1>4 DEF Cleared, Halfway, Clears, Halves
<1>6. C \in SUBSET Call /\ H \in SUBSET Call
  BY <1>4, SlotSets
<1>7. Cardinality(C \cup {c}) = Cardinality(C) + 1 /\ Cardinality(C) \in Nat
  BY <1>5, <1>6, CallSet
<1>8. /\ star <= top /\ \A d \in Call : rank[d] < top
      /\ \A d, e \in H : d # e => rank[d] # rank[e]
      /\ Cardinality(Active(m, Post)) + Cardinality(C) + Cardinality(Older(m, rank, star))
           <= MaxActive + Overrun + restored
      /\ \A d \in H : rank[d] >= star =>
           Cardinality(Active(m, FirstKind(d))) + Cardinality(C) + Cardinality(Older(m, rank, rank[d]))
             <= call[d].held + Overrun + restored
  BY <1>3, <1>4 DEF Ranked, Count
<1>9. \A d \in H \ {c} : Active(m, FirstKind(d))' = Active(m, FirstKind(d)) /\ call'[d] = call[d]
  BY <1>1, <1>6 DEF Active, FirstKind
<1>10. Active(m, Post)' = Active(m, Post)
  BY DEF Active
<1>11. \A posts \in {Post, SellPost, BuyPost} : Cardinality(Active(m, posts)) \in Nat
  <2>1. \A posts \in {Post, SellPost, BuyPost} : posts \in SUBSET Post
    BY DEF Post
  <2> QED
    BY <2>1, ActiveSet DEF Count
<1>12. ASSUME NEW n \in Nat
       PROVE  /\ Cardinality(Older(m, rank, n)) \in Nat
              /\ rank[c] < n => Cardinality(Older(m, rank, n)') = Cardinality(Older(m, rank, n)) - 1
              /\ rank[c] >= n => Older(m, rank, n)' = Older(m, rank, n)
  <2>1. PICK O, P : O = Older(m, rank, n) /\ P = Older(m, rank, n)'
    OBVIOUS
  <2>2. O \in SUBSET Call
    BY <1>4, <1>6, <2>1 DEF Older
  <2>3. rank[c] \in Nat
    OBVIOUS
  <2>4. CASE rank[c] < n
    <3>1. P = O \ {c} /\ c \in O
      BY <1>4, <1>5, <2>1, <2>4 DEF Older
    <3> QED
      BY <2>1, <2>2, <2>3, <2>4, <3>1, CallSet
  <2>5. CASE rank[c] >= n
    <3>1. ~(rank[c] < n)
      BY <2>3, <2>5
    <3>2. P = O
      BY <1>4, <1>5, <2>1, <3>1 DEF Older
    <3> QED
      BY <2>1, <2>2, <3>1, <3>2, CallSet
  <2> QED
    BY <2>3, <2>4, <2>5
<1>13. restored \in Nat /\ Overrun \in Nat /\ MaxActive \in Nat
  BY Numbers DEF TypeOK
<1>14. \A d \in H \ {c} : call[d].held \in Nat
  BY <1>4, <1>6 DEF TypeOK, CallState, Halfway, Halves
\* The other checks under way lose one older check and gain one cleared.
<1>15. ASSUME NEW d \in H \ {c}, rank[d] >= star, rank[c] < rank[d]
       PROVE  Cardinality(Active(m, FirstKind(d))') + Cardinality(C \cup {c})
                + Cardinality(Older(m, rank, rank[d])') <= call'[d].held + Overrun + restored'
  <2>1. PICK a \in Nat : a = Cardinality(Active(m, FirstKind(d)))
    BY <1>11 DEF FirstKind
  <2>2. PICK n \in Nat : n = rank[d]
    BY <1>6
  <2>3. a + Cardinality(C) + Cardinality(Older(m, rank, n)) <= call[d].held + Overrun + restored
    BY <1>8, <1>15, <2>1, <2>2
  <2>4. a + (Cardinality(C) + 1) + (Cardinality(Older(m, rank, n)) - 1) <= call[d].held + Overrun + restored
    BY <1>7, <1>12, <1>13, <1>14, <2>3
  <2>5. Cardinality(Older(m, rank, n)') = Cardinality(Older(m, rank, n)) - 1
    BY <1>12, <1>15, <2>2
  <2> QED
    BY <1>7, <1>9, <2>1, <2>2, <2>4, <2>5
<1>16. \A d, e \in H \ {c} : d # e => rank[d] # rank[e]
  BY <1>8
<1>17. CASE rank[c] < star
  <2>1. \A d \in H \ {c} : rank[d] >= star => rank[c] < rank[d]
    BY <1>6, <1>17
  <2>2. Cardinality(Active(m, Post)') + Cardinality(C \cup {c}) + Cardinality(Older(m, rank, star)')
          <= MaxActive + Overrun + restored'
    <3>1. Cardinality(Older(m, rank, star)') = Cardinality(Older(m, rank, star)) - 1
          /\ Cardinality(Older(m, rank, star)) \in Nat
      BY <1>12, <1>17
    <3>2. Cardinality(Active(m, Post)) + (Cardinality(C) + 1) + (Cardinality(Older(m, rank, star)) - 1)
            <= MaxActive + Overrun + restored
      BY <1>7, <1>8, <1>11, <1>13, <3>1
    <3> QED
      BY <1>7, <1>10, <3>1, <3>2
  <2>3. Ranked(m, rank, star, top)'
    BY <1>5, <1>8, <1>15, <1>16, <2>1, <2>2 DEF Ranked, Count
  <2> QED
    BY <2>3 DEF SlotsOK
<1>18. CASE rank[c] >= star
  <2>1. PICK r \in Nat : r = rank[c] /\ r <= top /\ r >= star
    BY <1>8, <1>18
  <2>2. \A d \in H \ {c} : rank[d] >= r => rank[c] < rank[d] /\ rank[d] >= star
    <3>1. \A d \in H \ {c} : rank[d] # rank[c] /\ rank[d] \in Nat
      BY <1>5, <1>6, <1>8
    <3> QED
      BY <2>1, <3>1
  <2>3. Cardinality(Active(m, Post)') + Cardinality(C \cup {c}) + Cardinality(Older(m, rank, r)')
          <= MaxActive + Overrun + restored'
    <3>1. PICK a, b, o : /\ a = Cardinality(Active(m, FirstKind(c)))
                         /\ b = Cardinality(Active(m, SecondKind(c)))
                         /\ o = Cardinality(Older(m, rank, r))
      OBVIOUS
    <3>2. a \in Nat /\ b \in Nat /\ o \in Nat
      <4>1. FirstKind(c) \in {Post, SellPost, BuyPost} /\ SecondKind(c) \in {Post, SellPost, BuyPost}
        BY DEF FirstKind, SecondKind
      <4> QED
        BY <1>11, <1>12, <3>1, <4>1
    <3>3. Cardinality(Active(m, Post)) <= a + b
      <4>1. PICK A, B : A = Active(m, FirstKind(c)) /\ B = Active(m, SecondKind(c))
        OBVIOUS
      <4>2. Active(m, Post) = A \cup B
        BY <4>1 DEF Active, FirstKind, SecondKind, Post
      <4>3. IsFiniteSet(A) /\ IsFiniteSet(B)
        <5>1. FirstKind(c) \in SUBSET Post /\ SecondKind(c) \in SUBSET Post
          BY DEF FirstKind, SecondKind, Post
        <5> QED
          BY <4>1, <5>1, ActiveSet
      <4>4. Cardinality(A \cup B) = Cardinality(A) + Cardinality(B) - Cardinality(A \cap B)
        BY <4>3, FS_Union
      <4>5. Cardinality(A \cap B) \in Nat
        BY <4>3, FS_Subset, FS_CardinalityType
      <4> QED
        BY <3>1, <3>2, <4>1, <4>2, <4>4, <4>5
    <3>4. a + Cardinality(C) + o <= call[c].held + Overrun + restored
      BY <1>5, <1>8, <2>1, <3>1
    <3>5. call[c].held + b < MaxActive /\ call[c].held \in Nat
      <4>1. call[c] \in CallState
        BY <1>2 DEF TypeOK
      <4> QED
        BY <3>1, <4>1 DEF SlotFree, Count, CallState
    <3>6. Cardinality(Active(m, Post)) + (Cardinality(C) + 1) + o <= MaxActive + Overrun + restored
      BY <1>7, <1>11, <1>13, <3>2, <3>3, <3>4, <3>5
    <3>7. Older(m, rank, r)' = Older(m, rank, r)
      BY <1>12, <2>1
    <3> QED
      BY <1>7, <1>10, <3>1, <3>6, <3>7
  <2>4. Ranked(m, rank, r, top)'
    BY <1>5, <1>8, <1>15, <1>16, <2>1, <2>2, <2>3 DEF Ranked, Count
  <2> QED
    BY <2>4 DEF SlotsOK
<1>19. rank[c] \in Nat
  OBVIOUS
<1> QED
  BY <1>17, <1>18, <1>19

\* The steps of a request keep what is said about every member's slots.
LEMMA SlotsCall ==
  ASSUME Consistent, \A m \in Member : SlotsOK(m), NEW c \in Call, CallNext(c)
  PROVE  \A m \in Member : SlotsOK(m)'
<1> SUFFICES ASSUME NEW m \in Member PROVE SlotsOK(m)'
  OBVIOUS
<1>0. TypeOK /\ CallOK(c) /\ SlotsOK(m) /\ None \notin Post
  BY QuotaAssumption DEF Consistent
<1>1. ASSUME NEW w, Moved(c, w), ~Halves(w, m), Clears(w, m) => Clears(call[c], m),
             UNCHANGED <<post, bids, restored>>
      PROVE  SlotsOK(m)'
  BY <1>0, <1>1, SlotsQuiet
<1>2. ASSUME NEW v \in Visit, ReadPost(c, v[1], v[2])
      PROVE  SlotsOK(m)'
  <2>1. PICK w : Comes(c, w) /\ w.step = "own" /\ w.post = v[2] /\ w.op \in {"bid", "offer"}
    BY <1>0, <1>2, ReadPostMoves
  <2>2. UNCHANGED <<post, bids, restored>>
    BY <1>0, <1>2, ReadPostMoves
  <2>3. Moved(c, w) /\ ~Halves(w, m) /\ ~Clears(w, m)
    BY <2>1 DEF Comes, Halves, Clears
  <2> QED
    BY <1>1, <2>2, <2>3
<1>3. ASSUME NEW n \in Member, NEW o \in {"sell", "buy"}, Create(c, n, o)
      PROVE  SlotsOK(m)'
  <2>1. PICK w : Comes(c, w) /\ w.step = "tier" /\ w.post = None /\ w.op \in {"sell", "buy"}
    BY <1>0, <1>3, CreateMoves
  <2>2. UNCHANGED <<post, bids, restored>>
    BY <1>0, <1>3, CreateMoves
  <2>3. Moved(c, w) /\ ~Halves(w, m) /\ ~Clears(w, m)
    BY <1>0, <2>1 DEF Comes, Halves, Clears
  <2> QED
    BY <1>1, <2>2, <2>3
<1>4. CASE CheckOwn(c)
  <2>1. PICK w : GoesOn(c, w, "own", {"first"})
    BY <1>0, <1>4, CheckOwnMoves
  <2>2. UNCHANGED <<post, bids, restored>>
    BY <1>0, <1>4, CheckOwnMoves
  <2>3. Moved(c, w) /\ ~Halves(w, m) /\ ~Clears(w, m)
    BY <2>1 DEF GoesOn, Halves, Clears
  <2> QED
    BY <1>1, <2>2, <2>3
<1>5. CASE CountFirst(c)
  <2>1. PICK w : /\ GoesOn(c, w, "first", {"second"}) /\ w # None
                 /\ w.held = Count(Active(call[c].member, FirstKind(c)))
    BY <1>0, <1>5, CountFirstMoves
  <2>2. UNCHANGED <<post, bids, restored>>
    BY <1>0, <1>5, CountFirstMoves
  <2>3. CASE call[c].member = m
    BY <1>0, <2>1, <2>2, <2>3, SlotsFirst
  <2>4. CASE call[c].member # m
    <3>1. Moved(c, w) /\ ~Halves(w, m) /\ ~Clears(w, m)
      BY <2>1, <2>4 DEF GoesOn, Halves, Clears
    <3> QED
      BY <1>1, <2>2, <3>1
  <2> QED
    BY <2>3, <2>4
<1>6. CASE CountSecond(c)
  <2>1. PICK w : GoesOn(c, w, "second", {"tier"}) /\ (w # None => SlotFree(c))
    BY <1>0, <1>6, CountSecondMoves
  <2>2. UNCHANGED <<post, bids, restored>>
    BY <1>0, <1>6, CountSecondMoves
  <2>3. CASE w # None /\ call[c].member = m /\ call[c].post \in Post
    BY <1>0, <2>1, <2>2, <2>3, SlotsSecond
  <2>4. CASE ~(w # None /\ call[c].member = m /\ call[c].post \in Post)
    <3>1. Moved(c, w) /\ ~Halves(w, m) /\ ~Clears(w, m)
      BY <2>1, <2>4 DEF GoesOn, Halves, Clears
    <3> QED
      BY <1>1, <2>2, <3>1
  <2> QED
    BY <2>3, <2>4
<1>7. ASSUME NEW w, NEW from \in {"tier", "reset", "spend"}, NEW to \in SUBSET {"reset", "spend", "insert"},
             GoesOn(c, w, from, to), UNCHANGED <<post, bids, restored>>
      PROVE  SlotsOK(m)'
  <2>1. Moved(c, w) /\ ~Halves(w, m) /\ (Clears(w, m) => Clears(call[c], m))
    BY <1>7 DEF GoesOn, Halves, Clears
  <2> QED
    BY <1>1, <1>7, <2>1
<1>8. CASE CheckTier(c)
  <2>1. PICK w : GoesOn(c, w, "tier", {"insert", "reset", "spend"})
    BY <1>0, <1>8, CheckTierMoves
  <2>2. UNCHANGED <<post, bids, restored>>
    BY <1>0, <1>8, CheckTierMoves
  <2> QED
    BY <1>7, <2>1, <2>2
<1>9. CASE ResetMonthlyCounts(c)
  <2>1. PICK w : GoesOn(c, w, "reset", {"spend"})
    BY <1>0, <1>9, ResetMoves
  <2>2. UNCHANGED <<post, bids, restored>>
    BY <1>0, <1>9, ResetMoves
  <2> QED
    BY <1>7, <2>1, <2>2
<1>10. CASE IncrementCount(c)
  <2>1. PICK w : GoesOn(c, w, "spend", {"insert"})
    BY <1>0, <1>10, IncrementCountMoves
  <2>2. UNCHANGED <<post, bids, restored>>
    BY <1>0, <1>10, IncrementCountMoves
  <2> QED
    BY <1>7, <2>1, <2>2
<1>11. CASE Insert(c)
  <2>0. UNCHANGED <<post, restored>>
    BY <1>0, <1>11, InsertMoves
  <2>1. CASE GoesOn(c, None, "insert", {"count"}) /\ UNCHANGED bids
    <3>1. Moved(c, None) /\ ~Halves(None, m) /\ ~Clears(None, m)
      BY <2>1 DEF GoesOn, Halves, Clears
    <3> QED
      BY <1>1, <2>0, <2>1, <3>1
  <2>2. CASE /\ \E w : GoesOn(c, w, "insert", {"count"}) /\ w # None
             /\ call[c].post \in Post /\ call[c].member \in Member
             /\ <<call[c].member, call[c].post>> \notin bids
             /\ bids' = bids \cup {<<call[c].member, call[c].post>>}
    <3>1. PICK w : GoesOn(c, w, "insert", {"count"}) /\ w # None
      BY <2>2
    <3>2. Moved(c, w) /\ ~Halves(w, m) /\ ~Clears(w, m)
      BY <3>1 DEF GoesOn, Halves, Clears
    <3>3. PICK q : q = call[c].post
      OBVIOUS
    <3>4. CASE call[c].member = m
      <4>1. Clears(call[c], m) /\ bids' = bids \cup {<<m, q>>}
        BY <2>2, <3>1, <3>3, <3>4 DEF Clears, GoesOn
      <4> QED
        BY <1>0, <2>0, <3>2, <4>1, SlotsInsert
    <3>5. CASE call[c].member # m
      <4>1. Halfway(m)' \subseteq Halfway(m) /\ \A d \in Halfway(m)' : call'[d] = call[d]
        BY <1>0, <3>2, OneMoves DEF Halfway
      <4>2. Cleared(m)' = Cleared(m)
        <5>1. ~Clears(call[c], m)
          BY <3>5 DEF Clears
        <5> QED
          BY <1>0, <3>2, <5>1, OneMoves DEF Cleared
      <4>3. ActiveGrows(m, 0)
        <5>1. \A posts : Active(m, posts)' = Active(m, posts)
          BY <2>0, <2>2, <3>5 DEF Active
        <5>2. \A posts \in {Post, SellPost, BuyPost} : Cardinality(Active(m, posts)) \in Nat
          <6>1. \A posts \in {Post, SellPost, BuyPost} : posts \in SUBSET Post
            BY DEF Post
          <6> QED
            BY <6>1, ActiveSet DEF Count
        <5> QED
          BY <5>1, <5>2 DEF ActiveGrows
      <4>4. restored' \in Nat /\ Cardinality(Cleared(m)) \in Nat
        BY <1>0, <2>0, SlotSets, CallSet DEF TypeOK
      <4>5. Cardinality(Cleared(m)') + 0 + restored <= Cardinality(Cleared(m)) + restored'
        BY <2>0, <4>2, <4>4
      <4> QED
        BY <1>0, <4>1, <4>3, <4>4, <4>5, SlotsKept
    <3> QED
      BY <3>4, <3>5
  <2> QED
    BY <1>0, <1>11, <2>1, <2>2, InsertMoves
<1>12. CASE IncrementPostCount(c)
  <2>1. /\ GoesOn(c, None, "count", {}) /\ call[c].post \in Post /\ UNCHANGED <<bids, restored>>
        /\ \/ post' = [post EXCEPT ![call[c].post].count = @ + 1]
           \/ UNCHANGED post
    BY <1>0, <1>12, PostCountMoves
  <2>2. Moved(c, None) /\ ~Halves(None, m) /\ ~Clears(None, m)
    BY <2>1 DEF GoesOn, Halves, Clears
  <2>3. \A p \in Post : post'[p].status = post[p].status
    <3>1. PICK q \in Post : q = call[c].post
      BY <2>1
    <3> QED
      BY <1>0, <2>1, <3>1 DEF TypeOK, PostRow
  <2> QED
    BY <1>0, <2>1, <2>2, <2>3, SlotsQuiet
<1> QED
  BY <1>2, <1>3, <1>4, <1>5, <1>6, <1>8, <1>9, <1>10, <1>11, <1>12 DEF CallNext

-----------------------------------------------------------------------------
(* Steps of others, and the theorems.                                       *)

\* What every step that moves no request keeps.
LEMMA OthersKeep ==
  ASSUME IInv, Consistent', UNCHANGED <<bids, call>>, faults' >= faults,
         \A p \in Post : post'[p].count = post[p].count,
         \A m \in Member, t \in Tier : RowKept(sub'[m][t], sub[m][t]),
         \A m \in Member, t \in Tier : Ages(m, t)
  PROVE  /\ \A p \in Post : BiddersOK(p)'
         /\ \A m \in Member, t \in Tier, op \in Op : AllowanceOK(m, t, op)'
<1>0. Consistent
  BY DEF IInv, Consistent
<1>1. faults \in Nat /\ faults' \in Nat
  BY <1>0 DEF Consistent, TypeOK
<1>2. ASSUME NEW p \in Post PROVE BiddersOK(p)'
  <2>1. Bidders(p)' = Bidders(p) /\ Entering(p)' = Entering(p) /\ Counting(p)' = Counting(p)
    BY DEF Bidders, Entering, Counting
  <2>2. PICK b, e, n : b = Count(Bidders(p)) /\ e = Count(Entering(p)) /\ n = Count(Counting(p))
    OBVIOUS
  <2>3. b <= post[p].count + n + faults /\ b + e <= MaxBidders + Overrun + faults
    BY <2>2 DEF IInv, BiddersOK
  <2>4. b <= post'[p].count + n + faults' /\ b + e <= MaxBidders + Overrun + faults'
    BY <1>0, <1>1, <2>2, <2>3, BidderSets DEF Consistent
  <2> QED
    BY <2>1, <2>2, <2>4 DEF BiddersOK, Count
<1>3. ASSUME NEW m \in Member, NEW t \in Tier, NEW op \in Op PROVE AllowanceOK(m, t, op)'
  <2>1. /\ Spending(m, t, op)' \subseteq Spending(m, t, op)
        /\ Resetting(m, t, op)' \subseteq Resetting(m, t, op)
    BY DEF Spending, Resetting
  <2>2. AllowanceOK(m, t, op)
    BY DEF IInv
  <2> QED
    BY <1>0, <2>1, <2>2, AllowanceKept
<1> QED
  BY <1>2, <1>3

\* The slots, when at most e posts become active again.
LEMMA OthersKeepSlots ==
  ASSUME TypeOK, NEW m, SlotsOK(m), UNCHANGED call, NEW e \in Nat, restored' = restored + e,
         ActiveGrows(m, e)
  PROVE  SlotsOK(m)'
<1>1. Cleared(m)' = Cleared(m) /\ Halfway(m)' = Halfway(m)
  BY DEF Cleared, Halfway
<1>2. restored \in Nat /\ Cardinality(Cleared(m)) \in Nat
  BY SlotSets, CallSet DEF TypeOK
<1>3. Cardinality(Cleared(m)') + e + restored <= Cardinality(Cleared(m)) + restored'
  BY <1>1, <1>2
<1>4. \A d \in Halfway(m)' : call'[d] = call[d]
  OBVIOUS
<1> QED
  BY <1>1, <1>2, <1>3, <1>4, SlotsKept

\* A row is kept by a step that leaves the table alone.
LEMMA SameRows ==
  ASSUME TypeOK, UNCHANGED sub
  PROVE  SubsStay /\ \A m \in Member, t \in Tier : RowKept(sub'[m][t], sub[m][t])
BY DEF TypeOK, RowKept, SubsStay

\* Posts that close or come back.
LEMMA PostSteps ==
  ASSUME IInv, NEW q \in Post, Close(q) \/ Restore(q)
  PROVE  IInv'
<1>0. Consistent /\ TypeOK /\ restored \in Nat /\ post[q] \in PostRow
  BY DEF IInv, Consistent, TypeOK
<1>1. PICK status \in {"active", "suspended", "over"} : post' = [post EXCEPT ![q].status = status]
  BY DEF Close, Restore
<1>2. UNCHANGED <<bids, sub, call, grant, today, granted, faults>> /\ restored' \in Nat
  BY <1>0 DEF Close, Restore
<1>3. /\ post' \in [Post -> PostRow] /\ \A p \in Post : post'[p].count = post[p].count
      /\ post'[q].status = status /\ \A p \in Post : p # q => post'[p] = post[p]
  BY <1>0, <1>1 DEF TypeOK, PostRow
<1>4. TypeOK'
  BY <1>0, <1>2, <1>3 DEF TypeOK
<1>5. SubsStay /\ \A m \in Member, t \in Tier : RowKept(sub'[m][t], sub[m][t])
  BY <1>0, <1>2, SameRows
<1>6. Consistent'
  BY <1>0, <1>2, <1>4, <1>5, CallsStay, GrantsKept DEF Consistent
<1>7. \A m \in Member, t \in Tier : Ages(m, t)
  BY <1>2, SameDay DEF Ages
<1>8. faults' >= faults
  BY <1>0, <1>2 DEF TypeOK
<1>9. ASSUME NEW m \in Member PROVE SlotsOK(m)'
  <2>1. SlotsOK(m)
    BY DEF IInv
  <2>2. CASE Close(q)
    <3>1. status # "active" /\ restored' = restored + 0
      BY <1>0, <1>1, <1>3, <2>2 DEF Close, TypeOK, PostRow
    <3>2. ActiveGrows(m, 0)
      BY <1>2, <1>3, <3>1, NoneMoreActive
    <3> QED
      BY <1>0, <1>2, <2>1, <3>1, <3>2, OthersKeepSlots
  <2>3. CASE Restore(q)
    <3>1. restored' = restored + 1
      BY <2>3 DEF Restore
    <3>2. \A p \in Post : p # q => /\ <<m, p>> \in bids' => <<m, p>> \in bids
                                   /\ post'[p].status = "active" => post[p].status = "active"
      BY <1>2, <1>3
    <3>3. ActiveGrows(m, 1)
      BY <3>2, OneMoreActive
    <3> QED
      BY <1>0, <1>2, <2>1, <3>1, <3>3, OthersKeepSlots
  <2> QED
    BY <2>2, <2>3
<1> QED
  BY <1>2, <1>3, <1>5, <1>6, <1>7, <1>8, <1>9, OthersKeep DEF IInv, Consistent

\* Days that pass, and steps that change nothing.
LEMMA TickStep ==
  ASSUME IInv, Tick \/ UNCHANGED vars
  PROVE  IInv'
<1>0. Consistent /\ TypeOK /\ restored \in Nat /\ today \in 0 .. Horizon
  BY DEF IInv, Consistent, TypeOK
<1>1. UNCHANGED <<post, bids, sub, call, grant, granted, restored, faults>>
  BY DEF Tick, vars
<1>2. today' \in 0 .. Horizon
  BY <1>0, Numbers DEF Tick, vars
<1>3. TypeOK'
  BY <1>0, <1>1, <1>2 DEF TypeOK
<1>4. SubsStay /\ \A m \in Member, t \in Tier : RowKept(sub'[m][t], sub[m][t])
  BY <1>0, <1>1, SameRows
<1>5. Consistent'
  BY <1>0, <1>1, <1>3, <1>4, CallsStay, GrantsKept DEF Consistent
<1>6. ASSUME NEW m \in Member, NEW t \in Tier
      PROVE  Ages(m, t)
  <2>1. CASE UNCHANGED vars
    BY <2>1, SameDay DEF Ages, vars
  <2>2. CASE Tick
    <3> SUFFICES ASSUME sub[m][t] # None PROVE Ages(m, t)
      BY DEF Ages
    <3>1. PICK row \in SubRow : row = sub[m][t]
      BY <1>0 DEF TypeOK
    <3>2. (Due(row) => Due(row)') /\ (Forgotten(row) => Forgotten(row)')
      BY <1>0, <2>2, DueRows
    <3>3. sub' = sub
      BY <1>1
    <3> QED
      BY <3>1, <3>2, <3>3 DEF Ages, Due, Forgotten, MonthAgo
  <2> QED
    BY <2>1, <2>2
<1>7. faults' >= faults /\ \A p \in Post : post'[p].count = post[p].count
  BY <1>0, <1>1 DEF TypeOK
<1>8. ASSUME NEW m \in Member PROVE SlotsOK(m)'
  <2>1. SlotsOK(m) /\ restored' = restored + 0
    BY <1>0, <1>1 DEF IInv
  <2>2. ActiveGrows(m, 0)
    BY <1>1, NoneMoreActive
  <2> QED
    BY <1>0, <1>1, <2>1, <2>2, OthersKeepSlots
<1> QED
  BY <1>1, <1>4, <1>5, <1>6, <1>7, <1>8, OthersKeep DEF IInv, Consistent

\* Administrators at the subscriptions.
LEMMA AdminStep ==
  ASSUME IInv, AdminNext
  PROVE  IInv'
<1>0. Consistent /\ TypeOK
  BY DEF IInv, Consistent
<1>1. /\ RowsKept /\ faults' \in Nat /\ faults' >= faults
      /\ UNCHANGED <<post, bids, call, today, restored>>
      /\ granted' \in Nat /\ grant' \in [Admin -> GrantState \cup {None}] /\ GrantsConsistent'
  BY <1>0, AdminMoves
<1>2. SubsStay
  BY <1>1, RowsKeptStay
<1>3. TypeOK'
  BY <1>0, <1>1 DEF TypeOK, RowsKept
<1>4. Consistent'
  BY <1>0, <1>1, <1>2, <1>3, CallsStay DEF Consistent
<1>5. ASSUME NEW m \in Member, NEW t \in Tier, sub[m][t] # None
      PROVE  sub'[m][t].reset = sub[m][t].reset
  BY <1>1, <1>5 DEF RowsKept, RowKept
<1>6. \A m \in Member, t \in Tier : Ages(m, t)
  BY <1>1, <1>5, SameDay DEF Ages
<1>7. ASSUME NEW m \in Member PROVE SlotsOK(m)'
  <2>1. SlotsOK(m) /\ restored' = restored + 0
    BY <1>0, <1>1 DEF IInv, TypeOK
  <2>2. ActiveGrows(m, 0)
    BY <1>1, NoneMoreActive
  <2> QED
    BY <1>0, <1>1, <2>1, <2>2, OthersKeepSlots
<1> QED
  BY <1>1, <1>4, <1>6, <1>7, OthersKeep DEF IInv, Consistent, RowsKept

\* The situations the model starts from: nobody has done anything yet.
LEMMA InitIInv ==
  ASSUME Init
  PROVE  IInv
<1>1. PICK s \in Start :
        /\ today = s.today /\ granted = s.granted /\ restored = 0 /\ faults = 0
        /\ post = [p \in Post |-> [status |-> IF p \in s.open THEN "active" ELSE "over", count |-> 0]]
        /\ bids = {}
        /\ sub = [m \in Member |-> [t \in Tier |-> IF t = s.tier[m] THEN Row(None) ELSE None]]
        /\ call = [c \in Call |-> None] /\ grant = [a \in Admin |-> None]
  BY DEF Init
<1>2. today \in 0 .. Horizon /\ granted \in Nat
  BY <1>1, QuotaAssumption
<1>3. Row(None) \in SubRow /\ Row(None).reset = today /\ \A op \in Op : Row(None).used[op] = 0
  BY <1>2, FreshRow
<1>4. post \in [Post -> PostRow]
  BY <1>1 DEF PostRow
<1>5. /\ sub \in [Member -> [Tier -> SubRow \cup {None}]]
      /\ \A m \in Member, t \in Tier : sub[m][t] # None =>
           \A op \in Op : sub[m][t].used[op] = 0
  BY <1>1, <1>3
<1>6. TypeOK
  BY <1>1, <1>2, <1>4, <1>5 DEF TypeOK
<1>7. GrantsConsistent /\ \A c \in Call : CallOK(c)
  BY <1>1 DEF GrantsConsistent, GrantAt, CallOK
<1>8. Cardinality({}) = 0
  BY FS_EmptySet
<1>9. ASSUME NEW p \in Post PROVE BiddersOK(p)
  <2>1. Bidders(p) = {} /\ Entering(p) = {} /\ Counting(p) = {} /\ post[p].count = 0
    BY <1>1 DEF Bidders, Entering, Counting, Enters, Counts
  <2>2. 0 <= 0 + 0 + faults /\ 0 + 0 <= MaxBidders + Overrun + faults
    BY <1>1, Numbers
  <2> QED
    BY <1>8, <2>1, <2>2 DEF BiddersOK, Count
<1>10. ASSUME NEW m \in Member, NEW t \in Tier, NEW op \in Op PROVE AllowanceOK(m, t, op)
  <2>1. Spending(m, t, op) = {} /\ Resetting(m, t, op) = {}
    BY <1>1 DEF Spending, Resetting, Takes
  <2>2. Limit[t] # None => 0 + 0 <= Limit[t] + Overrun + faults
                           /\ 0 + 0 + 0 <= Limit[t] + Overrun + faults
    BY <1>6, AllowanceSets
  <2> QED
    BY <1>5, <1>8, <2>1, <2>2 DEF AllowanceOK, Count
<1>11. ASSUME NEW m \in Member PROVE SlotsOK(m)
  <2>1. PICK rank : rank = [c \in Call |-> 0]
    OBVIOUS
  <2>2. rank \in [Call -> Nat] /\ \A c \in Call : rank[c] < 1
    BY <2>1
  <2>3. /\ Active(m, Post) = {} /\ Cleared(m) = {} /\ Halfway(m) = {}
        /\ Older(m, rank, 0) = {}
    BY <1>1 DEF Active, Cleared, Halfway, Older, Clears, Halves
  <2>4. 0 + 0 + 0 <= MaxActive + Overrun + restored
    BY <1>1, Numbers
  <2>5. Ranked(m, rank, 0, 1)
    BY <1>8, <2>2, <2>3, <2>4 DEF Ranked, Count
  <2> QED
    BY <2>2, <2>5 DEF SlotsOK
<1> QED
  BY <1>6, <1>7, <1>9, <1>10, <1>11 DEF IInv

\* Every step keeps the invariant.
LEMMA StepIInv ==
  ASSUME IInv, [Next]_vars
  PROVE  IInv'
<1>1. ASSUME NEW c \in Call, CallNext(c) PROVE IInv'
  <2>1. Consistent
    BY DEF IInv, Consistent
  <2>2. Consistent'
    BY <1>1, <2>1, CallTypes
  <2>3. \A p \in Post : BiddersOK(p)'
    BY <1>1, <2>1, BiddersCall DEF IInv
  <2>4. \A m \in Member, t \in Tier, op \in Op : AllowanceOK(m, t, op)'
    BY <1>1, <2>1, AllowanceCall DEF IInv
  <2>5. \A m \in Member : SlotsOK(m)'
    BY <1>1, <2>1, SlotsCall DEF IInv
  <2> QED
    BY <2>2, <2>3, <2>4, <2>5 DEF IInv, Consistent
<1>2. CASE AdminNext
  BY <1>2, AdminStep
<1>3. ASSUME NEW p \in Post, Close(p) \/ Restore(p) PROVE IInv'
  BY <1>3, PostSteps
<1>4. CASE Tick \/ UNCHANGED vars
  BY <1>4, TickStep
<1> QED
  BY <1>1, <1>2, <1>3, <1>4 DEF Next

\* The invariant holds of every behaviour.
THEOREM Invariance == Spec => []IInv
<1>1. Init => IInv
  BY InitIInv
<1>2. IInv /\ [Next]_vars => IInv'
  BY StepIInv
<1> QED
  BY <1>1, <1>2, PTL DEF Spec

\* MAX_ACTIVE_BIDS: a member's bids and offers on active posts exceed it by
\* the other requests under way at most, and by what moderation gave back.
THEOREM SlotsAreHeld == Spec => []SlotsHold
<1>1. IInv => SlotsHold
  <2> SUFFICES ASSUME IInv, NEW m \in Member
               PROVE  Count(Active(m, Post)) <= MaxActive + Overrun + restored
    BY DEF IInv, SlotsHold
  <2>1. PICK rank \in [Call -> Nat], star \in Nat, top \in Nat : Ranked(m, rank, star, top)
    BY DEF IInv, SlotsOK
  <2>2. PICK a, k, o : /\ a = Cardinality(Active(m, Post)) /\ k = Cardinality(Cleared(m))
                       /\ o = Cardinality(Older(m, rank, star))
    OBVIOUS
  <2>3. a \in Nat /\ k \in Nat /\ o \in Nat
    <3>1. Older(m, rank, star) \in SUBSET Call /\ Cleared(m) \in SUBSET Call
      BY SlotSets
    <3> QED
      BY <2>2, <3>1, ActiveSet, CallSet DEF Count
  <2>4. a + k + o <= MaxActive + Overrun + restored
    BY <2>1, <2>2 DEF Ranked, Count
  <2>5. restored \in Nat
    BY DEF IInv, TypeOK
  <2> QED
    BY <2>2, <2>3, <2>4, <2>5, Numbers DEF Count
<1> QED
  BY <1>1, Invariance, PTL

\* MAX_BIDS_PER_AUCTION: a post's bidders exceed it by the other requests
\* under way at most, and by those whose count was not written.
THEOREM BiddersAreHeld == Spec => []BiddersHold
<1>1. IInv => BiddersHold
  <2> SUFFICES ASSUME IInv, NEW p \in Post
               PROVE  Count(Bidders(p)) <= MaxBidders + Overrun + faults
    BY DEF BiddersHold, Bidders
  <2>1. TypeOK /\ Count(Bidders(p)) + Count(Entering(p)) <= MaxBidders + Overrun + faults
    BY DEF IInv, BiddersOK
  <2> QED
    BY <2>1, BidderSets
<1> QED
  BY <1>1, Invariance, PTL

\* The monthly allowance: a counter exceeds it by the other requests under
\* way at most, and by the resets that failed, unless the handler's notion of a
\* month and that of the reset have disagreed about the row.
THEOREM AllowanceIsHeld == Spec => []AllowanceHolds
<1>1. IInv => AllowanceHolds
  <2> SUFFICES ASSUME IInv, NEW m \in Member, NEW t \in Tier, NEW op \in Op,
                      sub[m][t] # None, Limit[t] # None, ~Forgotten(sub[m][t])
               PROVE  sub[m][t].used[op] <= Limit[t] + Overrun + faults
    BY DEF AllowanceHolds, Within
  <2>1. TypeOK /\ sub[m][t].used[op] + Count(Spending(m, t, op)) <= Limit[t] + Overrun + faults
    BY DEF IInv, AllowanceOK
  <2> QED
    BY <2>1, AllowanceSets
<1> QED
  BY <1>1, Invariance, PTL

===============================================================================
