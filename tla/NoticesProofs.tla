----------------------------- MODULE NoticesProofs -----------------------------
(***************************************************************************)
(* Proofs about Notices and Listings.                                      *)
(*                                                                         *)
(* That notices are bounded (NoticesBounded) is a matter of counting what  *)
(* is still to come. Counted says that the notices a member was told of a  *)
(* post, plus one for the pass of the cron that still lies ahead of it,    *)
(* plus one for a goroutine that has not reached the member, never exceed  *)
(* the bound: a step that tells turns a notice to come into one that came, *)
(* and what could bring a notice back, a mark that failed or a restart, is *)
(* paid for with a fault. Calls to an ending post are counted in the same  *)
(* way: the room that is left for them before the end shrinks by one for   *)
(* each call that is marked, because the next one is a gap away. The demo  *)
(* notices are bounded by what the row of a member's quota remembers: the  *)
(* day and time of the last one, and how many the day has had; that each   *)
(* of them asked for its slot is DemoKnown, which a failed lookup breaks   *)
(* for one post at the price of a fault.                                   *)
(*                                                                         *)
(* That feeds, totals and audiences agree (FeedsAgreeAlways) needs one     *)
(* part of Counted, that no two posts were written at the same place in    *)
(* the order: a feed is then a strict order of its rows, the rank of a row *)
(* is an injection into the numbers below their count, so that every row   *)
(* has its place, and joining the pages that the total promises rebuilds   *)
(* the rows, by induction on the number of pages.                          *)
(***************************************************************************)
EXTENDS Notices, FiniteSetTheorems, SequenceTheorems, WellFoundedInduction, TLAPS

\* What is assumed of the constants, one by one.
LEMMA Constants ==
  /\ SellPost \cap BuyPost = {} /\ None \notin Member /\ PageSize \in Nat /\ PageSize > 0
  /\ Owner \in [Post -> Member] /\ SeedUser \in Member /\ "cron" \notin Post
  /\ None \notin Time /\ None \notin Broadcast /\ None \notin QuotaRow
  /\ \A S \in SUBSET Post : S # None
  /\ \A S \in SUBSET Member : S # None
  /\ IsFiniteSet(Post) /\ IsFiniteSet(Member)
BY ListingsAssumption, NoticesAssumption

\* The numbers among them.
LEMMA Numbers ==
  /\ Duration \in Nat /\ Duration > 0 /\ SelectionWindow \in Nat /\ EndingWindow \in Nat
  /\ EndingWindow > 0 /\ EndingGap \in Nat /\ DayLength \in Nat /\ DayLength > 0
  /\ DailyMax \in Nat /\ DailyMax > 0 /\ FromHour \in Nat /\ UntilHour \in Nat /\ MinGap \in Nat
  /\ MaxGap \in Nat /\ MaxTime \in Nat /\ MaxRuns \in Nat /\ MaxRuns > 0 /\ MaxFaults \in Nat
  /\ SeedGaps \subseteq Nat
BY NoticesAssumption

\* Six passes.
LEMMA PassCount ==
  /\ Len(Passes) = 6 /\ \A i \in 1 .. 6 : Passes[i] \in Kind
  /\ Passes[1] = "new" /\ Passes[2] = "new" /\ Passes[3] = "choose" /\ Passes[4] = "choose"
  /\ Passes[5] = "ending" /\ Passes[6] = "ending"
BY DEF Passes, Kind

-----------------------------------------------------------------------------
(* Arithmetic.                                                             *)

\* Division by a positive number.
LEMMA Division ==
  ASSUME NEW a \in Int, NEW d \in Nat, d > 0
  PROVE  /\ a % d \in 0 .. d - 1 /\ a = d * (a \div d) + (a % d)
         /\ a \div d \in Int
OBVIOUS

\* A quotient that fits below b is the quotient of b or less.
LEMMA DivLarger ==
  ASSUME NEW b \in Int, NEW d \in Nat, d > 0, NEW q \in Int, d * q <= b
  PROVE  q <= b \div d
<1>1. PICK u \in Int, v \in Int : b = d * u + v /\ u = b \div d /\ 0 <= v /\ v < d
  BY Division
<1> SUFFICES ASSUME u + 1 <= q PROVE FALSE
  BY <1>1
<1>2. PICK k \in Nat : k = q - u - 1
  OBVIOUS
<1>3. q = u + 1 + k
  BY <1>2
<1>4. d * q = d * u + d + d * k /\ d * k \in Nat /\ d * u \in Int
  BY <1>3
<1> QED
  BY <1>1, <1>4

\* Quotients grow with what is divided.
LEMMA DivMonotone ==
  ASSUME NEW a \in Int, NEW b \in Int, NEW d \in Nat, d > 0, a <= b
  PROVE  a \div d <= b \div d
<1>1. PICK q \in Int, r \in Int : a = d * q + r /\ q = a \div d /\ 0 <= r /\ r < d
  BY Division
<1>2. d * q \in Int
  OBVIOUS
<1>3. d * q <= b
  BY <1>1, <1>2
<1> QED
  BY <1>1, <1>3, DivLarger

\* Taking the divisor away takes one from the quotient.
LEMMA DivLess ==
  ASSUME NEW a \in Int, NEW d \in Nat, d > 0
  PROVE  1 + (a - d) \div d <= a \div d
<1>1. PICK q \in Int, r \in Int : a - d = d * q + r /\ q = (a - d) \div d /\ 0 <= r /\ r < d
  BY Division
<1>2. d * (q + 1) = d * q + d /\ d * q \in Int
  OBVIOUS
<1>3. d * (q + 1) <= a
  BY <1>1, <1>2
<1> QED
  BY <1>1, <1>3, DivLarger

\* Adding it adds no more than one.
LEMMA DivMore ==
  ASSUME NEW a \in Int, NEW d \in Nat, d > 0
  PROVE  a \div d <= 1 + (a - d) \div d
<1>1. PICK q \in Int, r \in Int : a = d * q + r /\ q = a \div d /\ 0 <= r /\ r < d
  BY Division
<1>2. d * (q - 1) = d * q - d /\ d * q \in Int
  OBVIOUS
<1>3. d * (q - 1) <= a - d
  BY <1>1, <1>2
<1>4. q - 1 <= (a - d) \div d
  BY <1>3, DivLarger
<1> QED
  BY <1>1, <1>4, Division

\* A quotient of a natural number is one.
LEMMA DivNat ==
  ASSUME NEW a \in Nat, NEW d \in Nat, d > 0
  PROVE  a \div d \in Nat
<1>1. d * 0 <= a
  OBVIOUS
<1>2. 0 <= a \div d
  BY <1>1, DivLarger
<1> QED
  BY <1>2, Division

\* Room is a natural number and shrinks with time.
LEMMA RoomType ==
  ASSUME NEW t \in Int, NEW end \in Int
  PROVE  Room(t, end) \in Nat
<1>1. t < end => (end - 1 - t) \div (EndingGap + 1) \in Nat
  <2> SUFFICES ASSUME t < end PROVE (end - 1 - t) \div (EndingGap + 1) \in Nat
    OBVIOUS
  <2>1. end - 1 - t \in Nat /\ EndingGap + 1 \in Nat /\ EndingGap + 1 > 0
    BY Numbers
  <2> QED
    BY <2>1, DivNat
<1> QED
  BY <1>1 DEF Room

\* See RoomType.
LEMMA RoomShrinks ==
  ASSUME NEW t \in Int, NEW u \in Int, NEW end \in Int, t <= u
  PROVE  Room(u, end) <= Room(t, end)
<1>1. Room(t, end) \in Nat
  BY RoomType
<1>2. CASE u < end
  <2>1. end - 1 - u <= end - 1 - t /\ EndingGap + 1 \in Nat /\ EndingGap + 1 > 0
    BY Numbers
  <2>2. (end - 1 - u) \div (EndingGap + 1) <= (end - 1 - t) \div (EndingGap + 1)
    BY <2>1, DivMonotone
  <2>3. (end - 1 - u) \div (EndingGap + 1) \in Int /\ (end - 1 - t) \div (EndingGap + 1) \in Int
    BY <2>1, Division
  <2>4. t < end
    BY <1>2
  <2> QED
    BY <1>2, <2>2, <2>3, <2>4 DEF Room
<1>3. CASE ~ (u < end)
  BY <1>1, <1>3 DEF Room
<1> QED
  BY <1>2, <1>3

\* One call takes one place, and no more.
LEMMA RoomStep ==
  ASSUME NEW t \in Int, NEW end \in Int
  PROVE  /\ Room(t, end) <= 1 + Room(t + EndingGap + 1, end)
         /\ t < end => 1 + Room(t + EndingGap + 1, end) <= Room(t, end)
<1> DEFINE d == EndingGap + 1
           a == end - 1 - t
<1>1. d \in Nat /\ d > 0 /\ a \in Int
  BY Numbers
<1>2. PICK q \in Int, r \in Int : q = a \div d /\ r = (a - d) \div d
  BY <1>1, Division
<1>3. q = 1 + r
  BY <1>1, <1>2, DivLess, DivMore
<1>4. end - 1 - (t + EndingGap + 1) = a - d
  BY Numbers
<1>5. Room(t + EndingGap + 1, end) = IF t + EndingGap + 1 < end THEN 1 + r ELSE 0
  BY <1>2, <1>4 DEF Room
<1>6. Room(t, end) = IF t < end THEN 1 + q ELSE 0
  BY <1>2 DEF Room
<1>7. CASE t < end /\ t + EndingGap + 1 < end
  BY <1>3, <1>5, <1>6, <1>7
<1>8. CASE t < end /\ ~ (t + EndingGap + 1 < end)
  <2>1. a - d < 0
    BY <1>8, Numbers
  <2>2. q = 0
    <3>1. a \in Nat
      BY <1>8
    <3>2. q \in Nat
      BY <1>1, <1>2, <3>1, DivNat
    <3>3. a \div d <= (d - 1) \div d
      BY <1>1, <2>1, DivMonotone
    <3>4. (d - 1) \div d = 0
      BY <1>1
    <3> QED
      BY <1>2, <3>2, <3>3, <3>4
  <2> QED
    BY <1>5, <1>6, <1>8, <2>2
<1>9. CASE ~ (t < end)
  <2>1. ~ (t + EndingGap + 1 < end)
    BY <1>9, Numbers
  <2> QED
    BY <1>5, <1>6, <1>9, <2>1
<1> QED
  BY <1>7, <1>8, <1>9

\* The start of the stretch in which a post is called for.
LEMMA LaterRoom ==
  ASSUME NEW t \in Int, NEW end \in Int
  PROVE  \E u \in Int : /\ Later(t, end) = Room(u, end) /\ t <= u /\ end - EndingWindow <= u
                        /\ u = t \/ u = end - EndingWindow
BY Numbers DEF Later

\* Later is a natural number, shrinks with time, and is MaxCalls at most.
LEMMA LaterType ==
  ASSUME NEW t \in Int, NEW end \in Int
  PROVE  Later(t, end) \in Nat
<1>1. PICK u \in Int : Later(t, end) = Room(u, end)
  BY LaterRoom
<1> QED
  BY <1>1, RoomType

\* See LaterType.
LEMMA LaterShrinks ==
  ASSUME NEW t \in Int, NEW u \in Int, NEW end \in Int, t <= u
  PROVE  Later(u, end) <= Later(t, end)
<1>0. end - EndingWindow \in Int
  BY Numbers
<1>1. PICK v \in Int : v = (IF t < end - EndingWindow THEN end - EndingWindow ELSE t)
  BY <1>0
<1>2. PICK w \in Int : w = (IF u < end - EndingWindow THEN end - EndingWindow ELSE u)
  BY <1>0
<1>3. v <= w
  BY <1>0, <1>1, <1>2
<1> QED
  BY <1>1, <1>2, <1>3, RoomShrinks DEF Later

\* See LaterType.
LEMMA LaterMost ==
  ASSUME NEW t \in Int, NEW end \in Int
  PROVE  Later(t, end) <= MaxCalls /\ MaxCalls \in Nat
<1>1. Later(t, end) <= Room(end - EndingWindow, end)
  <2>1. PICK u \in Int : Later(t, end) = Room(u, end) /\ end - EndingWindow <= u
    BY LaterRoom
  <2>2. end - EndingWindow \in Int
    BY Numbers
  <2> QED
    BY <2>1, <2>2, RoomShrinks
<1>2. Room(end - EndingWindow, end) = MaxCalls
  <2>1. end - EndingWindow < end /\ end - 1 - (end - EndingWindow) = EndingWindow - 1
    BY Numbers
  <2> QED
    BY <2>1 DEF Room, MaxCalls
<1>3. Room(end - EndingWindow, end) \in Nat
  BY RoomType, Numbers
<1> QED
  BY <1>1, <1>2, <1>3

\* A gap later there is room for one call less, at worst.
LEMMA LaterStep ==
  ASSUME NEW t \in Int, NEW end \in Int
  PROVE  /\ Later(t, end) <= 1 + Later(t + EndingGap + 1, end)
         /\ t < end /\ end - EndingWindow <= t => 1 + Later(t + EndingGap + 1, end) <= Later(t, end)
<1>1. PICK v \in Int : v = (IF t < end - EndingWindow THEN end - EndingWindow ELSE t)
  BY Numbers
<1>2. PICK w \in Int : w = (IF t + EndingGap + 1 < end - EndingWindow THEN end - EndingWindow
                            ELSE t + EndingGap + 1)
  BY Numbers
<1>3. w <= v + EndingGap + 1 /\ v + EndingGap + 1 \in Int
  BY <1>1, <1>2, Numbers
<1>4. Later(t, end) = Room(v, end) /\ Later(t + EndingGap + 1, end) = Room(w, end)
  BY <1>1, <1>2 DEF Later
<1>5. Room(v, end) \in Nat /\ Room(w, end) \in Nat /\ Room(v + EndingGap + 1, end) \in Nat
  BY <1>3, RoomType
<1>6. Room(v, end) <= 1 + Room(v + EndingGap + 1, end)
  BY RoomStep
<1>7. Room(v + EndingGap + 1, end) <= Room(w, end)
  BY <1>3, RoomShrinks
<1>8. t < end /\ end - EndingWindow <= t => 1 + Room(w, end) <= Room(v, end)
  <2> SUFFICES ASSUME t < end, end - EndingWindow <= t PROVE 1 + Room(w, end) <= Room(v, end)
    OBVIOUS
  <2>1. v = t /\ w = v + EndingGap + 1
    BY <1>1, <1>2, Numbers
  <2> QED
    BY <2>1, RoomStep
<1> QED
  BY <1>4, <1>5, <1>6, <1>7, <1>8

-----------------------------------------------------------------------------
(* How the actions change a post.                                          *)

\* The fields that no decision about a post touches.
Alike(p) == /\ post'[p].end = post[p].end /\ post'[p].born = post[p].born
            /\ post'[p].notified = post[p].notified /\ post'[p].warned = post[p].warned
            /\ post'[p].motivated = post[p].motivated /\ post'[p].runs = post[p].runs

\* Only p was written.
Others(p) == \A q \in Post : q # p => post'[q] = post[q]

\* A row for a post.
LEMMA RowSet ==
  ASSUME TypeOK, NEW p \in Post, NEW r \in Row, post' = [post EXCEPT ![p] = r]
  PROVE  post' \in [Post -> Row] /\ post'[p] = r /\ Others(p)
BY DEF TypeOK, Others

\* A status of a post.
LEMMA Reached ==
  ASSUME TypeOK, NEW p \in Post, NEW to \in Status, Reach(p, to)
  PROVE  post' \in [Post -> Row] /\ post'[p].status = to /\ Alike(p) /\ Others(p)
<1>1. PICK r : r = [post[p] EXCEPT !.status = to]
  OBVIOUS
<1>2. post[p] \in Row
  BY DEF TypeOK
<1>3. r \in Row /\ r.status = to /\ r.end = post[p].end /\ r.born = post[p].born
      /\ r.notified = post[p].notified /\ r.warned = post[p].warned
      /\ r.motivated = post[p].motivated /\ r.runs = post[p].runs
  BY <1>1, <1>2 DEF Row
<1>4. post' = [post EXCEPT ![p] = r]
  BY <1>1 DEF Reach
<1>5. post' \in [Post -> Row] /\ post'[p] = r /\ Others(p)
  BY <1>3, <1>4, RowSet
<1> QED
  BY <1>3, <1>5 DEF Alike

\* A new deadline for a post.
LEMMA Opened ==
  ASSUME TypeOK, NEW p \in Post, NEW runs \in 0 .. MaxRuns, OpenFor(p, runs)
  PROVE  /\ post' \in [Post -> Row] /\ post'[p].status = "active" /\ Others(p)
         /\ post'[p].born = post[p].born /\ post'[p].notified = post[p].notified
         /\ post'[p].warned = post[p].warned /\ post'[p].runs = runs
<1>1. PICK r : r = [post[p] EXCEPT !.status = "active", !.end = now + Duration, !.runs = runs]
  OBVIOUS
<1>2. post[p] \in Row /\ now + Duration \in 0 .. MaxTime + Duration
  BY Numbers DEF TypeOK, Time
<1>3. r \in Row /\ r.status = "active" /\ r.born = post[p].born
      /\ r.notified = post[p].notified /\ r.warned = post[p].warned /\ r.runs = runs
  BY <1>1, <1>2 DEF Row, Status
<1>4. post' = [post EXCEPT ![p] = r]
  BY <1>1, <1>2 DEF OpenFor, Row, TypeOK
<1>5. post' \in [Post -> Row] /\ post'[p] = r /\ Others(p)
  BY <1>3, <1>4, RowSet
<1> QED
  BY <1>3, <1>5

\* The number of posts written so far.
LEMMA WrittenType ==
  /\ Written \in Nat /\ Written <= Cardinality(Post)
  /\ IsFiniteSet({p \in Post : Exists(p)})
<1>1. {p \in Post : Exists(p)} \in SUBSET Post
  OBVIOUS
<1> QED
  BY <1>1, Constants, FS_Subset, FS_CardinalityType DEF Written

\* A new post.
LEMMA Inserted ==
  ASSUME TypeOK, NEW p \in Post, NEW to \in Status, InsertPost(p, to)
  PROVE  /\ post' \in [Post -> Row] /\ post'[p].status = to /\ Others(p)
         /\ post'[p].born = Written + 1 /\ post'[p].notified = post[p].notified
         /\ post'[p].warned = post[p].warned /\ post'[p].runs = 1
<1>1. PICK r : r = [post[p] EXCEPT !.status = to, !.end = now + Duration,
                                   !.born = Written + 1, !.runs = 1]
  OBVIOUS
<1>2. post[p] \in Row /\ now + Duration \in 0 .. MaxTime + Duration /\ Written + 1 \in Nat
      /\ 1 \in 0 .. MaxRuns
  BY Numbers, WrittenType DEF TypeOK, Time
<1>3. r \in Row /\ r.status = to /\ r.born = Written + 1
      /\ r.notified = post[p].notified /\ r.warned = post[p].warned /\ r.runs = 1
  BY <1>1, <1>2 DEF Row
<1>4. post' = [post EXCEPT ![p] = r]
  BY <1>1 DEF InsertPost
<1>5. post' \in [Post -> Row] /\ post'[p] = r /\ Others(p)
  BY <1>3, <1>4, RowSet
<1> QED
  BY <1>3, <1>5

\* A mark on a post: one field of one row.
LEMMA MarkSet ==
  ASSUME TypeOK, NEW p \in Post, NEW kind \in Kind, post' = Marked(p, kind)
  PROVE  /\ post' \in [Post -> Row] /\ Others(p)
         /\ post'[p].status = post[p].status /\ post'[p].end = post[p].end
         /\ post'[p].born = post[p].born /\ post'[p].runs = post[p].runs
         /\ post'[p].notified = (post[p].notified \/ kind = "new")
         /\ post'[p].warned = (post[p].warned \/ kind = "choose")
         /\ post'[p].motivated = IF kind = "ending" THEN now ELSE post[p].motivated
<1>1. post[p] \in Row /\ now \in Time /\ post = [q \in Post |-> post[q]]
  BY DEF TypeOK
<1>2. PICK r : r = CASE kind = "new"    -> [post[p] EXCEPT !.notified = TRUE]
                     [] kind = "choose" -> [post[p] EXCEPT !.warned = TRUE]
                     [] kind = "ending" -> [post[p] EXCEPT !.motivated = now]
  OBVIOUS
<1>3. post' = [post EXCEPT ![p] = r]
  BY <1>2 DEF Marked
<1>4. CASE kind = "new"
  <2>1. r = [post[p] EXCEPT !.notified = TRUE]
    BY <1>2, <1>4
  <2>2. r \in Row /\ r.status = post[p].status /\ r.end = post[p].end
        /\ r.born = post[p].born /\ r.runs = post[p].runs
        /\ r.notified = TRUE /\ r.warned = post[p].warned /\ r.motivated = post[p].motivated
    BY <1>1, <2>1 DEF Row
  <2>3. post' \in [Post -> Row] /\ post'[p] = r /\ Others(p)
    BY <2>2, <1>3, RowSet
  <2>4. post[p].warned \in BOOLEAN
    BY <1>1 DEF Row
  <2> QED
    BY <1>4, <2>2, <2>3, <2>4
<1>5. CASE kind = "choose"
  <2>1. r = [post[p] EXCEPT !.warned = TRUE]
    BY <1>2, <1>5
  <2>2. r \in Row /\ r.status = post[p].status /\ r.end = post[p].end
        /\ r.born = post[p].born /\ r.runs = post[p].runs
        /\ r.notified = post[p].notified /\ r.warned = TRUE /\ r.motivated = post[p].motivated
    BY <1>1, <2>1 DEF Row
  <2>3. post' \in [Post -> Row] /\ post'[p] = r /\ Others(p)
    BY <2>2, <1>3, RowSet
  <2>4. post[p].notified \in BOOLEAN
    BY <1>1 DEF Row
  <2> QED
    BY <1>5, <2>2, <2>3, <2>4
<1>6. CASE kind = "ending"
  <2>1. r = [post[p] EXCEPT !.motivated = now]
    BY <1>2, <1>6
  <2>2. r \in Row /\ r.status = post[p].status /\ r.end = post[p].end
        /\ r.born = post[p].born /\ r.runs = post[p].runs
        /\ r.notified = post[p].notified /\ r.warned = post[p].warned /\ r.motivated = now
    BY <1>1, <2>1 DEF Row
  <2>3. post' \in [Post -> Row] /\ post'[p] = r /\ Others(p)
    BY <2>2, <1>3, RowSet
  <2>4. post[p].notified \in BOOLEAN /\ post[p].warned \in BOOLEAN
    BY <1>1 DEF Row
  <2> QED
    BY <1>6, <2>2, <2>3, <2>4
<1> QED
  BY <1>4, <1>5, <1>6 DEF Kind

-----------------------------------------------------------------------------
(* What leaves the conjuncts of the invariant alone.                        *)

\* The decisions about posts that are already there.
Steady == \A p \in Post : (Exists(p)' <=> Exists(p)) /\ Alike(p)

\* A step that leaves the posts alone is steady.
LEMMA SteadyPosts == ASSUME post' = post PROVE Steady
BY DEF Steady, Alike, Exists

\* A status change of a post that is there and stays there is steady.
LEMMA SteadyReach ==
  ASSUME TypeOK, NEW p \in Post, NEW to \in Status \ {"none"}, Exists(p), Reach(p, to)
  PROVE  Steady
<1>1. post'[p].status = to /\ Alike(p) /\ Others(p)
  BY Reached
<1> QED
  BY <1>1 DEF Others, Exists, Steady, Alike

\* The number of posts written does not change.
LEMMA SteadyWritten == ASSUME Steady PROVE Written' = Written
<1>1. {p \in Post : Exists(p)'} = {p \in Post : Exists(p)}
  BY DEF Steady
<1> QED
  BY <1>1 DEF Written

\* Nor does the order in which they were written.
LEMMA BornFrame == ASSUME BornInOrder, Steady PROVE BornInOrder'
BY SteadyWritten DEF Steady, Alike, BornInOrder

\* Posts are only added; what the cron holds is read or used up.
LEMMA OnlyWrittenFrame ==
  ASSUME TypeOK, OnlyWritten, told' = told, cron'.batch = None \/ cron'.batch \subseteq cron.batch,
         cron'.batch # None => cron.batch # None,
         \A p \in Post : Exists(p) => Exists(p)',
         \A p \in Post : ~Exists(p)' => post'[p].runs = post[p].runs
  PROVE  OnlyWritten'
<1>1. \A p \in Post : ~Exists(p)' => ~Exists(p)
  OBVIOUS
<1>2. cron.batch # None => cron.batch \subseteq Post
  BY DEF TypeOK
<1>3. cron'.batch # None => \A p \in cron'.batch : p \in Post /\ Exists(p)
  BY <1>2 DEF OnlyWritten
<1> QED
  BY <1>1, <1>3 DEF OnlyWritten

\* Nothing under way changed.
LEMMA WorkFrame ==
  ASSUME WorkConsistent, UNCHANGED <<work, cron>>, \A p \in Post : Exists(p) => Exists(p)',
         TypeOK
  PROVE  WorkConsistent'
<1>1. work["cron"] # None => work["cron"].post \in Post
  BY DEF TypeOK, Worker, Broadcast
<1> QED
  BY <1>1 DEF WorkConsistent

\* The demo posters' table.
LEMMA DemoFrame ==
  ASSUME DemoRemembered, DemoBounded, UNCHANGED <<quota, demo, now>>
  PROVE  DemoRemembered' /\ DemoBounded'
BY DEF DemoRemembered, DemoBounded

\* What the bound on new posts adds up.
NewWeight(p, m) ==
  told[<<p, m, "new">>] + One(Ahead(p, m, "new")) + One(FromGoroutine(p, m))

ChooseWeight(p, m) == told[<<p, m, "choose">>] + One(Ahead(p, m, "choose"))

EndingWeight(p, m) ==
  told[<<p, m, "ending">>] + One(Underway(p, m, "ending")) + Later(NextCall(p), post[p].end)

\* A chance counts as one or as nothing.
LEMMA OneType == \A b \in BOOLEAN : One(b) \in {0, 1}
BY DEF One

\* How often a member was told is a number.
LEMMA ToldType ==
  ASSUME TypeOK, NEW p \in Post, NEW m \in Member, NEW kind \in Kind
  PROVE  told[<<p, m, kind>>] \in Nat
BY DEF TypeOK

\* The kinds.
LEMMA Kinds == "new" \in Kind /\ "choose" \in Kind /\ "ending" \in Kind
BY DEF Kind

\* A step on which nobody is told: no new chance, or one more fault that pays
\* for it.
LEMMA NewFrame ==
  ASSUME TypeOK, TypeOK', NewBounded, told' = told, faults' >= faults,
         \A p \in Post, m \in Member :
           /\ FromGoroutine(p, m)' => FromGoroutine(p, m)
           /\ Ahead(p, m, "new")' => Ahead(p, m, "new") \/ faults' > faults
  PROVE  NewBounded'
<1> SUFFICES ASSUME NEW p \in Post, NEW m \in Member
             PROVE  NewWeight(p, m)' <= (IF Owner[p] = SeedUser THEN 1 ELSE 2) + faults'
  BY DEF NewBounded, NewWeight
<1>1. PICK a \in BOOLEAN, b \in BOOLEAN, c \in BOOLEAN, d \in BOOLEAN :
        /\ a = Ahead(p, m, "new") /\ b = FromGoroutine(p, m)
        /\ c = Ahead(p, m, "new")' /\ d = FromGoroutine(p, m)'
  BY DEF Ahead, Underway, FromGoroutine, Sending, Waiting
<1>2. PICK n \in Nat : n = told[<<p, m, "new">>]
  BY ToldType, Kinds
<1>3. NewWeight(p, m) = n + One(a) + One(b) /\ NewWeight(p, m)' = n + One(c) + One(d)
  BY <1>1, <1>2 DEF NewWeight
<1>4. NewWeight(p, m) <= (IF Owner[p] = SeedUser THEN 1 ELSE 2) + faults
  BY DEF NewBounded, NewWeight
<1>5. (d => b) /\ (c => a \/ faults' > faults)
  BY <1>1
<1>6. faults \in Nat /\ faults' \in Nat
  BY Numbers DEF TypeOK
<1> HIDE DEF NewWeight
<1> QED
  BY <1>2, <1>3, <1>4, <1>5, <1>6 DEF One

\* The same for the owner who is to choose.
LEMMA ChooseFrame ==
  ASSUME TypeOK, TypeOK', ChooseBounded, told' = told, faults' >= faults,
         \A p \in Post, m \in Member :
           Ahead(p, m, "choose")' => Ahead(p, m, "choose") \/ faults' > faults
  PROVE  ChooseBounded'
<1> SUFFICES ASSUME NEW p \in Post, NEW m \in Member
             PROVE  ChooseWeight(p, m)' <= 1 + faults'
  BY DEF ChooseBounded, ChooseWeight
<1>1. PICK a \in BOOLEAN, c \in BOOLEAN :
        a = Ahead(p, m, "choose") /\ c = Ahead(p, m, "choose")'
  BY DEF Ahead, Underway, Sending, Waiting
<1>2. PICK n \in Nat : n = told[<<p, m, "choose">>]
  BY ToldType, Kinds
<1>3. ChooseWeight(p, m) = n + One(a) /\ ChooseWeight(p, m)' = n + One(c)
  BY <1>1, <1>2 DEF ChooseWeight
<1>4. ChooseWeight(p, m) <= 1 + faults
  BY DEF ChooseBounded, ChooseWeight
<1>5. c => a \/ faults' > faults
  BY <1>1
<1>6. faults \in Nat /\ faults' \in Nat
  BY Numbers DEF TypeOK
<1> HIDE DEF ChooseWeight
<1> QED
  BY <1>2, <1>3, <1>4, <1>5, <1>6 DEF One

\* The earliest next call is a point in time, now or later.
LEMMA NextCallType ==
  ASSUME TypeOK, NEW p \in Post
  PROVE  NextCall(p) \in Int /\ now <= NextCall(p)
<1>1. now \in Nat /\ post[p].motivated \in Time \cup {None}
  BY Numbers DEF TypeOK, Time, Row
<1>2. post[p].motivated # None => post[p].motivated \in Nat
  BY <1>1, Numbers DEF Time
<1>3. EndingGap \in Nat
  BY Numbers
<1> QED
  BY <1>1, <1>2, <1>3 DEF NextCall

\* See NextCallType.
LEMMA NextCallAfter ==
  ASSUME TypeOK', NEW p \in Post
  PROVE  NextCall(p)' \in Int /\ now' <= NextCall(p)' /\ post'[p].end \in Int
<1>1. now' \in 0 .. MaxTime /\ post'[p] \in Row
  BY DEF TypeOK, Time
<1>2. now' \in Nat /\ post'[p].motivated \in Time \cup {None} /\ post'[p].end \in Nat
  BY <1>1, Numbers DEF Row
<1>3. post'[p].motivated # None => post'[p].motivated \in Nat
  BY <1>2, Numbers DEF Time
<1>4. EndingGap \in Nat
  BY Numbers
<1>5. PICK a \in BOOLEAN : a = (Sending(p, "ending") \/ Waiting(p, "ending"))'
  BY DEF Sending, Waiting
<1>6. PICK x : x = post'[p].motivated
  OBVIOUS
<1>7. PICK t \in Nat : t = now'
  BY <1>2
<1>8. NextCall(p)' = IF a THEN t + EndingGap + 1
                     ELSE IF x # None /\ x + EndingGap >= t THEN x + EndingGap + 1 ELSE t
  BY <1>5, <1>6, <1>7 DEF NextCall
<1>9. CASE a
  BY <1>4, <1>7, <1>8, <1>9, <1>2
<1>10. CASE ~a /\ x # None /\ x + EndingGap >= t
  <2>1. x \in Nat
    BY <1>3, <1>6, <1>10
  <2> QED
    BY <1>4, <1>7, <1>8, <1>10, <1>2, <2>1
<1>11. CASE ~a /\ ~ (x # None /\ x + EndingGap >= t)
  BY <1>7, <1>8, <1>11, <1>2
<1> QED
  BY <1>9, <1>10, <1>11

\* A deadline is a point in time.
LEMMA PostTypes ==
  ASSUME TypeOK, NEW p \in Post
  PROVE  /\ post[p].end \in Nat /\ post[p].runs \in Nat /\ post[p].notified \in BOOLEAN
         /\ post[p].warned \in BOOLEAN /\ post[p].motivated \in Time \cup {None}
         /\ post[p].status \in Status /\ now \in Nat /\ faults \in Nat /\ post[p].born \in Nat
BY Numbers DEF TypeOK, Time, Row

\* The same for the calls to a post about to end: the time until the next one
\* is not shortened, or a fault pays for one more.
LEMMA EndingFrame ==
  ASSUME TypeOK, TypeOK', EndingBounded, told' = told, faults' >= faults,
         \A p \in Post : Exists(p)' =>
           /\ Exists(p) /\ post'[p].end = post[p].end /\ post'[p].runs = post[p].runs
           /\ \/ NextCall(p)' >= NextCall(p)
              \/ faults' > faults /\ NextCall(p)' + EndingGap + 1 >= NextCall(p)
           /\ \A m \in Member : Underway(p, m, "ending")' => Underway(p, m, "ending")
  PROVE  EndingBounded'
<1> SUFFICES ASSUME NEW p \in Post, NEW m \in Member, Exists(p)'
             PROVE  EndingWeight(p, m)' <= post'[p].runs * MaxCalls + faults'
  BY DEF EndingBounded, EndingWeight
<1>1. PICK a \in BOOLEAN, c \in BOOLEAN :
        a = Underway(p, m, "ending") /\ c = Underway(p, m, "ending")'
  BY DEF Underway, Sending, Waiting
<1>2. PICK n \in Nat : n = told[<<p, m, "ending">>]
  BY ToldType, Kinds
<1>3. PICK s \in Int, t \in Int, end \in Int :
        s = NextCall(p) /\ t = NextCall(p)' /\ end = post[p].end
  <2>1. NextCall(p)' \in Int
    BY NextCallAfter
  <2>2. post[p].end \in Int
    BY PostTypes
  <2> QED
    BY <2>1, <2>2, NextCallType
<1>4. PICK x \in Nat, y \in Nat : x = Later(s, end) /\ y = Later(t, end)
  BY LaterType
<1>5. post'[p].end = end /\ Exists(p) /\ post'[p].runs = post[p].runs
  BY <1>3
<1>6. EndingWeight(p, m) = n + One(a) + x /\ EndingWeight(p, m)' = n + One(c) + y
  <2>1. Later(NextCall(p), post[p].end)' = Later(t, end)
    BY <1>3, <1>5 DEF Later, Room
  <2> QED
    BY <1>1, <1>2, <1>3, <1>4, <2>1 DEF EndingWeight
<1>7. EndingWeight(p, m) <= post[p].runs * MaxCalls + faults
  BY <1>5 DEF EndingBounded, EndingWeight
<1>8. y <= x \/ (faults' > faults /\ y <= x + 1)
  <2>1. CASE t >= s
    BY <1>4, <2>1, LaterShrinks
  <2>2. CASE faults' > faults /\ t + EndingGap + 1 >= s
    <3>1. y <= 1 + Later(t + EndingGap + 1, end)
      BY <1>4, LaterStep
    <3>2. t + EndingGap + 1 \in Int
      BY Numbers
    <3>3. Later(t + EndingGap + 1, end) <= x
      BY <1>4, <2>2, <3>2, LaterShrinks
    <3>4. Later(t + EndingGap + 1, end) \in Nat
      BY <3>2, LaterType
    <3> QED
      BY <2>2, <3>1, <3>3, <3>4
  <2> QED
    BY <1>3, <1>5, <2>1, <2>2
<1>9. c => a
  BY <1>1
<1>10. faults \in Nat /\ faults' \in Nat /\ post[p].runs * MaxCalls \in Int
  <2>1. MaxCalls \in Nat
    BY LaterMost, <1>3
  <2>2. faults' \in Nat
    BY Numbers DEF TypeOK
  <2> QED
    BY <2>1, <2>2, PostTypes
<1>11. PICK k \in Int : k = post[p].runs * MaxCalls
  BY <1>10
<1> HIDE DEF EndingWeight
<1> QED
  BY <1>2, <1>4, <1>5, <1>6, <1>7, <1>8, <1>9, <1>10, <1>11 DEF One

-----------------------------------------------------------------------------
(* Steps of the market and of the moderators.                               *)

\* The variables that no notice touches but the clock and the posts.
Books == <<quota, cron, work, told, demo, faults>>

\* What the cron holds depends on its own variables only.
LEMMA SameCron ==
  ASSUME UNCHANGED <<cron, work>>
  PROVE  \A p, m, kind : /\ Sending(p, kind)' = Sending(p, kind)
                         /\ Waiting(p, kind)' = Waiting(p, kind)
                         /\ Underway(p, m, kind)' = Underway(p, m, kind)
BY DEF Sending, Waiting, Underway

\* A step that decides about posts, or about nothing, keeps the invariant.
LEMMA SteadyStep ==
  ASSUME Counted, TypeOK', Steady, UNCHANGED <<Books, now>>
  PROVE  Counted'
<1>1. UNCHANGED <<now, quota, cron, work, told, demo, faults>>
  BY DEF Books
<1>2. \A p \in Post : (Exists(p)' <=> Exists(p)) /\ Alike(p)
  BY DEF Steady
<1>3. TypeOK /\ OnlyWritten /\ WorkConsistent /\ BornInOrder
      /\ NewBounded /\ ChooseBounded /\ EndingBounded /\ DemoRemembered /\ DemoBounded
  BY DEF Counted
<1>4. OnlyWritten'
  BY <1>1, <1>2, <1>3, OnlyWrittenFrame DEF Alike
<1>5. WorkConsistent'
  BY <1>1, <1>2, <1>3, WorkFrame
<1>6. BornInOrder'
  BY <1>3, BornFrame
<1>7. DemoRemembered' /\ DemoBounded'
  BY <1>1, <1>3, DemoFrame
<1>8. \A p \in Post, m \in Member, kind \in Kind : Ahead(p, m, kind)' = Ahead(p, m, kind)
  <2>1. \A p \in Post, kind \in Kind : Flagged(p, kind)' = Flagged(p, kind)
    BY <1>2 DEF Flagged, Alike
  <2> QED
    BY <1>1, <2>1, SameCron DEF Ahead
<1>9. \A p \in Post, m \in Member : FromGoroutine(p, m)' = FromGoroutine(p, m)
  BY <1>1, <1>2 DEF FromGoroutine
<1>10. faults' >= faults
  BY <1>1, <1>3, Numbers DEF TypeOK
<1>11. NewBounded'
  BY <1>1, <1>3, <1>8, <1>9, <1>10, Kinds, NewFrame
<1>12. ChooseBounded'
  BY <1>1, <1>3, <1>8, <1>10, Kinds, ChooseFrame
<1>13. EndingBounded'
  <2>1. \A p \in Post : NextCall(p)' = NextCall(p)
    BY <1>1, <1>2, SameCron DEF NextCall, Alike
  <2>2. \A p \in Post : NextCall(p) \in Int
    BY <1>3, NextCallType
  <2>3. \A p \in Post : NextCall(p)' >= NextCall(p)
    BY <2>1, <2>2
  <2> QED
    BY <1>1, <1>2, <1>3, <1>10, <2>3, SameCron, EndingFrame DEF Alike
<1> QED
  BY <1>4, <1>5, <1>6, <1>7, <1>11, <1>12, <1>13 DEF Counted

\* A status change of a post that is there keeps the invariant.
LEMMA ReachStep ==
  ASSUME Counted, NEW p \in Post, NEW to \in Status \ {"none"}, Exists(p), Reach(p, to),
         UNCHANGED <<user, now, Unsent>>
  PROVE  Counted'
<1>1. TypeOK
  BY DEF Counted
<1>2. Steady
  BY <1>1, SteadyReach
<1>3. post' \in [Post -> Row]
  BY <1>1, Reached
<1>4. TypeOK'
  BY <1>1, <1>3 DEF TypeOK, Unsent
<1> QED
  BY <1>2, <1>4, SteadyStep DEF Unsent, Books

\* A member comes or goes, or turns to other interests.
LEMMA BecomesStep ==
  ASSUME Counted, NEW m \in Member,
         NEW row \in [status : {"active", "suspended", "banned"}, interests : Picks], Becomes(m, row)
  PROVE  Counted'
<1>1. TypeOK
  BY DEF Counted
<1>2. UNCHANGED <<post, now, quota, seed, cron, work, told, demo, mistaken, faults>>
  BY DEF Becomes
<1>3. Steady
  BY <1>2, SteadyPosts
<1>4. user' \in [Member -> [status : {"active", "suspended", "banned"}, interests : Picks]]
  BY <1>1 DEF TypeOK, Becomes
<1>5. missed' \subseteq Post \X Member
  BY <1>1 DEF TypeOK, Becomes
<1>6. TypeOK'
  BY <1>1, <1>2, <1>4, <1>5 DEF TypeOK
<1> QED
  BY <1>2, <1>3, <1>6, SteadyStep DEF Books

\* A suspension, its end, and a choice of interests.
LEMMA UserStep ==
  ASSUME Counted, NEW m \in Member, SuspendUser(m) \/ UnsuspendUser(m) \/ ReplaceUserInterests(m)
  PROVE  Counted'
<1>1. user[m] \in [status : {"active", "suspended", "banned"}, interests : Picks]
  BY DEF Counted, TypeOK
<1>2. PICK row \in [status : {"active", "suspended", "banned"}, interests : Picks] : Becomes(m, row)
  BY <1>1 DEF SuspendUser, UnsuspendUser, ReplaceUserInterests
<1> QED
  BY <1>2, BecomesStep

\* What the market decides.
LEMMA DecideStep ==
  ASSUME Counted, NEW p \in Post, Decide(p)
  PROVE  Counted'
<1>1. PICK to \in Status \ {"none"} : Exists(p) /\ Reach(p, to)
  BY DEF Decide, Exists, Status
<1>2. UNCHANGED <<user, now, Unsent>>
  BY DEF Decide
<1> QED
  BY <1>1, <1>2, ReachStep

\* A new deadline for a post that is there: as many calls again, no less.
LEMMA OpenForStep ==
  ASSUME Counted, NEW p \in Post, Exists(p), post[p].runs < MaxRuns,
         OpenFor(p, post[p].runs + 1), UNCHANGED <<user, now, Unsent>>
  PROVE  Counted'
<1>1. UNCHANGED <<now, quota, cron, work, told, demo, faults, mistaken, missed, seed, user>>
  BY DEF Unsent
<1>2. TypeOK /\ OnlyWritten /\ WorkConsistent /\ BornInOrder
      /\ NewBounded /\ ChooseBounded /\ EndingBounded /\ DemoRemembered /\ DemoBounded
  BY DEF Counted
<1>3. post[p].runs \in Nat /\ post[p].runs + 1 \in 0 .. MaxRuns
  BY <1>2, PostTypes, Numbers
<1>4. /\ post' \in [Post -> Row] /\ post'[p].status = "active" /\ Others(p)
      /\ post'[p].born = post[p].born /\ post'[p].notified = post[p].notified
      /\ post'[p].warned = post[p].warned /\ post'[p].runs = post[p].runs + 1
  BY <1>2, <1>3, Opened
<1>5. TypeOK'
  BY <1>1, <1>2, <1>4 DEF TypeOK
<1>6. \A q \in Post : /\ (Exists(q)' <=> Exists(q)) /\ post'[q].born = post[q].born
                      /\ post'[q].notified = post[q].notified /\ post'[q].warned = post[q].warned
                      /\ ~Exists(q)' => post'[q].runs = post[q].runs
  BY <1>4 DEF Others, Exists
<1>7. Written' = Written
  <2>1. {q \in Post : Exists(q)'} = {q \in Post : Exists(q)}
    BY <1>6
  <2> QED
    BY <2>1 DEF Written
<1>8. BornInOrder'
  BY <1>2, <1>6, <1>7 DEF BornInOrder
<1>9. OnlyWritten'
  BY <1>1, <1>2, <1>6, OnlyWrittenFrame
<1>10. WorkConsistent'
  BY <1>1, <1>2, <1>6, WorkFrame
<1>11. DemoRemembered' /\ DemoBounded'
  BY <1>1, <1>2, DemoFrame
<1>12. \A q \in Post, m \in Member, kind \in Kind : Ahead(q, m, kind)' = Ahead(q, m, kind)
  <2>1. \A q \in Post, kind \in Kind : Flagged(q, kind)' = Flagged(q, kind)
    BY <1>6 DEF Flagged
  <2> QED
    BY <1>1, <2>1, SameCron DEF Ahead
<1>13. \A q \in Post, m \in Member : FromGoroutine(q, m)' = FromGoroutine(q, m)
  BY <1>1, <1>6 DEF FromGoroutine
<1>14. faults' >= faults /\ faults \in Nat /\ faults' = faults
  BY <1>1, <1>2, Numbers DEF TypeOK
<1>15. NewBounded'
  BY <1>1, <1>2, <1>5, <1>12, <1>13, <1>14, Kinds, NewFrame
<1>16. ChooseBounded'
  BY <1>1, <1>2, <1>5, <1>12, <1>14, Kinds, ChooseFrame
<1>17. EndingBounded'
  <2> SUFFICES ASSUME NEW q \in Post, NEW m \in Member, Exists(q)'
               PROVE  EndingWeight(q, m)' <= post'[q].runs * MaxCalls + faults'
    BY DEF EndingBounded, EndingWeight
  <2>1. EndingWeight(q, m) <= post[q].runs * MaxCalls + faults
    BY <1>2, <1>6 DEF EndingBounded, EndingWeight
  <2>2. CASE q # p
    <3>1. post'[q] = post[q]
      BY <1>4, <2>2 DEF Others
    <3>2. EndingWeight(q, m)' = EndingWeight(q, m)
      BY <1>1, <3>1, SameCron DEF EndingWeight, NextCall
    <3> QED
      BY <1>1, <2>1, <3>1, <3>2
  <2>3. CASE q = p
    <3>1. PICK n \in Nat, a \in {0, 1} :
            n = told[<<q, m, "ending">>] /\ a = One(Underway(q, m, "ending"))
      BY <1>2, ToldType, Kinds, OneType DEF Underway, Sending, Waiting
    <3>2. One(Underway(q, m, "ending"))' = a /\ told'[<<q, m, "ending">>] = n
      BY <1>1, <3>1, SameCron DEF One
    <3>3. NextCall(q) \in Int /\ post[q].end \in Int /\ NextCall(q)' \in Int /\ post'[q].end \in Int
      BY <1>2, <1>5, NextCallAfter, NextCallType, PostTypes
    <3>4. PICK x \in Nat, y \in Nat :
            x = Later(NextCall(q), post[q].end) /\ y = Later(NextCall(q)', post'[q].end)
      BY <3>3, LaterType
    <3>5. y <= MaxCalls /\ MaxCalls \in Nat
      BY <3>3, <3>4, LaterMost
    <3>6. EndingWeight(q, m) = n + a + x
      BY <3>1, <3>4 DEF EndingWeight
    <3>7. EndingWeight(q, m)' = n + a + y
      <4>1. Later(NextCall(q), post[q].end)' = y
        BY <3>4 DEF Later, Room
      <4> QED
        BY <3>2, <4>1 DEF EndingWeight
    <3>8. post'[q].runs * MaxCalls = post[q].runs * MaxCalls + MaxCalls
          /\ post[q].runs * MaxCalls \in Nat
      BY <1>3, <1>4, <2>3, <3>5
    <3> HIDE DEF EndingWeight
    <3> QED
      BY <1>14, <2>1, <3>1, <3>4, <3>5, <3>6, <3>7, <3>8
  <2> QED
    BY <2>2, <2>3
<1> QED
  BY <1>5, <1>8, <1>9, <1>10, <1>11, <1>15, <1>16, <1>17 DEF Counted

\* What a moderator does.
LEMMA ModerateStep ==
  ASSUME Counted, NEW p \in Post, Moderate(p)
  PROVE  Counted'
<1>1. UNCHANGED <<user, now, Unsent>>
  BY DEF Moderate
<1>2. CASE post[p].status \in {"pending_approval", "suspended"} /\ post[p].runs < MaxRuns
           /\ OpenFor(p, post[p].runs + 1)
  <2>1. Exists(p)
    BY <1>2 DEF Exists
  <2> QED
    BY <1>1, <1>2, <2>1, OpenForStep
<1>3. CASE post[p].status = "pending_approval" /\ Reach(p, "rejected")
  BY <1>1, <1>3, ReachStep DEF Exists, Status
<1>4. CASE post[p].status = "active" /\ Reach(p, "suspended")
  BY <1>1, <1>4, ReachStep DEF Exists, Status
<1> QED
  BY <1>2, <1>3, <1>4 DEF Moderate

-----------------------------------------------------------------------------
(* New posts.                                                               *)

\* Nothing is sent about a post that was never written.
LEMMA NothingUnderway ==
  ASSUME Counted, NEW p \in Post, ~Exists(p), NEW m \in Member, NEW kind \in Kind
  PROVE  ~Sending(p, kind) /\ ~Waiting(p, kind) /\ ~Underway(p, m, kind) /\ work[p] = None
BY DEF Counted, OnlyWritten, WorkConsistent, Sending, Waiting, Underway

\* Posts are numbered as they come.
LEMMA InsertOrder ==
  ASSUME TypeOK, BornInOrder, NEW p \in Post, ~Exists(p),
         post' \in [Post -> Row], Others(p), Exists(p)', post'[p].born = Written + 1
  PROVE  BornInOrder'
<1>1. PICK S, T : S = {q \in Post : Exists(q)} /\ T = {q \in Post : Exists(q)'}
  OBVIOUS
<1>2. \A q \in Post : q # p => Exists(q)' = Exists(q) /\ post'[q].born = post[q].born
  BY DEF Others, Exists
<1>3. T = S \cup {p} /\ p \notin S
  BY <1>1, <1>2
<1>4. IsFiniteSet(S) /\ Cardinality(S) = Written /\ Cardinality(T) = Written'
  BY <1>1, WrittenType DEF Written
<1>5. Written \in Nat
  BY WrittenType
<1>6. Written' = Written + 1
  BY <1>3, <1>4, FS_AddElement
<1>7. ASSUME NEW q \in Post, Exists(q)'
      PROVE  post'[q].born \in 1 .. Written' /\ (q # p => post'[q].born < post'[p].born)
  <2>1. CASE q = p
    BY <1>5, <1>6, <2>1
  <2>2. CASE q # p
    <3>1. post[q].born \in 1 .. Written
      BY <1>2, <1>7, <2>2 DEF BornInOrder
    <3> QED
      BY <1>2, <1>5, <1>6, <2>2, <3>1
  <2> QED
    BY <2>1, <2>2
<1>8. ASSUME NEW q \in Post, NEW r \in Post, Exists(q)', Exists(r)', q # r
      PROVE  post'[q].born # post'[r].born
  <2>1. CASE q = p
    BY <1>5, <1>6, <1>7, <1>8, <2>1
  <2>2. CASE r = p
    BY <1>5, <1>6, <1>7, <1>8, <2>2
  <2>3. CASE q # p /\ r # p
    BY <1>2, <1>8, <2>3 DEF BornInOrder
  <2> QED
    BY <2>1, <2>2, <2>3
<1> QED
  BY <1>7, <1>8 DEF BornInOrder

\* Writing a post keeps the invariant, whoever writes it.
LEMMA InsertStep ==
  ASSUME Counted, TypeOK', WorkConsistent', NEW p \in Post, ~Exists(p),
         NEW to \in Status \ {"none"}, InsertPost(p, to),
         UNCHANGED <<now, quota, told, demo, faults>>, cron'.batch = cron.batch,
         \A q \in Post, m \in Member : FromGoroutine(q, m)' => FromGoroutine(q, m),
         \A q \in Post, m \in Member, kind \in Kind :
           /\ Sending(q, kind)' = Sending(q, kind) /\ Waiting(q, kind)' = Waiting(q, kind)
           /\ Underway(q, m, kind)' = Underway(q, m, kind)
  PROVE  Counted'
<1>1. TypeOK /\ OnlyWritten /\ WorkConsistent /\ BornInOrder
      /\ NewBounded /\ ChooseBounded /\ EndingBounded /\ DemoRemembered /\ DemoBounded
  BY DEF Counted
<1>2. /\ post' \in [Post -> Row] /\ post'[p].status = to /\ Others(p)
      /\ post'[p].born = Written + 1 /\ post'[p].notified = post[p].notified
      /\ post'[p].warned = post[p].warned /\ post'[p].runs = 1
  BY <1>1, Inserted
<1>3. Exists(p)'
  BY <1>2 DEF Exists
<1>4. \A q \in Post : /\ (Exists(q) => Exists(q)') /\ post'[q].notified = post[q].notified
                      /\ post'[q].warned = post[q].warned
                      /\ (~Exists(q)' => q # p /\ post'[q].runs = post[q].runs)
  BY <1>2, <1>3 DEF Others, Exists
<1>5. BornInOrder'
  BY <1>1, <1>2, <1>3, InsertOrder
<1>6. OnlyWritten'
  BY <1>1, <1>4, OnlyWrittenFrame
<1>7. DemoRemembered' /\ DemoBounded'
  BY <1>1, DemoFrame
<1>8. \A q \in Post, m \in Member, kind \in Kind : Ahead(q, m, kind)' = Ahead(q, m, kind)
  <2>1. \A q \in Post, kind \in Kind : Flagged(q, kind)' = Flagged(q, kind)
    BY <1>4 DEF Flagged
  <2> QED
    BY <2>1 DEF Ahead
<1>9. faults' >= faults /\ faults \in Nat
  BY <1>1, PostTypes
<1>10. NewBounded'
  BY <1>1, <1>8, <1>9, Kinds, NewFrame
<1>11. ChooseBounded'
  BY <1>1, <1>8, <1>9, Kinds, ChooseFrame
<1>12. EndingBounded'
  <2> SUFFICES ASSUME NEW q \in Post, NEW m \in Member, Exists(q)'
               PROVE  EndingWeight(q, m)' <= post'[q].runs * MaxCalls + faults'
    BY DEF EndingBounded, EndingWeight
  <2>1. CASE q # p
    <3>1. post'[q] = post[q]
      BY <1>2, <2>1 DEF Others
    <3>2. EndingWeight(q, m)' = EndingWeight(q, m)
      BY <3>1, Kinds DEF EndingWeight, NextCall
    <3>3. EndingWeight(q, m) <= post[q].runs * MaxCalls + faults
      BY <1>1, <3>1 DEF EndingBounded, EndingWeight, Exists
    <3> QED
      BY <3>1, <3>2, <3>3
  <2>2. CASE q = p
    <3>1. told'[<<q, m, "ending">>] = 0 /\ ~Underway(q, m, "ending")'
      BY <1>1, <2>2, NothingUnderway, Kinds DEF OnlyWritten
    <3>2. NextCall(q)' \in Int /\ post'[q].end \in Int
      BY NextCallAfter
    <3>3. PICK y \in Nat : y = Later(NextCall(q)', post'[q].end)
      BY <3>2, LaterType
    <3>4. y <= MaxCalls /\ MaxCalls \in Nat
      BY <3>2, <3>3, LaterMost
    <3>5. EndingWeight(q, m)' = y
      <4>1. Later(NextCall(q), post[q].end)' = y
        BY <3>3 DEF Later, Room
      <4> QED
        BY <3>1, <3>3, <4>1 DEF EndingWeight, One
    <3>6. post'[q].runs * MaxCalls = MaxCalls
      BY <1>2, <2>2, <3>4
    <3> QED
      BY <1>9, <3>4, <3>5, <3>6
  <2> QED
    BY <2>1, <2>2
<1> QED
  BY <1>5, <1>6, <1>7, <1>10, <1>11, <1>12 DEF Counted

\* Starting, continuing or ending a broadcast.
LEMMA BeginSet ==
  ASSUME TypeOK, NEW w \in Worker, NEW b \in Broadcast \cup {None}, Begin(w, b)
  PROVE  /\ work' \in [Worker -> Broadcast \cup {None}] /\ work'[w] = b
         /\ \A v \in Worker : v # w => work'[v] = work[v]
BY DEF TypeOK, Begin

\* The workers.
LEMMA Workers == "cron" \in Worker /\ \A p \in Post : p \in Worker /\ p # "cron"
BY Constants DEF Worker

\* A member writes a post.
LEMMA CreatePostStep ==
  ASSUME Counted, NEW p \in Post, CreatePost(p)
  PROVE  Counted'
<1>1. TypeOK /\ WorkConsistent
  BY DEF Counted
<1>2. PICK b : b = [post |-> p, kind |-> "new", seed |-> FALSE, left |-> None]
  OBVIOUS
<1>3. b \in Broadcast /\ b.post = p /\ b.kind = "new" /\ b.seed = FALSE /\ b.left = None
      /\ b # None
  <2>1. b \in Broadcast
    BY <1>2, Kinds DEF Broadcast
  <2>2. b # None
    BY <2>1, Constants
  <2> QED
    BY <1>2, <2>1, <2>2
<1>4. Begin(p, b)
  BY <1>2 DEF CreatePost, Begin
<1>5. /\ work' \in [Worker -> Broadcast \cup {None}] /\ work'[p] = b
      /\ \A v \in Worker : v # p => work'[v] = work[v]
  BY <1>1, <1>3, <1>4, BeginSet, Workers
<1>6. PICK to \in Status \ {"none"} : InsertPost(p, to)
  BY DEF CreatePost, Status
<1>7. ~Exists(p) /\ Owner[p] # SeedUser /\ UNCHANGED <<user, now, quota, seed, cron, told, demo, mistaken, missed, faults>>
  BY DEF CreatePost, Exists
<1>8. /\ post' \in [Post -> Row] /\ Others(p) /\ Exists(p)'
  BY <1>1, <1>6, Inserted DEF Exists
<1>9. TypeOK'
  BY <1>1, <1>5, <1>7, <1>8 DEF TypeOK
<1>10. work'["cron"] = work["cron"]
  BY <1>5, Workers
<1>11. \A q \in Post : Exists(q) => Exists(q)'
  BY <1>8 DEF Others, Exists
<1>12. WorkConsistent'
  <2>1. work["cron"] # None => work["cron"].post \in Post
    BY <1>1, Workers DEF TypeOK, Broadcast
  <2>2. \A q \in Post : work'[q] # None =>
          /\ work'[q].post = q /\ work'[q].kind = "new" /\ ~work'[q].seed
          /\ Exists(q)' /\ Owner[q] # SeedUser
    BY <1>1, <1>3, <1>5, <1>7, <1>8, <1>11, Workers DEF WorkConsistent
  <2> QED
    BY <1>1, <1>7, <1>10, <1>11, <2>1, <2>2 DEF WorkConsistent
<1>13. \A q \in Post, m \in Member : FromGoroutine(q, m)' => FromGoroutine(q, m)
  <2> SUFFICES ASSUME NEW q \in Post, NEW m \in Member, FromGoroutine(q, m)'
               PROVE  FromGoroutine(q, m)
    OBVIOUS
  <2>1. CASE q = p
    BY <1>7, <2>1 DEF FromGoroutine
  <2>2. CASE q # p
    <3>1. work'[q] = work[q] /\ (Exists(q)' <=> Exists(q))
      BY <1>5, <1>8, <2>2, Workers DEF Others, Exists
    <3> QED
      BY <3>1 DEF FromGoroutine
  <2> QED
    BY <2>1, <2>2
<1>14. \A q \in Post, m \in Member, kind \in Kind :
           /\ Sending(q, kind)' = Sending(q, kind) /\ Waiting(q, kind)' = Waiting(q, kind)
           /\ Underway(q, m, kind)' = Underway(q, m, kind)
  BY <1>7, <1>10 DEF Sending, Waiting, Underway
<1> QED
  BY <1>6, <1>7, <1>9, <1>12, <1>13, <1>14, InsertStep

\* Time passes.
LEMMA TickStep ==
  ASSUME Counted, Tick
  PROVE  Counted'
<1>1. UNCHANGED <<post, user, quota, seed, cron, work, told, demo, mistaken, missed, faults>>
      /\ now < MaxTime /\ now' = now + 1
  BY DEF Tick, Unsent
<1>2. TypeOK /\ OnlyWritten /\ WorkConsistent /\ BornInOrder
      /\ NewBounded /\ ChooseBounded /\ EndingBounded /\ DemoRemembered /\ DemoBounded
  BY DEF Counted
<1>3. TypeOK'
  <2>1. now \in Time
    BY <1>2 DEF TypeOK
  <2>2. now' \in Time
    BY <1>1, <2>1, Numbers DEF Time
  <2> QED
    BY <1>1, <1>2, <2>2 DEF TypeOK
<1>4. Steady
  BY <1>1, SteadyPosts
<1>5. \A p \in Post : (Exists(p)' <=> Exists(p)) /\ post'[p] = post[p]
  BY <1>1 DEF Exists
<1>6. OnlyWritten'
  BY <1>1, <1>2, <1>5, OnlyWrittenFrame
<1>7. WorkConsistent'
  BY <1>1, <1>2, <1>5, WorkFrame
<1>8. BornInOrder'
  BY <1>2, <1>4, BornFrame
<1>9. DemoBounded'
  BY <1>1, <1>2 DEF DemoBounded
<1>10. DemoRemembered'
  <2> SUFFICES ASSUME NEW m \in Member, quota[m] # None PROVE quota[m].last <= now'
    BY <1>1, <1>2 DEF DemoRemembered
  <2>1. quota[m].last <= now /\ quota[m].last \in Nat /\ now \in Nat
    BY <1>2, Numbers DEF DemoRemembered, TypeOK, QuotaRow, Time
  <2> QED
    BY <1>1, <2>1
<1>11. \A p \in Post, m \in Member, kind \in Kind :
          /\ Ahead(p, m, kind)' = Ahead(p, m, kind)
          /\ FromGoroutine(p, m)' = FromGoroutine(p, m)
          /\ Sending(p, kind)' = Sending(p, kind) /\ Waiting(p, kind)' = Waiting(p, kind)
          /\ Underway(p, m, kind)' = Underway(p, m, kind)
  BY <1>1 DEF Ahead, Underway, Sending, Waiting, FromGoroutine, Flagged, Exists
<1>12. faults' >= faults
  BY <1>1, <1>2, Numbers DEF TypeOK
<1>13. NewBounded'
  BY <1>1, <1>2, <1>3, <1>11, <1>12, Kinds, NewFrame
<1>14. ChooseBounded'
  BY <1>1, <1>2, <1>3, <1>11, <1>12, Kinds, ChooseFrame
<1>15. EndingBounded'
  <2>1. ASSUME NEW p \in Post PROVE NextCall(p)' >= NextCall(p)
    <3>1. now \in Nat /\ EndingGap \in Nat
      BY <1>2, PostTypes, Numbers
    <3>2. PICK a \in BOOLEAN : a = (Sending(p, "ending") \/ Waiting(p, "ending"))
      BY DEF Sending, Waiting
    <3>3. a = (Sending(p, "ending") \/ Waiting(p, "ending"))'
      <4>1. Sending(p, "ending")' = Sending(p, "ending") /\ Waiting(p, "ending")' = Waiting(p, "ending")
        BY <1>1, SameCron
      <4> QED
        BY <3>2, <4>1
    <3>4. PICK x : x = post[p].motivated
      OBVIOUS
    <3>5. x # None => x \in Nat
      BY <1>2, <3>4, PostTypes, Numbers DEF Time
    <3>6. NextCall(p) = IF a THEN now + EndingGap + 1
                        ELSE IF x # None /\ x + EndingGap >= now THEN x + EndingGap + 1 ELSE now
      BY <3>2, <3>4 DEF NextCall
    <3>7. NextCall(p)' = IF a THEN now' + EndingGap + 1
                         ELSE IF x # None /\ x + EndingGap >= now' THEN x + EndingGap + 1 ELSE now'
      BY <1>5, <3>3, <3>4 DEF NextCall
    <3> QED
      BY <1>1, <3>1, <3>5, <3>6, <3>7
  <2> QED
    BY <1>1, <1>2, <1>3, <1>5, <1>11, <1>12, <2>1, Kinds, EndingFrame
<1> QED
  BY <1>3, <1>6, <1>7, <1>8, <1>9, <1>10, <1>13, <1>14, <1>15 DEF Counted

-----------------------------------------------------------------------------
(* Broadcasts: reading the audience, and marking the post.                  *)

\* A broadcast under way, with its fields.
LEMMA WorkTypes ==
  ASSUME TypeOK, NEW w \in Worker, work[w] # None
  PROVE  /\ work[w] \in Broadcast /\ work[w].post \in Post /\ work[w].kind \in Kind
         /\ work[w].seed \in BOOLEAN /\ work[w].left \in (SUBSET Member) \cup {None}
BY DEF TypeOK, Broadcast

\* Another set of members left to tell.
LEMMA LeftSet ==
  ASSUME TypeOK, NEW w \in Worker, work[w] # None, NEW S \in SUBSET Member
  PROVE  \E b \in Broadcast :
           /\ b = [work[w] EXCEPT !.left = S] /\ b # None /\ b.left = S /\ b.left # None
           /\ b.post = work[w].post /\ b.kind = work[w].kind /\ b.seed = work[w].seed
<1>1. PICK b : b = [work[w] EXCEPT !.left = S]
  OBVIOUS
<1>2. b \in Broadcast /\ b.left = S
        /\ b.post = work[w].post /\ b.kind = work[w].kind /\ b.seed = work[w].seed
  BY <1>1, WorkTypes DEF Broadcast
<1>3. b # None /\ S # None
  BY <1>2, Constants
<1> QED
  BY <1>1, <1>2, <1>3

\* A goroutine goes on or gives up, and tells nobody.
LEMMA GoroutineStep ==
  ASSUME Counted, NEW p \in Post, work[p] # None, NEW b \in Broadcast \cup {None}, Begin(p, b),
         b # None => /\ b.post = p /\ b.kind = "new" /\ ~b.seed
                     /\ work[p].left = None /\ b.left # None,
         UNCHANGED <<post, user, now, quota, seed, cron, told, demo, mistaken, missed>>,
         faults' \in {faults, faults + 1}, faults' <= MaxFaults
  PROVE  Counted'
<1>1. TypeOK /\ OnlyWritten /\ WorkConsistent /\ BornInOrder
      /\ NewBounded /\ ChooseBounded /\ EndingBounded /\ DemoRemembered /\ DemoBounded
  BY DEF Counted
<1>2. /\ work' \in [Worker -> Broadcast \cup {None}] /\ work'[p] = b
      /\ \A v \in Worker : v # p => work'[v] = work[v]
  BY <1>1, BeginSet, Workers
<1>3. faults \in Nat /\ faults' >= faults /\ faults' \in 0 .. MaxFaults
  BY <1>1, PostTypes, Numbers
<1>4. TypeOK'
  BY <1>1, <1>2, <1>3 DEF TypeOK
<1>5. work'["cron"] = work["cron"]
  BY <1>2, Workers
<1>6. \A q \in Post : (Exists(q)' <=> Exists(q)) /\ post'[q] = post[q]
  BY DEF Exists
<1>7. OnlyWritten'
  BY <1>1, <1>6, OnlyWrittenFrame
<1>8. BornInOrder'
  BY <1>1, SteadyPosts, BornFrame
<1>9. DemoRemembered' /\ DemoBounded'
  BY <1>1, DemoFrame
<1>10. WorkConsistent'
  <2>1. work["cron"] # None => work["cron"].post \in Post
    BY <1>1, Workers, WorkTypes
  <2>2. \A q \in Post : work'[q] # None =>
          /\ work'[q].post = q /\ work'[q].kind = "new" /\ ~work'[q].seed
          /\ Exists(q)' /\ Owner[q] # SeedUser
    BY <1>1, <1>2, <1>6, Workers DEF WorkConsistent
  <2> QED
    BY <1>1, <1>5, <1>6, <2>1, <2>2 DEF WorkConsistent
<1>11. \A q \in Post, m \in Member : FromGoroutine(q, m)' => FromGoroutine(q, m)
  <2> SUFFICES ASSUME NEW q \in Post, NEW m \in Member, FromGoroutine(q, m)'
               PROVE  FromGoroutine(q, m)
    OBVIOUS
  <2>1. CASE q = p
    BY <1>2, <1>6, <2>1 DEF FromGoroutine
  <2>2. CASE q # p
    BY <1>2, <1>6, <2>2, Workers DEF FromGoroutine
  <2> QED
    BY <2>1, <2>2
<1>12. \A q \in Post, m \in Member, kind \in Kind :
           /\ Sending(q, kind)' = Sending(q, kind) /\ Waiting(q, kind)' = Waiting(q, kind)
           /\ Underway(q, m, kind)' = Underway(q, m, kind)
           /\ Ahead(q, m, kind)' = Ahead(q, m, kind)
  BY <1>5 DEF Sending, Waiting, Underway, Ahead, Flagged
<1>13. NewBounded'
  BY <1>1, <1>3, <1>4, <1>11, <1>12, Kinds, NewFrame
<1>14. ChooseBounded'
  BY <1>1, <1>3, <1>4, <1>12, Kinds, ChooseFrame
<1>15. EndingBounded'
  <2>1. ASSUME NEW q \in Post PROVE NextCall(q)' >= NextCall(q)
    <3>1. Sending(q, "ending")' = Sending(q, "ending") /\ Waiting(q, "ending")' = Waiting(q, "ending")
      BY <1>5 DEF Sending, Waiting
    <3>2. NextCall(q)' = NextCall(q)
      BY <3>1 DEF NextCall
    <3> QED
      BY <1>1, <3>2, NextCallType
  <2> QED
    BY <1>1, <1>3, <1>4, <1>6, <1>12, <2>1, Kinds, EndingFrame
<1> QED
  BY <1>4, <1>7, <1>8, <1>9, <1>10, <1>13, <1>14, <1>15 DEF Counted

\* A goroutine reads the audience.
LEMMA ReadAudienceStep ==
  ASSUME Counted, NEW p \in Post, ReadAudience(p)
  PROVE  Counted'
<1>1. TypeOK /\ WorkConsistent
  BY DEF Counted
<1>2. /\ work[p] # None /\ work[p].left = None
      /\ UNCHANGED <<post, user, now, quota, seed, cron, told, demo, mistaken, missed>>
  BY DEF ReadAudience
<1>3. CASE Begin(p, [work[p] EXCEPT !.left = Audience(p)]) /\ UNCHANGED faults
  <2>1. Audience(p) \in SUBSET Member
    BY DEF Audience
  <2>2. PICK b \in Broadcast :
           /\ b = [work[p] EXCEPT !.left = Audience(p)] /\ b.left # None
           /\ b.post = work[p].post /\ b.kind = work[p].kind /\ b.seed = work[p].seed
    BY <1>1, <1>2, <2>1, LeftSet, Workers
  <2>3. Begin(p, b)
    BY <1>3, <2>2
  <2>4. b.post = p /\ b.kind = "new" /\ ~b.seed
    BY <1>1, <1>2, <2>2 DEF WorkConsistent
  <2>5. faults' = faults /\ faults' <= MaxFaults
    BY <1>1, <1>3, Numbers DEF TypeOK
  <2> QED
    BY <1>2, <2>2, <2>3, <2>4, <2>5, GoroutineStep
<1>4. CASE Fault /\ Begin(p, None)
  <2>1. faults' = faults + 1 /\ faults' <= MaxFaults
    BY <1>1, <1>4, Numbers DEF Fault, TypeOK
  <2> QED
    BY <1>2, <1>4, <2>1, GoroutineStep
<1> QED
  BY <1>3, <1>4 DEF ReadAudience

\* Posts that stay what they are are in the order they were in.
LEMMA BornKept ==
  ASSUME BornInOrder,
         \A p \in Post : (Exists(p)' <=> Exists(p)) /\ post'[p].born = post[p].born
  PROVE  BornInOrder'
<1>1. {p \in Post : Exists(p)'} = {p \in Post : Exists(p)}
  OBVIOUS
<1>2. Written' = Written
  BY <1>1 DEF Written
<1> QED
  BY <1>2 DEF BornInOrder

\* What a mark, or a failed one, does to the posts.
MarkDone(p, kind) ==
  /\ post' \in [Post -> Row]
  /\ \A q \in Post : /\ post'[q].status = post[q].status /\ post'[q].end = post[q].end
                     /\ post'[q].born = post[q].born /\ post'[q].runs = post[q].runs
                     /\ (post[q].notified => post'[q].notified)
                     /\ (post[q].warned => post'[q].warned)
                     /\ (q # p \/ kind # "ending" => post'[q].motivated = post[q].motivated)
  /\ \/ faults' > faults
     \/ /\ kind = "new" => post'[p].notified
        /\ kind = "choose" => post'[p].warned
        /\ kind = "ending" => post'[p].motivated = now

\* See MarkDone.
LEMMA MarkEffect ==
  ASSUME TypeOK, NEW p \in Post, NEW kind \in Kind,
         \/ post' = Marked(p, kind) /\ UNCHANGED faults
         \/ Fault /\ UNCHANGED post
  PROVE  /\ MarkDone(p, kind) /\ faults' >= faults /\ faults' \in 0 .. MaxFaults
<1>1. faults \in 0 .. MaxFaults /\ post \in [Post -> Row] /\ MaxFaults \in Nat
  BY Numbers DEF TypeOK
<1>2. CASE post' = Marked(p, kind) /\ UNCHANGED faults
  <2>1. /\ post' \in [Post -> Row] /\ Others(p)
         /\ post'[p].status = post[p].status /\ post'[p].end = post[p].end
         /\ post'[p].born = post[p].born /\ post'[p].runs = post[p].runs
         /\ post'[p].notified = (post[p].notified \/ kind = "new")
         /\ post'[p].warned = (post[p].warned \/ kind = "choose")
         /\ post'[p].motivated = IF kind = "ending" THEN now ELSE post[p].motivated
    BY <1>2, MarkSet
  <2>2. MarkDone(p, kind)
    BY <2>1 DEF MarkDone, Others
  <2> QED
    BY <1>1, <1>2, <2>2
<1>3. CASE Fault /\ UNCHANGED post
  <2>1. faults' = faults + 1 /\ faults < MaxFaults
    BY <1>3 DEF Fault
  <2>2. faults' > faults /\ faults' \in 0 .. MaxFaults
    BY <1>1, <2>1
  <2>3. MarkDone(p, kind)
    BY <1>1, <1>3, <2>2 DEF MarkDone
  <2> QED
    BY <1>1, <2>2, <2>3
<1> QED
  BY <1>2, <1>3

\* A broadcast ends: the post is marked, or a fault pays for its next one.
LEMMA MarkStep ==
  ASSUME Counted, NEW w \in Worker, Mark(w)
  PROVE  Counted'
<1>1. TypeOK /\ OnlyWritten /\ WorkConsistent /\ BornInOrder
      /\ NewBounded /\ ChooseBounded /\ EndingBounded /\ DemoRemembered /\ DemoBounded
  BY DEF Counted
<1>2. /\ work[w] # None /\ work[w].left = {} /\ Begin(w, None)
      /\ UNCHANGED <<user, now, quota, seed, cron, told, demo, mistaken, missed>>
  BY DEF Mark
<1>3. PICK p \in Post, kind \in Kind : p = work[w].post /\ kind = work[w].kind
  BY <1>1, <1>2, WorkTypes
<1>4. MarkDone(p, kind) /\ faults' >= faults /\ faults' \in 0 .. MaxFaults
  <2>1. \/ post' = Marked(p, kind) /\ UNCHANGED faults
        \/ Fault /\ UNCHANGED post
    BY <1>3 DEF Mark
  <2> QED
    BY <1>1, <2>1, MarkEffect
<1>5. /\ work' \in [Worker -> Broadcast \cup {None}] /\ work'[w] = None
      /\ \A v \in Worker : v # w => work'[v] = work[v]
  BY <1>1, <1>2, BeginSet
<1>6. TypeOK'
  BY <1>1, <1>2, <1>4, <1>5 DEF TypeOK, MarkDone
<1>7. \A q \in Post : /\ (Exists(q)' <=> Exists(q)) /\ post'[q].born = post[q].born
                      /\ post'[q].end = post[q].end /\ post'[q].runs = post[q].runs
  BY <1>4 DEF MarkDone, Exists
<1>8. \A q \in Post, k \in Kind : Flagged(q, k) => Flagged(q, k)'
  BY <1>4 DEF MarkDone, Flagged
<1>9. OnlyWritten'
  BY <1>1, <1>2, <1>7, OnlyWrittenFrame
<1>10. BornInOrder'
  BY <1>1, <1>7, BornKept
<1>11. DemoRemembered' /\ DemoBounded'
  BY <1>1, <1>2, DemoFrame
<1>12. \A v \in Worker : work'[v] = None \/ work'[v] = work[v]
  BY <1>5
<1>13. WorkConsistent'
  <2>1. work["cron"] # None => work["cron"].post \in Post
    BY <1>1, Workers, WorkTypes
  <2>2. \A q \in Post : work'[q] # None =>
          /\ work'[q].post = q /\ work'[q].kind = "new" /\ ~work'[q].seed
          /\ Exists(q)' /\ Owner[q] # SeedUser
    BY <1>1, <1>7, <1>12, Workers DEF WorkConsistent
  <2>3. work'["cron"] = None \/ work'["cron"] = work["cron"]
    BY <1>12, Workers
  <2> QED
    BY <1>1, <1>2, <1>7, <2>1, <2>2, <2>3 DEF WorkConsistent
<1>14. \A q \in Post, m \in Member : FromGoroutine(q, m)' => FromGoroutine(q, m)
  <2> SUFFICES ASSUME NEW q \in Post, NEW m \in Member, FromGoroutine(q, m)'
               PROVE  FromGoroutine(q, m)
    OBVIOUS
  <2>1. work'[q] = None \/ work'[q] = work[q]
    BY <1>12, Workers
  <2> QED
    BY <1>7, <2>1 DEF FromGoroutine
<1>15. \A q \in Post, k \in Kind :
          /\ Waiting(q, k)' = Waiting(q, k) /\ (Sending(q, k)' => Sending(q, k))
          /\ \A m \in Member : Underway(q, m, k)' => Underway(q, m, k)
          /\ Sending(q, k) => Sending(q, k)' \/ (w = "cron" /\ q = p /\ k = kind)
  <2>1. work'["cron"] = None \/ work'["cron"] = work["cron"]
    BY <1>12, Workers
  <2>2. w # "cron" => work'["cron"] = work["cron"]
    BY <1>5, Workers
  <2> QED
    BY <1>2, <1>3, <2>1, <2>2 DEF Waiting, Sending, Underway
<1>16. \A q \in Post, m \in Member, k \in Kind \ {"ending"} :
          Ahead(q, m, k)' => Ahead(q, m, k) \/ faults' > faults
  <2> SUFFICES ASSUME NEW q \in Post, NEW m \in Member, NEW k \in Kind \ {"ending"},
                      Ahead(q, m, k)', ~ Ahead(q, m, k), ~ (faults' > faults)
               PROVE  FALSE
    OBVIOUS
  <2>1. ~Underway(q, m, k)' /\ ~Sending(q, k)' /\ ~Flagged(q, k)'
    BY <1>15 DEF Ahead
  <2>2. Sending(q, k)
    BY <1>8, <2>1 DEF Ahead
  <2>3. q = p /\ k = kind
    BY <1>15, <2>1, <2>2
  <2>4. k = "new" \/ k = "choose"
    BY DEF Kind
  <2> QED
    BY <1>4, <2>1, <2>3, <2>4 DEF MarkDone, Flagged
<1>17. NewBounded'
  <2>1. \A q \in Post, m \in Member : Ahead(q, m, "new")' => Ahead(q, m, "new") \/ faults' > faults
    BY <1>16, Kinds
  <2> QED
    BY <1>1, <1>2, <1>4, <1>6, <1>14, <2>1, NewFrame
<1>18. ChooseBounded'
  <2>1. \A q \in Post, m \in Member : Ahead(q, m, "choose")' => Ahead(q, m, "choose") \/ faults' > faults
    BY <1>16, Kinds
  <2> QED
    BY <1>1, <1>2, <1>4, <1>6, <2>1, ChooseFrame
<1>19. EndingBounded'
  <2>1. ASSUME NEW q \in Post
        PROVE \/ NextCall(q)' >= NextCall(q)
              \/ faults' > faults /\ NextCall(q)' + EndingGap + 1 >= NextCall(q)
    <3>1. NextCall(q) \in Int /\ NextCall(q)' \in Int /\ now <= NextCall(q)'
          /\ now \in Nat /\ EndingGap \in Nat
      BY <1>1, <1>2, <1>6, NextCallType, NextCallAfter, PostTypes, Numbers
    <3>2. Waiting(q, "ending")' = Waiting(q, "ending") /\ (Sending(q, "ending")' => Sending(q, "ending"))
      BY <1>15, Kinds
    <3>3. CASE (Sending(q, "ending")' <=> Sending(q, "ending")) /\ post'[q].motivated = post[q].motivated
      <4>1. NextCall(q)' = NextCall(q)
        BY <1>2, <3>2, <3>3 DEF NextCall
      <4> QED
        BY <3>1, <4>1
    <3>4. CASE Sending(q, "ending") /\ ~Sending(q, "ending")'
      <4>1. w = "cron" /\ q = p /\ kind = "ending"
        BY <1>15, <3>4, Kinds
      <4>2. NextCall(q) = now + EndingGap + 1
        BY <3>4 DEF NextCall
      <4>3. CASE faults' > faults
        BY <3>1, <4>2, <4>3
      <4>4. CASE ~ (faults' > faults)
        <5>1. post'[q].motivated = now
          BY <1>4, <4>1, <4>4 DEF MarkDone
        <5>2. ~Waiting(q, "ending")'
          BY <1>1, <1>2, <1>3, <3>2, <4>1 DEF WorkConsistent, Waiting
        <5>3. now # None /\ now + EndingGap >= now
          BY <1>1, <3>1, Constants DEF TypeOK
        <5>4. NextCall(q)' = now + EndingGap + 1
          BY <1>2, <3>4, <5>1, <5>2, <5>3 DEF NextCall
        <5> QED
          BY <3>1, <4>2, <5>4
      <4> QED
        BY <4>3, <4>4
    <3>5. CASE Sending(q, "ending")' /\ post'[q].motivated # post[q].motivated
      <4>1. NextCall(q)' = now + EndingGap + 1 /\ NextCall(q) = now + EndingGap + 1
        BY <1>2, <3>2, <3>5 DEF NextCall
      <4> QED
        BY <3>1, <4>1
    <3>6. CASE ~Sending(q, "ending") /\ post'[q].motivated # post[q].motivated
      <4>1. q = p /\ kind = "ending"
        BY <1>4, <3>6 DEF MarkDone
      <4>2. w # "cron"
        BY <1>2, <1>3, <3>6, <4>1 DEF Sending
      <4>3. w \in Post /\ work[w].kind = "new"
        BY <1>1, <1>2, <4>2 DEF Worker, WorkConsistent
      <4> QED
        BY <1>3, <4>1, <4>3
    <3> QED
      BY <3>2, <3>3, <3>4, <3>5, <3>6
  <2>2. \A q \in Post, m \in Member : Underway(q, m, "ending")' => Underway(q, m, "ending")
    BY <1>15, Kinds
  <2> QED
    BY <1>1, <1>2, <1>4, <1>6, <1>7, <2>1, <2>2, EndingFrame
<1> QED
  BY <1>6, <1>9, <1>10, <1>11, <1>13, <1>17, <1>18, <1>19 DEF Counted

-----------------------------------------------------------------------------
(* The cron.                                                                *)

\* A call is about to be sent, or being sent.
Calling(p) == Sending(p, "ending") \/ Waiting(p, "ending")

\* As long as the cron keeps its calls the next one is no nearer; when it drops
\* them the next one may be a gap earlier.
LEMMA NextCallKept ==
  ASSUME TypeOK, TypeOK', NEW p \in Post, UNCHANGED <<post, now>>, Calling(p)' => Calling(p)
  PROVE  /\ (Calling(p) => Calling(p)') => NextCall(p)' >= NextCall(p)
         /\ NextCall(p)' + EndingGap + 1 >= NextCall(p)
<1>1. NextCall(p) \in Int /\ NextCall(p)' \in Int /\ now <= NextCall(p)'
        /\ now \in Nat /\ EndingGap \in Nat
  BY NextCallType, NextCallAfter, PostTypes, Numbers
<1>2. CASE Calling(p)' <=> Calling(p)
  <2>1. NextCall(p)' = NextCall(p)
    BY <1>2 DEF NextCall, Calling
  <2> QED
    BY <1>1, <2>1
<1>3. CASE Calling(p) /\ ~Calling(p)'
  <2>1. NextCall(p) = now + EndingGap + 1
    BY <1>3 DEF NextCall, Calling
  <2> QED
    BY <1>1, <1>3, <2>1
<1> QED
  BY <1>2, <1>3

\* A step of the cron that only reads, or takes what it read.
LEMMA CronKept ==
  ASSUME Counted, TypeOK', WorkConsistent', OnlyWritten', EndingBounded',
         UNCHANGED <<post, now, quota, told, demo>>, faults' >= faults,
         \A p \in Post, m \in Member : FromGoroutine(p, m)' => FromGoroutine(p, m),
         \A p \in Post, m \in Member, kind \in Kind \ {"ending"} :
           Ahead(p, m, kind)' => Ahead(p, m, kind) \/ faults' > faults
  PROVE  Counted'
<1>1. TypeOK /\ BornInOrder /\ NewBounded /\ ChooseBounded /\ DemoRemembered /\ DemoBounded
  BY DEF Counted
<1>2. BornInOrder'
  BY <1>1, SteadyPosts, BornFrame
<1>3. DemoRemembered' /\ DemoBounded'
  BY <1>1, DemoFrame
<1>4. NewBounded'
  <2>1. \A q \in Post, m \in Member : Ahead(q, m, "new")' => Ahead(q, m, "new") \/ faults' > faults
    BY Kinds
  <2> QED
    BY <1>1, <2>1, NewFrame
<1>5. ChooseBounded'
  <2>1. \A q \in Post, m \in Member : Ahead(q, m, "choose")' => Ahead(q, m, "choose") \/ faults' > faults
    BY Kinds
  <2> QED
    BY <1>1, <2>1, ChooseFrame
<1> QED
  BY <1>2, <1>3, <1>4, <1>5 DEF Counted

\* The calls, when the cron keeps them or a fault pays for dropping them.
LEMMA CallsKept ==
  ASSUME Counted, TypeOK', UNCHANGED <<post, now, told>>, faults' >= faults,
         \A p \in Post : Calling(p)' => Calling(p),
         \A p \in Post : Calling(p) => Calling(p)' \/ faults' > faults,
         \A p \in Post, m \in Member : Underway(p, m, "ending")' => Underway(p, m, "ending")
  PROVE  EndingBounded'
<1>1. TypeOK /\ EndingBounded
  BY DEF Counted
<1>2. \A p \in Post : \/ NextCall(p)' >= NextCall(p)
                      \/ faults' > faults /\ NextCall(p)' + EndingGap + 1 >= NextCall(p)
  BY <1>1, NextCallKept
<1>3. \A p \in Post : Exists(p)' <=> Exists(p)
  BY DEF Exists
<1> QED
  BY <1>1, <1>2, <1>3, EndingFrame

\* While the cron has no rows it sends nothing.
LEMMA CronIdle ==
  ASSUME Counted, cron.batch = None
  PROVE  /\ work["cron"] = None
         /\ \A p, m, kind : ~Sending(p, kind) /\ ~Waiting(p, kind) /\ ~Underway(p, m, kind)
BY DEF Counted, WorkConsistent, Sending, Waiting, Underway

\* The cron goes on to another pass, or stays where it is.
LEMMA PassStep ==
  ASSUME Counted, NEW i \in 0 .. 6, cron'.pass = i, cron'.batch = None,
         cron' \in [pass : 0 .. Len(Passes), batch : (SUBSET Post) \cup {None}, knows : BOOLEAN],
         cron.batch = None \/ cron.batch = {}, work["cron"] = None,
         UNCHANGED <<post, user, now, quota, work, told, demo, mistaken, missed>>,
         seed' \in [next : Nat, isBuy : BOOLEAN],
         faults' >= faults, faults' \in 0 .. MaxFaults
  PROVE  Counted'
<1>1. TypeOK /\ OnlyWritten /\ WorkConsistent
  BY DEF Counted
<1>2. TypeOK'
  BY <1>1 DEF TypeOK
<1>3. WorkConsistent'
  BY <1>1 DEF WorkConsistent, Exists
<1>4. OnlyWritten'
  BY <1>1 DEF OnlyWritten, Exists
<1>5. \A p, m, kind : /\ ~Sending(p, kind) /\ ~Waiting(p, kind) /\ ~Underway(p, m, kind)
                      /\ ~Sending(p, kind)' /\ ~Waiting(p, kind)' /\ ~Underway(p, m, kind)'
  BY DEF Sending, Waiting, Underway
<1>6. \A p \in Post, m \in Member : FromGoroutine(p, m)' => FromGoroutine(p, m)
  BY DEF FromGoroutine, Exists
<1>7. \A p \in Post, m \in Member, kind \in Kind : Ahead(p, m, kind)' => Ahead(p, m, kind)
  BY <1>5 DEF Ahead, Flagged
<1>8. EndingBounded'
  BY <1>2, <1>5, CallsKept DEF Calling
<1> QED
  BY <1>2, <1>3, <1>4, <1>6, <1>7, <1>8, CronKept

\* The numbers of the passes.
LEMMA NextPassType == \A i \in 1 .. 6 : NextPass(i) \in 0 .. 6
BY PassCount DEF NextPass

\* The record of the cron.
LEMMA CronTypes ==
  ASSUME TypeOK
  PROVE  /\ cron \in [pass : 0 .. Len(Passes), batch : (SUBSET Post) \cup {None}, knows : BOOLEAN]
         /\ cron.pass \in 0 .. 6 /\ cron.batch \in (SUBSET Post) \cup {None} /\ cron.knows \in BOOLEAN
BY PassCount DEF TypeOK

\* Another pass.
LEMMA PassSet ==
  ASSUME TypeOK, NEW i \in 0 .. 6, cron' = [cron EXCEPT !.pass = i]
  PROVE  /\ cron' \in [pass : 0 .. Len(Passes), batch : (SUBSET Post) \cup {None}, knows : BOOLEAN]
         /\ cron'.pass = i /\ cron'.batch = cron.batch
BY CronTypes, PassCount

\* A fault is one more, within the bound.
LEMMA FaultType ==
  ASSUME TypeOK, Fault \/ UNCHANGED faults
  PROVE  faults' >= faults /\ faults' \in 0 .. MaxFaults /\ (Fault => faults' > faults)
BY Numbers DEF TypeOK, Fault

\* The end of a pass.
LEMMA EndPassStep ==
  ASSUME Counted, EndPass
  PROVE  Counted'
<1>1. TypeOK /\ WorkConsistent
  BY DEF Counted
<1>2. PICK i : i = NextPass(cron.pass)
  OBVIOUS
<1>3. cron.batch = {} /\ cron.pass # 0
  <2>1. {} # None
    BY Constants
  <2> QED
    BY <1>1, <2>1 DEF EndPass, WorkConsistent
<1>4. i \in 0 .. 6
  BY <1>1, <1>2, <1>3, CronTypes, NextPassType
<1>5. cron' = [cron EXCEPT !.pass = i, !.batch = None]
  BY <1>1, <1>2, CronTypes DEF EndPass
<1>6. /\ cron' \in [pass : 0 .. Len(Passes), batch : (SUBSET Post) \cup {None}, knows : BOOLEAN]
      /\ cron'.pass = i /\ cron'.batch = None
  BY <1>1, <1>4, <1>5, CronTypes, PassCount
<1>7. faults' >= faults /\ faults' \in 0 .. MaxFaults
  BY <1>1, FaultType DEF EndPass
<1>8. seed' \in [next : Nat, isBuy : BOOLEAN]
  BY <1>1 DEF EndPass, TypeOK
<1> QED
  BY <1>3, <1>4, <1>6, <1>7, <1>8, PassStep DEF EndPass

\* A restart.
LEMMA CrashStep ==
  ASSUME Counted, Crash
  PROVE  Counted'
<1>1. TypeOK /\ OnlyWritten /\ WorkConsistent
  BY DEF Counted
<1>2. work' = [w \in Worker |-> None] /\ cron' = Idle /\ seed' = [next |-> 0, isBuy |-> FALSE]
      /\ UNCHANGED <<post, user, now, quota, told, demo, mistaken, missed>>
  BY DEF Crash
<1>3. faults' > faults /\ faults' >= faults /\ faults' \in 0 .. MaxFaults
  BY <1>1, FaultType DEF Crash
<1>4. cron'.batch = None /\ cron'.pass = 0
        /\ cron' \in [pass : 0 .. Len(Passes), batch : (SUBSET Post) \cup {None}, knows : BOOLEAN]
  BY <1>2, PassCount DEF Idle
<1>5. \A w \in Worker : work'[w] = None
  BY <1>2
<1>6. TypeOK'
  BY <1>1, <1>2, <1>3, <1>4 DEF TypeOK
<1>7. WorkConsistent'
  BY <1>4, <1>5, Workers DEF WorkConsistent
<1>8. OnlyWritten'
  BY <1>1, <1>2, <1>4 DEF OnlyWritten, Exists
<1>9. \A p \in Post, m \in Member : FromGoroutine(p, m)' => FromGoroutine(p, m)
  BY <1>2, <1>5, Workers DEF FromGoroutine, Exists
<1>10. \A p, m, kind : ~Sending(p, kind)' /\ ~Waiting(p, kind)' /\ ~Underway(p, m, kind)'
  BY <1>4, <1>5, Workers DEF Sending, Waiting, Underway
<1>11. EndingBounded'
  BY <1>2, <1>3, <1>6, <1>10, CallsKept DEF Calling
<1> QED
  BY <1>2, <1>3, <1>6, <1>7, <1>8, <1>9, <1>11, CronKept

\* The demo poster: schedules the next demo post and writes this one.
LEMMA SeedAuctionsStep ==
  ASSUME Counted, SeedAuctions
  PROVE  Counted'
<1>1. TypeOK /\ OnlyWritten /\ WorkConsistent
  BY DEF Counted
<1>2. cron.pass = 0 /\ cron' = [cron EXCEPT !.pass = 1]
      /\ UNCHANGED <<user, now, quota, work, told, demo, mistaken, missed>>
  BY DEF SeedAuctions
<1>3. cron.batch = None /\ work["cron"] = None
  BY <1>1, <1>2 DEF WorkConsistent
<1>4. /\ cron' \in [pass : 0 .. Len(Passes), batch : (SUBSET Post) \cup {None}, knows : BOOLEAN]
      /\ cron'.pass = 1 /\ cron'.batch = None
  BY <1>1, <1>2, <1>3, PassSet
<1>5. seed' \in [next : Nat, isBuy : BOOLEAN]
  <2>1. seed \in [next : Nat, isBuy : BOOLEAN] /\ now \in Nat
    BY <1>1, PostTypes, Numbers DEF TypeOK, Time
  <2>2. CASE UNCHANGED seed
    BY <2>1, <2>2
  <2>3. CASE \E gap \in SeedGaps : seed' = [next |-> now + gap, isBuy |-> ~seed.isBuy]
    <3>1. PICK gap \in Nat : seed' = [next |-> now + gap, isBuy |-> ~seed.isBuy]
      BY <2>3, Numbers
    <3> QED
      BY <2>1, <3>1
  <2> QED
    BY <2>2, <2>3 DEF SeedAuctions
<1>6. CASE UNCHANGED post /\ (Fault \/ UNCHANGED faults)
  <2>1. faults' >= faults /\ faults' \in 0 .. MaxFaults
    BY <1>1, <1>6, FaultType
  <2> QED
    BY <1>2, <1>3, <1>4, <1>5, <1>6, <2>1, PassStep
<1>7. CASE UNCHANGED faults /\ \E p \in Post : /\ post[p].status = "none" /\ Owner[p] = SeedUser
                                                /\ InsertPost(p, "active")
  <2>1. PICK p \in Post : /\ post[p].status = "none" /\ Owner[p] = SeedUser
                          /\ InsertPost(p, "active")
    BY <1>7
  <2>2. "active" \in Status \ {"none"} /\ ~Exists(p)
    BY <2>1 DEF Status, Exists
  <2>3. post' \in [Post -> Row] /\ Others(p) /\ Exists(p)'
    BY <1>1, <2>1, <2>2, Inserted DEF Exists
  <2>4. TypeOK'
    BY <1>1, <1>2, <1>4, <1>5, <1>7, <2>3 DEF TypeOK
  <2>5. \A q \in Post : Exists(q) => Exists(q)'
    BY <2>3 DEF Others, Exists
  <2>6. WorkConsistent'
    BY <1>1, <1>2, <1>3, <1>4, <2>5 DEF WorkConsistent
  <2>7. \A q \in Post, m \in Member : FromGoroutine(q, m)' => FromGoroutine(q, m)
    <3> SUFFICES ASSUME NEW q \in Post, NEW m \in Member, FromGoroutine(q, m)'
                 PROVE  FromGoroutine(q, m)
      OBVIOUS
    <3>1. CASE q = p
      BY <1>2, <2>1, <3>1 DEF FromGoroutine
    <3>2. CASE q # p
      <4>1. Exists(q)' <=> Exists(q)
        BY <2>3, <3>2 DEF Others, Exists
      <4> QED
        BY <1>2, <4>1 DEF FromGoroutine
    <3> QED
      BY <3>1, <3>2
  <2>8. \A q \in Post, m \in Member, kind \in Kind :
           /\ Sending(q, kind)' = Sending(q, kind) /\ Waiting(q, kind)' = Waiting(q, kind)
           /\ Underway(q, m, kind)' = Underway(q, m, kind)
    BY <1>2, <1>3, <1>4 DEF Sending, Waiting, Underway
  <2> QED
    BY <1>2, <1>3, <1>4, <1>7, <2>1, <2>2, <2>4, <2>6, <2>7, <2>8, InsertStep
<1> QED
  BY <1>6, <1>7 DEF SeedAuctions

\* The rows that a pass asks for.
LEMMA DueRows ==
  ASSUME TypeOK, NEW pass \in 1 .. 6, NEW p \in Due(pass)
  PROVE  /\ p \in Post /\ Exists(p)
         /\ Passes[pass] = "new" => ~post[p].notified
         /\ Passes[pass] = "choose" => ~post[p].warned
         /\ Passes[pass] = "ending" =>
              now < post[p].end /\ post[p].end - EndingWindow <= now /\ NotCalledFor(p)
<1>1. CASE pass \in {1, 2}
  <2>1. p \in Post /\ post[p].status = "active" /\ ~post[p].notified
    BY <1>1 DEF Due, GetUnnotifiedActiveSellAuctions, GetUnnotifiedActiveBuyRequests, Post
  <2> QED
    BY <1>1, <2>1, PassCount DEF Exists
<1>2. CASE pass \in {3, 4}
  <2>1. p \in Post /\ post[p].status = "pending_selection" /\ ~post[p].warned
    BY <1>2 DEF Due, GetSoonExpiringSelectionSellAuctions, GetSoonExpiringSelectionBuyRequests, Post
  <2> QED
    BY <1>2, <2>1, PassCount DEF Exists
<1>3. CASE pass \in {5, 6}
  <2>1. p \in Post /\ Live(p) /\ post[p].end <= now + EndingWindow /\ NotCalledFor(p)
    BY <1>3 DEF Due, GetMotivatableActiveSellAuctions, GetMotivatableActiveBuyRequests, Post
  <2>2. post[p].end \in Nat /\ now \in Nat /\ EndingWindow \in Nat
    BY <2>1, PostTypes, Numbers
  <2>3. now < post[p].end /\ post[p].end - EndingWindow <= now /\ post[p].status = "active"
    BY <2>1, <2>2 DEF Live
  <2> QED
    BY <1>3, <2>1, <2>3, PassCount DEF Exists
<1> QED
  BY <1>1, <1>2, <1>3

\* A post that is due is called for now, and not again for a gap.
LEMMA CallDue ==
  ASSUME TypeOK, NEW p \in Post, now < post[p].end, post[p].end - EndingWindow <= now,
         NotCalledFor(p), ~Calling(p)
  PROVE  1 + Later(now + EndingGap + 1, post[p].end) <= Later(NextCall(p), post[p].end)
<1>1. now \in Int /\ post[p].end \in Int /\ EndingGap \in Nat
      /\ post[p].motivated \in Time \cup {None}
  BY PostTypes, Numbers
<1>2. post[p].motivated # None => post[p].motivated \in Nat
  BY <1>1, Numbers DEF Time
<1>3. ~ (post[p].motivated # None /\ post[p].motivated + EndingGap >= now)
  BY <1>1, <1>2 DEF NotCalledFor
<1>4. NextCall(p) = now
  BY <1>3 DEF NextCall, Calling
<1> QED
  BY <1>1, <1>4, LaterStep

\* The cron reads the rows of a pass.
LEMMA ReadBatchStep ==
  ASSUME Counted, ReadBatch
  PROVE  Counted'
<1>1. TypeOK /\ OnlyWritten /\ WorkConsistent /\ EndingBounded
  BY DEF Counted
<1>2. cron.pass # 0 /\ cron.batch = None
      /\ UNCHANGED <<post, user, now, quota, seed, work, told, demo, mistaken, missed>>
  BY DEF ReadBatch
<1>3. cron.pass \in 1 .. 6 /\ work["cron"] = None
  BY <1>1, <1>2, CronTypes, CronIdle
<1>4. seed' \in [next : Nat, isBuy : BOOLEAN]
  BY <1>1, <1>2 DEF TypeOK
<1>5. CASE /\ Fault \/ UNCHANGED faults
           /\ \E i \in 0 .. 6 : cron' = [cron EXCEPT !.pass = i]
  <2>1. PICK i \in 0 .. 6 : cron' = [cron EXCEPT !.pass = i]
    BY <1>5
  <2>2. /\ cron' \in [pass : 0 .. Len(Passes), batch : (SUBSET Post) \cup {None}, knows : BOOLEAN]
        /\ cron'.pass = i /\ cron'.batch = None
    BY <1>1, <1>2, <2>1, PassSet
  <2>3. faults' >= faults /\ faults' \in 0 .. MaxFaults
    BY <1>1, <1>5, FaultType
  <2> QED
    BY <1>2, <1>3, <1>4, <2>2, <2>3, PassStep
<1>6. CASE UNCHANGED faults /\ cron' = [cron EXCEPT !.batch = Due(cron.pass)]
  <2>1. PICK due : due = Due(cron.pass)
    OBVIOUS
  <2>2. \A p \in due :
         /\ p \in Post /\ Exists(p)
         /\ Passes[cron.pass] = "new" => ~post[p].notified
         /\ Passes[cron.pass] = "choose" => ~post[p].warned
         /\ Passes[cron.pass] = "ending" =>
              now < post[p].end /\ post[p].end - EndingWindow <= now /\ NotCalledFor(p)
    BY <1>1, <1>3, <2>1, DueRows
  <2>3. due \in SUBSET Post /\ due # None
    BY <2>2, Constants
  <2>4. cron' = [cron EXCEPT !.batch = due]
    BY <1>6, <2>1
  <2>5. /\ cron' \in [pass : 0 .. Len(Passes), batch : (SUBSET Post) \cup {None}, knows : BOOLEAN]
        /\ cron'.pass = cron.pass /\ cron'.batch = due
    BY <1>1, <2>3, <2>4, CronTypes
  <2>6. TypeOK'
    BY <1>1, <1>2, <1>6, <2>5 DEF TypeOK
  <2>7. WorkConsistent'
    BY <1>1, <1>2, <1>3, <2>5 DEF WorkConsistent, Exists
  <2>8. OnlyWritten'
    BY <1>1, <1>2, <2>2, <2>5 DEF OnlyWritten, Exists
  <2>9. \A p \in Post, m \in Member : FromGoroutine(p, m)' => FromGoroutine(p, m)
    BY <1>2 DEF FromGoroutine, Exists
  <2>10. \A p, m, kind : /\ ~Sending(p, kind) /\ ~Waiting(p, kind) /\ ~Underway(p, m, kind)
                         /\ ~Sending(p, kind)'
    BY <1>2, <1>3 DEF Sending, Waiting, Underway
  <2>11. \A p, m, kind : /\ Waiting(p, kind)' => p \in due /\ Passes[cron.pass] = kind
                         /\ Underway(p, m, kind)' => Waiting(p, kind)'
    BY <2>5, <2>10 DEF Waiting, Underway
  <2>12. \A p \in Post, m \in Member, kind \in Kind \ {"ending"} :
           Ahead(p, m, kind)' => Ahead(p, m, kind) \/ faults' > faults
    <3> SUFFICES ASSUME NEW p \in Post, NEW m \in Member, NEW kind \in Kind \ {"ending"},
                        Ahead(p, m, kind)'
                 PROVE  Ahead(p, m, kind)
      OBVIOUS
    <3>1. CASE Underway(p, m, kind)'
      <4>1. ~Flagged(p, kind)
        BY <2>2, <2>11, <3>1 DEF Flagged, Kind
      <4> QED
        BY <2>10, <4>1 DEF Ahead
    <3>2. CASE ~Flagged(p, kind)'
      <4>1. ~Flagged(p, kind)
        BY <1>2, <3>2 DEF Flagged
      <4> QED
        BY <2>10, <4>1 DEF Ahead
    <3> QED
      BY <3>1, <3>2 DEF Ahead
  <2>13. EndingBounded'
    <3> SUFFICES ASSUME NEW p \in Post, NEW m \in Member, Exists(p)'
                 PROVE  EndingWeight(p, m)' <= post'[p].runs * MaxCalls + faults'
      BY DEF EndingBounded, EndingWeight
    <3>1. EndingWeight(p, m) <= post[p].runs * MaxCalls + faults
      BY <1>1, <1>2 DEF EndingBounded, EndingWeight, Exists
    <3>2. post'[p] = post[p] /\ faults' = faults /\ told' = told /\ now' = now
      BY <1>2, <1>6
    <3>3. CASE ~Waiting(p, "ending")'
      <4>1. ~Underway(p, m, "ending")' /\ ~Underway(p, m, "ending")
        BY <2>10, <2>11, <3>3
      <4>2. NextCall(p)' = NextCall(p)
        BY <2>10, <3>2, <3>3 DEF NextCall
      <4>3. EndingWeight(p, m)' = EndingWeight(p, m)
        BY <3>2, <4>1, <4>2 DEF EndingWeight, One, Later, Room
      <4> QED
        BY <3>1, <3>2, <4>3
    <3>4. CASE Waiting(p, "ending")'
      <4>1. now < post[p].end /\ post[p].end - EndingWindow <= now /\ NotCalledFor(p)
        BY <2>2, <2>11, <3>4
      <4>2. ~Calling(p)
        BY <2>10 DEF Calling
      <4>3. 1 + Later(now + EndingGap + 1, post[p].end) <= Later(NextCall(p), post[p].end)
        BY <1>1, <4>1, <4>2, CallDue
      <4>4. NextCall(p)' = now + EndingGap + 1
        BY <3>2, <3>4 DEF NextCall
      <4>5. PICK n \in Nat : n = told[<<p, m, "ending">>]
        BY <1>1, ToldType, Kinds
      <4>6. PICK x \in Nat, y \in Nat :
              x = Later(NextCall(p), post[p].end) /\ y = Later(now + EndingGap + 1, post[p].end)
        <5>1. NextCall(p) \in Int /\ now + EndingGap + 1 \in Int /\ post[p].end \in Int
          BY <1>1, NextCallType, PostTypes, Numbers
        <5> QED
          BY <5>1, LaterType
      <4>7. EndingWeight(p, m) = n + x
        BY <2>10, <4>5, <4>6 DEF EndingWeight, One
      <4>8. EndingWeight(p, m)' = n + One(Underway(p, m, "ending")') + y
        <5>1. Later(NextCall(p), post[p].end)' = y
          BY <3>2, <4>4, <4>6 DEF Later, Room
        <5> QED
          BY <3>2, <4>5, <5>1 DEF EndingWeight, One
      <4>9. PICK a \in {0, 1} : a = One(Underway(p, m, "ending")')
        BY DEF One
      <4>10. PICK k : k = post[p].runs * MaxCalls + faults
        OBVIOUS
      <4>11. k \in Int
        <5>1. MaxCalls \in Nat
          BY <1>1, LaterMost, NextCallType, PostTypes
        <5> QED
          BY <1>1, <4>10, <5>1, PostTypes
      <4> HIDE DEF EndingWeight
      <4>12. EndingWeight(p, m)' = n + a + y /\ 1 + y <= x /\ n + x <= k
        BY <3>1, <4>3, <4>6, <4>7, <4>8, <4>9, <4>10
      <4>13. n + a + y <= k
        BY <4>11, <4>12, <4>5, <4>6, <4>9
      <4> QED
        BY <3>2, <4>10, <4>12, <4>13
    <3> QED
      BY <3>3, <3>4
  <2>14. faults' >= faults
    BY <1>1, <1>6, FaultType
  <2> QED
    BY <1>2, <2>6, <2>7, <2>8, <2>9, <2>12, <2>13, <2>14, CronKept
<1> QED
  <2>1. NextPass(cron.pass) \in 0 .. 6 /\ NextPass(IF cron.pass = 1 THEN 2 ELSE cron.pass) \in 0 .. 6
    BY <1>3, NextPassType
  <2>2. CASE UNCHANGED faults /\ cron' = [cron EXCEPT !.pass = NextPass(@)]
    <3>1. cron' = [cron EXCEPT !.pass = NextPass(cron.pass)]
      BY <2>2
    <3> QED
      BY <1>5, <2>1, <2>2, <3>1
  <2>3. CASE Fault /\ cron' = [cron EXCEPT !.pass = NextPass(IF cron.pass = 1 THEN 2 ELSE cron.pass)]
    BY <1>5, <2>1, <2>3
  <2> QED
    BY <1>6, <2>2, <2>3 DEF ReadBatch

\* The cron takes a row: it starts to send, or a fault skips the row.
LEMMA TakeStep ==
  ASSUME Counted, NEW p \in Post, NEW to \in BOOLEAN, Take(p, to),
         UNCHANGED <<post, user, now, quota, seed, told, demo>>,
         mistaken' \subseteq Post, missed' \subseteq Post \X Member, Fault \/ UNCHANGED faults,
         \/ /\ UNCHANGED work /\ Fault
         \/ \E b \in Broadcast : /\ Begin("cron", b) /\ b.post = p /\ b.kind = Passes[cron.pass]
                                 /\ b.left # None /\ (b.seed => b.kind = "new" \/ b.left = {})
  PROVE  Counted'
<1>1. TypeOK /\ OnlyWritten /\ WorkConsistent /\ EndingBounded
  BY DEF Counted
<1>2. cron.batch # None /\ p \in cron.batch /\ work["cron"] = None
      /\ cron' = [cron EXCEPT !.batch = cron.batch \ {p}, !.knows = to]
  BY <1>1, CronTypes DEF Take
<1>3. PICK left : left = cron.batch \ {p}
  OBVIOUS
<1>4. left \in SUBSET Post /\ left # None
  BY <1>1, <1>2, <1>3, CronTypes, Constants
<1>5. /\ cron' \in [pass : 0 .. Len(Passes), batch : (SUBSET Post) \cup {None}, knows : BOOLEAN]
      /\ cron'.pass = cron.pass /\ cron'.batch = left
  <2>1. cron' = [cron EXCEPT !.batch = left, !.knows = to]
    BY <1>2, <1>3
  <2> QED
    BY <1>1, <1>4, <2>1, CronTypes
<1>6. faults' >= faults /\ faults' \in 0 .. MaxFaults /\ (Fault => faults' > faults)
  BY <1>1, FaultType
<1>7. /\ work' \in [Worker -> Broadcast \cup {None}]
      /\ \A q \in Post : work'[q] = work[q]
      /\ \/ work'["cron"] = None /\ faults' > faults
         \/ /\ work'["cron"] # None /\ work'["cron"].post = p
            /\ work'["cron"].kind = Passes[cron.pass] /\ work'["cron"].left # None
            /\ (work'["cron"].seed => work'["cron"].kind = "new" \/ work'["cron"].left = {})
  <2>1. CASE UNCHANGED work /\ Fault
    BY <1>1, <1>2, <1>6, <2>1 DEF TypeOK
  <2>2. CASE \E b \in Broadcast : /\ Begin("cron", b) /\ b.post = p /\ b.kind = Passes[cron.pass]
                                  /\ b.left # None /\ (b.seed => b.kind = "new" \/ b.left = {})
    <3>1. PICK b \in Broadcast : /\ Begin("cron", b) /\ b.post = p /\ b.kind = Passes[cron.pass]
                                 /\ b.left # None /\ (b.seed => b.kind = "new" \/ b.left = {})
      BY <2>2
    <3>2. b # None
      BY Constants
    <3>3. /\ work' \in [Worker -> Broadcast \cup {None}] /\ work'["cron"] = b
          /\ \A v \in Worker : v # "cron" => work'[v] = work[v]
      BY <1>1, <3>1, BeginSet, Workers
    <3> QED
      BY <3>1, <3>2, <3>3, Workers
  <2> QED
    BY <2>1, <2>2
<1>8. TypeOK'
  BY <1>1, <1>5, <1>6, <1>7 DEF TypeOK
<1>9. \A q \in Post : Exists(q)' <=> Exists(q)
  BY DEF Exists
<1>10. Exists(p) /\ cron.pass # 0
  BY <1>1, <1>2 DEF OnlyWritten, WorkConsistent
<1>11. WorkConsistent'
  <2>1. work'["cron"] # None =>
          /\ cron'.batch # None /\ work'["cron"].left # None
          /\ work'["cron"].post \notin cron'.batch /\ Exists(work["cron"].post)'
          /\ work'["cron"].kind = Passes[cron'.pass]
          /\ (work'["cron"].seed => work'["cron"].kind = "new" \/ work'["cron"].left = {})
    <3> SUFFICES ASSUME work'["cron"] # None
                 PROVE  /\ cron'.batch # None /\ work'["cron"].left # None
                        /\ work'["cron"].post \notin cron'.batch /\ Exists(work["cron"].post)'
                        /\ work'["cron"].kind = Passes[cron'.pass]
                        /\ (work'["cron"].seed => work'["cron"].kind = "new" \/ work'["cron"].left = {})
      OBVIOUS
    <3>1. work'["cron"].post = p /\ work'["cron"].kind = Passes[cron.pass]
          /\ work'["cron"].left # None
          /\ (work'["cron"].seed => work'["cron"].kind = "new" \/ work'["cron"].left = {})
      BY <1>7
    <3>2. Exists(work["cron"].post)'
      BY <1>10, <3>1 DEF Exists
    <3> QED
      BY <1>3, <1>4, <1>5, <3>1, <3>2
  <2>2. \A q \in Post : work'[q] # None =>
          /\ work'[q].post = q /\ work'[q].kind = "new" /\ ~work'[q].seed
          /\ Exists(q)' /\ Owner[q] # SeedUser
    BY <1>1, <1>7, <1>9 DEF WorkConsistent
  <2> QED
    BY <1>4, <1>5, <1>10, <2>1, <2>2 DEF WorkConsistent
<1>12. OnlyWritten'
  BY <1>1, <1>2, <1>3, <1>4, <1>5 DEF OnlyWritten, Exists
<1>13. \A q \in Post, m \in Member : FromGoroutine(q, m)' => FromGoroutine(q, m)
  BY <1>7, <1>9 DEF FromGoroutine
<1>14. PICK k : k = Passes[cron.pass]
  OBVIOUS
<1>15. \A q, kind : ~Sending(q, kind)
  BY <1>2 DEF Sending
<1>16. \A q, kind : Sending(q, kind)' => q = p /\ kind = k
  BY <1>14, <1>7 DEF Sending
<1>17. \A q, kind : Waiting(q, kind) <=> q \in cron.batch /\ kind = k
  BY <1>14, <1>2 DEF Waiting
<1>18. \A q, kind : Waiting(q, kind)' <=> q \in left /\ kind = k
  BY <1>14, <1>4, <1>5 DEF Waiting
<1>19. \A q, kind : /\ ~Sending(q, kind)
                    /\ Sending(q, kind)' => q = p /\ kind = k
                    /\ Waiting(q, kind)' => Waiting(q, kind)
                    /\ Waiting(q, kind) => Waiting(q, kind)' \/ q = p
                    /\ Waiting(p, kind) => kind = k
  BY <1>3, <1>15, <1>16, <1>17, <1>18
<1>20. Waiting(p, k) /\ (Sending(p, k)' \/ faults' > faults)
  BY <1>14, <1>2, <1>7, <1>17 DEF Sending
<1>21. \A q, m, kind : Underway(q, m, kind)' => Underway(q, m, kind)
  BY <1>19, <1>20 DEF Underway
<1>22. \A q \in Post, m \in Member, kind \in Kind : Ahead(q, m, kind)' => Ahead(q, m, kind)
  <2>1. \A q \in Post, kind \in Kind : Flagged(q, kind)' <=> Flagged(q, kind)
    BY DEF Flagged
  <2> QED
    BY <1>19, <1>21, <2>1 DEF Ahead
<1>23. \A q \in Post : Calling(q)' => Calling(q)
  BY <1>19, <1>20 DEF Calling
<1>24. \A q \in Post : Calling(q) => Calling(q)' \/ faults' > faults
  <2> SUFFICES ASSUME NEW q \in Post, Calling(q), ~ (faults' > faults) PROVE Calling(q)'
    OBVIOUS
  <2>1. Waiting(q, "ending")
    BY <1>19 DEF Calling
  <2>2. CASE q = p
    <3>1. k = "ending"
      BY <1>19, <2>1, <2>2
    <3> QED
      BY <1>20, <2>2, <3>1 DEF Calling
  <2>3. CASE q # p
    BY <1>19, <2>1, <2>3 DEF Calling
  <2> QED
    BY <2>2, <2>3
<1>25. EndingBounded'
  BY <1>6, <1>8, <1>21, <1>23, <1>24, CallsKept
<1> QED
  BY <1>6, <1>8, <1>11, <1>12, <1>13, <1>22, <1>25, CronKept

\* A broadcast of the cron.
LEMMA RowBroadcast ==
  ASSUME NEW p \in Post, NEW kind \in Kind, NEW s \in BOOLEAN, NEW S \in SUBSET Member
  PROVE  \E b \in Broadcast :
           /\ b = [post |-> p, kind |-> kind, seed |-> s, left |-> S]
           /\ b.post = p /\ b.kind = kind /\ b.seed = s /\ b.left = S /\ b.left # None
<1>1. PICK b : b = [post |-> p, kind |-> kind, seed |-> s, left |-> S]
  OBVIOUS
<1>2. S # None
  BY Constants
<1> QED
  BY <1>1, <1>2 DEF Broadcast

\* A row that is announced or called for.
LEMMA TakeRowStep ==
  ASSUME Counted, NEW p \in Post, NEW kind \in Kind, kind = Passes[cron.pass],
         NEW audience \in SUBSET Member, TakeRow(p, kind, audience),
         Owner[p] = SeedUser => kind = "new" \/ audience = {}
  PROVE  Counted'
<1>1. TypeOK
  BY DEF Counted
<1>2. UNCHANGED <<post, user, now, quota, seed, told, demo>>
  BY DEF TakeRow
<1>3. /\ mistaken \subseteq Post /\ missed \subseteq Post \X Member
      /\ Retailers \subseteq Member /\ Audience(p) \subseteq Member
  BY <1>1 DEF TypeOK, Retailers, Audience
<1>4. PICK isSeed \in BOOLEAN : isSeed = (Owner[p] = SeedUser)
  OBVIOUS
<1>5. CASE /\ Take(p, TRUE) /\ UNCHANGED <<mistaken, missed, faults>>
           /\ Begin("cron", [post |-> p, kind |-> kind, seed |-> isSeed, left |-> audience])
  <2>1. PICK b \in Broadcast :
           /\ b = [post |-> p, kind |-> kind, seed |-> isSeed, left |-> audience]
           /\ b.post = p /\ b.kind = kind /\ b.seed = isSeed /\ b.left = audience /\ b.left # None
    BY RowBroadcast
  <2>2. Begin("cron", b)
    BY <1>5, <2>1
  <2> QED
    BY <1>2, <1>3, <1>4, <1>5, <2>1, <2>2, TakeStep
<1>6. CASE /\ Take(p, FALSE) /\ UNCHANGED missed /\ Fault /\ mistaken' = mistaken \cup {p}
           /\ Begin("cron", [post |-> p, kind |-> kind, seed |-> FALSE, left |-> Audience(p)])
  <2>1. PICK S \in SUBSET Member : S = Audience(p)
    BY <1>3
  <2>2. PICK f \in BOOLEAN : f = FALSE
    OBVIOUS
  <2>3. PICK b \in Broadcast :
           /\ b = [post |-> p, kind |-> kind, seed |-> f, left |-> S]
           /\ b.post = p /\ b.kind = kind /\ b.seed = f /\ b.left # None
    BY RowBroadcast
  <2>4. Begin("cron", b)
    BY <1>6, <2>1, <2>3, <2>2
  <2> QED
    BY <1>2, <1>3, <1>6, <2>3, <2>4, <2>2, TakeStep
<1>7. CASE /\ Take(p, TRUE) /\ Miss(p, Retailers, kind) /\ Fault /\ UNCHANGED mistaken
           /\ Begin("cron", [post |-> p, kind |-> kind, seed |-> isSeed,
                             left |-> audience \ Retailers])
  <2>0. PICK S \in SUBSET Member : S = audience \ Retailers
    OBVIOUS
  <2>1. missed' \subseteq Post \X Member
    BY <1>3, <1>7 DEF Miss
  <2>2. PICK b \in Broadcast :
           /\ b = [post |-> p, kind |-> kind, seed |-> isSeed, left |-> S]
           /\ b.post = p /\ b.kind = kind /\ b.seed = isSeed /\ b.left = S /\ b.left # None
    BY RowBroadcast
  <2>3. Begin("cron", b)
    BY <1>7, <2>0, <2>2
  <2> QED
    BY <1>2, <1>3, <1>4, <1>7, <2>0, <2>1, <2>2, <2>3, TakeStep
<1>8. CASE Fault /\ Take(p, TRUE) /\ UNCHANGED <<work, mistaken, missed>>
  BY <1>2, <1>3, <1>8, TakeStep
<1> QED
  BY <1>4, <1>5, <1>6, <1>7, <1>8 DEF TakeRow

\* The cron announces a post, warns an owner or calls for a post.
LEMMA NextRowStep ==
  ASSUME Counted, NextRow
  PROVE  Counted'
<1>1. PICK p \in Post : AnnounceNew(p) \/ WarnOwner(p) \/ CallAgain(p)
  BY DEF NextRow
<1>2. Audience(p) \in SUBSET Member /\ {} \in SUBSET Member
  BY DEF Audience
<1>3. CASE AnnounceNew(p)
  BY <1>2, <1>3, Kinds, TakeRowStep DEF AnnounceNew
<1>4. CASE CallAgain(p)
  BY <1>2, <1>4, Kinds, TakeRowStep DEF CallAgain
<1>5. CASE WarnOwner(p)
  <2>1. TypeOK /\ {Owner[p]} \in SUBSET Member
    BY Constants DEF Counted
  <2>2. cron.knows \in BOOLEAN /\ mistaken \subseteq Post /\ missed \subseteq Post \X Member
    BY <2>1, CronTypes DEF TypeOK
  <2>3. PICK S \in SUBSET Member : S = {Owner[p]}
    BY <2>1
  <2>4. PICK f \in BOOLEAN : f = FALSE
    OBVIOUS
  <2>5. PICK b \in Broadcast :
           /\ b = [post |-> p, kind |-> "choose", seed |-> f, left |-> S]
           /\ b.post = p /\ b.kind = "choose" /\ b.seed = f /\ b.left # None
    BY Kinds, RowBroadcast
  <2>6. Begin("cron", b)
    BY <1>5, <2>3, <2>5, <2>4 DEF WarnOwner
  <2> QED
    BY <1>5, <2>2, <2>5, <2>6, <2>4, TakeStep DEF WarnOwner
<1> QED
  BY <1>1, <1>3, <1>4, <1>5

-----------------------------------------------------------------------------
(* The demo posters' allowance.                                             *)

\* What a row of the table remembers of the notices d of its member.
Remembers(row, d, t) ==
  IF row = None THEN d = <<>>
  ELSE /\ row.last <= t /\ row.day = row.last \div DayLength
       /\ \A i \in DOMAIN d : /\ d[i] <= row.last
                              /\ i + row.sent <= Len(d) => d[i] \div DayLength < row.day

\* How the notices of a member are spread.
Spaced(d) ==
  \A i, j \in DOMAIN d : /\ d[i] % DayLength \in FromHour .. UntilHour - 1
                         /\ i < j => d[j] - d[i] >= MinGap
                         /\ j - i >= DailyMax => d[j] \div DayLength > d[i] \div DayLength

\* Days apart, hours of the day: the night lies between.
LEMMA NightBetween ==
  ASSUME NEW s \in Nat, NEW t \in Nat, s \div DayLength < t \div DayLength,
         s % DayLength \in FromHour .. UntilHour - 1, t % DayLength \in FromHour .. UntilHour - 1
  PROVE  t - s >= MinGap
<1>1. PICK a \in Int, b \in Int : s = DayLength * a + b /\ a = s \div DayLength /\ b = s % DayLength
  BY Numbers, Division
<1>2. PICK c \in Int, e \in Int : t = DayLength * c + e /\ c = t \div DayLength /\ e = t % DayLength
  BY Numbers, Division
<1>3. PICK k \in Nat : k = c - a - 1
  BY <1>1, <1>2
<1>4. DayLength * c = DayLength * a + DayLength + DayLength * k /\ DayLength * k \in Nat
      /\ DayLength * a \in Int
  <2>1. c = a + 1 + k /\ DayLength \in Nat
    BY <1>3, Numbers
  <2> QED
    BY <2>1
<1>5. b <= UntilHour - 1 /\ e >= FromHour
  BY <1>1, <1>2, Numbers
<1> QED
  BY <1>1, <1>2, <1>4, <1>5, Numbers, NightAssumption

\* A claim that finds a slot: what the table says of the member afterwards.
Claimed(row) ==
  [day |-> Today, sent |-> IF row # None /\ row.day = Today THEN row.sent + 1 ELSE 1, last |-> now]

\* The row a claim writes.
LEMMA ClaimedType ==
  ASSUME TypeOK, NEW row \in QuotaRow \cup {None}, NEW gap \in Int, SlotIsFree(row, gap)
  PROVE  /\ Claimed(row) \in QuotaRow /\ Claimed(row) # None
         /\ Claimed(row).day = now \div DayLength /\ Claimed(row).last = now
         /\ Claimed(row).sent = IF row # None /\ row.day = Today THEN row.sent + 1 ELSE 1
<1>1. PICK r : r = Claimed(row)
  OBVIOUS
<1>2. now \in Time /\ now \in Nat /\ DailyMax \in Nat /\ DailyMax > 0
  BY Numbers DEF TypeOK, Time
<1>3. Today \in Nat
  BY <1>2, Numbers, DivNat DEF Today
<1>4. PICK n : n = IF row # None /\ row.day = Today THEN row.sent + 1 ELSE 1
  OBVIOUS
<1>5. n \in 1 .. DailyMax
  <2>1. CASE row # None /\ row.day = Today
    <3>1. row.sent \in 1 .. DailyMax /\ row.sent < DailyMax
      BY <2>1 DEF QuotaRow, SlotIsFree
    <3> QED
      BY <1>2, <1>4, <2>1, <3>1
  <2>2. CASE ~ (row # None /\ row.day = Today)
    BY <1>2, <1>4, <2>2
  <2> QED
    BY <2>1, <2>2
<1>6. r = [day |-> Today, sent |-> n, last |-> now]
  BY <1>1, <1>4 DEF Claimed
<1>7. r \in QuotaRow /\ r.day = now \div DayLength /\ r.last = now /\ r.sent = n
  BY <1>2, <1>3, <1>5, <1>6 DEF QuotaRow, Today
<1> QED
  BY <1>1, <1>4, <1>7, Constants

\* A claim at one hour of the day leaves the table right, whether the notice is
\* sent afterwards or not.
LEMMA ClaimRemembers ==
  ASSUME TypeOK, NEW row \in QuotaRow \cup {None}, NEW gap \in Int, SlotIsFree(row, gap),
         gap >= MinGap, Hour \in FromHour .. UntilHour - 1,
         NEW d \in Seq(Time), Remembers(row, d, now), Spaced(d),
         NEW e \in {d, Append(d, now)}
  PROVE  e \in Seq(Time) /\ Remembers(Claimed(row), e, now) /\ Spaced(e)
<1>1. now \in Time /\ now \in Nat /\ DailyMax \in Nat /\ DailyMax > 0 /\ MinGap \in Nat
      /\ Time \subseteq Nat /\ DayLength \in Nat /\ DayLength > 0
  BY Numbers DEF TypeOK, Time
<1>2. PICK r \in QuotaRow : r = Claimed(row)
  BY ClaimedType
<1>3. /\ r # None /\ r.day = now \div DayLength /\ r.last = now
      /\ r.sent = IF row # None /\ row.day = Today THEN row.sent + 1 ELSE 1
  BY <1>2, ClaimedType
<1>4. e \in Seq(Time)
  BY <1>1
<1>5. PICK n \in Nat : n = Len(d)
  OBVIOUS
<1>6. PICK today \in Nat : today = now \div DayLength /\ today = Today
  BY <1>1, DivNat DEF Today
<1>7. /\ DOMAIN d = 1 .. n /\ \A i \in 1 .. n : d[i] \in Nat
      /\ \/ e = d /\ DOMAIN e = 1 .. n /\ Len(e) = n
         \/ /\ DOMAIN e = 1 .. n + 1 /\ Len(e) = n + 1 /\ e[n + 1] = now
            /\ \A i \in 1 .. n : e[i] = d[i]
  <2>1. DOMAIN d = 1 .. n /\ \A i \in 1 .. n : d[i] \in Nat
    <3>1. DOMAIN d = 1 .. n
      BY <1>5
    <3>2. \A i \in 1 .. n : d[i] \in Time
      BY <1>5
    <3> QED
      BY <1>1, <3>1, <3>2
  <2>2. CASE e = d
    BY <1>5, <2>1, <2>2
  <2>3. CASE e = Append(d, now)
    BY <1>1, <1>5, <2>1, <2>3
  <2> QED
    BY <2>1, <2>2, <2>3
<1>8. ASSUME NEW i \in 1 .. n
      PROVE  /\ d[i] <= now /\ d[i] \div DayLength \in Int
             /\ now - d[i] >= MinGap
             /\ i + r.sent <= n + 1 => d[i] \div DayLength < today
  <2>1. row # None
    BY <1>7, <1>8, <1>5 DEF Remembers
  <2>2. row.last \in Nat /\ row.sent \in Nat /\ row.last <= now /\ row.day = row.last \div DayLength
        /\ d[i] <= row.last /\ (i + row.sent <= n => d[i] \div DayLength < row.day)
    <3>1. row \in QuotaRow /\ i \in DOMAIN d
      BY <1>7, <2>1
    <3>2. row.last \in Time /\ row.sent \in Nat
      BY <1>1, <3>1 DEF QuotaRow
    <3>3. row.last <= now /\ row.day = row.last \div DayLength
      BY <2>1 DEF Remembers
    <3>4. d[i] <= row.last /\ (i + row.sent <= n => d[i] \div DayLength < row.day)
      BY <1>5, <2>1, <3>1 DEF Remembers
    <3> QED
      BY <1>1, <3>2, <3>3, <3>4
  <2>3. d[i] \in Nat /\ d[i] % DayLength \in FromHour .. UntilHour - 1
    BY <1>7 DEF Spaced
  <2>4. d[i] \div DayLength \in Int /\ row.day \in Int
    BY <1>1, <2>2, <2>3, Division
  <2>5. d[i] \div DayLength <= row.day /\ row.day <= today
    <3>1. PICK x \in Int, y \in Int, t \in Int : x = d[i] /\ y = row.last /\ t = now
      BY <1>1, <2>2, <2>3
    <3>2. x <= y /\ y <= t
      BY <2>2, <3>1
    <3>3. DayLength \in Nat /\ DayLength > 0
      BY Numbers
    <3>4. x \div DayLength <= y \div DayLength
      BY <3>2, <3>3, DivMonotone
    <3>5. y \div DayLength <= t \div DayLength
      BY <3>2, <3>3, DivMonotone
    <3> QED
      BY <1>6, <2>2, <3>1, <3>4, <3>5
  <2>6. CASE row.day = today
    <3>1. row.last <= now - gap /\ r.sent = row.sent + 1
      BY <1>3, <1>6, <2>1, <2>6 DEF SlotIsFree
    <3>2. now - d[i] >= MinGap
      <4>1. PICK x \in Nat, y \in Nat, t \in Nat : x = d[i] /\ y = row.last /\ t = now
        BY <1>1, <2>2, <2>3
      <4>2. x <= y /\ y <= t - gap
        BY <2>2, <3>1, <4>1
      <4> QED
        BY <1>1, <4>1, <4>2
    <3>3. i + r.sent <= n + 1 => d[i] \div DayLength < today
      BY <1>5, <2>2, <2>6, <3>1
    <3> QED
      BY <1>1, <2>2, <2>3, <2>4, <3>2, <3>3
  <2>7. CASE row.day < today
    <3>1. d[i] \div DayLength < today
      BY <2>4, <2>5, <2>7
    <3>2. now - d[i] >= MinGap
      BY <1>1, <1>6, <2>3, <3>1, NightBetween DEF Hour
    <3> QED
      BY <1>1, <2>2, <2>3, <2>4, <3>1, <3>2
  <2> QED
    BY <2>4, <2>5, <2>6, <2>7
<1>9. r.sent \in Nat /\ r.sent >= 1 /\ r.sent <= DailyMax
  BY <1>1 DEF QuotaRow
<1>10. Remembers(r, e, now)
  <2>1. ASSUME NEW i \in DOMAIN e
        PROVE  e[i] <= r.last /\ (i + r.sent <= Len(e) => e[i] \div DayLength < r.day)
    <3>1. CASE e = d /\ DOMAIN e = 1 .. n /\ Len(e) = n
      <4>1. i \in 1 .. n
        BY <3>1
      <4>2. i + r.sent <= n => i + r.sent <= n + 1
        BY <1>9, <4>1
      <4> QED
        BY <1>3, <1>6, <1>8, <3>1, <4>1, <4>2
    <3>2. CASE /\ DOMAIN e = 1 .. n + 1 /\ Len(e) = n + 1 /\ e[n + 1] = now
               /\ \A k \in 1 .. n : e[k] = d[k]
      <4>1. CASE i \in 1 .. n
        BY <1>3, <1>6, <1>8, <3>2, <4>1
      <4>2. CASE i = n + 1
        BY <1>1, <1>3, <1>9, <3>2, <4>2
      <4> QED
        BY <3>2, <4>1, <4>2
    <3> QED
      BY <1>7, <3>1, <3>2
  <2>2. r.last <= now /\ r.day = r.last \div DayLength
    BY <1>1, <1>3
  <2> QED
    BY <1>3, <2>1, <2>2 DEF Remembers
<1>11. Spaced(e)
  <2>1. CASE e = d
    BY <2>1
  <2>2. CASE /\ DOMAIN e = 1 .. n + 1 /\ e[n + 1] = now /\ \A k \in 1 .. n : e[k] = d[k]
    <3> SUFFICES ASSUME NEW i \in 1 .. n + 1, NEW j \in 1 .. n + 1
                 PROVE  /\ e[i] % DayLength \in FromHour .. UntilHour - 1
                        /\ i < j => e[j] - e[i] >= MinGap
                        /\ j - i >= DailyMax => e[j] \div DayLength > e[i] \div DayLength
      BY <2>2 DEF Spaced
    <3>1. CASE i \in 1 .. n /\ j \in 1 .. n
      BY <1>7, <2>2, <3>1 DEF Spaced
    <3>2. CASE i \in 1 .. n /\ j = n + 1
      <4>1. d[i] % DayLength \in FromHour .. UntilHour - 1
        BY <1>7, <3>2 DEF Spaced
      <4>2. j - i >= DailyMax => i + r.sent <= n + 1
        BY <1>1, <1>9, <3>2
      <4>3. j - i >= DailyMax => e[j] \div DayLength > e[i] \div DayLength
        BY <1>6, <1>8, <2>2, <3>2, <4>2
      <4> QED
        BY <1>8, <2>2, <3>2, <4>1, <4>3
    <3>3. CASE i = n + 1
      <4>1. ~ (i < j) /\ ~ (j - i >= DailyMax)
        BY <1>1, <3>3
      <4> QED
        BY <2>2, <3>3, <4>1 DEF Hour
    <3> QED
      BY <3>1, <3>2, <3>3
  <2> QED
    BY <1>7, <2>1, <2>2
<1> QED
  BY <1>2, <1>4, <1>10, <1>11

-----------------------------------------------------------------------------
(* Broadcasts: telling one member.                                          *)

\* At most one notice was sent, to m about p.
OneMore(p, m, kind) ==
  /\ told' \in [Post \X Member \X Kind -> Nat]
  /\ \A q \in Post, n \in Member, k \in Kind :
       \/ told'[<<q, n, k>>] = told[<<q, n, k>>]
       \/ q = p /\ n = m /\ k = kind /\ told'[<<q, n, k>>] = told[<<q, n, k>>] + 1

\* What sending to a member does.
LEMMA SentEffect ==
  ASSUME TypeOK, NEW p \in Post, NEW m \in Member, NEW kind \in Kind,
         \/ SendToUser(p, m, kind)
         \/ UNCHANGED <<told, missed, faults>>
         \/ Fault /\ Miss(p, {m}, kind) /\ UNCHANGED told
  PROVE  /\ OneMore(p, m, kind) /\ missed' \subseteq Post \X Member
         /\ faults' >= faults /\ faults' \in 0 .. MaxFaults
<1>1. told \in [Post \X Member \X Kind -> Nat] /\ missed \subseteq Post \X Member
  BY DEF TypeOK
<1>2. Fault \/ UNCHANGED faults
  BY DEF SendToUser
<1>3. faults' >= faults /\ faults' \in 0 .. MaxFaults
  BY <1>2, FaultType
<1>4. missed' \subseteq Post \X Member
  <2>1. CASE Miss(p, {m}, kind)
    BY <1>1, <2>1 DEF Miss
  <2>2. CASE UNCHANGED missed
    BY <1>1, <2>2
  <2> QED
    BY <2>1, <2>2 DEF SendToUser
<1>5. CASE UNCHANGED told
  BY <1>1, <1>3, <1>4, <1>5 DEF OneMore
<1>6. CASE Tell(p, m, kind)
  <2>1. PICK x \in Post \X Member \X Kind : x = <<p, m, kind>>
    OBVIOUS
  <2>2. told[x] \in Nat
    BY <1>1
  <2>3. told' = [told EXCEPT ![x] = told[x] + 1]
    BY <1>6, <2>1 DEF Tell
  <2>4. told' \in [Post \X Member \X Kind -> Nat] /\ told'[x] = told[x] + 1
        /\ \A y \in Post \X Member \X Kind : y # x => told'[y] = told[y]
    BY <1>1, <2>2, <2>3
  <2>5. \A q \in Post, n \in Member, k \in Kind :
          <<q, n, k>> \in Post \X Member \X Kind
          /\ (<<q, n, k>> = x <=> q = p /\ n = m /\ k = kind)
    BY <2>1
  <2> QED
    BY <1>3, <1>4, <2>1, <2>4, <2>5 DEF OneMore
<1> QED
  BY <1>5, <1>6 DEF SendToUser

\* The allowance of the other members is theirs.
LEMMA DemoStep ==
  ASSUME TypeOK, DemoRemembered, DemoBounded, now' = now, NEW m \in Member,
         NEW row \in QuotaRow \cup {None}, NEW d \in Seq(Time), Remembers(row, d, now), Spaced(d),
         quota' = [quota EXCEPT ![m] = row], demo' = [demo EXCEPT ![m] = d]
  PROVE  /\ quota' \in [Member -> QuotaRow \cup {None}] /\ demo' \in [Member -> Seq(Time)]
         /\ DemoRemembered' /\ DemoBounded'
<1>1. quota \in [Member -> QuotaRow \cup {None}] /\ demo \in [Member -> Seq(Time)]
  BY DEF TypeOK
<1>2. quota'[m] = row /\ demo'[m] = d
      /\ \A n \in Member : n # m => quota'[n] = quota[n] /\ demo'[n] = demo[n]
  BY <1>1
<1>3. \A n \in Member : Remembers(quota[n], demo[n], now) /\ Spaced(demo[n])
  BY DEF Remembers, Spaced, DemoRemembered, DemoBounded
<1>4. \A n \in Member : Remembers(quota'[n], demo'[n], now) /\ Spaced(demo'[n])
  BY <1>2, <1>3
<1>5. DemoRemembered'
  BY <1>4 DEF Remembers, DemoRemembered
<1>6. DemoBounded'
  BY <1>4 DEF Spaced, DemoBounded
<1> QED
  BY <1>1, <1>5, <1>6

\* Telling a member of a demo post.
LEMMA SendDemoEffect ==
  ASSUME TypeOK, DemoRemembered, DemoBounded, now' = now, NEW p \in Post, NEW m \in Member,
         SendDemo(p, m, "new"), NEW new \in BOOLEAN,
         demo' = IF new /\ told' # told THEN [demo EXCEPT ![m] = Append(@, now)] ELSE demo
  PROVE  /\ OneMore(p, m, "new") /\ missed' \subseteq Post \X Member
         /\ faults' >= faults /\ faults' \in 0 .. MaxFaults
         /\ quota' \in [Member -> QuotaRow \cup {None}] /\ demo' \in [Member -> Seq(Time)]
         /\ DemoRemembered' /\ DemoBounded'
<1>1. quota \in [Member -> QuotaRow \cup {None}] /\ demo \in [Member -> Seq(Time)]
  BY DEF TypeOK
<1>2. \/ SendToUser(p, m, "new")
      \/ UNCHANGED <<told, missed, faults>>
      \/ Fault /\ Miss(p, {m}, "new") /\ UNCHANGED told
  BY DEF SendDemo
<1>3. /\ OneMore(p, m, "new") /\ missed' \subseteq Post \X Member
      /\ faults' >= faults /\ faults' \in 0 .. MaxFaults
  BY <1>2, Kinds, SentEffect
<1>4. CASE UNCHANGED <<quota, told>>
  <2>1. UNCHANGED demo
    BY <1>4
  <2> QED
    BY <1>1, <1>3, <1>4, <2>1, DemoFrame
<1>5. CASE \E gap \in MinGap .. MaxGap :
             AllowSeedNotification(m, gap) /\ ClaimSeedNotification(m, gap)
  <2>1. PICK gap \in MinGap .. MaxGap :
          AllowSeedNotification(m, gap) /\ ClaimSeedNotification(m, gap)
    BY <1>5
  <2>2. gap \in Int /\ gap >= MinGap
    BY <2>1, Numbers
  <2>3. PICK row \in QuotaRow \cup {None}, d \in Seq(Time) : row = quota[m] /\ d = demo[m]
    BY <1>1
  <2>4. SlotIsFree(row, gap) /\ Hour \in FromHour .. UntilHour - 1
    BY <2>1, <2>3 DEF AllowSeedNotification
  <2>5. Remembers(row, d, now) /\ Spaced(d)
    BY <2>3 DEF Remembers, Spaced, DemoRemembered, DemoBounded
  <2>6. PICK e \in {d, Append(d, now)} : demo' = [demo EXCEPT ![m] = e]
    <3>1. CASE new /\ told' # told
      <4>1. demo' = [demo EXCEPT ![m] = Append(d, now)]
        BY <2>3, <3>1
      <4> QED
        BY <4>1
    <3>2. CASE ~ (new /\ told' # told)
      <4>1. demo' = [demo EXCEPT ![m] = d]
        BY <1>1, <2>3, <3>2
      <4> QED
        BY <4>1
    <3> QED
      BY <3>1, <3>2
  <2>7. e \in Seq(Time) /\ Remembers(Claimed(row), e, now) /\ Spaced(e)
    BY <2>2, <2>4, <2>5, ClaimRemembers
  <2>8. Claimed(row) \in QuotaRow \cup {None}
    BY <2>2, <2>4, ClaimedType
  <2>9. quota' = [quota EXCEPT ![m] = Claimed(row)]
    BY <2>1, <2>3, <2>4 DEF ClaimSeedNotification, Claimed
  <2>10. /\ quota' \in [Member -> QuotaRow \cup {None}] /\ demo' \in [Member -> Seq(Time)]
         /\ DemoRemembered' /\ DemoBounded'
    BY <2>6, <2>7, <2>8, <2>9, DemoStep
  <2> QED
    BY <1>3, <2>10
<1> QED
  BY <1>4, <1>5 DEF SendDemo

\* A member is told: what was to come has come.
LEMMA SendStep ==
  ASSUME Counted, DemoKnown, NEW w \in Worker, Send(w)
  PROVE  Counted'
<1>1. TypeOK /\ OnlyWritten /\ WorkConsistent /\ BornInOrder
      /\ NewBounded /\ ChooseBounded /\ EndingBounded /\ DemoRemembered /\ DemoBounded
  BY DEF Counted
<1>2. work[w] # None /\ work[w].left # None /\ UNCHANGED <<post, user, now, seed, cron, mistaken>>
  BY DEF Send
<1>3. PICK p \in Post, kind \in Kind : p = work[w].post /\ kind = work[w].kind
  BY <1>1, <1>2, WorkTypes
<1>4. PICK m \in work[w].left :
           /\ Begin(w, [work[w] EXCEPT !.left = @ \ {m}])
           /\ IF work[w].seed THEN SendDemo(p, m, kind)
              ELSE SendToUser(p, m, kind) /\ UNCHANGED quota
           /\ demo' = IF /\ Owner[p] = SeedUser /\ p \notin mistaken
                         /\ kind = "new" /\ told' # told
                      THEN [demo EXCEPT ![m] = Append(@, now)] ELSE demo
  BY <1>3 DEF Send
<1>5. m \in Member /\ work[w].left \in SUBSET Member
  BY <1>1, <1>2, WorkTypes
<1>6. PICK S \in SUBSET Member : S = work[w].left \ {m}
  BY <1>5
<1>7. PICK b \in Broadcast :
           /\ b = [work[w] EXCEPT !.left = S] /\ b # None /\ b.left = S /\ b.left # None
           /\ b.post = work[w].post /\ b.kind = work[w].kind /\ b.seed = work[w].seed
  BY <1>1, <1>2, LeftSet
<1>8. Begin(w, b)
  <2>1. [work[w] EXCEPT !.left = @ \ {m}] = [work[w] EXCEPT !.left = S]
    BY <1>1, <1>2, <1>6, WorkTypes
  <2> QED
    BY <1>4, <1>7, <2>1
<1>9. /\ work' \in [Worker -> Broadcast \cup {None}] /\ work'[w] = b
      /\ \A v \in Worker : v # w => work'[v] = work[v]
  BY <1>1, <1>8, BeginSet
<1>10. /\ OneMore(p, m, kind) /\ missed' \subseteq Post \X Member
       /\ faults' >= faults /\ faults' \in 0 .. MaxFaults
       /\ quota' \in [Member -> QuotaRow \cup {None}] /\ demo' \in [Member -> Seq(Time)]
       /\ DemoRemembered' /\ DemoBounded'
  <2>1. CASE work[w].seed
    <3>1. kind = "new"
      <4>1. CASE w = "cron"
        BY <1>1, <1>2, <1>3, <1>4, <2>1, <4>1 DEF WorkConsistent
      <4>2. CASE w \in Post
        BY <1>1, <1>2, <2>1, <4>2 DEF WorkConsistent
      <4> QED
        BY <4>1, <4>2 DEF Worker
    <3>2. PICK new \in BOOLEAN : new = (Owner[p] = SeedUser /\ p \notin mistaken)
      OBVIOUS
    <3>3. demo' = IF new /\ told' # told THEN [demo EXCEPT ![m] = Append(@, now)] ELSE demo
      BY <1>4, <3>1, <3>2
    <3>4. SendDemo(p, m, "new")
      BY <1>4, <2>1, <3>1
    <3> QED
      BY <1>1, <1>2, <1>5, <3>1, <3>3, <3>4, SendDemoEffect
  <2>2. CASE ~work[w].seed
    <3>1. SendToUser(p, m, kind) /\ UNCHANGED <<quota, demo>>
      <4>1. ~ (Owner[p] = SeedUser /\ p \notin mistaken /\ kind = "new")
        <5>1. CASE w = "cron"
          BY <1>2, <1>3, <2>2, <5>1 DEF DemoKnown, Sending
        <5>2. CASE w \in Post
          BY <1>1, <1>2, <1>3, <5>2 DEF WorkConsistent
        <5> QED
          BY <5>1, <5>2 DEF Worker
      <4> QED
        BY <1>4, <2>2, <4>1
    <3>2. DemoRemembered' /\ DemoBounded'
      BY <1>1, <1>2, <3>1, DemoFrame
    <3> QED
      BY <1>1, <1>5, <3>1, <3>2, SentEffect DEF TypeOK
  <2> QED
    BY <2>1, <2>2
<1>11. TypeOK'
  BY <1>1, <1>2, <1>9, <1>10 DEF TypeOK, OneMore
<1>12. \A q \in Post : (Exists(q)' <=> Exists(q)) /\ post'[q] = post[q]
  BY <1>2 DEF Exists
<1>13. Exists(p)
  <2>1. CASE w = "cron"
    BY <1>1, <1>2, <1>3, <2>1 DEF WorkConsistent
  <2>2. CASE w \in Post
    BY <1>1, <1>2, <1>3, <2>2 DEF WorkConsistent
  <2> QED
    BY <2>1, <2>2 DEF Worker
<1>14. OnlyWritten'
  <2>1. ASSUME NEW q \in Post, ~Exists(q)', NEW n \in Member, NEW k \in Kind
        PROVE  told'[<<q, n, k>>] = 0
    <3>1. q # p /\ told[<<q, n, k>>] = 0
      BY <1>1, <1>12, <1>13, <2>1 DEF OnlyWritten
    <3> QED
      BY <1>10, <3>1 DEF OneMore
  <2>2. cron.batch # None => cron.batch \in SUBSET Post
    BY <1>1, CronTypes
  <2> QED
    BY <1>1, <1>2, <1>12, <2>1, <2>2 DEF OnlyWritten
<1>15. WorkConsistent'
  <2>1. work["cron"] # None => work["cron"].post \in Post
    BY <1>1, Workers, WorkTypes
  <2>2. \A q \in Post : work'[q] # None =>
          /\ work'[q].post = q /\ work'[q].kind = "new" /\ ~work'[q].seed
          /\ Exists(q)' /\ Owner[q] # SeedUser
    <3> SUFFICES ASSUME NEW q \in Post, work'[q] # None
                 PROVE  /\ work'[q].post = q /\ work'[q].kind = "new" /\ ~work'[q].seed
                        /\ Exists(q)' /\ Owner[q] # SeedUser
      OBVIOUS
    <3>1. CASE q = w
      BY <1>1, <1>2, <1>7, <1>9, <1>12, <3>1 DEF WorkConsistent
    <3>2. CASE q # w
      BY <1>1, <1>9, <1>12, <3>2, Workers DEF WorkConsistent
    <3> QED
      BY <3>1, <3>2
  <2>3. work'["cron"] # None =>
       /\ cron'.batch # None /\ work'["cron"].left # None
       /\ work'["cron"].post \notin cron'.batch /\ Exists(work["cron"].post)'
       /\ work'["cron"].kind = Passes[cron'.pass]
       /\ (work'["cron"].seed => work'["cron"].kind = "new" \/ work'["cron"].left = {})
    <3>1. CASE w = "cron"
      <4>1. work'["cron"] = b /\ b.post = p
        BY <1>3, <1>7, <1>9, <3>1
      <4>2. Exists(work["cron"].post)'
        BY <1>12, <1>13, <4>1 DEF Exists
      <4>3. /\ cron.batch # None /\ p \notin cron.batch /\ b.kind = Passes[cron.pass]
            /\ (b.seed => b.kind = "new")
        BY <1>1, <1>2, <1>3, <1>4, <1>7, <3>1 DEF WorkConsistent
      <4> QED
        BY <1>2, <1>7, <4>1, <4>2, <4>3
    <3>2. CASE w # "cron"
      <4>1. work'["cron"] = work["cron"]
        BY <1>9, <3>2, Workers
      <4> QED
        BY <1>1, <1>2, <1>12, <2>1, <4>1 DEF WorkConsistent
    <3> QED
      BY <3>1, <3>2
  <2> QED
    BY <1>1, <1>2, <2>2, <2>3 DEF WorkConsistent
<1>16. BornInOrder'
  BY <1>1, <1>2, SteadyPosts, BornFrame
<1>17. \A q, k : /\ Sending(q, k)' <=> Sending(q, k)
                 /\ Waiting(q, k)' <=> Waiting(q, k)
  <2>1. CASE w = "cron"
    BY <1>2, <1>7, <1>9, <2>1 DEF Sending, Waiting
  <2>2. CASE w # "cron"
    BY <1>2, <1>9, <2>2, Workers DEF Sending, Waiting
  <2> QED
    BY <2>1, <2>2
<1>18. \A q, n, k : Underway(q, n, k)' => Underway(q, n, k)
  <2>1. CASE w = "cron"
    <3>1. \A n : n \in work'["cron"].left => n \in work["cron"].left
      BY <1>6, <1>7, <1>9, <2>1
    <3> QED
      BY <1>17, <3>1 DEF Underway
  <2>2. CASE w # "cron"
    BY <1>9, <1>17, <2>2, Workers DEF Underway
  <2> QED
    BY <2>1, <2>2
<1>19. \A q \in Post, n \in Member, k \in Kind : Ahead(q, n, k)' => Ahead(q, n, k)
  <2>1. \A q \in Post, k \in Kind : Flagged(q, k)' <=> Flagged(q, k)
    BY <1>12 DEF Flagged
  <2> QED
    BY <1>17, <1>18, <2>1 DEF Ahead
<1>20. \A q \in Post, n \in Member : FromGoroutine(q, n)' => FromGoroutine(q, n)
  <2> SUFFICES ASSUME NEW q \in Post, NEW n \in Member, FromGoroutine(q, n)'
               PROVE  FromGoroutine(q, n)
    OBVIOUS
  <2>1. CASE q = w
    BY <1>2, <1>6, <1>7, <1>9, <1>12, <2>1 DEF FromGoroutine
  <2>2. CASE q # w
    BY <1>9, <1>12, <2>2, Workers DEF FromGoroutine
  <2> QED
    BY <2>1, <2>2
<1>21. w = "cron" => /\ Underway(p, m, kind) /\ ~Underway(p, m, kind)'
                     /\ Ahead(p, m, kind) /\ ~Ahead(p, m, kind)'
  <2> SUFFICES ASSUME w = "cron"
               PROVE  /\ Underway(p, m, kind) /\ ~Underway(p, m, kind)'
                      /\ Ahead(p, m, kind) /\ ~Ahead(p, m, kind)'
    OBVIOUS
  <2>1. Sending(p, kind) /\ m \in work["cron"].left
    BY <1>2, <1>3 DEF Sending
  <2>2. p \notin cron'.batch /\ work'["cron"].left = S
    BY <1>1, <1>2, <1>3, <1>7, <1>9 DEF WorkConsistent
  <2>3. ~Waiting(p, kind)' /\ m \notin S
    BY <1>6, <2>2 DEF Waiting
  <2>4. Underway(p, m, kind) /\ ~Underway(p, m, kind)' /\ Sending(p, kind)'
    BY <1>17, <2>1, <2>2, <2>3 DEF Underway
  <2> QED
    BY <2>4 DEF Ahead
<1>22. w # "cron" => kind = "new" /\ FromGoroutine(p, m) /\ ~FromGoroutine(p, m)'
  <2> SUFFICES ASSUME w # "cron"
               PROVE  kind = "new" /\ FromGoroutine(p, m) /\ ~FromGoroutine(p, m)'
    OBVIOUS
  <2>1. w \in Post
    BY DEF Worker
  <2>2. w = p /\ kind = "new"
    BY <1>1, <1>2, <1>3, <2>1 DEF WorkConsistent
  <2>3. FromGoroutine(p, m)
    BY <1>2, <1>4, <2>2 DEF FromGoroutine
  <2>4. Exists(p)' /\ work'[p].left = S /\ S # None /\ m \notin S
    BY <1>6, <1>7, <1>9, <1>12, <1>13, <2>2
  <2>5. ~FromGoroutine(p, m)'
    BY <2>4 DEF FromGoroutine
  <2> QED
    BY <2>2, <2>3, <2>5
<1>23. NewBounded'
  <2>1. ASSUME NEW q \in Post, NEW n \in Member
        PROVE  NewWeight(q, n)' <= (IF Owner[q] = SeedUser THEN 1 ELSE 2) + faults'
    <3>1. PICK a \in BOOLEAN, c \in BOOLEAN : a = Ahead(q, n, "new") /\ c = Ahead(q, n, "new")'
      BY DEF Ahead, Underway, Sending, Waiting
    <3>2. PICK e \in BOOLEAN, d \in BOOLEAN : e = FromGoroutine(q, n) /\ d = FromGoroutine(q, n)'
      BY DEF FromGoroutine
    <3>3. PICK k \in Nat, l \in Nat : k = told[<<q, n, "new">>] /\ l = told'[<<q, n, "new">>]
      BY <1>1, <1>10, ToldType, Kinds DEF OneMore
    <3>4. (c => a) /\ (d => e)
      BY <1>19, <1>20, <3>1, <3>2, Kinds
    <3>5. l = k \/ (l = k + 1 /\ ((a /\ ~c) \/ (e /\ ~d)))
      BY <1>10, <1>21, <1>22, <3>1, <3>2, <3>3, Kinds DEF OneMore
    <3>6. NewWeight(q, n)' = l + One(c) + One(d) /\ NewWeight(q, n) = k + One(a) + One(e)
      BY <3>1, <3>2, <3>3 DEF NewWeight
    <3>7. NewWeight(q, n) <= (IF Owner[q] = SeedUser THEN 1 ELSE 2) + faults
      BY <1>1 DEF NewBounded, NewWeight
    <3>8. faults \in Nat /\ faults' \in Nat /\ faults' >= faults
      BY <1>1, <1>10, PostTypes, Numbers
    <3> HIDE DEF NewWeight
    <3> QED
      BY <3>3, <3>4, <3>5, <3>6, <3>7, <3>8 DEF One
  <2> QED
    BY <2>1 DEF NewBounded, NewWeight
<1>24. ChooseBounded'
  <2>1. ASSUME NEW q \in Post, NEW n \in Member
        PROVE  ChooseWeight(q, n)' <= 1 + faults'
    <3>1. PICK a \in BOOLEAN, c \in BOOLEAN : a = Ahead(q, n, "choose") /\ c = Ahead(q, n, "choose")'
      BY DEF Ahead, Underway, Sending, Waiting
    <3>2. PICK k \in Nat, l \in Nat : k = told[<<q, n, "choose">>] /\ l = told'[<<q, n, "choose">>]
      BY <1>1, <1>10, ToldType, Kinds DEF OneMore
    <3>3. c => a
      BY <1>19, <3>1, Kinds
    <3>4. l = k \/ (l = k + 1 /\ a /\ ~c)
      BY <1>10, <1>21, <1>22, <3>1, <3>2, Kinds DEF OneMore
    <3>5. ChooseWeight(q, n)' = l + One(c) /\ ChooseWeight(q, n) = k + One(a)
      BY <3>1, <3>2 DEF ChooseWeight
    <3>6. ChooseWeight(q, n) <= 1 + faults
      BY <1>1 DEF ChooseBounded, ChooseWeight
    <3>7. faults \in Nat /\ faults' \in Nat /\ faults' >= faults
      BY <1>1, <1>10, PostTypes, Numbers
    <3> HIDE DEF ChooseWeight
    <3> QED
      BY <3>2, <3>3, <3>4, <3>5, <3>6, <3>7 DEF One
  <2> QED
    BY <2>1 DEF ChooseBounded, ChooseWeight
<1>25. EndingBounded'
  <2>1. ASSUME NEW q \in Post, NEW n \in Member, Exists(q)'
        PROVE  EndingWeight(q, n)' <= post'[q].runs * MaxCalls + faults'
    <3>1. PICK a \in BOOLEAN, c \in BOOLEAN :
            a = Underway(q, n, "ending") /\ c = Underway(q, n, "ending")'
      BY DEF Underway, Sending, Waiting
    <3>2. PICK k \in Nat, l \in Nat : k = told[<<q, n, "ending">>] /\ l = told'[<<q, n, "ending">>]
      BY <1>1, <1>10, ToldType, Kinds DEF OneMore
    <3>3. c => a
      BY <1>18, <3>1
    <3>4. l = k \/ (l = k + 1 /\ a /\ ~c)
      BY <1>10, <1>21, <1>22, <3>1, <3>2, Kinds DEF OneMore
    <3>5. PICK x \in Nat : x = Later(NextCall(q), post[q].end)
      <4>1. NextCall(q) \in Int /\ post[q].end \in Int
        BY <1>1, NextCallType, PostTypes
      <4> QED
        BY <4>1, LaterType
    <3>6. Later(NextCall(q), post[q].end)' = x
      <4>1. NextCall(q)' = NextCall(q)
        BY <1>2, <1>12, <1>17 DEF NextCall
      <4> QED
        BY <1>12, <3>5, <4>1 DEF Later, Room
    <3>7. EndingWeight(q, n)' = l + One(c) + x /\ EndingWeight(q, n) = k + One(a) + x
      BY <3>1, <3>2, <3>5, <3>6 DEF EndingWeight
    <3>8. EndingWeight(q, n) <= post[q].runs * MaxCalls + faults /\ post'[q].runs = post[q].runs
      BY <1>1, <1>12, <2>1 DEF EndingBounded, EndingWeight
    <3>9. PICK y \in Int : y = post[q].runs * MaxCalls
      <4>1. MaxCalls \in Nat
        BY <1>1, LaterMost, NextCallType, PostTypes
      <4> QED
        BY <1>1, <4>1, PostTypes
    <3>10. faults \in Nat /\ faults' \in Nat /\ faults' >= faults
      BY <1>1, <1>10, PostTypes, Numbers
    <3> HIDE DEF EndingWeight
    <3> QED
      BY <3>2, <3>3, <3>4, <3>5, <3>7, <3>8, <3>9, <3>10 DEF One
  <2> QED
    BY <2>1 DEF EndingBounded, EndingWeight
<1> QED
  BY <1>10, <1>11, <1>14, <1>15, <1>16, <1>23, <1>24, <1>25 DEF Counted

-----------------------------------------------------------------------------
(* The start, and the invariant.                                            *)

\* A finite set as a sequence: every element at one place.
LEMMA ListedOnce ==
  ASSUME NEW S, IsFiniteSet(S)
  PROVE  /\ SetToSeq(S) \in [1 .. Cardinality(S) -> S]
         /\ \A p \in S : \E k \in 1 .. Cardinality(S) : SetToSeq(S)[k] = p
         /\ Cardinality(S) \in Nat
<1>1. PICK n \in Nat : n = Cardinality(S)
  BY FS_CardinalityType
<1>2. ExistsBijection(1 .. n, S)
  BY <1>1, FS_CardinalityType
<1>3. \E f \in [1 .. n -> S] : IsInjective(f)
  BY <1>2 DEF ExistsBijection, Bijection, Injection
<1>4. PICK f : f = SetToSeq(S)
  OBVIOUS
<1>5. f \in [1 .. n -> S] /\ IsInjective(f)
  BY <1>1, <1>3, <1>4 DEF SetToSeq
<1>6. f \in Injection(1 .. n, S)
  BY <1>5 DEF Injection
<1>7. IsFiniteSet(1 .. n) /\ Cardinality(1 .. n) = n
  BY FS_Interval
<1>8. f \in Surjection(1 .. n, S)
  BY <1>1, <1>6, <1>7, FS_Injection
<1>9. \A p \in S : \E k \in 1 .. n : f[k] = p
  BY <1>8 DEF Surjection
<1> QED
  BY <1>1, <1>4, <1>5, <1>9

\* The counts are right in every situation the program starts in.
LEMMA Starts == Init => Counted
<1> SUFFICES ASSUME Init PROVE Counted
  OBVIOUS
<1>1. PICK s \in Start :
       LET at(p)   == s.post[p]
           written == SetToSeq({p \in Post : at(p) # "none"})
           born(p) == IF at(p) = "none" THEN 0 ELSE CHOOSE k \in DOMAIN written : written[k] = p
       IN  /\ post = [p \in Post |->
                [status |-> at(p), end |-> IF at(p) = "active" THEN s.now + Duration ELSE s.now,
                 born |-> born(p), notified |-> at(p) \notin {"none", "pending_approval"},
                 warned |-> FALSE, motivated |-> None, runs |-> IF at(p) = "none" THEN 0 ELSE 1]]
           /\ user = [m \in Member |->
                [status |-> IF m \in s.banned THEN "banned" ELSE "active",
                 interests |-> Profile[m].interests]]
           /\ now = s.now /\ faults = s.faults
           /\ told = [x \in Post \X Member \X Kind |->
                        IF /\ at(x[1]) \in {"active", "suspended"} /\ x[3] = "new"
                           /\ Owner[x[1]] # SeedUser
                        THEN 1 ELSE 0]
  BY DEF Init
<1>2. /\ quota = [m \in Member |-> None] /\ seed = [next |-> 0, isBuy |-> FALSE]
      /\ cron = Idle /\ work = [w \in Worker |-> None]
      /\ demo = [m \in Member |-> <<>>] /\ mistaken = {} /\ missed = {}
  BY DEF Init
<1>3. PICK at : at = s.post
  OBVIOUS
<1>4. at \in [Post -> Status] /\ s.now \in 0 .. MaxTime /\ s.faults \in 0 .. MaxFaults
  BY <1>3, NoticesAssumption
<1>5. PICK S \in SUBSET Post : S = {p \in Post : at[p] # "none"}
  OBVIOUS
<1>6. IsFiniteSet(S)
  BY Constants, FS_Subset
<1>7. PICK n \in Nat : n = Cardinality(S)
  BY <1>6, FS_CardinalityType
<1>8. PICK list : list = SetToSeq(S)
  OBVIOUS
<1>9. list \in [1 .. n -> S] /\ \A p \in S : \E k \in 1 .. n : list[k] = p
  BY <1>6, <1>7, <1>8, ListedOnce
<1>10. PICK born : born = [p \in Post |->
          IF at[p] = "none" THEN 0 ELSE CHOOSE k \in DOMAIN list : list[k] = p]
  OBVIOUS
<1>11. \A p \in Post : IF p \in S THEN born[p] \in 1 .. n /\ list[born[p]] = p ELSE born[p] = 0
  BY <1>5, <1>9, <1>10
<1>12. \A p \in Post :
          post[p] = [status |-> at[p], end |-> IF at[p] = "active" THEN s.now + Duration ELSE s.now,
                     born |-> born[p], notified |-> at[p] \notin {"none", "pending_approval"},
                     warned |-> FALSE, motivated |-> None, runs |-> IF at[p] = "none" THEN 0 ELSE 1]
  BY <1>1, <1>3, <1>5, <1>10, <1>8
<1>13. DOMAIN post = Post /\ post = [p \in Post |-> post[p]]
  BY <1>1
<1>14. ASSUME NEW p \in Post
       PROVE  /\ post[p] \in Row /\ post[p].status = at[p] /\ post[p].born = born[p]
              /\ post[p].notified = (at[p] \notin {"none", "pending_approval"})
              /\ post[p].warned = FALSE /\ post[p].motivated = None
              /\ post[p].runs = (IF at[p] = "none" THEN 0 ELSE 1)
  <2>1. PICK e : e = IF at[p] = "active" THEN s.now + Duration ELSE s.now
    OBVIOUS
  <2>2. e \in 0 .. MaxTime + Duration
    BY <1>4, <2>1, Numbers
  <2>3. PICK r : r = IF at[p] = "none" THEN 0 ELSE 1
    OBVIOUS
  <2>4. r \in 0 .. MaxRuns
    BY <2>3, Numbers
  <2>5. PICK f \in BOOLEAN, g \in BOOLEAN : f = (at[p] \notin {"none", "pending_approval"}) /\ g = FALSE
    OBVIOUS
  <2>6. born[p] \in Nat /\ at[p] \in Status
    BY <1>4, <1>11
  <2>7. post[p] = [status |-> at[p], end |-> e, born |-> born[p], notified |-> f,
                   warned |-> g, motivated |-> None, runs |-> r]
    BY <1>12, <2>1, <2>3, <2>5
  <2> QED
    BY <2>2, <2>3, <2>4, <2>5, <2>6, <2>7 DEF Row
<1>15. \A p \in Post : Exists(p) <=> p \in S
  BY <1>5, <1>14 DEF Exists
<1>16. Written = n
  <2>1. {p \in Post : Exists(p)} = S
    BY <1>15
  <2> QED
    BY <1>7, <2>1 DEF Written
<1>17. BornInOrder
  <2>1. \A p \in Post : Exists(p) => post[p].born \in 1 .. Written
    BY <1>11, <1>14, <1>15, <1>16
  <2>2. ASSUME NEW p \in Post, NEW q \in Post, Exists(p), Exists(q), post[p].born = post[q].born
        PROVE  p = q
    <3>1. list[born[p]] = p /\ list[born[q]] = q
      BY <1>11, <1>15, <2>2
    <3>2. born[p] = born[q]
      BY <1>14, <2>2
    <3> QED
      BY <3>1, <3>2
  <2> QED
    BY <2>1, <2>2 DEF BornInOrder
<1>18. \A p \in Post, m \in Member, kind \in Kind :
          told[<<p, m, kind>>] = IF /\ at[p] \in {"active", "suspended"} /\ kind = "new"
                                     /\ Owner[p] # SeedUser
                                  THEN 1 ELSE 0
  BY <1>1, <1>3
<1>19. /\ cron.batch = None /\ cron.pass = 0 /\ \A w \in Worker : work[w] = None
       /\ cron \in [pass : 0 .. Len(Passes), batch : (SUBSET Post) \cup {None}, knows : BOOLEAN]
  BY <1>2, PassCount DEF Idle
<1>20. TypeOK
  <2>1. post \in [Post -> Row]
    BY <1>13, <1>14
  <2>2. /\ user \in [Member -> [status : {"active", "suspended", "banned"}, interests : Picks]]
        /\ now \in Time /\ faults \in 0 .. MaxFaults
    <3>1. user \in [Member -> [status : {"active", "suspended", "banned"}, interests : Picks]]
      BY <1>1, NoticesAssumption
    <3> QED
      BY <1>1, <1>4, <3>1 DEF Time
  <2>3. told \in [Post \X Member \X Kind -> Nat]
    BY <1>1
  <2>4. quota \in [Member -> QuotaRow \cup {None}] /\ work \in [Worker -> Broadcast \cup {None}]
    BY <1>2
  <2>5. demo \in [Member -> Seq(Time)]
    <3>1. <<>> \in Seq(Time)
      OBVIOUS
    <3> QED
      BY <1>2, <3>1
  <2>6. mistaken \subseteq Post /\ missed \subseteq Post \X Member
    BY <1>2
  <2>7. seed \in [next : Nat, isBuy : BOOLEAN]
    BY <1>2
  <2> QED
    <3>1. cron \in [pass : 0 .. Len(Passes), batch : (SUBSET Post) \cup {None}, knows : BOOLEAN]
      BY <1>19
    <3>2. faults \in 0 .. MaxFaults
      BY <2>2
    <3> QED
      BY Zenon, <2>1, <2>2, <2>3, <2>4, <2>7, <2>5, <2>6, <3>1, <3>2 DEF TypeOK
<1>21. OnlyWritten
  <2>1. ASSUME NEW p \in Post, ~Exists(p)
        PROVE  post[p].runs = 0 /\ \A m \in Member, kind \in Kind : told[<<p, m, kind>>] = 0
    <3>1. at[p] = "none"
      BY <1>5, <1>15, <2>1
    <3>2. post[p].runs = 0
      BY <1>14, <3>1
    <3>3. \A m \in Member, kind \in Kind : told[<<p, m, kind>>] = 0
      BY <1>18, <3>1
    <3> QED
      BY <3>2, <3>3
  <2> QED
    BY <1>19, <2>1 DEF OnlyWritten
<1>22. WorkConsistent
  BY <1>19, Workers DEF WorkConsistent
<1>23. \A p, m, kind : ~Sending(p, kind) /\ ~Waiting(p, kind) /\ ~Underway(p, m, kind)
  BY <1>19, Workers DEF Sending, Waiting, Underway
<1>24. \A p \in Post, m \in Member : FromGoroutine(p, m) <=> p \notin S /\ Owner[p] # SeedUser
  BY <1>15, <1>19, Workers DEF FromGoroutine
<1>25. faults \in Nat
  BY <1>20, PostTypes, Numbers DEF TypeOK
<1>26. NewBounded
  <2>1. ASSUME NEW p \in Post, NEW m \in Member
        PROVE  NewWeight(p, m) <= (IF Owner[p] = SeedUser THEN 1 ELSE 2) + faults
    <3>1. Ahead(p, m, "new") <=> at[p] \in {"none", "pending_approval"}
      BY <1>14, <1>23 DEF Ahead, Flagged
    <3>2. told[<<p, m, "new">>] = IF at[p] \in {"active", "suspended"} /\ Owner[p] # SeedUser
                                  THEN 1 ELSE 0
      BY <1>18, Kinds
    <3>3. FromGoroutine(p, m) <=> at[p] = "none" /\ Owner[p] # SeedUser
      BY <1>5, <1>24
    <3> QED
      BY <1>25, <3>1, <3>2, <3>3 DEF NewWeight, One
  <2> QED
    BY <2>1 DEF NewBounded, NewWeight
<1>27. ChooseBounded
  <2>1. ASSUME NEW p \in Post, NEW m \in Member
        PROVE  ChooseWeight(p, m) <= 1 + faults
    <3>1. told[<<p, m, "choose">>] = 0
      BY <1>18, Kinds
    <3> QED
      BY <1>25, <3>1 DEF ChooseWeight, One
  <2> QED
    BY <2>1 DEF ChooseBounded, ChooseWeight
<1>28. EndingBounded
  <2>1. ASSUME NEW p \in Post, NEW m \in Member, Exists(p)
        PROVE  EndingWeight(p, m) <= post[p].runs * MaxCalls + faults
    <3>1. told[<<p, m, "ending">>] = 0 /\ ~Underway(p, m, "ending")
      BY <1>18, <1>23, Kinds
    <3>2. post[p].runs = 1
      BY <1>5, <1>14, <1>15, <2>1
    <3>3. NextCall(p) \in Int /\ post[p].end \in Int
      BY <1>20, NextCallType, PostTypes
    <3>4. PICK x \in Nat : x = Later(NextCall(p), post[p].end)
      BY <3>3, LaterType
    <3>5. x <= MaxCalls /\ MaxCalls \in Nat
      BY <3>3, <3>4, LaterMost
    <3>6. EndingWeight(p, m) = x
      BY <3>1, <3>4 DEF EndingWeight, One
    <3> QED
      BY <1>25, <3>2, <3>4, <3>5, <3>6
  <2> QED
    BY <2>1 DEF EndingBounded, EndingWeight
<1>29. DemoRemembered /\ DemoBounded
  BY <1>2 DEF DemoRemembered, DemoBounded
<1> QED
  BY <1>17, <1>20, <1>21, <1>22, <1>26, <1>27, <1>28, <1>29 DEF Counted

\* No step leaves the counts, as long as demo posts are known.
LEMMA CountedStep == Counted /\ DemoKnown /\ [Next]_vars => Counted'
<1> SUFFICES ASSUME Counted, DemoKnown, [Next]_vars PROVE Counted'
  OBVIOUS
<1>1. CASE \E p \in Post : CreatePost(p) \/ ReadAudience(p) \/ Send(p) \/ Mark(p)
                            \/ Moderate(p) \/ Decide(p)
  BY <1>1, Workers, CreatePostStep, ReadAudienceStep, SendStep, MarkStep, ModerateStep, DecideStep
<1>2. CASE \E m \in Moving : SuspendUser(m) \/ UnsuspendUser(m) \/ ReplaceUserInterests(m)
  BY <1>2, UserStep, NoticesAssumption
<1>3. CASE CronStep
  BY <1>3, Workers, SeedAuctionsStep, ReadBatchStep, NextRowStep, EndPassStep, SendStep, MarkStep
     DEF CronStep
<1>4. CASE Crash
  BY <1>4, CrashStep
<1>5. CASE Tick
  BY <1>5, TickStep
<1>6. CASE UNCHANGED vars
  <2>1. UNCHANGED <<post, user, now, Books, seed, mistaken, missed>>
    BY <1>6 DEF vars, Books
  <2>2. TypeOK'
    <3>1. UNCHANGED <<post, user, now, quota, seed, cron, work, told, demo, mistaken, missed, faults>>
      BY <1>6 DEF vars
    <3> QED
      BY <3>1 DEF Counted, TypeOK
  <2> QED
    BY <2>1, <2>2, SteadyPosts, SteadyStep
<1> QED
  BY <1>1, <1>2, <1>3, <1>4, <1>5, <1>6 DEF Next

-----------------------------------------------------------------------------
(* What the cron knows of the demo posts.                                   *)

\* What the cron sends of a known demo post goes under the allowance.
LEMMA KnownFrame ==
  ASSUME TypeOK, DemoKnown, mistaken' = mistaken, Fault \/ UNCHANGED faults,
         \A p \in Post, m \in Member : Owner[p] = SeedUser /\ p \notin mistaken =>
           told'[<<p, m, "ending">>] = told[<<p, m, "ending">>],
         work'["cron"] # None =>
           /\ work["cron"] # None /\ work'["cron"].post = work["cron"].post
           /\ work'["cron"].kind = work["cron"].kind /\ work'["cron"].seed = work["cron"].seed
           /\ work["cron"].left = {} => work'["cron"].left = {}
  PROVE  DemoKnown'
<1>1. Cardinality(mistaken) \in Nat
  BY Constants, FS_Subset, FS_CardinalityType DEF TypeOK
<1>2. faults \in Nat /\ faults' \in Nat /\ faults' >= faults
  BY FaultType, Numbers DEF TypeOK
<1>3. Cardinality(mistaken') <= faults'
  BY <1>1, <1>2 DEF DemoKnown
<1>4. \A p, kind : Sending(p, kind)' => Sending(p, kind)
  BY DEF Sending
<1> QED
  BY <1>3, <1>4 DEF DemoKnown, Sending

\* One more notice is no call for a known demo post.
LEMMA SendKnown ==
  ASSUME Counted, DemoKnown, NEW w \in Worker, Send(w)
  PROVE  DemoKnown'
<1>1. TypeOK /\ WorkConsistent
  BY DEF Counted
<1>2. work[w] # None /\ work[w].left # None /\ mistaken' = mistaken
  BY DEF Send
<1>3. PICK p \in Post, kind \in Kind : p = work[w].post /\ kind = work[w].kind
  BY <1>1, <1>2, WorkTypes
<1>4. PICK m \in work[w].left :
           /\ Begin(w, [work[w] EXCEPT !.left = @ \ {m}])
           /\ SendDemo(p, m, kind) \/ SendToUser(p, m, kind)
  BY <1>3 DEF Send
<1>5. m \in Member /\ work[w].left \in SUBSET Member
  BY <1>1, <1>2, WorkTypes
<1>6. PICK S \in SUBSET Member : S = work[w].left \ {m}
  BY <1>5
<1>7. PICK b \in Broadcast :
           /\ b = [work[w] EXCEPT !.left = S] /\ b # None /\ b.left = S /\ b.left # None
           /\ b.post = work[w].post /\ b.kind = work[w].kind /\ b.seed = work[w].seed
  BY <1>1, <1>2, LeftSet
<1>8. Begin(w, b)
  <2>1. [work[w] EXCEPT !.left = @ \ {m}] = [work[w] EXCEPT !.left = S]
    BY <1>1, <1>2, <1>6, WorkTypes
  <2> QED
    BY <1>4, <1>7, <2>1
<1>9. /\ work'[w] = b /\ \A v \in Worker : v # w => work'[v] = work[v]
  BY <1>1, <1>8, BeginSet
<1>10. OneMore(p, m, kind) /\ (Fault \/ UNCHANGED faults)
  <2>1. \/ SendToUser(p, m, kind)
        \/ UNCHANGED <<told, missed, faults>>
        \/ Fault /\ Miss(p, {m}, kind) /\ UNCHANGED told
    BY <1>4 DEF SendDemo
  <2>2. Fault \/ UNCHANGED faults
    BY <2>1 DEF SendToUser
  <2> QED
    BY <1>1, <1>5, <2>1, <2>2, SentEffect
<1>11. ASSUME NEW q \in Post, NEW n \in Member, Owner[q] = SeedUser, q \notin mistaken
       PROVE  told'[<<q, n, "ending">>] = told[<<q, n, "ending">>]
  <2>1. ~ (p = q /\ kind = "ending")
    <3>1. CASE w = "cron"
      BY <1>2, <1>3, <1>4, <1>11, <3>1 DEF DemoKnown, Sending
    <3>2. CASE w \in Post
      BY <1>1, <1>2, <1>3, <3>2 DEF WorkConsistent
    <3> QED
      BY <3>1, <3>2 DEF Worker
  <2> QED
    BY <1>10, <2>1, Kinds DEF OneMore
<1>12. work'["cron"] # None =>
           /\ work["cron"] # None /\ work'["cron"].post = work["cron"].post
           /\ work'["cron"].kind = work["cron"].kind /\ work'["cron"].seed = work["cron"].seed
           /\ work["cron"].left = {} => work'["cron"].left = {}
  <2>1. CASE w = "cron"
    BY <1>2, <1>4, <1>7, <1>9, <2>1
  <2>2. CASE w # "cron"
    BY <1>9, <2>2, Workers
  <2> QED
    BY <2>1, <2>2
<1> QED
  BY <1>1, <1>2, <1>10, <1>11, <1>12, KnownFrame

\* A demo post is taken for one, or a call fails.
LEMMA TakeKnown ==
  ASSUME TypeOK, DemoKnown, NEW p \in Post, NEW kind \in {"new", "ending"},
         NEW audience \in SUBSET Member, TakeRow(p, kind, audience),
         Owner[p] = SeedUser => kind = "new" \/ audience = {}
  PROVE  DemoKnown'
<1>1. work \in [Worker -> Broadcast \cup {None}] /\ UNCHANGED told
  BY DEF TypeOK, TakeRow
<1>2. IsFiniteSet(mistaken) /\ Cardinality(mistaken) \in Nat
  BY Constants, FS_Subset, FS_CardinalityType DEF TypeOK
<1>3. faults \in Nat /\ Cardinality(mistaken) <= faults
  BY Numbers DEF TypeOK, DemoKnown
<1>4. Fault \/ UNCHANGED faults
  BY DEF TakeRow
<1>5. faults' \in Nat /\ faults' >= faults
  BY <1>4, FaultType, Numbers
<1>6. ASSUME NEW S, NEW s, mistaken' = mistaken,
             Begin("cron", [post |-> p, kind |-> kind, seed |-> s, left |-> S]),
             Owner[p] = SeedUser => s, Owner[p] = SeedUser /\ kind = "ending" => S = {}
      PROVE  DemoKnown'
  <2>1. work'["cron"] = [post |-> p, kind |-> kind, seed |-> s, left |-> S]
    BY <1>1, <1>6, Workers DEF Begin
  <2>2. /\ work'["cron"].post = p /\ work'["cron"].kind = kind
        /\ work'["cron"].seed = s /\ work'["cron"].left = S
    BY <2>1
  <2>3. Cardinality(mistaken') <= faults'
    BY <1>2, <1>3, <1>5, <1>6
  <2> QED
    BY <1>1, <1>6, <2>2, <2>3 DEF DemoKnown, Sending
<1>7. CASE /\ Fault /\ mistaken' = mistaken \cup {p}
           /\ Begin("cron", [post |-> p, kind |-> kind, seed |-> FALSE, left |-> Audience(p)])
  <2>1. work'["cron"].post = p
    BY <1>1, <1>7, Workers DEF Begin
  <2>2. Cardinality(mistaken') <= Cardinality(mistaken) + 1 /\ Cardinality(mistaken') \in Nat
    <3>1. CASE p \in mistaken
      BY <1>2, <1>7, <3>1
    <3>2. CASE p \notin mistaken
      BY <1>2, <1>7, <3>2, FS_AddElement
    <3> QED
      BY <3>1, <3>2
  <2>3. faults' = faults + 1
    BY <1>7 DEF Fault
  <2>4. Cardinality(mistaken') <= faults'
    BY <1>2, <1>3, <2>2, <2>3
  <2> QED
    BY <1>1, <1>7, <2>1, <2>4 DEF DemoKnown, Sending
<1>8. CASE UNCHANGED <<work, mistaken>>
  BY <1>1, <1>4, <1>8, KnownFrame
<1>9. PICK isSeed \in BOOLEAN : isSeed = (Owner[p] = SeedUser)
  OBVIOUS
<1>10. CASE /\ mistaken' = mistaken
            /\ \/ Begin("cron", [post |-> p, kind |-> kind, seed |-> isSeed, left |-> audience])
               \/ Begin("cron", [post |-> p, kind |-> kind, seed |-> isSeed,
                                 left |-> audience \ Retailers])
  BY <1>6, <1>9, <1>10
<1> QED
  BY <1>7, <1>8, <1>9, <1>10 DEF TakeRow

\* No step hides a demo post, unless a call fails.
LEMMA KnownStep == Counted /\ DemoKnown /\ [Next]_vars => DemoKnown'
<1> SUFFICES ASSUME Counted, DemoKnown, [Next]_vars PROVE DemoKnown'
  OBVIOUS
<1>1. TypeOK
  BY DEF Counted
<1>2. work \in [Worker -> Broadcast \cup {None}] /\ "cron" \in Worker /\ "cron" \notin Post
  BY <1>1, Workers DEF TypeOK
<1>3. ASSUME NEW p \in Post, CreatePost(p) \/ ReadAudience(p) PROVE DemoKnown'
  <2>1. work'["cron"] = work["cron"]
    BY <1>2, <1>3 DEF CreatePost, ReadAudience, Begin
  <2>2. UNCHANGED <<told, mistaken>> /\ (Fault \/ UNCHANGED faults)
    BY <1>3 DEF CreatePost, ReadAudience
  <2> QED
    BY <1>1, <2>1, <2>2, KnownFrame
<1>4. ASSUME NEW w \in Worker, Mark(w) PROVE DemoKnown'
  <2>1. work'["cron"] = work["cron"] \/ work'["cron"] = None
    BY <1>2, <1>4 DEF Mark, Begin
  <2>2. UNCHANGED <<told, mistaken>> /\ (Fault \/ UNCHANGED faults)
    BY <1>4 DEF Mark
  <2> QED
    BY <1>1, <2>1, <2>2, KnownFrame
<1>5. ASSUME UNCHANGED <<work, told, mistaken>>, Fault \/ UNCHANGED faults PROVE DemoKnown'
  BY <1>1, <1>5, KnownFrame
<1>6. ASSUME NEW p \in Post, Moderate(p) \/ Decide(p) PROVE DemoKnown'
  BY <1>5, <1>6 DEF Moderate, Decide, Unsent
<1>7. ASSUME NEW m \in Moving, SuspendUser(m) \/ UnsuspendUser(m) \/ ReplaceUserInterests(m)
      PROVE  DemoKnown'
  BY <1>5, <1>7 DEF SuspendUser, UnsuspendUser, ReplaceUserInterests, Becomes
<1>8. CASE Crash
  <2>1. work'["cron"] = None
    BY <1>2, <1>8 DEF Crash
  <2>2. UNCHANGED <<told, mistaken>> /\ Fault
    BY <1>8 DEF Crash
  <2> QED
    BY <1>1, <2>1, <2>2, KnownFrame
<1>9. CASE SeedAuctions \/ ReadBatch \/ EndPass \/ Tick \/ UNCHANGED vars
  <2>1. UNCHANGED <<work, told, mistaken>>
    BY <1>9 DEF SeedAuctions, ReadBatch, EndPass, Tick, Unsent, vars
  <2>2. Fault \/ UNCHANGED faults
    BY <1>9 DEF SeedAuctions, ReadBatch, EndPass, Tick, Unsent, vars
  <2> QED
    BY <1>5, <2>1, <2>2
<1>10. ASSUME NEW p \in Post, AnnounceNew(p) PROVE DemoKnown'
  <2>1. Audience(p) \in SUBSET Member
    BY DEF Audience
  <2> QED
    BY <1>1, <1>10, <2>1, TakeKnown DEF AnnounceNew
<1>11. ASSUME NEW p \in Post, CallAgain(p) PROVE DemoKnown'
  <2>1. PICK audience \in SUBSET Member :
          audience = IF Owner[p] = SeedUser THEN {} ELSE Audience(p)
    BY DEF Audience
  <2>2. TakeRow(p, "ending", audience)
    BY <1>11, <2>1 DEF CallAgain
  <2> QED
    BY <1>1, <2>1, <2>2, TakeKnown
<1>12. ASSUME NEW p \in Post, WarnOwner(p) PROVE DemoKnown'
  <2>1. work'["cron"] = [post |-> p, kind |-> "choose", seed |-> FALSE, left |-> {Owner[p]}]
    BY <1>2, <1>12 DEF WarnOwner, Begin
  <2>2. work'["cron"].kind = "choose" /\ UNCHANGED <<told, mistaken, faults>>
    BY <1>12, <2>1 DEF WarnOwner
  <2> QED
    BY <2>2 DEF DemoKnown, Sending
<1>13. CASE CronStep
  BY <1>2, <1>4, <1>9, <1>10, <1>11, <1>12, <1>13, SendKnown DEF CronStep, NextRow
<1>14. CASE \E p \in Post : CreatePost(p) \/ ReadAudience(p) \/ Send(p) \/ Mark(p)
                             \/ Moderate(p) \/ Decide(p)
  BY <1>3, <1>4, <1>6, <1>14, SendKnown DEF Worker
<1> QED
  BY <1>7, <1>8, <1>9, <1>13, <1>14 DEF Next

\* The invariant holds at the start.
LEMMA StartsKnown == Init => IInv
<1> SUFFICES ASSUME Init PROVE IInv
  OBVIOUS
<1>1. Counted
  BY Starts
<1>2. mistaken = {} /\ work["cron"] = None
  BY Workers DEF Init
<1>3. \A p \in Post, m \in Member : told[<<p, m, "ending">>] = 0
  BY Kinds DEF Init
<1>4. faults \in Nat
  BY <1>1, Numbers DEF Counted, TypeOK
<1>5. Cardinality({}) = 0
  BY FS_EmptySet
<1> QED
  BY <1>1, <1>2, <1>3, <1>4, <1>5 DEF IInv, DemoKnown, Sending

\* No step leaves the invariant.
LEMMA Inductive == IInv /\ [Next]_vars => IInv'
BY CountedStep, KnownStep DEF IInv

\* The invariant holds in every reachable state.
THEOREM InductiveInvariant == Spec => []IInv
BY StartsKnown, Inductive, PTL DEF Spec

\* Every variable keeps its type.
THEOREM TypeCorrect == Spec => []TypeOK
<1>1. IInv => TypeOK
  BY DEF IInv, Counted
<1> QED
  BY <1>1, InductiveInvariant, PTL

\* The invariant is more than the bounds.
LEMMA Bounds == IInv => NoticesAreBounded
<1> SUFFICES ASSUME IInv PROVE NoticesAreBounded
  OBVIOUS
<1>1. TypeOK /\ NewBounded /\ ChooseBounded /\ EndingBounded /\ DemoBounded /\ OnlyWritten
  BY DEF IInv, Counted
<1>2. ASSUME NEW p \in Post, NEW m \in Member
      PROVE  /\ told[<<p, m, "new">>] <= (IF Owner[p] = SeedUser THEN 1 ELSE 2) + faults
             /\ told[<<p, m, "choose">>] <= 1 + faults
             /\ told[<<p, m, "ending">>] <= post[p].runs * MaxCalls + faults
  <2>1. PICK a \in Nat, b \in Nat, c \in Nat :
           a = told[<<p, m, "new">>] /\ b = told[<<p, m, "choose">>] /\ c = told[<<p, m, "ending">>]
    BY <1>1, ToldType, Kinds
  <2>2. faults \in Nat /\ post[p].runs \in Nat
    BY <1>1, PostTypes
  <2>3. a <= (IF Owner[p] = SeedUser THEN 1 ELSE 2) + faults
    <3>1. a + One(Ahead(p, m, "new")) + One(FromGoroutine(p, m))
            <= (IF Owner[p] = SeedUser THEN 1 ELSE 2) + faults
      BY <1>1, <2>1 DEF NewBounded
    <3> QED
      BY <2>2, <3>1 DEF One
  <2>4. b <= 1 + faults
    <3>1. b + One(Ahead(p, m, "choose")) <= 1 + faults
      BY <1>1, <2>1 DEF ChooseBounded
    <3> QED
      BY <2>2, <3>1 DEF One
  <2>5. NextCall(p) \in Int /\ post[p].end \in Int
    BY <1>1, NextCallType, PostTypes
  <2>6. PICK x \in Nat : x = Later(NextCall(p), post[p].end)
    BY <2>5, LaterType
  <2>7. MaxCalls \in Nat
    BY <2>5, LaterMost
  <2>8. c <= post[p].runs * MaxCalls + faults
    <3>1. CASE Exists(p)
      <4>1. PICK y \in Nat : y = post[p].runs * MaxCalls
        BY <2>2, <2>7
      <4>2. c + One(Underway(p, m, "ending")) + x <= y + faults
        BY <1>1, <2>1, <2>6, <3>1, <4>1 DEF EndingBounded
      <4> QED
        BY <2>2, <4>1, <4>2 DEF One
    <3>2. CASE ~Exists(p)
      <4>1. c = 0
        BY <1>1, <2>1, <3>2, Kinds DEF OnlyWritten
      <4> QED
        BY <2>2, <2>7, <4>1
    <3> QED
      BY <3>1, <3>2
  <2> QED
    BY <2>1, <2>3, <2>4, <2>8
<1>3. MaxCalls = 1 + (EndingWindow - 1) \div (EndingGap + 1)
  BY DEF MaxCalls
<1>4. /\ Cardinality(mistaken) <= faults
      /\ \A p \in Post, m \in Member :
           Owner[p] = SeedUser /\ p \notin mistaken => told[<<p, m, "ending">>] = 0
  BY DEF IInv, DemoKnown
<1> QED
  BY <1>1, <1>2, <1>3, <1>4 DEF NoticesAreBounded, DemoBounded

\* A goroutine and the cron that meet on one post, failed marks and restarts
\* tell a member of it at most twice and once more per fault; the warning and the
\* calls are bounded alike; a demo post is never called for, and its notices keep
\* to their hours, their number a day and their distance, but for the posts that
\* failed lookups, no more of these than faults, had taken for a member's.
THEOREM NoticesBounded == Spec => []NoticesAreBounded
BY InductiveInvariant, Bounds, PTL
-----------------------------------------------------------------------------
(* Lists and their pages.                                                  *)

\* The order < on the natural numbers, as a relation.
Less == {ss \in Nat \X Nat : ss[1] < ss[2]}

\* There is no infinite descent among the natural numbers.
LEMMA LessWF == IsWellFoundedOn(Less, Nat)
BY NatLessThanWellFounded, Zenon DEF OpToRel, Less

\* A non-empty set of natural numbers has a smallest element.
LEMMA SmallestElement ==
  ASSUME NEW T \in SUBSET Nat, T # {}
  PROVE  \E m \in T : \A k \in T : m <= k
<1>1. PICK m \in T : \A k \in T : ~ (<<k, m>> \in Less)
  BY LessWF, WFMin
<1>2. ASSUME NEW k \in T PROVE m <= k
  <2>1. k \in Nat /\ m \in Nat /\ <<k, m>> \notin Less
    BY <1>1
  <2> QED
    BY <2>1 DEF Less
<1> QED
  BY <1>2

\* The rows that a strict total order has before p.
Below(S, R, p) == {q \in S : <<q, p>> \in R}

\* Their number.
Rank(S, R, p) == Cardinality(Below(S, R, p))

\* R orders S strictly, one after the other.
Orders(S, R) ==
  /\ \A p \in S : <<p, p>> \notin R
  /\ \A p, q \in S : p # q => <<p, q>> \in R \/ <<q, p>> \in R
  /\ \A p, q, r \in S : <<p, q>> \in R /\ <<q, r>> \in R => <<p, r>> \in R

\* The number of rows before a row tells it from every other, and every number
\* below the number of rows is one row's.
LEMMA Ranks ==
  ASSUME NEW S, IsFiniteSet(S), NEW R, Orders(S, R)
  PROVE  /\ \A p \in S : Rank(S, R, p) \in 0 .. Cardinality(S) - 1
         /\ \A p, q \in S : Rank(S, R, p) = Rank(S, R, q) => p = q
         /\ \A k \in 0 .. Cardinality(S) - 1 : \E p \in S : Rank(S, R, p) = k
<1> DEFINE rank(p) == Rank(S, R, p)
<1>1. PICK n \in Nat : n = Cardinality(S)
  BY FS_CardinalityType
<1>2. ASSUME NEW p \in S
      PROVE  /\ Below(S, R, p) \in SUBSET S /\ IsFiniteSet(Below(S, R, p))
             /\ rank(p) \in 0 .. n - 1
  <2>1. Below(S, R, p) \in SUBSET S /\ p \notin Below(S, R, p)
    BY DEF Below, Orders
  <2>2. IsFiniteSet(Below(S, R, p)) /\ rank(p) <= n /\ rank(p) # n
    BY <1>1, <2>1, FS_Subset DEF Rank
  <2>3. rank(p) \in Nat
    BY <2>2, FS_CardinalityType DEF Rank
  <2> QED
    BY <2>1, <2>2, <2>3
<1>3. ASSUME NEW p \in S, NEW q \in S, <<p, q>> \in R
      PROVE  rank(p) # rank(q)
  <2>1. Below(S, R, p) \in SUBSET Below(S, R, q)
    BY <1>3 DEF Below, Orders
  <2>2. p \in Below(S, R, q) /\ p \notin Below(S, R, p)
    BY <1>3 DEF Below, Orders
  <2> QED
    BY <1>2, <2>1, <2>2, FS_Subset DEF Rank
<1>4. \A p, q \in S : rank(p) = rank(q) => p = q
  BY <1>3 DEF Orders
<1>5. PICK f : f = [p \in S |-> rank(p)]
  OBVIOUS
<1>6. f \in Injection(S, 0 .. n - 1)
  <2>1. f \in [S -> 0 .. n - 1]
    BY <1>2, <1>5
  <2>2. \A p, q \in S : f[p] = f[q] => p = q
    BY <1>4, <1>5
  <2> QED
    BY <2>1, <2>2 DEF Injection, IsInjective
<1>7. IsFiniteSet(0 .. n - 1) /\ Cardinality(0 .. n - 1) = n
  <2>1. 0 \in Int /\ n - 1 \in Int
    BY <1>1
  <2> QED
    BY <1>1, <2>1, FS_Interval
<1>8. f \in Surjection(S, 0 .. n - 1)
  BY <1>1, <1>6, <1>7, FS_Injection
<1>9. \A k \in 0 .. n - 1 : \E p \in S : f[p] = k
  BY <1>8 DEF Surjection
<1> QED
  BY <1>1, <1>2, <1>4, <1>5, <1>9

\* The rows one after the other are all of them.
LEMMA OrderedRows ==
  ASSUME NEW S, IsFiniteSet(S), NEW R, Orders(S, R)
  PROVE  /\ Ordered(S, R) \in Seq(S) /\ Len(Ordered(S, R)) = Cardinality(S)
         /\ Cardinality(S) \in Nat
         /\ \A p \in S : p \in ToSet(Ordered(S, R))
<1> DEFINE rank(p) == Rank(S, R, p)
<1>1. PICK n \in Nat : n = Cardinality(S)
  BY FS_CardinalityType
<1>2. /\ \A p \in S : rank(p) \in 0 .. n - 1
      /\ \A p, q \in S : rank(p) = rank(q) => p = q
      /\ \A k \in 0 .. n - 1 : \E p \in S : rank(p) = k
  BY <1>1, Ranks
<1>3. Ordered(S, R) = [k \in 1 .. n |-> CHOOSE p \in S : rank(p) = k - 1]
  BY <1>1 DEF Ordered, Below, Rank
<1> HIDE DEF rank
<1>4. PICK rows : rows = Ordered(S, R)
  OBVIOUS
<1>5. \A k \in 1 .. n : k - 1 \in 0 .. n - 1
  OBVIOUS
<1>6. \A k \in 1 .. n : rows[k] \in S /\ rank(rows[k]) = k - 1
  BY <1>2, <1>3, <1>4, <1>5
<1>7. rows \in [1 .. n -> S]
  BY <1>3, <1>4, <1>6
<1>8. rows \in Seq(S) /\ Len(rows) = n /\ DOMAIN rows = 1 .. n
  BY <1>7
<1>9. ASSUME NEW p \in S PROVE p \in ToSet(rows)
  <2>1. PICK k \in 1 .. n : k = rank(p) + 1
    BY <1>2
  <2>2. rank(rows[k]) = rank(p)
    BY <1>2, <1>6, <2>1
  <2>3. rows[k] = p
    BY <1>2, <1>6, <2>2
  <2> QED
    BY <1>8, <2>3 DEF ToSet
<1> QED
  BY <1>1, <1>4, <1>8, <1>9

\* g joins the first sequences, for each number of them.
Joins(seqs, g) ==
  g = [i \in 1 .. Len(seqs) |-> IF i = 1 THEN seqs[i] ELSE g[i - 1] \o seqs[i]]

\* A function that joins the first sequences for each number of them is the
\* one that FlattenSeq computes.
LEMMA Flattened ==
  ASSUME NEW n \in Nat, n > 0, NEW seqs, Len(seqs) = n,
         NEW F, Joins(seqs, F)
  PROVE  FlattenSeq(seqs) = F[n]
<1>1. \E g : Joins(seqs, g)
  BY DEF Joins
<1>2. Len(seqs) # 0
  OBVIOUS
<1>3. PICK g : Joins(seqs, g) /\ FlattenSeq(seqs) = g[Len(seqs)]
  BY <1>1, <1>2 DEF FlattenSeq, Joins
<1>4. FlattenSeq(seqs) = g[n] /\ g = [i \in 1 .. n |-> IF i = 1 THEN seqs[i] ELSE g[i - 1] \o seqs[i]]
  BY <1>3 DEF Joins
<1>5. \A k \in 1 .. n : g[k] = IF k = 1 THEN seqs[k] ELSE g[k - 1] \o seqs[k]
  BY <1>4
<1>6. \A k \in 1 .. n : F[k] = IF k = 1 THEN seqs[k] ELSE F[k - 1] \o seqs[k]
  BY DEF Joins
<1>7. ASSUME NEW j \in 1 .. n PROVE g[j] = F[j]
  <2> DEFINE T == {i \in 1 .. n : g[i] # F[i]}
  <2> SUFFICES ASSUME T # {} PROVE FALSE
    OBVIOUS
  <2>1. T \in SUBSET Nat
    OBVIOUS
  <2>2. PICK i \in T : \A k \in T : i <= k
    BY <2>1, SmallestElement
  <2>3. i \in 1 .. n /\ g[i] # F[i]
    OBVIOUS
  <2>4. \A k \in 1 .. n : k < i => k \notin T
    <3> HIDE DEF T
    <3> QED
      BY <2>1, <2>2
  <2>5. CASE i = 1
    BY <1>5, <1>6, <2>3, <2>5
  <2>6. CASE i # 1
    <3>1. i - 1 \in 1 .. n /\ i - 1 < i
      BY <2>3, <2>6
    <3>2. i - 1 \notin T
      BY <2>4, <3>1
    <3>3. g[i - 1] = F[i - 1]
      BY <3>1, <3>2
    <3> QED
      BY ONLY <1>5, <1>6, <2>3, <2>6, <3>3
  <2> QED
    BY <2>5, <2>6
<1> QED
  BY <1>4, <1>7

\* A page is the rows from its offset on; a page beyond the last row is empty.
LEMMA PageOf ==
  ASSUME NEW X, NEW rows \in Seq(X), NEW k \in Nat, k > 0, NEW d \in Nat, d = k * PageSize
  PROVE  Page(rows, k) = SubSeq(rows, d - PageSize + 1, IF d < Len(rows) THEN d ELSE Len(rows))
<1>1. (k - 1) * PageSize = d - PageSize
  BY Constants
<1>2. (d - PageSize) + PageSize = d
  BY Constants
<1> QED
  BY <1>1, <1>2 DEF Page

\* As many rows as there are, or d if there are more.
Upto(rows, d) == IF d < Len(rows) THEN d ELSE Len(rows)

\* The rows up to one page and the next page are the rows up to that one.
LEMMA NextPage ==
  ASSUME NEW X, NEW rows \in Seq(X), NEW k \in Nat, k > 1, NEW d \in Nat, d = k * PageSize
  PROVE  /\ (k - 1) * PageSize = d - PageSize /\ d - PageSize \in Nat
         /\ SubSeq(rows, 1, Upto(rows, d - PageSize)) \o Page(rows, k) = SubSeq(rows, 1, Upto(rows, d))
<1>1. (k - 1) * PageSize = d - PageSize
  BY Constants
<1>2. d - PageSize \in Nat
  <2>1. (k - 1) * PageSize \in Nat
    BY Constants
  <2> QED
    BY <1>1, <2>1
<1>3. Len(rows) \in Nat
  BY LenProperties
<1>4. Page(rows, k) = SubSeq(rows, d - PageSize + 1, Upto(rows, d))
  BY PageOf DEF Upto
<1>5. PICK u \in Nat : u = d - PageSize
  BY <1>2
<1>6. u + 1 <= d
  BY <1>5, Constants
<1>7. CASE u < Len(rows)
  <2>1. Upto(rows, u) = u
    BY <1>7 DEF Upto
  <2>2. PICK v \in Nat : v = Upto(rows, d)
    BY <1>3 DEF Upto
  <2>3. u <= v /\ v <= Len(rows)
    BY <1>3, <1>6, <1>7, <2>2 DEF Upto
  <2>4. 1 \in 1 .. Len(rows) + 1 /\ u \in 1 - 1 .. Len(rows) /\ v \in u .. Len(rows)
    BY <1>3, <1>5, <1>7, <2>3
  <2>5. SubSeq(rows, 1, u) \o SubSeq(rows, u + 1, v) = SubSeq(rows, 1, v)
    BY <2>4, ConcatAdjacentSubSeq
  <2> QED
    BY <1>1, <1>2, <1>4, <1>5, <2>1, <2>2, <2>5
<1>8. CASE ~ (u < Len(rows))
  <2>1. Upto(rows, u) = Len(rows) /\ Upto(rows, d) = Len(rows)
    BY <1>3, <1>5, <1>6, <1>8 DEF Upto
  <2>2. SubSeq(rows, 1, Len(rows)) = rows
    BY SubSeqFull
  <2>3. SubSeq(rows, u + 1, Len(rows)) = <<>>
    <3>1. u + 1 \in Int /\ Len(rows) \in Int /\ Len(rows) < u + 1
      BY <1>3, <1>8
    <3> QED
      BY <3>1, SubSeqEmpty
  <2>4. rows \o <<>> = rows
    BY ConcatEmptySeq
  <2>5. Page(rows, k) = <<>>
    BY <1>4, <1>5, <2>1, <2>3
  <2> QED
    BY <1>1, <1>2, <1>5, <2>1, <2>2, <2>4, <2>5
<1> QED
  BY <1>7, <1>8

\* Turning the pages of a total that is at least the number of rows shows them.
LEMMA PagesShow ==
  ASSUME NEW X, NEW rows \in Seq(X), NEW total \in Nat, Len(rows) <= total
  PROVE  Shows(rows, total)
<1>1. Len(rows) \in Nat
  BY LenProperties
<1>2. PICK n \in Nat : n = (total + PageSize - 1) \div PageSize
  <2>1. PICK a \in Nat : a = total + PageSize - 1
    BY Constants
  <2>2. a \div PageSize \in Nat
    BY <2>1, Constants
  <2> QED
    BY <2>1, <2>2
<1>3. total <= n * PageSize
  <2>1. PICK size \in Nat : size = PageSize /\ size > 0
    BY Constants
  <2>2. PICK a \in Int : a = total + size - 1
    OBVIOUS
  <2>3. n = a \div size
    BY <1>2, <2>1, <2>2
  <2>4. PICK r \in Int : r = a % size
    BY <2>1, Division
  <2>5. a = size * n + r /\ 0 <= r /\ r < size
    BY <2>1, <2>3, <2>4, Division
  <2>6. PICK y \in Int : y = size * n
    OBVIOUS
  <2>7. total <= y
    BY <2>2, <2>5, <2>6
  <2> QED
    BY <2>1, <2>6, <2>7
<1>4. PICK seqs : seqs = [k \in 1 .. n |-> Page(rows, k)]
  OBVIOUS
<1>5. Len(seqs) = n /\ \A k \in 1 .. n : seqs[k] = Page(rows, k)
  BY <1>4
<1>6. SubSeq(rows, 1, Len(rows)) = rows
  BY SubSeqFull
<1>7. CASE n = 0
  <2>1. Len(rows) = 0
    BY <1>1, <1>3, <1>7, Constants
  <2>2. rows = <<>>
    BY <2>1, EmptySeq
  <2>3. seqs = <<>>
    BY <1>4, <1>7
  <2>4. FlattenSeq(seqs) = seqs
    BY <1>5, <1>7 DEF FlattenSeq
  <2> QED
    BY <1>2, <1>4, <2>2, <2>3, <2>4 DEF Shows
<1>8. CASE n # 0
  <2>1. PICK F : F = [k \in 1 .. n |-> SubSeq(rows, 1, Upto(rows, k * PageSize))]
    OBVIOUS
  <2>2. ASSUME NEW k \in 1 .. n
        PROVE  F[k] = IF k = 1 THEN seqs[k] ELSE F[k - 1] \o seqs[k]
    <3>1. PICK d \in Nat : d = k * PageSize
      BY Constants
    <3>2. F[k] = SubSeq(rows, 1, Upto(rows, d)) /\ seqs[k] = Page(rows, k)
      BY <1>5, <2>1, <3>1
    <3>3. CASE k = 1
      <4>1. d = PageSize /\ d - PageSize + 1 = 1
        BY <3>1, <3>3, Constants
      <4>2. Page(rows, k) = SubSeq(rows, 1, Upto(rows, d))
        <5>1. k \in Nat /\ k > 0
          BY <3>3
        <5>2. Page(rows, k) = SubSeq(rows, d - PageSize + 1, Upto(rows, d))
          BY <3>1, <5>1, PageOf DEF Upto
        <5> QED
          BY <4>1, <5>2
      <4> QED
        BY <3>2, <3>3, <4>2
    <3>4. CASE k # 1
      <4>1. k \in Nat /\ k > 1 /\ k - 1 \in 1 .. n
        BY <3>4
      <4>2. /\ (k - 1) * PageSize = d - PageSize
            /\ SubSeq(rows, 1, Upto(rows, d - PageSize)) \o Page(rows, k)
                 = SubSeq(rows, 1, Upto(rows, d))
        BY <3>1, <4>1, NextPage
      <4>3. F[k - 1] = SubSeq(rows, 1, Upto(rows, d - PageSize))
        BY <2>1, <4>1, <4>2
      <4> QED
        BY <3>2, <3>4, <4>2, <4>3
    <3> QED
      BY <3>3, <3>4
  <2>3. Joins(seqs, F)
    <3>1. F = [k \in 1 .. n |-> F[k]]
      BY <2>1
    <3> QED
      BY <1>5, <2>2, <3>1 DEF Joins
  <2>4. FlattenSeq(seqs) = F[n]
    <3>1. n > 0
      BY <1>8
    <3> QED
      BY <1>5, <2>3, <3>1, Flattened
  <2>5. PICK d \in Nat : d = n * PageSize
    BY Constants
  <2>6. Upto(rows, d) = Len(rows)
    BY <1>1, <1>3, <2>5 DEF Upto
  <2>7. F[n] = rows
    BY <1>6, <1>8, <2>1, <2>5, <2>6
  <2> QED
    BY <1>2, <1>4, <2>4, <2>7 DEF Shows
<1> QED
  BY <1>7, <1>8

-----------------------------------------------------------------------------
(* Feeds, totals and audiences.                                            *)

\* Posts that were written are numbered in the order they were written.
LEMMA Numbered ==
  ASSUME BornInOrder, NEW S \in SUBSET Post, \A p \in S : Exists(p)
  PROVE  /\ IsFiniteSet(S)
         /\ \A p \in S : post[p].born \in Int
         /\ \A p, q \in S : p # q => post[p].born # post[q].born
<1>1. IsFiniteSet(S)
  BY Constants, FS_Subset
<1>2. PICK n : n = Written
  OBVIOUS
<1>3. \A p \in S : post[p].born \in 1 .. n
  BY <1>2 DEF BornInOrder
<1>4. n \in Nat
  <2>1. {p \in Post : Exists(p)} \in SUBSET Post
    OBVIOUS
  <2>2. IsFiniteSet({p \in Post : Exists(p)})
    BY <2>1, Constants, FS_Subset
  <2> QED
    BY <1>2, <2>2, FS_CardinalityType DEF Written
<1> QED
  BY <1>1, <1>3, <1>4 DEF BornInOrder

\* A feed puts its rows one after the other.
LEMMA FeedOrders ==
  ASSUME BornInOrder, NEW S \in SUBSET Post, \A p \in S : Exists(p), NEW interests
  PROVE  Orders(S, {x \in S \X S : Before(interests, x[1], x[2])})
<1>1. /\ \A p \in S : post[p].born \in Int
      /\ \A p, q \in S : p # q => post[p].born # post[q].born
  BY Numbered
<1>2. PICK R : R = {x \in S \X S : Before(interests, x[1], x[2])}
  OBVIOUS
<1>3. PICK mine \in [Post -> BOOLEAN] : \A p \in Post : mine[p] <=> Interest[p] \in interests
  <2>1. [p \in Post |-> Interest[p] \in interests] \in [Post -> BOOLEAN]
    OBVIOUS
  <2> QED
    BY <2>1
<1>4. \A p, q \in S : <<p, q>> \in R <=>
         \/ (mine[p] <=> mine[q]) /\ post[p].born > post[q].born
         \/ mine[p] /\ ~mine[q]
  <2> SUFFICES ASSUME NEW p \in S, NEW q \in S
               PROVE  <<p, q>> \in R <=>
                        \/ (mine[p] <=> mine[q]) /\ post[p].born > post[q].born
                        \/ mine[p] /\ ~mine[q]
    OBVIOUS
  <2>1. <<p, q>> \in R <=> Before(interests, p, q)
    BY <1>2
  <2>2. (mine[p] <=> Interest[p] \in interests) /\ (mine[q] <=> Interest[q] \in interests)
    BY <1>3
  <2> QED
    BY <2>1, <2>2 DEF Before
<1>5. \A p \in S : <<p, p>> \notin R
  BY <1>1, <1>4
<1>6. \A p, q \in S : p # q => <<p, q>> \in R \/ <<q, p>> \in R
  BY <1>1, <1>4
<1>7. \A p, q, r \in S : <<p, q>> \in R /\ <<q, r>> \in R => <<p, r>> \in R
  BY <1>1, <1>4
<1> QED
  BY <1>2, <1>5, <1>6, <1>7 DEF Orders

\* The approval queue does too.
LEMMA QueueOrders ==
  ASSUME BornInOrder, NEW S \in SUBSET Post, \A p \in S : Exists(p)
  PROVE  Orders(S, {x \in S \X S : post[x[1]].born < post[x[2]].born})
<1>1. /\ \A p \in S : post[p].born \in Int
      /\ \A p, q \in S : p # q => post[p].born # post[q].born
  BY Numbered
<1>2. PICK R : R = {x \in S \X S : post[x[1]].born < post[x[2]].born}
  OBVIOUS
<1>3. \A p, q \in S : <<p, q>> \in R <=> post[p].born < post[q].born
  BY <1>2
<1> QED
  BY <1>1, <1>2, <1>3 DEF Orders

\* The pages of a feed show what its rows are counted to be, and more if the
\* total is of two feeds.
LEMMA FeedRows ==
  ASSUME BornInOrder, NEW S \in SUBSET Post, \A p \in S : Exists(p), NEW interests,
         NEW extra \in Nat
  PROVE  /\ Cardinality(S) \in Nat
         /\ Len(FeedOrder(S, interests)) = Cardinality(S)
         /\ Shows(FeedOrder(S, interests), Cardinality(S) + extra)
         /\ \A p \in S : p \in ToSet(FeedOrder(S, interests))
<1>1. PICK rows : rows = FeedOrder(S, interests)
  OBVIOUS
<1>2. IsFiniteSet(S) /\ Orders(S, {x \in S \X S : Before(interests, x[1], x[2])})
  BY Numbered, FeedOrders
<1>3. /\ rows \in Seq(S) /\ Len(rows) = Cardinality(S) /\ Cardinality(S) \in Nat
      /\ \A p \in S : p \in ToSet(rows)
  BY <1>1, <1>2, OrderedRows DEF FeedOrder
<1>4. Shows(rows, Cardinality(S) + extra)
  <2>1. PICK t \in Nat : t = Cardinality(S) + extra
    BY <1>3
  <2>2. Len(rows) <= t
    BY <1>3, <2>1
  <2> QED
    BY <1>3, <2>1, <2>2, PagesShow
<1> QED
  BY <1>1, <1>3, <1>4

\* So do the pages of the approval queue.
LEMMA QueueRows ==
  ASSUME BornInOrder, NEW S \in SUBSET Post, \A p \in S : Exists(p), NEW extra \in Nat
  PROVE  /\ Cardinality(S) \in Nat
         /\ Len(QueueOrder(S)) = Cardinality(S)
         /\ Shows(QueueOrder(S), Cardinality(S) + extra)
<1>1. PICK rows : rows = QueueOrder(S)
  OBVIOUS
<1>2. IsFiniteSet(S) /\ Orders(S, {x \in S \X S : post[x[1]].born < post[x[2]].born})
  BY Numbered, QueueOrders
<1>3. rows \in Seq(S) /\ Len(rows) = Cardinality(S) /\ Cardinality(S) \in Nat
  BY <1>1, <1>2, OrderedRows DEF QueueOrder
<1>4. Shows(rows, Cardinality(S) + extra)
  <2>1. PICK t \in Nat : t = Cardinality(S) + extra
    BY <1>3
  <2>2. Len(rows) <= t
    BY <1>3, <2>1
  <2> QED
    BY <1>3, <2>1, <2>2, PagesShow
<1> QED
  BY <1>1, <1>3, <1>4

\* Rows and their count make an exact answer.
LEMMA ExactFeed ==
  ASSUME BornInOrder, NEW S \in SUBSET Post, \A p \in S : Exists(p), NEW interests
  PROVE  Exact([rows |-> FeedOrder(S, interests), total |-> Cardinality(S)])
<1>1. 0 \in Nat
  OBVIOUS
<1>2. /\ Cardinality(S) \in Nat
      /\ Len(FeedOrder(S, interests)) = Cardinality(S)
      /\ Shows(FeedOrder(S, interests), Cardinality(S) + 0)
  BY <1>1, FeedRows
<1>3. Cardinality(S) + 0 = Cardinality(S)
  BY <1>2
<1> QED
  BY <1>2, <1>3 DEF Exact

\* No rows and the total 0 do as well.
LEMMA ExactNothing == Exact(Nothing)
<1>1. <<>> \in Seq(Post) /\ Len(<<>>) <= 0 /\ 0 \in Nat
  OBVIOUS
<1>2. Shows(<<>>, 0)
  BY <1>1, PagesShow
<1> QED
  BY <1>2 DEF Exact, Nothing

\* Every feed, search and list of an owner is exact, for any viewer.
LEMMA FeedsExact ==
  ASSUME BornInOrder
  PROVE  /\ \A v, mine : Exact(ListActiveAuctions(v, mine)) /\ Exact(ListRequests(v, mine))
         /\ \A v, mine, found : /\ Exact(SearchAuctions(v, found, mine))
                                /\ Exact(SearchRequests(v, found, mine))
         /\ \A u : Exact(ListMySellAuctions(u)) /\ Exact(ListMyBuyRequests(u))
<1>1. \A p : Live(p) => Exists(p)
  BY DEF Live, Exists
<1>2. ASSUME NEW v, NEW mine
      PROVE  Exact(ListActiveAuctions(v, mine)) /\ Exact(ListRequests(v, mine))
  <2>1. /\ ListActiveSellAuctions(v) \in SUBSET Post
        /\ \A p \in ListActiveSellAuctions(v) : Exists(p)
    BY <1>1 DEF ListActiveSellAuctions, Post
  <2>2. CountActiveSellAuctions(v) = Cardinality(ListActiveSellAuctions(v))
    BY DEF CountActiveSellAuctions, ListActiveSellAuctions
  <2>3. Exact(ListActiveAuctions(v, mine))
    BY <2>1, <2>2, ExactFeed DEF ListActiveAuctions
  <2>4. /\ ListActiveBuyRequests(v) \in SUBSET Post
        /\ \A p \in ListActiveBuyRequests(v) : Exists(p)
    BY <1>1 DEF ListActiveBuyRequests, Post
  <2>5. CountActiveBuyRequests(v) = Cardinality(ListActiveBuyRequests(v))
    BY DEF CountActiveBuyRequests, ListActiveBuyRequests
  <2>6. Exact([rows |-> FeedOrder(ListActiveBuyRequests(v), mine), total |-> CountActiveBuyRequests(v)])
    BY <2>4, <2>5, ExactFeed
  <2>7. Exact(ListRequests(v, mine))
    BY <2>6, ExactNothing DEF ListRequests
  <2> QED
    BY <2>3, <2>7
<1>3. ASSUME NEW v, NEW mine, NEW found
      PROVE  Exact(SearchAuctions(v, found, mine)) /\ Exact(SearchRequests(v, found, mine))
  <2>1. /\ SearchSellAuctions(v, found) \in SUBSET Post
        /\ \A p \in SearchSellAuctions(v, found) : Exists(p)
    BY <1>1 DEF SearchSellAuctions, Post
  <2>2. CountSearchSellAuctions(v, found) = Cardinality(SearchSellAuctions(v, found))
    BY DEF CountSearchSellAuctions, SearchSellAuctions
  <2>3. Exact(SearchAuctions(v, found, mine))
    BY <2>1, <2>2, ExactFeed DEF SearchAuctions
  <2>4. /\ SearchBuyRequests(v, found) \in SUBSET Post
        /\ \A p \in SearchBuyRequests(v, found) : Exists(p)
    BY <1>1 DEF SearchBuyRequests, Post
  <2>5. CountSearchBuyRequests(v, found) = Cardinality(SearchBuyRequests(v, found))
    BY DEF CountSearchBuyRequests, SearchBuyRequests
  <2>6. Exact([rows |-> FeedOrder(SearchBuyRequests(v, found), mine),
               total |-> CountSearchBuyRequests(v, found)])
    BY <2>4, <2>5, ExactFeed
  <2>7. Exact(SearchRequests(v, found, mine))
    BY <2>6, ExactNothing DEF SearchRequests
  <2> QED
    BY <2>3, <2>7
<1>4. ASSUME NEW u
      PROVE  Exact(ListMySellAuctions(u)) /\ Exact(ListMyBuyRequests(u))
  <2>1. /\ ListSellAuctionsByOwner(u) \in SUBSET Post
        /\ \A p \in ListSellAuctionsByOwner(u) : Exists(p)
    BY DEF ListSellAuctionsByOwner, Post
  <2>2. CountSellAuctionsByOwner(u) = Cardinality(ListSellAuctionsByOwner(u))
    BY DEF CountSellAuctionsByOwner, ListSellAuctionsByOwner
  <2>3. Exact(ListMySellAuctions(u))
    BY <2>1, <2>2, ExactFeed DEF ListMySellAuctions
  <2>4. /\ ListBuyRequestsByOwner(u) \in SUBSET Post
        /\ \A p \in ListBuyRequestsByOwner(u) : Exists(p)
    BY DEF ListBuyRequestsByOwner, Post
  <2>5. CountBuyRequestsByOwner(u) = Cardinality(ListBuyRequestsByOwner(u))
    BY DEF CountBuyRequestsByOwner, ListBuyRequestsByOwner
  <2>6. Exact(ListMyBuyRequests(u))
    BY <2>4, <2>5, ExactFeed DEF ListMyBuyRequests
  <2> QED
    BY <2>3, <2>6
<1> QED
  BY <1>2, <1>3, <1>4

\* A page of each kind of post, under the total of both.
LEMMA QueuesExact ==
  ASSUME BornInOrder
  PROVE  ExactQueue(ListPending) /\ ExactQueue(ListPublished)
<1>1. ASSUME NEW S \in SUBSET Post, NEW T \in SUBSET Post, \A p \in S \cup T : Exists(p)
      PROVE  /\ ExactQueue([sell |-> QueueOrder(S), buy |-> QueueOrder(T),
                            total |-> Cardinality(S) + Cardinality(T)])
             /\ ExactQueue([sell |-> FeedOrder(S, {}), buy |-> FeedOrder(T, {}),
                            total |-> Cardinality(S) + Cardinality(T)])
  <2>1. IsFiniteSet(S) /\ IsFiniteSet(T)
    BY Constants, FS_Subset
  <2>2. PICK a \in Nat : a = Cardinality(S)
    BY <2>1, FS_CardinalityType
  <2>3. PICK b \in Nat : b = Cardinality(T)
    BY <2>1, FS_CardinalityType
  <2>4. Len(QueueOrder(S)) = a /\ Shows(QueueOrder(S), a + b)
    BY <1>1, <2>2, <2>3, QueueRows
  <2>5. Len(QueueOrder(T)) = b /\ Shows(QueueOrder(T), b + a)
    BY <1>1, <2>2, <2>3, QueueRows
  <2>6. PICK none : none = {}
    OBVIOUS
  <2>7. Len(FeedOrder(S, none)) = a /\ Shows(FeedOrder(S, none), a + b)
    BY <1>1, <2>2, <2>3, FeedRows
  <2>8. Len(FeedOrder(T, none)) = b /\ Shows(FeedOrder(T, none), b + a)
    BY <1>1, <2>2, <2>3, FeedRows
  <2>9. a + b = b + a
    OBVIOUS
  <2> QED
    BY <2>2, <2>3, <2>4, <2>5, <2>6, <2>7, <2>8, <2>9 DEF ExactQueue
<1>2. ExactQueue(ListPending)
  <2>1. PICK S \in SUBSET Post, T \in SUBSET Post :
           S = ListPendingApprovalSellAuctions /\ T = ListPendingApprovalBuyRequests
    BY DEF ListPendingApprovalSellAuctions, ListPendingApprovalBuyRequests, Post
  <2>2. \A p \in S \cup T : Exists(p)
    BY <2>1 DEF ListPendingApprovalSellAuctions, ListPendingApprovalBuyRequests, Exists
  <2>3. /\ CountPendingApprovalSellAuctions = Cardinality(S)
        /\ CountPendingApprovalBuyRequests = Cardinality(T)
    BY <2>1 DEF ListPendingApprovalSellAuctions, ListPendingApprovalBuyRequests,
                CountPendingApprovalSellAuctions, CountPendingApprovalBuyRequests
  <2> QED
    BY <1>1, <2>1, <2>2, <2>3 DEF ListPending
<1>3. ExactQueue(ListPublished)
  <2>1. PICK S \in SUBSET Post, T \in SUBSET Post :
           S = ListModeratableSellAuctions /\ T = ListModeratableBuyRequests
    BY DEF ListModeratableSellAuctions, ListModeratableBuyRequests, Post
  <2>2. \A p \in S \cup T : Exists(p)
    BY <2>1 DEF ListModeratableSellAuctions, ListModeratableBuyRequests, Exists
  <2>3. /\ CountModeratableSellAuctions = Cardinality(S)
        /\ CountModeratableBuyRequests = Cardinality(T)
    BY <2>1 DEF ListModeratableSellAuctions, ListModeratableBuyRequests,
                CountModeratableSellAuctions, CountModeratableBuyRequests
  <2> QED
    BY <1>1, <2>1, <2>2, <2>3 DEF ListPublished
<1> QED
  BY <1>2, <1>3

\* Whoever a live post is announced to finds it in the feed, but for retailers
\* whom its owner does not sell to.
LEMMA AudienceSees ==
  ASSUME BornInOrder, NEW p \in Post, Live(p), NEW m \in Audience(p)
  PROVE  \/ p \in ToSet(ListActiveAuctions(viewer(m), {}).rows)
         \/ p \in ToSet(ListRequests(viewer(m), {}).rows)
         \/ m \in Retailers /\ Owner[p] \notin Sold
<1>1. /\ m \in Member /\ m # Owner[p] /\ m # None
      /\ RegionFilter => Profile[m].region = Region[p]
      /\ ExcludeRetailers(p) => Profile[m].role # "retailer"
  BY Constants DEF Audience
<1>2. PICK v : v = viewer(m)
  OBVIOUS
<1>3. /\ v.id = m /\ v.region = IF RegionFilter THEN Profile[m].region ELSE None
      /\ v.isRetailer = (Profile[m].role = "retailer")
  BY <1>1, <1>2 DEF viewer
<1>4. Owner[p] # v.id /\ InRegion(v, p)
  BY <1>1, <1>3 DEF InRegion
<1>5. PICK none : none = {}
  OBVIOUS
<1>6. \A q : Live(q) => Exists(q)
  BY DEF Live, Exists
<1>7. 0 \in Nat
  OBVIOUS
<1>8. CASE p \in SellPost
  <2>1. CASE SellsTo(v, p)
    <3>1. PICK S \in SUBSET Post : S = ListActiveSellAuctions(v)
      BY DEF ListActiveSellAuctions, Post
    <3>2. p \in S /\ \A q \in S : Exists(q)
      BY <1>4, <1>6, <1>8, <2>1, <3>1 DEF ListActiveSellAuctions
    <3>3. p \in ToSet(FeedOrder(S, none))
      BY <1>7, <3>2, FeedRows
    <3> QED
      BY <1>2, <1>5, <3>1, <3>3 DEF ListActiveAuctions
  <2>2. CASE ~SellsTo(v, p)
    <3>1. v.isRetailer
      BY <2>2 DEF SellsTo, ownerJobKeys
    <3>2. Profile[m].role = "retailer" /\ ~ExcludeRetailers(p)
      BY <1>1, <1>3, <3>1
    <3>3. Profile[Owner[p]].role \in SupplySide
      BY <3>2 DEF ExcludeRetailers
    <3>4. ~Profile[Owner[p]].supplies
      BY <2>2, <3>1, <3>3 DEF SellsTo, ownerJobKeys
    <3> QED
      BY <1>1, <3>2, <3>4 DEF Retailers, Sold
  <2> QED
    BY <2>1, <2>2
<1>9. CASE p \in BuyPost
  <2>1. ~v.isRetailer
    BY <1>1, <1>3, <1>9 DEF ExcludeRetailers
  <2>2. PICK S \in SUBSET Post : S = ListActiveBuyRequests(v)
    BY DEF ListActiveBuyRequests, Post
  <2>3. p \in S /\ \A q \in S : Exists(q)
    BY <1>4, <1>6, <1>9, <2>2 DEF ListActiveBuyRequests
  <2>4. p \in ToSet(FeedOrder(S, none))
    BY <1>7, <2>3, FeedRows
  <2> QED
    BY <1>2, <1>5, <2>1, <2>2, <2>4 DEF ListRequests
<1> QED
  BY <1>8, <1>9 DEF Post

\* Numbered posts are all that the feeds need.
LEMMA Agreement == BornInOrder => FeedsAgree
BY FeedsExact, QueuesExact, AudienceSees DEF FeedsAgree

\* Turning the pages that a total promises shows every row of a feed, a search,
\* a list or a queue once, and whoever is told of a post can find it, but for
\* retailers whom a wholesaler does not sell to.
THEOREM FeedsAgreeAlways == Spec => []FeedsAgree
<1>1. IInv => BornInOrder
  BY DEF IInv, Counted
<1> QED
  BY <1>1, InductiveInvariant, Agreement, PTL
=============================================================================
