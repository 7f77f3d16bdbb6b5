------------------------------ MODULE NewsProofs ------------------------------
(***************************************************************************)
(* Proofs about News, for every number of stories, members and publish     *)
(* calls, however many statements fail and however often the process       *)
(* restarts.  The argument: the claim spends the notification of a story   *)
(* once and for all, so at most one call or goroutine ever holds it, and   *)
(* what that one has pushed, still has to push and has yet to mark         *)
(* accounts for every push on a phone.                                     *)
(***************************************************************************)
EXTENDS News, FiniteSetTheorems, FunctionTheorems, TLAPS

\* A step that keeps the stories, the rows and the calls.
Quiet == UNCHANGED <<story, deleted, delivery, call, fan, phone, faults>>

\* A phone without a push is not one with a push.
LEMMA NoPushIsNotOne == 0 # 1
OBVIOUS

\* The first push makes one.
LEMMA FirstPush == \A p \in {0, 1} : p <= 1 /\ (p = 0 => p + 1 = 1)
OBVIOUS

\* The start: empty tables and no call.
LEMMA InitIInv == Init => IInv
<1> SUFFICES ASSUME Init PROVE IInv
  OBVIOUS
<1>1. TypeOK
  BY NewsAssumption DEF Init, TypeOK, IdleCall, IdleFan, IdleVisit, CallState, FanState, Visit, Modes
<1>2. StoriesConsistent
  BY DEF Init, StoriesConsistent, IsPublished, Exists, NoPush
<1>3. CallsConsistent
  BY DEF Init, CallsConsistent, CallOK, IdleCall, IdleFan
<1>4. OneHolder /\ PushesConsistent
  <2>1. \A n \in Story, c \in Call : ~Claimed(c, n) /\ fan[c].story # n
    BY NewsAssumption DEF Init, Claimed, IdleCall, IdleFan
  <2>2. \A k \in Story \X Member : phone[k] <= 1
    BY DEF Init
  <2> QED
    BY <2>1, <2>2 DEF OneHolder, PushesConsistent, PushOK, Holds
<1>5. CountsConsistent /\ RowsConsistent
  BY DEF Init, CountsConsistent, RowsConsistent, Exists
<1>6. ViewsConsistent /\ SeenConsistent
  BY DEF Init, ViewsConsistent, SeenConsistent
<1> QED
  BY <1>1, <1>2, <1>3, <1>4, <1>5, <1>6 DEF IInv

-----------------------------------------------------------------------------
(* Each action keeps the types.                                            *)

\* Writing one row of the news table.
LEMMA StorySet ==
  ASSUME TypeOK, NEW n \in Story, NEW w \in StoryRow \cup {None},
         story' = [story EXCEPT ![n] = w]
  PROVE  story' \in [Story -> StoryRow \cup {None}]
BY DEF TypeOK

\* The drafts.
LEMMA DraftTypes ==
  ASSUME TypeOK, NEW n \in Story, Create(n) \/ Update(n) \/ Delete(n) \/ Unpublish(n)
  PROVE  TypeOK'
<1>1. ASSUME Create(n) PROVE TypeOK'
  <2>1. PICK body \in BOOLEAN, interests \in SUBSET Interest :
          story' = [story EXCEPT ![n] =
                  [status |-> "draft", body |-> body, interests |-> interests,
                   published |-> None, notified |-> FALSE, count |-> 0]]
    BY <1>1 DEF Create
  <2>2. [status |-> "draft", body |-> body, interests |-> interests,
         published |-> None, notified |-> FALSE, count |-> 0] \in StoryRow
    BY DEF StoryRow
  <2>3. story' \in [Story -> StoryRow \cup {None}]
    BY <2>1, <2>2, StorySet
  <2> QED
    BY <1>1, <2>3 DEF TypeOK, Create
<1>2. ASSUME Update(n) PROVE TypeOK'
  <2>1. PICK body \in BOOLEAN, interests \in SUBSET Interest :
          story' = [story EXCEPT ![n].body = body, ![n].interests = interests]
    BY <1>2 DEF Update
  <2> DEFINE w == [story[n] EXCEPT !.body = body, !.interests = interests]
  <2>2. w \in StoryRow
    BY <1>2 DEF Update, Exists, TypeOK, StoryRow
  <2>3. story' = [story EXCEPT ![n] = w]
    BY <2>1 DEF TypeOK
  <2> HIDE DEF w
  <2>4. story' \in [Story -> StoryRow \cup {None}]
    BY <2>2, <2>3, StorySet
  <2>5. changes' \in Nat
    <3>1. changes \in Nat
      BY DEF TypeOK
    <3> QED
      BY <1>2, <3>1 DEF Update, Change
  <2> QED
    BY <1>2, <2>4, <2>5 DEF TypeOK, Update
<1>3. ASSUME Delete(n) PROVE TypeOK'
  <2>1. story' \in [Story -> StoryRow \cup {None}]
    BY <1>3, StorySet DEF Delete
  <2> QED
    BY <1>3, <2>1 DEF TypeOK, Delete
<1>4. ASSUME Unpublish(n) PROVE TypeOK'
  <2> DEFINE w == [story[n] EXCEPT !.status = "draft"]
  <2>2. w \in StoryRow
    BY <1>4 DEF Unpublish, Exists, TypeOK, StoryRow
  <2>3. story' = [story EXCEPT ![n] = w]
    BY <1>4 DEF TypeOK, Unpublish
  <2> HIDE DEF w
  <2>4. story' \in [Story -> StoryRow \cup {None}]
    BY <2>2, <2>3, StorySet
  <2> QED
    BY <1>4, <2>4 DEF TypeOK, Unpublish
<1> QED
  BY <1>1, <1>2, <1>3, <1>4

\* Writing one publish call, one goroutine.
LEMMA CallSet ==
  ASSUME TypeOK, NEW c \in Call, NEW w \in CallState, call' = [call EXCEPT ![c] = w]
  PROVE  call' \in [Call -> CallState]
BY DEF TypeOK

\* A delivery's state is replaced by a typed one.
LEMMA FanSet ==
  ASSUME TypeOK, NEW c \in Call, NEW w \in FanState, fan' = [fan EXCEPT ![c] = w]
  PROVE  fan' \in [Call -> FanState]
BY DEF TypeOK

\* The idle states are typed.
LEMMA IdleTypes ==
  IdleCall \in CallState /\ IdleFan \in FanState /\ IdleVisit \in Visit
BY DEF IdleCall, IdleFan, IdleVisit, CallState, FanState, Visit, Modes

\* Finitely many members, finitely many recipients.
LEMMA RecipientsFinite ==
  ASSUME TypeOK, NEW c \in Call
  PROVE  IsFiniteSet(call[c].to)
<1>1. IsFiniteSet(Member \X BOOLEAN)
  <2>1. IsFiniteSet({TRUE} \cup {FALSE})
    BY FS_Singleton, FS_Union
  <2>2. BOOLEAN = {TRUE} \cup {FALSE}
    OBVIOUS
  <2> QED
    BY <2>1, <2>2, FS_Product, NewsAssumption
<1> DEFINE f == [k \in Member \X BOOLEAN |-> [id |-> k[1], pro |-> k[2]]]
<1>2. f \in Surjection(Member \X BOOLEAN, Recipient)
  <2>1. f \in [Member \X BOOLEAN -> Recipient]
    BY DEF Recipient
  <2>2. ASSUME NEW r \in Recipient PROVE \E k \in Member \X BOOLEAN : f[k] = r
    <3>1. <<r.id, r.pro>> \in Member \X BOOLEAN /\ f[<<r.id, r.pro>>] = r
      BY DEF Recipient
    <3> QED
      BY <3>1
  <2> QED
    BY <2>1, <2>2, Fun_IsSurj
<1>3. IsFiniteSet(Recipient)
  <2> HIDE DEF f
  <2> QED
    BY <1>1, <1>2, FS_Surjection
<1>4. call[c].to \in SUBSET Recipient
  BY DEF TypeOK, CallState
<1> QED
  BY <1>3, <1>4, FS_Subset

\* A call under way knows its story.
LEMMA CallHasStory ==
  ASSUME TypeOK, CallsConsistent, NEW c \in Call, call[c].step # "idle"
  PROVE  call[c].story \in Story
<1>1. call[c] \in CallState /\ call[c].story \in Story \cup {None}
  BY DEF TypeOK, CallState
<1> QED
  BY <1>1 DEF CallsConsistent, CallOK

\* The publish handler: what each statement leaves of its call is typed.
LEMMA PublishCallTypes ==
  ASSUME TypeOK, CallsConsistent, NEW c \in Call, NEW m \in Story,
         PublishRead(c, m) \/ PublishStep(c)
  PROVE  call' \in [Call -> CallState]
<1>1. call[c] \in CallState
  BY DEF TypeOK
<1>3. PICK w \in CallState : call' = [call EXCEPT ![c] = w]
  <2>1. CASE PublishRead(c, m)
    <3>1. [IdleCall EXCEPT !.step = "publish", !.story = m] \in CallState
      BY DEF IdleCall, CallState, Modes
    <3> QED
      BY <2>1, <3>1 DEF PublishRead
  <2>2. CASE PublishStory(c)
    <3>1. [call[c] EXCEPT !.step = "list", !.mode = mode] \in CallState
      BY <1>1 DEF CallState, TypeOK
    <3> QED
      BY <2>2, <3>1, IdleTypes DEF PublishStory
  <2>3. CASE ListRecipients(c)
    <3> DEFINE to == ListNewsRecipients(call[c].story, call[c].mode)
    <3>1. to \subseteq Recipient
      BY DEF ListNewsRecipients, Recipient, TypeOK
    <3>2. [call[c] EXCEPT !.step = "claim", !.to = to] \in CallState
      BY <1>1, <3>1 DEF CallState
    <3> QED
      BY <2>3, <3>2, IdleTypes DEF ListRecipients
  <2>4. CASE Claim(c)
    <3>1. [call[c] EXCEPT !.step = "count"] \in CallState
      BY <1>1 DEF CallState
    <3> QED
      BY <2>4, <3>1, IdleTypes DEF Claim, TypeOK
  <2>5. CASE SetNewsNotifiedCount(c)
    <3>1. [call[c] EXCEPT !.step = "record"] \in CallState
      BY <1>1 DEF CallState
    <3> QED
      BY <2>5, <3>1 DEF SetNewsNotifiedCount, TypeOK
  <2>6. CASE RecordRecipients(c)
    BY <2>6, IdleTypes DEF RecordRecipients
  <2> QED
    BY <2>1, <2>2, <2>3, <2>4, <2>5, <2>6 DEF PublishStep
<1> QED
  BY <1>3, CallSet

\* Publishing keeps the types.
LEMMA PublishTypes ==
  ASSUME TypeOK, CallsConsistent, NEW c \in Call, NEW m \in Story,
         PublishRead(c, m) \/ PublishStep(c)
  PROVE  TypeOK'
<1>1. call' \in [Call -> CallState]
  BY PublishCallTypes
<1>2. call[c].step # "idle" => call[c].story \in Story
  BY CallHasStory
<1>3. CASE PublishRead(c, m)
  BY <1>1, <1>3 DEF PublishRead, tables, TypeOK
<1>4. CASE PublishStory(c)
  <2>1. story' \in [Story -> StoryRow \cup {None}] /\ clock' \in Nat
    <3> DEFINE n == call[c].story
    <3>1. CASE ~Exists(n)
      BY <1>4, <3>1 DEF PublishStory, TypeOK
    <3>2. CASE Exists(n)
      <4>0. n \in Story /\ clock \in Nat /\ PublishNews(n)
        BY <1>4, <1>2, <3>2 DEF PublishStory, TypeOK
      <4>a. story[n] \in StoryRow
        BY <3>2, <4>0 DEF TypeOK, Exists
      <4>1. PICK p \in Nat \cup {None} : p = IF story[n].published = None THEN clock + 1
                                             ELSE story[n].published
        <5>1. story[n].published \in Nat \cup {None} /\ clock + 1 \in Nat
          BY <4>0, <4>a DEF StoryRow
        <5> QED
          BY <5>1
      <4> DEFINE w == [story[n] EXCEPT !.status = "published", !.published = p]
      <4>2. w \in StoryRow
        BY <4>1, <4>a DEF StoryRow
      <4>3. story' = [story EXCEPT ![n] = w]
        BY <4>0, <4>1 DEF PublishNews, TypeOK
      <4>4. clock' \in Nat
        BY <4>0 DEF PublishNews
      <4> HIDE DEF w, n
      <4> QED
        BY <4>0, <4>2, <4>3, <4>4, StorySet
    <3> QED
      BY <3>1, <3>2
  <2> QED
    BY <1>1, <1>4, <2>1 DEF PublishStory, TypeOK
<1>5. CASE ListRecipients(c)
  <2>1. faults' \in Nat
    BY <1>5 DEF ListRecipients, Fail, TypeOK
  <2> QED
    BY <1>1, <1>5, <2>1 DEF ListRecipients, tables, TypeOK
<1>6. CASE Claim(c)
  <2>1. faults' \in Nat
    BY <1>6 DEF Claim, Fail, TypeOK
  <2>2. story' \in [Story -> StoryRow \cup {None}]
    <3>1. CASE UNCHANGED story
      BY <3>1 DEF TypeOK
    <3>2. CASE ClaimNewsNotification(call[c].story)
      <4> DEFINE n == call[c].story
                 w == [story[n] EXCEPT !.notified = TRUE]
      <4>0. n \in Story
        BY <1>2, <1>6 DEF Claim
      <4>1. w \in StoryRow
        <5>1. story[n] \in StoryRow
          BY <3>2, <4>0 DEF ClaimNewsNotification, Exists, TypeOK
        <5> QED
          BY <5>1 DEF StoryRow
      <4>2. story' = [story EXCEPT ![n] = w]
        BY <3>2, <4>0 DEF ClaimNewsNotification, TypeOK
      <4> HIDE DEF w, n
      <4> QED
        BY <4>0, <4>1, <4>2, StorySet
    <3> QED
      BY <1>6, <3>1, <3>2 DEF Claim
  <2> QED
    BY <1>1, <1>6, <2>1, <2>2 DEF Claim, TypeOK
<1>7. CASE SetNewsNotifiedCount(c)
  <2>1. faults' \in Nat
    BY <1>7 DEF SetNewsNotifiedCount, Fail, TypeOK
  <2>2. story' \in [Story -> StoryRow \cup {None}]
    <3>a. PICK q \in Nat : q = Cardinality(call[c].to)
      BY RecipientsFinite, FS_CardinalityType
    <3> DEFINE n == call[c].story
               w == [story[n] EXCEPT !.count = q]
    <3>0. n \in Story
      BY <1>2, <1>7 DEF SetNewsNotifiedCount
    <3>1. CASE UNCHANGED story
      BY <3>1 DEF TypeOK
    <3>2. CASE Exists(n) /\ story' = [story EXCEPT ![n].count = Cardinality(call[c].to)]
      <4>1. story[n] \in StoryRow
        BY <3>0, <3>2 DEF Exists, TypeOK
      <4>2. w \in StoryRow
        BY <3>a, <4>1 DEF StoryRow
      <4>3. story' = [story EXCEPT ![n] = w]
        BY <3>a, <3>0, <3>2 DEF TypeOK
      <4> HIDE DEF w, n
      <4> QED
        BY <3>0, <4>2, <4>3, StorySet
    <3> QED
      BY <1>7, <3>1, <3>2 DEF SetNewsNotifiedCount
  <2> QED
    BY <1>1, <1>7, <2>1, <2>2 DEF SetNewsNotifiedCount, TypeOK
<1>8. CASE RecordRecipients(c)
  <2> DEFINE n == call[c].story
             to == call[c].to
             w == [story |-> n, todo |-> {r.id : r \in to}, sent |-> {}]
  <2>0. n \in Story /\ to \subseteq Recipient
    BY <1>2, <1>8 DEF RecordRecipients, TypeOK, CallState
  <2>1. faults' \in Nat
    BY <1>8 DEF RecordRecipients, Fail, TypeOK
  <2>2. fan' \in [Call -> FanState]
    <3>1. w \in FanState
      BY <2>0 DEF FanState, Recipient
    <3>2. fan' = [fan EXCEPT ![c] = w]
      BY <1>8 DEF RecordRecipients
    <3> HIDE DEF w
    <3> QED
      BY <3>1, <3>2, FanSet
  <2>3. /\ DOMAIN delivery' \subseteq Story \X Member
        /\ \A k \in DOMAIN delivery' : delivery'[k] \in Delivery
    <3>1. CASE UNCHANGED delivery
      BY <3>1 DEF TypeOK
    <3>2. CASE InsertNewsDeliveries(n, to)
      <4>1. \A k \in {<<n, r.id>> : r \in to} :
              /\ k \in Story \X Member
              /\ (CHOOSE r \in to : r.id = k[2]).pro \in BOOLEAN
        BY <2>0 DEF Recipient
      <4> HIDE DEF n, to
      <4> QED
        BY <3>2, <4>1 DEF InsertNewsDeliveries, TypeOK, Delivery
    <3> QED
      BY <1>8, <3>1, <3>2 DEF RecordRecipients
  <2> QED
    BY <1>1, <1>8, <2>1, <2>2, <2>3 DEF RecordRecipients, TypeOK
<1> QED
  BY <1>3, <1>4, <1>5, <1>6, <1>7, <1>8 DEF PublishStep

\* The goroutines.
LEMMA FanTypes ==
  ASSUME TypeOK, CallsConsistent, NEW c \in Call, NEW u \in Member,
         SendPushOnly(c, u) \/ MarkNewsDelivered(c, u)
  PROVE  TypeOK'
<1>1. fan[c] \in FanState
  BY DEF TypeOK
<1>2. fan[c].story \in Story
  BY <1>1 DEF CallsConsistent, CallOK, FanState, IdleFan, SendPushOnly, Push, MarkNewsDelivered
<1>3. CASE SendPushOnly(c, u)
  <2>1. fan' \in [Call -> FanState]
    <3> DEFINE v == [fan[c] EXCEPT !.todo = @ \ {u}, !.sent = @ \cup {u}]
               w == [fan[c] EXCEPT !.todo = @ \ {u}]
    <3>1. v \in FanState /\ w \in FanState /\ After(w) \in FanState
      BY <1>1, IdleTypes DEF FanState, After
    <3>2. fan' = [fan EXCEPT ![c] = v] \/ fan' = [fan EXCEPT ![c] = After(w)]
      BY <1>3 DEF SendPushOnly, Push, TypeOK
    <3> HIDE DEF v, w
    <3> QED
      BY <3>1, <3>2, FanSet
  <2>2. phone' \in [Story \X Member -> Nat] /\ tried' \subseteq Story \X Member
    <3>1. PICK k \in Story \X Member : k = <<fan[c].story, u>>
      BY <1>2
    <3>2. phone' = [phone EXCEPT ![k] = @ + 1] \/ phone' = phone
      BY <1>3, <3>1 DEF SendPushOnly, Push
    <3>3. tried' = tried \cup {k}
      BY <1>3, <3>1 DEF SendPushOnly, Push
    <3>4. phone[k] + 1 \in Nat
      BY DEF TypeOK
    <3> QED
      BY <3>2, <3>3, <3>4 DEF TypeOK
  <2> QED
    BY <1>3, <2>1, <2>2 DEF SendPushOnly, Push, tables, TypeOK
<1>4. CASE MarkNewsDelivered(c, u)
  <2>1. fan' \in [Call -> FanState]
    <3> DEFINE w == [fan[c] EXCEPT !.sent = @ \ {u}]
    <3>1. w \in FanState /\ After(w) \in FanState
      BY <1>1, IdleTypes DEF FanState, After
    <3>2. fan' = [fan EXCEPT ![c] = After(w)]
      BY <1>4 DEF MarkNewsDelivered
    <3> HIDE DEF w
    <3> QED
      BY <3>1, <3>2, FanSet
  <2>2. /\ DOMAIN delivery' \subseteq Story \X Member
        /\ \A k \in DOMAIN delivery' : delivery'[k] \in Delivery
    <3>1. PICK k \in Story \X Member : k = <<fan[c].story, u>>
      BY <1>2
    <3>2. CASE delivery' = [delivery EXCEPT ![k].delivered = TRUE] /\ k \in DOMAIN delivery
      <4> DEFINE w == [delivery[k] EXCEPT !.delivered = TRUE]
      <4>1. w \in Delivery
        BY <3>2 DEF TypeOK, Delivery
      <4>2. delivery' = [delivery EXCEPT ![k] = w]
        BY <3>2
      <4> HIDE DEF w
      <4> QED
        BY <4>1, <4>2 DEF TypeOK
    <3>3. CASE delivery' = delivery
      BY <3>3 DEF TypeOK
    <3> QED
      BY <1>4, <3>1, <3>2, <3>3 DEF MarkNewsDelivered
  <2>3. faults' \in Nat
    BY <1>4 DEF MarkNewsDelivered, Fail, TypeOK
  <2> QED
    BY <1>4, <2>1, <2>2, <2>3 DEF MarkNewsDelivered, TypeOK
<1> QED
  BY <1>3, <1>4

\* The members' visits.
LEMMA VisitTypes ==
  ASSUME TypeOK, NEW u \in Member,
         \/ \E n \in Story : \/ GetPublishedNews(u, n) \/ MarkNewsReadToEnd(u, n)
                             \/ MarkNewsUpgradeClicked(u, n)
         \/ IsProUser(u) \/ RecordNewsView(u) \/ MarkNewsSeen(u)
  PROVE  TypeOK'
<1>1. visit[u] \in Visit /\ member[u].pro \in BOOLEAN
  BY DEF TypeOK
<1>2. \A w \in Visit : [visit EXCEPT ![u] = w] \in [Member -> Visit]
  BY DEF TypeOK
<1>3. ASSUME NEW n \in Story, GetPublishedNews(u, n) PROVE TypeOK'
  <2>1. [step |-> "pro", story |-> n, pro |-> FALSE] \in Visit
    BY DEF Visit
  <2>2. visit' \in [Member -> Visit]
    BY <1>2, <1>3, <2>1 DEF GetPublishedNews
  <2> QED
    BY <1>3, <2>2 DEF GetPublishedNews, tables, TypeOK
<1>4. CASE IsProUser(u)
  <2> DEFINE w == [visit[u] EXCEPT !.step = "record", !.pro = member[u].pro]
  <2>1. w \in Visit
    BY <1>1 DEF Visit
  <2>2. visit' = [visit EXCEPT ![u] = w]
    BY <1>4 DEF IsProUser, TypeOK
  <2> HIDE DEF w
  <2>3. visit' \in [Member -> Visit]
    BY <1>2, <2>1, <2>2
  <2> QED
    BY <1>4, <2>3 DEF IsProUser, tables, TypeOK
<1>5. CASE RecordNewsView(u)
  <2>1. visit' \in [Member -> Visit]
    BY <1>2, <1>5, IdleTypes DEF RecordNewsView
  <2>2. view' \in [Story \X Member -> {None} \cup SUBSET Flags]
    <3> DEFINE k == <<visit[u].story, u>>
    <3>1. CASE UNCHANGED view
      BY <3>1 DEF TypeOK
    <3>2. ASSUME NEW tap \in {{}, {"from_push"}},
                 view' = [view EXCEPT ![k] = VisitMerged(@, tap \cup
                            {IF visit[u].pro THEN "read_as_pro" ELSE "gated"})]
          PROVE  view' \in [Story \X Member -> {None} \cup SUBSET Flags]
      <4>1. tap \cup {IF visit[u].pro THEN "read_as_pro" ELSE "gated"} \in SUBSET Flags
        BY DEF Flags
      <4>2. \A x \in {None} \cup SUBSET Flags, f \in SUBSET Flags :
              VisitMerged(x, f) \in SUBSET Flags
        BY DEF VisitMerged
      <4> HIDE DEF k
      <4> QED
        BY <3>2, <4>1, <4>2 DEF TypeOK
    <3> QED
      BY <1>5, <3>1, <3>2 DEF RecordNewsView
  <2>3. faults' \in Nat
    BY <1>5 DEF RecordNewsView, Fail, TypeOK
  <2> QED
    BY <1>5, <2>1, <2>2, <2>3 DEF RecordNewsView, TypeOK
<1>6. ASSUME NEW n \in Story, NEW flag \in Flags, NEW guard, TurnOn(u, n, flag, guard)
      PROVE  TypeOK'
  <2>1. view' \in [Story \X Member -> {None} \cup SUBSET Flags]
    BY <1>6 DEF TurnOn, TypeOK
  <2> QED
    BY <1>6, <2>1 DEF TurnOn, TypeOK
<1>7. CASE MarkNewsSeen(u)
  <2>1. clock + 1 \in Nat
    BY DEF TypeOK
  <2>2. seen' \in [Member -> Nat \cup {None}] /\ clock' \in Nat
    BY <1>7, <2>1 DEF MarkNewsSeen, TypeOK
  <2> QED
    BY <1>7, <2>2 DEF MarkNewsSeen, TypeOK
<1> QED
  BY <1>3, <1>4, <1>5, <1>6, <1>7 DEF MarkNewsReadToEnd, MarkNewsUpgradeClicked, Flags

\* The world around the stories.
LEMMA WorldTypes ==
  ASSUME TypeOK, NEW u \in Member, SubscriptionChanges(u) \/ StatusChanges(u)
  PROVE  TypeOK'
<1>0. member[u] \in [status : {"active", "suspended"}, pro : BOOLEAN] /\ changes + 1 \in Nat
  BY DEF TypeOK
<1>1. CASE SubscriptionChanges(u)
  <2>1. member' \in [Member -> [status : {"active", "suspended"}, pro : BOOLEAN]]
    BY <1>0, <1>1 DEF SubscriptionChanges, TypeOK
  <2>2. changes' \in Nat
    BY <1>0, <1>1 DEF SubscriptionChanges, Change
  <2> QED
    BY <1>1, <2>1, <2>2 DEF SubscriptionChanges, tables, TypeOK
<1>2. CASE StatusChanges(u)
  <2>1. member' \in [Member -> [status : {"active", "suspended"}, pro : BOOLEAN]]
    BY <1>0, <1>2 DEF StatusChanges, TypeOK
  <2>2. changes' \in Nat
    BY <1>0, <1>2 DEF StatusChanges, Change
  <2> QED
    BY <1>2, <2>1, <2>2 DEF StatusChanges, tables, TypeOK
<1> QED
  BY <1>1, <1>2

\* The setting, and the process.
LEMMA ProcessTypes ==
  ASSUME TypeOK, SetMode \/ Crash
  PROVE  TypeOK'
<1>0. changes + 1 \in Nat /\ faults + 1 \in Nat
  BY DEF TypeOK
<1>1. CASE SetMode
  <2>1. changes' \in Nat
    BY <1>0, <1>1 DEF SetMode, Change
  <2> QED
    BY <1>1, <2>1 DEF SetMode, tables, TypeOK
<1>2. CASE Crash
  <2>1. faults' \in Nat
    BY <1>0, <1>2 DEF Crash, Fail
  <2> QED
    BY <1>2, <2>1, IdleTypes DEF Crash, tables, TypeOK
<1> QED
  BY <1>1, <1>2

-----------------------------------------------------------------------------
(* What a step has to respect to keep the parts of IInv about pushes.      *)

PushParts ==
  StoriesConsistent /\ OneHolder /\ PushesConsistent /\ CountsConsistent /\ RowsConsistent

\* The step fails nothing, or is the failure.
Faulty == faults' = faults \/ faults' = faults + 1

\* The calls that a step leaves alone stay consistent.
LEMMA CallsKept ==
  ASSUME CallsConsistent,
         \A c \in Call : (call'[c] = call[c] /\ fan'[c] = fan[c]) \/ CallOK(c)'
  PROVE  CallsConsistent'
BY DEF CallsConsistent, CallOK

\* A step that gives up, counts, sends and marks nothing.
LEMMA EditKept ==
  ASSUME IInv, Faulty, UNCHANGED <<deleted, delivery, fan, phone>>,
         \A n \in Story :
           /\ Exists(n)' <=> Exists(n)
           /\ Exists(n) => /\ story'[n].notified = story[n].notified
                           /\ story'[n].count = story[n].count
                           /\ IsPublished(n)' => story'[n].published # None,
         \A c \in Call :
           \/ call'[c] = call[c]
           \/ \A n \in Story : ~Claimed(c, n) /\ ~Claimed(c, n)'
  PROVE  PushParts'
<1>1. \A n \in Story, c \in Call :
        (Claimed(c, n)' <=> Claimed(c, n)) /\ (Claimed(c, n) => call'[c] = call[c])
  BY DEF Claimed
<1>2. \A n \in Story, c \in Call : Holds(c, n)' <=> Holds(c, n)
  BY <1>1 DEF Holds
<1>3. \A n \in Story : (Spent(n)' <=> Spent(n)) /\ (NoPush(n)' <=> NoPush(n))
                         /\ DeliveriesOf(n)' = DeliveriesOf(n)
  BY DEF Spent, NoPush, DeliveriesOf
<1>4. \A n \in Story, u \in Member : Unmarked(n, u)' <=> Unmarked(n, u)
  BY DEF Unmarked
<1>5. faults' = 0 => faults = 0
  BY DEF IInv, TypeOK, Faulty
<1>6. StoriesConsistent'
  BY <1>3 DEF IInv, StoriesConsistent, IsPublished
<1>7. OneHolder'
  BY <1>2, <1>3 DEF IInv, OneHolder
<1>8. PushesConsistent'
  BY <1>1, <1>3 DEF IInv, PushesConsistent, PushOK
<1>9. CountsConsistent'
  BY <1>1, <1>3, <1>5 DEF IInv, CountsConsistent, CountOK
<1>10. RowsConsistent'
  BY <1>4, <1>5 DEF IInv, RowsConsistent, RowsOK
<1> QED
  BY <1>6, <1>7, <1>8, <1>9, <1>10 DEF PushParts

\* The goroutine of a story is its only holder.
LEMMA FanIsAlone ==
  ASSUME IInv, NEW c \in Call, NEW n \in Story, fan[c].story = n
  PROVE  /\ \A d \in Call : ~Claimed(d, n)
         /\ \A d \in Call : fan[d].story = n => d = c
         /\ Spent(n)
<1>1. Spent(n) /\ \A d \in Call : Holds(d, n) => d = c
  BY DEF IInv, OneHolder, Holds
<1>2. ~Claimed(c, n)
  BY NewsAssumption DEF IInv, CallsConsistent, CallOK, Claimed, IdleFan
<1> QED
  BY <1>1, <1>2 DEF Holds

\* So is the call that has claimed it.
LEMMA ClaimIsAlone ==
  ASSUME IInv, NEW c \in Call, NEW n \in Story, Claimed(c, n)
  PROVE  /\ \A d \in Call : fan[d].story # n
         /\ \A d \in Call : Claimed(d, n) => d = c
         /\ Spent(n) /\ NoPush(n)
<1>1. Spent(n) /\ \A d \in Call : Holds(d, n) => d = c
  BY DEF IInv, OneHolder, Holds
<1>2. fan[c].story # n
  BY NewsAssumption DEF IInv, CallsConsistent, CallOK, Claimed, IdleFan
<1>3. NoPush(n)
  BY DEF IInv, PushesConsistent, PushOK
<1> QED
  BY <1>1, <1>2, <1>3 DEF Holds

\* Before the claim nobody holds the story, and nobody has been told.
LEMMA UnspentIsFresh ==
  ASSUME IInv, NEW n \in Story, ~Spent(n)
  PROVE  /\ \A c \in Call : ~Holds(c, n) /\ ~Claimed(c, n) /\ fan[c].story # n
         /\ NoPush(n) /\ DeliveriesOf(n) = {} /\ Cardinality(DeliveriesOf(n)) = 0
         /\ \A u \in Member : ~Unmarked(n, u)
<1>1. \A c \in Call : ~Holds(c, n) /\ ~Claimed(c, n) /\ fan[c].story # n
  BY DEF IInv, OneHolder, Holds
<1>2. NoPush(n)
  BY DEF IInv, StoriesConsistent
<1>3. DeliveriesOf(n) = {}
  <2> SUFFICES ASSUME NEW k \in DOMAIN delivery, k[1] = n PROVE FALSE
    BY DEF DeliveriesOf
  <2>1. k \in Story \X Member
    BY DEF IInv, TypeOK
  <2>2. k[2] \in Member /\ k = <<n, k[2]>>
    BY <2>1
  <2> QED
    BY <1>2, <2>2 DEF NoPush
<1>4. Cardinality(DeliveriesOf(n)) = 0
  BY <1>3, FS_EmptySet
<1> QED
  BY <1>1, <1>2, <1>3, <1>4 DEF Unmarked

-----------------------------------------------------------------------------
(* The actions that create, delete, give up, count, record, send and mark. *)

\* A new story has its notification still to give.
LEMMA CreateKeeps ==
  ASSUME IInv, TypeOK', NEW n \in Story, Create(n)
  PROVE  PushParts'
<1>0. ~Exists(n) /\ n \notin deleted /\ ~Spent(n)
  BY DEF Create, Spent
<1>1. PICK w \in StoryRow : /\ story' = [story EXCEPT ![n] = w]
                            /\ w.status = "draft" /\ ~w.notified /\ w.count = 0
  <2>1. PICK body \in BOOLEAN, interests \in SUBSET Interest :
          story' = [story EXCEPT ![n] =
                  [status |-> "draft", body |-> body, interests |-> interests,
                   published |-> None, notified |-> FALSE, count |-> 0]]
    BY DEF Create
  <2>2. [status |-> "draft", body |-> body, interests |-> interests,
         published |-> None, notified |-> FALSE, count |-> 0] \in StoryRow
    BY DEF StoryRow
  <2> QED
    BY <2>1, <2>2
<1>2. UNCHANGED <<deleted, delivery, call, fan, phone, faults>>
  BY DEF Create
<1>3. story'[n] = w /\ \A m \in Story \ {n} : story'[m] = story[m]
  BY <1>1 DEF IInv, TypeOK
<1>4. ~Spent(n)' /\ ~IsPublished(n)'
  BY <1>0, <1>1, <1>2, <1>3 DEF Spent, IsPublished
<1>5. \A m \in Story \ {n} : /\ Spent(m)' <=> Spent(m)
                             /\ Exists(m)' <=> Exists(m)
                             /\ IsPublished(m)' <=> IsPublished(m)
  BY <1>2, <1>3 DEF Spent, Exists, IsPublished
<1>6. \A m \in Story : /\ NoPush(m)' <=> NoPush(m)
                       /\ DeliveriesOf(m)' = DeliveriesOf(m)
                       /\ \A u \in Member : Unmarked(m, u)' <=> Unmarked(m, u)
                       /\ \A c \in Call : /\ Holds(c, m)' <=> Holds(c, m)
                                          /\ Claimed(c, m)' <=> Claimed(c, m)
  BY <1>2 DEF NoPush, DeliveriesOf, Unmarked, Holds, Claimed
<1>7. /\ \A c \in Call : ~Holds(c, n) /\ ~Claimed(c, n) /\ fan[c].story # n
      /\ NoPush(n) /\ Cardinality(DeliveriesOf(n)) = 0
      /\ \A u \in Member : ~Unmarked(n, u)
  BY <1>0, UnspentIsFresh
<1>8. StoriesConsistent'
  <2>1. \A u \in Member : <<n, u>> \notin DOMAIN delivery
    BY <1>7 DEF NoPush
  <2> QED
    BY <1>0, <1>1, <1>2, <1>3, <1>4, <1>5, <1>6, <1>7, <2>1 DEF IInv, StoriesConsistent
<1>9. OneHolder'
  BY <1>5, <1>6, <1>7 DEF IInv, OneHolder
<1>10. PushesConsistent'
  BY <1>2, <1>6 DEF IInv, PushesConsistent, PushOK
<1>11. CountsConsistent'
  <2>1. CountOK(n)'
    BY <1>1, <1>3, <1>6, <1>7 DEF CountOK
  <2>2. \A m \in Story \ {n} : CountOK(m) => CountOK(m)'
    BY <1>2, <1>3, <1>6 DEF CountOK
  <2> QED
    BY <1>2, <1>5, <2>1, <2>2 DEF IInv, CountsConsistent
<1>12. RowsConsistent'
  <2>1. RowsOK(n)'
    <3>1. \A c \in Call : fan'[c].story # n
      BY <1>2, <1>7
    <3>2. \A u \in Member : phone'[n, u] = 0 /\ <<n, u>> \notin DOMAIN delivery'
      BY <1>2, <1>7 DEF NoPush
    <3>3. \A u \in Member : ~Unmarked(n, u)'
      BY <1>6, <1>7
    <3>4. \A u \in Member : phone'[n, u] # 1
      BY <3>2, NoPushIsNotOne
    <3> QED
      BY <3>1, <3>2, <3>3, <3>4 DEF RowsOK
  <2>2. \A m \in Story : RowsOK(m) => RowsOK(m)'
    BY <1>2, <1>6 DEF RowsOK
  <2> QED
    BY <1>2, <1>5, <2>1, <2>2 DEF IInv, RowsConsistent
<1> QED
  BY <1>8, <1>9, <1>10, <1>11, <1>12 DEF PushParts

\* A deleted story takes its rows along and never comes back.
LEMMA DeleteKeeps ==
  ASSUME IInv, TypeOK', NEW n \in Story, Delete(n)
  PROVE  PushParts'
<1>1. UNCHANGED <<call, fan, phone, faults>> /\ deleted' = deleted \cup {n}
  BY DEF Delete
<1>2. ~Exists(n)' /\ \A m \in Story \ {n} : story'[m] = story[m]
  BY DEF Delete, IInv, TypeOK, Exists
<1>3. /\ DOMAIN delivery' = {k \in DOMAIN delivery : k[1] # n}
      /\ \A k \in DOMAIN delivery' : delivery'[k] = delivery[k]
  BY DEF Delete
<1>4. Spent(n)' /\ \A u \in Member : <<n, u>> \notin DOMAIN delivery'
  BY <1>1, <1>3 DEF Spent
<1>5. \A m \in Story \ {n} : /\ Spent(m)' <=> Spent(m)
                             /\ Exists(m)' <=> Exists(m)
                             /\ IsPublished(m)' <=> IsPublished(m)
                             /\ DeliveriesOf(m)' = DeliveriesOf(m)
  BY <1>1, <1>2, <1>3 DEF Spent, Exists, IsPublished, DeliveriesOf
<1>6. \A m \in Story, u \in Member :
        /\ m # n => (<<m, u>> \in DOMAIN delivery' <=> <<m, u>> \in DOMAIN delivery)
        /\ <<m, u>> \in DOMAIN delivery' => delivery'[m, u] = delivery[m, u]
        /\ <<m, u>> \in DOMAIN delivery' => <<m, u>> \in DOMAIN delivery
  BY <1>3
<1>7. \A m \in Story : NoPush(m) => NoPush(m)'
  BY <1>1, <1>6 DEF NoPush
<1>8. \A m \in Story : /\ \A u \in Member : Unmarked(m, u)' <=> Unmarked(m, u)
                       /\ \A c \in Call : /\ Holds(c, m)' <=> Holds(c, m)
                                          /\ Claimed(c, m)' <=> Claimed(c, m)
  BY <1>1 DEF Unmarked, Holds, Claimed
<1>9. StoriesConsistent'
  BY <1>1, <1>2, <1>4, <1>5, <1>6, <1>7 DEF IInv, StoriesConsistent, IsPublished
<1>10. OneHolder'
  BY <1>4, <1>5, <1>8 DEF IInv, OneHolder
<1>11. PushesConsistent'
  BY <1>1, <1>7, <1>8 DEF IInv, PushesConsistent, PushOK
<1>12. CountsConsistent'
  <2>1. \A m \in Story \ {n} : CountOK(m) => CountOK(m)'
    BY <1>1, <1>2, <1>5, <1>8 DEF CountOK
  <2> QED
    BY <1>1, <1>2, <1>5, <2>1 DEF IInv, CountsConsistent
<1>13. RowsConsistent'
  <2>1. \A m \in Story \ {n}, d \in Call :
          fan[d] \in FanState
    BY DEF IInv, TypeOK
  <2>2. ASSUME NEW m \in Story \ {n}, RowsOK(m) PROVE RowsOK(m)'
    <3>1. ASSUME NEW d \in Call, fan[d].story = m, NEW u \in fan[d].todo \cup fan[d].sent
          PROVE  <<m, u>> \in DOMAIN delivery'
      BY <1>6, <2>1, <2>2, <3>1 DEF RowsOK, FanState
    <3>2. ASSUME NEW u \in Member
          PROVE  phone[m, u] = 1 <=> \/ <<m, u>> \in DOMAIN delivery' /\ delivery'[m, u].delivered
                                     \/ Unmarked(m, u)
      BY <1>6, <2>2 DEF RowsOK
    <3> QED
      BY <1>1, <1>8, <3>1, <3>2 DEF RowsOK
  <2> QED
    BY <1>1, <1>2, <1>5, <2>2 DEF IInv, RowsConsistent
<1> QED
  BY <1>9, <1>10, <1>11, <1>12, <1>13 DEF PushParts

\* The call that gives the notification up becomes its holder.
LEMMA ClaimKeeps ==
  ASSUME IInv, TypeOK', NEW c \in Call, NEW n \in Story,
         call[c].step = "claim", call[c].story = n,
         ClaimNewsNotification(n), call' = [call EXCEPT ![c].step = "count"],
         UNCHANGED <<deleted, delivery, fan, phone, faults>>
  PROVE  PushParts'
<1>1. Exists(n) /\ ~story[n].notified /\ ~Spent(n) /\ story[n] \in StoryRow
  BY DEF ClaimNewsNotification, Spent, IInv, StoriesConsistent, TypeOK, Exists
<1>2. PICK w \in StoryRow : /\ story' = [story EXCEPT ![n] = w]
                            /\ w = [story[n] EXCEPT !.notified = TRUE]
  <2>1. [story[n] EXCEPT !.notified = TRUE] \in StoryRow
    BY <1>1 DEF StoryRow
  <2> QED
    BY <2>1 DEF ClaimNewsNotification, IInv, TypeOK
<1>3. /\ w.notified /\ w.status = story[n].status /\ w.published = story[n].published
      /\ w.count = story[n].count
  BY <1>1, <1>2 DEF StoryRow
<1>4. /\ story'[n] = w /\ \A m \in Story \ {n} : story'[m] = story[m]
      /\ w # None
  <2>1. story'[n] = w /\ \A m \in Story \ {n} : story'[m] = story[m]
    BY <1>2 DEF IInv, TypeOK
  <2>2. w # None
    BY <1>2, NewsAssumption
  <2> QED
    BY <2>1, <2>2
<1>5. /\ \A m \in Story : Exists(m)' <=> Exists(m)
      /\ Spent(n)'
      /\ \A m \in Story \ {n} : Spent(m)' <=> Spent(m)
      /\ \A m \in Story : IsPublished(m)' <=> IsPublished(m)
  BY <1>1, <1>3, <1>4 DEF Exists, Spent, IsPublished
<1>6. /\ call'[c].step = "count" /\ call'[c].story = n
      /\ \A d \in Call \ {c} : call'[d] = call[d]
  BY DEF IInv, TypeOK, CallState
<1>7. /\ Claimed(c, n)' /\ ~Claimed(c, n)
      /\ \A d \in Call, m \in Story :
           (d # c \/ m # n) => (Claimed(d, m)' <=> Claimed(d, m))
  BY <1>6 DEF Claimed
<1>8. \A d \in Call, m \in Story : (d # c \/ m # n) => (Holds(d, m)' <=> Holds(d, m))
  BY <1>7 DEF Holds
<1>9. \A m \in Story : /\ NoPush(m)' <=> NoPush(m)
                       /\ DeliveriesOf(m)' = DeliveriesOf(m)
                       /\ \A u \in Member : Unmarked(m, u)' <=> Unmarked(m, u)
  BY DEF NoPush, DeliveriesOf, Unmarked
<1>10. /\ \A d \in Call : ~Holds(d, n) /\ ~Claimed(d, n) /\ fan[d].story # n
       /\ NoPush(n)
  BY <1>1, UnspentIsFresh
<1>11. StoriesConsistent'
  BY <1>3, <1>4, <1>5, <1>9 DEF IInv, StoriesConsistent, IsPublished
<1>12. OneHolder'
  BY <1>5, <1>8, <1>10 DEF IInv, OneHolder
<1>13. PushesConsistent'
  <2>1. \A d \in Call : PushOK(d, n)'
    BY <1>9, <1>10 DEF PushOK
  <2>2. \A m \in Story \ {n}, d \in Call : PushOK(d, m) => PushOK(d, m)'
    BY <1>7, <1>9 DEF PushOK
  <2> QED
    BY <2>1, <2>2 DEF IInv, PushesConsistent
<1>14. CountsConsistent'
  <2>1. CountOK(n)'
    BY <1>6, <1>7, <1>10 DEF CountOK
  <2>2. \A m \in Story \ {n} : CountOK(m) => CountOK(m)'
    BY <1>4, <1>6, <1>7, <1>9 DEF CountOK, Claimed
  <2> QED
    BY <1>5, <2>1, <2>2 DEF IInv, CountsConsistent
<1>15. RowsConsistent'
  <2>1. \A m \in Story : RowsOK(m) => RowsOK(m)'
    BY <1>9 DEF RowsOK
  <2> QED
    BY <1>5, <2>1 DEF IInv, RowsConsistent
<1> QED
  BY <1>11, <1>12, <1>13, <1>14, <1>15 DEF PushParts

\* The count goes on the story while the call still holds it.
LEMMA CountKeeps ==
  ASSUME IInv, TypeOK', NEW c \in Call, SetNewsNotifiedCount(c)
  PROVE  PushParts'
<1>0. PICK n \in Story : n = call[c].story
  BY CallHasStory DEF IInv, SetNewsNotifiedCount
<1>1. PICK q \in Nat : q = Cardinality(call[c].to)
  BY RecipientsFinite, FS_CardinalityType DEF IInv
<1>2. /\ call[c].step = "count" /\ call'[c].step = "record"
      /\ call'[c].story = n /\ call'[c].to = call[c].to
      /\ \A d \in Call \ {c} : call'[d] = call[d]
  BY <1>0 DEF SetNewsNotifiedCount, IInv, TypeOK, CallState
<1>3. Claimed(c, n) /\ Claimed(c, n)' /\ \A m \in Story \ {n} : ~Claimed(c, m) /\ ~Claimed(c, m)'
  BY <1>0, <1>2 DEF Claimed
<1>4. \A d \in Call, m \in Story : (Claimed(d, m)' <=> Claimed(d, m)) /\ (Holds(d, m)' <=> Holds(d, m))
  BY <1>2, <1>3 DEF Claimed, Holds, SetNewsNotifiedCount
<1>5. /\ \A d \in Call : fan[d].story # n
      /\ \A d \in Call : Claimed(d, n) => d = c
      /\ Spent(n) /\ NoPush(n)
  BY <1>3, ClaimIsAlone
<1>6. UNCHANGED <<deleted, delivery, fan, phone>> /\ Faulty
  BY DEF SetNewsNotifiedCount, Fail, Faulty
<1>7. /\ \A m \in Story \ {n} : story'[m] = story[m]
      /\ Exists(n)' <=> Exists(n)
      /\ Exists(n) => /\ story'[n].notified = story[n].notified
                      /\ story'[n].status = story[n].status
                      /\ story'[n].published = story[n].published
                      /\ faults' = faults => story'[n].count = q
  <2>1. CASE UNCHANGED story /\ faults' = faults + 1
    <3>1. faults' # faults
      BY <2>1 DEF IInv, TypeOK
    <3> QED
      BY <2>1, <3>1 DEF Exists
  <2>2. CASE ~Exists(n) /\ UNCHANGED story
    BY <2>2 DEF Exists
  <2>3. CASE Exists(n) /\ story' = [story EXCEPT ![n].count = q]
    <3>1. story[n] \in StoryRow
      BY <2>3 DEF IInv, TypeOK, Exists
    <3> DEFINE w == [story[n] EXCEPT !.count = q]
    <3>2. /\ w \in StoryRow /\ w.notified = story[n].notified /\ w.status = story[n].status
          /\ w.published = story[n].published /\ w.count = q
      BY <3>1 DEF StoryRow
    <3>3. story' = [story EXCEPT ![n] = w]
      BY <2>3 DEF IInv, TypeOK
    <3>4. w # None
      BY <3>2, NewsAssumption
    <3> HIDE DEF w
    <3> QED
      BY <2>3, <3>2, <3>3, <3>4 DEF IInv, TypeOK, Exists
  <2> QED
    BY <1>0, <1>1, <2>1, <2>2, <2>3 DEF SetNewsNotifiedCount, Fail
<1>8. \A m \in Story : /\ Exists(m)' <=> Exists(m)
                       /\ Spent(m)' <=> Spent(m)
                       /\ IsPublished(m)' <=> IsPublished(m)
                       /\ IsPublished(m) => story'[m].published = story[m].published
                       /\ NoPush(m)' <=> NoPush(m)
                       /\ DeliveriesOf(m)' = DeliveriesOf(m)
                       /\ \A u \in Member : Unmarked(m, u)' <=> Unmarked(m, u)
  <2>1. \A m \in Story : /\ Exists(m)' <=> Exists(m)
                         /\ Exists(m) => /\ story'[m].notified = story[m].notified
                                         /\ story'[m].status = story[m].status
                                         /\ story'[m].published = story[m].published
    BY <1>7 DEF Exists
  <2> QED
    BY <1>6, <2>1 DEF Spent, IsPublished, NoPush, DeliveriesOf, Unmarked
<1>9. StoriesConsistent'
  <2>1. \A m \in Story : Exists(m) /\ ~Spent(m) => story'[m] = story[m]
    BY <1>5, <1>7
  <2> QED
    BY <1>6, <1>8, <2>1 DEF IInv, StoriesConsistent
<1>10. OneHolder'
  BY <1>4, <1>8 DEF IInv, OneHolder
<1>11. PushesConsistent'
  BY <1>4, <1>6, <1>8 DEF IInv, PushesConsistent, PushOK
<1>12. CountsConsistent'
  <2> SUFFICES ASSUME faults' = 0, NEW m \in Story, Exists(m)' PROVE CountOK(m)'
    BY DEF CountsConsistent
  <2>1. faults = 0 /\ faults' = faults
    BY <1>6 DEF Faulty, IInv, TypeOK
  <2>2. CASE m = n
    <3>1. story'[n].count = Cardinality(call'[c].to)
      BY <1>1, <1>2, <1>7, <1>8, <2>1, <2>2
    <3> QED
      BY <1>3, <1>4, <1>5, <2>2, <3>1 DEF CountOK
  <2>3. CASE m # n
    <3>1. CountOK(m)
      BY <1>8, <2>1 DEF IInv, CountsConsistent
    <3> QED
      BY <1>2, <1>3, <1>4, <1>7, <1>8, <2>3, <3>1 DEF CountOK
  <2> QED
    BY <2>2, <2>3
<1>13. RowsConsistent'
  <2>1. \A m \in Story : RowsOK(m) => RowsOK(m)'
    BY <1>6, <1>8 DEF RowsOK
  <2>2. faults' = 0 => faults = 0
    BY <1>6 DEF Faulty, IInv, TypeOK
  <2> QED
    BY <1>8, <2>1, <2>2 DEF IInv, RowsConsistent
<1> QED
  BY <1>9, <1>10, <1>11, <1>12, <1>13 DEF PushParts

\* Recording one row per recipient.
LEMMA OneRowEach ==
  ASSUME NEW n \in Story, NEW to, IsFiniteSet(to), \A r, s \in to : r.id = s.id => r = s
  PROVE  Cardinality({<<n, r.id>> : r \in to}) = Cardinality(to)
<1> DEFINE rows == {<<n, r.id>> : r \in to}
           f == [r \in to |-> <<n, r.id>>]
<1>1. f \in [to -> rows]
  OBVIOUS
<1>2. \A r, s \in to : f[r] = f[s] => r = s
  OBVIOUS
<1>3. \A k \in rows : \E r \in to : f[r] = k
  OBVIOUS
<1> HIDE DEF f, rows
<1>4. f \in Bijection(to, rows)
  BY <1>1, <1>2, <1>3 DEF Bijection, Injection, Surjection, IsInjective
<1>5. Cardinality(rows) = Cardinality(to)
  BY <1>4, FS_Bijection DEF ExistsBijection
<1> QED
  BY <1>5 DEF rows

\* The call hands its recipients over to its goroutine.
LEMMA RecordKeeps ==
  ASSUME IInv, TypeOK', NEW c \in Call, RecordRecipients(c)
  PROVE  PushParts'
<1>0. PICK n \in Story : n = call[c].story
  BY CallHasStory DEF IInv, RecordRecipients
<1>1. PICK to \in SUBSET Recipient : to = call[c].to
  BY DEF IInv, TypeOK, CallState
<1> DEFINE rows == {<<n, r.id>> : r \in to}
<1>2. /\ call[c].step = "record" /\ call'[c] = IdleCall
      /\ \A d \in Call \ {c} : call'[d] = call[d] /\ fan'[d] = fan[d]
      /\ fan'[c] = [story |-> n, todo |-> {r.id : r \in to}, sent |-> {}]
      /\ UNCHANGED <<story, deleted, phone>> /\ Faulty
  BY <1>0, <1>1 DEF RecordRecipients, Fail, Faulty, IInv, TypeOK
<1>3. Claimed(c, n) /\ fan[c] = IdleFan
  BY <1>0, <1>2 DEF Claimed, IInv, CallsConsistent, CallOK
<1>4. /\ \A d \in Call : fan[d].story # n
      /\ \A d \in Call : Claimed(d, n) => d = c
      /\ Spent(n) /\ NoPush(n)
  BY <1>3, ClaimIsAlone
<1>5. /\ fan'[c].story = n /\ fan'[c].sent = {} /\ fan'[c].todo = {r.id : r \in to}
      /\ \A u \in fan'[c].todo : u \in Member /\ <<n, u>> \in rows
  BY <1>2 DEF Recipient
<1>6. /\ \A d \in Call : ~Claimed(d, n)'
      /\ \A d \in Call, m \in Story \ {n} : Claimed(d, m)' <=> Claimed(d, m)
  BY <1>0, <1>2, <1>4 DEF Claimed, IdleCall
<1>7. \A d \in Call, m \in Story : m # n => (fan'[d].story = m <=> fan[d].story = m)
  BY <1>2, <1>3, <1>5, NewsAssumption DEF IdleFan
<1>8. \A d \in Call, m \in Story : Holds(d, m)' <=> Holds(d, m)
  BY <1>2, <1>3, <1>4, <1>5, <1>6, <1>7 DEF Holds
<1>9. \A m \in Story : /\ Exists(m)' <=> Exists(m)
                       /\ Spent(m)' <=> Spent(m)
                       /\ IsPublished(m)' <=> IsPublished(m)
                       /\ \A u \in Member : Unmarked(m, u)' <=> Unmarked(m, u)
  <2>1. \A m \in Story, u \in Member, d \in Call :
          fan'[d].story = m /\ u \in fan'[d].sent <=> fan[d].story = m /\ u \in fan[d].sent
    BY <1>2, <1>3, <1>5 DEF IdleFan
  <2>2. \A m \in Story, u \in Member : Unmarked(m, u)' <=> Unmarked(m, u)
    BY <2>1 DEF Unmarked
  <2> QED
    BY <1>2, <2>2 DEF Exists, Spent, IsPublished
<1>10. /\ faults' = faults /\ Exists(n) =>
            /\ DOMAIN delivery' = DOMAIN delivery \cup rows
            /\ \A k \in DOMAIN delivery : delivery'[k] = delivery[k]
            /\ \A k \in rows \ DOMAIN delivery : ~delivery'[k].delivered
       /\ \/ UNCHANGED delivery
          \/ Exists(n) /\ DOMAIN delivery' = DOMAIN delivery \cup rows
       /\ \A k \in DOMAIN delivery : delivery'[k] = delivery[k]
  <2>1. faults + 1 # faults
    BY DEF IInv, TypeOK
  <2> QED
    BY <1>0, <1>1, <2>1 DEF RecordRecipients, InsertNewsDeliveries, Fail
<1>11. \A m \in Story \ {n} : /\ NoPush(m)' <=> NoPush(m)
                              /\ DeliveriesOf(m)' = DeliveriesOf(m)
  <2>1. \A k : k[1] # n => (k \in DOMAIN delivery' <=> k \in DOMAIN delivery)
    BY <1>10
  <2> HIDE DEF rows
  <2>2. \A m \in Story \ {n} : DeliveriesOf(m)' = DeliveriesOf(m)
    BY <2>1 DEF DeliveriesOf
  <2>3. \A m \in Story \ {n}, u \in Member : <<m, u>> \in DOMAIN delivery' <=> <<m, u>> \in DOMAIN delivery
    BY <2>1
  <2> QED
    BY <1>2, <2>2, <2>3 DEF NoPush
<1> HIDE DEF rows
<1>12. StoriesConsistent'
  <2>1. \A u \in Member : <<n, u>> \in DOMAIN delivery' => Exists(n)'
    BY <1>4, <1>9, <1>10 DEF NoPush
  <2>2. \A m \in Story \ {n}, u \in Member : <<m, u>> \in DOMAIN delivery' => Exists(m)'
    BY <1>9, <1>10 DEF IInv, StoriesConsistent, rows
  <2> QED
    BY <1>2, <1>4, <1>9, <1>11, <2>1, <2>2 DEF IInv, StoriesConsistent
<1>13. OneHolder'
  BY <1>8, <1>9 DEF IInv, OneHolder
<1>14. PushesConsistent'
  <2>1. \A d \in Call : PushOK(d, n)'
    BY <1>2, <1>4, <1>5, <1>6 DEF PushOK, NoPush
  <2>2. \A m \in Story \ {n}, d \in Call : PushOK(d, m) => PushOK(d, m)'
    BY <1>2, <1>5, <1>6, <1>11 DEF PushOK
  <2> QED
    BY <1>2, <2>1, <2>2 DEF IInv, PushesConsistent
<1>15. CountsConsistent'
  <2> SUFFICES ASSUME faults' = 0, NEW m \in Story, Exists(m)' PROVE CountOK(m)'
    BY DEF CountsConsistent
  <2>1. faults = 0 /\ faults' = faults
    BY <1>2 DEF Faulty, IInv, TypeOK
  <2>2. CountOK(m)
    BY <1>9, <2>1 DEF IInv, CountsConsistent
  <2>3. CASE m = n
    <3>1. DOMAIN delivery' = DOMAIN delivery \cup rows
      BY <1>9, <1>10, <2>1, <2>3
    <3>2. DeliveriesOf(n)' = rows
      <4>1. \A k \in DOMAIN delivery : k[1] # n
        <5> SUFFICES ASSUME NEW k \in DOMAIN delivery, k[1] = n PROVE FALSE
          OBVIOUS
        <5>1. k \in Story \X Member
          BY DEF IInv, TypeOK
        <5>2. k[2] \in Member /\ k = <<n, k[2]>>
          BY <5>1
        <5> QED
          BY <1>4, <5>2 DEF NoPush
      <4> QED
        BY <3>1, <4>1 DEF DeliveriesOf, rows
    <3>3. Cardinality(rows) = Cardinality(to)
      <4>1. IsFiniteSet(to)
        BY <1>1, RecipientsFinite DEF IInv
      <4>2. \A r, s \in to : r.id = s.id => r = s
        BY <1>1 DEF IInv, CallsConsistent, CallOK
      <4> QED
        BY <4>1, <4>2, OneRowEach DEF rows
    <3>4. story[n].count = Cardinality(to)
      BY <1>1, <1>2, <1>3, <2>2, <2>3 DEF CountOK
    <3> QED
      BY <1>2, <1>6, <2>3, <3>2, <3>3, <3>4 DEF CountOK
  <2>4. CASE m # n
    <3>1. \A d \in Call : Claimed(d, m) => call'[d] = call[d]
      BY <1>0, <1>2, <2>4 DEF Claimed
    <3> QED
      BY <1>2, <1>6, <1>11, <2>2, <2>4, <3>1 DEF CountOK
  <2> QED
    BY <2>3, <2>4
<1>16. RowsConsistent'
  <2> SUFFICES ASSUME faults' = 0, NEW m \in Story, Exists(m)' PROVE RowsOK(m)'
    BY DEF RowsConsistent
  <2>1. faults = 0 /\ faults' = faults
    BY <1>2 DEF Faulty, IInv, TypeOK
  <2>2. RowsOK(m)
    BY <1>9, <2>1 DEF IInv, RowsConsistent
  <2>3. CASE m = n
    <3>1. /\ DOMAIN delivery' = DOMAIN delivery \cup rows
          /\ \A k \in rows \ DOMAIN delivery : ~delivery'[k].delivered
      BY <1>9, <1>10, <2>1, <2>3
    <3>2. \A d \in Call : fan'[d].story = n =>
            \A u \in fan'[d].todo \cup fan'[d].sent : <<n, u>> \in DOMAIN delivery'
      BY <1>2, <1>4, <1>5, <3>1
    <3>3. \A u \in Member : phone'[n, u] # 1 /\ ~Unmarked(n, u)'
      <4>1. \A u \in Member : phone'[n, u] = 0
        BY <1>2, <1>4 DEF NoPush
      <4>2. \A u \in Member : ~Unmarked(n, u)
        BY <1>4 DEF Unmarked
      <4> QED
        BY <1>9, <4>1, <4>2, NoPushIsNotOne
    <3>4. \A u \in Member : ~(<<n, u>> \in DOMAIN delivery' /\ delivery'[n, u].delivered)
      BY <1>4, <3>1 DEF NoPush
    <3> QED
      BY <2>3, <3>2, <3>3, <3>4 DEF RowsOK
  <2>4. CASE m # n
    <3>1. \A u \in Member :
            /\ <<m, u>> \in DOMAIN delivery' <=> <<m, u>> \in DOMAIN delivery
            /\ <<m, u>> \in DOMAIN delivery => delivery'[m, u] = delivery[m, u]
      <4>1. \A u \in Member : <<m, u>> \notin rows
        BY <2>4 DEF rows
      <4> QED
        BY <1>10, <4>1
    <3>2. ASSUME NEW d \in Call, fan'[d].story = m, NEW u \in fan'[d].todo \cup fan'[d].sent
          PROVE  <<m, u>> \in DOMAIN delivery'
      <4>1. fan[d] = fan'[d] /\ fan[d] \in FanState
        BY <1>2, <1>5, <2>4, <3>2 DEF IInv, TypeOK
      <4> QED
        BY <2>2, <3>1, <3>2, <4>1 DEF RowsOK, FanState
    <3> QED
      BY <1>2, <1>9, <2>2, <3>1, <3>2 DEF RowsOK
  <2> QED
    BY <2>3, <2>4
<1> QED
  BY <1>12, <1>13, <1>14, <1>15, <1>16 DEF PushParts

\* What is left of a goroutine: After only clears the one that is done.
LEMMA AfterFields ==
  ASSUME NEW f \in FanState
  PROVE  /\ After(f).todo = f.todo /\ After(f).sent = f.sent
         /\ After(f).story \in {f.story, None}
         /\ f.todo \cup f.sent # {} => After(f).story = f.story
         /\ After(f).story = None => After(f) = IdleFan \/ f.story = None
BY DEF After, IdleFan, FanState

\* A goroutine sends: the member leaves its list, told once or turned down.
LEMMA SendKeeps ==
  ASSUME IInv, TypeOK', NEW c \in Call, NEW u \in Member, SendPushOnly(c, u)
  PROVE  PushParts'
<1> DEFINE T == fan[c].todo \ {u}
<1>0. /\ fan[c] \in FanState /\ u \in fan[c].todo
      /\ UNCHANGED <<story, deleted, delivery, call, faults>>
  BY DEF SendPushOnly, Push, tables, IInv, TypeOK
<1>1. PICK n \in Story : n = fan[c].story
  BY <1>0 DEF IInv, CallsConsistent, CallOK, FanState, IdleFan
<1>2. /\ \A d \in Call : ~Claimed(d, n)
      /\ \A d \in Call : fan[d].story = n => d = c
      /\ Spent(n)
  BY <1>1, FanIsAlone
<1>3. phone[n, u] = 0 /\ \A x \in fan[c].sent : phone[n, x] = 1 /\ x # u
  <2>1. phone[n, u] = 0 /\ \A x \in fan[c].sent : phone[n, x] = 1
    BY <1>0, <1>1 DEF IInv, PushesConsistent, PushOK
  <2> QED
    BY <2>1, NoPushIsNotOne
<1>4. PICK S \in SUBSET Member :
        /\ fan'[c].todo = T /\ fan'[c].sent = S /\ fan'[c].story \in {n, None}
        /\ S # {} \/ T # {} => fan'[c].story = n
        /\ \/ S = fan[c].sent /\ UNCHANGED phone
           \/ S = fan[c].sent \cup {u} /\ phone' = [phone EXCEPT ![<<n, u>>] = 1]
  <2>1. CASE /\ phone' = [phone EXCEPT ![<<n, u>>] = @ + 1]
             /\ fan' = [fan EXCEPT ![c].todo = @ \ {u}, ![c].sent = @ \cup {u}]
    <3>1. phone' = [phone EXCEPT ![<<n, u>>] = 1]
      <4>1. phone[<<n, u>>] + 1 = 1
        BY <1>3, FirstPush
      <4> QED
        BY <2>1, <4>1
    <3>2. /\ fan'[c].todo = T /\ fan'[c].sent = fan[c].sent \cup {u}
          /\ fan'[c].story = n
      BY <1>0, <1>1, <2>1 DEF FanState, IInv, TypeOK
    <3>3. fan[c].sent \cup {u} \in SUBSET Member
      BY <1>0 DEF FanState
    <3> QED
      BY <3>1, <3>2, <3>3
  <2>2. CASE UNCHANGED phone /\ fan' = [fan EXCEPT ![c] = After([fan[c] EXCEPT !.todo = @ \ {u}])]
    <3> DEFINE w == [fan[c] EXCEPT !.todo = @ \ {u}]
    <3>1. w \in FanState /\ w.todo = T /\ w.sent = fan[c].sent /\ w.story = n
      BY <1>0, <1>1 DEF FanState
    <3>2. fan'[c] = After(w)
      BY <2>2 DEF IInv, TypeOK
    <3>3. fan[c].sent \in SUBSET Member
      BY <1>0 DEF FanState
    <3> HIDE DEF w, T
    <3> QED
      BY <2>2, <3>1, <3>2, <3>3, AfterFields
  <2> QED
    BY <1>1, <2>1, <2>2 DEF SendPushOnly, Push
<1>5. \A d \in Call \ {c} : fan'[d] = fan[d]
  BY DEF SendPushOnly, Push, IInv, TypeOK
<1> HIDE DEF T
<1>6. /\ \A k \in Story \X Member : k # <<n, u>> => phone'[k] = phone[k]
      /\ phone'[n, u] \in {0, 1} /\ (phone'[n, u] = 1 <=> u \in S)
  <2>1. CASE S = fan[c].sent /\ UNCHANGED phone
    BY <1>3, <2>1, NoPushIsNotOne
  <2>2. CASE S = fan[c].sent \cup {u} /\ phone' = [phone EXCEPT ![<<n, u>>] = 1]
    BY <2>2 DEF IInv, TypeOK
  <2> QED
    BY <1>4, <2>1, <2>2
<1>7. \A m \in Story, d \in Call : m # n => (fan'[d].story = m <=> fan[d].story = m)
  BY <1>1, <1>4, <1>5, NewsAssumption
<1>8. \A m \in Story : /\ Exists(m)' <=> Exists(m)
                       /\ Spent(m)' <=> Spent(m)
                       /\ IsPublished(m)' <=> IsPublished(m)
                       /\ DeliveriesOf(m)' = DeliveriesOf(m)
                       /\ m # n => (NoPush(m)' <=> NoPush(m))
                       /\ \A d \in Call : Claimed(d, m)' <=> Claimed(d, m)
  BY <1>0, <1>6 DEF Exists, Spent, IsPublished, DeliveriesOf, NoPush, Claimed
<1>9. StoriesConsistent'
  BY <1>0, <1>2, <1>8 DEF IInv, StoriesConsistent
<1>10. OneHolder'
  <2>1. \A d \in Call : Holds(d, n)' => d = c
    BY <1>2, <1>5, <1>8 DEF Holds
  <2>2. \A m \in Story \ {n}, d \in Call : Holds(d, m)' <=> Holds(d, m)
    BY <1>7, <1>8 DEF Holds
  <2> QED
    BY <1>2, <1>8, <2>1, <2>2 DEF IInv, OneHolder
<1>11. PushesConsistent'
  <2>1. \A k \in Story \X Member : phone'[k] <= 1
    <3>1. phone'[n, u] <= 1
      BY <1>6, FirstPush
    <3>2. \A k \in Story \X Member : phone[k] <= 1
      BY DEF IInv, PushesConsistent
    <3> QED
      BY <1>6, <3>1, <3>2
  <2>2. ASSUME NEW d \in Call PROVE PushOK(d, n)'
    <3>1. CASE d # c
      BY <1>2, <1>5, <1>8, <3>1 DEF PushOK
    <3>2. CASE d = c
      <4>1. \A x \in T : x # u /\ x \in Member /\ phone[n, x] = 0
        BY <1>0, <1>1 DEF T, FanState, IInv, PushesConsistent, PushOK
      <4>2. \A x \in T : phone'[n, x] = 0
        BY <1>6, <4>1
      <4>3. \A x \in S : phone'[n, x] = 1
        BY <1>3, <1>4, <1>6
      <4> QED
        BY <1>2, <1>4, <1>8, <3>2, <4>2, <4>3 DEF PushOK
    <3> QED
      BY <3>1, <3>2
  <2>3. ASSUME NEW d \in Call, NEW m \in Story \ {n} PROVE PushOK(d, m)'
    <3>1. PushOK(d, m) /\ fan[d] \in FanState
      BY DEF IInv, PushesConsistent, TypeOK
    <3>2. fan[d].story = m => d # c
      BY <1>1
    <3> QED
      BY <1>5, <1>6, <1>7, <1>8, <3>1, <3>2 DEF PushOK, FanState
  <2> QED
    BY <2>1, <2>2, <2>3 DEF PushesConsistent
<1>12. CountsConsistent'
  <2>1. \A m \in Story : CountOK(m) => CountOK(m)'
    BY <1>0, <1>8 DEF CountOK
  <2> QED
    BY <1>0, <1>8, <2>1 DEF IInv, CountsConsistent
<1>13. RowsConsistent'
  <2> SUFFICES ASSUME faults' = 0, NEW m \in Story, Exists(m)' PROVE RowsOK(m)'
    BY DEF RowsConsistent
  <2>2. RowsOK(m)
    BY <1>0, <1>8 DEF IInv, RowsConsistent
  <2>3. CASE m = n
    <3>1. \A x \in T \cup S : <<n, x>> \in DOMAIN delivery
      BY <1>0, <1>1, <1>4, <2>2, <2>3 DEF RowsOK, T
    <3>2. \A d \in Call : fan'[d].story = n =>
            \A x \in fan'[d].todo \cup fan'[d].sent : <<n, x>> \in DOMAIN delivery'
      BY <1>0, <1>2, <1>4, <1>5, <3>1
    <3>3. \A x \in Member : /\ Unmarked(n, x) <=> x \in fan[c].sent
                            /\ Unmarked(n, x)' <=> x \in S
      <4>1. \A x \in Member : Unmarked(n, x) <=> x \in fan[c].sent
        BY <1>1, <1>2 DEF Unmarked
      <4>2. \A x \in Member : x \in S => Unmarked(n, x)'
        BY <1>4 DEF Unmarked
      <4>3. \A x \in Member : Unmarked(n, x)' => x \in S
        BY <1>2, <1>4, <1>5 DEF Unmarked
      <4> QED
        BY <4>1, <4>2, <4>3
    <3>4. ASSUME NEW x \in Member, x # u
          PROVE  phone'[n, x] = 1 <=> \/ <<n, x>> \in DOMAIN delivery' /\ delivery'[n, x].delivered
                                      \/ Unmarked(n, x)'
      <4>1. phone'[n, x] = phone[n, x]
        BY <1>6, <3>4
      <4>2. x \in S <=> x \in fan[c].sent
        BY <1>4, <3>4
      <4>3. phone[n, x] = 1 <=> \/ <<n, x>> \in DOMAIN delivery /\ delivery[n, x].delivered
                                \/ Unmarked(n, x)
        BY <2>2, <2>3 DEF RowsOK
      <4> QED
        BY <1>0, <3>3, <4>1, <4>2, <4>3
    <3>5. phone'[n, u] = 1 <=> \/ <<n, u>> \in DOMAIN delivery' /\ delivery'[n, u].delivered
                               \/ Unmarked(n, u)'
      <4>1. ~(<<n, u>> \in DOMAIN delivery /\ delivery[n, u].delivered)
        BY <1>3, <2>2, <2>3, NoPushIsNotOne DEF RowsOK
      <4> QED
        BY <1>0, <1>6, <3>3, <4>1
    <3> QED
      BY <2>3, <3>2, <3>4, <3>5 DEF RowsOK
  <2>4. CASE m # n
    <3>1. \A d \in Call : fan[d].story = m => fan'[d] = fan[d]
      BY <1>1, <1>5, <2>4
    <3>2. \A d \in Call : fan'[d].story = m <=> fan[d].story = m
      BY <1>7, <2>4
    <3>3. \A x \in Member : Unmarked(m, x)' <=> Unmarked(m, x)
      BY <3>1, <3>2 DEF Unmarked
    <3>4. \A x \in Member : phone'[m, x] = phone[m, x]
      BY <1>6, <2>4
    <3> QED
      BY <1>0, <2>2, <3>1, <3>2, <3>3, <3>4 DEF RowsOK
  <2> QED
    BY <2>3, <2>4
<1> QED
  BY <1>9, <1>10, <1>11, <1>12, <1>13 DEF PushParts

\* A goroutine marks the row of a member whose phone has the push.
LEMMA MarkKeeps ==
  ASSUME IInv, TypeOK', NEW c \in Call, NEW u \in Member, MarkNewsDelivered(c, u)
  PROVE  PushParts'
<1> DEFINE S == fan[c].sent \ {u}
           w == [fan[c] EXCEPT !.sent = @ \ {u}]
<1>0. /\ fan[c] \in FanState /\ u \in fan[c].sent
      /\ UNCHANGED <<story, deleted, call, phone>> /\ Faulty
  BY DEF MarkNewsDelivered, Fail, Faulty, IInv, TypeOK
<1>1. PICK n \in Story : n = fan[c].story
  BY <1>0 DEF IInv, CallsConsistent, CallOK, FanState, IdleFan
<1>2. /\ \A d \in Call : ~Claimed(d, n)
      /\ \A d \in Call : fan[d].story = n => d = c
      /\ Spent(n)
  BY <1>1, FanIsAlone
<1>3. phone[n, u] = 1
  BY <1>0, <1>1 DEF IInv, PushesConsistent, PushOK
<1>4. /\ fan'[c].todo = fan[c].todo /\ fan'[c].sent = S /\ fan'[c].story \in {n, None}
      /\ S # {} => fan'[c].story = n
      /\ \A d \in Call \ {c} : fan'[d] = fan[d]
  <2>1. w \in FanState /\ w.todo = fan[c].todo /\ w.sent = S /\ w.story = n
    BY <1>0, <1>1 DEF FanState
  <2>2. fan' = [fan EXCEPT ![c] = After(w)]
    BY DEF MarkNewsDelivered
  <2>3. fan'[c] = After(w) /\ \A d \in Call \ {c} : fan'[d] = fan[d]
    BY <2>2 DEF IInv, TypeOK
  <2> HIDE DEF w, S
  <2> QED
    BY <2>1, <2>3, AfterFields
<1> HIDE DEF S, w
<1>5. /\ DOMAIN delivery' = DOMAIN delivery
      /\ \A k \in DOMAIN delivery : k # <<n, u>> => delivery'[k] = delivery[k]
      /\ faults' = faults /\ <<n, u>> \in DOMAIN delivery => delivery'[n, u].delivered
  <2>1. CASE UNCHANGED delivery /\ faults' = faults + 1
    <3>1. faults' # faults
      BY <2>1 DEF IInv, TypeOK
    <3> QED
      BY <2>1, <3>1
  <2>2. CASE <<n, u>> \notin DOMAIN delivery /\ UNCHANGED delivery
    BY <2>2
  <2>3. CASE <<n, u>> \in DOMAIN delivery /\ delivery' = [delivery EXCEPT ![<<n, u>>].delivered = TRUE]
    <3>1. delivery[<<n, u>>] \in Delivery
      BY <2>3 DEF IInv, TypeOK
    <3>2. [delivery[<<n, u>>] EXCEPT !.delivered = TRUE].delivered
      BY <3>1 DEF Delivery
    <3> QED
      BY <2>3, <3>2
  <2> QED
    BY <1>1, <2>1, <2>2, <2>3 DEF MarkNewsDelivered, Fail
<1>6. \A m \in Story, d \in Call : m # n => (fan'[d].story = m <=> fan[d].story = m)
  BY <1>1, <1>4, NewsAssumption
<1>7. \A m \in Story : /\ Exists(m)' <=> Exists(m)
                       /\ Spent(m)' <=> Spent(m)
                       /\ IsPublished(m)' <=> IsPublished(m)
                       /\ DeliveriesOf(m)' = DeliveriesOf(m)
                       /\ NoPush(m)' <=> NoPush(m)
                       /\ \A d \in Call : Claimed(d, m)' <=> Claimed(d, m)
  BY <1>0, <1>5 DEF Exists, Spent, IsPublished, DeliveriesOf, NoPush, Claimed
<1>8. StoriesConsistent'
  BY <1>0, <1>5, <1>7 DEF IInv, StoriesConsistent
<1>9. OneHolder'
  <2>1. \A d \in Call : Holds(d, n)' => d = c
    BY <1>2, <1>4, <1>7 DEF Holds
  <2>2. \A m \in Story \ {n}, d \in Call : Holds(d, m)' <=> Holds(d, m)
    BY <1>6, <1>7 DEF Holds
  <2> QED
    BY <1>2, <1>7, <2>1, <2>2 DEF IInv, OneHolder
<1>10. PushesConsistent'
  <2>1. ASSUME NEW d \in Call, NEW m \in Story PROVE PushOK(d, m)'
    <3>1. PushOK(d, m)
      BY DEF IInv, PushesConsistent
    <3>2. fan'[d].story = m => /\ fan[d].story = m /\ fan'[d].todo = fan[d].todo
                               /\ fan'[d].sent \subseteq fan[d].sent
      BY <1>1, <1>4, <1>6, NewsAssumption DEF S
    <3> QED
      BY <1>0, <1>7, <3>1, <3>2 DEF PushOK
  <2> QED
    BY <1>0, <2>1 DEF IInv, PushesConsistent
<1>11. faults' = 0 => faults = 0 /\ faults' = faults
  BY <1>0 DEF Faulty, IInv, TypeOK
<1>12. CountsConsistent'
  <2>1. \A m \in Story : CountOK(m) => CountOK(m)'
    BY <1>0, <1>7 DEF CountOK
  <2> QED
    BY <1>7, <1>11, <2>1 DEF IInv, CountsConsistent
<1>13. RowsConsistent'
  <2> SUFFICES ASSUME faults' = 0, NEW m \in Story, Exists(m)' PROVE RowsOK(m)'
    BY DEF RowsConsistent
  <2>1. RowsOK(m)
    BY <1>7, <1>11 DEF IInv, RowsConsistent
  <2>2. CASE m = n
    <3>1. \A x \in fan[c].todo \cup fan[c].sent : <<n, x>> \in DOMAIN delivery
      BY <1>1, <2>1, <2>2 DEF RowsOK
    <3>2. \A d \in Call : fan'[d].story = n =>
            \A x \in fan'[d].todo \cup fan'[d].sent : <<n, x>> \in DOMAIN delivery'
      BY <1>2, <1>4, <1>5, <3>1 DEF S
    <3>3. \A x \in Member : /\ Unmarked(n, x) <=> x \in fan[c].sent
                            /\ Unmarked(n, x)' <=> x \in S
      <4>1. \A x \in Member : Unmarked(n, x) <=> x \in fan[c].sent
        BY <1>1, <1>2 DEF Unmarked
      <4>2. \A x \in Member : x \in S => Unmarked(n, x)'
        BY <1>4 DEF Unmarked
      <4>3. \A x \in Member : Unmarked(n, x)' => x \in S
        BY <1>2, <1>4 DEF Unmarked
      <4> QED
        BY <4>1, <4>2, <4>3
    <3>4. ASSUME NEW x \in Member, x # u
          PROVE  phone'[n, x] = 1 <=> \/ <<n, x>> \in DOMAIN delivery' /\ delivery'[n, x].delivered
                                      \/ Unmarked(n, x)'
      <4>1. x \in S <=> x \in fan[c].sent
        BY <3>4 DEF S
      <4>2. phone[n, x] = 1 <=> \/ <<n, x>> \in DOMAIN delivery /\ delivery[n, x].delivered
                                \/ Unmarked(n, x)
        BY <2>1, <2>2 DEF RowsOK
      <4>3. <<n, x>> \in DOMAIN delivery => delivery'[n, x] = delivery[n, x]
        BY <1>5, <3>4
      <4> QED
        BY <1>0, <1>5, <3>3, <4>1, <4>2, <4>3
    <3>5. phone'[n, u] = 1 /\ <<n, u>> \in DOMAIN delivery' /\ delivery'[n, u].delivered
      BY <1>0, <1>3, <1>5, <1>11, <3>1
    <3> QED
      BY <2>2, <3>2, <3>4, <3>5 DEF RowsOK
  <2>3. CASE m # n
    <3>1. \A d \in Call : fan[d].story = m => fan'[d] = fan[d]
      BY <1>1, <1>4, <2>3
    <3>2. \A d \in Call : fan'[d].story = m <=> fan[d].story = m
      BY <1>6, <2>3
    <3>3. \A x \in Member : Unmarked(m, x)' <=> Unmarked(m, x)
      BY <3>1, <3>2 DEF Unmarked
    <3>4. \A x \in Member : /\ <<m, x>> \in DOMAIN delivery' <=> <<m, x>> \in DOMAIN delivery
                            /\ <<m, x>> \in DOMAIN delivery => delivery'[m, x] = delivery[m, x]
      BY <1>5, <2>3
    <3>5. ASSUME NEW d \in Call, fan'[d].story = m, NEW x \in fan'[d].todo \cup fan'[d].sent
          PROVE  <<m, x>> \in DOMAIN delivery'
      <4>1. fan[d].story = m /\ fan'[d] = fan[d]
        BY <3>1, <3>2, <3>5
      <4> QED
        BY <1>5, <2>1, <3>5, <4>1 DEF RowsOK
    <3>6. ASSUME NEW x \in Member
          PROVE  phone'[m, x] = 1 <=> \/ <<m, x>> \in DOMAIN delivery' /\ delivery'[m, x].delivered
                                      \/ Unmarked(m, x)'
      BY <1>0, <2>1, <3>3, <3>4 DEF RowsOK
    <3> QED
      BY <3>5, <3>6 DEF RowsOK
  <2> QED
    BY <2>2, <2>3
<1> QED
  BY <1>8, <1>9, <1>10, <1>12, <1>13 DEF PushParts

\* A crash leaves the tables, and nobody holds anything.
LEMMA CrashKeeps ==
  ASSUME IInv, TypeOK', Crash
  PROVE  PushParts'
<1>1. /\ UNCHANGED <<story, deleted, delivery, phone>> /\ faults' # 0
      /\ \A c \in Call : call'[c] = IdleCall /\ fan'[c] = IdleFan
  BY DEF Crash, Fail, tables, IInv, TypeOK
<1>2. \A c \in Call, n \in Story : ~Claimed(c, n)' /\ fan'[c].story # n
  BY <1>1, NewsAssumption DEF Claimed, IdleCall, IdleFan
<1>3. \A n \in Story : /\ Exists(n)' <=> Exists(n)
                       /\ Spent(n)' <=> Spent(n)
                       /\ IsPublished(n)' <=> IsPublished(n)
                       /\ NoPush(n)' <=> NoPush(n)
  BY <1>1 DEF Exists, Spent, IsPublished, NoPush
<1>4. StoriesConsistent'
  BY <1>1, <1>3 DEF IInv, StoriesConsistent
<1>5. OneHolder'
  BY <1>2 DEF OneHolder, Holds
<1>6. PushesConsistent'
  BY <1>1, <1>2 DEF IInv, PushesConsistent, PushOK
<1>7. CountsConsistent' /\ RowsConsistent'
  BY <1>1 DEF CountsConsistent, RowsConsistent
<1> QED
  BY <1>4, <1>5, <1>6, <1>7 DEF PushParts

-----------------------------------------------------------------------------
(* The visits of members.                                                  *)

\* A visit that is not recorded leaves the view; one that is says how it went.
Visited(n, u) ==
  \/ view'[n, u] = view[n, u]
  \/ view'[n, u] = None
  \/ \E tap \in {{}, {"from_push"}}, flag \in {"read_as_pro", "gated"} :
       view'[n, u] = VisitMerged(view[n, u], tap \cup {flag})
  \/ /\ view[n, u] # None
     /\ \/ "read_as_pro" \in view[n, u] /\ view'[n, u] = view[n, u] \cup {"read_to_end"}
        \/ "gated" \in view[n, u] /\ view'[n, u] = view[n, u] \cup {"upgrade_clicked"}

\* Every step treats every view like that.
LEMMA StepVisits ==
  ASSUME TypeOK, [Next]_vars, NEW n \in Story, NEW u \in Member
  PROVE  Visited(n, u)
<1>0. view \in [Story \X Member -> {None} \cup SUBSET Flags] /\ <<n, u>> \in Story \X Member
  BY DEF TypeOK
<1>1. CASE UNCHANGED view
  BY <1>1 DEF Visited
<1>2. ASSUME NEW m \in Story, Delete(m) PROVE Visited(n, u)
  BY <1>0, <1>2 DEF Delete, Visited
<1>3. ASSUME NEW v \in Member, RecordNewsView(v) PROVE Visited(n, u)
  <2> DEFINE k == <<visit[v].story, v>>
             flag == IF visit[v].pro THEN "read_as_pro" ELSE "gated"
  <2>1. CASE k # <<n, u>>
    BY <1>0, <1>3, <2>1 DEF RecordNewsView, Visited
  <2>2. CASE k = <<n, u>> /\ ~UNCHANGED view
    <3>1. PICK tap \in {{}, {"from_push"}} :
            view' = [view EXCEPT ![k] = VisitMerged(@, tap \cup {flag})]
      BY <1>3, <2>2 DEF RecordNewsView
    <3>2. view'[n, u] = VisitMerged(view[n, u], tap \cup {flag})
      <4> HIDE DEF k, flag
      <4> QED
        BY <1>0, <2>2, <3>1
    <3>3. flag \in {"read_as_pro", "gated"}
      OBVIOUS
    <3> HIDE DEF k, flag
    <3> QED
      BY <3>2, <3>3 DEF Visited
  <2> QED
    BY <1>1, <2>1, <2>2
<1>4. ASSUME NEW v \in Member, NEW m \in Story,
             MarkNewsReadToEnd(v, m) \/ MarkNewsUpgradeClicked(v, m)
      PROVE  Visited(n, u)
  <2>1. CASE m = n /\ v = u
    BY <1>0, <1>4, <2>1 DEF MarkNewsReadToEnd, MarkNewsUpgradeClicked, TurnOn, Visited
  <2>2. CASE ~(m = n /\ v = u)
    <3>1. <<m, v>> # <<n, u>>
      BY <2>2
    <3> QED
      BY <1>0, <1>4, <3>1 DEF MarkNewsReadToEnd, MarkNewsUpgradeClicked, TurnOn, Visited
  <2> QED
    BY <2>1, <2>2
<1>5. CASE \E m \in Story : Create(m) \/ Update(m) \/ Unpublish(m)
  BY <1>1, <1>5 DEF Create, Update, Unpublish
<1>6. ASSUME NEW c \in Call, (\E m \in Story : PublishRead(c, m)) \/ PublishStep(c)
      PROVE  UNCHANGED view
  BY <1>6 DEF PublishRead, PublishStep, PublishStory, ListRecipients, Claim,
              SetNewsNotifiedCount, RecordRecipients, tables
<1>7. ASSUME NEW c \in Call, FanOut(c) PROVE UNCHANGED view
  BY <1>7 DEF FanOut, SendPushOnly, Push, MarkNewsDelivered, tables
<1>8. ASSUME NEW v \in Member,
             (\E m \in Story : GetPublishedNews(v, m)) \/ IsProUser(v) \/ MarkNewsSeen(v)
      PROVE  UNCHANGED view
  BY <1>8 DEF GetPublishedNews, IsProUser, MarkNewsSeen, tables
<1>9. ASSUME (\E v \in Member : SubscriptionChanges(v) \/ StatusChanges(v)) \/ SetMode \/ Crash
      PROVE  UNCHANGED view
  BY <1>9 DEF SubscriptionChanges, StatusChanges, SetMode, Crash, tables
<1>10. CASE UNCHANGED vars
  BY <1>1, <1>10 DEF vars, tables
<1> QED
  BY <1>1, <1>2, <1>3, <1>4, <1>5, <1>6, <1>7, <1>8, <1>9, <1>10, NewsAssumption DEF Next

\* Merging keeps the earlier flags and says how this visit went.
LEMMA ViewsKept ==
  ASSUME IInv, TypeOK', [Next]_vars
  PROVE  ViewsConsistent'
<1> SUFFICES ASSUME NEW n \in Story, NEW u \in Member, view'[n, u] # None
             PROVE  /\ view'[n, u] \cap {"read_as_pro", "gated"} # {}
                    /\ "read_to_end" \in view'[n, u] => "read_as_pro" \in view'[n, u]
                    /\ "upgrade_clicked" \in view'[n, u] => "gated" \in view'[n, u]
  BY DEF ViewsConsistent
<1>1. Visited(n, u)
  BY StepVisits DEF IInv
<1>2. view[n, u] # None =>
        /\ view[n, u] \cap {"read_as_pro", "gated"} # {}
        /\ "read_to_end" \in view[n, u] => "read_as_pro" \in view[n, u]
        /\ "upgrade_clicked" \in view[n, u] => "gated" \in view[n, u]
  BY DEF IInv, ViewsConsistent
<1>3. PICK old, new : old = view[n, u] /\ new = view'[n, u]
  OBVIOUS
<1>4. ASSUME NEW tap \in {{}, {"from_push"}}, NEW flag \in {"read_as_pro", "gated"},
             new = VisitMerged(old, tap \cup {flag})
      PROVE  /\ new \cap {"read_as_pro", "gated"} # {}
             /\ "read_to_end" \in new => "read_as_pro" \in new
             /\ "upgrade_clicked" \in new => "gated" \in new
  BY <1>2, <1>3, <1>4 DEF VisitMerged
<1> QED
  BY <1>1, <1>2, <1>3, <1>4 DEF Visited

\* A member's last look moves only forward.
LooksForward ==
  \A u \in Member : seen[u] # None => seen'[u] \in Nat /\ seen[u] <= seen'[u]

\* The clock runs forward, and a member's last look is stamped with it.
LEMMA SeenKept ==
  ASSUME IInv, [Next]_vars
  PROVE  SeenConsistent' /\ LooksForward
<1>0. clock \in Nat /\ seen \in [Member -> Nat \cup {None}]
  BY DEF IInv, TypeOK
<1>1. ASSUME UNCHANGED seen, clock' = clock \/ clock' = clock + 1
      PROVE  SeenConsistent' /\ LooksForward
  BY <1>0, <1>1, NewsAssumption DEF IInv, SeenConsistent, LooksForward
<1>2. ASSUME NEW u \in Member, MarkNewsSeen(u) PROVE SeenConsistent' /\ LooksForward
  BY <1>0, <1>2, NewsAssumption DEF MarkNewsSeen, IInv, SeenConsistent, LooksForward
<1>3. ASSUME NEW c \in Call, PublishStory(c)
      PROVE  UNCHANGED seen /\ (clock' = clock \/ clock' = clock + 1)
  BY <1>3 DEF PublishStory, PublishNews
<1>4. ASSUME NEW n \in Story, Create(n) \/ Update(n) \/ Delete(n) \/ Unpublish(n)
      PROVE  UNCHANGED <<seen, clock>>
  BY <1>4 DEF Create, Update, Delete, Unpublish
<1>5. ASSUME NEW c \in Call, \/ \E n \in Story : PublishRead(c, n)
                             \/ ListRecipients(c) \/ Claim(c)
                             \/ SetNewsNotifiedCount(c) \/ RecordRecipients(c) \/ FanOut(c)
      PROVE  UNCHANGED <<seen, clock>>
  BY <1>5 DEF PublishRead, ListRecipients, Claim, SetNewsNotifiedCount, RecordRecipients,
              FanOut, SendPushOnly, Push, MarkNewsDelivered, tables
<1>6. ASSUME NEW u \in Member,
             \/ \E n \in Story : \/ GetPublishedNews(u, n) \/ MarkNewsReadToEnd(u, n)
                                 \/ MarkNewsUpgradeClicked(u, n)
             \/ IsProUser(u) \/ RecordNewsView(u)
      PROVE  UNCHANGED <<seen, clock>>
  BY <1>6 DEF GetPublishedNews, MarkNewsReadToEnd, MarkNewsUpgradeClicked, TurnOn,
              IsProUser, RecordNewsView, tables
<1>7. ASSUME (\E u \in Member : SubscriptionChanges(u) \/ StatusChanges(u)) \/ SetMode \/ Crash
      PROVE  UNCHANGED <<seen, clock>>
  BY <1>7 DEF SubscriptionChanges, StatusChanges, SetMode, Crash, tables
<1>8. CASE UNCHANGED vars
  BY <1>1, <1>8 DEF vars, tables
<1> QED
  BY <1>1, <1>2, <1>3, <1>4, <1>5, <1>6, <1>7, <1>8, NewsAssumption DEF Next, PublishStep

-----------------------------------------------------------------------------
(* Every step keeps the invariant.                                         *)

\* A step that touches neither the stories nor their pushes.
LEMMA QuietKeeps ==
  ASSUME IInv, Faulty, UNCHANGED <<story, deleted, delivery, call, fan, phone>>
  PROVE  PushParts' /\ CallsConsistent'
<1>1. \A n \in Story : /\ Exists(n)' <=> Exists(n)
                       /\ IsPublished(n)' => story'[n].published # None
  BY DEF Exists, IsPublished, IInv, StoriesConsistent
<1>2. PushParts'
  BY <1>1, EditKept
<1>3. CallsConsistent'
  BY CallsKept DEF IInv
<1> QED
  BY <1>2, <1>3

\* An edit of a row that keeps its notification and its count.
LEMMA StoryEdited ==
  ASSUME TypeOK, NEW n \in Story, Exists(n), NEW w \in StoryRow,
         story' = [story EXCEPT ![n] = w], StoriesConsistent,
         w.notified = story[n].notified, w.count = story[n].count,
         w.status = "published" => w.published # None
  PROVE  \A m \in Story :
           /\ Exists(m)' <=> Exists(m)
           /\ Exists(m) => /\ story'[m].notified = story[m].notified
                           /\ story'[m].count = story[m].count
                           /\ IsPublished(m)' => story'[m].published # None
<1>1. story'[n] = w /\ \A m \in Story \ {n} : story'[m] = story[m]
  BY DEF TypeOK
<1>2. w # None
  BY NewsAssumption
<1> QED
  BY <1>1, <1>2 DEF Exists, IsPublished, StoriesConsistent

\* Drafting.
LEMMA DraftKeeps ==
  ASSUME IInv, NEW n \in Story, Create(n) \/ Update(n) \/ Delete(n) \/ Unpublish(n)
  PROVE  TypeOK' /\ PushParts' /\ CallsConsistent'
<1>1. TypeOK'
  BY DraftTypes DEF IInv
<1>2. CallsConsistent'
  <2>1. UNCHANGED <<call, fan>>
    BY DEF Create, Update, Delete, Unpublish
  <2> QED
    BY <2>1, CallsKept DEF IInv
<1>3. CASE Create(n)
  BY <1>1, <1>2, <1>3, CreateKeeps
<1>4. CASE Delete(n)
  BY <1>1, <1>2, <1>4, DeleteKeeps
<1>5. CASE Update(n)
  <2>1. PICK body \in BOOLEAN, interests \in SUBSET Interest :
          story' = [story EXCEPT ![n].body = body, ![n].interests = interests]
    BY <1>5 DEF Update
  <2> DEFINE w == [story[n] EXCEPT !.body = body, !.interests = interests]
  <2>2. Exists(n) /\ story[n] \in StoryRow
    BY <1>5 DEF Update, Exists, IInv, TypeOK
  <2>3. /\ w \in StoryRow /\ w.notified = story[n].notified /\ w.count = story[n].count
        /\ w.status = story[n].status /\ w.published = story[n].published
    BY <2>2 DEF StoryRow
  <2>4. story' = [story EXCEPT ![n] = w]
    BY <2>1 DEF IInv, TypeOK
  <2>5. w.status = "published" => w.published # None
    BY <2>2, <2>3 DEF IInv, StoriesConsistent, IsPublished
  <2> HIDE DEF w
  <2>6. UNCHANGED <<deleted, delivery, call, fan, phone>> /\ Faulty
    BY <1>5 DEF Update, Faulty
  <2>7. PushParts'
    BY <2>2, <2>3, <2>4, <2>5, <2>6, StoryEdited, EditKept DEF IInv
  <2> QED
    BY <1>1, <1>2, <2>7
<1>6. CASE Unpublish(n)
  <2> DEFINE w == [story[n] EXCEPT !.status = "draft"]
  <2>2. Exists(n) /\ story[n] \in StoryRow
    BY <1>6 DEF Unpublish, Exists, IInv, TypeOK
  <2>3. /\ w \in StoryRow /\ w.notified = story[n].notified /\ w.count = story[n].count
        /\ w.status = "draft"
    BY <2>2 DEF StoryRow
  <2>4. story' = [story EXCEPT ![n] = w]
    BY <1>6 DEF Unpublish, IInv, TypeOK
  <2> HIDE DEF w
  <2>6. UNCHANGED <<deleted, delivery, call, fan, phone>> /\ Faulty
    BY <1>6 DEF Unpublish, Faulty
  <2>7. PushParts'
    BY <2>2, <2>3, <2>4, <2>6, StoryEdited, EditKept DEF IInv
  <2> QED
    BY <1>1, <1>2, <2>7
<1> QED
  BY <1>3, <1>4, <1>5, <1>6

\* A call that has claimed nothing, and goes on without having claimed.
LEMMA CallMoves ==
  ASSUME IInv, NEW c \in Call, NEW w \in CallState, call' = [call EXCEPT ![c] = w],
         call[c].step \notin {"count", "record"}, w.step \notin {"count", "record"}
  PROVE  \A d \in Call :
           \/ call'[d] = call[d]
           \/ \A n \in Story : ~Claimed(d, n) /\ ~Claimed(d, n)'
<1>1. call'[c] = w /\ \A d \in Call \ {c} : call'[d] = call[d]
  BY DEF IInv, TypeOK
<1>2. \A n \in Story : ~Claimed(c, n) /\ ~Claimed(c, n)'
  BY <1>1 DEF Claimed
<1> QED
  BY <1>1, <1>2

\* The call that is set stays consistent if what it is set to is.
LEMMA CallChanged ==
  ASSUME IInv, NEW c \in Call, NEW w \in CallState, call' = [call EXCEPT ![c] = w],
         UNCHANGED fan,
         w.step = "idle" <=> w.story = None,
         w.step # "idle" => fan[c] = IdleFan,
         \A r, s \in w.to : r.id = s.id => r = s
  PROVE  CallsConsistent'
<1>1. call'[c] = w /\ \A d \in Call \ {c} : call'[d] = call[d]
  BY DEF IInv, TypeOK
<1>2. CallOK(c)'
  BY <1>1 DEF IInv, CallsConsistent, CallOK
<1> QED
  BY <1>1, <1>2, CallsKept DEF IInv

\* A call that ends.
LEMMA CallEnds ==
  ASSUME IInv, NEW c \in Call, call' = [call EXCEPT ![c] = IdleCall], UNCHANGED fan
  PROVE  CallsConsistent'
<1>1. IdleCall \in CallState
  BY IdleTypes
<1>2. /\ IdleCall.step = "idle" /\ IdleCall.story = None /\ IdleCall.to = {}
  BY DEF IdleCall
<1> QED
  BY <1>1, <1>2, CallChanged

\* A call that goes on with the next statement.
LEMMA CallAdvances ==
  ASSUME IInv, NEW c \in Call, call[c].step # "idle",
         NEW w \in CallState, call' = [call EXCEPT ![c] = w], UNCHANGED fan,
         w.step # "idle", w.story = call[c].story,
         \A r, s \in w.to : r.id = s.id => r = s
  PROVE  CallsConsistent'
<1>1. call[c].story # None /\ fan[c] = IdleFan
  BY DEF IInv, CallsConsistent, CallOK
<1> QED
  BY <1>1, CallChanged

\* Stories a step does not write stay as they are.
LEMMA SameStories ==
  ASSUME IInv, UNCHANGED story
  PROVE  \A n \in Story :
           /\ Exists(n)' <=> Exists(n)
           /\ Exists(n) => /\ story'[n].notified = story[n].notified
                           /\ story'[n].count = story[n].count
                           /\ IsPublished(n)' => story'[n].published # None
BY DEF Exists, IsPublished, IInv, StoriesConsistent

\* The first read of a publish.
LEMMA PublishReadKeeps ==
  ASSUME IInv, NEW c \in Call, NEW n \in Story, PublishRead(c, n)
  PROVE  PushParts' /\ CallsConsistent'
<1> DEFINE w == [IdleCall EXCEPT !.step = "publish", !.story = n]
<1>1. w \in CallState /\ w.step = "publish" /\ w.story = n /\ w.to = {}
  BY DEF IdleCall, CallState, Modes
<1>2. /\ call' = [call EXCEPT ![c] = w] /\ call[c].step = "idle" /\ fan[c] = IdleFan
      /\ UNCHANGED <<story, deleted, delivery, fan, phone>> /\ Faulty
  BY DEF PublishRead, IdleCall, tables, Faulty
<1> HIDE DEF w
<1>3. CallsConsistent'
  BY <1>1, <1>2, NewsAssumption, CallChanged
<1>4. PushParts'
  BY <1>1, <1>2, CallMoves, SameStories, EditKept
<1> QED
  BY <1>3, <1>4

\* The update that publishes, and decides whether to notify.
LEMMA PublishStoryKeeps ==
  ASSUME IInv, NEW c \in Call, PublishStory(c)
  PROVE  PushParts' /\ CallsConsistent'
<1> DEFINE n == call[c].story
<1>0. /\ call[c].step = "publish" /\ call[c] \in CallState /\ n \in Story
      /\ UNCHANGED <<deleted, delivery, fan, phone>> /\ Faulty
  BY CallHasStory DEF PublishStory, Faulty, IInv, TypeOK
<1>1. /\ IdleCall \in CallState /\ IdleCall.step = "idle"
  BY IdleTypes DEF IdleCall
<1>2. CASE ~Exists(n)
  <2>1. call' = [call EXCEPT ![c] = IdleCall] /\ UNCHANGED story
    BY <1>2 DEF PublishStory
  <2> QED
    BY <1>0, <1>1, <2>1, CallEnds, CallMoves, SameStories, EditKept
<1>3. CASE Exists(n)
  <2>1. PICK w \in CallState : /\ call' = [call EXCEPT ![c] = w]
                               /\ w = IdleCall \/ w = [call[c] EXCEPT !.step = "list", !.mode = mode]
    <3>1. [call[c] EXCEPT !.step = "list", !.mode = mode] \in CallState
      BY <1>0 DEF CallState, IInv, TypeOK
    <3> QED
      BY <1>1, <1>3, <3>1 DEF PublishStory
  <2>2. w.step \in {"idle", "list"}
    BY <1>0, <1>1, <2>1 DEF CallState
  <2>3. CallsConsistent'
    <3>1. CASE w = IdleCall
      BY <1>0, <2>1, <3>1, CallEnds
    <3>2. CASE w = [call[c] EXCEPT !.step = "list", !.mode = mode]
      <4>1. w.step = "list" /\ w.story = n /\ w.to = call[c].to
        BY <1>0, <3>2 DEF CallState
      <4>2. \A r, s \in w.to : r.id = s.id => r = s
        BY <4>1 DEF IInv, CallsConsistent, CallOK
      <4> QED
        BY <1>0, <2>1, <4>1, <4>2, CallAdvances
    <3> QED
      BY <2>1, <3>1, <3>2
  <2>4. story[n] \in StoryRow /\ clock + 1 \in Nat
    BY <1>0, <1>3 DEF Exists, IInv, TypeOK
  <2>5. PICK q \in Nat : story' = [story EXCEPT ![n].status = "published", ![n].published = q]
    <3>1. story[n].published \in Nat \cup {None}
      BY <2>4 DEF StoryRow
    <3>2. PublishNews(n)
      BY <1>3 DEF PublishStory
    <3>3. PICK q \in Nat : q = IF story[n].published = None THEN clock + 1 ELSE story[n].published
      BY <2>4, <3>1
    <3> QED
      BY <3>2, <3>3 DEF PublishNews
  <2> DEFINE v == [story[n] EXCEPT !.status = "published", !.published = q]
  <2>6. /\ v \in StoryRow /\ v.notified = story[n].notified /\ v.count = story[n].count
        /\ v.published # None
    BY <2>4, NewsAssumption DEF StoryRow
  <2>7. story' = [story EXCEPT ![n] = v]
    BY <1>0, <2>5 DEF IInv, TypeOK
  <2> HIDE DEF v, n
  <2>8. \A m \in Story :
           /\ Exists(m)' <=> Exists(m)
           /\ Exists(m) => /\ story'[m].notified = story[m].notified
                           /\ story'[m].count = story[m].count
                           /\ IsPublished(m)' => story'[m].published # None
    BY <1>0, <1>3, <2>6, <2>7, StoryEdited DEF IInv
  <2>9. PushParts'
    BY <1>0, <2>1, <2>2, <2>8, CallMoves, EditKept
  <2> QED
    BY <2>3, <2>9
<1> QED
  BY <1>2, <1>3

\* The list of the recipients has every member once.
LEMMA ListRecipientsKeeps ==
  ASSUME IInv, NEW c \in Call, ListRecipients(c)
  PROVE  PushParts' /\ CallsConsistent'
<1> DEFINE to == ListNewsRecipients(call[c].story, call[c].mode)
           v  == [call[c] EXCEPT !.step = "claim", !.to = to]
<1>0. /\ call[c].step = "list" /\ call[c] \in CallState
      /\ UNCHANGED <<story, deleted, delivery, fan, phone>> /\ Faulty
  BY DEF ListRecipients, Faulty, Fail, tables, IInv, TypeOK
<1>1. /\ IdleCall \in CallState /\ IdleCall.step = "idle"
  BY IdleTypes DEF IdleCall
<1>2. to \subseteq Recipient /\ \A r, s \in to : r.id = s.id => r = s
  BY DEF ListNewsRecipients, Recipient, IInv, TypeOK
<1>3. /\ v \in CallState /\ v.step = "claim" /\ v.story = call[c].story /\ v.to = to
  BY <1>0, <1>2 DEF CallState
<1>4. call' = [call EXCEPT ![c] = IdleCall] \/ call' = [call EXCEPT ![c] = v]
  BY DEF ListRecipients
<1> HIDE DEF v, to
<1>5. CASE call' = [call EXCEPT ![c] = IdleCall]
  BY <1>0, <1>1, <1>5, CallEnds, CallMoves, SameStories, EditKept
<1>6. CASE call' = [call EXCEPT ![c] = v]
  <2>1. CallsConsistent'
    BY <1>0, <1>2, <1>3, <1>6, CallAdvances
  <2>2. PushParts'
    BY <1>0, <1>3, <1>6, CallMoves, SameStories, EditKept
  <2> QED
    BY <2>1, <2>2
<1> QED
  BY <1>4, <1>5, <1>6

\* The claim, won, lost or failed.
LEMMA ClaimStepKeeps ==
  ASSUME IInv, TypeOK', NEW c \in Call, Claim(c)
  PROVE  PushParts' /\ CallsConsistent'
<1> DEFINE n == call[c].story
<1>0. /\ call[c].step = "claim" /\ call[c] \in CallState /\ n \in Story
      /\ UNCHANGED <<deleted, delivery, fan, phone>> /\ Faulty
  BY CallHasStory DEF Claim, Faulty, Fail, IInv, TypeOK
<1>1. CASE call' = [call EXCEPT ![c] = IdleCall] /\ UNCHANGED story
  <2>1. IdleCall \in CallState /\ IdleCall.step = "idle"
    BY IdleTypes DEF IdleCall
  <2> QED
    BY <1>0, <1>1, <2>1, CallEnds, CallMoves, SameStories, EditKept
<1>2. CASE ClaimNewsNotification(n) /\ call' = [call EXCEPT ![c].step = "count"] /\ UNCHANGED faults
  <2>1. PushParts'
    BY <1>0, <1>2, ClaimKeeps
  <2> DEFINE w == [call[c] EXCEPT !.step = "count"]
  <2>2. w \in CallState /\ w.step = "count" /\ w.story = n /\ w.to = call[c].to
    BY <1>0 DEF CallState
  <2>3. call' = [call EXCEPT ![c] = w]
    BY <1>2 DEF IInv, TypeOK
  <2>4. \A r, s \in w.to : r.id = s.id => r = s
    BY <2>2 DEF IInv, CallsConsistent, CallOK
  <2> HIDE DEF w
  <2>5. CallsConsistent'
    BY <1>0, <2>2, <2>3, <2>4, CallAdvances
  <2> QED
    BY <2>1, <2>5
<1> QED
  BY <1>1, <1>2 DEF Claim

\* The rest of the publish handler.
LEMMA CountRecordKeeps ==
  ASSUME IInv, TypeOK', NEW c \in Call, SetNewsNotifiedCount(c) \/ RecordRecipients(c)
  PROVE  PushParts' /\ CallsConsistent'
<1>1. PushParts'
  BY CountKeeps, RecordKeeps
<1>2. CASE SetNewsNotifiedCount(c)
  <2> DEFINE w == [call[c] EXCEPT !.step = "record"]
  <2>1. call[c].step = "count" /\ call[c] \in CallState /\ UNCHANGED fan
    BY <1>2 DEF SetNewsNotifiedCount, IInv, TypeOK
  <2>2. w \in CallState /\ w.step = "record" /\ w.story = call[c].story /\ w.to = call[c].to
    BY <2>1 DEF CallState
  <2>3. call' = [call EXCEPT ![c] = w]
    BY <1>2 DEF SetNewsNotifiedCount, IInv, TypeOK
  <2>4. \A r, s \in w.to : r.id = s.id => r = s
    BY <2>2 DEF IInv, CallsConsistent, CallOK
  <2> HIDE DEF w
  <2> QED
    BY <1>1, <2>1, <2>2, <2>3, <2>4, CallAdvances
<1>3. CASE RecordRecipients(c)
  <2>1. /\ call'[c] = IdleCall
        /\ fan'[c].story = call[c].story /\ call[c].story \in Story
        /\ \A d \in Call \ {c} : call'[d] = call[d] /\ fan'[d] = fan[d]
    BY <1>3, CallHasStory DEF RecordRecipients, IInv, TypeOK
  <2>2. CallOK(c)'
    BY <2>1, NewsAssumption DEF CallOK, IdleCall
  <2> QED
    BY <1>1, <2>1, <2>2, CallsKept DEF IInv
<1> QED
  BY <1>2, <1>3

\* The goroutines.
LEMMA FanKeeps ==
  ASSUME IInv, NEW c \in Call, NEW u \in Member, SendPushOnly(c, u) \/ MarkNewsDelivered(c, u)
  PROVE  TypeOK' /\ PushParts' /\ CallsConsistent'
<1>1. TypeOK'
  BY FanTypes DEF IInv
<1>2. PushParts'
  BY <1>1, SendKeeps, MarkKeeps
<1>3. fan[c] \in FanState /\ fan[c].story # None /\ fan[c] # IdleFan /\ UNCHANGED call
  BY DEF IInv, TypeOK, CallsConsistent, CallOK, IdleFan, SendPushOnly, Push, MarkNewsDelivered
<1>4. /\ \A d \in Call \ {c} : fan'[d] = fan[d]
      /\ fan'[c].story = None => fan'[c] = IdleFan
  <2>1. CASE SendPushOnly(c, u)
    <3> DEFINE v == [fan[c] EXCEPT !.todo = @ \ {u}]
               w == [fan[c] EXCEPT !.todo = @ \ {u}, !.sent = @ \cup {u}]
    <3>1. v \in FanState /\ v.story # None /\ w.story # None
      BY <1>3 DEF FanState, SendPushOnly, Push
    <3>2. fan' = [fan EXCEPT ![c] = w] \/ fan' = [fan EXCEPT ![c] = After(v)]
      BY <2>1 DEF SendPushOnly, Push, IInv, TypeOK
    <3> HIDE DEF v, w
    <3>3. fan'[c] \in {w, After(v)} /\ \A d \in Call \ {c} : fan'[d] = fan[d]
      BY <3>2 DEF IInv, TypeOK
    <3> QED
      BY <3>1, <3>3, AfterFields
  <2>2. CASE MarkNewsDelivered(c, u)
    <3> DEFINE v == [fan[c] EXCEPT !.sent = @ \ {u}]
    <3>1. v \in FanState /\ v.story # None
      BY <1>3 DEF FanState
    <3>2. fan' = [fan EXCEPT ![c] = After(v)]
      BY <2>2 DEF MarkNewsDelivered
    <3> HIDE DEF v
    <3>3. fan'[c] = After(v) /\ \A d \in Call \ {c} : fan'[d] = fan[d]
      BY <3>2 DEF IInv, TypeOK
    <3> QED
      BY <3>1, <3>3, AfterFields
  <2> QED
    BY <2>1, <2>2
<1>5. CallOK(c)'
  BY <1>3, <1>4 DEF IInv, CallsConsistent, CallOK
<1>6. CallsConsistent'
  BY <1>3, <1>4, <1>5, CallsKept DEF IInv
<1> QED
  BY <1>1, <1>2, <1>6

\* The members' visits.
LEMMA VisitKeeps ==
  ASSUME IInv, NEW u \in Member,
         \/ \E n \in Story : \/ GetPublishedNews(u, n) \/ MarkNewsReadToEnd(u, n)
                             \/ MarkNewsUpgradeClicked(u, n)
         \/ IsProUser(u) \/ RecordNewsView(u) \/ MarkNewsSeen(u)
  PROVE  TypeOK' /\ PushParts' /\ CallsConsistent'
<1>1. TypeOK'
  BY VisitTypes DEF IInv
<1>2. UNCHANGED <<story, deleted, delivery, call, fan, phone>> /\ Faulty
  BY DEF GetPublishedNews, MarkNewsReadToEnd, MarkNewsUpgradeClicked, TurnOn, IsProUser,
         RecordNewsView, MarkNewsSeen, tables, Faulty, Fail
<1> QED
  BY <1>1, <1>2, QuietKeeps

\* The world around the stories.
LEMMA WorldKeeps ==
  ASSUME IInv, NEW u \in Member, SubscriptionChanges(u) \/ StatusChanges(u)
  PROVE  TypeOK' /\ PushParts' /\ CallsConsistent'
<1>1. TypeOK'
  BY WorldTypes DEF IInv
<1>2. UNCHANGED <<story, deleted, delivery, call, fan, phone>> /\ Faulty
  BY DEF SubscriptionChanges, StatusChanges, tables, Faulty
<1> QED
  BY <1>1, <1>2, QuietKeeps

\* The setting changes, or the process restarts.
LEMMA ProcessKeeps ==
  ASSUME IInv, SetMode \/ Crash
  PROVE  TypeOK' /\ PushParts' /\ CallsConsistent'
<1>1. TypeOK'
  BY ProcessTypes DEF IInv
<1>2. CASE SetMode
  <2>1. UNCHANGED <<story, deleted, delivery, call, fan, phone>> /\ Faulty
    BY <1>2 DEF SetMode, tables, Faulty
  <2> QED
    BY <1>1, <2>1, QuietKeeps
<1>3. CASE Crash
  <2>1. \A c \in Call : CallOK(c)'
    BY <1>3 DEF Crash, CallOK, IdleCall, IdleFan
  <2> QED
    BY <1>1, <1>3, <2>1, CrashKeeps DEF CallsConsistent
<1> QED
  BY <1>2, <1>3

\* The publish handler, whole.
LEMMA PublishKeeps ==
  ASSUME IInv, NEW c \in Call, NEW n \in Story, PublishRead(c, n) \/ PublishStep(c)
  PROVE  TypeOK' /\ PushParts' /\ CallsConsistent'
<1>1. TypeOK'
  BY PublishTypes DEF IInv
<1> QED
  BY <1>1, PublishReadKeeps, PublishStoryKeeps, ListRecipientsKeeps, ClaimStepKeeps,
     CountRecordKeeps DEF PublishStep

\* Every step keeps the invariant.
LEMMA StepKeepsIInv ==
  ASSUME IInv, [Next]_vars
  PROVE  IInv'
<1>1. TypeOK' /\ PushParts' /\ CallsConsistent'
  <2>1. CASE \E n \in Story : Create(n) \/ Update(n) \/ Delete(n) \/ Unpublish(n)
    BY <2>1, DraftKeeps
  <2>2. ASSUME NEW c \in Call, PublishStep(c) PROVE TypeOK' /\ PushParts' /\ CallsConsistent'
    <3>1. call[c].step # "idle"
      BY <2>2 DEF PublishStep, PublishStory, ListRecipients, Claim, SetNewsNotifiedCount,
                  RecordRecipients
    <3>2. call[c].story \in Story
      BY <3>1, CallHasStory DEF IInv
    <3> QED
      BY <2>2, <3>2, PublishKeeps
  <2>3. ASSUME NEW c \in Call, NEW n \in Story, PublishRead(c, n)
        PROVE  TypeOK' /\ PushParts' /\ CallsConsistent'
    BY <2>3, PublishKeeps
  <2>4. ASSUME NEW c \in Call, FanOut(c) PROVE TypeOK' /\ PushParts' /\ CallsConsistent'
    BY <2>4, FanKeeps DEF FanOut
  <2>5. ASSUME NEW u \in Member,
               \/ \E n \in Story : \/ GetPublishedNews(u, n) \/ MarkNewsReadToEnd(u, n)
                                   \/ MarkNewsUpgradeClicked(u, n)
               \/ IsProUser(u) \/ RecordNewsView(u) \/ MarkNewsSeen(u)
        PROVE  TypeOK' /\ PushParts' /\ CallsConsistent'
    BY <2>5, VisitKeeps
  <2>6. CASE \E u \in Member : SubscriptionChanges(u) \/ StatusChanges(u)
    BY <2>6, WorldKeeps
  <2>7. CASE SetMode \/ Crash
    BY <2>7, ProcessKeeps
  <2>8. CASE UNCHANGED vars
    <3>1. TypeOK'
      BY <2>8 DEF vars, tables, TypeOK, IInv
    <3>2. UNCHANGED <<story, deleted, delivery, call, fan, phone>> /\ Faulty
      BY <2>8 DEF vars, tables, Faulty
    <3> QED
      BY <3>1, <3>2, QuietKeeps
  <2>9. Reader \subseteq Member
    BY NewsAssumption
  <2> QED
    BY <2>1, <2>2, <2>3, <2>4, <2>5, <2>6, <2>7, <2>8, <2>9 DEF Next
<1>2. ViewsConsistent'
  BY <1>1, ViewsKept
<1>3. SeenConsistent'
  BY <1>1, SeenKept
<1> QED
  BY <1>1, <1>2, <1>3 DEF IInv, PushParts

\* The inductive invariant holds of every behaviour.
THEOREM Invariance == Spec => []IInv
<1>1. Init => IInv
  BY InitIInv
<1>2. IInv /\ [Next]_vars => IInv'
  BY StepKeepsIInv
<1> QED
  BY <1>1, <1>2, PTL DEF Spec

-----------------------------------------------------------------------------
(* The properties.                                                         *)

\* However often and from wherever a story is published, hidden and published
\* again, each phone gets its push at most once (service.go, claim).
THEOREM OnePush == Spec => []OnePushPerMember
<1>1. IInv => OnePushPerMember
  BY DEF IInv, OnePushPerMember, PushesConsistent
<1> QED
  BY <1>1, Invariance, PTL

\* The part of a set that passes two tests.
LEMMA PartsAddUp ==
  ASSUME NEW rows, IsFiniteSet(rows), NEW A \in SUBSET rows, NEW B \in SUBSET rows
  PROVE  /\ Cardinality(A \cap B) \in 0 .. Cardinality(B)
         /\ Cardinality(A) - Cardinality(A \cap B) \in 0 .. (Cardinality(rows) - Cardinality(B))
<1>1. IsFiniteSet(A) /\ IsFiniteSet(B)
  BY FS_Subset
<1>2. /\ IsFiniteSet(A \cap B) /\ Cardinality(A \cap B) <= Cardinality(B)
      /\ Cardinality(A \cap B) <= Cardinality(A)
  BY <1>1, FS_Intersection
<1>3. /\ IsFiniteSet(A \cup B)
      /\ Cardinality(A \cup B) = Cardinality(A) + Cardinality(B) - Cardinality(A \cap B)
  BY <1>1, FS_Union
<1>4. Cardinality(A \cup B) <= Cardinality(rows)
  <2>1. A \cup B \in SUBSET rows
    OBVIOUS
  <2> QED
    BY <2>1, FS_Subset
<1>5. /\ Cardinality(A) \in Nat /\ Cardinality(B) \in Nat /\ Cardinality(A \cap B) \in Nat
      /\ Cardinality(rows) \in Nat
  BY <1>1, <1>2, FS_CardinalityType
<1>6. \A a, b, ab, r \in Nat : ab <= a /\ ab <= b /\ a + b - ab <= r =>
        ab \in 0 .. b /\ a - ab \in 0 .. (r - b)
  OBVIOUS
<1> QED
  BY <1>2, <1>3, <1>4, <1>5, <1>6

\* While nothing has failed, the delivery analytics of a story nobody is
\* pushing any more say exactly who got it.
THEOREM DeliveriesCounted == Spec => []DeliveriesAreExact
<1>1. ASSUME IInv PROVE DeliveriesAreExact
  <2> SUFFICES ASSUME NEW n \in Story, Exists(n), faults = 0,
                      \A c \in Call : call[c].story # n /\ fan[c].story # n
               PROVE  LET a == Analytics(n)
                      IN  /\ a.delivery.recipients = story[n].count
                          /\ a.delivery.delivered_pro \in 0 .. a.delivery.recipients_pro
                          /\ a.delivered_free \in 0 .. a.recipients_free
                          /\ \A u \in Member : phone[n, u] = 1 <=>
                               <<n, u>> \in DOMAIN delivery /\ delivery[n, u].delivered
    BY DEF DeliveriesAreExact
  <2>1. CountOK(n) /\ RowsOK(n)
    BY <1>1 DEF IInv, CountsConsistent, RowsConsistent
  <2>2. story[n].count = Cardinality(DeliveriesOf(n))
    BY <2>1 DEF CountOK, Claimed
  <2>3. \A u \in Member : ~Unmarked(n, u)
    BY DEF Unmarked
  <2>4. \A u \in Member : phone[n, u] = 1 <=> <<n, u>> \in DOMAIN delivery /\ delivery[n, u].delivered
    BY <2>1, <2>3 DEF RowsOK
  <2> DEFINE rows == DeliveriesOf(n)
             A == {k \in rows : delivery[k].delivered}
             B == {k \in rows : delivery[k].was_pro}
  <2>5. IsFiniteSet(rows)
    <3>1. IsFiniteSet(Story \X Member)
      BY NewsAssumption, FS_Product
    <3>2. rows \in SUBSET (Story \X Member)
      BY <1>1 DEF DeliveriesOf, IInv, TypeOK
    <3> HIDE DEF rows
    <3> QED
      BY <3>1, <3>2, FS_Subset
  <2>6. {k \in rows : delivery[k].delivered /\ delivery[k].was_pro} = A \cap B
    OBVIOUS
  <2>7. /\ Analytics(n).delivery.recipients = Cardinality(rows)
        /\ Analytics(n).delivery.recipients_pro = Cardinality(B)
        /\ Analytics(n).delivery.delivered_pro = Cardinality(A \cap B)
        /\ Analytics(n).delivered_free = Cardinality(A) - Cardinality(A \cap B)
        /\ Analytics(n).recipients_free = Cardinality(rows) - Cardinality(B)
    BY <2>6 DEF Analytics, NewsDeliveryStats, Count, DeliveriesOf
  <2>8. A \in SUBSET rows /\ B \in SUBSET rows
    OBVIOUS
  <2> HIDE DEF A, B, rows
  <2>9. /\ Cardinality(A \cap B) \in 0 .. Cardinality(B)
        /\ Cardinality(A) - Cardinality(A \cap B) \in 0 .. (Cardinality(rows) - Cardinality(B))
    BY <2>5, <2>8, PartsAddUp
  <2>10. story[n].count = Cardinality(rows)
    BY <2>2 DEF rows
  <2> QED
    BY <2>4, <2>7, <2>9, <2>10
<1>2. IInv => DeliveriesAreExact
  BY <1>1
<1> QED
  BY <1>2, Invariance, PTL

\* A stamp, once there, stays for the life of the story.
StampsKept ==
  \A n \in Story : Exists(n) /\ story[n].published # None =>
    story'[n] = None \/ story'[n].published = story[n].published

\* A row whose stamp is kept.
LEMMA StampKept ==
  ASSUME TypeOK, NEW n \in Story, NEW w,
         story' = [story EXCEPT ![n] = w],
         w = None \/ (Exists(n) /\ story[n].published # None => w.published = story[n].published)
  PROVE  StampsKept
BY DEF TypeOK, StampsKept

\* No step moves a stamp.
LEMMA StepKeepsStamps ==
  ASSUME TypeOK, CallsConsistent, [Next]_vars
  PROVE  StampsKept
<1>0. \A n \in Story : Exists(n) => story[n] \in StoryRow
  BY DEF TypeOK, Exists
<1>1. CASE UNCHANGED story
  BY <1>1 DEF StampsKept
<1>2. ASSUME NEW n \in Story, Create(n) PROVE StampsKept
  BY <1>2 DEF Create, TypeOK, StampsKept
<1>3. ASSUME NEW n \in Story, Delete(n) PROVE StampsKept
  BY <1>3 DEF Delete, TypeOK, StampsKept
<1>4. ASSUME NEW n \in Story, Update(n) PROVE StampsKept
  <2>1. PICK body \in BOOLEAN, interests \in SUBSET Interest :
          story' = [story EXCEPT ![n].body = body, ![n].interests = interests]
    BY <1>4 DEF Update
  <2> DEFINE w == [story[n] EXCEPT !.body = body, !.interests = interests]
  <2>2. w.published = story[n].published
    BY <1>0, <1>4 DEF Update, StoryRow
  <2>3. story' = [story EXCEPT ![n] = w]
    BY <2>1 DEF TypeOK
  <2> HIDE DEF w
  <2> QED
    BY <2>2, <2>3, StampKept
<1>5. ASSUME NEW n \in Story, Unpublish(n) PROVE StampsKept
  <2> DEFINE w == [story[n] EXCEPT !.status = "draft"]
  <2>2. w.published = story[n].published
    BY <1>0, <1>5 DEF Unpublish, StoryRow
  <2>3. story' = [story EXCEPT ![n] = w]
    BY <1>5 DEF Unpublish, TypeOK
  <2> HIDE DEF w
  <2> QED
    BY <2>2, <2>3, StampKept
<1>6. ASSUME NEW c \in Call, PublishStory(c) PROVE StampsKept
  <2> DEFINE n == call[c].story
  <2>0. n \in Story
    BY <1>6, CallHasStory DEF PublishStory
  <2>1. CASE Exists(n)
    <3>1. PICK q : q = IF story[n].published = None THEN clock + 1 ELSE story[n].published
      OBVIOUS
    <3> DEFINE w == [story[n] EXCEPT !.status = "published", !.published = q]
    <3>2. w.published = q
      BY <1>0, <2>0, <2>1 DEF StoryRow
    <3>3. story' = [story EXCEPT ![n] = w]
      BY <1>6, <2>0, <2>1, <3>1 DEF PublishStory, PublishNews, TypeOK
    <3> HIDE DEF w, n
    <3> QED
      BY <2>0, <3>1, <3>2, <3>3, StampKept
  <2>2. CASE ~Exists(n)
    BY <1>1, <1>6, <2>2 DEF PublishStory
  <2> QED
    BY <2>1, <2>2
<1>7. ASSUME NEW c \in Call, Claim(c) PROVE StampsKept
  <2> DEFINE n == call[c].story
             w == [story[n] EXCEPT !.notified = TRUE]
  <2>0. n \in Story
    BY <1>7, CallHasStory DEF Claim
  <2>1. CASE ClaimNewsNotification(n)
    <3>1. w.published = story[n].published
      BY <1>0, <2>0, <2>1 DEF ClaimNewsNotification, StoryRow
    <3>2. story' = [story EXCEPT ![n] = w]
      BY <2>0, <2>1 DEF ClaimNewsNotification, TypeOK
    <3> HIDE DEF w, n
    <3> QED
      BY <2>0, <3>1, <3>2, StampKept
  <2> QED
    BY <1>1, <1>7, <2>1 DEF Claim
<1>8. ASSUME NEW c \in Call, SetNewsNotifiedCount(c) PROVE StampsKept
  <2>1. PICK q : q = Cardinality(call[c].to)
    OBVIOUS
  <2> DEFINE n == call[c].story
             w == [story[n] EXCEPT !.count = q]
  <2>0. n \in Story
    BY <1>8, CallHasStory DEF SetNewsNotifiedCount
  <2>2. CASE Exists(n) /\ story' = [story EXCEPT ![n].count = q]
    <3>1. w.published = story[n].published
      BY <1>0, <2>0, <2>2 DEF StoryRow
    <3>2. story' = [story EXCEPT ![n] = w]
      BY <2>0, <2>2 DEF TypeOK
    <3> HIDE DEF w, n
    <3> QED
      BY <2>0, <3>1, <3>2, StampKept
  <2> QED
    BY <1>1, <1>8, <2>1, <2>2 DEF SetNewsNotifiedCount
<1>9. ASSUME NEW c \in Call, \/ \E n \in Story : PublishRead(c, n)
                             \/ ListRecipients(c) \/ RecordRecipients(c) \/ FanOut(c)
      PROVE  UNCHANGED story
  BY <1>9 DEF PublishRead, ListRecipients, RecordRecipients,
              FanOut, SendPushOnly, Push, MarkNewsDelivered, tables
<1>10. ASSUME NEW u \in Member,
              \/ \E n \in Story : \/ GetPublishedNews(u, n) \/ MarkNewsReadToEnd(u, n)
                                  \/ MarkNewsUpgradeClicked(u, n)
              \/ IsProUser(u) \/ RecordNewsView(u) \/ MarkNewsSeen(u)
       PROVE  UNCHANGED story
  BY <1>10 DEF GetPublishedNews, MarkNewsReadToEnd, MarkNewsUpgradeClicked, TurnOn,
               IsProUser, RecordNewsView, MarkNewsSeen, tables
<1>11. ASSUME (\E u \in Member : SubscriptionChanges(u) \/ StatusChanges(u)) \/ SetMode \/ Crash
       PROVE  UNCHANGED story
  BY <1>11 DEF SubscriptionChanges, StatusChanges, SetMode, Crash, tables
<1>12. CASE UNCHANGED vars
  BY <1>1, <1>12 DEF vars, tables
<1> QED
  BY <1>1, <1>2, <1>3, <1>4, <1>5, <1>6, <1>7, <1>8, <1>9, <1>10, <1>11, <1>12,
     NewsAssumption DEF Next, PublishStep

\* A story a member has had in the list without the "new" mark never gets the
\* mark again: published_at stays, and last_seen_at only moves forward.
THEOREM NewOnlyOnce == Spec => NeverNewAgain
<1>1. ASSUME IInv, [Next]_vars, NEW u \in Member, NEW n \in Story,
             Exists(n), story[n].published # None, seen[u] # None,
             story[n].published <= seen[u]
      PROVE  ~IsNew(u, n)'
  <2>1. StampsKept
    BY <1>1, StepKeepsStamps DEF IInv
  <2>2. story'[n] = None \/ story'[n].published = story[n].published
    BY <1>1, <2>1 DEF StampsKept
  <2>3. seen'[u] \in Nat /\ seen[u] \in Nat /\ seen[u] <= seen'[u]
    BY <1>1, SeenKept DEF LooksForward, IInv, TypeOK
  <2>4. story[n].published \in Nat
    BY <1>1 DEF IInv, TypeOK, StoryRow, Exists
  <2>5. seen'[u] # None
    BY <2>3, NewsAssumption
  <2>6. \A a, b, d \in Nat : a <= b /\ b <= d => ~(a > d)
    OBVIOUS
  <2>7. ~(story[n].published > seen'[u])
    BY <1>1, <2>3, <2>4, <2>6
  <2> QED
    BY <2>2, <2>5, <2>7 DEF IsNew, IsPublished, Exists
<1>2. IInv /\ [Next]_vars =>
        [\A u \in Member, n \in Story :
           (Exists(n) /\ story[n].published # None /\ seen[u] # None
              /\ story[n].published <= seen[u]) => ~IsNew(u, n)']_vars
  BY <1>1
<1> QED
  BY <1>2, Invariance, PTL DEF Spec, NeverNewAgain

\* A page lists every key once.
LEMMA PageLength ==
  ASSUME NEW keys, IsFiniteSet(keys), NEW page, NEW f \in [keys -> page],
         page = {f[k] : k \in keys}, \A k \in keys : f[k].id = k
  PROVE  IsFiniteSet(page) /\ Cardinality(page) = Cardinality(keys)
<1>1. \A k, l \in keys : f[k] = f[l] => k = l
  OBVIOUS
<1>2. \A r \in page : \E k \in keys : f[k] = r
  OBVIOUS
<1>3. f \in Bijection(keys, page)
  BY <1>1, <1>2 DEF Bijection, Injection, Surjection, IsInjective
<1> QED
  BY <1>3, FS_Bijection DEF ExistsBijection

\* A set and the part of it that passes a test and the part that does not.
LEMMA SplitCount ==
  ASSUME NEW all, IsFiniteSet(all), NEW A, NEW B, all = A \cup B, A \cap B = {}
  PROVE  Cardinality(all) = Cardinality(A) + Cardinality(B)
<1>1. IsFiniteSet(A) /\ IsFiniteSet(B)
  BY FS_Subset
<1>2. Cardinality(all) = Cardinality(A) + Cardinality(B) - Cardinality(A \cap B)
  BY <1>1, FS_Union
<1>3. Cardinality(A) \in Nat /\ Cardinality(B) \in Nat /\ Cardinality(A \cap B) = 0
  BY <1>1, FS_CardinalityType, FS_EmptySet
<1> QED
  BY <1>2, <1>3

\* Members are finitely many.
LEMMA ViewersFinite ==
  ASSUME NEW S \in SUBSET Member
  PROVE  IsFiniteSet(S) /\ Cardinality(S) \in Nat
BY NewsAssumption, FS_Subset, FS_CardinalityType

\* The tiles of one story.
LEMMA TilesAddUp ==
  ASSUME IInv, NEW n \in Story
  PROVE  LET s == Analytics(n).views
         IN  /\ s.viewers = s.viewers_pro + s.viewers_free
             /\ s.push_opens = s.push_opens_pro + s.push_opens_free
             /\ s.read_to_end <= s.viewers_pro + s.converted
             /\ s.upgrade_clicks <= s.viewers_free /\ s.converted <= s.viewers_free
             /\ ViewerPage(n, "pro").rows \cap ViewerPage(n, "upgrade").rows = {}
             /\ ViewerPage(n, "pro").total = s.viewers_pro
             /\ ViewerPage(n, "free").total = s.viewers_free
             /\ ViewerPage(n, "push").total = s.push_opens
             /\ ViewerPage(n, "").total = s.viewers
<1> DEFINE all   == Viewers(n)
           gated == With(n, "gated")
           asPro == With(n, "read_as_pro")
           push  == With(n, "from_push")
           ends  == With(n, "read_to_end")
           ups   == With(n, "upgrade_clicked")
           pro   == asPro \ gated
<1>1. /\ all = pro \cup gated /\ pro \cap gated = {}
      /\ push = (push \cap pro) \cup (push \cap gated)
      /\ ends \subseteq asPro /\ ups \subseteq gated
      /\ asPro = pro \cup (gated \cap asPro)
      /\ pro \cap ups = {}
  BY DEF IInv, ViewsConsistent, With, Viewers
<1>2. /\ all \in SUBSET Member /\ gated \in SUBSET Member /\ asPro \in SUBSET Member
      /\ push \in SUBSET Member /\ ends \in SUBSET Member /\ ups \in SUBSET Member
  BY DEF With, Viewers
<1>3. LET s == Analytics(n).views
      IN  /\ s.viewers = Cardinality(all) /\ s.viewers_pro = Cardinality(pro)
          /\ s.viewers_free = Cardinality(gated) /\ s.push_opens = Cardinality(push)
          /\ s.push_opens_pro = Cardinality(push \cap pro)
          /\ s.push_opens_free = Cardinality(push \cap gated)
          /\ s.read_to_end = Cardinality(ends) /\ s.upgrade_clicks = Cardinality(ups)
          /\ s.converted = Cardinality(gated \cap asPro)
  BY DEF Analytics, NewsViewStats, Count
<1>4. /\ ViewerPage(n, "pro").rows = pro /\ ViewerPage(n, "upgrade").rows = ups
      /\ ViewerPage(n, "pro").total = Cardinality(pro)
      /\ ViewerPage(n, "free").total = Cardinality(gated)
      /\ ViewerPage(n, "push").total = Cardinality(push)
      /\ ViewerPage(n, "").total = Cardinality(all)
  BY DEF ViewerPage, ListNewsViewers, Count
<1> HIDE DEF all, gated, asPro, push, ends, ups, pro
<1>5. pro \subseteq all /\ gated \subseteq all
  BY <1>1
<1>6. IsFiniteSet(all) /\ IsFiniteSet(push) /\ IsFiniteSet(asPro) /\ IsFiniteSet(gated)
  BY <1>2, ViewersFinite
<1>7. Cardinality(all) = Cardinality(pro) + Cardinality(gated)
  BY <1>1, <1>6, SplitCount
<1>8. Cardinality(push) = Cardinality(push \cap pro) + Cardinality(push \cap gated)
  <2>1. (push \cap pro) \cap (push \cap gated) = {}
    BY <1>1
  <2> QED
    BY <1>1, <1>6, <2>1, SplitCount
<1>9. Cardinality(asPro) = Cardinality(pro) + Cardinality(gated \cap asPro)
  <2>1. pro \cap (gated \cap asPro) = {}
    BY <1>1
  <2> QED
    BY <1>1, <1>6, <2>1, SplitCount
<1>10. Cardinality(ends) <= Cardinality(asPro)
  BY <1>1, <1>6, FS_Subset
<1>11. Cardinality(ups) <= Cardinality(gated) /\ Cardinality(gated \cap asPro) <= Cardinality(gated)
  BY <1>1, <1>6, FS_Subset
<1> QED
  BY <1>1, <1>3, <1>4, <1>7, <1>8, <1>9, <1>10, <1>11

\* A member's list and the badge over it.
LEMMA BadgeAgrees ==
  ASSUME IInv, NEW u \in Member
  PROVE  LET page == List(u)
         IN  /\ Count(page.rows) = page.total
             /\ Status(u).pro => Status(u).unread = Count({r \in page.rows : r.is_new})
             /\ {r.id : r \in page.rows} = {r.id : r \in AdminList("published").rows}
<1> DEFINE keys  == {n \in Story : IsPublished(n)}
           f     == [n \in keys |-> [id |-> n, is_new |-> IsNew(u, n)]]
           page  == List(u).rows
           fresh == {n \in keys : IsNew(u, n)}
           g     == [n \in fresh |-> [id |-> n, is_new |-> IsNew(u, n)]]
           news  == {r \in page : r.is_new}
<1>1. page = {f[k] : k \in keys} /\ f \in [keys -> page] /\ \A k \in keys : f[k].id = k
  BY DEF List
<1>2. news = {g[k] : k \in fresh} /\ g \in [fresh -> news] /\ \A k \in fresh : g[k].id = k
  BY DEF List
<1>3. List(u).total = Cardinality(keys)
  BY DEF List, CountPublishedNews, Count
<1>4. fresh = {n \in Story : IsPublished(n) /\ (seen[u] # None => seen[u] < story[n].published)}
  <2>1. ASSUME NEW n \in Story, IsPublished(n)
        PROVE  IsNew(u, n) <=> (seen[u] # None => seen[u] < story[n].published)
    <3>1. story[n].published \in Nat /\ seen[u] \in Nat \cup {None}
      BY <2>1 DEF IInv, TypeOK, StoriesConsistent, IsPublished, Exists, StoryRow
    <3> QED
      BY <2>1, <3>1 DEF IsNew
  <2> QED
    BY <2>1
<1>5. Status(u).pro => Status(u).unread = Cardinality(fresh)
  BY <1>4 DEF Status, CountUnreadNews, Count
<1>6. {r.id : r \in page} = {r.id : r \in AdminList("published").rows}
  <2>1. {r.id : r \in page} = keys
    <3> HIDE DEF page, f, keys
    <3>1. \A r \in page : r.id \in keys
      BY <1>1
    <3>2. \A k \in keys : f[k] \in page /\ f[k].id = k
      BY <1>1
    <3> QED
      BY <3>1, <3>2
  <2>2. {r.id : r \in AdminList("published").rows} = keys
    <3>1. AdminListNews("published") = keys
      BY DEF AdminListNews, IsPublished
    <3>2. \A r \in AdminList("published").rows : r.id \in keys
      <4>1. ASSUME NEW r \in AdminList("published").rows PROVE r.id \in keys
        <5>1. PICK n \in AdminListNews("published") : r = [id |-> n, viewers |-> Count(Viewers(n))]
          BY DEF AdminList
        <5> QED
          BY <3>1, <5>1
      <4> QED
        BY <4>1
    <3>3. ASSUME NEW n \in keys PROVE \E r \in AdminList("published").rows : r.id = n
      <4>1. [id |-> n, viewers |-> Count(Viewers(n))] \in AdminList("published").rows
        BY <3>1 DEF AdminList
      <4> QED
        BY <4>1
    <3> HIDE DEF keys
    <3> QED
      BY <3>2, <3>3
  <2> QED
    BY <2>1, <2>2
<1>7. IsFiniteSet(keys) /\ IsFiniteSet(fresh)
  BY NewsAssumption, FS_Subset
<1> HIDE DEF keys, f, page, fresh, g, news
<1>8. Cardinality(page) = Cardinality(keys)
  BY <1>1, <1>7, PageLength
<1>9. Cardinality(news) = Cardinality(fresh)
  BY <1>2, <1>7, PageLength
<1> QED
  BY <1>3, <1>5, <1>6, <1>8, <1>9 DEF Count, page, news

\* The tabs of the administrator's list.
LEMMA TabsAddUp ==
  ASSUME TypeOK
  PROVE  /\ AdminList("draft").total + AdminList("published").total = AdminList("").total
         /\ \A r \in AdminList("").rows : r.viewers = Analytics(r.id).views.viewers
<1> DEFINE A == AdminListNews("draft")
           B == AdminListNews("published")
           all == AdminListNews("")
<1>1. all = A \cup B /\ A \cap B = {}
  BY DEF AdminListNews, Exists, TypeOK, StoryRow
<1>2. all \in SUBSET Story
  BY DEF AdminListNews
<1>3. /\ AdminList("draft").total = Cardinality(A) /\ AdminList("published").total = Cardinality(B)
      /\ AdminList("").total = Cardinality(all)
  BY DEF AdminList, Count
<1>4. \A r \in AdminList("").rows : r.viewers = Analytics(r.id).views.viewers
  <2> SUFFICES ASSUME NEW r \in AdminList("").rows
               PROVE  r.viewers = Analytics(r.id).views.viewers
    OBVIOUS
  <2>1. PICK n \in AdminListNews("") : r = [id |-> n, viewers |-> Count(Viewers(n))]
    BY DEF AdminList
  <2>2. r.id = n /\ r.viewers = Count(Viewers(n))
    BY <2>1
  <2>3. Analytics(n).views.viewers = Count(Viewers(n))
    BY DEF Analytics, NewsViewStats
  <2> QED
    BY <2>2, <2>3
<1> HIDE DEF A, B, all
<1>5. IsFiniteSet(all)
  BY <1>2, NewsAssumption, FS_Subset
<1>6. Cardinality(all) = Cardinality(A) + Cardinality(B)
  BY <1>1, <1>5, SplitCount
<1> QED
  BY <1>3, <1>4, <1>6

\* The tiles, the pages and the badge of the news add up.
THEOREM NewsAddUp == Spec => []ViewersAddUp
<1>1. IInv => ViewersAddUp
  BY TilesAddUp, BadgeAgrees, TabsAddUp DEF ViewersAddUp, IInv
<1> QED
  BY <1>1, Invariance, PTL
=============================================================================
