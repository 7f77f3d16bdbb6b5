--------------------------------- MODULE News ---------------------------------
(***************************************************************************)
(* News stories: drafting, publishing, the one push notification a story   *)
(* gets in its life, and the visits of members that feed its analytics.    *)
(*                                                                         *)
(* Every SQL statement commits by itself, except that a story and its      *)
(* interests are saved in one transaction.  Publish is a handler of up to  *)
(* six statements that ends by starting a goroutine (fanOut) which pushes  *)
(* to the members one by one; Call is the set of publish calls that may be *)
(* running, each with its goroutine.  Get is three statements.  A crash    *)
(* loses the handlers and the goroutines and keeps the tables.  Instants   *)
(* that the code compares are numbered in the order they are stamped.      *)
(***************************************************************************)
EXTENDS Integers, FiniteSets

CONSTANTS
  Story,            \* rows of the news table, each created at most once
  Member,           \* users who are neither carriers nor administrators
  Interest,         \* rows of interests
  InterestsOf,      \* Member -> SUBSET Interest: user_interests
  Call,             \* publish calls that may run at the same time
  PushConcurrency,  \* pushes of one fan-out in flight
  Reader,           \* bound: the members whose visits are followed
  Horizon,          \* bound: stamps taken by MarkSeen stop here
  MaxFaults,        \* bound: failed statements and crashes
  MaxChanges,       \* bound: edits, and changes of members and of the setting
  None              \* SQL NULL, or no such row

Flags == {"from_push", "read_as_pro", "gated", "read_to_end", "upgrade_clicked"}

StoryRow == [status : {"draft", "published"}, body : BOOLEAN, interests : SUBSET Interest,
             published : Nat \cup {None}, notified : BOOLEAN, count : Nat]

ASSUME NewsAssumption ==
  /\ IsFiniteSet(Story) /\ IsFiniteSet(Member) /\ IsFiniteSet(Call)
  /\ Reader \subseteq Member
  /\ InterestsOf \in [Member -> SUBSET Interest]
  /\ PushConcurrency \in Nat \ {0}
  /\ {Horizon, MaxFaults, MaxChanges} \subseteq Nat
  /\ None \notin Nat \cup Story \cup StoryRow

VARIABLES
  story,     \* the news table and news_interests
  deleted,   \* ids of deleted stories
  delivery,  \* news_deliveries, keyed by (news_id, user_id)
  view,      \* news_views, keyed by (news_id, user_id): the flags of the row
  seen,      \* news_seen.last_seen_at
  member,    \* the status and the subscription of each member
  mode,      \* the setting news_notify_mode
  call,      \* publish handlers
  fan,       \* the fan-out goroutine of each call
  visit,     \* members' Get handlers
  phone,     \* how many pushes of a story a member's phone accepted
  tried,     \* members a fan-out has dealt with
  clock, faults, changes

tables == <<story, deleted, delivery, view, seen>>
vars == <<tables, member, mode, call, fan, visit, phone, tried, clock, faults, changes>>

-----------------------------------------------------------------------------
Modes == {"off", "all", "by_interest"}

Delivery == [was_pro : BOOLEAN, delivered : BOOLEAN]

\* A row of ListNewsRecipients.
Recipient == [id : Member, pro : BOOLEAN]

CallState == [step : {"idle", "publish", "list", "claim", "count", "record"},
              story : Story \cup {None}, mode : Modes, to : SUBSET Recipient]

FanState == [story : Story \cup {None}, todo : SUBSET Member, sent : SUBSET Member]

Visit == [step : {"idle", "pro", "record"}, story : Story \cup {None}, pro : BOOLEAN]

TypeOK ==
  /\ story \in [Story -> StoryRow \cup {None}] /\ deleted \subseteq Story
  /\ DOMAIN delivery \subseteq Story \X Member
  /\ \A k \in DOMAIN delivery : delivery[k] \in Delivery
  /\ view \in [Story \X Member -> {None} \cup SUBSET Flags]
  /\ seen \in [Member -> Nat \cup {None}]
  /\ member \in [Member -> [status : {"active", "suspended"}, pro : BOOLEAN]]
  /\ mode \in Modes
  /\ call \in [Call -> CallState] /\ fan \in [Call -> FanState]
  /\ visit \in [Member -> Visit]
  /\ phone \in [Story \X Member -> Nat] /\ tried \subseteq Story \X Member
  /\ {clock, faults, changes} \subseteq Nat

IdleCall  == [step |-> "idle", story |-> None, mode |-> "off", to |-> {}]
IdleFan   == [story |-> None, todo |-> {}, sent |-> {}]
IdleVisit == [step |-> "idle", story |-> None, pro |-> FALSE]

Init ==
  /\ story = [n \in Story |-> None] /\ deleted = {}
  /\ delivery = [k \in {} |-> None]
  /\ view = [k \in Story \X Member |-> None]
  /\ seen = [u \in Member |-> None]
  /\ member \in [Member -> [status : {"active"}, pro : BOOLEAN]]
  /\ mode = "all"
  /\ call = [c \in Call |-> IdleCall] /\ fan = [c \in Call |-> IdleFan]
  /\ visit = [u \in Member |-> IdleVisit]
  /\ phone = [k \in Story \X Member |-> 0] /\ tried = {}
  /\ clock = 0 /\ faults = 0 /\ changes = 0

Exists(n)      == story[n] # None
IsPublished(n) == Exists(n) /\ story[n].status = "published"

MayFail   == faults < MaxFaults
Fail      == faults' = faults + 1
MayChange == changes < MaxChanges
Change    == changes' = changes + 1

-----------------------------------------------------------------------------
(* Drafting.                                                               *)

\* clean lets an empty body through; the row and its interests are one
\* transaction.
Create(n) ==
  /\ ~Exists(n) /\ n \notin deleted
  /\ \E body \in BOOLEAN, interests \in SUBSET Interest :
       story' = [story EXCEPT ![n] =
                  [status |-> "draft", body |-> body, interests |-> interests,
                   published |-> None, notified |-> FALSE, count |-> 0]]
  /\ UNCHANGED <<deleted, delivery, view, seen, member, mode, call, fan, visit, phone,
                 tried, clock, faults, changes>>

\* Edits a draft or a live story.
Update(n) ==
  /\ Exists(n) /\ MayChange /\ Change
  /\ \E body \in BOOLEAN, interests \in SUBSET Interest :
       story' = [story EXCEPT ![n].body = body, ![n].interests = interests]
  /\ UNCHANGED <<deleted, delivery, view, seen, member, mode, call, fan, visit, phone,
                 tried, clock, faults>>

\* The foreign keys take the deliveries and the views along.
Delete(n) ==
  /\ Exists(n)
  /\ story' = [story EXCEPT ![n] = None]
  /\ deleted' = deleted \cup {n}
  /\ delivery' = [k \in {d \in DOMAIN delivery : d[1] # n} |-> delivery[k]]
  /\ view' = [k \in Story \X Member |-> IF k[1] = n THEN None ELSE view[k]]
  /\ UNCHANGED <<seen, member, mode, call, fan, visit, phone, tried, clock, faults, changes>>

Unpublish(n) ==
  /\ Exists(n)
  /\ story' = [story EXCEPT ![n].status = "draft"]
  /\ UNCHANGED <<deleted, delivery, view, seen, member, mode, call, fan, visit, phone,
                 tried, clock, faults, changes>>

-----------------------------------------------------------------------------
(* Publish.                                                                *)

\* The first read: the story exists and has a body.
PublishRead(c, n) ==
  /\ call[c] = IdleCall /\ fan[c] = IdleFan
  /\ Exists(n) /\ story[n].body
  /\ call' = [call EXCEPT ![c] = [IdleCall EXCEPT !.step = "publish", !.story = n]]
  /\ UNCHANGED <<tables, member, mode, fan, visit, phone, tried, clock, faults, changes>>

\* Variant: every publish stamps published_at.
RestampNews(n) ==
  /\ story' = [story EXCEPT ![n].status = "published", ![n].published = clock + 1]
  /\ clock' = clock + 1

\* The first publish stamps published_at, a later one keeps it.
PublishNews(n) ==
  LET first == story[n].published = None
  IN  /\ story' = [story EXCEPT ![n].status = "published",
                                ![n].published = IF first THEN clock + 1 ELSE @]
      /\ clock' = IF first THEN clock + 1 ELSE clock

\* Whether to notify, when it was asked for, is decided on the row this
\* update returns and on the setting as it is now.
PublishStory(c) ==
  LET n == call[c].story
  IN  /\ call[c].step = "publish"
      /\ \/ /\ ~Exists(n)
            /\ call' = [call EXCEPT ![c] = IdleCall]
            /\ UNCHANGED <<story, clock>>
         \/ /\ Exists(n) /\ PublishNews(n)
            /\ \E notify \in BOOLEAN : call' = [call EXCEPT ![c] =
                 IF notify /\ mode # "off" /\ ~story[n].notified
                 THEN [@ EXCEPT !.step = "list", !.mode = mode] ELSE IdleCall]
      /\ UNCHANGED <<deleted, delivery, view, seen, member, mode, fan, visit, phone, tried,
                     faults, changes>>

\* Active members, narrowed to those who share an interest with the story.
ListNewsRecipients(n, how) ==
  {[id |-> u, pro |-> member[u].pro] :
     u \in {v \in Member :
              /\ member[v].status = "active"
              /\ how = "by_interest" =>
                   Exists(n) /\ InterestsOf[v] \cap story[n].interests # {}}}

\* With nobody to tell the story keeps its notification.
ListRecipients(c) ==
  LET to == ListNewsRecipients(call[c].story, call[c].mode)
  IN  /\ call[c].step = "list"
      /\ \/ /\ call' = [call EXCEPT ![c] =
                 IF to = {} THEN IdleCall ELSE [@ EXCEPT !.step = "claim", !.to = to]]
            /\ UNCHANGED faults
         \/ MayFail /\ Fail /\ call' = [call EXCEPT ![c] = IdleCall]
      /\ UNCHANGED <<tables, member, mode, fan, visit, phone, tried, clock, changes>>

\* Variant: the claim does not look at notified_at.
StampNotification(n) == Exists(n) /\ story' = [story EXCEPT ![n].notified = TRUE]

\* UPDATE ... WHERE notified_at IS NULL RETURNING id.
ClaimNewsNotification(n) ==
  Exists(n) /\ ~story[n].notified /\ story' = [story EXCEPT ![n].notified = TRUE]

Claim(c) ==
  LET n == call[c].story
  IN  /\ call[c].step = "claim"
      /\ \/ /\ ClaimNewsNotification(n)
            /\ call' = [call EXCEPT ![c].step = "count"]
            /\ UNCHANGED faults
         \/ /\ Exists(n) => story[n].notified      \* somebody else claimed it
            /\ call' = [call EXCEPT ![c] = IdleCall]
            /\ UNCHANGED <<story, faults>>
         \/ /\ MayFail /\ Fail
            /\ call' = [call EXCEPT ![c] = IdleCall]
            /\ UNCHANGED story
      /\ UNCHANGED <<deleted, delivery, view, seen, member, mode, fan, visit, phone, tried,
                     clock, changes>>

\* A failure is logged and the publish goes on.
SetNewsNotifiedCount(c) ==
  LET n == call[c].story
  IN  /\ call[c].step = "count"
      /\ call' = [call EXCEPT ![c].step = "record"]
      /\ \/ /\ story' = IF Exists(n) THEN [story EXCEPT ![n].count = Cardinality(call[c].to)]
                        ELSE story
            /\ UNCHANGED faults
         \/ MayFail /\ Fail /\ UNCHANGED story
      /\ UNCHANGED <<deleted, delivery, view, seen, member, mode, fan, visit, phone, tried,
                     clock, changes>>

\* Variant: only the Pro members are recorded.
InsertProDeliveries(n, to) ==
  delivery' = [k \in DOMAIN delivery \cup {<<n, r.id>> : r \in {x \in to : x.pro}} |->
                 IF k \in DOMAIN delivery THEN delivery[k]
                 ELSE [was_pro |-> TRUE, delivered |-> FALSE]]

\* ON CONFLICT (news_id, user_id) DO NOTHING.
InsertNewsDeliveries(n, to) ==
  delivery' = [k \in DOMAIN delivery \cup {<<n, r.id>> : r \in to} |->
                 IF k \in DOMAIN delivery THEN delivery[k]
                 ELSE [was_pro |-> (CHOOSE r \in to : r.id = k[2]).pro, delivered |-> FALSE]]

\* The recipients are recorded before anything is sent, then the goroutine
\* starts whether or not that worked.
RecordRecipients(c) ==
  LET n == call[c].story
  IN  /\ call[c].step = "record"
      /\ \/ Exists(n) /\ InsertNewsDeliveries(n, call[c].to) /\ UNCHANGED faults
         \/ ~Exists(n) /\ UNCHANGED <<delivery, faults>>      \* foreign key
         \/ MayFail /\ Fail /\ UNCHANGED delivery
      /\ call' = [call EXCEPT ![c] = IdleCall]
      /\ fan' = [fan EXCEPT ![c] = [story |-> n, todo |-> {r.id : r \in call[c].to},
                                    sent |-> {}]]
      /\ UNCHANGED <<story, deleted, view, seen, member, mode, visit, phone, tried, clock,
                     changes>>

-----------------------------------------------------------------------------
(* fanOut: at most PushConcurrency pushes at a time.                       *)

After(f) == IF f.todo \cup f.sent = {} THEN IdleFan ELSE f

\* Nothing goes to a suspended member; otherwise Firebase accepts the push
\* or does not.  rest: the goroutine when the push was not accepted.
Push(c, u, rest) ==
  LET n == fan[c].story
  IN  /\ u \in fan[c].todo
      /\ Cardinality(fan[c].sent) < PushConcurrency
      /\ tried' = tried \cup {<<n, u>>}
      /\ \/ /\ member[u].status = "active"
            /\ phone' = [phone EXCEPT ![<<n, u>>] = @ + 1]
            /\ fan' = [fan EXCEPT ![c].todo = @ \ {u}, ![c].sent = @ \cup {u}]
         \/ fan' = [fan EXCEPT ![c] = rest] /\ UNCHANGED phone
      /\ UNCHANGED <<tables, member, mode, call, visit, clock, faults, changes>>

\* Variant: the goroutine stops at the first member it cannot reach.
SendUntilRefused(c, u) == Push(c, u, IdleFan)

SendPushOnly(c, u) == Push(c, u, After([fan[c] EXCEPT !.todo = @ \ {u}]))

MarkNewsDelivered(c, u) ==
  LET k == <<fan[c].story, u>>
  IN  /\ u \in fan[c].sent
      /\ fan' = [fan EXCEPT ![c] = After([fan[c] EXCEPT !.sent = @ \ {u}])]
      /\ \/ /\ delivery' = IF k \in DOMAIN delivery
                           THEN [delivery EXCEPT ![k].delivered = TRUE] ELSE delivery
            /\ UNCHANGED faults
         \/ MayFail /\ Fail /\ UNCHANGED delivery
      /\ UNCHANGED <<story, deleted, view, seen, member, mode, call, visit, phone, tried,
                     clock, changes>>

-----------------------------------------------------------------------------
(* Members.                                                                *)

\* Get reads the published story, then whether the member is Pro, then
\* records the visit and answers with the article or with its teaser.
GetPublishedNews(u, n) ==
  /\ visit[u] = IdleVisit /\ IsPublished(n)
  /\ visit' = [visit EXCEPT ![u] = [step |-> "pro", story |-> n, pro |-> FALSE]]
  /\ UNCHANGED <<tables, member, mode, call, fan, phone, tried, clock, faults, changes>>

IsProUser(u) ==
  /\ visit[u].step = "pro"
  /\ visit' = [visit EXCEPT ![u].step = "record", ![u].pro = member[u].pro]
  /\ UNCHANGED <<tables, member, mode, call, fan, phone, tried, clock, faults, changes>>

\* Variant: the last visit's flags replace the earlier ones.
VisitReplaced(old, flags) ==
  IF old = None THEN flags
  ELSE flags \cup (old \cap {"read_to_end", "upgrade_clicked"})

\* ON CONFLICT DO UPDATE: flags only ever turn on.
VisitMerged(old, flags) == IF old = None THEN flags ELSE old \cup flags

\* tap: the visit came from the notification.  A failed write is logged and
\* the member is answered anyway.
RecordNewsView(u) ==
  LET k == <<visit[u].story, u>>
      flag == IF visit[u].pro THEN "read_as_pro" ELSE "gated"
  IN  /\ visit[u].step = "record"
      /\ \/ /\ Exists(visit[u].story)
            /\ \E tap \in {{}, {"from_push"}} :
                 view' = [view EXCEPT ![k] = VisitMerged(@, tap \cup {flag})]
            /\ UNCHANGED faults
         \/ ~Exists(visit[u].story) /\ UNCHANGED <<view, faults>>
         \/ MayFail /\ Fail /\ UNCHANGED view
      /\ visit' = [visit EXCEPT ![u] = IdleVisit]
      /\ UNCHANGED <<story, deleted, delivery, seen, member, mode, call, fan, phone, tried,
                     clock, changes>>

\* UPDATE news_views SET flag = TRUE WHERE ... AND the guard flag is set.
TurnOn(u, n, flag, guard) ==
  /\ IsPublished(n)
  /\ view[n, u] # None /\ guard \in view[n, u]
  /\ view' = [view EXCEPT ![<<n, u>>] = @ \cup {flag}]
  /\ UNCHANGED <<story, deleted, delivery, seen, member, mode, call, fan, visit, phone,
                 tried, clock, faults, changes>>

MarkNewsReadToEnd(u, n) == TurnOn(u, n, "read_to_end", "read_as_pro")

MarkNewsUpgradeClicked(u, n) == TurnOn(u, n, "upgrade_clicked", "gated")

\* Opening the list clears the badge; the list is for Pro members.
MarkNewsSeen(u) ==
  /\ member[u].pro /\ clock < Horizon
  /\ clock' = clock + 1
  /\ seen' = [seen EXCEPT ![u] = clock + 1]
  /\ UNCHANGED <<story, deleted, delivery, view, member, mode, call, fan, visit, phone,
                 tried, faults, changes>>

-----------------------------------------------------------------------------
(* The world: subscriptions start and lapse, administrators suspend        *)
(* members and change the setting, the process restarts.                   *)

SubscriptionChanges(u) ==
  /\ MayChange /\ Change
  /\ member' = [member EXCEPT ![u].pro = ~@]
  /\ UNCHANGED <<tables, mode, call, fan, visit, phone, tried, clock, faults>>

StatusChanges(u) ==
  /\ MayChange /\ Change
  /\ member' = [member EXCEPT ![u].status = IF @ = "active" THEN "suspended" ELSE "active"]
  /\ UNCHANGED <<tables, mode, call, fan, visit, phone, tried, clock, faults>>

SetMode ==
  /\ MayChange /\ Change
  /\ mode' \in Modes \ {mode}
  /\ UNCHANGED <<tables, member, call, fan, visit, phone, tried, clock, faults>>

Crash ==
  /\ MayFail /\ Fail
  /\ call' = [c \in Call |-> IdleCall] /\ fan' = [c \in Call |-> IdleFan]
  /\ visit' = [u \in Member |-> IdleVisit]
  /\ UNCHANGED <<tables, member, mode, phone, tried, clock, changes>>

FanOut(c) == \E u \in Member : SendPushOnly(c, u) \/ MarkNewsDelivered(c, u)

PublishStep(c) ==
  \/ PublishStory(c) \/ ListRecipients(c) \/ Claim(c)
  \/ SetNewsNotifiedCount(c) \/ RecordRecipients(c)

Next ==
  \/ \E n \in Story : Create(n) \/ Update(n) \/ Delete(n) \/ Unpublish(n)
  \/ \E c \in Call : (\E n \in Story : PublishRead(c, n)) \/ PublishStep(c) \/ FanOut(c)
  \/ \E u \in Reader :
       \/ \E n \in Story : GetPublishedNews(u, n) \/ MarkNewsReadToEnd(u, n)
                             \/ MarkNewsUpgradeClicked(u, n)
       \/ IsProUser(u) \/ RecordNewsView(u) \/ MarkNewsSeen(u)
  \/ \E u \in Member : SubscriptionChanges(u) \/ StatusChanges(u)
  \/ SetMode
  \/ Crash

Spec == Init /\ [][Next]_vars

\* A handler or a goroutine that is not killed runs to its end.
Fairness == \A c \in Call : WF_vars(PublishStep(c)) /\ WF_vars(FanOut(c))

FairSpec == Spec /\ Fairness

-----------------------------------------------------------------------------
(* What the analytics and the members are shown.                           *)

Count(S) == Cardinality(S)

NewsDeliveryStats(n) ==
  LET rows == {k \in DOMAIN delivery : k[1] = n}
  IN  [recipients |-> Count(rows),
       recipients_pro |-> Count({k \in rows : delivery[k].was_pro}),
       delivered |-> Count({k \in rows : delivery[k].delivered}),
       delivered_pro |-> Count({k \in rows : delivery[k].delivered /\ delivery[k].was_pro})]

Viewers(n) == {u \in Member : view[n, u] # None}
With(n, flag) == {u \in Viewers(n) : flag \in view[n, u]}

NewsViewStats(n) ==
  LET pro == With(n, "read_as_pro") \ With(n, "gated")
  IN  [viewers |-> Count(Viewers(n)),
       viewers_pro |-> Count(pro),
       viewers_free |-> Count(With(n, "gated")),
       push_opens |-> Count(With(n, "from_push")),
       push_opens_pro |-> Count(With(n, "from_push") \cap pro),
       push_opens_free |-> Count(With(n, "from_push") \cap With(n, "gated")),
       read_to_end |-> Count(With(n, "read_to_end")),
       upgrade_clicks |-> Count(With(n, "upgrade_clicked")),
       converted |-> Count(With(n, "gated") \cap With(n, "read_as_pro"))]

\* The admin's list of viewers under each filter.
ListNewsViewers(n, filter) ==
  CASE filter = "pro"     -> With(n, "read_as_pro") \ With(n, "gated")
    [] filter = "free"    -> With(n, "gated")
    [] filter = "push"    -> With(n, "from_push")
    [] filter = "upgrade" -> With(n, "upgrade_clicked")
    [] OTHER              -> Viewers(n)

\* Who was free is told by subtraction.
Analytics(n) ==
  LET d == NewsDeliveryStats(n)
  IN  [delivery |-> d, views |-> NewsViewStats(n),
       recipients_free |-> d.recipients - d.recipients_pro,
       delivered_free |-> d.delivered - d.delivered_pro]

ViewerPage(n, filter) ==
  [rows |-> ListNewsViewers(n, filter), total |-> Count(ListNewsViewers(n, filter))]

\* is_new of ListPublishedNews.
IsNew(u, n) == IsPublished(n) /\ (seen[u] = None \/ story[n].published > seen[u])

CountPublishedNews == Count({n \in Story : IsPublished(n)})

List(u) ==
  [rows |-> {[id |-> n, is_new |-> IsNew(u, n)] : n \in {m \in Story : IsPublished(m)}},
   total |-> CountPublishedNews]

CountUnreadNews(u) ==
  Count({n \in Story : IsPublished(n) /\ (seen[u] # None => seen[u] < story[n].published)})

\* The badge of the news tab, for Pro members.
Status(u) == [pro |-> member[u].pro, unread |-> IF member[u].pro THEN CountUnreadNews(u) ELSE 0]

AdminListNews(status) == {n \in Story : Exists(n) /\ (status # "" => story[n].status = status)}

AdminList(status) ==
  [rows |-> {[id |-> n, viewers |-> Count(Viewers(n))] : n \in AdminListNews(status)},
   total |-> Count(AdminListNews(status))]

-----------------------------------------------------------------------------
(* Properties.                                                             *)

\* A member's phone gets the push of a story at most once, however often
\* and from wherever it is published, hidden and published again; and every
\* row keeps its type.
OnePushPerMember == TypeOK /\ \A k \in Story \X Member : phone[k] <= 1

\* While nothing has failed, the analytics of a story whose fan-out is over
\* are exact: as many recipients as the count on the story, delivered is set for
\* precisely the members whose phones accepted the push, and the Pro and the
\* free recipients who got it are no more than there are.
DeliveriesAreExact ==
  \A n \in Story :
    ( /\ Exists(n) /\ faults = 0
      /\ \A c \in Call : call[c].story # n /\ fan[c].story # n )
    => LET a == Analytics(n)
       IN  /\ a.delivery.recipients = story[n].count
           /\ a.delivery.delivered_pro \in 0 .. a.delivery.recipients_pro
           /\ a.delivered_free \in 0 .. a.recipients_free
           /\ \A u \in Member :
                phone[n, u] = 1 <=> <<n, u>> \in DOMAIN delivery /\ delivery[n, u].delivered

\* The pages and tiles add up.  Pro and free viewers make all viewers, of the
\* push opens too, converts are among the free, readers to the end have read as
\* Pro, upgrade clicks come from the prompt; each filter of the viewer list has
\* as many rows as its tile says.  The badge counts the stories marked new in the
\* member's list, which lists what the administrator's published tab does; every
\* story is in one tab.  Every row keeps its type.
ViewersAddUp ==
  /\ TypeOK
  /\ \A n \in Story :
       LET s == Analytics(n).views
       IN  /\ s.viewers = s.viewers_pro + s.viewers_free
           /\ s.push_opens = s.push_opens_pro + s.push_opens_free
           /\ s.read_to_end <= s.viewers_pro + s.converted
           /\ s.upgrade_clicks <= s.viewers_free /\ s.converted <= s.viewers_free
           /\ ViewerPage(n, "pro").rows \cap ViewerPage(n, "upgrade").rows = {}
           /\ ViewerPage(n, "pro").total = s.viewers_pro
           /\ ViewerPage(n, "free").total = s.viewers_free
           /\ ViewerPage(n, "push").total = s.push_opens
           /\ ViewerPage(n, "").total = s.viewers
  /\ \A u \in Member :
       LET page == List(u)
       IN  /\ Count(page.rows) = page.total
           /\ Status(u).pro => Status(u).unread = Count({r \in page.rows : r.is_new})
           /\ {r.id : r \in page.rows} = {r.id : r \in AdminList("published").rows}
  /\ AdminList("draft").total + AdminList("published").total = AdminList("").total
  /\ \A r \in AdminList("").rows : r.viewers = Analytics(r.id).views.viewers

\* A story a member has once had in the list without the "new" mark never
\* gets the mark again, whatever is hidden, edited or republished.
NeverNewAgain ==
  [][\A u \in Member, n \in Story :
       (Exists(n) /\ story[n].published # None /\ seen[u] # None
          /\ story[n].published <= seen[u]) => ~IsNew(u, n)']_vars

\* Unless something failed, a story that gave up its notification did so
\* for somebody, and everybody it was given up for is pushed to or turned
\* down by the gate: a recipient is never just forgotten.
RecipientsAreServed ==
  \A n \in Story :
    /\ Exists(n) /\ story[n].notified
         ~> (\E u \in Member : <<n, u>> \in tried) \/ faults > 0
    /\ \A u \in Member :
         <<n, u>> \in DOMAIN delivery ~> <<n, u>> \in tried \/ faults > 0

-----------------------------------------------------------------------------
(* The inductive invariant.                                                *)

\* The notification of a story is given up once and for all.
Spent(n) == n \in deleted \/ (Exists(n) /\ story[n].notified)

\* The call has claimed the notification and has yet to start its goroutine.
Claimed(c, n) == call[c].step \in {"count", "record"} /\ call[c].story = n

Holds(c, n) == Claimed(c, n) \/ fan[c].story = n

NoPush(n) == \A u \in Member : phone[n, u] = 0 /\ <<n, u>> \notin DOMAIN delivery

DeliveriesOf(n) == {k \in DOMAIN delivery : k[1] = n}

\* Firebase accepted the push and the goroutine has yet to mark the row.
Unmarked(n, u) == \E c \in Call : fan[c].story = n /\ u \in fan[c].sent

StoriesConsistent ==
  \A n \in Story :
    /\ n \in deleted => ~Exists(n)
    /\ IsPublished(n) => story[n].published # None
    /\ ~Spent(n) => NoPush(n)
    /\ Exists(n) /\ ~Spent(n) => story[n].count = 0
    /\ \A u \in Member : <<n, u>> \in DOMAIN delivery => Exists(n)

CallOK(c) ==
  /\ call[c].step = "idle" <=> call[c].story = None
  /\ call[c].step # "idle" => fan[c] = IdleFan
  /\ fan[c].story = None => fan[c] = IdleFan
  /\ \A r, s \in call[c].to : r.id = s.id => r = s

CallsConsistent == \A c \in Call : CallOK(c)

\* A spent notification is in the hands of at most one call.
OneHolder ==
  \A n \in Story, c \in Call : Holds(c, n) =>
    /\ Spent(n)
    /\ \A d \in Call : Holds(d, n) => d = c

PushOK(c, n) ==
  /\ Claimed(c, n) => NoPush(n)
  /\ fan[c].story = n => /\ \A u \in fan[c].todo : phone[n, u] = 0
                         /\ \A u \in fan[c].sent : phone[n, u] = 1

PushesConsistent ==
  /\ \A k \in Story \X Member : phone[k] <= 1
  /\ \A n \in Story, c \in Call : PushOK(c, n)

\* The count of a story is exact once its recipients are recorded.
CountOK(n) ==
  /\ \A c \in Call : Claimed(c, n) /\ call[c].step = "record"
                       => story[n].count = Cardinality(call[c].to)
  /\ (\A c \in Call : ~Claimed(c, n)) => story[n].count = Cardinality(DeliveriesOf(n))

\* Its rows are those of the members its goroutine pushes to.
RowsOK(n) ==
  /\ \A c \in Call : fan[c].story = n =>
       \A u \in fan[c].todo \cup fan[c].sent : <<n, u>> \in DOMAIN delivery
  /\ \A u \in Member :
       phone[n, u] = 1 <=> \/ <<n, u>> \in DOMAIN delivery /\ delivery[n, u].delivered
                           \/ Unmarked(n, u)

CountsConsistent == faults = 0 => \A n \in Story : Exists(n) => CountOK(n)
RowsConsistent   == faults = 0 => \A n \in Story : Exists(n) => RowsOK(n)

\* A visit is a Pro visit or a gated one, and the two later flags follow from it.
ViewsConsistent ==
  \A n \in Story, u \in Member : view[n, u] # None =>
    /\ view[n, u] \cap {"read_as_pro", "gated"} # {}
    /\ "read_to_end" \in view[n, u] => "read_as_pro" \in view[n, u]
    /\ "upgrade_clicked" \in view[n, u] => "gated" \in view[n, u]

SeenConsistent == \A u \in Member : seen[u] # None => seen[u] <= clock

IInv ==
  /\ TypeOK
  /\ StoriesConsistent /\ CallsConsistent /\ OneHolder
  /\ PushesConsistent /\ CountsConsistent /\ RowsConsistent
  /\ ViewsConsistent /\ SeenConsistent
=============================================================================
