-------------------------------- MODULE Notices --------------------------------
(***************************************************************************)
(* Who is told about a post, and how often.  A new post is announced by a  *)
(* goroutine of the request that created it, and by the cron if that one   *)
(* did not finish; the cron also warns an owner whose time to choose runs  *)
(* out and calls members to a post that is about to end.  Each notice is   *)
(* sent member by member and the post is marked afterwards, so the two may *)
(* meet on one post and a crash may fall in between.  Demo posts are       *)
(* announced too, under a daily allowance per member.                      *)
(***************************************************************************)
EXTENDS Listings

CONSTANTS
  SeedUser,        \* the account that the demo posts belong to
  Start,           \* the situations the program starts in
  Duration,        \* how long a post runs
  SelectionWindow, \* how long its owner may choose afterwards
  EndingWindow,    \* a post is called for while this little is left of it (30 minutes)
  EndingGap,       \* and again when the last call is older than this (20 minutes)
  SeedGaps,        \* time between two demo posts
  DayLength, FromHour, UntilHour, DailyMax, MinGap, MaxGap, \* seedNotify...
  Picks,           \* bound: the interests a member may have
  Moving,          \* bound: the members who come and go
  Still,           \* bound: the posts nobody moderates or decides
  MaxTime, MaxRuns, MaxFaults \* bounds

Status == {"none", "pending_approval", "active", "suspended", "rejected",
           "pending_selection", "winner_selected", "expired"}

Kind == {"new", "choose", "ending"}
Worker == Post \cup {"cron"}
Time == 0 .. MaxTime

\* runs counts the deadlines the post was given.
Row == [status : Status, end : 0 .. MaxTime + Duration, born : Nat, notified : BOOLEAN,
        warned : BOOLEAN, motivated : Time \cup {None}, runs : 0 .. MaxRuns]

Broadcast == [post : Post, kind : Kind, seed : BOOLEAN,
              left : (SUBSET Member) \cup {None}]

QuotaRow == [day : Nat, sent : 1 .. DailyMax, last : Time]

ASSUME NoticesAssumption ==
  /\ SeedUser \in Member /\ Still \subseteq Post /\ Moving \subseteq Member
  /\ \A m \in Member : Profile[m].interests \in Picks
  /\ \A s \in Start : /\ s.post \in [Post -> Status] /\ s.now \in 0 .. MaxTime
                      /\ s.faults \in 0 .. MaxFaults /\ s.banned \subseteq Member
  /\ {Duration, SelectionWindow, EndingWindow, DayLength, DailyMax, MaxRuns} \subseteq Nat \ {0}
  /\ {EndingGap, FromHour, UntilHour, MinGap, MaxGap} \subseteq Nat
  /\ SeedGaps \subseteq Nat \ {0}
  /\ {MaxTime, MaxFaults} \subseteq Nat
  /\ "cron" \notin Post /\ None \notin Time \cup Broadcast \cup QuotaRow
  /\ \A S \in (SUBSET Post) \cup SUBSET Member : None # S

\* The night between two days of demo notices is longer than the gap between
\* two of them (11 hours, 2 hours).
ASSUME NightAssumption == UntilHour <= DayLength /\ MinGap <= FromHour + 1 + DayLength - UntilHour

VARIABLES
  quota,  \* seed_notification_quota
  seed,   \* SeedService: when the next demo post is due, and its kind
  cron,   \* the cron's pass, the rows it read for it, and seedUserID
  work,   \* the broadcast under way in each goroutine and in the cron
  told,   \* history: how often each member was told what about each post
  demo,   \* history: when each member was told of a demo post, of those not mistaken
  mistaken, \* history: the demo posts a failed lookup had taken for a member's
  missed, \* history: who missed the announcement of a post: a call failed, or
          \* they came into its audience afterwards
  faults  \* history: failed calls and restarts

vars == <<post, user, now, quota, seed, cron, work, told, demo, mistaken, missed, faults>>

\* One round of the cron: the demo poster, then these, each over the sell posts
\* and over the buy posts.
Passes == <<"new", "new", "choose", "choose", "ending", "ending">>

Idle == [pass |-> 0, batch |-> None, knows |-> FALSE]

TypeOK ==
  /\ post \in [Post -> Row] /\ now \in Time
  /\ user \in [Member -> [status : {"active", "suspended", "banned"}, interests : Picks]]
  /\ quota \in [Member -> QuotaRow \cup {None}]
  /\ seed \in [next : Nat, isBuy : BOOLEAN]
  /\ cron \in [pass : 0 .. Len(Passes), batch : (SUBSET Post) \cup {None}, knows : BOOLEAN]
  /\ work \in [Worker -> Broadcast \cup {None}]
  /\ told \in [Post \X Member \X Kind -> Nat] /\ demo \in [Member -> Seq(Time)]
  /\ mistaken \subseteq Post /\ missed \subseteq Post \X Member /\ faults \in 0 .. MaxFaults

Fault == faults < MaxFaults /\ faults' = faults + 1

-----------------------------------------------------------------------------
(* Posts come, are moderated, end and are decided.                         *)

Reach(p, to) == post' = [post EXCEPT ![p].status = to]

OpenFor(p, runs) ==
  post' = [post EXCEPT ![p].status = "active", ![p].end = now + Duration, ![p].runs = runs]

Written == Cardinality({p \in Post : Exists(p)})

\* INSERT of a post, live at once or waiting for an admin.
InsertPost(p, to) ==
  post' = [post EXCEPT ![p] = [@ EXCEPT !.status = to, !.end = now + Duration,
                                        !.born = Written + 1, !.runs = 1]]

Unsent == <<quota, seed, cron, work, told, demo, mistaken, missed, faults>>

Moderate(p) ==
  /\ p \notin Still
  /\ \/ post[p].status \in {"pending_approval", "suspended"} /\ post[p].runs < MaxRuns
        /\ OpenFor(p, post[p].runs + 1)
     \/ post[p].status = "pending_approval" /\ Reach(p, "rejected")
     \/ post[p].status = "active" /\ Reach(p, "suspended")
  /\ UNCHANGED <<user, now, Unsent>>

\* The cron's processExpiredAuctions and processExpiredSelections; a winner is
\* chosen, and dropped again when the order is not completed.
Decide(p) ==
  /\ p \notin Still
  /\ \/ post[p].status = "active" /\ post[p].end <= now
        /\ \E to \in {"pending_selection", "expired"} : Reach(p, to)
     \/ post[p].status = "pending_selection" /\ Reach(p, "winner_selected")
     \/ post[p].status = "pending_selection" /\ post[p].end + SelectionWindow <= now
        /\ Reach(p, "expired")
     \/ post[p].status = "winner_selected" /\ Reach(p, "pending_selection")
  /\ UNCHANGED <<user, now, Unsent>>

\* The post has been announced, or those to be told of it have been read.
Announced(p) ==
  \/ post[p].notified
  \/ \E w \in Worker : /\ work[w] # None /\ work[w].post = p
                        /\ work[w].kind = "new" /\ work[w].left # None

\* A member's row becomes another; an announcement already made is not repeated.
Becomes(m, row) ==
  /\ user' = [user EXCEPT ![m] = row]
  /\ missed' = missed \cup
       {<<p, m>> : p \in {q \in Post : Announced(q) /\ m \notin Audience(q) /\ m \in Audience(q)'}}
  /\ UNCHANGED <<post, now, quota, seed, cron, work, told, demo, mistaken, faults>>

SuspendUser(m) ==
  user[m].status = "active" /\ Becomes(m, [user[m] EXCEPT !.status = "suspended"])

\* Unsuspended by an administrator or by the member's next request, or active
\* for the first time.
UnsuspendUser(m) ==
  user[m].status = "suspended" /\ Becomes(m, [user[m] EXCEPT !.status = "active"])

\* The account status check lets only active members through.
ReplaceUserInterests(m) ==
  /\ user[m].status = "active"
  /\ \E new \in Picks : Becomes(m, [user[m] EXCEPT !.interests = new])

Tick ==
  /\ now < MaxTime /\ now' = now + 1
  /\ UNCHANGED <<post, user, Unsent>>

-----------------------------------------------------------------------------
(* One broadcast: read the audience, tell each of them, mark the post.     *)

Retailers == {m \in Member : Profile[m].role = "retailer"}

\* A call about a post failed for these members.
Miss(p, members, kind) ==
  missed' = IF kind = "new" THEN missed \cup ({p} \X members) ELSE missed

\* A request's goroutine starts with the response.
CreatePost(p) ==
  /\ post[p].status = "none" /\ Owner[p] # SeedUser /\ user[Owner[p]].status = "active"
  /\ \E to \in {"active", "pending_approval"} : InsertPost(p, to)
  /\ work' = [work EXCEPT ![p] = [post |-> p, kind |-> "new", seed |-> FALSE, left |-> None]]
  /\ UNCHANGED <<user, now, quota, seed, cron, told, demo, mistaken, missed, faults>>

Begin(w, b) == work' = [work EXCEPT ![w] = b]

\* Variant: the post is marked before its audience is told.
ReadAudienceAndMark(p) ==
  /\ work[p] # None /\ work[p].left = None
  /\ \/ Begin(p, [work[p] EXCEPT !.left = Audience(p)])
        /\ post' = [post EXCEPT ![p].notified = TRUE] /\ UNCHANGED faults
     \/ Fault /\ Begin(p, None) /\ UNCHANGED post
  /\ UNCHANGED <<user, now, quota, seed, cron, told, demo, mistaken, missed>>

\* GetActiveUsersByInterest in the goroutine; if it fails the goroutine gives
\* up and the post stays unmarked.
ReadAudience(p) ==
  /\ work[p] # None /\ work[p].left = None
  /\ \/ Begin(p, [work[p] EXCEPT !.left = Audience(p)]) /\ UNCHANGED faults
     \/ Fault /\ Begin(p, None)
  /\ UNCHANGED <<post, user, now, quota, seed, cron, told, demo, mistaken, missed>>

Tell(p, m, kind) == told' = [told EXCEPT ![<<p, m, kind>>] = @ + 1]

\* SendToUser: nothing for a suspended or banned member, and a failed insert is
\* dropped.
SendToUser(p, m, kind) ==
  \/ user[m].status # "active" /\ UNCHANGED <<told, missed, faults>>
  \/ user[m].status = "active" /\ Tell(p, m, kind) /\ UNCHANGED <<missed, faults>>
  \/ Fault /\ Miss(p, {m}, kind) /\ UNCHANGED told

Today == now \div DayLength
Hour  == now % DayLength

\* Variant: the gap is not asked for.
SlotIsLeft(row, gap) == row # None => (row.day = Today => row.sent < DailyMax)

\* The WHERE of ClaimSeedNotification.
SlotIsFree(row, gap) ==
  row # None => (row.day = Today => row.sent < DailyMax /\ row.last <= now - gap)

ClaimSeedNotification(m, gap) ==
  LET row == quota[m]
      free == SlotIsFree(row, gap)
  IN  quota' = IF free
               THEN [quota EXCEPT ![m] = [day  |-> Today,
                       sent |-> IF row # None /\ row.day = Today THEN row.sent + 1 ELSE 1,
                       last |-> now]]
               ELSE quota

\* allowSeedNotification: in the daytime, and with a slot; a failed claim
\* refuses.
AllowSeedNotification(m, gap) ==
  Hour \in FromHour .. UntilHour - 1 /\ SlotIsFree(quota[m], gap)

SendDemo(p, m, kind) ==
  \/ /\ \E gap \in MinGap .. MaxGap : ~AllowSeedNotification(m, gap)
     /\ UNCHANGED <<quota, told, missed, faults>>
  \/ /\ \E gap \in MinGap .. MaxGap :
          AllowSeedNotification(m, gap) /\ ClaimSeedNotification(m, gap)
     /\ SendToUser(p, m, kind)
  \/ Fault /\ Miss(p, {m}, kind) /\ UNCHANGED <<quota, told>>

Send(w) ==
  /\ work[w] # None /\ work[w].left # None
  /\ LET p == work[w].post  kind == work[w].kind
     IN  \E m \in work[w].left :
           /\ Begin(w, [work[w] EXCEPT !.left = @ \ {m}])
           /\ IF work[w].seed THEN SendDemo(p, m, kind)
              ELSE SendToUser(p, m, kind) /\ UNCHANGED quota
           /\ demo' = IF /\ Owner[p] = SeedUser /\ p \notin mistaken
                         /\ kind = "new" /\ told' # told
                      THEN [demo EXCEPT ![m] = Append(@, now)] ELSE demo
  /\ UNCHANGED <<post, user, now, seed, cron, mistaken>>

\* MarkSellAuctionNotified, MarkSellAuctionSelectionWarned,
\* MarkSellAuctionMotivated and their buy counterparts.
Marked(p, kind) ==
  [post EXCEPT ![p] = CASE kind = "new"    -> [@ EXCEPT !.notified = TRUE]
                        [] kind = "choose" -> [@ EXCEPT !.warned = TRUE]
                        [] kind = "ending" -> [@ EXCEPT !.motivated = now]]

\* Marked when every member of the audience was told; an error is only logged.
Mark(w) ==
  /\ work[w] # None /\ work[w].left = {}
  /\ \/ post' = Marked(work[w].post, work[w].kind) /\ UNCHANGED faults
     \/ Fault /\ UNCHANGED post
  /\ Begin(w, None)
  /\ UNCHANGED <<user, now, quota, seed, cron, told, demo, mistaken, missed>>

-----------------------------------------------------------------------------
(* The cron.                                                               *)

\* SeedAuctions: when a demo post is due, the next one is scheduled first.
SeedAuctions ==
  LET next(p) == /\ p \in (IF seed.isBuy THEN BuyPost ELSE SellPost)
                 /\ post[p].status = "none" /\ Owner[p] = SeedUser
  IN  /\ cron.pass = 0
      /\ cron' = [cron EXCEPT !.pass = 1]
      /\ \/ /\ now < seed.next \/ ~\E p \in Post : next(p)
            /\ UNCHANGED <<post, seed, faults>>
         \/ /\ now >= seed.next
            /\ \E gap \in SeedGaps : seed' = [next |-> now + gap, isBuy |-> ~seed.isBuy]
            /\ \/ \E p \in Post : next(p) /\ InsertPost(p, "active") /\ UNCHANGED faults
               \/ Fault /\ UNCHANGED post
      /\ UNCHANGED <<user, now, quota, work, told, demo, mistaken, missed>>

GetUnnotifiedActiveSellAuctions ==
  { p \in SellPost : post[p].status = "active" /\ ~post[p].notified }

GetUnnotifiedActiveBuyRequests ==
  { p \in BuyPost : post[p].status = "active" /\ ~post[p].notified }

\* The last hour before the selection deadline.
LastHour(p) == now = post[p].end + SelectionWindow - 1

GetSoonExpiringSelectionSellAuctions ==
  { p \in SellPost : post[p].status = "pending_selection" /\ ~post[p].warned /\ LastHour(p) }

GetSoonExpiringSelectionBuyRequests ==
  { p \in BuyPost : post[p].status = "pending_selection" /\ ~post[p].warned /\ LastHour(p) }

NotCalledFor(p) == post[p].motivated # None => post[p].motivated < now - EndingGap

GetMotivatableActiveSellAuctions ==
  { p \in SellPost : Live(p) /\ post[p].end <= now + EndingWindow /\ NotCalledFor(p) }

GetMotivatableActiveBuyRequests ==
  { p \in BuyPost : Live(p) /\ post[p].end <= now + EndingWindow /\ NotCalledFor(p) }

Due(pass) ==
  CASE pass = 1 -> GetUnnotifiedActiveSellAuctions
    [] pass = 2 -> GetUnnotifiedActiveBuyRequests
    [] pass = 3 -> GetSoonExpiringSelectionSellAuctions
    [] pass = 4 -> GetSoonExpiringSelectionBuyRequests
    [] pass = 5 -> GetMotivatableActiveSellAuctions
    [] pass = 6 -> GetMotivatableActiveBuyRequests

NextPass(pass) == IF pass = Len(Passes) THEN 0 ELSE pass + 1

\* Each pass reads its posts once.  When the new sell posts cannot be read the
\* buy posts wait for the next round too; the other passes do not depend on
\* each other.
ReadBatch ==
  LET due  == Due(cron.pass)
      past == IF cron.pass = 1 THEN 2 ELSE cron.pass
  IN  /\ cron.pass # 0 /\ cron.batch = None
      /\ \/ /\ cron' = IF due = {} THEN [cron EXCEPT !.pass = NextPass(@)]
                       ELSE [cron EXCEPT !.batch = due]
            /\ UNCHANGED faults
         \/ Fault /\ cron' = [cron EXCEPT !.pass = NextPass(past)]
      /\ UNCHANGED <<post, user, now, quota, seed, work, told, demo, mistaken, missed>>

Take(p, to) ==
  /\ cron.batch # None /\ p \in cron.batch /\ work["cron"] = None
  /\ cron' = [cron EXCEPT !.batch = @ \ {p}, !.knows = to]

\* The lookups before a row is announced.  When the demo account cannot be
\* found, and was not found before, its post is taken for a member's; when the
\* owner's role cannot, retailers are left out; when the audience cannot, the
\* row is skipped.
TakeRow(p, kind, audience) ==
  LET isSeed == Owner[p] = SeedUser
      begin(s, to) == Begin("cron", [post |-> p, kind |-> kind, seed |-> s, left |-> to])
  IN  /\ \/ /\ Take(p, TRUE) /\ begin(isSeed, audience)
            /\ UNCHANGED <<mistaken, missed, faults>>
         \/ /\ isSeed /\ ~cron.knows /\ Fault /\ mistaken' = mistaken \cup {p}
            /\ Take(p, FALSE) /\ begin(FALSE, Audience(p)) /\ UNCHANGED missed
         \/ /\ p \in SellPost /\ Fault
            /\ Take(p, TRUE) /\ begin(isSeed, audience \ Retailers)
            /\ Miss(p, Retailers, kind) /\ UNCHANGED mistaken
         \/ Fault /\ Take(p, TRUE) /\ UNCHANGED <<work, mistaken, missed>>
      /\ UNCHANGED <<post, user, now, quota, seed, told, demo>>

AnnounceNew(p) == Passes[cron.pass] = "new" /\ TakeRow(p, "new", Audience(p))

\* Demo posts are never called for, only marked.
CallAgain(p) ==
  /\ Passes[cron.pass] = "ending"
  /\ TakeRow(p, "ending", IF Owner[p] = SeedUser THEN {} ELSE Audience(p))

WarnOwner(p) ==
  /\ Passes[cron.pass] = "choose" /\ Take(p, cron.knows)
  /\ Begin("cron", [post |-> p, kind |-> "choose", seed |-> FALSE, left |-> {Owner[p]}])
  /\ UNCHANGED <<post, user, now, quota, seed, told, demo, mistaken, missed, faults>>

EndPass ==
  /\ cron.batch = {} /\ work["cron"] = None
  /\ cron' = [cron EXCEPT !.pass = NextPass(@), !.batch = None]
  /\ UNCHANGED <<post, user, now, quota, seed, work, told, demo, mistaken, missed, faults>>

NextRow == cron.pass # 0 /\ \E p \in Post : AnnounceNew(p) \/ WarnOwner(p) \/ CallAgain(p)

CronStep == SeedAuctions \/ ReadBatch \/ NextRow \/ EndPass \/ Send("cron") \/ Mark("cron")

\* The goroutines, the cron's position and the demo poster's schedule are in
\* memory only.
Crash ==
  /\ Fault
  /\ work' = [w \in Worker |-> None] /\ cron' = Idle
  /\ seed' = [next |-> 0, isBuy |-> FALSE]
  /\ UNCHANGED <<post, user, now, quota, told, demo, mistaken, missed>>

-----------------------------------------------------------------------------
Init ==
  /\ \E s \in Start :
       LET at(p)   == s.post[p]
           written == SetToSeq({p \in Post : at(p) # "none"})
           born(p) == IF at(p) = "none" THEN 0 ELSE CHOOSE k \in DOMAIN written : written[k] = p
       IN  /\ post = [p \in Post |->
                [status |-> at(p), end |-> IF at(p) = "active" THEN s.now + Duration ELSE s.now,
                 born |-> born(p), notified |-> at(p) \notin {"none", "pending_approval"},
                 warned |-> FALSE, motivated |-> None, runs |-> IF at(p) = "none" THEN 0 ELSE 1]]
           /\ user = [m \in Member |->
                [status |-> IF m \in s.banned THEN "banned" ELSE "active",
                 interests |-> Profile[m].interests]]
           /\ now = s.now /\ faults = s.faults
           /\ told = [x \in Post \X Member \X Kind |->
                        IF /\ at(x[1]) \in {"active", "suspended"} /\ x[3] = "new"
                           /\ Owner[x[1]] # SeedUser
                        THEN 1 ELSE 0]
  /\ quota = [m \in Member |-> None] /\ seed = [next |-> 0, isBuy |-> FALSE]
  /\ cron = Idle /\ work = [w \in Worker |-> None]
  /\ demo = [m \in Member |-> <<>>] /\ mistaken = {} /\ missed = {}

Next ==
  \/ \E p \in Post : CreatePost(p) \/ ReadAudience(p) \/ Send(p) \/ Mark(p)
                     \/ Moderate(p) \/ Decide(p)
  \/ \E m \in Moving : SuspendUser(m) \/ UnsuspendUser(m) \/ ReplaceUserInterests(m)
  \/ CronStep \/ Crash \/ Tick

Spec == Init /\ [][Next]_vars

\* The ticker calls the cron again and again; nothing promises that a
\* goroutine finishes.
FairSpec == Spec /\ WF_vars(CronStep)

-----------------------------------------------------------------------------
(* Properties.                                                             *)

Sold == {m \in Member : Profile[m].supplies}

\* For every visitor, and for one whose profile could not be read, turning the
\* pages of a feed, a search, an owner's list or a moderation queue shows every
\* row once and no more than the total says, though each total is counted by a
\* query of its own; and whoever would be told about a post finds it in the
\* feed.  One exception: a retailer is told of the sell posts of a wholesaler
\* who does not sell to retail, and cannot see them (users.sql asks for the
\* role only).
FeedsAgree ==
  /\ \A u \in Member \cup {None} : \A v \in {viewer(u), Unfiltered(u)} :
       LET mine == IF u = None THEN {} ELSE user[u].interests
       IN  /\ Exact(ListActiveAuctions(v, mine)) /\ Exact(ListRequests(v, mine))
           /\ \A found \in Search : /\ Exact(SearchAuctions(v, found, mine))
                                    /\ Exact(SearchRequests(v, found, mine))
  /\ \A u \in Member : Exact(ListMySellAuctions(u)) /\ Exact(ListMyBuyRequests(u))
  /\ ExactQueue(ListPending) /\ ExactQueue(ListPublished)
  /\ \A p \in Post : Live(p) =>
       \A m \in Audience(p) :
         \/ p \in ToSet(ListActiveAuctions(viewer(m), {}).rows)
         \/ p \in ToSet(ListRequests(viewer(m), {}).rows)
         \/ m \in Retailers /\ Owner[p] \notin Sold

\* A goroutine and the cron that meet on one post, failed marks and restarts
\* tell a member of it at most twice and once more per fault; an owner is
\* warned once, and a post is called for as often as the gap between two calls
\* fits into its last stretch, once more per fault.  A demo post is never called
\* for, and a member hears of demo posts by day only, at most DailyMax times a
\* day and MinGap apart, whatever is restarted in between.  The exception are
\* demo posts that a failed lookup of the demo account had taken for a
\* member's: each of them costs a failed call.
NoticesAreBounded ==
  /\ TypeOK
  /\ \A p \in Post, m \in Member :
       LET times(kind) == told[<<p, m, kind>>]
       IN  /\ times("new") <= (IF Owner[p] = SeedUser THEN 1 ELSE 2) + faults
           /\ times("choose") <= 1 + faults
           /\ times("ending") <= post[p].runs * (1 + (EndingWindow - 1) \div (EndingGap + 1)) + faults
           /\ Owner[p] = SeedUser /\ p \notin mistaken => times("ending") = 0
  /\ Cardinality(mistaken) <= faults
  /\ \A m \in Member : \A i, j \in DOMAIN demo[m] :
       /\ demo[m][i] % DayLength \in FromHour .. UntilHour - 1
       /\ i < j => demo[m][j] - demo[m][i] >= MinGap
       /\ j - i >= DailyMax => demo[m][j] \div DayLength > demo[m][i] \div DayLength

\* Whoever a live post is meant for hears of it: from the goroutine, or from the
\* cron when that one was cut short.  Left out are posts that left the market
\* first, members the announcement failed for, and members who came into the
\* audience when it had been read, by the end of a suspension, an activation or
\* a new interest: the post is marked for good, and nobody tells them.
PostsAreAnnounced ==
  []<>(\A p \in Post, m \in Member :
         Owner[p] # SeedUser /\ post[p].status = "active" /\ m \in Audience(p)
           => told[<<p, m, "new">>] > 0 \/ <<p, m>> \in missed)

-----------------------------------------------------------------------------
(* What the source says and the code does not keep.  No run checks these;  *)
(* the README tells how TLC refutes them.                                  *)

\* "Demo posts are announced only within the limits of allowSeedNotification,
\* and never get "ending soon" reminders" (cron_service.go:460-462): a lookup of
\* the demo account that fails after a restart breaks both.
DemoPostsKeepQuiet ==
  \A p \in Post, m \in Member : Owner[p] = SeedUser =>
    told[<<p, m, "ending">>] = 0 /\ (told[<<p, m, "new">>] > 0 => quota[m] # None)

-----------------------------------------------------------------------------
(* What makes the bounds inductive: which calls are still to come.         *)

Sending(p, kind) == work["cron"] # None /\ work["cron"].post = p /\ work["cron"].kind = kind

Waiting(p, kind) == cron.batch # None /\ p \in cron.batch /\ Passes[cron.pass] = kind

\* The cron is about to tell m, or in the middle of it.
Underway(p, m, kind) ==
  \/ Sending(p, kind) /\ m \in work["cron"].left
  \/ Waiting(p, kind)

Flagged(p, kind) == IF kind = "new" THEN post[p].notified ELSE post[p].warned

\* A post without its mark will be read again.
Ahead(p, m, kind) ==
  \/ Underway(p, m, kind)
  \/ ~Sending(p, kind) /\ ~Flagged(p, kind)

\* The goroutine of the request has yet to tell m.
FromGoroutine(p, m) ==
  \/ ~Exists(p) /\ Owner[p] # SeedUser
  \/ work[p] # None /\ (work[p].left = None \/ m \in work[p].left)

One(b) == IF b THEN 1 ELSE 0

NewBounded ==
  \A p \in Post, m \in Member :
    told[<<p, m, "new">>] + One(Ahead(p, m, "new")) + One(FromGoroutine(p, m))
      <= (IF Owner[p] = SeedUser THEN 1 ELSE 2) + faults

ChooseBounded ==
  \A p \in Post, m \in Member :
    told[<<p, m, "choose">>] + One(Ahead(p, m, "choose")) <= 1 + faults

\* The calls that fit between t and the end of a post.
Room(t, end) == IF t < end THEN 1 + (end - 1 - t) \div (EndingGap + 1) ELSE 0

MaxCalls == 1 + (EndingWindow - 1) \div (EndingGap + 1)

\* The earliest the cron can call again, once the call under way is marked.
NextCall(p) ==
  IF Sending(p, "ending") \/ Waiting(p, "ending") THEN now + EndingGap + 1
  ELSE IF post[p].motivated # None /\ post[p].motivated + EndingGap >= now
  THEN post[p].motivated + EndingGap + 1
  ELSE now

Later(t, end) == Room(IF t < end - EndingWindow THEN end - EndingWindow ELSE t, end)

EndingBounded ==
  \A p \in Post, m \in Member : Exists(p) =>
    told[<<p, m, "ending">>] + One(Underway(p, m, "ending")) + Later(NextCall(p), post[p].end)
      <= post[p].runs * MaxCalls + faults

\* A post that was never written is nobody's business.
OnlyWritten ==
  /\ \A p \in Post : ~Exists(p) =>
       post[p].runs = 0 /\ \A m \in Member, kind \in Kind : told[<<p, m, kind>>] = 0
  /\ cron.batch # None => \A p \in cron.batch : Exists(p)

WorkConsistent ==
  /\ work["cron"] # None =>
       /\ cron.batch # None /\ work["cron"].left # None
       /\ work["cron"].post \notin cron.batch /\ Exists(work["cron"].post)
       /\ work["cron"].kind = Passes[cron.pass]
       /\ work["cron"].seed => work["cron"].kind = "new" \/ work["cron"].left = {}
  /\ cron.batch # None => cron.pass # 0
  /\ \A p \in Post : work[p] # None =>
       /\ work[p].post = p /\ work[p].kind = "new" /\ ~work[p].seed
       /\ Exists(p) /\ Owner[p] # SeedUser

\* Posts are numbered as they are written.
BornInOrder ==
  /\ \A p \in Post : Exists(p) => post[p].born \in 1 .. Written
  /\ \A p, q \in Post : Exists(p) /\ Exists(q) /\ p # q => post[p].born # post[q].born

\* What the demo posters' table remembers of the notices of a member.
DemoRemembered ==
  \A m \in Member :
    LET row == quota[m]
    IN  IF row = None THEN demo[m] = <<>>
        ELSE /\ row.last <= now /\ row.day = row.last \div DayLength
             /\ \A i \in DOMAIN demo[m] :
                  /\ demo[m][i] <= row.last
                  /\ i + row.sent <= Len(demo[m]) => demo[m][i] \div DayLength < row.day

\* A demo post is known for one, or a call failed.
DemoKnown ==
  /\ Cardinality(mistaken) <= faults
  /\ \A p \in Post : Owner[p] = SeedUser /\ p \notin mistaken =>
       /\ Sending(p, "new") => work["cron"].seed
       /\ Sending(p, "ending") => work["cron"].left = {}
       /\ \A m \in Member : told[<<p, m, "ending">>] = 0

DemoBounded ==
  \A m \in Member : \A i, j \in DOMAIN demo[m] :
    /\ demo[m][i] % DayLength \in FromHour .. UntilHour - 1
    /\ i < j => demo[m][j] - demo[m][i] >= MinGap
    /\ j - i >= DailyMax => demo[m][j] \div DayLength > demo[m][i] \div DayLength

Counted ==
  /\ TypeOK
  /\ OnlyWritten /\ WorkConsistent /\ BornInOrder
  /\ NewBounded /\ ChooseBounded /\ EndingBounded
  /\ DemoRemembered /\ DemoBounded

IInv == Counted /\ DemoKnown
=============================================================================
