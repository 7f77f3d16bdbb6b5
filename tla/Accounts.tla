------------------------------- MODULE Accounts -------------------------------
(***************************************************************************)
(* Accounts: registration of merchants and carriers, onboarding (interests *)
(* and documents), the administrators' decisions, suspensions that end by  *)
(* themselves, and a carrier's coverage.                                   *)
(*                                                                         *)
(* Every statement commits by itself, except that a member's interests are *)
(* replaced in a transaction.  Handlers read a row and later write it by   *)
(* id, so a decision may be written on a row that has changed meanwhile.   *)
(* Req is a user's request in flight, one at a time; before it reaches a   *)
(* handler it passes the AccountStatus middleware, which lifts a lapsed    *)
(* suspension on the way.  Login has the same check of its own.            *)
(***************************************************************************)
EXTENDS Integers, FiniteSets

CONSTANTS
  User,          \* accounts, administrators left aside
  Admin,         \* administrators, each with one request at a time
  Saver,         \* requests that replace a member's interests
  Interest,      \* active interests
  Region,        \* governorates
  DocType,       \* the documents an account must submit
  MinInterests,  \* MIN_INTERESTS_AT_REGISTRATION
  Horizon,       \* bound: the last day
  MaxFaults,     \* bound: statements that fail, and restarts
  None           \* SQL NULL, or no such row

Role   == {"merchant", "carrier"}
Status == {"pending_documents", "pending_review", "active", "rejected",
           "suspended", "banned"}
Day    == 0 .. Horizon + 1

UserRow == [status : Status, until : Day \cup {None}, job : Role \cup {""}, count : Nat]

ASSUME AccountsAssumption ==
  /\ IsFiniteSet(User) /\ IsFiniteSet(Interest) /\ Region # {} /\ DocType # {}
  /\ {MinInterests, Horizon, MaxFaults} \subseteq Nat
  /\ None \notin Nat \cup UserRow

VARIABLES
  user,       \* the users table
  interests,  \* user_interests
  docs,       \* user_documents
  coverage,   \* carrier_regions
  profile,    \* accounts with a row in carrier_profiles
  signed,     \* the role an account was registered with
  welcomed,   \* accounts whose registration was answered with a token
  req,        \* each user's request
  admin,      \* each administrator's request
  save,       \* requests replacing interests
  requireDocs,\* the configuration flag REQUIRE_DOCUMENTS
  today, faults

rows  == <<user, interests, docs, coverage, profile, signed, welcomed>>
calls == <<req, admin, save>>
world == <<requireDocs, today, faults>>
vars  == <<rows, calls, world>>

-----------------------------------------------------------------------------
RegisterStep == {"names", "region", "profile", "subscribe"}
RequestOp    == {"login", "me", "status", "docs", "coverage", "job"}
ReqStep      == {"idle", "restore", "read", "activate", "review", "clear", "add", "upsert"}
                  \cup RegisterStep \cup RequestOp

\* todo: the documents or the governorates still to be written.
Req == [step : ReqStep, op : RequestOp \cup {"register", "none"},
        todo : SUBSET (Region \cup DocType)]

AdminOp == {"approve", "reject", "suspend", "unsuspend", "ban", "unban"}
Deed    == [op : AdminOp, user : User]

Saving == [user : User, seen : SUBSET Interest, new : SUBSET Interest]

TypeOK ==
  /\ user \in [User -> UserRow \cup {None}]
  /\ interests \in [User -> SUBSET Interest] /\ docs \in [User -> SUBSET DocType]
  /\ coverage \in [User -> SUBSET Region] /\ profile \subseteq User
  /\ signed \in [User -> Role \cup {None}] /\ welcomed \subseteq User
  /\ req \in [User -> Req] /\ admin \in [Admin -> Deed \cup {None}]
  /\ save \in [Saver -> Saving \cup {None}]
  /\ requireDocs \in BOOLEAN /\ today \in 0 .. Horizon /\ faults \in Nat

Idle == [step |-> "idle", op |-> "none", todo |-> {}]

Init ==
  /\ user = [u \in User |-> None]
  /\ interests = [u \in User |-> {}] /\ docs = [u \in User |-> {}]
  /\ coverage = [u \in User |-> {}] /\ profile = {}
  /\ signed = [u \in User |-> None] /\ welcomed = {}
  /\ req = [u \in User |-> Idle] /\ admin = [a \in Admin |-> None]
  /\ save = [s \in Saver |-> None]
  /\ requireDocs \in BOOLEAN /\ today = 0 /\ faults = 0

Exists(u)    == user[u] # None
At(u, step)  == req[u].step = step
Go(u, step)  == req' = [req EXCEPT ![u].step = step]
Done(u)      == req' = [req EXCEPT ![u] = Idle]
Clock        == <<requireDocs, today>>

\* A statement that fails ends the request.
Failed(u) == faults < MaxFaults /\ faults' = faults + 1 /\ Done(u)

UpdateUserStatus(u, status) == user' = [user EXCEPT ![u].status = status]

-----------------------------------------------------------------------------
(* RegisterUser.                                                           *)

\* Carriers are vetted whatever the documents flag says.
InitialStatus(role) ==
  CASE role = "carrier" -> "pending_review"
    [] role = "merchant" /\ requireDocs -> "pending_documents"
    [] OTHER -> "active"

\* The cached job is written by the next statement.
CreateUser(u) ==
  /\ ~Exists(u) /\ At(u, "idle")
  /\ \E role \in Role, regions \in SUBSET Region :
       /\ (role = "carrier") <=> (regions # {})
       /\ user' = [user EXCEPT ![u] = [status |-> InitialStatus(role), until |-> None,
                                       job |-> "", count |-> 0]]
       /\ signed' = [signed EXCEPT ![u] = role]
       /\ req' = [req EXCEPT ![u] = [step |-> "names", op |-> "register", todo |-> regions]]
  /\ UNCHANGED <<interests, docs, coverage, profile, welcomed, admin, save, world>>

UpdateUserCachedNames(u) ==
  /\ At(u, "names")
  /\ \/ /\ user' = [user EXCEPT ![u].job = signed[u]]
        /\ Go(u, IF signed[u] = "carrier" THEN "region" ELSE "subscribe")
        /\ UNCHANGED faults
     \/ Failed(u) /\ UNCHANGED user
  /\ UNCHANGED <<interests, docs, coverage, profile, signed, welcomed, admin, save, Clock>>

\* Variant: the member is answered before the carrier's setup is saved.
AnswerEarly(u) == welcomed' = welcomed \cup {u}

\* The member is answered at the end of the registration.
AnswerLate(u) == UNCHANGED welcomed

AddCarrierRegion(u) ==
  /\ At(u, "region")
  /\ \/ \E r \in req[u].todo :
          /\ coverage' = [coverage EXCEPT ![u] = @ \cup {r}]
          /\ req' = [req EXCEPT ![u].todo = @ \ {r},
                       ![u].step = IF req[u].todo = {r} THEN "profile" ELSE "region"]
          /\ UNCHANGED faults
     \/ Failed(u) /\ UNCHANGED coverage
  /\ AnswerLate(u)
  /\ UNCHANGED <<user, interests, docs, profile, signed, admin, save, Clock>>

UpsertFirstProfile(u) ==
  /\ At(u, "profile")
  /\ \/ profile' = profile \cup {u} /\ Go(u, "subscribe") /\ UNCHANGED faults
     \/ Failed(u) /\ UNCHANGED profile
  /\ UNCHANGED <<user, interests, docs, coverage, signed, welcomed, admin, save, Clock>>

\* A failure to create the free subscription is only logged; the answer
\* still has a region to read.
CreateFreeSubscription(u) ==
  /\ At(u, "subscribe")
  /\ \/ welcomed' = welcomed \cup {u} /\ Done(u) /\ UNCHANGED faults
     \/ Failed(u) /\ UNCHANGED welcomed
  /\ UNCHANGED <<user, interests, docs, coverage, profile, signed, admin, save, Clock>>

-----------------------------------------------------------------------------
(* A member's requests.                                                    *)

Lapsed(u) == /\ Exists(u) /\ user[u].status = "suspended"
             /\ user[u].until # None /\ user[u].until < today

Barred(u) == user[u].status \in {"suspended", "banned"}

Enter(u, op) ==
  /\ Exists(u) /\ At(u, "idle")
  /\ Barred(u) => Lapsed(u)
  /\ req' = [req EXCEPT ![u] = [step |-> IF Lapsed(u) THEN "restore" ELSE op,
                                op |-> op, todo |-> {}]]
  /\ UNCHANGED <<rows, admin, save, world>>

\* The checks at the head of Login.
CheckLogin(u) == Enter(u, "login")

\* The gate of the carriers' routes, on the cached job.
Carrier(u) == user[u].job = "carrier"

\* The middleware in front of every protected route.
AccountStatus(u, op) ==
  op # "login" /\ Exists(u) /\ (op = "coverage" => Carrier(u)) /\ Enter(u, op)

\* Variant: the update trusts what the middleware has read.
RestoreSuspension(u) ==
  user' = [user EXCEPT ![u].status = "active", ![u].until = None]

\* Variant: the dates are compared the other way round.
RestoreRunning(u) ==
  user' = IF user[u].status = "suspended" /\ user[u].until # None /\ user[u].until >= today
          THEN [user EXCEPT ![u].status = "active", ![u].until = None] ELSE user

\* WHERE status = 'suspended' AND suspended_until <= NOW().
LazyRestoreExpiredSuspension(u) ==
  user' = IF user[u].status = "suspended" /\ user[u].until # None /\ user[u].until <= today
          THEN [user EXCEPT ![u].status = "active", ![u].until = None] ELSE user

\* The request goes on as that of an active account, whatever the update
\* found; only a login stops when it fails.
Restore(u) ==
  /\ At(u, "restore")
  /\ \/ LazyRestoreExpiredSuspension(u) /\ Go(u, req[u].op) /\ UNCHANGED faults
     \/ /\ faults < MaxFaults /\ faults' = faults + 1 /\ UNCHANGED user
        /\ IF req[u].op = "login" THEN Done(u) ELSE Go(u, req[u].op)
  /\ UNCHANGED <<interests, docs, coverage, profile, signed, welcomed, admin, save, Clock>>

\* The session it writes is read by nothing.
Login(u) == At(u, "login") /\ Done(u) /\ UNCHANGED <<rows, admin, save, world>>

EnoughInterests(count) == count >= MinInterests

\* Variant: the repair waits for the interests, as that of the status does.
UnneededByNow(row) == /\ ~requireDocs /\ row.status = "pending_documents"
                      /\ EnoughInterests(row.count)

\* Waiting for documents that are no longer asked for.
Unneeded(row) == ~requireDocs /\ row.status = "pending_documents"

\* GET /auth/me repairs such an account when the application is opened,
\* whatever interests the member has picked.
GetCurrentUser(u) ==
  /\ At(u, "me")
  /\ IF Unneeded(user[u]) THEN Go(u, "activate") ELSE Done(u)
  /\ UNCHANGED <<rows, admin, save, world>>

\* determineOnboardingStatus on the row GetUserStatusData returns: with
\* documents off, pending_documents and enough interests make an account
\* effectively active.  The route is there, though nothing calls it any more.
GetUserStatus(u) ==
  /\ At(u, "status")
  /\ IF ~requireDocs /\ user[u].status = "pending_documents"
        /\ EnoughInterests(user[u].count)
     THEN Go(u, "activate") ELSE Done(u)
  /\ UNCHANGED <<rows, admin, save, world>>

\* By id, whatever the status is by now.  A failure is logged.
ActivateOnRead(u) ==
  /\ At(u, "activate")
  /\ \/ UpdateUserStatus(u, "active") /\ Done(u) /\ UNCHANGED faults
     \/ Failed(u) /\ UNCHANGED user
  /\ UNCHANGED <<interests, docs, coverage, profile, signed, welcomed, admin, save, Clock>>

\* Variant: the account goes to review with its first document.
SomeDocuments(u) == docs[u] # {}

\* The handler wants one of each, and writes them before it goes on.
AllDocuments(u) == docs[u] = DocType

SubmitDocuments(u) ==
  /\ At(u, "docs") /\ ~AllDocuments(u)
  /\ \/ \E d \in DocType \ docs[u] :
          docs' = [docs EXCEPT ![u] = @ \cup {d}] /\ UNCHANGED <<req, faults>>
     \/ Failed(u) /\ UNCHANGED docs
  /\ UNCHANGED <<user, interests, coverage, profile, signed, welcomed, admin, save, Clock>>

\* By id, whatever the status is.
SubmitForReview(u) ==
  /\ At(u, "docs") /\ AllDocuments(u)
  /\ \/ UpdateUserStatus(u, "pending_review") /\ Done(u) /\ UNCHANGED faults
     \/ Failed(u) /\ UNCHANGED user
  /\ UNCHANGED <<interests, docs, coverage, profile, signed, welcomed, admin, save, Clock>>

\* The member's own profile form; any role may be chosen.
UpdateProfile(u) ==
  /\ At(u, "job") /\ Done(u)
  /\ \E role \in Role : user' = [user EXCEPT ![u].job = role]
  /\ UNCHANGED <<interests, docs, coverage, profile, signed, welcomed, admin, save, world>>

\* The carrier's profile form: clear the coverage, write the new one
\* governorate by governorate, then the profile.
ReplaceCarrierRegions(u) ==
  /\ At(u, "coverage")
  /\ \/ /\ coverage' = [coverage EXCEPT ![u] = {}]
        /\ \E regions \in SUBSET Region \ {{}} :
             req' = [req EXCEPT ![u].step = "add", ![u].todo = regions]
        /\ UNCHANGED faults
     \/ Failed(u) /\ UNCHANGED coverage
  /\ UNCHANGED <<user, interests, docs, profile, signed, welcomed, admin, save, Clock>>

AddCoverage(u) ==
  /\ At(u, "add")
  /\ \/ \E r \in req[u].todo :
          /\ coverage' = [coverage EXCEPT ![u] = @ \cup {r}]
          /\ req' = [req EXCEPT ![u].todo = @ \ {r},
                       ![u].step = IF req[u].todo = {r} THEN "upsert" ELSE "add"]
          /\ UNCHANGED faults
     \/ Failed(u) /\ UNCHANGED coverage
  /\ UNCHANGED <<user, interests, docs, profile, signed, welcomed, admin, save, Clock>>

UpsertCarrierProfile(u) ==
  /\ At(u, "upsert")
  /\ \/ profile' = profile \cup {u} /\ Done(u) /\ UNCHANGED faults
     \/ Failed(u) /\ UNCHANGED profile
  /\ UNCHANGED <<user, interests, docs, coverage, signed, welcomed, admin, save, Clock>>

-----------------------------------------------------------------------------
(* ReplaceUserInterests: DELETE sees the rows committed when it starts;    *)
(* the inserts and the count appear when the transaction commits.          *)

BeginReplace(s, u) ==
  /\ save[s] = None /\ Exists(u) /\ ~Barred(u)
  /\ \E new \in SUBSET Interest :
       /\ new # {} /\ Cardinality(new) >= MinInterests
       /\ save' = [save EXCEPT ![s] = [user |-> u, seen |-> interests[u], new |-> new]]
  /\ UNCHANGED <<rows, req, admin, world>>

CommitReplace(s) ==
  LET t == save[s]
  IN  /\ t # None
      /\ save' = [save EXCEPT ![s] = None]
      /\ \/ /\ interests' = [interests EXCEPT ![t.user] = (@ \ t.seen) \cup t.new]
            /\ user' = [user EXCEPT ![t.user].count = Cardinality(t.new)]
            /\ UNCHANGED faults
         \/ faults < MaxFaults /\ faults' = faults + 1 /\ UNCHANGED <<interests, user>>
      /\ UNCHANGED <<docs, coverage, profile, signed, welcomed, req, admin, Clock>>

-----------------------------------------------------------------------------
(* The administrators: every handler reads the account, then writes it.    *)

\* Approvals and refusals want a pending application, suspensions an account
\* that is not banned.
MayDecide(op, u) ==
  /\ op \in {"approve", "reject"} => user[u].status = "pending_review"
  /\ op = "suspend" => user[u].status # "banned"

Open(a, op, u) ==
  /\ admin[a] = None /\ Exists(u) /\ MayDecide(op, u)
  /\ admin' = [admin EXCEPT ![a] = [op |-> op, user |-> u]]
  /\ UNCHANGED <<rows, req, save, world>>

\* The second half of the handler: the account's row becomes one of becomes.
Decide(a, op, becomes(_)) ==
  /\ admin[a] # None /\ admin[a].op = op
  /\ \E row \in becomes(user[admin[a].user]) : user' = [user EXCEPT ![admin[a].user] = row]
  /\ admin' = [admin EXCEPT ![a] = None]
  /\ UNCHANGED <<interests, docs, coverage, profile, signed, welcomed, req, save, world>>

\* A decision on an application is written by id, whatever the status is by
\* now; the other statements check it again.
Approved(row) == {[row EXCEPT !.status = "active"]}
UpdateUserStatusWithReason(row) == {[row EXCEPT !.status = "rejected"]}

SuspendRow(row) ==
  IF row.status = "banned" THEN {row}
  ELSE {[row EXCEPT !.status = "suspended", !.until = d] : d \in {None, today + 1}}

UnsuspendRow(row) ==
  {IF row.status = "suspended" THEN [row EXCEPT !.status = "active", !.until = None] ELSE row}

BanRow(row) ==
  {IF row.status # "banned" THEN [row EXCEPT !.status = "banned", !.until = None] ELSE row}

UnbanRow(row) == {IF row.status = "banned" THEN [row EXCEPT !.status = "active"] ELSE row}

ApproveUser(a)   == Decide(a, "approve", Approved)
RejectUser(a)    == Decide(a, "reject", UpdateUserStatusWithReason)
SuspendUser(a)   == Decide(a, "suspend", SuspendRow)
UnsuspendUser(a) == Decide(a, "unsuspend", UnsuspendRow)
BanUser(a)       == Decide(a, "ban", BanRow)
UnbanUser(a)     == Decide(a, "unban", UnbanRow)

-----------------------------------------------------------------------------
Tick ==
  /\ today < Horizon /\ today' = today + 1
  /\ UNCHANGED <<rows, calls, requireDocs, faults>>

\* Requests in flight are lost; REQUIRE_DOCUMENTS is read at start.
Restart ==
  /\ faults < MaxFaults /\ faults' = faults + 1
  /\ requireDocs' \in BOOLEAN
  /\ req' = [u \in User |-> Idle] /\ admin' = [a \in Admin |-> None]
  /\ save' = [s \in Saver |-> None]
  /\ UNCHANGED <<rows, today>>

Step(u) ==
  \/ UpdateUserCachedNames(u) \/ AddCarrierRegion(u) \/ UpsertFirstProfile(u)
  \/ CreateFreeSubscription(u)
  \/ Restore(u) \/ Login(u) \/ GetCurrentUser(u) \/ GetUserStatus(u)
  \/ ActivateOnRead(u)
  \/ SubmitDocuments(u) \/ SubmitForReview(u) \/ UpdateProfile(u)
  \/ ReplaceCarrierRegions(u) \/ AddCoverage(u) \/ UpsertCarrierProfile(u)

Next ==
  \/ \E u \in User : \/ CreateUser(u) \/ Step(u) \/ CheckLogin(u)
                      \/ \E op \in RequestOp : AccountStatus(u, op)
  \/ \E s \in Saver : CommitReplace(s) \/ (\E u \in User : BeginReplace(s, u))
  \/ \E a \in Admin : \/ ApproveUser(a) \/ RejectUser(a) \/ SuspendUser(a)
                       \/ UnsuspendUser(a) \/ BanUser(a) \/ UnbanUser(a)
                       \/ \E op \in AdminOp, u \in User : Open(a, op, u)
  \/ Tick
  \/ Restart

Spec == Init /\ [][Next]_vars

\* Handlers run to their end, and members keep using the application, which
\* loads the account on every start.
Fairness ==
  \A u \in User : WF_vars(Step(u)) /\ SF_vars(AccountStatus(u, "me"))

FairSpec == Spec /\ Fairness

-----------------------------------------------------------------------------
(* Properties.                                                             *)

\* A ban and a suspension that is not over are lifted only by an
\* administrator's request or by a request of the member that got past the
\* check before: no request that starts afterwards, and no lapsed-suspension
\* update that raced with the new sanction, brings the account back.
SanctionsHold ==
  [][\A u \in User :
       ( /\ Exists(u) /\ Barred(u)
         /\ ~(user[u].status = "suspended" /\ user[u].until # None /\ user[u].until <= today)
         /\ user'[u].status \notin {"suspended", "banned"} )
       => \/ \E a \in Admin : admin[a] # None /\ admin[a].user = u /\ admin'[a] = None
          \/ req[u].step \notin {"idle", "restore"}]_vars

\* Nobody waits for a review with documents missing: a merchant's account is
\* in the queue only once every document is stored, whatever failed before;
\* and every row keeps its type.
ReviewQueueIsComplete ==
  TypeOK /\ \A u \in User : (Exists(u) /\ signed[u] = "merchant" /\ user[u].status = "pending_review")
                    => docs[u] = DocType

\* A carrier that was told it is registered covers a governorate and has a
\* profile, except while its own form is being saved or after a statement
\* has failed.
CarriersAreSetUp ==
  \A u \in welcomed :
    (signed[u] = "carrier" /\ faults = 0 /\ req[u].step # "add")
      => coverage[u] # {} /\ u \in profile

\* A suspension that has run out ends once the member comes back.
LapsedSuspensionsEnd == \A u \in User : Lapsed(u) ~> ~Lapsed(u)

\* With documents switched off nobody stays in pending_documents, waiting for
\* a step that no longer exists: neither a failed repair, nor a restart
\* between the read and the write, nor the setting changing back and forth
\* leaves a member there for good.
Stranded(u) == Exists(u) /\ user[u].status = "pending_documents" /\ ~requireDocs

OnboardingEnds == \A u \in User : Stranded(u) ~> ~Stranded(u)

-----------------------------------------------------------------------------
(* The inductive invariant.                                                *)

\* Whatever is under way is about an account that exists.
AccountsExist ==
  /\ \A u \in User : req[u].step # "idle" \/ u \in welcomed => Exists(u)
  /\ \A u \in User : Exists(u) => signed[u] \in Role
  /\ \A a \in Admin : admin[a] # None => Exists(admin[a].user)
  /\ \A s \in Saver : save[s] # None => Exists(save[s].user)

\* A request behind the middleware is one of a member, and what is still to be
\* written of a coverage are governorates.
RequestOK(u) ==
  /\ At(u, "restore") => req[u].op \in RequestOp
  /\ req[u].step \in {"names", "region", "add"} => req[u].todo \subseteq Region

DocumentsOK(u) ==
  (Exists(u) /\ signed[u] = "merchant" /\ user[u].status = "pending_review")
    => docs[u] = DocType

\* How far the setup of a carrier has come at each step, while nothing failed.
Covered(u) == coverage[u] # {}

SetUpOK(u) ==
  /\ signed[u] = "carrier" /\ req[u].step \in {"names", "region"} => req[u].todo # {}
  /\ req[u].step \in {"profile", "upsert"} => Covered(u)
  /\ signed[u] = "carrier" /\ At(u, "subscribe") => Covered(u) /\ u \in profile
  /\ signed[u] = "carrier" /\ u \in welcomed => u \in profile /\ (Covered(u) \/ At(u, "add"))

SetUpConsistent == faults = 0 => \A u \in User : SetUpOK(u)

IInv ==
  /\ TypeOK /\ AccountsExist
  /\ \A u \in User : RequestOK(u) /\ DocumentsOK(u)
  /\ SetUpConsistent
=============================================================================
